---------------------------- MODULE PortalLogin ----------------------------
(***************************************************************************)
(* Logging in at web-portal: auth_callback looks up the user's bank        *)
(* account, creates one when it finds none, ends the user's older          *)
(* sessions, checks the device and stores the new session.                 *)
(*                                                                         *)
(* web-portal is one asyncio process; each action is what a handler does   *)
(* between two awaits.  _sessions lives in its memory, the known devices   *)
(* in Redis, the accounts behind api-gateway in account-service.           *)
(***************************************************************************)
EXTENDS Integers, FiniteSets

CONSTANTS
  Logins,      \* calls of auth_callback; a login's session has its name
  AccountIds,  \* what _gen_account_id may draw
  UserOf,      \* UserOf[l]: the user who logs in
  DeviceOf,    \* DeviceOf[l]: the browser's ztlab_device_id
  Taken,       \* ids of the accounts other users have
  MaxTries,    \* 5: draws of an account id in one login
  MaxRestarts, \* bound: restarts of web-portal
  None

Parameters ==
  /\ None \notin Logins \cup AccountIds
  /\ Taken \subseteq AccountIds
  /\ MaxTries \in Nat \ {0} /\ MaxRestarts \in Nat

VARIABLES
  stage,     \* stage[l]: the await login l is at
  asked,     \* asked[l]: account id of its last POST /accounts
  wire,      \* wire[l]: that POST: "none", "sent", "created" or "conflict"
  tries,     \* tries[l]: account ids drawn so far
  maker,     \* maker[id]: login whose POST inserted account id
  shown,     \* shown[l]: account_id of the session
  trust,     \* trust[l]: device_trust of the session
  sessions,  \* _sessions
  known,     \* known[u]: the Redis set of the devices of user u
  boots,     \* restarts so far
  before,    \* history: before[l], the logins over when l began
  blind,     \* history: logins whose lookup failed
  forsaken   \* history: logins that stopped waiting for their POST

vars == <<stage, asked, wire, tries, maker, shown, trust, sessions, known, boots,
          before, blind, forsaken>>

Users   == {UserOf[l] : l \in Logins}
Devices == {DeviceOf[l] : l \in Logins}

Stages == {"idle", "lookup", "create", "device", "register", "done", "refused", "cut"}
Over(l) == stage[l] \in {"done", "refused", "cut"}

TypeOK ==
  /\ stage \in [Logins -> Stages]
  /\ asked \in [Logins -> AccountIds \cup {None}]
  /\ wire \in [Logins -> {"none", "sent", "created", "conflict"}]
  /\ tries \in [Logins -> 0..MaxTries]
  /\ maker \in [AccountIds -> Logins \cup {None}]
  /\ shown \in [Logins -> AccountIds \cup {None}]
  /\ trust \in [Logins -> {"unknown", "trusted", "new_device", "suspicious"}]
  /\ sessions \subseteq Logins
  /\ known \in [Users -> SUBSET Devices]
  /\ boots \in 0..MaxRestarts
  /\ before \in [Logins -> SUBSET Logins]
  /\ blind \subseteq Logins /\ forsaken \subseteq Logins

Init ==
  /\ stage = [l \in Logins |-> "idle"]
  /\ asked = [l \in Logins |-> None]
  /\ wire = [l \in Logins |-> "none"]
  /\ tries = [l \in Logins |-> 0]
  /\ maker = [id \in AccountIds |-> None]
  /\ shown = [l \in Logins |-> None]
  /\ trust = [l \in Logins |-> "unknown"]
  /\ sessions = {}
  /\ known = [u \in Users |-> {}]
  /\ boots = 0
  /\ before = [l \in Logins |-> {}]
  /\ blind = {}
  /\ forsaken = {}

SameUser(l, m) == UserOf[l] = UserOf[m]

Accounts(u) == {id \in AccountIds : maker[id] # None /\ UserOf[maker[id]] = u}

-----------------------------------------------------------------------------
(* Errors, the PKCE cookie and the exchange of the code come first.        *)
Begin(l) ==
  /\ stage[l] = "idle"
  /\ stage' = [stage EXCEPT ![l] = "lookup"]
  /\ before' = [before EXCEPT ![l] = {m \in Logins : Over(m)}]
  /\ UNCHANGED <<asked, wire, tries, maker, shown, trust, sessions, known, boots,
                 blind, forsaken>>

Refused(l) ==
  /\ stage[l] = "idle"
  /\ stage' = [stage EXCEPT ![l] = "refused"]
  /\ UNCHANGED <<asked, wire, tries, maker, shown, trust, sessions, known, boots,
                 before, blind, forsaken>>

(* From the account to the device check without an await: the user's older *)
(* sessions go, and a browser whose user agent is missing or on the list   *)
(* of suspicious ones gets its session at once.                            *)
\* Mutation: no session is ended.
Stale_m(l) == {}

Stale(l) == {m \in sessions : SameUser(l, m)}

HasAccount(l, id) ==
  /\ shown' = [shown EXCEPT ![l] = id]
  /\ \/ /\ stage' = [stage EXCEPT ![l] = "done"]
        /\ trust' = [trust EXCEPT ![l] = "suspicious"]
        /\ sessions' = (sessions \ Stale(l)) \cup {l}
     \/ /\ stage' = [stage EXCEPT ![l] = "device"]
        /\ sessions' = sessions \ Stale(l)
        /\ UNCHANGED trust
  /\ UNCHANGED <<known, boots, before>>

(* _lookup_account: an error of any kind reads as no account.              *)
LookupFinds(l) ==
  /\ stage[l] = "lookup"
  /\ \E id \in Accounts(UserOf[l]) : HasAccount(l, id)
  /\ UNCHANGED <<asked, wire, tries, maker, blind, forsaken>>

LookupFindsNone(l) ==
  /\ stage[l] = "lookup"
  /\ Accounts(UserOf[l]) = {}
  /\ stage' = [stage EXCEPT ![l] = "create"]
  /\ UNCHANGED <<asked, wire, tries, maker, shown, trust, sessions, known, boots,
                 before, blind, forsaken>>

LookupFails(l) ==
  /\ stage[l] = "lookup"
  /\ stage' = [stage EXCEPT ![l] = "create"]
  /\ blind' = blind \cup {l}
  /\ UNCHANGED <<asked, wire, tries, maker, shown, trust, sessions, known, boots,
                 before, forsaken>>

(* _create_bank_account_with_token: draw an id, post it, draw again on 409.*)
Post(l, id) ==
  /\ stage[l] = "create" /\ wire[l] = "none"
  /\ asked' = [asked EXCEPT ![l] = id]
  /\ wire' = [wire EXCEPT ![l] = "sent"]
  /\ tries' = [tries EXCEPT ![l] = @ + 1]
  /\ UNCHANGED <<stage, maker, shown, trust, sessions, known, boots, before, blind,
                 forsaken>>

(* account-service inserts the row, perhaps when nobody waits any more.    *)
Insert(l) ==
  /\ wire[l] = "sent"
  /\ IF maker[asked[l]] = None /\ asked[l] \notin Taken
     THEN /\ maker' = [maker EXCEPT ![asked[l]] = l]
          /\ wire' = [wire EXCEPT ![l] = "created"]
     ELSE /\ wire' = [wire EXCEPT ![l] = "conflict"]
          /\ UNCHANGED maker
  /\ UNCHANGED <<stage, asked, tries, shown, trust, sessions, known, boots, before,
                 blind, forsaken>>

Created(l) ==
  /\ stage[l] = "create" /\ wire[l] = "created"
  /\ HasAccount(l, asked[l])
  /\ UNCHANGED <<asked, wire, tries, maker, blind, forsaken>>

\* Mutation: a conflict is taken for success.
Conflict_m(l) ==
  /\ stage[l] = "create" /\ wire[l] = "conflict"
  /\ HasAccount(l, asked[l])
  /\ UNCHANGED <<asked, wire, tries, maker, blind, forsaken>>

Conflict(l) ==
  /\ stage[l] = "create" /\ wire[l] = "conflict"
  /\ IF tries[l] < MaxTries
     THEN /\ wire' = [wire EXCEPT ![l] = "none"]
          /\ UNCHANGED <<stage, shown, trust, sessions, known, boots, before>>
     ELSE HasAccount(l, None) /\ UNCHANGED wire
  /\ UNCHANGED <<asked, tries, maker, blind, forsaken>>

(* Another status, or no answer in ten seconds: no account, and no retry.  *)
\* Mutation: a POST without an answer is tried again with another id.
CreateFails_m(l) ==
  /\ stage[l] = "create" /\ wire[l] # "none" /\ tries[l] < MaxTries
  /\ wire' = [wire EXCEPT ![l] = "none"]
  /\ UNCHANGED <<stage, asked, tries, maker, shown, trust, sessions, known, boots,
                 before, blind, forsaken>>

CreateFails(l) ==
  /\ stage[l] = "create" /\ wire[l] # "none"
  /\ HasAccount(l, None)
  /\ forsaken' = forsaken \cup {l}
  /\ UNCHANGED <<asked, wire, tries, maker, blind>>

-----------------------------------------------------------------------------
(* _evaluate_device_trust for an agent that is not suspicious; an error of *)
(* Redis reads as an unknown device.                                       *)
LogIn(l) ==
  /\ stage' = [stage EXCEPT ![l] = "done"]
  /\ sessions' = sessions \cup {l}

DeviceAnswer(l, isKnown) ==
  /\ stage[l] = "device"
  /\ IF isKnown
     THEN /\ trust' = [trust EXCEPT ![l] = "trusted"]
          /\ LogIn(l)
     ELSE /\ trust' = [trust EXCEPT ![l] = "new_device"]
          /\ stage' = [stage EXCEPT ![l] = "register"]
          /\ UNCHANGED sessions
  /\ UNCHANGED <<asked, wire, tries, maker, shown, known, boots, before, blind, forsaken>>

DeviceChecked(l)    == DeviceAnswer(l, DeviceOf[l] \in known[UserOf[l]])
\* Mutation: without an answer of Redis the device is trusted.
DeviceCheckFails_m(l) == DeviceAnswer(l, TRUE)

DeviceCheckFails(l) == DeviceAnswer(l, FALSE)

DeviceRegistered(l) ==
  /\ stage[l] = "register"
  /\ known' = [known EXCEPT ![UserOf[l]] = @ \cup {DeviceOf[l]}]
  /\ UNCHANGED <<stage, asked, wire, tries, maker, shown, trust, sessions, boots,
                 before, blind, forsaken>>

(* sadd has answered or failed; either way the session is set.             *)
Registered(l) ==
  /\ stage[l] = "register"
  /\ LogIn(l)
  /\ UNCHANGED <<asked, wire, tries, maker, shown, trust, known, boots, before, blind,
                 forsaken>>

(* Logout, or the age limit in _get_session and _cleanup_sessions.         *)
SessionEnds(l) ==
  /\ l \in sessions
  /\ sessions' = sessions \ {l}
  /\ UNCHANGED <<stage, asked, wire, tries, maker, shown, trust, known, boots, before,
                 blind, forsaken>>

(* The process dies and starts again: sessions and handlers are lost, what *)
(* is on the wire to account-service is not.                               *)
Restart ==
  /\ boots < MaxRestarts
  /\ boots' = boots + 1
  /\ stage' = [l \in Logins |-> IF Over(l) \/ stage[l] = "idle" THEN stage[l] ELSE "cut"]
  /\ sessions' = {}
  /\ forsaken' = forsaken \cup {l \in Logins : stage[l] = "create"}
  /\ UNCHANGED <<asked, wire, tries, maker, shown, trust, known, before, blind>>

Next ==
  \/ \E l \in Logins :
       \/ Begin(l) \/ Refused(l)
       \/ LookupFinds(l) \/ LookupFindsNone(l) \/ LookupFails(l)
       \/ \E id \in AccountIds : Post(l, id)
       \/ Insert(l) \/ Created(l) \/ Conflict(l) \/ CreateFails(l)
       \/ DeviceChecked(l) \/ DeviceCheckFails(l)
       \/ DeviceRegistered(l) \/ Registered(l)
       \/ SessionEnds(l)
  \/ Restart

Spec == Init /\ [][Next]_vars

-----------------------------------------------------------------------------
(* A login ends the user's older sessions, although it awaits the device   *)
(* check between removing them and adding its own: two live sessions of    *)
(* one user come from logins that overlapped (auth_callback).              *)
OneSessionPerUser ==
  \A l, m \in sessions : l # m /\ SameUser(l, m) => l \notin before[m]

(* A user gets a second account, with a second opening balance, only when  *)
(* his logins overlapped, a lookup failed, or a login gave up on a POST    *)
(* that may still have gone through; one login never makes two.            *)
(* (auth_callback, _lookup_account, _create_bank_account_with_token.)      *)
SecondAccountHasACause ==
  \A a, b \in AccountIds :
    LET l == maker[a]
        m == maker[b]
    IN  a # b /\ l # None /\ m # None =>
          /\ l # m
          /\ SameUser(l, m) /\ l \in before[m] => m \in blind \/ l \in forsaken

(* The account a session works with belongs to the session's user, also    *)
(* after a conflict of ids (_create_bank_account_with_token).              *)
ShownAccountIsOwn ==
  \A l \in sessions : shown[l] # None => shown[l] \in Accounts(UserOf[l])

(* Accounts: none more than the user needs without a cause, and none of    *)
(* somebody else's (auth_callback).                                        *)
AccountsAreSound == SecondAccountHasACause /\ ShownAccountIsOwn

(* A device is trusted only when an earlier login of the same user had met *)
(* it as a new one, whatever Redis fails to answer                         *)
(* (_evaluate_device_trust).                                               *)
TrustIsEarned ==
  \A l \in Logins :
    trust[l] = "trusted" =>
      \E m \in Logins \ {l} : /\ SameUser(l, m)
                              /\ DeviceOf[m] = DeviceOf[l]
                              /\ trust[m] = "new_device"

(* The session a login leaves behind has replaced the older ones, and the  *)
(* trust it carries is earned (auth_callback).                             *)
LoginIsSound == OneSessionPerUser /\ TrustIsEarned
=============================================================================
