---------------------------- MODULE PortalTokens ----------------------------
(***************************************************************************)
(* One session of web-portal and its tokens: _ensure_valid_token refreshes *)
(* the access token shortly before it expires, several requests of the     *)
(* session may do so at once, and the session ends by logout, by age, or   *)
(* by the end of the single sign-on session at Keycloak, which soar-engine *)
(* or an administrator may cause at any time.                              *)
(*                                                                         *)
(* A token is the number of ticks until its exp, at least -1.  A tick is   *)
(* ten seconds: the time-outs of the calls bound how long they wait.       *)
(*                                                                         *)
(* A request is one call to api-gateway of one handler:                    *)
(*   "page"      has its token checked and calls at once;                  *)
(*   "admin"     asks Keycloak for an admin token, and perhaps for every   *)
(*               user, between the check and the call;                     *)
(*   "scenario"  takes the token of the session as it is, and may call     *)
(*               after earlier calls of the same handler.                  *)
(***************************************************************************)
EXTENDS Integers, FiniteSetsExt

CONSTANTS
  Requests,      \* requests of the session that call api-gateway
  Mixes,         \* what the requests may be: functions from Requests to Kinds
  Lifetime,      \* accessTokenLifespan, in ticks
  Margin,        \* the 30 seconds of _ensure_valid_token, in ticks
  CallTime,      \* time-out of a call to api-gateway, in ticks
  RefreshTime,   \* time-out of a refresh or a logout at Keycloak, in ticks
  MaxAge,        \* SESSION_MAX_AGE, in ticks
  CleanInterval  \* the sleep of _cleanup_sessions, in ticks

Kinds == {"page", "admin", "scenario"}

Parameters ==
  /\ Mixes \subseteq [Requests -> Kinds] /\ Mixes # {}
  /\ CallTime \in Nat /\ RefreshTime \in Nat
  /\ Margin \in Nat /\ CallTime <= Margin
  /\ Lifetime \in Nat /\ Lifetime >= Margin + RefreshTime
  /\ MaxAge \in Nat /\ CleanInterval \in Nat \ {0}

VARIABLES
  kind,     \* kind[q]: the handler of request q
  stage,    \* stage[q]: where that handler is
  waited,   \* waited[q]: ticks it has been there
  carried,  \* carried[q]: the access token q calls the gateway with
  minted,   \* minted[q]: the token Keycloak issued for q's refresh
  failed,   \* failed[q]: q's refresh brought no token
  answer,   \* answer[q]: what api-gateway said of the token
  late,     \* history: requests that were answered more than Margin after
            \* their handler had its token
  held,     \* access_token of the session
  session,  \* the record is in _sessions
  age,      \* ticks since created_at
  cleaner,  \* ticks until _cleanup_sessions wakes up
  leaving,  \* the logout: "no", "asking" Keycloak, or "left"
  sso,      \* the single sign-on session is alive
  ended     \* history: ticks since it ended, up to Lifetime + 1

vars == <<kind, stage, waited, carried, minted, failed, answer, late, held, session,
          age, cleaner, leaving, sso, ended>>

NoToken == -2
Tokens  == -1..Lifetime
MaxSeen == MaxAge + CleanInterval + 1  \* ages above it are alike
MaxWait == Max({RefreshTime, Margin + 1})  \* as are waits above it

TypeOK ==
  /\ kind \in Mixes
  /\ stage \in [Requests -> {"idle", "refreshing", "calling", "over"}]
  /\ waited \in [Requests -> 0..MaxWait]
  /\ carried \in [Requests -> Tokens]
  /\ minted \in [Requests -> Tokens \cup {NoToken}]
  /\ failed \in [Requests -> BOOLEAN]
  /\ answer \in [Requests -> {"none", "accepted", "rejected"}]
  /\ late \subseteq Requests
  /\ held \in Tokens
  /\ session \in BOOLEAN /\ sso \in BOOLEAN
  /\ age \in 0..MaxSeen /\ cleaner \in 0..CleanInterval
  /\ leaving \in {"no", "asking", "left"}
  /\ ended \in 0..(Lifetime + 1)

(* A login has just stored the session; the cleaner is somewhere in its    *)
(* sleep.                                                                  *)
Init ==
  /\ kind \in Mixes
  /\ stage = [q \in Requests |-> "idle"]
  /\ waited = [q \in Requests |-> 0]
  /\ carried = [q \in Requests |-> -1]
  /\ minted = [q \in Requests |-> NoToken]
  /\ failed = [q \in Requests |-> FALSE]
  /\ answer = [q \in Requests |-> "none"]
  /\ late = {}
  /\ held = Lifetime
  /\ session = TRUE
  /\ age = 0
  /\ cleaner \in 1..CleanInterval
  /\ leaving = "no"
  /\ sso = TRUE
  /\ ended = 0

-----------------------------------------------------------------------------
(* _get_session, then the token: a scenario takes it from the session, and *)
(* the others from _ensure_valid_token, here up to its first await.        *)
\* Mutation: no margin.
Fresh_m(token) == token > 0

Fresh(token) == token > Margin

Enter(q) ==
  /\ stage[q] = "idle"
  /\ session /\ age <= MaxAge
  /\ carried' = [carried EXCEPT ![q] = held]
  /\ stage' = [stage EXCEPT ![q] = IF kind[q] = "scenario" \/ Fresh(held)
                                   THEN "calling" ELSE "refreshing"]
  /\ UNCHANGED <<kind, waited, minted, failed, answer, late, held, session, age, cleaner,
                 leaving, sso, ended>>

EnterTooOld(q) ==
  /\ stage[q] = "idle"
  /\ session /\ age > MaxAge
  /\ session' = FALSE
  /\ stage' = [stage EXCEPT ![q] = "over"]
  /\ UNCHANGED <<kind, waited, carried, minted, failed, answer, late, held, age, cleaner,
                 leaving, sso, ended>>

(* Keycloak answers the refresh as long as the sign-on session is alive;   *)
(* the refresh token is not rotated, so any number of requests may use it. *)
Mint(q) ==
  /\ stage[q] = "refreshing" /\ minted[q] = NoToken
  /\ sso
  /\ minted' = [minted EXCEPT ![q] = Lifetime]
  /\ UNCHANGED <<kind, stage, waited, carried, failed, answer, late, held, session, age,
                 cleaner, leaving, sso, ended>>

Call(q) ==
  /\ stage' = [stage EXCEPT ![q] = "calling"]
  /\ waited' = [waited EXCEPT ![q] = 0]

Refreshed(q) ==
  /\ stage[q] = "refreshing" /\ minted[q] # NoToken
  /\ held' = minted[q]
  /\ carried' = [carried EXCEPT ![q] = minted[q]]
  /\ Call(q)
  /\ UNCHANGED <<kind, minted, failed, answer, late, session, age, cleaner, leaving, sso,
                 ended>>

(* Refused, unreachable, or too late: the old token is used.               *)
RefreshFails(q) ==
  /\ stage[q] = "refreshing"
  /\ failed' = [failed EXCEPT ![q] = TRUE]
  /\ Call(q)
  /\ UNCHANGED <<kind, carried, minted, answer, late, held, session, age, cleaner, leaving,
                 sso, ended>>

(* api-gateway checks the signature and exp, and nothing at Keycloak.      *)
\* Mutation: exp is not checked.
Valid_m(token) == TRUE

Valid(token) == token >= 0

Verify(q) ==
  /\ stage[q] = "calling"
  /\ answer' = [answer EXCEPT ![q] = IF Valid(carried[q]) THEN "accepted" ELSE "rejected"]
  /\ late' = IF waited[q] > Margin THEN late \cup {q} ELSE late
  /\ stage' = [stage EXCEPT ![q] = "over"]
  /\ waited' = [waited EXCEPT ![q] = 0]
  /\ UNCHANGED <<kind, carried, minted, failed, held, session, age, cleaner, leaving, sso,
                 ended>>

(* No admin token, or a call that does not reach api-gateway.              *)
GiveUp(q) ==
  /\ stage[q] = "calling"
  /\ stage' = [stage EXCEPT ![q] = "over"]
  /\ waited' = [waited EXCEPT ![q] = 0]
  /\ UNCHANGED <<kind, carried, minted, failed, answer, late, held, session, age, cleaner,
                 leaving, sso, ended>>

-----------------------------------------------------------------------------
(* logout asks Keycloak to end the sign-on session, and whatever comes of  *)
(* it removes the record afterwards.                                       *)
LogoutBegins ==
  /\ leaving = "no"
  /\ session /\ age <= MaxAge
  /\ leaving' = "asking"
  /\ UNCHANGED <<kind, stage, waited, carried, minted, failed, answer, late, held, session,
                 age, cleaner, sso, ended>>

LogoutEnds ==
  /\ leaving = "asking"
  /\ leaving' = "left"
  /\ session' = FALSE
  /\ UNCHANGED <<kind, stage, waited, carried, minted, failed, answer, late, held, age,
                 cleaner, sso, ended>>

(* Keycloak: a logout, a revocation by soar-engine, or its own limits.     *)
SsoEnds ==
  /\ sso
  /\ sso' = FALSE
  /\ UNCHANGED <<kind, stage, waited, carried, minted, failed, answer, late, held, session,
                 age, cleaner, leaving, ended>>

\* Mutation: the loop lets a session pass once more.
Cleanup_m ==
  /\ cleaner = 0
  /\ cleaner' = CleanInterval
  /\ session' = (session /\ age <= MaxAge + 1)
  /\ UNCHANGED <<kind, stage, waited, carried, minted, failed, answer, late, held, age,
                 leaving, sso, ended>>

Cleanup ==
  /\ cleaner = 0
  /\ cleaner' = CleanInterval
  /\ session' = (session /\ age <= MaxAge)
  /\ UNCHANGED <<kind, stage, waited, carried, minted, failed, answer, late, held, age,
                 leaving, sso, ended>>

(* No call outlives its time-out, and the loop wakes up on time.  What an  *)
(* admin or a scenario handler does before its call has no limit here: it  *)
(* grows with the number of users, or of earlier calls.                    *)
Patient(q) ==
  /\ stage[q] = "calling" /\ kind[q] = "page" => waited[q] < CallTime
  /\ stage[q] = "refreshing" => waited[q] < RefreshTime

Older(token) == IF token = NoToken THEN NoToken ELSE Max({-1, token - 1})

Tick ==
  /\ \A q \in Requests : Patient(q)
  /\ leaving # "asking"
  /\ cleaner > 0
  /\ cleaner' = cleaner - 1
  /\ age' = Min({MaxSeen, age + 1})
  /\ held' = Older(held)
  /\ carried' = [q \in Requests |-> Older(carried[q])]
  /\ minted' = [q \in Requests |-> Older(minted[q])]
  /\ waited' = [q \in Requests |-> IF stage[q] \in {"calling", "refreshing"}
                                   THEN Min({MaxWait, waited[q] + 1}) ELSE 0]
  /\ ended' = IF sso THEN 0 ELSE Min({Lifetime + 1, ended + 1})
  /\ UNCHANGED <<kind, stage, failed, answer, late, session, leaving, sso>>

Next ==
  \/ \E q \in Requests :
       \/ Enter(q) \/ EnterTooOld(q)
       \/ Mint(q) \/ Refreshed(q) \/ RefreshFails(q)
       \/ Verify(q) \/ GiveUp(q)
  \/ LogoutBegins \/ LogoutEnds
  \/ SsoEnds
  \/ Cleanup
  \/ Tick

Spec == Init /\ [][Next]_vars

-----------------------------------------------------------------------------
(* A user is not turned away because his token ran out: a page is rejected *)
(* only when its own refresh failed, although several requests refresh at  *)
(* once, the older answer may be stored last, and a token ages while the   *)
(* call is under way; an admin handler also when it took more than Margin  *)
(* from the token to the answer.  Of scenarios, which refresh nothing,     *)
(* nothing is promised (_ensure_valid_token, admin_users,                  *)
(* admin_all_accounts, run_scenario).                                      *)
OnlyFailedRefreshIsRejected ==
  \A q \in Requests :
    answer[q] = "rejected" /\ kind[q] # "scenario" =>
      failed[q] \/ (kind[q] = "admin" /\ q \in late)

(* A revoked user is cut off: once the sign-on session has ended, a token  *)
(* of it is accepted for one lifetime at most, whatever refreshes were     *)
(* under way (_ensure_valid_token, _verify_token of api-gateway).          *)
RevokedIsCutOff ==
  [][\A q \in Requests :
       answer[q] # "accepted" /\ answer'[q] = "accepted" => sso \/ ended <= Lifetime]_vars

(* A session nobody uses does not stay in memory: it is gone one pass of   *)
(* _cleanup_sessions after its time.                                       *)
OldSessionsGo == session => age <= MaxAge + CleanInterval

(* A session serves its user without a gap, ends when he is revoked, and   *)
(* does not outlive its age (_ensure_valid_token, _cleanup_sessions).      *)
SessionIsSound ==
  [](OnlyFailedRefreshIsRejected /\ OldSessionsGo) /\ RevokedIsCutOff
=============================================================================
