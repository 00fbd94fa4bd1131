-------------------------- MODULE Services_proofs --------------------------
(***************************************************************************)
(* Theorems about the services around the payment chain, for any value of  *)
(* their parameters.  Each service has an inductive invariant of its own.  *)
(***************************************************************************)
EXTENDS Services, AiAlerts_proofs, FiniteSetTheorems, SequenceTheorems, TLAPS

(* A step of the composition is a step of the service that runs.           *)
LEMMA OneRuns ==
  ASSUME [ServicesNext]_allVars
  PROVE  /\ component' = component
         /\ Runs("alerts") => [Next]_vars
         /\ Runs("bans") => [Bans!Next]_Bans!vars
         /\ Runs("login") => [Login!Next]_Login!vars
         /\ [Tokens!Next]_Tokens!vars
         /\ Runs("register") => [Register!Next]_Register!vars
         /\ [Door!Next]_Door!vars
         /\ Runs("score") => [Score!Next]_Score!vars
         /\ Runs("store") => [Store!Next]_Store!vars
<1>1. CASE ServicesNext
  BY <1>1 DEF ServicesNext, Runs, alertVars, scoreVars, banVars, loginVars, tokensVars, registerVars,
     doorVars, storeVars, Bans!vars, Login!vars, Tokens!vars, Register!vars, Door!vars,
     Score!vars, Store!vars
<1>2. CASE UNCHANGED allVars
  BY <1>2 DEF allVars, alertVars, scoreVars, banVars, loginVars, tokensVars, registerVars,
     doorVars, storeVars, Bans!vars, Login!vars, Tokens!vars, Register!vars, Door!vars,
     Score!vars, Store!vars
<1> QED
  BY <1>1, <1>2

-----------------------------------------------------------------------------
(* Blocklist.                                                              *)
(*                                                                         *)
(* What is over before a handler starts is over for good.                  *)
BansBefore ==
  \A g, h \in Bans!Handlers : g \in banBefore[h] => banStage[g] = "over"

(* A handler about to remove the member has seen no key, or a block came   *)
(* in between.                                                             *)
BansRemove ==
  \A h \in Unblocks \cup Lists :
    banStage[h] = "second" /\ banned => \E b \in Blocks : Bans!Overlap(b, h)

(* An unblocking all of whose blocks were over has deleted the key.        *)
BansClear(u) == \A b \in Blocks : banStage[b] = "idle" \/ b \in banBefore[u]

BansDeleted ==
  \A u \in Unblocks : banStage[u] = "second" /\ BansClear(u) => ~banned

BansInv == /\ Bans!TypeOK /\ BansBefore /\ BansRemove /\ BansDeleted
           /\ Bans!UnlistedBanHasACause /\ Bans!UnblockedIsFree

LEMMA BansInit == Bans!Init => BansInv
BY DEF Bans!Init, BansInv, Bans!TypeOK, BansBefore, BansRemove, BansDeleted,
       Bans!UnlistedBanHasACause, Bans!UnblockedIsFree, Bans!Handlers

(* What no step undoes: being over, having overlapped, having failed.      *)
LEMMA BansStable ==
  ASSUME BansInv, [Bans!Next]_Bans!vars
  PROVE  /\ Bans!TypeOK' /\ BansBefore'
         /\ \A g, h \in Bans!Handlers : Bans!Overlap(g, h) => Bans!Overlap(g, h)'
         /\ \A u \in Unblocks : banStage[u] # "idle" /\ BansClear(u)' => BansClear(u)
         /\ banFailed \subseteq banFailed'
<1> USE DEF BansInv, Bans!Handlers
<1>1. ASSUME NEW h \in Bans!Handlers, Bans!Start(h)
      PROVE  /\ Bans!TypeOK' /\ BansBefore'
             /\ \A f, g \in Bans!Handlers : Bans!Overlap(f, g) => Bans!Overlap(f, g)'
             /\ \A u \in Unblocks : banStage[u] # "idle" /\ BansClear(u)' => BansClear(u)
             /\ banFailed \subseteq banFailed'
  BY <1>1 DEF Bans!Start, Bans!TypeOK, BansBefore, Bans!Overlap, BansClear
<1>2. ASSUME NEW h \in Bans!Handlers, banStage[h] # "idle", banStage[h] # "over",
             NEW to \in {"get", "second", "over"},
             banStage' = [banStage EXCEPT ![h] = to], banBefore' = banBefore,
             banned' \in BOOLEAN, listed' \in BOOLEAN,
             banFailed \subseteq banFailed', banFailed' \subseteq Bans!Handlers
      PROVE  /\ Bans!TypeOK' /\ BansBefore'
             /\ \A f, g \in Bans!Handlers : Bans!Overlap(f, g) => Bans!Overlap(f, g)'
             /\ \A u \in Unblocks : banStage[u] # "idle" /\ BansClear(u)' => BansClear(u)
  BY <1>2 DEF Bans!TypeOK, BansBefore, Bans!Overlap, BansClear
<1>3. ASSUME NEW h \in Bans!Handlers,
             \/ Bans!Fails(h) \/ Bans!SetKey(h) \/ Bans!AddMember(h) \/ Bans!DeleteKey(h)
             \/ Bans!ReadMembers(h) \/ Bans!ReadKey(h) \/ Bans!RemoveMember(h)
      PROVE  /\ banStage[h] # "idle" /\ banStage[h] # "over" /\ banBefore' = banBefore
             /\ \E to \in {"get", "second", "over"} :
                  banStage' = [banStage EXCEPT ![h] = to]
             /\ banned' \in BOOLEAN /\ listed' \in BOOLEAN
             /\ banFailed \subseteq banFailed' /\ banFailed' \subseteq Bans!Handlers
  BY <1>3 DEF Bans!Fails, Bans!SetKey, Bans!AddMember, Bans!DeleteKey, Bans!ReadMembers,
     Bans!ReadKey, Bans!RemoveMember, Bans!Step, Bans!UnderWay, Bans!TypeOK
<1>4. CASE Bans!KeyExpires \/ UNCHANGED Bans!vars
  BY <1>4 DEF Bans!KeyExpires, Bans!vars, Bans!TypeOK, BansBefore, Bans!Overlap, BansClear
<1> QED
  BY <1>1, <1>2, <1>3, <1>4 DEF Bans!Next

LEMMA BansCauses ==
  ASSUME BansInv, [Bans!Next]_Bans!vars
  PROVE  BansRemove' /\ Bans!UnlistedBanHasACause'
<1> USE DEF BansInv, Bans!Handlers
<1>1. /\ \A g, h \in Bans!Handlers : Bans!Overlap(g, h) => Bans!Overlap(g, h)'
      /\ banFailed \subseteq banFailed'
  BY BansStable
<1>2. ASSUME NEW b \in Blocks, Bans!SetKey(b) PROVE BansRemove' /\ Bans!UnlistedBanHasACause'
  <2>1. banStage[b] = "first" /\ banStage' = [banStage EXCEPT ![b] = "second"]
        /\ banBefore' = banBefore
    BY <1>2 DEF Bans!SetKey, Bans!Step
  <2>2. ASSUME NEW h \in Unblocks \cup Lists, banStage'[h] = "second"
        PROVE  Bans!Overlap(b, h)'
    BY <2>1, <2>2 DEF Bans!Overlap, Bans!TypeOK, BansBefore
  <2>3. banStage'[b] = "second"
    BY <2>1 DEF Bans!TypeOK
  <2> QED
    BY <2>2, <2>3 DEF BansRemove, Bans!UnlistedBanHasACause
<1>3. ASSUME NEW h \in Unblocks \cup Lists, Bans!RemoveMember(h)
      PROVE  BansRemove' /\ Bans!UnlistedBanHasACause'
  <2>1. /\ banStage[h] = "second" /\ banned' = banned
        /\ banStage' = [banStage EXCEPT ![h] = "over"]
    BY <1>3 DEF Bans!RemoveMember, Bans!Step
  <2>2. BansRemove'
    BY <1>1, <2>1 DEF BansRemove, Bans!TypeOK
  <2>3. banned' => \E b \in Blocks : Bans!Overlap(b, h)'
    BY <1>1, <2>1 DEF BansRemove
  <2> QED
    BY <2>2, <2>3 DEF Bans!UnlistedBanHasACause
<1>4. ASSUME NEW h \in Bans!Handlers,
             \/ Bans!Start(h) \/ Bans!Fails(h) \/ Bans!AddMember(h) \/ Bans!DeleteKey(h)
             \/ Bans!ReadMembers(h) \/ Bans!ReadKey(h)
      PROVE  BansRemove' /\ Bans!UnlistedBanHasACause'
  <2>1. /\ banned' => banned
        /\ \A g \in Bans!Handlers : banStage'[g] = "second" => banStage[g] = "second" \/ ~banned'
    BY <1>4 DEF Bans!Start, Bans!Fails, Bans!AddMember, Bans!DeleteKey, Bans!ReadMembers,
       Bans!ReadKey, Bans!Step, Bans!TypeOK
  <2>2. BansRemove'
    BY <1>1, <2>1 DEF BansRemove
  <2>3. ASSUME banned', ~listed', NEW b \in Blocks, banStage[b] = "second"
        PROVE  banStage'[b] = "second" \/ b \in banFailed'
    BY <1>4, <2>3 DEF Bans!Start, Bans!Fails, Bans!AddMember, Bans!DeleteKey,
       Bans!ReadMembers, Bans!ReadKey, Bans!Step, Bans!TypeOK
  <2>4. ~listed' => ~listed
    BY <1>4 DEF Bans!Start, Bans!Fails, Bans!AddMember, Bans!DeleteKey,
       Bans!ReadMembers, Bans!ReadKey, Bans!Step, Bans!TypeOK
  <2>5. Bans!UnlistedBanHasACause'
    BY <1>1, <2>1, <2>3, <2>4 DEF Bans!UnlistedBanHasACause
  <2> QED
    BY <2>2, <2>5
<1>5. CASE Bans!KeyExpires
  BY <1>5 DEF Bans!KeyExpires, BansRemove, Bans!UnlistedBanHasACause
<1>6. CASE UNCHANGED Bans!vars
  BY <1>6 DEF Bans!vars, BansRemove, Bans!UnlistedBanHasACause, Bans!Overlap
<1> QED
  BY <1>2, <1>3, <1>4, <1>5, <1>6 DEF Bans!Next, Bans!SetKey, Bans!RemoveMember

LEMMA BansFreed ==
  ASSUME Bans!Parameters, BansInv, [Bans!Next]_Bans!vars
  PROVE  BansDeleted' /\ Bans!UnblockedIsFree'
<1> USE DEF BansInv, Bans!Handlers
<1>1. \A u \in Unblocks : banStage[u] # "idle" /\ BansClear(u)' => BansClear(u)
  BY BansStable
<1>2. BansBefore' /\ Bans!TypeOK'
  BY BansStable
<1>3. ASSUME NEW b \in Blocks, Bans!SetKey(b) \/ Bans!AddMember(b), NEW u \in Unblocks
      PROVE  ~BansClear(u)
  BY <1>3 DEF Bans!SetKey, Bans!AddMember, Bans!Step, BansClear, BansBefore
<1>4. ASSUME NEW u \in Unblocks, BansClear(u)', banStage'[u] = "second"
      PROVE  ~banned'
  <2>1. banStage[u] # "idle" /\ BansClear(u)
    <3>1. banStage[u] # "idle"
      BY <1>4 DEF Bans!Next, Bans!Start, Bans!Fails, Bans!SetKey, Bans!AddMember,
         Bans!DeleteKey, Bans!ReadMembers, Bans!ReadKey, Bans!RemoveMember, Bans!Step,
         Bans!KeyExpires, Bans!vars, Bans!TypeOK
    <3> QED
      BY <1>1, <1>4, <3>1
  <2>2. CASE \E b \in Blocks : Bans!SetKey(b)
    BY <1>3, <2>1, <2>2
  <2>3. CASE Bans!DeleteKey(u)
    BY <2>3 DEF Bans!DeleteKey
  <2>4. CASE banStage[u] = "second" /\ ~\E b \in Blocks : Bans!SetKey(b)
    <3>1. ~banned
      BY <2>1, <2>4 DEF BansDeleted
    <3> QED
      BY <2>4, <3>1 DEF Bans!Next, Bans!Start, Bans!Fails, Bans!SetKey, Bans!AddMember,
         Bans!DeleteKey, Bans!ReadMembers, Bans!ReadKey, Bans!RemoveMember, Bans!Step,
         Bans!KeyExpires, Bans!vars
  <2>5. CASE banStage[u] # "second" /\ ~Bans!DeleteKey(u)
    BY <1>4, <2>5 DEF Bans!Parameters, Bans!Next, Bans!Start, Bans!Fails, Bans!SetKey,
       Bans!AddMember, Bans!DeleteKey, Bans!ReadMembers, Bans!ReadKey, Bans!RemoveMember,
       Bans!Step, Bans!KeyExpires, Bans!vars, Bans!TypeOK
  <2> QED
    BY <2>2, <2>3, <2>4, <2>5
<1>5. ASSUME NEW u \in Unblocks, BansClear(u)', banStage'[u] = "over", u \notin banFailed'
      PROVE  ~banned' /\ ~listed'
  <2>1. banStage[u] # "idle" /\ BansClear(u)
    <3>1. banStage[u] # "idle"
      BY <1>5 DEF Bans!Next, Bans!Start, Bans!Fails, Bans!SetKey, Bans!AddMember,
         Bans!DeleteKey, Bans!ReadMembers, Bans!ReadKey, Bans!RemoveMember, Bans!Step,
         Bans!KeyExpires, Bans!vars, Bans!TypeOK, Bans!UnderWay
    <3> QED
      BY <1>1, <1>5, <3>1
  <2>2. ~\E b \in Blocks : Bans!SetKey(b) \/ Bans!AddMember(b)
    BY <1>3, <2>1
  <2>3. (banned' => banned) /\ (listed' => listed)
    BY <2>2 DEF Bans!Next, Bans!Start, Bans!Fails, Bans!SetKey, Bans!AddMember,
       Bans!DeleteKey, Bans!ReadMembers, Bans!ReadKey, Bans!RemoveMember, Bans!Step,
       Bans!KeyExpires, Bans!vars
  <2>4. CASE banStage[u] = "over"
    <3>1. u \notin banFailed
      BY <1>5, BansStable
    <3> QED
      BY <2>1, <2>3, <2>4, <3>1 DEF Bans!UnblockedIsFree, BansClear
  <2>5. CASE banStage[u] # "over"
    <3>1. banStage[u] = "second" /\ ~listed'
      BY <1>5, <2>2, <2>5 DEF Bans!Parameters, Bans!Next, Bans!Start, Bans!Fails, Bans!SetKey,
         Bans!AddMember, Bans!DeleteKey, Bans!ReadMembers, Bans!ReadKey, Bans!RemoveMember,
         Bans!Step, Bans!KeyExpires, Bans!vars, Bans!TypeOK
    <3> QED
      BY <2>1, <2>3, <3>1 DEF BansDeleted
  <2> QED
    BY <2>4, <2>5
<1>6. BansDeleted'
  BY <1>4 DEF BansDeleted
<1>7. Bans!UnblockedIsFree'
  BY <1>5 DEF Bans!UnblockedIsFree, BansClear
<1> QED
  BY <1>6, <1>7

(* However blocks, unblockings, listings, expiries and failures of Redis   *)
(* interleave, the list of bans and the keys agree up to the named causes, *)
(* and an unblocking that overlaps no block frees the address              *)
(* (redis_block_ip, redis_unblock_ip, redis_get_blocked_ips).              *)
THEOREM ListAndKeysAgree == ServicesSpec => [](BansAgree /\ (Runs("bans") => Bans!TypeOK))
<1> DEFINE Inv == Runs("bans") => BansInv
<1>1. ServicesInit => Inv
  BY BansInit DEF ServicesInit
<1>2. ASSUME Inv, [ServicesNext]_allVars PROVE Inv'
  BY <1>2, OneRuns, ServicesAssumption, BansStable, BansCauses, BansFreed DEF BansInv, Runs
<1>3. Inv => BansAgree /\ (Runs("bans") => Bans!TypeOK)
  BY DEF BansInv, BansAgree, Bans!BansAgree
<1> QED
  BY <1>1, <1>2, <1>3, PTL DEF ServicesSpec

-----------------------------------------------------------------------------
(* PortalLogin.                                                            *)
(*                                                                         *)
(* Where a login is, what its POST came to, and what its session shows.    *)
LoginProgress(l) ==
  /\ loginStage[l] \in {"idle", "lookup"} => wire[l] = "none" /\ tries[l] = 0
  /\ loginStage[l] = "create" /\ wire[l] = "none" => tries[l] < MaxTries
  /\ wire[l] = "sent" => asked[l] \in AccountIds
  /\ wire[l] = "sent" /\ loginStage[l] # "create" => l \in forsaken
  /\ wire[l] = "created" => asked[l] \in AccountIds /\ maker[asked[l]] = l
  /\ shown[l] # NoLogin => shown[l] \in Login!Accounts(UserOf[l])
  /\ l \in sessions => loginStage[l] = "done"
  /\ trust[l] # "unknown" => loginStage[l] \in {"register", "done", "cut"}
  /\ loginStage[l] = "register" => trust[l] = "new_device"

(* A login inserts at most one account.                                    *)
LoginMakes ==
  \A id \in AccountIds, l \in Logins :
    maker[id] = l => wire[l] = "created" /\ asked[l] = id

(* What was over when a login began is over for good.                      *)
LoginBefore == \A l, m \in Logins : m \in before[l] => Login!Over(m)

(* After the older sessions were ended none of them comes back.            *)
LoginReplaces ==
  \A l, m \in Logins :
    loginStage[l] \in {"device", "register"} /\ m \in sessions /\ UserOf[l] = UserOf[m]
      => m \notin before[l]

(* A known device was a new one of that user.                              *)
LoginKnows ==
  \A l \in Logins : \A d \in known[UserOf[l]] :
    \E m \in Logins : UserOf[m] = UserOf[l] /\ DeviceOf[m] = d /\ trust[m] = "new_device"

(* A login that looked and found nothing comes after no account of an      *)
(* older login, unless that one left its POST on the wire.                 *)
LoginLooked ==
  \A l, m \in Logins :
    /\ loginStage[m] = "create" \/ wire[m] # "none"
    /\ m \notin blind /\ UserOf[l] = UserOf[m] /\ l \in before[m] /\ l \notin forsaken
    => \A id \in AccountIds : maker[id] # l

LoginInv ==
  /\ Login!TypeOK /\ \A l \in Logins : LoginProgress(l)
  /\ LoginMakes /\ LoginBefore /\ LoginReplaces /\ LoginKnows /\ LoginLooked
  /\ Login!OneSessionPerUser /\ Login!TrustIsEarned /\ Login!SecondAccountHasACause

LEMMA LoginInit == Login!Parameters /\ Login!Init => LoginInv
<1> SUFFICES ASSUME Login!Parameters, Login!Init PROVE LoginInv
  OBVIOUS
<1>1. Login!TypeOK
  BY DEF Login!Parameters, Login!Init, Login!TypeOK, Login!Stages
<1>2. ASSUME NEW l \in Logins PROVE LoginProgress(l)
  BY DEF Login!Parameters, Login!Init, LoginProgress
<1>3. LoginMakes /\ LoginBefore /\ LoginReplaces /\ LoginLooked
  BY DEF Login!Parameters, Login!Init, LoginMakes, LoginBefore, LoginReplaces, LoginLooked
<1>4. LoginKnows
  BY DEF Login!Init, Login!Users, LoginKnows
<1>5. Login!OneSessionPerUser /\ Login!TrustIsEarned /\ Login!SecondAccountHasACause
  BY DEF Login!Init, Login!OneSessionPerUser, Login!TrustIsEarned,
     Login!SecondAccountHasACause
<1> QED
  BY <1>1, <1>2, <1>3, <1>4, <1>5 DEF LoginInv

LEMMA LoginTyped ==
  ASSUME Login!Parameters, LoginInv, [Login!Next]_Login!vars
  PROVE  Login!TypeOK'
<1> USE DEF LoginInv
<1>1. ASSUME NEW l \in Logins, NEW id \in AccountIds \cup {NoLogin}, Login!HasAccount(l, id),
             UNCHANGED <<asked, tries, maker, blind>>, wire' = wire,
             forsaken' \subseteq Logins
      PROVE  Login!TypeOK'
  BY <1>1 DEF Login!HasAccount, Login!TypeOK, Login!Stages, Login!Stale
<1>2. ASSUME NEW l \in Logins,
             Login!Begin(l) \/ Login!Refused(l) \/ Login!LookupFindsNone(l) \/ Login!LookupFails(l)
      PROVE  Login!TypeOK'
  BY <1>2 DEF Login!Begin, Login!Refused, Login!LookupFindsNone, Login!LookupFails,
     Login!TypeOK, Login!Stages
<1>3. ASSUME NEW l \in Logins, NEW id \in AccountIds, Login!Post(l, id) PROVE Login!TypeOK'
  <2>1. tries[l] < MaxTries /\ tries[l] \in 0..MaxTries /\ MaxTries \in Nat
    BY <1>3 DEF Login!Post, LoginProgress, Login!TypeOK, Login!Parameters
  <2>2. tries' \in [Logins -> 0..MaxTries]
    BY <1>3, <2>1 DEF Login!Post, Login!TypeOK
  <2> QED
    BY <1>3, <2>2 DEF Login!Post, Login!TypeOK
<1>4. ASSUME NEW l \in Logins, Login!Insert(l) PROVE Login!TypeOK'
  BY <1>4 DEF Login!Insert, LoginProgress, Login!TypeOK
<1>5. ASSUME NEW l \in Logins, Login!LookupFinds(l) \/ Login!Created(l) \/ Login!CreateFails(l)
      PROVE  Login!TypeOK'
  BY <1>1, <1>5 DEF Login!LookupFinds, Login!Created, Login!CreateFails, Login!Accounts,
     LoginProgress, Login!TypeOK
<1>6. ASSUME NEW l \in Logins, Login!Conflict(l) PROVE Login!TypeOK'
  <2>1. CASE tries[l] < MaxTries
    BY <1>6, <2>1 DEF Login!Conflict, Login!TypeOK
  <2>2. CASE ~(tries[l] < MaxTries)
    BY <1>1, <1>6, <2>2 DEF Login!Conflict, Login!TypeOK
  <2> QED
    BY <2>1, <2>2
<1>7. ASSUME NEW l \in Logins, Login!DeviceChecked(l) \/ Login!DeviceCheckFails(l) PROVE Login!TypeOK'
  BY <1>7 DEF Login!DeviceChecked, Login!DeviceCheckFails, Login!DeviceAnswer, Login!LogIn,
     Login!TypeOK, Login!Stages
<1>8. ASSUME NEW l \in Logins,
             Login!DeviceRegistered(l) \/ Login!Registered(l) \/ Login!SessionEnds(l)
      PROVE  Login!TypeOK'
  <2>1. DeviceOf[l] \in Login!Devices
    BY DEF Login!Devices
  <2> QED
    BY <1>8, <2>1 DEF Login!DeviceRegistered, Login!Registered, Login!SessionEnds,
       Login!LogIn, Login!TypeOK, Login!Stages
<1>9. CASE Login!Restart
  <2>1. logBoots' \in 0..PortalRestarts
    BY <1>9 DEF Login!Restart, Login!Parameters, Login!TypeOK
  <2> QED
    BY <1>9, <2>1 DEF Login!Restart, Login!TypeOK, Login!Stages
<1>10. CASE UNCHANGED Login!vars
  BY <1>10 DEF Login!vars, Login!TypeOK
<1> QED
  BY <1>2, <1>3, <1>4, <1>5, <1>6, <1>7, <1>8, <1>9, <1>10 DEF Login!Next

(* What no step undoes.                                                    *)
LoginOnward ==
  /\ \A l \in Logins : Login!Over(l) => loginStage'[l] = loginStage[l]
  /\ \A l \in Logins : loginStage[l] # "idle" =>
       loginStage'[l] # "idle" /\ before'[l] = before[l]
  /\ \A id \in AccountIds : maker[id] # NoLogin => maker'[id] = maker[id]
  /\ \A l \in Logins : trust[l] # "unknown" => trust'[l] = trust[l]
  /\ blind \subseteq blind' /\ forsaken \subseteq forsaken'

LEMMA LoginGoesOn ==
  ASSUME Login!Parameters, LoginInv, [Login!Next]_Login!vars
  PROVE  LoginOnward
<1> USE DEF LoginInv
<1>1. ASSUME NEW l \in Logins, NEW id, Login!HasAccount(l, id), maker' = maker, blind' = blind,
             loginStage[l] \in {"lookup", "create"}, forsaken \subseteq forsaken'
      PROVE  LoginOnward
  <2>1. trust[l] = "unknown"
    BY <1>1 DEF LoginProgress, Login!TypeOK
  <2> QED
    BY <1>1, <2>1 DEF Login!HasAccount, LoginOnward, Login!Over, Login!TypeOK
<1>2. ASSUME NEW l \in Logins,
             Login!Begin(l) \/ Login!Refused(l) \/ Login!LookupFindsNone(l) \/ Login!LookupFails(l)
      PROVE  LoginOnward
  BY <1>2 DEF Login!Begin, Login!Refused, Login!LookupFindsNone, Login!LookupFails,
     LoginOnward, Login!Over, Login!TypeOK
<1>3. ASSUME NEW l \in Logins, NEW id \in AccountIds, Login!Post(l, id) PROVE LoginOnward
  BY <1>3 DEF Login!Post, LoginOnward
<1>4. ASSUME NEW l \in Logins, Login!Insert(l) PROVE LoginOnward
  BY <1>4 DEF Login!Insert, LoginOnward, Login!TypeOK
<1>5. ASSUME NEW l \in Logins, Login!LookupFinds(l) \/ Login!Created(l) \/ Login!CreateFails(l)
      PROVE  LoginOnward
  BY <1>1, <1>5 DEF Login!LookupFinds, Login!Created, Login!CreateFails
<1>6. ASSUME NEW l \in Logins, Login!Conflict(l) PROVE LoginOnward
  <2>1. CASE tries[l] < MaxTries
    BY <1>6, <2>1 DEF Login!Conflict, LoginOnward
  <2>2. CASE ~(tries[l] < MaxTries)
    BY <1>1, <1>6, <2>2 DEF Login!Conflict
  <2> QED
    BY <2>1, <2>2
<1>7. ASSUME NEW l \in Logins, Login!DeviceChecked(l) \/ Login!DeviceCheckFails(l) PROVE LoginOnward
  <2>1. trust[l] = "unknown" /\ loginStage[l] = "device"
    BY <1>7 DEF Login!DeviceChecked, Login!DeviceCheckFails, Login!DeviceAnswer,
       LoginProgress, Login!TypeOK
  <2> QED
    BY <1>7, <2>1 DEF Login!DeviceChecked, Login!DeviceCheckFails, Login!DeviceAnswer,
       Login!LogIn, LoginOnward, Login!Over, Login!TypeOK
<1>8. ASSUME NEW l \in Logins,
             Login!DeviceRegistered(l) \/ Login!Registered(l) \/ Login!SessionEnds(l)
      PROVE  LoginOnward
  BY <1>8 DEF Login!DeviceRegistered, Login!Registered, Login!SessionEnds, Login!LogIn,
     LoginOnward, Login!Over, Login!TypeOK
<1>9. CASE Login!Restart \/ UNCHANGED Login!vars
  BY <1>9 DEF Login!Restart, Login!vars, LoginOnward, Login!Over, Login!TypeOK
<1> QED
  BY <1>2, <1>3, <1>4, <1>5, <1>6, <1>7, <1>8, <1>9 DEF Login!Next

(* Each login keeps its progress.  The accounts a user has remain his.     *)
LEMMA LoginProgresses ==
  ASSUME Login!Parameters, LoginInv, [Login!Next]_Login!vars
  PROVE  \A m \in Logins : LoginProgress(m)'
<1> USE DEF LoginInv
<1>1. LoginOnward
  BY LoginGoesOn
<1>2. ASSUME NEW u PROVE Login!Accounts(u) \subseteq Login!Accounts(u)'
  BY <1>1 DEF LoginOnward, Login!Accounts
<1>3. ASSUME NEW m \in Logins,
             loginStage'[m] = loginStage[m], wire'[m] = wire[m], tries'[m] = tries[m],
             asked'[m] = asked[m], shown'[m] = shown[m], trust'[m] = trust[m],
             m \in sessions' => m \in sessions
      PROVE  LoginProgress(m)'
  BY <1>1, <1>2, <1>3 DEF LoginProgress, LoginOnward, Login!Parameters
<1>4. ASSUME NEW l \in Logins, NEW id \in AccountIds \cup {NoLogin}, Login!HasAccount(l, id),
             id # NoLogin => id \in Login!Accounts(UserOf[l])', maker' = maker,
             loginStage[l] \in {"lookup", "create"},
             UNCHANGED <<asked, wire, tries>>,
             wire[l] = "sent" => l \in forsaken'
      PROVE  \A m \in Logins : LoginProgress(m)'
  <2>1. ASSUME NEW m \in Logins \ {l} PROVE LoginProgress(m)'
    BY <1>3, <1>4 DEF Login!HasAccount, Login!TypeOK
  <2>2. LoginProgress(l)'
    BY <1>4 DEF Login!HasAccount, LoginProgress, Login!TypeOK
  <2> QED
    BY <2>1, <2>2
<1>5. ASSUME NEW l \in Logins,
             Login!Begin(l) \/ Login!Refused(l) \/ Login!LookupFindsNone(l) \/ Login!LookupFails(l)
      PROVE  \A m \in Logins : LoginProgress(m)'
  <2>1. ASSUME NEW m \in Logins \ {l} PROVE LoginProgress(m)'
    BY <1>3, <1>5 DEF Login!Begin, Login!Refused, Login!LookupFindsNone, Login!LookupFails,
       Login!TypeOK
  <2>2. LoginProgress(l)'
    BY <1>2, <1>5 DEF Login!Begin, Login!Refused, Login!LookupFindsNone, Login!LookupFails,
       LoginProgress, Login!TypeOK, Login!Parameters
  <2> QED
    BY <2>1, <2>2
<1>6. ASSUME NEW l \in Logins, NEW id \in AccountIds, Login!Post(l, id)
      PROVE  \A m \in Logins : LoginProgress(m)'
  <2>1. ASSUME NEW m \in Logins \ {l} PROVE LoginProgress(m)'
    BY <1>3, <1>6 DEF Login!Post, Login!TypeOK
  <2>2. LoginProgress(l)'
    BY <1>2, <1>6 DEF Login!Post, LoginProgress, Login!TypeOK
  <2> QED
    BY <2>1, <2>2
<1>7. ASSUME NEW l \in Logins, Login!Insert(l)
      PROVE  \A m \in Logins : LoginProgress(m)'
  <2>1. ASSUME NEW m \in Logins \ {l} PROVE LoginProgress(m)'
    BY <1>3, <1>7 DEF Login!Insert, Login!TypeOK
  <2>2. LoginProgress(l)'
    BY <1>2, <1>7 DEF Login!Insert, LoginProgress, Login!TypeOK
  <2> QED
    BY <2>1, <2>2
<1>8. ASSUME NEW l \in Logins, Login!LookupFinds(l)
      PROVE  \A m \in Logins : LoginProgress(m)'
  <2>1. wire[l] = "none"
    BY <1>8 DEF Login!LookupFinds, LoginProgress
  <2> QED
    BY <1>2, <1>4, <1>8, <2>1 DEF Login!LookupFinds, Login!Accounts
<1>9. ASSUME NEW l \in Logins, Login!Created(l)
      PROVE  \A m \in Logins : LoginProgress(m)'
  <2>1. asked[l] \in Login!Accounts(UserOf[l])
    BY <1>9 DEF Login!Created, LoginProgress, Login!Accounts, Login!Parameters
  <2> QED
    BY <1>2, <1>4, <1>9, <2>1 DEF Login!Created, Login!Accounts
<1>10. ASSUME NEW l \in Logins, Login!CreateFails(l) \/ Login!Conflict(l)
       PROVE  \A m \in Logins : LoginProgress(m)'
  <2>1. CASE Login!HasAccount(l, NoLogin) /\ wire' = wire
    BY <1>4, <1>10, <2>1 DEF Login!CreateFails, Login!Conflict
  <2>2. CASE Login!Conflict(l) /\ tries[l] < MaxTries
    <3>1. ASSUME NEW m \in Logins \ {l} PROVE LoginProgress(m)'
      BY <1>3, <2>2 DEF Login!Conflict, Login!TypeOK
    <3>2. LoginProgress(l)'
      BY <1>2, <2>2 DEF Login!Conflict, LoginProgress, Login!TypeOK
    <3> QED
      BY <3>1, <3>2
  <2> QED
    BY <1>10, <2>1, <2>2 DEF Login!CreateFails, Login!Conflict
<1>11. ASSUME NEW l \in Logins, Login!DeviceChecked(l) \/ Login!DeviceCheckFails(l)
       PROVE  \A m \in Logins : LoginProgress(m)'
  <2>1. ASSUME NEW m \in Logins \ {l} PROVE LoginProgress(m)'
    BY <1>3, <1>11 DEF Login!DeviceChecked, Login!DeviceCheckFails, Login!DeviceAnswer,
       Login!LogIn, Login!TypeOK
  <2>2. LoginProgress(l)'
    BY <1>2, <1>11 DEF Login!DeviceChecked, Login!DeviceCheckFails, Login!DeviceAnswer,
       Login!LogIn, LoginProgress, Login!TypeOK
  <2> QED
    BY <2>1, <2>2
<1>12. ASSUME NEW l \in Logins,
              Login!DeviceRegistered(l) \/ Login!Registered(l) \/ Login!SessionEnds(l)
       PROVE  \A m \in Logins : LoginProgress(m)'
  <2>1. ASSUME NEW m \in Logins \ {l} PROVE LoginProgress(m)'
    BY <1>3, <1>12 DEF Login!DeviceRegistered, Login!Registered, Login!SessionEnds,
       Login!LogIn, Login!TypeOK
  <2>2. LoginProgress(l)'
    BY <1>2, <1>12 DEF Login!DeviceRegistered, Login!Registered, Login!SessionEnds,
       Login!LogIn, LoginProgress, Login!TypeOK
  <2> QED
    BY <2>1, <2>2
<1>13. CASE Login!Restart
  <2>1. ASSUME NEW m \in Logins PROVE LoginProgress(m)'
    BY <1>2, <1>13 DEF Login!Restart, Login!Over, LoginProgress, Login!TypeOK
  <2> QED
    BY <2>1
<1>14. CASE UNCHANGED Login!vars
  BY <1>3, <1>14 DEF Login!vars
<1> QED
  BY <1>5, <1>6, <1>7, <1>8, <1>9, <1>10, <1>11, <1>12, <1>13, <1>14 DEF Login!Next

(* What one step may change of the sessions, the devices and the accounts. *)
LoginChanges ==
  /\ \A l \in Logins : before'[l] \subseteq before[l] \cup {m \in Logins : Login!Over(m)}
  /\ \A m \in sessions' \ sessions :
       /\ loginStage[m] \in {"lookup", "create", "device", "register"}
       /\ \/ loginStage[m] \in {"device", "register"}
          \/ \A k \in sessions' \ {m} : UserOf[k] # UserOf[m]
  /\ \A l \in Logins : loginStage'[l] \in {"device", "register"} =>
       \/ loginStage[l] \in {"device", "register"}
       \/ \A k \in sessions' : UserOf[k] # UserOf[l]
  /\ \A l \in Logins : trust'[l] = "trusted" =>
       trust[l] = "trusted" \/ DeviceOf[l] \in known[UserOf[l]]
  /\ \A l \in Logins : \A d \in known'[UserOf[l]] :
       \/ d \in known[UserOf[l]]
       \/ \E m \in Logins : /\ UserOf[m] = UserOf[l] /\ DeviceOf[m] = d
                            /\ trust[m] = "new_device"
  /\ \A id \in AccountIds, l \in Logins : maker'[id] = l =>
       \/ maker[id] = l
       \/ wire[l] = "sent" /\ wire'[l] = "created" /\ asked'[l] = id
  /\ \A l \in Logins : wire[l] = "created" => wire'[l] = "created" /\ asked'[l] = asked[l]
  /\ \A m \in Logins : loginStage'[m] = "create" \/ wire'[m] # "none" =>
       /\ loginStage[m] # "idle"
       /\ \/ loginStage[m] = "create" \/ wire[m] # "none" \/ m \in blind'
          \/ Login!Accounts(UserOf[m]) = {}

LEMMA LoginStep ==
  ASSUME Login!Parameters, LoginInv, [Login!Next]_Login!vars
  PROVE  LoginChanges
<1> USE DEF LoginInv
<1>1. ASSUME NEW l \in Logins, NEW id, Login!HasAccount(l, id),
             UNCHANGED <<asked, wire, maker>>, loginStage[l] \in {"lookup", "create"}
      PROVE  LoginChanges
  BY <1>1 DEF Login!HasAccount, Login!Stale, Login!SameUser, LoginChanges, LoginProgress,
     Login!TypeOK
<1>2. ASSUME NEW l \in Logins, Login!Begin(l) \/ Login!Refused(l)
      PROVE  LoginChanges
  BY <1>2 DEF Login!Begin, Login!Refused, LoginChanges, LoginProgress, Login!TypeOK
<1>3. ASSUME NEW l \in Logins, Login!LookupFindsNone(l) \/ Login!LookupFails(l)
      PROVE  LoginChanges
  <2>1. l \in blind' \/ Login!Accounts(UserOf[l]) = {}
    BY <1>3 DEF Login!LookupFindsNone, Login!LookupFails
  <2>2. /\ loginStage[l] = "lookup" /\ loginStage' = [loginStage EXCEPT ![l] = "create"]
        /\ UNCHANGED <<asked, wire, maker, trust, sessions, known, before>>
    BY <1>3 DEF Login!LookupFindsNone, Login!LookupFails
  <2>3. ASSUME NEW m \in Logins, loginStage'[m] = "create" \/ wire'[m] # "none"
        PROVE  /\ loginStage[m] # "idle"
               /\ \/ loginStage[m] = "create" \/ wire[m] # "none" \/ m \in blind'
                  \/ Login!Accounts(UserOf[m]) = {}
    <3>1. CASE m = l
      BY <2>1, <2>2, <3>1
    <3>2. CASE m # l
      BY <2>2, <2>3, <3>2 DEF LoginProgress, Login!TypeOK
    <3> QED
      BY <3>1, <3>2
  <2>4. sessions' \ sessions = {}
    BY <2>2
  <2>5. ASSUME NEW m \in Logins, loginStage'[m] \in {"device", "register"}
        PROVE  loginStage[m] \in {"device", "register"}
    BY <2>2, <2>5 DEF Login!TypeOK
  <2> QED
    BY <2>2, <2>3, <2>4, <2>5 DEF LoginChanges
<1>4. ASSUME NEW l \in Logins, NEW id \in AccountIds, Login!Post(l, id) PROVE LoginChanges
  BY <1>4 DEF Login!Post, LoginChanges, LoginProgress, Login!TypeOK
<1>5. ASSUME NEW l \in Logins, Login!Insert(l) PROVE LoginChanges
  BY <1>5 DEF Login!Insert, LoginChanges, LoginProgress, Login!TypeOK
<1>6. ASSUME NEW l \in Logins, Login!LookupFinds(l) \/ Login!Created(l) \/ Login!CreateFails(l)
      PROVE  LoginChanges
  BY <1>1, <1>6 DEF Login!LookupFinds, Login!Created, Login!CreateFails
<1>7. ASSUME NEW l \in Logins, Login!Conflict(l) PROVE LoginChanges
  <2>1. CASE tries[l] < MaxTries
    BY <1>7, <2>1 DEF Login!Conflict, LoginChanges, LoginProgress, Login!TypeOK
  <2>2. CASE ~(tries[l] < MaxTries)
    BY <1>1, <1>7, <2>2 DEF Login!Conflict
  <2> QED
    BY <2>1, <2>2
<1>8. ASSUME NEW l \in Logins, Login!DeviceChecked(l) \/ Login!DeviceCheckFails(l)
      PROVE  LoginChanges
  BY <1>8 DEF Login!DeviceChecked, Login!DeviceCheckFails, Login!DeviceAnswer,
     Login!LogIn, LoginChanges, LoginProgress, Login!TypeOK
<1>9. ASSUME NEW l \in Logins, Login!DeviceRegistered(l) PROVE LoginChanges
  BY <1>9 DEF Login!DeviceRegistered, Login!Users, LoginChanges, LoginProgress, Login!TypeOK
<1>10. ASSUME NEW l \in Logins, Login!Registered(l) \/ Login!SessionEnds(l)
       PROVE  LoginChanges
  BY <1>10 DEF Login!Registered, Login!SessionEnds, Login!LogIn, LoginChanges,
     LoginProgress, Login!TypeOK
<1>11. CASE Login!Restart
  BY <1>11 DEF Login!Restart, LoginChanges, LoginProgress, Login!TypeOK
<1>12. CASE UNCHANGED Login!vars
  BY <1>12 DEF Login!vars, LoginChanges, LoginProgress, Login!TypeOK
<1> QED
  BY <1>2, <1>3, <1>4, <1>5, <1>6, <1>7, <1>8, <1>9, <1>10, <1>11, <1>12 DEF Login!Next

(* Sessions: a login that adds its own met none of an older login, and     *)
(* none of those that follow it counts it as over.                         *)
LEMMA LoginsReplace ==
  ASSUME Login!Parameters, LoginInv, [Login!Next]_Login!vars
  PROVE  LoginBefore' /\ LoginReplaces' /\ Login!OneSessionPerUser'
<1> USE DEF LoginInv
<1>1. LoginOnward /\ LoginChanges /\ Login!TypeOK' /\ \A m \in Logins : LoginProgress(m)'
  BY LoginGoesOn, LoginStep, LoginTyped, LoginProgresses
<1>2. LoginBefore'
  BY <1>1 DEF LoginOnward, LoginChanges, LoginBefore, Login!Over
<1>3. ASSUME NEW l \in Logins, NEW m \in sessions' \ sessions, m \in before'[l]
      PROVE  FALSE
  <2>1. loginStage[m] \in {"lookup", "create", "device", "register"}
    BY <1>1, <1>3 DEF LoginChanges
  <2>2. m \in Logins
    BY <1>1, <1>3 DEF Login!TypeOK
  <2> QED
    BY <1>1, <1>3, <2>1, <2>2 DEF LoginChanges, LoginBefore, Login!Over
<1>4. ASSUME NEW l \in Logins, NEW m \in Logins,
             loginStage'[l] \in {"device", "register"}, m \in sessions', UserOf[l] = UserOf[m],
             m \in before'[l]
      PROVE  FALSE
  <2>1. loginStage[l] \in {"device", "register"} /\ m \in sessions
    BY <1>1, <1>3, <1>4 DEF LoginChanges
  <2>2. before'[l] = before[l]
    BY <1>1, <2>1 DEF LoginOnward
  <2> QED
    BY <1>4, <2>1, <2>2 DEF LoginReplaces
<1>5. LoginReplaces'
  BY <1>4 DEF LoginReplaces
<1>6. ASSUME NEW l \in sessions', NEW m \in sessions', l # m, UserOf[l] = UserOf[m],
             l \in before'[m]
      PROVE  FALSE
  <2>1. l \in Logins /\ m \in Logins /\ l \in sessions
    BY <1>1, <1>3, <1>6 DEF Login!TypeOK
  <2>2. CASE m \in sessions
    <3>1. before'[m] = before[m]
      BY <1>1, <2>1, <2>2 DEF LoginOnward, LoginProgress
    <3> QED
      BY <1>6, <2>1, <2>2, <3>1 DEF Login!OneSessionPerUser, Login!SameUser
  <2>3. CASE m \notin sessions
    <3>1. loginStage[m] \in {"device", "register"}
      BY <1>1, <1>6, <2>1, <2>3 DEF LoginChanges
    <3>2. before'[m] = before[m]
      BY <1>1, <2>1, <3>1 DEF LoginOnward
    <3> QED
      BY <1>6, <2>1, <3>1, <3>2 DEF LoginReplaces
  <2> QED
    BY <2>2, <2>3
<1>7. Login!OneSessionPerUser'
  BY <1>6 DEF Login!OneSessionPerUser, Login!SameUser
<1> QED
  BY <1>2, <1>5, <1>7

(* Devices: one is known only once a login of the user met it as new.      *)
LEMMA LoginsEarnTrust ==
  ASSUME Login!Parameters, LoginInv, [Login!Next]_Login!vars
  PROVE  LoginKnows' /\ Login!TrustIsEarned'
<1> USE DEF LoginInv
<1>1. LoginOnward /\ LoginChanges
  BY LoginGoesOn, LoginStep
<1>2. ASSUME NEW l \in Logins, NEW d \in known'[UserOf[l]]
      PROVE  \E m \in Logins : UserOf[m] = UserOf[l] /\ DeviceOf[m] = d /\ trust'[m] = "new_device"
  <2>1. \E m \in Logins : UserOf[m] = UserOf[l] /\ DeviceOf[m] = d /\ trust[m] = "new_device"
    BY <1>1, <1>2 DEF LoginChanges, LoginKnows
  <2> QED
    BY <1>1, <2>1 DEF LoginOnward
<1>3. ASSUME NEW l \in Logins, trust'[l] = "trusted"
      PROVE  \E m \in Logins \ {l} : /\ UserOf[m] = UserOf[l] /\ DeviceOf[m] = DeviceOf[l]
                                     /\ trust'[m] = "new_device"
  <2>1. \E m \in Logins : /\ UserOf[m] = UserOf[l] /\ DeviceOf[m] = DeviceOf[l]
                          /\ trust[m] = "new_device"
    BY <1>1, <1>3 DEF LoginChanges, LoginKnows, Login!TrustIsEarned, Login!SameUser
  <2> QED
    BY <1>1, <1>3, <2>1 DEF LoginOnward
<1>4. LoginKnows'
  BY <1>2 DEF LoginKnows
<1>5. Login!TrustIsEarned'
  BY <1>3 DEF Login!TrustIsEarned, Login!SameUser
<1> QED
  BY <1>4, <1>5

(* Accounts: a login that draws ids has seen none of an older login.       *)
LEMMA LoginsOpenAccounts ==
  ASSUME Login!Parameters, LoginInv, [Login!Next]_Login!vars
  PROVE  LoginMakes' /\ LoginLooked' /\ Login!SecondAccountHasACause'
<1> USE DEF LoginInv
<1>1. LoginOnward /\ LoginChanges /\ Login!TypeOK'
  BY LoginGoesOn, LoginStep, LoginTyped
<1>2. LoginMakes'
  BY <1>1 DEF LoginChanges, LoginMakes
<1>3. ASSUME NEW l \in Logins, NEW m \in Logins, NEW id \in AccountIds,
             loginStage'[m] = "create" \/ wire'[m] # "none",
             m \notin blind', UserOf[l] = UserOf[m], l \in before'[m], l \notin forsaken',
             maker'[id] = l
      PROVE  FALSE
  <2>1. l \in before[m] /\ m \notin blind /\ l \notin forsaken
    BY <1>1, <1>3 DEF LoginOnward, LoginChanges
  <2>2. maker[id] = l
    BY <1>1, <1>3, <2>1 DEF LoginChanges, LoginProgress, LoginBefore, Login!Over
  <2>3. l \in Logins /\ id \in Login!Accounts(UserOf[m])
    BY <1>3, <2>2 DEF Login!Accounts, Login!Parameters
  <2> QED
    BY <1>1, <1>3, <2>1, <2>2, <2>3 DEF LoginChanges, LoginLooked
<1>4. LoginLooked'
  BY <1>3 DEF LoginLooked
<1>5. ASSUME NEW a \in AccountIds, NEW b \in AccountIds, a # b,
             maker'[a] # NoLogin, maker'[b] # NoLogin
      PROVE  /\ maker'[a] # maker'[b]
             /\ UserOf[maker'[a]] = UserOf[maker'[b]] /\ maker'[a] \in before'[maker'[b]]
                  => maker'[b] \in blind' \/ maker'[a] \in forsaken'
  <2>1. maker'[a] \in Logins /\ maker'[b] \in Logins
    BY <1>1, <1>5 DEF Login!TypeOK
  <2> QED
    BY <1>2, <1>4, <1>5, <2>1 DEF LoginMakes, LoginLooked
<1>6. Login!SecondAccountHasACause'
  BY <1>5 DEF Login!SecondAccountHasACause, Login!SameUser
<1> QED
  BY <1>2, <1>4, <1>6

LEMMA LoginStays ==
  ASSUME Login!Parameters PROVE LoginInv /\ [Login!Next]_Login!vars => LoginInv'
BY LoginTyped, LoginProgresses, LoginsReplace, LoginsEarnTrust, LoginsOpenAccounts
   DEF LoginInv

LEMMA LoginsKeep == ServicesSpec => [](Runs("login") => LoginInv)
<1> DEFINE Inv == Runs("login") => LoginInv
<1>1. ServicesInit => Inv
  BY LoginInit, ServicesAssumption DEF ServicesInit
<1>2. ASSUME Inv, [ServicesNext]_allVars PROVE Inv'
  BY <1>2, OneRuns, LoginStays, ServicesAssumption DEF Runs
<1> QED
  BY <1>1, <1>2, PTL DEF ServicesSpec

(* However the logins of a user overlap, fail and are cut off by restarts: *)
(* two live sessions of one user come from logins that overlapped, and a   *)
(* device is trusted only after a login of that user met it as new         *)
(* (auth_callback, _evaluate_device_trust).                                *)
THEOREM LoginsAreSound ==
  ServicesSpec => [](LoginIsSound /\ (Runs("login") => Login!TypeOK))
<1>1. (Runs("login") => LoginInv) => LoginIsSound /\ (Runs("login") => Login!TypeOK)
  BY DEF LoginInv, LoginIsSound, Login!LoginIsSound
<1> QED
  BY <1>1, LoginsKeep, PTL

(* A second account of a user has one of the named causes, one login never *)
(* opens two, and the account a session works with is its user's           *)
(* (_lookup_account, _create_bank_account_with_token).                     *)
THEOREM NoAccountWithoutACause == ServicesSpec => []AccountsAreSound
<1>1. (Runs("login") => LoginInv) => AccountsAreSound
  <2> SUFFICES ASSUME LoginInv PROVE Login!AccountsAreSound
    BY DEF AccountsAreSound
  <2> QED
    BY DEF LoginInv, LoginProgress, Login!AccountsAreSound, Login!ShownAccountIsOwn,
       Login!TypeOK
<1> QED
  BY <1>1, LoginsKeep, PTL

-----------------------------------------------------------------------------
(* PortalTokens.                                                           *)

LEMMA TokensMax ==
  ASSUME NEW m \in Int, NEW n \in Int PROVE Tokens!Max({m, n}) = IF m >= n THEN m ELSE n
BY DEF Tokens!Max

LEMMA TokensMin ==
  ASSUME NEW m \in Int, NEW n \in Int PROVE Tokens!Min({m, n}) = IF m =< n THEN m ELSE n
BY DEF Tokens!Min

(* What is a tick younger may be a tick later.                             *)
LEMMA TickLater ==
  ASSUME NEW t \in Int, NEW e \in Int, NEW f \in Int, NEW limit \in Int,
         f <= e + 1, t + e <= limit
  PROVE  (t - 1) + f <= limit
OBVIOUS

(* A token loses a tick of its life, and none below -1.                    *)
LEMMA TokensOlder ==
  ASSUME Tokens!Parameters, NEW t \in Tokens!Tokens
  PROVE  /\ Tokens!Older(t) \in Tokens!Tokens
         /\ Tokens!Older(t) = IF t >= 0 THEN t - 1 ELSE -1
<1>1. Tokens!Max({-1, t - 1}) = IF -1 >= t - 1 THEN -1 ELSE t - 1
  BY TokensMax DEF Tokens!Tokens, Tokens!Parameters
<1> QED
  BY <1>1 DEF Tokens!Older, Tokens!Tokens, Tokens!NoToken, Tokens!Parameters

LEMMA TokensOlderNone == Tokens!Older(Tokens!NoToken) = Tokens!NoToken
BY DEF Tokens!Older

(* The token a handler was given lasts for Margin from then on, unless its *)
(* refresh failed; a minted one is as old as the wait for its refresh.     *)
TokenLasts(q) ==
  /\ requestStage[q] = "idle" => waited[q] = 0 /\ minted[q] = Tokens!NoToken
  /\ requestStage[q] = "refreshing" => waited[q] <= RefreshTime
  /\ requestStage[q] = "calling" /\ kind[q] = "page" => waited[q] <= CallTime
  /\ requestStage[q] = "refreshing" /\ minted[q] # Tokens!NoToken =>
       minted[q] + waited[q] >= Lifetime
  /\ requestStage[q] = "calling" /\ ~failed[q] /\ kind[q] # "scenario" =>
       waited[q] > Margin \/ carried[q] + waited[q] >= Margin
  /\ verified[q] = "rejected" /\ kind[q] # "scenario" =>
       failed[q] \/ (kind[q] = "admin" /\ q \in late)

(* No token outlives the sign-on session by more than a lifetime.          *)
TokensRunOut ==
  /\ sso => ended = 0
  /\ held >= 0 => held + ended <= Lifetime
  /\ \A q \in Requests : /\ carried[q] >= 0 => carried[q] + ended <= Lifetime
                         /\ minted[q] >= 0 => minted[q] + ended <= Lifetime

(* The next pass of the loop comes in time for the age of the session.     *)
CleanerIsDue == session => sessionAge + cleaner <= MaxAge + CleanInterval

TokensInv == /\ Tokens!TypeOK /\ \A q \in Requests : TokenLasts(q)
             /\ TokensRunOut /\ CleanerIsDue

LEMMA TokensInit == Tokens!Parameters /\ Tokens!Init => TokensInv
<1> SUFFICES ASSUME Tokens!Parameters, Tokens!Init PROVE TokensInv
  OBVIOUS
<1>1. Tokens!MaxWait = IF RefreshTime >= Margin + 1 THEN RefreshTime ELSE Margin + 1
  BY TokensMax DEF Tokens!Parameters, Tokens!MaxWait
<1>2. Tokens!TypeOK
  BY <1>1 DEF Tokens!Parameters, Tokens!Init, Tokens!TypeOK, Tokens!Tokens, Tokens!MaxSeen
<1>3. \A q \in Requests : TokenLasts(q)
  BY DEF Tokens!Init, TokenLasts
<1>4. TokensRunOut /\ CleanerIsDue
  BY DEF Tokens!Parameters, Tokens!Init, Tokens!NoToken, TokensRunOut, CleanerIsDue
<1> QED
  BY <1>2, <1>3, <1>4 DEF TokensInv

(* Time passes: no call outlives its time-out.                             *)
LEMMA TokensTick ==
  ASSUME Tokens!Parameters, TokensInv, Tokens!Tick PROVE TokensInv'
<1> USE DEF TokensInv
<1>1. Tokens!MaxWait = IF RefreshTime >= Margin + 1 THEN RefreshTime ELSE Margin + 1
  BY TokensMax DEF Tokens!Parameters, Tokens!MaxWait
<1>2. sessionAge' = IF Tokens!MaxSeen <= sessionAge + 1 THEN Tokens!MaxSeen ELSE sessionAge + 1
  BY TokensMin DEF Tokens!Tick, Tokens!TypeOK, Tokens!MaxSeen, Tokens!Parameters
<1>3. ended' = IF sso THEN 0 ELSE IF Lifetime + 1 <= ended + 1 THEN Lifetime + 1 ELSE ended + 1
  BY TokensMin DEF Tokens!Tick, Tokens!TypeOK, Tokens!Parameters
<1>4. held' \in Tokens!Tokens /\ held' = IF held >= 0 THEN held - 1 ELSE -1
  BY TokensOlder DEF Tokens!Tick, Tokens!TypeOK
<1>5. ASSUME NEW q \in Requests
      PROVE  /\ carried'[q] \in Tokens!Tokens
             /\ carried'[q] = IF carried[q] >= 0 THEN carried[q] - 1 ELSE -1
             /\ minted'[q] \in Tokens!Tokens \cup {Tokens!NoToken}
             /\ minted'[q] = IF minted[q] >= 0 THEN minted[q] - 1
                             ELSE IF minted[q] = Tokens!NoToken THEN Tokens!NoToken ELSE -1
  BY TokensOlder, TokensOlderNone DEF Tokens!Tick, Tokens!TypeOK, Tokens!Tokens, Tokens!NoToken,
     Tokens!Parameters
<1>6. ASSUME NEW q \in Requests
      PROVE  /\ waited'[q] \in 0..Tokens!MaxWait
             /\ waited'[q] = IF requestStage[q] \in {"calling", "refreshing"}
                             THEN IF Tokens!MaxWait <= waited[q] + 1
                                  THEN Tokens!MaxWait ELSE waited[q] + 1
                             ELSE 0
             /\ requestStage[q] = "calling" /\ kind[q] = "page" => waited[q] < CallTime
             /\ requestStage[q] = "refreshing" => waited[q] < RefreshTime
  <2>1. waited[q] \in Int /\ Tokens!MaxWait \in Int
    BY <1>1 DEF Tokens!TypeOK, Tokens!Parameters
  <2>2. Tokens!Min({Tokens!MaxWait, waited[q] + 1})
          = IF Tokens!MaxWait <= waited[q] + 1 THEN Tokens!MaxWait ELSE waited[q] + 1
    BY <2>1, TokensMin
  <2> QED
    BY <1>1, <2>1, <2>2 DEF Tokens!Tick, Tokens!TypeOK, Tokens!Patient, Tokens!Parameters
<1>7. Tokens!TypeOK'
  <2>1. carried' \in [Requests -> Tokens!Tokens]
    BY <1>5 DEF Tokens!Tick
  <2>2. minted' \in [Requests -> Tokens!Tokens \cup {Tokens!NoToken}]
    BY <1>5 DEF Tokens!Tick
  <2>3. waited' \in [Requests -> 0..Tokens!MaxWait]
    BY <1>6 DEF Tokens!Tick
  <2>4. sessionAge' \in 0..Tokens!MaxSeen /\ cleaner' \in 0..CleanInterval
        /\ ended' \in 0..(Lifetime + 1)
    BY <1>2, <1>3 DEF Tokens!Tick, Tokens!TypeOK, Tokens!Parameters, Tokens!MaxSeen
  <2> QED
    BY <1>4, <2>1, <2>2, <2>3, <2>4 DEF Tokens!Tick, Tokens!TypeOK, Tokens!MaxSeen, Tokens!Tokens
<1>8. ASSUME NEW q \in Requests PROVE TokenLasts(q)'
  BY <1>1, <1>5, <1>6 DEF Tokens!Tick, TokenLasts, Tokens!TypeOK, Tokens!Tokens, Tokens!NoToken,
     Tokens!Parameters
<1>9. TokensRunOut'
  <2>1. sso' => ended' = 0
    BY <1>3 DEF Tokens!Tick
  <2>2. ended' <= ended + 1
    BY <1>3 DEF Tokens!TypeOK, Tokens!Parameters
  <2>3. ended' \in Int /\ ended \in Int /\ held \in Int /\ held' \in Int
        /\ Lifetime \in Int
    BY <1>3, <1>4 DEF Tokens!TypeOK, Tokens!Tokens, Tokens!Parameters
  <2>4. held' >= 0 => held' + ended' <= Lifetime
    <3> SUFFICES ASSUME held' >= 0 PROVE held' + ended' <= Lifetime
      OBVIOUS
    <3>1. held >= 0 /\ held' = held - 1
      BY <1>4, <2>3
    <3>2. held + ended <= Lifetime
      BY <3>1 DEF TokensRunOut
    <3> QED
      BY <2>2, <2>3, <3>1, <3>2, TickLater
  <2>5. ASSUME NEW q \in Requests
        PROVE  /\ carried'[q] >= 0 => carried'[q] + ended' <= Lifetime
               /\ minted'[q] >= 0 => minted'[q] + ended' <= Lifetime
    <3>1. carried[q] \in Int /\ minted[q] \in Int
      BY DEF Tokens!TypeOK, Tokens!Tokens, Tokens!NoToken, Tokens!Parameters
    <3> QED
      BY <1>5, <2>2, <2>3, <3>1 DEF TokensRunOut, Tokens!NoToken
  <2> QED
    BY <2>1, <2>4, <2>5 DEF TokensRunOut
<1>10. CleanerIsDue'
  BY <1>2 DEF Tokens!Tick, CleanerIsDue, Tokens!TypeOK, Tokens!MaxSeen, Tokens!Parameters
<1> QED
  BY <1>7, <1>8, <1>9, <1>10

LEMMA TokensStep ==
  ASSUME Tokens!Parameters, TokensInv, [Tokens!Next]_Tokens!vars PROVE TokensInv'
<1> USE DEF TokensInv
<1>1. Tokens!MaxWait = IF RefreshTime >= Margin + 1 THEN RefreshTime ELSE Margin + 1
  BY TokensMax DEF Tokens!Parameters, Tokens!MaxWait
<1>11. 0 \in 0..Tokens!MaxWait
  BY <1>1 DEF Tokens!Parameters
<1>2. ASSUME UNCHANGED <<held, session, sessionAge, cleaner, sso, ended>>, Tokens!TypeOK',
             NEW q \in Requests, TokenLasts(q)',
             carried'[q] >= 0 => carried'[q] + ended <= Lifetime,
             minted'[q] >= 0 => minted'[q] + ended <= Lifetime,
             kind' = kind, late \subseteq late',
             \A r \in Requests \ {q} :
               /\ requestStage'[r] = requestStage[r] /\ waited'[r] = waited[r]
               /\ carried'[r] = carried[r] /\ minted'[r] = minted[r]
               /\ failed'[r] = failed[r] /\ verified'[r] = verified[r]
      PROVE  TokensInv'
  <2>1. \A r \in Requests : TokenLasts(r)'
    BY <1>2 DEF TokenLasts
  <2>2. TokensRunOut' /\ CleanerIsDue'
    BY <1>2 DEF TokensRunOut, CleanerIsDue
  <2> QED
    BY <1>2, <2>1, <2>2
<1>3. ASSUME NEW q \in Requests, Tokens!Enter(q) PROVE TokensInv'
  <2>1. Tokens!TypeOK'
    BY <1>3 DEF Tokens!Enter, Tokens!TypeOK, Tokens!MaxSeen, Tokens!Tokens
  <2>2. TokenLasts(q)'
    <3>1. waited'[q] = 0 /\ carried'[q] = held /\ failed'[q] = failed[q] /\ verified'[q] = verified[q]
      BY <1>3 DEF Tokens!Enter, Tokens!TypeOK, TokenLasts
    <3>2. \/ requestStage'[q] = "calling" /\ (kind[q] = "scenario" \/ held > Margin)
          \/ requestStage'[q] = "refreshing"
      BY <1>3 DEF Tokens!Enter, Tokens!Fresh, Tokens!TypeOK
    <3>3. minted'[q] = Tokens!NoToken /\ kind' = kind /\ late' = late
      BY <1>3 DEF Tokens!Enter, TokenLasts
    <3> QED
      BY <3>1, <3>2, <3>3 DEF Tokens!TypeOK, Tokens!Tokens, TokenLasts, Tokens!Parameters
  <2>3. carried'[q] = held /\ minted'[q] = minted[q]
    BY <1>3 DEF Tokens!Enter, Tokens!TypeOK
  <2> QED
    BY <1>2, <1>3, <2>1, <2>2, <2>3 DEF Tokens!Enter, Tokens!TypeOK, TokensRunOut
<1>4. ASSUME NEW q \in Requests, Tokens!Verify(q) PROVE TokensInv'
  <2>1. Tokens!TypeOK'
    BY <1>4, <1>11 DEF Tokens!Verify, Tokens!TypeOK, Tokens!MaxSeen, Tokens!Tokens
  <2>2. TokenLasts(q)'
    <3>1. requestStage'[q] = "over" /\ kind' = kind /\ failed' = failed
      BY <1>4 DEF Tokens!Verify, Tokens!TypeOK
    <3>2. kind[q] \in Tokens!Kinds
      BY DEF Tokens!TypeOK, Tokens!Parameters
    <3>3. verified'[q] = "rejected" => carried[q] < 0
      BY <1>4 DEF Tokens!Verify, Tokens!Valid, Tokens!TypeOK, Tokens!Tokens, Tokens!Parameters
    <3>4. waited[q] > Margin => q \in late'
      BY <1>4 DEF Tokens!Verify
    <3>5. carried[q] < 0 /\ kind[q] # "scenario" =>
            failed[q] \/ (kind[q] = "admin" /\ waited[q] > Margin)
      BY <1>1, <1>4, <3>2 DEF Tokens!Verify, Tokens!TypeOK, Tokens!Tokens, TokenLasts,
         Tokens!Parameters, Tokens!Kinds
    <3> QED
      BY <3>1, <3>3, <3>4, <3>5 DEF TokenLasts
  <2> QED
    BY <1>2, <1>4, <2>1, <2>2 DEF Tokens!Verify, Tokens!TypeOK, TokensRunOut
<1>12. ASSUME NEW q \in Requests, Tokens!GiveUp(q) PROVE TokensInv'
  <2>1. Tokens!TypeOK'
    BY <1>11, <1>12 DEF Tokens!GiveUp, Tokens!TypeOK, Tokens!MaxSeen, Tokens!Tokens
  <2>2. TokenLasts(q)'
    BY <1>12 DEF Tokens!GiveUp, Tokens!TypeOK, TokenLasts
  <2> QED
    BY <1>2, <1>12, <2>1, <2>2 DEF Tokens!GiveUp, Tokens!TypeOK, TokensRunOut
<1>5. ASSUME NEW q \in Requests, Tokens!Mint(q) PROVE TokensInv'
  <2>1. Tokens!TypeOK'
    BY <1>5 DEF Tokens!Mint, Tokens!TypeOK, Tokens!MaxSeen, Tokens!Tokens, Tokens!Parameters
  <2>2. TokenLasts(q)'
    BY <1>1, <1>5 DEF Tokens!Mint, Tokens!TypeOK, Tokens!Tokens, TokenLasts,
       Tokens!Parameters
  <2>3. minted'[q] = Lifetime /\ carried'[q] = carried[q] /\ ended = 0
    BY <1>5 DEF Tokens!Mint, Tokens!TypeOK, TokensRunOut
  <2> QED
    BY <1>2, <1>5, <2>1, <2>2, <2>3, SMTT(30)
       DEF Tokens!Mint, Tokens!TypeOK, TokensRunOut, Tokens!Parameters
<1>6. ASSUME NEW q \in Requests, Tokens!RefreshFails(q) PROVE TokensInv'
  <2>1. Tokens!TypeOK'
    BY <1>1, <1>6, SMTT(30) DEF Tokens!RefreshFails, Tokens!Call, Tokens!TypeOK, Tokens!MaxSeen,
       Tokens!Tokens, Tokens!Parameters
  <2>2. TokenLasts(q)'
    BY <1>6 DEF Tokens!RefreshFails, Tokens!Call, Tokens!TypeOK, TokenLasts, Tokens!Parameters
  <2> QED
    BY <1>2, <1>6, <2>1, <2>2 DEF Tokens!RefreshFails, Tokens!Call, Tokens!TypeOK, TokensRunOut
<1>7. ASSUME NEW q \in Requests, Tokens!Refreshed(q) PROVE TokensInv'
  <2>1. minted[q] \in Tokens!Tokens /\ minted[q] + waited[q] >= Lifetime /\ waited[q] <= RefreshTime
        /\ waited[q] \in Int
    BY <1>1, <1>7 DEF Tokens!Refreshed, Tokens!TypeOK, TokenLasts, Tokens!Parameters
  <2>2. Tokens!TypeOK'
    BY <1>7, <1>11, <2>1 DEF Tokens!Refreshed, Tokens!Call, Tokens!TypeOK, Tokens!MaxSeen
  <2>3. ASSUME NEW r \in Requests PROVE TokenLasts(r)'
    BY <1>7, <2>1 DEF Tokens!Refreshed, Tokens!Call, Tokens!TypeOK, TokenLasts,
       Tokens!Tokens, Tokens!Parameters
  <2>4. TokensRunOut' /\ CleanerIsDue'
    BY <1>7, <2>1 DEF Tokens!Refreshed, Tokens!Call, Tokens!TypeOK, TokensRunOut, CleanerIsDue
  <2> QED
    BY <2>2, <2>3, <2>4
<1>8. ASSUME NEW q \in Requests, Tokens!EnterTooOld(q) PROVE TokensInv'
  <2>1. Tokens!TypeOK' /\ CleanerIsDue' /\ TokensRunOut'
    BY <1>8 DEF Tokens!EnterTooOld, Tokens!TypeOK, Tokens!MaxSeen, Tokens!Tokens,
       CleanerIsDue, TokensRunOut
  <2>2. \A r \in Requests : TokenLasts(r)'
    BY <1>8 DEF Tokens!EnterTooOld, Tokens!TypeOK, TokenLasts
  <2> QED
    BY <2>1, <2>2
<1>9. CASE Tokens!LogoutBegins \/ Tokens!LogoutEnds \/ Tokens!SsoEnds \/ Tokens!Cleanup
  <2>1. \A r \in Requests : TokenLasts(r)'
    BY <1>9 DEF Tokens!LogoutBegins, Tokens!LogoutEnds, Tokens!SsoEnds, Tokens!Cleanup,
       TokenLasts
  <2>2. TokensRunOut'
    BY <1>9 DEF Tokens!LogoutBegins, Tokens!LogoutEnds, Tokens!SsoEnds, Tokens!Cleanup,
       TokensRunOut
  <2>3. CASE Tokens!Cleanup
    <3>1. session' \in BOOLEAN /\ (session' => sessionAge <= MaxAge)
      BY <2>3, Zenon DEF Tokens!Cleanup
    <3>2. cleaner' \in 0..CleanInterval /\ CleanerIsDue'
      BY <2>3, <3>1 DEF Tokens!Cleanup, Tokens!TypeOK, CleanerIsDue, Tokens!Parameters,
         Tokens!MaxSeen
    <3>3. Tokens!TypeOK'
      BY <2>3, <3>1, <3>2 DEF Tokens!Cleanup, Tokens!TypeOK, Tokens!Tokens, Tokens!MaxSeen
    <3> QED
      BY <2>1, <2>2, <3>2, <3>3
  <2>4. CASE ~Tokens!Cleanup
    <3>1. Tokens!TypeOK'
      BY <1>9, <2>4 DEF Tokens!LogoutBegins, Tokens!LogoutEnds, Tokens!SsoEnds,
         Tokens!TypeOK, Tokens!Tokens, Tokens!MaxSeen
    <3>2. CleanerIsDue'
      BY <1>9, <2>4 DEF Tokens!LogoutBegins, Tokens!LogoutEnds, Tokens!SsoEnds, CleanerIsDue
    <3> QED
      BY <2>1, <2>2, <3>1, <3>2
  <2> QED
    BY <2>3, <2>4
<1>10. CASE UNCHANGED Tokens!vars
  <2>1. \A r \in Requests : TokenLasts(r)'
    BY <1>10 DEF Tokens!vars, TokenLasts
  <2>2. Tokens!TypeOK' /\ TokensRunOut' /\ CleanerIsDue'
    BY <1>10 DEF Tokens!vars, Tokens!TypeOK, TokensRunOut, CleanerIsDue
  <2> QED
    BY <2>1, <2>2
<1> QED
  BY <1>3, <1>4, <1>5, <1>6, <1>7, <1>8, <1>9, <1>10, <1>12, TokensTick DEF Tokens!Next

LEMMA TokensKeep == ServicesSpec => []TokensInv
<1>1. ServicesInit => TokensInv
  BY TokensInit, ServicesAssumption DEF ServicesInit
<1>2. TokensInv /\ [ServicesNext]_allVars => TokensInv'
  BY OneRuns, TokensStep, ServicesAssumption
<1> QED
  BY <1>1, <1>2, PTL DEF ServicesSpec

(* A page is rejected only when its own refresh failed, and an admin       *)
(* handler also when it was answered more than Margin after it had its     *)
(* token; a token is accepted for a lifetime at most after the sign-on     *)
(* session has ended; and a session is gone one pass of the loop after its *)
(* age (_ensure_valid_token, admin_users, _verify_token,                   *)
(* _cleanup_sessions).                                                     *)
THEOREM SessionsAreSound == ServicesSpec => SessionIsSound
<1> DEFINE AcceptedInTime ==
      \A q \in Requests :
        verified[q] # "accepted" /\ verified'[q] = "accepted" => sso \/ ended <= Lifetime
<1>1. TokensInv => Tokens!OnlyFailedRefreshIsRejected /\ Tokens!OldSessionsGo
  BY ServicesAssumption DEF TokensInv, TokenLasts, CleanerIsDue, Tokens!TypeOK,
     Tokens!OnlyFailedRefreshIsRejected, Tokens!OldSessionsGo, Tokens!Parameters,
     Tokens!MaxSeen
<1>2. ASSUME TokensInv, [ServicesNext]_allVars PROVE [AcceptedInTime]_Tokens!vars
  <2> SUFFICES ASSUME NEW q \in Requests, verified[q] # "accepted", verified'[q] = "accepted"
               PROVE  sso \/ ended <= Lifetime
    OBVIOUS
  <2>1. [Tokens!Next]_Tokens!vars
    BY <1>2, OneRuns
  <2>2. Tokens!Verify(q)
    BY <1>2, <2>1 DEF TokensInv, Tokens!TypeOK, Tokens!Next, Tokens!Enter, Tokens!EnterTooOld,
       Tokens!Mint, Tokens!Refreshed, Tokens!RefreshFails, Tokens!Verify, Tokens!GiveUp,
       Tokens!LogoutBegins, Tokens!LogoutEnds, Tokens!SsoEnds, Tokens!Cleanup, Tokens!Tick, Tokens!vars
  <2>3. carried[q] >= 0
    BY <1>2, <2>2 DEF Tokens!Verify, Tokens!Valid, TokensInv, Tokens!TypeOK
  <2> QED
    BY <1>2, <2>3, ServicesAssumption DEF TokensInv, TokensRunOut, Tokens!TypeOK,
       Tokens!Tokens, Tokens!Parameters
<1> QED
  BY <1>1, <1>2, TokensKeep, PTL
     DEF ServicesSpec, SessionIsSound, Tokens!SessionIsSound, Tokens!RevokedIsCutOff

-----------------------------------------------------------------------------
(* Registration.                                                           *)

(* An instance has its own copy of what its module extends.                *)
LEMMA RegisterCounts == ASSUME NEW S PROVE Register!Cardinality(S) = Cardinality(S)
BY DEF Register!Cardinality, Cardinality

LEMMA RegisterLeast ==
  ASSUME NEW S \in SUBSET Nat, S # {}
  PROVE  Register!Min(S) \in S /\ \A n \in S : Register!Min(S) =< n
<1>1. PICK m \in S : \A n \in S : <<n, m>> \notin OpToRel(<, Nat)
  BY WFMin, NatLessThanWellFounded
<1>2. \A n \in S : ~(n < m)
  BY <1>1 DEF OpToRel
<1>3. \A n \in S : m =< n
  BY <1>2
<1> QED
  BY <1>3 DEF Register!Min

Ages == 0..(Hour + 1)

(* Pruning drops entries at the front, none of them younger than an hour.  *)
LEMMA RegisterPrunes ==
  ASSUME NEW b \in Seq(Ages), Register!Parameters
  PROVE  \E k \in 0..Len(b) :
           /\ Register!Pruned(b) \in Seq(Ages)
           /\ Len(Register!Pruned(b)) = Len(b) - k
           /\ \A i \in 1..(Len(b) - k) : Register!Pruned(b)[i] = b[i + k]
           /\ \A j \in 1..Len(b) : b[j] <= Hour => j > k
<1> DEFINE kept == {k \in DOMAIN b : b[k] <= Hour}
<1>1. CASE kept = {}
  <2>1. Register!Pruned(b) = <<>>
    BY <1>1 DEF Register!Pruned
  <2> WITNESS Len(b) \in 0..Len(b)
  <2> QED
    BY <1>1, <2>1
<1>2. CASE kept # {}
  <2>1. kept \in SUBSET Nat
    OBVIOUS
  <2>2. PICK m : m = Register!Min(kept)
    OBVIOUS
  <2>3. m \in kept /\ \A n \in kept : m =< n
    BY <1>2, <2>1, <2>2, RegisterLeast
  <2>4. Register!Pruned(b) = SubSeq(b, m, Len(b))
    BY <1>2, <2>2 DEF Register!Pruned
  <2>5. m \in 1..Len(b)
    BY <2>3
  <2>8. m - 1 \in 0..Len(b)
    BY <2>5
  <2> WITNESS m - 1 \in 0..Len(b)
  <2>6. /\ SubSeq(b, m, Len(b)) \in Seq(Ages)
        /\ Len(SubSeq(b, m, Len(b))) = Len(b) - (m - 1)
        /\ \A i \in 1..(Len(b) - (m - 1)) : SubSeq(b, m, Len(b))[i] = b[i + (m - 1)]
    BY <2>5
  <2>7. \A j \in 1..Len(b) : b[j] <= Hour => j > m - 1
    BY <2>3, <2>5
  <2> QED
    BY <2>4, <2>6, <2>7
<1> QED
  BY <1>1, <1>2

(* Every attempt that passed within the hour has an entry of its own.      *)
Passed == {r \in Attempts : passed[r] \in 0..Hour}

Entries(f, b, who, ages) ==
  /\ f \in [who -> 1..Len(b)]
  /\ \A r, s \in who : r # s => f[r] # f[s]
  /\ \A r \in who : b[f[r]] = ages[r]

RegisterCounted == Len(bucket) <= HourLimit /\ \E f : Entries(f, bucket, Passed, passed)

(* How far an attempt has come, and what it has made on the way.           *)
RegisterProgress(r) ==
  /\ attemptStage[r] = "idle" => passed[r] = -1
  /\ attemptStage[r] \in {"idle", "token", "create"} =>
       created[NameOf[r]] # r /\ owner[MailOf[r]] # r
  /\ attemptStage[r] \in {"search", "read", "write", "assign"} =>
       created[NameOf[r]] = r /\ owner[MailOf[r]] = r
  /\ attemptStage[r] \in {"write", "assign"} /\ r \notin faulty => "financial-read" \in found[r]
  /\ attemptStage[r] = "assign" /\ r \notin faulty => "financial-write" \in found[r]
  /\ attemptStage[r] = "over" /\ created[NameOf[r]] = r /\ r \notin faulty =>
       roles[NameOf[r]] = Register!Roles
  /\ told[r] = "success" => created[NameOf[r]] = r /\ owner[MailOf[r]] = r
  /\ told[r] = "taken" => /\ created[NameOf[r]] # r /\ owner[MailOf[r]] # r
                          /\ Register!Conflict(r)

RegisterOwns == \A n \in Register!Names : created[n] \in Attempts => NameOf[created[n]] = n

RegisterInv == /\ Register!TypeOK /\ RegisterCounted /\ RegisterOwns
               /\ \A r \in Attempts : RegisterProgress(r)

LEMMA RegisterInit == Register!Parameters /\ Register!Init => RegisterInv
<1> SUFFICES ASSUME Register!Parameters, Register!Init PROVE RegisterInv
  OBVIOUS
<1>1. Register!TypeOK
  BY DEF Register!Parameters, Register!Init, Register!TypeOK, Register!Messages, Register!Makers
<1>2. Passed = {}
  BY DEF Register!Init, Passed
<1>3. RegisterCounted
  <2>1. Entries([r \in Passed |-> 1], bucket, Passed, passed)
    BY <1>2 DEF Entries
  <2> QED
    BY <2>1 DEF RegisterCounted, Register!Init, Register!Parameters
<1>4. RegisterOwns
  BY DEF Register!Init, RegisterOwns, Register!Parameters
<1>5. ASSUME NEW r \in Attempts PROVE RegisterProgress(r)
  BY DEF Register!Init, Register!Parameters, Register!Names, Register!Mails, RegisterProgress
<1> QED
  BY <1>1, <1>3, <1>4, <1>5 DEF RegisterInv

(* The bucket through an attempt that is counted, one that is refused, a   *)
(* tick and a restart.                                                     *)
LEMMA RegisterKeepsCount ==
  ASSUME Register!Parameters, RegisterInv, [Register!Next]_Register!vars
  PROVE  RegisterCounted' /\ bucket' \in Seq(Ages) /\ passed' \in [Attempts -> -1..(Hour + 1)]
<1> USE DEF RegisterInv
<1>1. PICK f : Entries(f, bucket, Passed, passed)
  BY DEF RegisterCounted
<1>2. bucket \in Seq(Ages) /\ passed \in [Attempts -> -1..(Hour + 1)] /\ Len(bucket) <= HourLimit
      /\ HourLimit \in Nat /\ Hour \in Nat
  BY DEF Register!TypeOK, Ages, RegisterCounted, Register!Parameters
<1>3. PICK k \in 0..Len(bucket) :
        /\ Register!Pruned(bucket) \in Seq(Ages)
        /\ Len(Register!Pruned(bucket)) = Len(bucket) - k
        /\ \A i \in 1..(Len(bucket) - k) : Register!Pruned(bucket)[i] = bucket[i + k]
        /\ \A j \in 1..Len(bucket) : bucket[j] <= Hour => j > k
  BY <1>2, RegisterPrunes
<1>4. \A r \in Passed : f[r] \in 1..Len(bucket) /\ f[r] > k
  BY <1>1, <1>2, <1>3 DEF Entries, Passed
<1>5. ASSUME NEW r \in Attempts, Register!OverLimit(r) PROVE RegisterCounted' /\ bucket' \in Seq(Ages)
  <2>1. bucket' = Register!Pruned(bucket) /\ passed' = passed
    BY <1>5 DEF Register!OverLimit
  <2>2. Passed' = Passed
    BY <2>1 DEF Passed
  <2>3. Entries([s \in Passed |-> f[s] - k], bucket', Passed', passed')
    BY <1>1, <1>2, <1>3, <1>4, <2>1, <2>2 DEF Entries
  <2> QED
    BY <1>2, <1>3, <2>1, <2>3 DEF RegisterCounted
<1>6. ASSUME NEW r \in Attempts, NEW valid \in BOOLEAN, Register!Submit(r, valid)
      PROVE  RegisterCounted' /\ bucket' \in Seq(Ages) /\ passed' \in [Attempts -> -1..(Hour + 1)]
  <2>1. /\ bucket' = Append(Register!Pruned(bucket), 0) /\ passed' = [passed EXCEPT ![r] = 0]
        /\ Len(Register!Pruned(bucket)) < HourLimit /\ passed[r] = -1
    BY <1>6 DEF Register!Submit, RegisterProgress
  <2>2. Passed' = Passed \cup {r} /\ r \notin Passed
    BY <1>2, <2>1 DEF Passed
  <2>3. /\ bucket' \in Seq(Ages) /\ Len(bucket') = Len(bucket) - k + 1 /\ bucket'[Len(bucket')] = 0
        /\ \A i \in 1..(Len(bucket) - k) : bucket'[i] = bucket[i + k]
    BY <1>2, <1>3, <2>1 DEF Ages
  <2> DEFINE g == [s \in Passed' |-> IF s = r THEN Len(bucket') ELSE f[s] - k]
  <2>4. Entries(g, bucket', Passed', passed')
    <3>p. ASSUME NEW s \in Passed', s # r
          PROVE  s \in Passed /\ f[s] \in Int /\ g[s] = f[s] - k /\ g[s] \in 1..(Len(bucket) - k)
      BY <1>3, <1>4, <2>2, <3>p
    <3>q. Len(bucket) \in Nat /\ k \in Nat /\ k <= Len(bucket)
      BY <1>2, <1>3
    <3>l. g[r] = Len(bucket) - k + 1
      BY <2>2, <2>3
    <3>1. \A s \in Passed' : g[s] \in 1..Len(bucket')
      <4>1. 1..(Len(bucket) - k) \subseteq 1..Len(bucket') /\ Len(bucket) - k + 1 \in 1..Len(bucket')
        BY <2>3, <3>q
      <4> QED
        BY <3>p, <3>l, <4>1
    <3>2. \A s, t \in Passed' : s # t => g[s] # g[t]
      <4>1. ASSUME NEW s \in Passed', NEW t \in Passed', s # r, t # r, s # t
            PROVE  g[s] # g[t]
        <5>1. f[s] # f[t]
          BY <1>1, <3>p, <4>1 DEF Entries
        <5> QED
          BY <3>p, <3>q, <4>1, <5>1
      <4>2. ASSUME NEW s \in Passed', s # r PROVE g[s] # g[r]
        BY <3>p, <3>q, <3>l, <4>2
      <4> QED
        BY <4>1, <4>2
    <3>3. ASSUME NEW s \in Passed' PROVE bucket'[g[s]] = passed'[s]
      <4>1. CASE s = r
        <5>1. g[s] = Len(bucket') /\ passed'[s] = 0
          BY <1>2, <2>1, <4>1
        <5> QED
          BY <2>3, <5>1
      <4>2. CASE s # r
        <5>1. s \in Passed /\ g[s] = f[s] - k
          BY <2>2, <4>2
        <5>2. f[s] - k \in 1..(Len(bucket) - k) /\ (f[s] - k) + k = f[s]
          BY <1>4, <1>3, <5>1
        <5>3. bucket'[f[s] - k] = bucket[f[s]]
          BY <2>3, <5>2
        <5>4. bucket[f[s]] = passed[s]
          BY <1>1, <5>1 DEF Entries
        <5>5. passed'[s] = passed[s]
          BY <1>2, <2>1, <4>2, <5>1 DEF Passed
        <5> QED
          BY <5>1, <5>3, <5>4, <5>5
      <4> QED
        BY <4>1, <4>2
    <3> QED
      BY <3>1, <3>2, <3>3 DEF Entries
  <2> QED
    BY <1>2, <1>3, <2>1, <2>3, <2>4 DEF RegisterCounted
<1>7. ASSUME Register!Tick
      PROVE  RegisterCounted' /\ bucket' \in Seq(Ages) /\ passed' \in [Attempts -> -1..(Hour + 1)]
  <2>1. /\ bucket' = [i \in 1..Len(bucket) |-> Register!Aged(bucket[i])]
        /\ passed' = [r \in Attempts |-> Register!Aged(passed[r])]
    BY <1>2, <1>7 DEF Register!Tick
  <2>2. bucket' \in Seq(Ages) /\ Len(bucket') = Len(bucket)
    BY <1>2, <2>1 DEF Register!Aged, Ages
  <2>3. Passed' \subseteq Passed
    BY <1>2, <2>1 DEF Passed, Register!Aged
  <2>4. Entries([s \in Passed' |-> f[s]], bucket', Passed', passed')
    BY <1>1, <1>2, <2>1, <2>2, <2>3 DEF Entries, Passed
  <2>5. passed' \in [Attempts -> -1..(Hour + 1)]
    BY <1>2, <2>1 DEF Register!Aged
  <2> QED
    BY <1>2, <2>2, <2>4, <2>5 DEF RegisterCounted
<1>8. CASE Register!Restart
  <2>1. bucket' = <<>> /\ passed' = [r \in Attempts |-> -1]
    BY <1>8 DEF Register!Restart
  <2>2. Passed' = {}
    BY <2>1 DEF Passed
  <2>3. Entries([s \in Passed' |-> 1], bucket', Passed', passed')
    BY <2>2 DEF Entries
  <2> QED
    BY <1>2, <2>1, <2>3 DEF RegisterCounted
<1>9. CASE UNCHANGED <<bucket, passed>>
  <2>1. Passed' = Passed
    BY <1>9 DEF Passed
  <2>2. Entries(f, bucket', Passed', passed')
    BY <1>1, <1>9, <2>1 DEF Entries
  <2> QED
    BY <1>2, <1>9, <2>2 DEF RegisterCounted
<1>10. ASSUME NEW r \in Attempts,
              \/ Register!AdminToken(r) \/ Register!AdminTokenFails(r) \/ Register!UserCreated(r)
              \/ Register!UserExists(r) \/ Register!CreateRefused(r) \/ Register!CreateLost(r)
              \/ Register!Searched(r) \/ Register!ReadRole(r) \/ Register!WriteRole(r)
              \/ Register!Raises(r) \/ Register!Assigned(r)
       PROVE  UNCHANGED <<bucket, passed>>
  BY <1>10 DEF Register!AdminToken, Register!AdminTokenFails, Register!UserCreated,
     Register!UserExists, Register!CreateRefused, Register!CreateLost, Register!Searched,
     Register!ReadRole, Register!WriteRole, Register!RoleRead, Register!Raises,
     Register!Assigned, Register!Reach, Register!Fails
<1>11. CASE \/ UNCHANGED Register!vars
            \/ \E n \in Register!Names : Register!OthersTakeName(n)
            \/ \E m \in Register!Mails : Register!OthersTakeMail(m)
  BY <1>9, <1>11 DEF Register!vars, Register!OthersTakeName, Register!OthersTakeMail
<1>12. ASSUME NEW r \in Attempts, Register!OverLimit(r) PROVE passed' = passed
  BY <1>12 DEF Register!OverLimit
<1> QED
  BY <1>2, <1>5, <1>6, <1>7, <1>8, <1>9, <1>10, <1>11, <1>12 DEF Register!Next

LEMMA RegisterTyped ==
  ASSUME Register!Parameters, RegisterInv, [Register!Next]_Register!vars PROVE Register!TypeOK'
<1> USE DEF RegisterInv
<1>1. bucket' \in Seq(0..(Hour + 1)) /\ passed' \in [Attempts -> -1..(Hour + 1)]
  BY RegisterKeepsCount DEF Ages
<1> DEFINE Stages == {"idle", "token", "create", "search", "read", "write", "assign", "over"}
           Ready(r) == /\ \E to \in Stages : attemptStage' = [attemptStage EXCEPT ![r] = to]
                       /\ \/ told' = told
                          \/ \E what \in Register!Messages : told' = [told EXCEPT ![r] = what]
                       /\ faulty' \subseteq faulty \cup {r}
<1>0. ASSUME NEW r \in Attempts, Ready(r),
             created' \in [Register!Names -> Register!Makers],
             owner' \in [Register!Mails -> Register!Makers],
             roles' \in [Register!Names -> SUBSET Register!Roles],
             found' \in [Attempts -> SUBSET Register!Roles]
      PROVE  Register!TypeOK'
  <2>1. attemptStage' \in [Attempts -> Stages]
    BY <1>0 DEF Register!TypeOK
  <2>2. told' \in [Attempts -> Register!Messages]
    BY <1>0 DEF Register!TypeOK
  <2>3. faulty' \subseteq Attempts
    BY <1>0 DEF Register!TypeOK
  <2> QED
    BY <1>0, <1>1, <2>1, <2>2, <2>3 DEF Register!TypeOK
<1>2. ASSUME NEW r \in Attempts,
             Register!OverLimit(r) \/ \E valid \in BOOLEAN : Register!Submit(r, valid)
      PROVE  Register!TypeOK'
  <2>1. Ready(r) /\ UNCHANGED <<created, owner, roles, found>>
    BY <1>2 DEF Register!OverLimit, Register!Submit, Register!Answered, Register!Messages
  <2> QED
    BY <1>0, <2>1 DEF Register!TypeOK
<1>3. ASSUME NEW r \in Attempts,
             \/ Register!AdminToken(r) \/ Register!AdminTokenFails(r) \/ Register!CreateRefused(r)
             \/ Register!Searched(r) \/ Register!Raises(r) \/ Register!UserExists(r)
      PROVE  Register!TypeOK'
  <2>1. Ready(r) /\ UNCHANGED <<created, owner, roles, found>>
    BY <1>3 DEF Register!AdminToken, Register!AdminTokenFails, Register!CreateRefused,
       Register!Searched, Register!Raises, Register!UserExists, Register!Reach,
       Register!Fails, Register!Answered, Register!Messages
  <2> QED
    BY <1>0, <2>1 DEF Register!TypeOK
<1>4. ASSUME NEW r \in Attempts, Register!UserCreated(r) \/ Register!CreateLost(r)
      PROVE  Register!TypeOK'
  <2>1. /\ created' \in [Register!Names -> Register!Makers]
        /\ owner' \in [Register!Mails -> Register!Makers]
    BY <1>4 DEF Register!UserCreated, Register!CreateLost, Register!NewUser, Register!TypeOK,
       Register!Makers
  <2> QED
    BY <1>1, <1>4, <2>1 DEF Register!UserCreated, Register!CreateLost, Register!Reach,
       Register!Fails, Register!Answered, Register!TypeOK, Register!Messages
<1>5. ASSUME NEW r \in Attempts, Register!ReadRole(r) \/ Register!WriteRole(r) PROVE Register!TypeOK'
  <2>1. Ready(r) /\ UNCHANGED <<created, owner, roles>>
    BY <1>5 DEF Register!ReadRole, Register!WriteRole, Register!RoleRead, Register!Reach
  <2>2. found' \in [Attempts -> SUBSET Register!Roles]
    BY <1>5 DEF Register!ReadRole, Register!WriteRole, Register!RoleRead, Register!Reach,
       Register!TypeOK, Register!Roles
  <2> QED
    BY <1>0, <2>1, <2>2 DEF Register!TypeOK
<1>6. ASSUME NEW r \in Attempts, Register!Assigned(r) PROVE Register!TypeOK'
  BY <1>1, <1>6 DEF Register!Assigned, Register!Answered, Register!TypeOK, Register!Messages
<1>7. CASE Register!Tick \/ Register!Restart \/ UNCHANGED Register!vars
  BY <1>1, <1>7 DEF Register!Tick, Register!Restart, Register!vars, Register!TypeOK,
     Register!Messages
<1>8. CASE \/ \E n \in Register!Names : Register!OthersTakeName(n)
           \/ \E m \in Register!Mails : Register!OthersTakeMail(m)
  BY <1>1, <1>8 DEF Register!OthersTakeName, Register!OthersTakeMail, Register!TypeOK,
     Register!Makers
<1> QED
  BY <1>2, <1>3, <1>4, <1>5, <1>6, <1>7, <1>8 DEF Register!Next

(* A user, once made, has one maker; each attempt keeps its progress.      *)
LEMMA RegisterGoesOn ==
  ASSUME Register!Parameters, RegisterInv, [Register!Next]_Register!vars
  PROVE  RegisterOwns' /\ \A s \in Attempts : RegisterProgress(s)'
<1> USE DEF RegisterInv
<1>1. ASSUME NEW s \in Attempts
      PROVE  NameOf[s] \in Register!Names /\ MailOf[s] \in Register!Mails
  BY DEF Register!Names, Register!Mails
<1>2. ASSUME NEW r \in Attempts, attemptStage[r] # "over",
             \A s \in Attempts \ {r} : /\ attemptStage'[s] = attemptStage[s]
                                       /\ passed'[s] = passed[s] /\ found'[s] = found[s]
                                       /\ told'[s] = told[s],
             faulty \subseteq faulty', RegisterProgress(r)',
             Register!NewUser(r) \/ UNCHANGED <<created, owner>>,
             \A n \in Register!Names : roles[n] = Register!Roles => roles'[n] = Register!Roles
      PROVE  RegisterOwns' /\ \A s \in Attempts : RegisterProgress(s)'
  <2>1. RegisterOwns'
    BY <1>1, <1>2 DEF RegisterOwns, Register!TypeOK, Register!NewUser
  <2>2. ASSUME NEW s \in Attempts \ {r} PROVE RegisterProgress(s)'
    <3>1. /\ (created'[NameOf[s]] = s) = (created[NameOf[s]] = s)
          /\ (owner'[MailOf[s]] = s) = (owner[MailOf[s]] = s)
          /\ Register!Conflict(s) => Register!Conflict(s)'
      BY <1>1, <1>2, <2>2 DEF Register!NewUser, Register!Conflict, Register!TypeOK,
         Register!Parameters
    <3> QED
      BY <1>1, <1>2, <2>2, <3>1 DEF RegisterProgress
  <2> QED
    BY <1>2, <2>1, <2>2
<1>3. ASSUME NEW r \in Attempts,
             Register!OverLimit(r) \/ \E valid \in BOOLEAN : Register!Submit(r, valid)
      PROVE  RegisterOwns' /\ \A s \in Attempts : RegisterProgress(s)'
  <2>1. RegisterProgress(r)'
    BY <1>3 DEF Register!OverLimit, Register!Submit, Register!Answered, Register!Conflict,
       RegisterProgress, Register!TypeOK
  <2> QED
    BY <1>2, <1>3, <2>1 DEF Register!OverLimit, Register!Submit, Register!Answered,
       Register!TypeOK
<1>4. ASSUME NEW r \in Attempts,
             \/ Register!AdminToken(r) \/ Register!AdminTokenFails(r) \/ Register!CreateRefused(r)
             \/ Register!Searched(r) \/ Register!Raises(r)
      PROVE  RegisterOwns' /\ \A s \in Attempts : RegisterProgress(s)'
  <2>1. RegisterProgress(r)'
    BY <1>4 DEF Register!AdminToken, Register!AdminTokenFails, Register!CreateRefused,
       Register!Searched, Register!Raises, Register!Reach, Register!Fails, Register!Answered,
       Register!Conflict, RegisterProgress, Register!TypeOK
  <2> QED
    BY <1>2, <1>4, <2>1 DEF Register!AdminToken, Register!AdminTokenFails, Register!CreateRefused,
       Register!Searched, Register!Raises, Register!Reach, Register!Fails, Register!Answered,
       Register!TypeOK
<1>5. ASSUME NEW r \in Attempts, Register!UserExists(r)
      PROVE  RegisterOwns' /\ \A s \in Attempts : RegisterProgress(s)'
  <2>1. RegisterProgress(r)'
    BY <1>5 DEF Register!UserExists, Register!Answered, RegisterProgress, Register!TypeOK,
       Register!Conflict
  <2> QED
    BY <1>2, <1>5, <2>1 DEF Register!UserExists, Register!Answered, Register!TypeOK
<1>6. ASSUME NEW r \in Attempts, Register!UserCreated(r) \/ Register!CreateLost(r)
      PROVE  RegisterOwns' /\ \A s \in Attempts : RegisterProgress(s)'
  <2>1. RegisterProgress(r)'
    BY <1>1, <1>6 DEF Register!UserCreated, Register!CreateLost, Register!NewUser, Register!Reach,
       Register!Fails, Register!Answered, Register!Conflict, RegisterProgress, Register!TypeOK,
       Register!Parameters
  <2> QED
    BY <1>2, <1>6, <2>1 DEF Register!UserCreated, Register!CreateLost, Register!NewUser,
       Register!Reach, Register!Fails, Register!Answered, Register!TypeOK
<1>7. ASSUME NEW r \in Attempts, Register!ReadRole(r) \/ Register!WriteRole(r)
      PROVE  RegisterOwns' /\ \A s \in Attempts : RegisterProgress(s)'
  <2>1. RegisterProgress(r)'
    BY <1>7 DEF Register!ReadRole, Register!WriteRole, Register!RoleRead, Register!Reach,
       RegisterProgress, Register!TypeOK
  <2> QED
    BY <1>2, <1>7, <2>1 DEF Register!ReadRole, Register!WriteRole, Register!RoleRead,
       Register!Reach, Register!TypeOK
<1>8. ASSUME NEW r \in Attempts, Register!Assigned(r)
      PROVE  RegisterOwns' /\ \A s \in Attempts : RegisterProgress(s)'
  <2>3. found[r] \subseteq Register!Roles /\ roles[NameOf[r]] \subseteq Register!Roles
    BY <1>1 DEF Register!TypeOK
  <2>4. \/ faulty' = faulty /\ roles' = [roles EXCEPT ![NameOf[r]] = @ \cup found[r]]
        \/ faulty' = faulty \cup {r} /\ roles' = roles
    BY <1>8 DEF Register!Assigned
  <2>5. r \notin faulty => found[r] = Register!Roles
    <3> HAVE r \notin faulty
    <3>1. "financial-read" \in found[r] /\ "financial-write" \in found[r]
      BY <1>8 DEF Register!Assigned, RegisterProgress
    <3> QED
      BY <2>3, <3>1 DEF Register!Roles
  <2>6. r \notin faulty' => roles'[NameOf[r]] = Register!Roles
    <3>1. r \notin faulty' => roles'[NameOf[r]] = roles[NameOf[r]] \cup Register!Roles
      BY <1>1, <2>4, <2>5 DEF Register!TypeOK
    <3> QED
      BY <2>3, <3>1
  <2>1. RegisterProgress(r)'
    BY <1>8, <2>6 DEF Register!Assigned, Register!Answered, RegisterProgress, Register!TypeOK
  <2>2. ASSUME NEW n \in Register!Names, roles[n] = Register!Roles PROVE roles'[n] = Register!Roles
    <3>1. roles'[n] = roles[n] \/ roles'[n] = roles[n] \cup found[r]
      BY <2>4 DEF Register!TypeOK
    <3> QED
      BY <2>2, <2>3, <3>1
  <2> QED
    BY <1>2, <1>8, <2>1, <2>2 DEF Register!Assigned, Register!Answered, Register!TypeOK
<1>9. CASE Register!Tick \/ Register!Restart
  BY <1>9 DEF Register!Tick, Register!Restart, Register!Aged, Register!Conflict, RegisterOwns,
     RegisterProgress, Register!TypeOK
<1>10. CASE UNCHANGED Register!vars
  BY <1>10 DEF Register!vars, Register!Conflict, RegisterOwns, RegisterProgress
<1>11. CASE \/ \E n \in Register!Names : Register!OthersTakeName(n)
            \/ \E m \in Register!Mails : Register!OthersTakeMail(m)
  <2>1. RegisterOwns'
    BY <1>11 DEF Register!OthersTakeName, Register!OthersTakeMail, RegisterOwns,
       Register!TypeOK, Register!Parameters
  <2>2. ASSUME NEW s \in Attempts PROVE RegisterProgress(s)'
    <3>1. /\ (created'[NameOf[s]] = s) = (created[NameOf[s]] = s)
          /\ (owner'[MailOf[s]] = s) = (owner[MailOf[s]] = s)
          /\ Register!Conflict(s) => Register!Conflict(s)'
      BY <1>1, <1>11 DEF Register!OthersTakeName, Register!OthersTakeMail, Register!Conflict,
         Register!TypeOK, Register!Parameters
    <3> QED
      BY <1>11, <3>1 DEF Register!OthersTakeName, Register!OthersTakeMail, RegisterProgress
  <2> QED
    BY <2>1, <2>2
<1> QED
  BY <1>3, <1>4, <1>5, <1>6, <1>7, <1>8, <1>9, <1>10, <1>11 DEF Register!Next

(* No more than the limit pass in an hour; who is told of success made the *)
(* user, and who is told that name or address is in use made neither of    *)
(* the two, one of which somebody has; and a user made here lacks a role   *)
(* only after a call that failed (_check_register_rate, do_register,       *)
(* _keycloak_create_user).                                                 *)
THEOREM RegistrationsAreSound ==
  ServicesSpec => [](RegistrationIsSound /\ (Runs("register") => Register!TypeOK))
<1> DEFINE Inv == Runs("register") => RegisterInv
<1>1. ServicesInit => Inv
  BY RegisterInit, ServicesAssumption DEF ServicesInit
<1>2. ASSUME Inv, [ServicesNext]_allVars PROVE Inv'
  BY <1>2, OneRuns, RegisterTyped, RegisterKeepsCount, RegisterGoesOn, ServicesAssumption
     DEF RegisterInv, Runs
<1>3. ASSUME RegisterInv PROVE Register!RegistrationIsSound
  <2>1. Register!HourlyLimit
    <3>1. PICK f : Entries(f, bucket, Passed, passed)
      BY <1>3 DEF RegisterInv, RegisterCounted
    <3>2. f \in Injection(Passed, 1..Len(bucket))
      BY <3>1 DEF Entries, Injection, IsInjective
    <3>3. Len(bucket) \in Nat /\ Len(bucket) <= HourLimit /\ HourLimit \in Nat
      BY <1>3, ServicesAssumption DEF RegisterInv, RegisterCounted, Register!TypeOK,
         Register!Parameters
    <3>4. IsFiniteSet(1..Len(bucket)) /\ Cardinality(1..Len(bucket)) = Len(bucket)
      <4>1. PICK n \in Nat : n = Len(bucket)
        BY <3>3
      <4>2. IsFiniteSet(1..n) /\ Cardinality(1..n) = n
        BY FS_Interval
      <4> QED
        BY <4>1, <4>2
    <3>5. IsFiniteSet(Passed) /\ Cardinality(Passed) <= Len(bucket)
      BY <3>2, <3>4, FS_Injection
    <3>6. Cardinality(Passed) <= HourLimit
      BY <3>3, <3>5, FS_CardinalityType
    <3> QED
      BY <3>6, RegisterCounts DEF Register!HourlyLimit, Passed
  <2>2. Register!AnswerIsHonest
    BY <1>3 DEF RegisterInv, RegisterProgress, Register!AnswerIsHonest
  <2>3. Register!HalfMadeHasACause
    <3> SUFFICES ASSUME NEW n \in Register!Names, created[n] \in Attempts,
                        roles[n] # Register!Roles, attemptStage[created[n]] = "over",
                        created[n] \notin faulty
                 PROVE  FALSE
      BY DEF Register!HalfMadeHasACause
    <3>1. created[n] \in Attempts /\ NameOf[created[n]] = n
      BY <1>3 DEF RegisterInv, RegisterOwns, Register!TypeOK
    <3> QED
      BY <1>3, <3>1 DEF RegisterInv, RegisterProgress
  <2> QED
    BY <2>1, <2>2, <2>3 DEF Register!RegistrationIsSound
<1>4. Inv => RegistrationIsSound /\ (Runs("register") => Register!TypeOK)
  BY <1>3 DEF RegistrationIsSound, RegisterInv
<1> QED
  BY <1>1, <1>2, <1>4, PTL DEF ServicesSpec

-----------------------------------------------------------------------------
(* Gateway.                                                                *)

LEMMA DoorCounts == ASSUME NEW S PROVE Door!Cardinality(S) = Cardinality(S)
BY DEF Door!Cardinality, Cardinality

Passes == {200, 401, 503}

(* The entry of a call that passed stays for its minute, and a call waits  *)
(* for Redis no longer than the lag.                                       *)
DoorEntry(c) ==
  /\ c \in window => since[c] # -1
  /\ since[c] = -1 => outcome[c] = 0
  /\ Door!Passed(c) /\ since[c] < Minute => c \in window
  /\ Door!Waiting(c) => since[c] <= Lag

Made == {c \in Calls : since[c] # -1}

LetThrough(k) ==
  {c \in Calls : Door!Passed(c) /\ since[c] \in k..(k + Minute - Lag - 1)}

DoorInv == /\ Door!TypeOK /\ \A c \in Calls : DoorEntry(c)
           /\ IsFiniteSet(Made)
           /\ \A k \in 0..Lag : Cardinality(LetThrough(k)) <= PerMinute

LEMMA DoorTypes ==
  ASSUME Door!Parameters, Door!TypeOK
  PROVE  /\ Minute \in Nat /\ Lag \in Nat /\ PerMinute \in Nat
         /\ Door!Oldest = Minute + Lag + 1
         /\ window \subseteq Calls /\ PodOf \in [Calls -> Pods]
         /\ since \in [Calls -> -1..Door!Oldest]
         /\ outcome \in [Calls -> {0, 200, 401, 429, 500, 503}]
         /\ \A c \in Calls : since[c] \in Int /\ since[c] >= -1
BY DEF Door!Parameters, Door!TypeOK, Door!Oldest

LEMMA DoorInit == Door!Parameters /\ Door!Init => DoorInv
<1> SUFFICES ASSUME Door!Parameters, Door!Init PROVE DoorInv
  OBVIOUS
<1>1. Door!TypeOK
  BY DEF Door!Parameters, Door!Init, Door!TypeOK, Door!NoKeys, Door!Oldest
<1>2. \A c \in Calls : DoorEntry(c)
  BY DEF Door!Init, DoorEntry, Door!Passed, Door!Waiting
<1>3. Made = {} /\ \A k : LetThrough(k) = {}
  BY DEF Door!Init, Made, LetThrough, Door!Passed
<1> QED
  BY <1>1, <1>2, <1>3, FS_EmptySet DEF DoorInv, Door!Parameters

(* A call grows older by a tick, up to an age where it no longer matters.  *)
LEMMA DoorAged ==
  ASSUME Door!Parameters, Door!TypeOK, Door!Tick, NEW c \in Calls
  PROVE  /\ since'[c] \in -1..Door!Oldest
         /\ since'[c] = since[c] \/ since'[c] = since[c] + 1
         /\ since[c] = -1 <=> since'[c] = -1
         /\ since[c] \in 0..(Minute + Lag) => since'[c] = since[c] + 1
BY DoorTypes DEF Door!Tick, Door!Aged

LEMMA DoorTyped ==
  ASSUME Door!Parameters, Door!TypeOK, [Door!Next]_Door!vars PROVE Door!TypeOK'
<1>1. ASSUME NEW c \in Calls, Door!Call(c) PROVE Door!TypeOK'
  <2>1. since' \in [Calls -> -1..Door!Oldest]
    BY <1>1, DoorTypes DEF Door!Call
  <2> QED
    BY <1>1, <2>1 DEF Door!Call, Door!TypeOK, Door!Oldest
<1>2. ASSUME NEW c \in Calls, Door!Check(c) \/ Door!CheckFails(c) PROVE Door!TypeOK'
  <2>1. window' \subseteq Calls
    BY <1>2, DoorTypes DEF Door!Check, Door!CheckFails, Door!Kept
  <2>2. outcome' \in [Calls -> {0, 200, 401, 429, 500, 503}]
    <3>1. Door!VerifyToken(PodOf[c]) \in {200, 401, 503}
      BY DEF Door!VerifyToken
    <3> QED
      BY <1>2, <3>1, DoorTypes DEF Door!Check, Door!CheckFails, Door!Answered
  <2>3. UNCHANGED <<keys, issuer, loading, realm, keycloak, since, doorFaults>>
    BY <1>2 DEF Door!Check, Door!CheckFails
  <2> QED
    BY <2>1, <2>2, <2>3 DEF Door!TypeOK, Door!Oldest
<1>3. ASSUME NEW p \in Pods, Door!Discover(p) \/ Door!FetchKeys(p) \/ Door!PodRestarts(p)
      PROVE  Door!TypeOK'
  <2>1. realm \in Nat /\ MaxRotations \in Nat /\ MaxRotations \in Int
    BY DEF Door!TypeOK, Door!Parameters
  <2>2. doorFaults' \in 0..DoorFaults
    BY <1>3 DEF Door!Discover, Door!FetchKeys, Door!PodRestarts, Door!Fault, Door!TypeOK,
       Door!Parameters
  <2>3. UNCHANGED <<realm, keycloak, window, since, outcome>>
    BY <1>3 DEF Door!Discover, Door!FetchKeys, Door!PodRestarts
  <2>4. keys' \in [Pods -> Door!NoKeys..realm]
    BY <1>3, <2>1 DEF Door!Discover, Door!FetchKeys, Door!PodRestarts, Door!TypeOK, Door!NoKeys
  <2>5. /\ issuer' \in [Pods -> {"fallback", "published"}]
        /\ loading' \in [Pods -> {"no", "fallback", "published"}]
    BY <1>3 DEF Door!Discover, Door!FetchKeys, Door!PodRestarts, Door!TypeOK
  <2> QED
    BY <2>2, <2>3, <2>4, <2>5 DEF Door!TypeOK, Door!Oldest
<1>4. CASE Door!Tick
  <2>1. since' \in [Calls -> -1..Door!Oldest]
    BY <1>4, DoorAged DEF Door!Tick
  <2> QED
    BY <1>4, <2>1 DEF Door!Tick, Door!TypeOK, Door!Oldest
<1>5. CASE Door!KeysRotate
  <2>1. realm' \in 0..MaxRotations /\ Door!NoKeys..realm \subseteq Door!NoKeys..realm'
    BY <1>5 DEF Door!KeysRotate, Door!TypeOK, Door!Parameters, Door!NoKeys
  <2> QED
    BY <1>5, <2>1 DEF Door!KeysRotate, Door!TypeOK, Door!Oldest
<1>6. CASE Door!KeycloakFails \/ Door!KeycloakReturns
  <2>1. doorFaults' \in 0..DoorFaults
    BY <1>6 DEF Door!KeycloakFails, Door!KeycloakReturns, Door!Fault, Door!TypeOK,
       Door!Parameters
  <2>2. keycloak' \in BOOLEAN
    BY <1>6, Zenon DEF Door!KeycloakFails, Door!KeycloakReturns
  <2>3. UNCHANGED <<keys, issuer, loading, realm, window, since, outcome>>
    BY <1>6 DEF Door!KeycloakFails, Door!KeycloakReturns
  <2> QED
    BY <2>1, <2>2, <2>3 DEF Door!TypeOK, Door!Oldest
<1>7. CASE Door!KeyExpires
  BY <1>7 DEF Door!KeyExpires, Door!TypeOK, Door!Oldest
<1>8. CASE UNCHANGED Door!vars
  BY <1>8 DEF Door!vars, Door!TypeOK, Door!Oldest
<1> QED
  BY <1>1, <1>2, <1>3, <1>4, <1>5, <1>6, <1>7, <1>8 DEF Door!Next

(* What a transaction counts came within the minute of its call, and what  *)
(* passed in a window around the call is counted.                          *)
LEMMA DoorKept ==
  ASSUME Door!Parameters, DoorInv, NEW c \in Calls, Door!Waiting(c)
  PROVE  /\ IsFiniteSet(Door!Kept(c)) /\ Cardinality(Door!Kept(c)) \in Nat
         /\ \A d \in Door!Kept(c) : since[d] \in 0..(Minute + Lag - 1) \/ d = c
         /\ \A d \in Calls : Door!Passed(d) /\ since[d] < Minute => d \in Door!Kept(c)
<1> USE DoorTypes DEF DoorInv
<1>1. since[c] \in 0..Lag
  BY DEF DoorEntry, Door!Waiting
<1>2. \A d \in Calls : d \in Door!Kept(c) <=> d = c \/ (d \in window /\ since[d] - since[c] < Minute)
  BY DEF Door!Kept
<1>3. Door!Kept(c) \subseteq Made
  BY DEF Door!Kept, DoorEntry, Made, Door!Waiting
<1>4. IsFiniteSet(Door!Kept(c)) /\ Cardinality(Door!Kept(c)) \in Nat
  BY <1>3, FS_Subset, FS_CardinalityType
<1>5. ASSUME NEW d \in Door!Kept(c), d # c PROVE since[d] \in 0..(Minute + Lag - 1)
  <2>1. d \in window /\ d \in Calls /\ since[d] - since[c] < Minute /\ since[d] # -1
    BY <1>5 DEF Door!Kept, DoorEntry
  <2> QED
    BY <1>1, <2>1
<1>6. ASSUME NEW d \in Calls, Door!Passed(d), since[d] < Minute PROVE d \in Door!Kept(c)
  <2>1. d \in window /\ since[d] - since[c] < Minute
    BY <1>1, <1>6 DEF DoorEntry
  <2> QED
    BY <1>2, <2>1
<1> QED
  BY <1>4, <1>5, <1>6

(* A transaction: the call passes only where the window has room for it.   *)
LEMMA DoorChecks ==
  ASSUME Door!Parameters, DoorInv, NEW c \in Calls, Door!Check(c) \/ Door!CheckFails(c)
  PROVE  DoorInv'
<1> USE DEF DoorInv
<1>1. Door!TypeOK' /\ since' = since /\ Door!Waiting(c) /\ Made' = Made
  <2>1. since' = since /\ Door!Waiting(c)
    BY DEF Door!Check, Door!CheckFails
  <2>2. Door!TypeOK'
    BY DoorTyped DEF Door!Next
  <2> QED
    BY <2>1, <2>2 DEF Made
<1>2. /\ \A d \in Calls \ {c} : outcome'[d] = outcome[d]
      /\ outcome'[c] # 0
      /\ Door!Passed(c)' => window' = Door!Kept(c) /\ Cardinality(Door!Kept(c)) <= PerMinute
      /\ window' \in {window, Door!Kept(c)}
  <2>1. CASE Door!Check(c)
    <3>1. Door!VerifyToken(PodOf[c]) \in Passes
      BY DEF Door!VerifyToken, Passes
    <3>2. outcome' = [outcome EXCEPT ![c] = IF Cardinality(Door!Kept(c)) > PerMinute THEN 429
                                            ELSE Door!VerifyToken(PodOf[c])]
      BY <2>1, DoorCounts DEF Door!Check, Door!Answered, Door!Count
    <3>3. window' = Door!Kept(c) /\ Cardinality(Door!Kept(c)) \in Nat
      BY <1>1, <2>1, DoorKept DEF Door!Check
    <3> QED
      BY <3>1, <3>2, <3>3, DoorTypes DEF Door!Passed, Passes
  <2>2. CASE Door!CheckFails(c)
    BY <2>2, DoorTypes DEF Door!CheckFails, Door!Answered, Door!Passed
  <2> QED
    BY <2>1, <2>2
<1>3. ASSUME NEW d \in Calls PROVE DoorEntry(d)'
  <2>1. since[c] \in 0..Lag /\ since[d] \in Int
    BY <1>1, DoorTypes DEF DoorEntry, Door!Waiting
  <2>2. d \in window' => since'[d] # -1
    BY <1>1, <1>2, <2>1, DoorTypes DEF DoorEntry, Door!Kept
  <2>3. since'[d] = -1 => outcome'[d] = 0
    BY <1>1, <1>2, <2>1 DEF DoorEntry
  <2>4. Door!Passed(d)' /\ since'[d] < Minute => d \in window'
    <3> SUFFICES ASSUME Door!Passed(d)', since'[d] < Minute PROVE d \in window'
      OBVIOUS
    <3>1. CASE d = c
      BY <1>2, <3>1 DEF Door!Kept
    <3>2. CASE d # c
      <4>1. Door!Passed(d) /\ since[d] < Minute
        BY <1>1, <1>2, <3>2 DEF Door!Passed
      <4>2. d \in window /\ d \in Door!Kept(c)
        BY <1>1, <4>1, DoorKept DEF DoorEntry
      <4> QED
        BY <1>2, <4>2
    <3> QED
      BY <3>1, <3>2
  <2>5. Door!Waiting(d)' => since'[d] <= Lag
    BY <1>1, <1>2, <2>1 DEF DoorEntry, Door!Waiting
  <2> QED
    BY <2>2, <2>3, <2>4, <2>5 DEF DoorEntry
<1>4. ASSUME NEW k \in 0..Lag PROVE Cardinality(LetThrough(k)') <= PerMinute
  <2>1. CASE ~Door!Passed(c)' \/ since[c] \notin k..(k + Minute - Lag - 1)
    <3>1. LetThrough(k)' \subseteq LetThrough(k) /\ LetThrough(k) \subseteq Made
      BY <1>1, <1>2, <2>1, DoorTypes DEF LetThrough, Made, Door!Passed
    <3>2. /\ Cardinality(LetThrough(k)') <= Cardinality(LetThrough(k))
          /\ Cardinality(LetThrough(k)') \in Nat /\ Cardinality(LetThrough(k)) \in Nat
      BY <3>1, FS_Subset, FS_CardinalityType
    <3> QED
      BY <3>2, DoorTypes
  <2>2. CASE Door!Passed(c)' /\ since[c] \in k..(k + Minute - Lag - 1)
    <3>1. ASSUME NEW d \in LetThrough(k)' PROVE d \in Door!Kept(c)
      <4>1. d \in Calls /\ Door!Passed(d)' /\ since[d] \in k..(k + Minute - Lag - 1)
        BY <1>1, <3>1 DEF LetThrough
      <4>2. CASE d = c
        BY <4>2 DEF Door!Kept
      <4>3. CASE d # c
        <5>1. Door!Passed(d) /\ since[d] < Minute
          BY <1>2, <4>1, <4>3, DoorTypes DEF Door!Passed
        <5> QED
          BY <1>1, <4>1, <5>1, DoorKept
      <4> QED
        BY <4>2, <4>3
    <3>2. IsFiniteSet(Door!Kept(c)) /\ Cardinality(Door!Kept(c)) \in Nat
      BY <1>1, DoorKept
    <3>3. LetThrough(k)' \subseteq Door!Kept(c)
      BY <3>1
    <3>4. /\ Cardinality(LetThrough(k)') <= Cardinality(Door!Kept(c))
          /\ Cardinality(LetThrough(k)') \in Nat
      BY <3>2, <3>3, FS_Subset, FS_CardinalityType
    <3> QED
      BY <1>2, <2>2, <3>2, <3>4, DoorTypes
  <2> QED
    BY <2>1, <2>2
<1> QED
  BY <1>1, <1>3, <1>4

(* Time passes: the windows move back with the calls.                      *)
LEMMA DoorTicks ==
  ASSUME Door!Parameters, DoorInv, Door!Tick PROVE DoorInv'
<1> USE DEF DoorInv
<1>1. Door!TypeOK' /\ window' = window /\ outcome' = outcome
  <2>1. Door!TypeOK'
    BY DoorTyped DEF Door!Next
  <2> QED
    BY <2>1 DEF Door!Tick
<1>2. \A c \in Calls : (Door!Passed(c)' <=> Door!Passed(c))
  BY <1>1 DEF Door!Passed
<1>3. ASSUME NEW c \in Calls PROVE DoorEntry(c)'
  <2>1. /\ since'[c] \in Int /\ since[c] \in Int
        /\ since'[c] = since[c] \/ since'[c] = since[c] + 1
        /\ since[c] = -1 <=> since'[c] = -1
    BY DoorTypes, DoorAged DEF Door!Oldest
  <2>2. Door!Waiting(c)' => Door!Waiting(c) /\ since[c] < Lag
    BY <1>1, <2>1 DEF Door!Waiting, Door!Tick
  <2>3. Door!Waiting(c)' => since'[c] <= Lag
    BY <2>1, <2>2, DoorTypes
  <2>4. Door!Passed(c)' /\ since'[c] < Minute => c \in window'
    BY <1>1, <1>2, <2>1, DoorTypes DEF DoorEntry
  <2> QED
    BY <1>1, <2>1, <2>3, <2>4 DEF DoorEntry
<1>4. Made' = Made
  BY DoorAged DEF Made
<1>5. ASSUME NEW k \in 0..Lag PROVE Cardinality(LetThrough(k)') <= PerMinute
  <2>1. PICK j \in 0..Lag : k = j + 1 \/ (k = 0 /\ j = 0)
    <3>1. CASE k = 0
      BY <3>1, DoorTypes
    <3>2. CASE k # 0
      <4>1. k - 1 \in 0..Lag /\ k = (k - 1) + 1
        BY <3>2, DoorTypes
      <4> QED
        BY <4>1
    <3> QED
      BY <3>1, <3>2
  <2>2. ASSUME NEW c \in LetThrough(k)' PROVE c \in LetThrough(j)
    <3>1. c \in Calls /\ Door!Passed(c) /\ since'[c] \in k..(k + Minute - Lag - 1)
      BY <1>2, <2>2 DEF LetThrough
    <3>2. /\ since[c] # -1 /\ since[c] \in Int /\ since[c] >= -1
          /\ since[c] \in 0..(Minute + Lag) => since'[c] = since[c] + 1
          /\ since'[c] = since[c] \/ since'[c] = since[c] + 1
      BY <3>1, DoorAged, DoorTypes DEF DoorEntry, Door!Passed
    <3>3. since'[c] = since[c] + 1
      BY <3>1, <3>2, DoorTypes
    <3>4. since[c] \in j..(j + Minute - Lag - 1)
      BY <2>1, <3>1, <3>2, <3>3, DoorTypes
    <3> QED
      BY <3>1, <3>4 DEF LetThrough
  <2>3. LetThrough(j) \subseteq Made /\ LetThrough(k)' \subseteq LetThrough(j)
    BY <2>2, DoorTypes DEF LetThrough, Made
  <2>4. /\ Cardinality(LetThrough(k)') <= Cardinality(LetThrough(j))
        /\ Cardinality(LetThrough(k)') \in Nat /\ Cardinality(LetThrough(j)) \in Nat
    BY <2>3, FS_Subset, FS_CardinalityType
  <2> QED
    BY <2>4, DoorTypes
<1> QED
  BY <1>1, <1>3, <1>4, <1>5

LEMMA DoorStep ==
  ASSUME Door!Parameters, DoorInv, [Door!Next]_Door!vars PROVE DoorInv'
<1> USE DEF DoorInv
<1>1. Door!TypeOK'
  BY DoorTyped
<1>2. ASSUME NEW c \in Calls, Door!Call(c) PROVE DoorInv'
  <2>1. /\ since[c] = -1 /\ since'[c] = 0 /\ \A d \in Calls \ {c} : since'[d] = since[d]
        /\ outcome' = outcome /\ window' = window /\ outcome[c] = 0
    BY <1>2, DoorTypes DEF Door!Call, DoorEntry
  <2>2. \A d \in Calls : DoorEntry(d)'
    BY <2>1, DoorTypes DEF DoorEntry, Door!Passed, Door!Waiting
  <2>3. Made' = Made \cup {c}
    BY <2>1 DEF Made
  <2>4. \A k \in 0..Lag : LetThrough(k)' = LetThrough(k)
    BY <2>1 DEF LetThrough, Door!Passed
  <2> QED
    BY <1>1, <2>2, <2>3, <2>4, FS_AddElement
<1>3. ASSUME NEW c \in Calls, Door!Check(c) \/ Door!CheckFails(c) PROVE DoorInv'
  BY <1>3, DoorChecks
<1>4. CASE Door!Tick
  BY <1>4, DoorTicks
<1>5. CASE Door!KeyExpires
  <2>1. /\ window' = {} /\ UNCHANGED <<since, outcome>>
        /\ \A c \in window : since[c] > Minute
    BY <1>5 DEF Door!KeyExpires
  <2>2. \A c \in Calls : DoorEntry(c)'
    BY <2>1, DoorTypes DEF DoorEntry, Door!Passed, Door!Waiting
  <2>3. Made' = Made /\ \A k \in 0..Lag : LetThrough(k)' = LetThrough(k)
    BY <2>1 DEF Made, LetThrough, Door!Passed
  <2> QED
    BY <1>1, <2>2, <2>3
<1>6. CASE UNCHANGED <<window, since, outcome>>
  <2>1. \A c \in Calls : DoorEntry(c)'
    BY <1>6 DEF DoorEntry, Door!Passed, Door!Waiting
  <2>2. Made' = Made /\ \A k \in 0..Lag : LetThrough(k)' = LetThrough(k)
    BY <1>6 DEF Made, LetThrough, Door!Passed
  <2> QED
    BY <1>1, <2>1, <2>2
<1>7. ASSUME \/ \E p \in Pods : Door!Discover(p) \/ Door!FetchKeys(p) \/ Door!PodRestarts(p)
             \/ Door!KeycloakFails \/ Door!KeycloakReturns \/ Door!KeysRotate
             \/ UNCHANGED Door!vars
      PROVE  UNCHANGED <<window, since, outcome>>
  BY <1>7 DEF Door!Discover, Door!FetchKeys, Door!PodRestarts, Door!KeycloakFails,
     Door!KeycloakReturns, Door!KeysRotate, Door!vars
<1> QED
  BY <1>2, <1>3, <1>4, <1>5, <1>6, <1>7 DEF Door!Next

LEMMA DoorKeeps == ServicesSpec => []DoorInv
<1>1. ServicesInit => DoorInv
  BY DoorInit, ServicesAssumption DEF ServicesInit
<1>2. DoorInv /\ [ServicesNext]_allVars => DoorInv'
  BY OneRuns, DoorStep, ServicesAssumption
<1> QED
  BY <1>1, <1>2, PTL DEF ServicesSpec

(* Whichever pods the calls of an address go to, no more than the limit    *)
(* pass in a minute less the lag, and none is turned away with 429 unless  *)
(* more than the limit came within a minute and the lag                    *)
(* (_check_rate_limit).                                                    *)
THEOREM RateLimitsAreFair == ServicesSpec => RateLimitIsFair
<1> DEFINE EarnedBy(c) ==
      outcome[c] # 429 /\ outcome'[c] = 429 =>
        Door!Cardinality({d \in Calls : since[d] \in 0..(Minute + Lag - 1)}) > PerMinute
<1>1. DoorInv => Door!MinuteLimit
  BY DoorCounts DEF DoorInv, Door!MinuteLimit, LetThrough
<1>2. ASSUME DoorInv, [ServicesNext]_allVars PROVE [\A c \in Calls : EarnedBy(c)]_Door!vars
  <2> SUFFICES ASSUME NEW c \in Calls, outcome[c] # 429, outcome'[c] = 429
               PROVE  Door!Cardinality({d \in Calls : since[d] \in 0..(Minute + Lag - 1)})
                        > PerMinute
    OBVIOUS
  <2> DEFINE young == {d \in Calls : since[d] \in 0..(Minute + Lag - 1)}
  <2>1. [Door!Next]_Door!vars
    BY <1>2, OneRuns
  <2>2. \A d \in Calls : Door!Check(d) \/ Door!CheckFails(d) => Door!Check(d) /\ d = c
    BY <1>2 DEF Door!Check, Door!CheckFails, Door!Answered, DoorInv, Door!TypeOK
  <2>3. \E d \in Calls : Door!Check(d) \/ Door!CheckFails(d)
    BY <2>1 DEF Door!Next, Door!Discover, Door!FetchKeys, Door!PodRestarts, Door!Call,
       Door!KeyExpires, Door!Tick, Door!KeycloakFails, Door!KeycloakReturns, Door!KeysRotate,
       Door!vars
  <2>4. Door!Check(c) /\ Door!Waiting(c)
    BY <2>2, <2>3 DEF Door!Check
  <2>5. Cardinality(Door!Kept(c)) > PerMinute
    <3>1. Door!VerifyToken(PodOf[c]) # 429
      BY DEF Door!VerifyToken
    <3>2. outcome'[c] = IF Cardinality(Door!Kept(c)) > PerMinute THEN 429
                        ELSE Door!VerifyToken(PodOf[c])
      BY <1>2, <2>4, DoorCounts DEF Door!Check, Door!Answered, Door!Count, DoorInv, Door!TypeOK
    <3> QED
      BY <3>1, <3>2
  <2>6. Door!Kept(c) \subseteq young
    <3>1. since[c] \in 0..Lag /\ Minute \in Nat \ {0} /\ Lag \in Nat
      BY <1>2, <2>4, DoorTypes, ServicesAssumption
         DEF DoorInv, DoorEntry, Door!Waiting, Door!Parameters
    <3>2. since[c] \in 0..(Minute + Lag - 1)
      BY <3>1
    <3>3. Door!Kept(c) \subseteq Calls
      BY <1>2 DEF Door!Kept, DoorInv, Door!TypeOK
    <3>4. \A d \in Door!Kept(c) : since[d] \in 0..(Minute + Lag - 1) \/ d = c
      BY <1>2, <2>4, DoorKept, ServicesAssumption
    <3> QED
      BY <3>2, <3>3, <3>4
  <2>7. Cardinality(Door!Kept(c)) <= Cardinality(young) /\ Cardinality(young) \in Nat
        /\ Cardinality(Door!Kept(c)) \in Nat
    <3>1. young \subseteq Made /\ IsFiniteSet(Made)
      BY <1>2 DEF Made, DoorInv
    <3> QED
      BY <2>6, <3>1, FS_Subset, FS_CardinalityType
  <2>8. PerMinute \in Nat
    BY ServicesAssumption DEF Door!Parameters
  <2>9. Cardinality(young) > PerMinute
    <3> HIDE DEF young
    <3> QED
      BY <2>5, <2>7, <2>8
  <2> QED
    BY <2>9, DoorCounts
<1> QED
  BY <1>1, <1>2, DoorKeeps, PTL
     DEF ServicesSpec, RateLimitIsFair, Door!RateLimitIsFair, Door!LimitIsEarned

-----------------------------------------------------------------------------
(* EventWindow.                                                            *)

LEMMA ScoreCounts == ASSUME NEW S PROVE Score!Cardinality(S) = Cardinality(S)
BY DEF Score!Cardinality, Cardinality

LEMMA ScoreMost ==
  ASSUME NEW i \in Int, NEW j \in Int
  PROVE  /\ Score!Max({i, j}) = IF i >= j THEN i ELSE j
         /\ Score!Min({i, j}) = IF i <= j THEN i ELSE j
<1>1. \A m \in {i, j} : (\A n \in {i, j} : m >= n) => m = IF i >= j THEN i ELSE j
  OBVIOUS
<1>2. \E m \in {i, j} : \A n \in {i, j} : m >= n
  OBVIOUS
<1>3. \A m \in {i, j} : (\A n \in {i, j} : m =< n) => m = IF i <= j THEN i ELSE j
  OBVIOUS
<1>4. \E m \in {i, j} : \A n \in {i, j} : m =< n
  OBVIOUS
<1>5. Score!Max({i, j}) \in {i, j} /\ \A n \in {i, j} : Score!Max({i, j}) >= n
  BY <1>2 DEF Score!Max
<1>6. Score!Min({i, j}) \in {i, j} /\ \A n \in {i, j} : Score!Min({i, j}) =< n
  BY <1>4 DEF Score!Min
<1> QED
  BY <1>1, <1>3, <1>5, <1>6

(* Induction over the numbers that have a property, as a set.              *)
LEMMA Numbers ==
  ASSUME NEW P, 0 \in P, \A n \in Nat : n \in P => n + 1 \in P PROVE Nat \subseteq P
<1> DEFINE rest == Nat \ P
<1> SUFFICES ASSUME rest # {} PROVE FALSE
  OBVIOUS
<1>1. PICK m \in rest : \A n \in rest : <<n, m>> \notin OpToRel(<, Nat)
  BY WFMin, NatLessThanWellFounded
<1>2. \A n \in rest : ~(n < m)
  BY <1>1 DEF OpToRel
<1>3. m - 1 \in Nat /\ m - 1 \notin rest
  BY <1>2
<1> QED
  BY <1>3

(* The score is from 0 to 100: each rule adds what is not negative, in     *)
(* whatever order the fold takes the rules.                                *)
Points(events, name) ==
  Score!Contribution(name, Score!Cardinality({e \in events : name \in Matches[e]}))

LEMMA PointsType ==
  ASSUME NEW events, IsFiniteSet(events), NEW name \in DOMAIN Score!Weight
  PROVE  Points(events, name) \in Nat
<1> DEFINE count == Score!Cardinality({e \in events : name \in Matches[e]})
<1>1. count \in Nat
  BY FS_Subset, FS_CardinalityType, ScoreCounts
<1>2. Score!Weight[name] \in Nat
  BY DEF Score!Weight
<1>3. count \in 1..7 => Score!Log2[count] \in Nat
  BY DEF Score!Log2
<1>4. ASSUME NEW w \in Nat, NEW l \in Nat PROVE (w * (100 + l)) \div 4 \in Nat /\ 100 * w \in Nat
  <2>1. w * (100 + l) \in Nat
    BY <1>4
  <2> QED
    BY <1>4, <2>1
<1> HIDE DEF count
<1>5. Score!Contribution(name, count) \in Nat
  BY <1>1, <1>2, <1>3, <1>4 DEF Score!Contribution
<1> QED
  BY <1>5 DEF Points, count

Pick(S) == CHOOSE x \in S : TRUE

Folds(g, events, D) ==
  \A s \in D : g[s] = IF s = {} THEN 0 ELSE Points(events, Pick(s)) + g[s \ {Pick(s)}]

LEMMA RulesAreFinite == IsFiniteSet(DOMAIN Score!Weight)
<1>1. DOMAIN Score!Weight =
        {"brute_force", "fraud_gate_bypass", "lateral_movement", "port_scan", "exploit_probe",
         "cryptomining", "cred_stuffing", "data_exfil", "access_denied", "jwt_replay",
         "container_escape"}
  BY DEF Score!Weight
<1> DEFINE A == ({"brute_force"} \cup {"fraud_gate_bypass"}) \cup {"lateral_movement"}
           B == ((A \cup {"port_scan"}) \cup {"exploit_probe"}) \cup {"cryptomining"}
           C == ((B \cup {"cred_stuffing"}) \cup {"data_exfil"}) \cup {"access_denied"}
           E == (C \cup {"jwt_replay"}) \cup {"container_escape"}
<1>2. DOMAIN Score!Weight = E
  BY <1>1, Zenon
<1>3. \A S, x : IsFiniteSet(S) => IsFiniteSet(S \cup {x})
  BY FS_AddElement
<1>4. IsFiniteSet(A)
  BY <1>3, FS_Singleton
<1>5. IsFiniteSet(B)
  <2> HIDE DEF A
  <2> QED
    BY <1>3, <1>4
<1>6. IsFiniteSet(C)
  <2> HIDE DEF B
  <2> QED
    BY <1>3, <1>5
<1>7. IsFiniteSet(E)
  <2> HIDE DEF C
  <2> QED
    BY <1>3, <1>6
<1> QED
  BY <1>2, <1>7

LEMMA FoldExists ==
  ASSUME NEW events, IsFiniteSet(events), NEW D, IsFiniteSet(D), D \subseteq DOMAIN Score!Weight
  PROVE  \E g \in [SUBSET D -> Nat] : Folds(g, events, SUBSET D)
<1> DEFINE UpTo(n) == {s \in SUBSET D : Cardinality(s) <= n}
           P == {n \in Nat : \E g \in [UpTo(n) -> Nat] : Folds(g, events, UpTo(n))}
<1>f. \A s \in SUBSET D : IsFiniteSet(s) /\ Cardinality(s) \in Nat
  BY FS_Subset, FS_CardinalityType
<1>1. 0 \in P
  <2> DEFINE g == [s \in UpTo(0) |-> 0]
  <2>1. \A s \in UpTo(0) : s = {}
    BY <1>f, FS_EmptySet
  <2>2. g \in [UpTo(0) -> Nat] /\ Folds(g, events, UpTo(0))
    BY <2>1 DEF Folds
  <2> QED
    BY <2>2
<1>2. ASSUME NEW n \in Nat, n \in P PROVE n + 1 \in P
  <2>1. PICK g \in [UpTo(n) -> Nat] : Folds(g, events, UpTo(n))
    BY <1>2
  <2> DEFINE h == [s \in UpTo(n + 1) |->
                     IF s = {} THEN 0 ELSE Points(events, Pick(s)) + g[s \ {Pick(s)}]]
  <2>2. \A s \in UpTo(n) : s \in UpTo(n + 1) /\ h[s] = g[s]
    <3>1. \A s \in UpTo(n) : s \in UpTo(n + 1)
      BY <1>f
    <3> QED
      BY <2>1, <3>1 DEF Folds
  <2>3. ASSUME NEW s \in UpTo(n + 1), s # {}
        PROVE  Pick(s) \in D /\ s \ {Pick(s)} \in UpTo(n)
    <3>1. Pick(s) \in s
      BY <2>3 DEF Pick
    <3>2. IsFiniteSet(s) /\ Cardinality(s) \in Nat /\ Cardinality(s) <= n + 1
      BY <1>f
    <3>3. Cardinality(s \ {Pick(s)}) = Cardinality(s) - 1
      BY <3>1, <3>2, FS_RemoveElement
    <3>4. Cardinality(s \ {Pick(s)}) <= n
      BY <3>2, <3>3
    <3> QED
      BY <3>1, <3>4
  <2>4. ASSUME NEW s \in UpTo(n + 1)
        PROVE  /\ h[s] \in Nat
               /\ h[s] = IF s = {} THEN 0 ELSE Points(events, Pick(s)) + h[s \ {Pick(s)}]
    <3>1. CASE s = {}
      BY <3>1
    <3>2. CASE s # {}
      <4>1. Points(events, Pick(s)) \in Nat
        BY <2>3, <3>2, PointsType
      <4>2. g[s \ {Pick(s)}] \in Nat /\ h[s \ {Pick(s)}] = g[s \ {Pick(s)}]
        BY <2>1, <2>2, <2>3, <3>2
      <4>3. h[s] = Points(events, Pick(s)) + g[s \ {Pick(s)}]
        BY <3>2
      <4> HIDE DEF h
      <4> QED
        BY <3>2, <4>1, <4>2, <4>3
    <3> QED
      BY <3>1, <3>2
  <2>5. h \in [UpTo(n + 1) -> Nat] /\ Folds(h, events, UpTo(n + 1))
    <3>1. h = [s \in UpTo(n + 1) |-> h[s]]
      OBVIOUS
    <3> HIDE DEF h
    <3> QED
      BY <2>4, <3>1 DEF Folds
  <2> HIDE DEF h, UpTo
  <2>6. \E k \in [UpTo(n + 1) -> Nat] : Folds(k, events, UpTo(n + 1))
    BY <2>5
  <2> QED
    BY <2>6
<1>3. Cardinality(D) \in P
  <2> HIDE DEF P
  <2> QED
    BY <1>1, <1>2, <1>f, Numbers
<1>4. UpTo(Cardinality(D)) = SUBSET D
  <2>1. \A s \in SUBSET D : Cardinality(s) <= Cardinality(D)
    BY FS_Subset
  <2> QED
    BY <2>1
<1> QED
  BY <1>3, <1>4

LEMMA FoldType ==
  ASSUME NEW events, IsFiniteSet(events), NEW D, IsFiniteSet(D), D \subseteq DOMAIN Score!Weight,
         NEW g, Folds(g, events, SUBSET D)
  PROVE  g[D] \in Nat
<1> DEFINE P == {n \in Nat : \A s \in SUBSET D : Cardinality(s) = n => g[s] \in Nat}
<1>f. \A s \in SUBSET D : IsFiniteSet(s) /\ Cardinality(s) \in Nat
  BY FS_Subset, FS_CardinalityType
<1>1. 0 \in P
  BY <1>f, FS_EmptySet DEF Folds
<1>2. ASSUME NEW n \in Nat, n \in P PROVE n + 1 \in P
  <2> SUFFICES ASSUME NEW s \in SUBSET D, Cardinality(s) = n + 1 PROVE g[s] \in Nat
    OBVIOUS
  <2>1. s # {}
    <3>1. Cardinality({}) = 0 /\ n + 1 # 0
      BY FS_EmptySet
    <3> QED
      BY <3>1
  <2>2. Pick(s) \in s
    BY <2>1 DEF Pick
  <2>3. s \ {Pick(s)} \in SUBSET D /\ Cardinality(s \ {Pick(s)}) = n
    <3>1. Cardinality(s \ {Pick(s)}) = Cardinality(s) - 1
      BY <1>f, <2>2, FS_RemoveElement
    <3> QED
      BY <3>1
  <2>4. g[s \ {Pick(s)}] \in Nat
    BY <1>2, <2>3
  <2>5. Points(events, Pick(s)) \in Nat
    BY <2>2, PointsType
  <2>6. g[s] = Points(events, Pick(s)) + g[s \ {Pick(s)}]
    BY <2>1 DEF Folds
  <2> QED
    BY <2>4, <2>5, <2>6
<1>3. Nat \subseteq P
  <2> HIDE DEF P
  <2> QED
    BY <1>1, <1>2, Numbers
<1> QED
  BY <1>3, <1>f

LEMMA ScoreType ==
  ASSUME NEW events, IsFiniteSet(events) PROVE Score!Score(events) \in 0..100
<1> DEFINE D == DOMAIN Score!Weight
           Fold(g) == g = [s \in SUBSET D |->
                             IF s = {} THEN 0 ELSE Points(events, Pick(s)) + g[s \ {Pick(s)}]]
           total == (CHOOSE g : Fold(g))[D]
<1>1. Score!Score(events) = Score!Min({100, (total + 50) \div 100})
  BY DEF Score!Score, Score!MapThenSumSet, Score!MapThenFoldSet, Points, Pick
<1>2. Fold(CHOOSE g : Fold(g))
  <2>1. PICK h \in [SUBSET D -> Nat] : Folds(h, events, SUBSET D)
    BY FoldExists, RulesAreFinite
  <2>2. Fold(h)
    BY <2>1 DEF Folds
  <2> QED
    BY <2>2
<1>3. total \in Nat
  <2>1. Folds(CHOOSE g : Fold(g), events, SUBSET D)
    BY <1>2 DEF Folds
  <2> QED
    BY <2>1, FoldType, RulesAreFinite
<1> HIDE DEF total
<1>4. PICK points \in Nat : points = (total + 50) \div 100
  BY <1>3
<1>5. Score!Score(events) = Score!Min({100, points})
  BY <1>1, <1>4
<1>6. Score!Min({100, points}) = IF 100 <= points THEN 100 ELSE points
  BY ScoreMost
<1> QED
  BY <1>5, <1>6

(* The types, with what makes the score a number: the sets are finite.     *)
ScoreTyped ==
  /\ Score!TypeOK /\ IsFiniteSet(Score!Stored)
  /\ reading # <<>> => IsFiniteSet(reading[1])
  /\ asking # <<>> => IsFiniteSet(asking[1])

(* An event has its whole life before it while it arrives; no tick passes  *)
(* while the loop reads; and what the score misses is younger than the     *)
(* time since the loop read.                                               *)
ScoreKeepsUp ==
  /\ \A e \in Events : place[e] = "arriving" => life[e] = Window
  /\ reading # <<>> =>
       /\ timer = 0
       /\ \A e \in Score!Recent : life[e] < Window => e \in reading[1]
  /\ last.ready /\ ~troubled =>
       /\ timer <= Interval
       /\ \A e \in Score!Recent : Window - life[e] > Interval - timer => e \in last.counted

ScoreInv == ScoreTyped /\ ScoreKeepsUp /\ Score!NewestKept

LEMMA TimerType ==
  ASSUME Score!Parameters
  PROVE  /\ Score!Max({Interval, FirstWait}) \in Nat
         /\ Interval <= Score!Max({Interval, FirstWait})
         /\ FirstWait <= Score!Max({Interval, FirstWait})
<1>1. Interval \in Nat /\ FirstWait \in Nat
  BY DEF Score!Parameters
<1>2. Score!Max({Interval, FirstWait}) = IF Interval >= FirstWait THEN Interval ELSE FirstWait
  BY <1>1, ScoreMost
<1> QED
  BY <1>1, <1>2

LEMMA ScoreInit == Score!Parameters /\ Score!Init => ScoreInv
<1> SUFFICES ASSUME Score!Parameters, Score!Init PROVE ScoreInv
  OBVIOUS
<1>1. Score!Stored = {}
  BY DEF Score!Init, Score!Stored
<1>2. timer \in 0..Score!Max({Interval, FirstWait})
  BY TimerType DEF Score!Init, Score!Parameters
<1>3. Score!TypeOK
  <2>1. Window \in Nat /\ ScoreFaults \in Nat
    BY DEF Score!Parameters
  <2>2. last.ready \in BOOLEAN /\ last.counted \subseteq Events /\ up \in BOOLEAN
        /\ troubled \in BOOLEAN
    BY DEF Score!Init, Score!Never
  <2> QED
    BY <1>2, <2>1, <2>2 DEF Score!Init, Score!TypeOK
<1>4. ScoreTyped
  BY <1>1, <1>3, FS_EmptySet DEF ScoreTyped, Score!Init
<1>5. ScoreKeepsUp
  BY DEF ScoreKeepsUp, Score!Init, Score!Never
<1>6. Score!NewestKept
  BY DEF Score!NewestKept, Score!Init
<1> QED
  BY <1>4, <1>5, <1>6 DEF ScoreInv

(* The event that is stored, and what the transaction keeps.               *)
LEMMA StoreKeeps ==
  ASSUME Score!Parameters, ScoreInv, NEW e \in Events, Score!Store(e)
  PROVE  \E kept \in SUBSET (Score!Stored \cup {e}) :
           /\ \A o \in kept : life[o] > 0
           /\ \A d \in (Score!Stored \cup {e}) \ kept : life[d] > 0 =>
                /\ Cardinality(kept) = MaxStored
                /\ \A o \in kept : life[o] >= life[d]
           /\ Score!Stored' = kept /\ IsFiniteSet(kept) /\ Cardinality(kept) \in Nat
           /\ Cardinality(kept) <= MaxStored
           /\ \A S \in SUBSET (Score!Stored \cup {e}) :
                (\A o \in S : life[o] > 0) /\ Cardinality(S) >= MaxStored
                  => Cardinality(kept) = MaxStored
           /\ \A o \in Events : place'[o] = IF o \in kept THEN "stored"
                                  ELSE IF o \in Score!Stored \cup {e} THEN "dropped"
                                  ELSE place[o]
<1> DEFINE added == Score!Stored \cup {e}
           trimmed == {o \in added : life[o] > life[e] - Window}
<1>1. life[e] = Window /\ Window \in Nat /\ MaxStored \in Nat
      /\ \A o \in Events : life[o] \in Int
  BY DEF ScoreInv, ScoreTyped, ScoreKeepsUp, Score!Store, Score!Parameters, Score!TypeOK
<1>2. added \subseteq Events
  BY DEF Score!Stored
<1>3. \A o \in added : o \in trimmed <=> life[o] > 0
  BY <1>1, <1>2
<1>4. PICK kept \in SUBSET trimmed :
        /\ Score!Cardinality(kept) = Score!Min({MaxStored, Score!Cardinality(trimmed)})
        /\ Score!Newest(trimmed, kept)
        /\ place' = [o \in Events |-> IF o \in kept THEN "stored"
                                      ELSE IF o \in added THEN "dropped" ELSE place[o]]
  BY DEF Score!Store
<1>5. IsFiniteSet(trimmed) /\ IsFiniteSet(kept)
      /\ Cardinality(trimmed) \in Nat /\ Cardinality(kept) \in Nat
  <2>1. IsFiniteSet(added)
    BY FS_AddElement DEF ScoreInv, ScoreTyped
  <2> HIDE DEF added
  <2>2. IsFiniteSet(trimmed)
    BY <2>1, FS_Subset
  <2> HIDE DEF trimmed
  <2> QED
    BY <2>2, FS_Subset, FS_CardinalityType
<1> HIDE DEF trimmed, added
<1>6. Cardinality(kept) = IF MaxStored <= Cardinality(trimmed) THEN MaxStored
                          ELSE Cardinality(trimmed)
  <2>1. MaxStored \in Int /\ Cardinality(trimmed) \in Int
    BY <1>1, <1>5
  <2>2. Score!Min({MaxStored, Cardinality(trimmed)}) =
          IF MaxStored <= Cardinality(trimmed) THEN MaxStored ELSE Cardinality(trimmed)
    BY <2>1, ScoreMost
  <2> QED
    BY <1>4, <2>2, ScoreCounts
<1>7. kept # trimmed => Cardinality(kept) = MaxStored
  <2>1. kept # trimmed => Cardinality(kept) # Cardinality(trimmed)
    BY <1>4, <1>5, FS_Subset
  <2> QED
    BY <1>6, <2>1
<1>8. \A d \in added \ kept : life[d] > 0 =>
        Cardinality(kept) = MaxStored /\ \A o \in kept : life[o] >= life[d]
  BY <1>3, <1>4, <1>7 DEF Score!Newest
<1>9. Score!Stored' = kept
  <2>1. \A o \in Events : place'[o] = "stored" <=> o \in kept
    BY <1>2, <1>4 DEF Score!Stored, added
  <2>2. kept \subseteq Events
    BY <1>2, <1>4 DEF trimmed
  <2> QED
    BY <2>1, <2>2 DEF Score!Stored
<1>10. ASSUME NEW S \in SUBSET added, \A o \in S : life[o] > 0, Cardinality(S) >= MaxStored
       PROVE  Cardinality(kept) = MaxStored
  <2>1. S \subseteq trimmed
    BY <1>3, <1>10
  <2>2. Cardinality(S) <= Cardinality(trimmed) /\ Cardinality(S) \in Nat
    BY <1>5, <2>1, FS_Subset, FS_CardinalityType
  <2> QED
    BY <1>1, <1>5, <1>6, <1>10, <2>2
<1>11. kept \subseteq added /\ \A o \in kept : life[o] > 0
  BY <1>3, <1>4 DEF trimmed
<1>12. Cardinality(kept) <= MaxStored
  BY <1>1, <1>5, <1>6
<1>13. \A o \in Events : place'[o] = IF o \in kept THEN "stored"
                                     ELSE IF o \in added THEN "dropped" ELSE place[o]
  BY <1>4
<1> QED
  BY <1>5, <1>8, <1>9, <1>10, <1>11, <1>12, <1>13 DEF added

(* What Redis holds, step by step.                                         *)
LEMMA StoredStep ==
  ASSUME Score!Parameters, ScoreInv, [Score!Next]_Score!vars
  PROVE  IsFiniteSet(Score!Stored')
<1>1. ASSUME NEW e \in Events, Score!Store(e) PROVE IsFiniteSet(Score!Stored')
  BY <1>1, StoreKeeps
<1>2. ASSUME \A e \in Events : ~Score!Store(e) PROVE Score!Stored' \subseteq Score!Stored
  BY <1>2 DEF ScoreInv, ScoreTyped, Score!TypeOK, Score!Next, Score!Arrive, Score!StoreFails,
     Score!LoopStep, Score!LoopReads, Score!LoopPublishes, Score!LoopFails, Score!AskReads,
     Score!AskAnswers, Score!Tick, Score!RedisFails, Score!RedisReturns, Score!Restart,
     Score!vars, Score!Stored
<1>3. IsFiniteSet(Score!Stored)
  BY DEF ScoreInv, ScoreTyped
<1> QED
  BY <1>1, <1>2, <1>3, FS_Subset

LEMMA ScoreTypes ==
  ASSUME Score!Parameters, ScoreInv, [Score!Next]_Score!vars PROVE ScoreTyped'
<1> USE DEF ScoreInv, ScoreTyped
<1>p. /\ Window \in Nat \ {0} /\ Interval \in 1..Window /\ FirstWait \in Nat
      /\ ScoreFaults \in Nat
  BY DEF Score!Parameters
<1>m. Score!Max({Interval, FirstWait}) \in Nat /\ Interval <= Score!Max({Interval, FirstWait})
      /\ FirstWait <= Score!Max({Interval, FirstWait})
  BY TimerType
<1>s. IsFiniteSet(Score!Stored')
  BY StoredStep
<1>r. Score!Recent \subseteq Events /\ IsFiniteSet(Score!Recent)
  BY FS_Subset DEF Score!Recent, Score!Stored
<1>1. ASSUME NEW e \in Events, Score!Arrive(e) \/ Score!StoreFails(e) PROVE ScoreTyped'
  <2>1. place' \in [Events -> {"new", "arriving", "stored", "dropped", "lost"}]
    BY <1>1 DEF Score!Arrive, Score!StoreFails, Score!TypeOK
  <2>2. life' \in [Events -> -1..Window]
    BY <1>1, <1>p DEF Score!Arrive, Score!StoreFails, Score!TypeOK
  <2>3. UNCHANGED <<timer, reading, asking, last, gauge, up, faults, troubled>>
    BY <1>1 DEF Score!Arrive, Score!StoreFails
  <2> QED
    BY <1>s, <2>1, <2>2, <2>3 DEF Score!TypeOK
<1>2. ASSUME NEW e \in Events, Score!Store(e) PROVE ScoreTyped'
  <2>1. place' \in [Events -> {"new", "arriving", "stored", "dropped", "lost"}]
    BY <1>2 DEF Score!Store, Score!TypeOK
  <2> QED
    BY <1>2, <1>s, <2>1 DEF Score!Store, Score!TypeOK
<1>3. CASE Score!LoopReads \/ Score!AskReads
  <2>1. \/ reading' = <<Score!Recent>> /\ asking' = asking
        \/ asking' = <<Score!Recent>> /\ reading' = reading
    BY <1>3 DEF Score!LoopReads, Score!AskReads
  <2>2. \A pass \in {reading', asking'} : pass = <<>> \/ pass[1] \subseteq Events
    BY <1>r, <2>1 DEF Score!TypeOK
  <2>3. /\ reading' # <<>> => IsFiniteSet(reading'[1])
        /\ asking' # <<>> => IsFiniteSet(asking'[1])
    BY <1>r, <2>1
  <2>4. UNCHANGED <<place, life, timer, last, gauge, up, faults, troubled>>
    BY <1>3 DEF Score!LoopReads, Score!AskReads
  <2> QED
    BY <1>s, <2>2, <2>3, <2>4 DEF Score!TypeOK
<1>4. CASE Score!LoopPublishes
  <2>1. gauge' \in 0..100
    BY <1>4, ScoreType DEF Score!LoopPublishes
  <2>2. last'.ready \in BOOLEAN /\ last'.counted \subseteq Events /\ reading' = <<>>
    BY <1>4 DEF Score!LoopPublishes, Score!TypeOK
  <2>3. timer' \in 0..Score!Max({Interval, FirstWait})
    BY <1>4, <1>p, <1>m DEF Score!LoopPublishes
  <2> QED
    BY <1>4, <1>s, <2>1, <2>2, <2>3 DEF Score!LoopPublishes, Score!TypeOK
<1>5. CASE Score!LoopFails
  BY <1>5, <1>p, <1>m, <1>s DEF Score!LoopFails, Score!TypeOK
<1>6. CASE Score!AskAnswers
  <2>1. gauge' \in 0..100
    BY <1>6, ScoreType DEF Score!AskAnswers
  <2> QED
    BY <1>6, <1>s, <2>1 DEF Score!AskAnswers, Score!TypeOK
<1>7. CASE Score!Tick
  <2>1. ASSUME NEW e \in Events PROVE life'[e] \in -1..Window
    <3>1. life[e] \in -1..Window
      BY DEF Score!TypeOK
    <3>2. life'[e] = Score!Max({-1, life[e] - 1})
      BY <1>7 DEF Score!Tick
    <3>3. Score!Max({-1, life[e] - 1}) = IF -1 >= life[e] - 1 THEN -1 ELSE life[e] - 1
      BY <1>p, <3>1, ScoreMost
    <3> QED
      BY <1>p, <3>1, <3>2, <3>3
  <2>2. life' \in [Events -> -1..Window]
    BY <1>7, <2>1 DEF Score!Tick
  <2>3. timer' \in 0..Score!Max({Interval, FirstWait})
    BY <1>7, <1>m DEF Score!Tick, Score!TypeOK
  <2> QED
    BY <1>7, <1>s, <2>2, <2>3 DEF Score!Tick, Score!TypeOK
<1>8. CASE Score!RedisFails \/ Score!RedisReturns
  <2>1. faults' \in 0..ScoreFaults
    BY <1>8, <1>p DEF Score!RedisFails, Score!RedisReturns, Score!TypeOK
  <2>2. up' \in BOOLEAN
    BY <1>8, Zenon DEF Score!RedisFails, Score!RedisReturns
  <2> QED
    BY <1>8, <1>s, <2>1, <2>2 DEF Score!RedisFails, Score!RedisReturns, Score!TypeOK
<1>9. CASE Score!Restart
  <2>1. faults' \in 0..ScoreFaults /\ timer' \in 0..Score!Max({Interval, FirstWait})
    BY <1>9, <1>p, <1>m DEF Score!Restart, Score!TypeOK
  <2>2. last'.ready \in BOOLEAN /\ last'.counted \subseteq Events
    BY <1>9 DEF Score!Restart, Score!Never
  <2>3. place' \in [Events -> {"new", "arriving", "stored", "dropped", "lost"}]
    BY <1>9 DEF Score!Restart, Score!TypeOK
  <2> QED
    BY <1>9, <1>s, <2>1, <2>2, <2>3 DEF Score!Restart, Score!TypeOK
<1>10. CASE UNCHANGED Score!vars
  BY <1>10, <1>s DEF Score!vars, Score!TypeOK
<1> QED
  BY <1>1, <1>2, <1>3, <1>4, <1>5, <1>6, <1>7, <1>8, <1>9, <1>10 DEF Score!Next, Score!LoopStep

LEMMA ScoreGoesOn ==
  ASSUME Score!Parameters, ScoreInv, [Score!Next]_Score!vars PROVE ScoreKeepsUp'
<1> USE DEF ScoreInv, ScoreKeepsUp
<1>p. Window \in Nat \ {0} /\ Interval \in 1..Window
  BY DEF Score!Parameters
<1>t. /\ place \in [Events -> {"new", "arriving", "stored", "dropped", "lost"}]
      /\ life \in [Events -> -1..Window] /\ timer \in Nat
      /\ Score!Recent \subseteq Events /\ Score!Recent \subseteq Score!Stored
  BY TimerType DEF ScoreTyped, Score!TypeOK, Score!Recent, Score!Stored
<1>1. ASSUME NEW e \in Events, Score!Arrive(e) PROVE ScoreKeepsUp'
  <2>1. Score!Recent' = Score!Recent /\ e \notin Score!Recent
        /\ \A o \in Score!Recent : life'[o] = life[o]
    BY <1>1, <1>t DEF Score!Arrive, Score!Recent, Score!Stored
  <2>2. \A o \in Events : place'[o] = "arriving" => life'[o] = Window
    BY <1>1, <1>t DEF Score!Arrive
  <2> QED
    BY <1>1, <2>1, <2>2 DEF Score!Arrive
<1>2. ASSUME NEW e \in Events, Score!Store(e) PROVE ScoreKeepsUp'
  <2>1. Score!Stored' \subseteq Score!Stored \cup {e}
        /\ \A o \in Events : place'[o] = "arriving" => place[o] = "arriving"
    BY <1>2, StoreKeeps
  <2>2. life[e] = Window
    BY <1>2 DEF Score!Store
  <2>3. UNCHANGED <<life, timer, reading, asking, last, troubled>>
    BY <1>2 DEF Score!Store
  <2>4. Score!Recent' \subseteq Score!Recent \cup {e}
    BY <2>1, <2>3 DEF Score!Recent
  <2>5. ASSUME reading' # <<>>
        PROVE  timer' = 0 /\ \A o \in Score!Recent' : life'[o] < Window => o \in reading'[1]
    BY <1>p, <2>2, <2>3, <2>4, <2>5
  <2>6. ASSUME last'.ready /\ ~troubled'
        PROVE  /\ timer' <= Interval
               /\ \A o \in Score!Recent' :
                    Window - life'[o] > Interval - timer' => o \in last'.counted
    <3>1. timer <= Interval /\ ~(Window - life[e] > Interval - timer)
      BY <1>p, <1>t, <2>2, <2>3, <2>6
    <3> QED
      BY <2>3, <2>4, <2>6, <3>1
  <2> QED
    BY <2>1, <2>3, <2>5, <2>6
<1>3. ASSUME NEW e \in Events, Score!StoreFails(e) PROVE ScoreKeepsUp'
  BY <1>3, <1>t DEF Score!StoreFails, Score!Recent, Score!Stored
<1>4. CASE Score!LoopReads
  <2>1. reading'[1] = Score!Recent /\ timer' = 0 /\ timer = 0
    BY <1>4 DEF Score!LoopReads
  <2>2. Score!Recent' = Score!Recent
        /\ UNCHANGED <<place, life, asking, last, troubled>>
    BY <1>4 DEF Score!LoopReads, Score!Recent, Score!Stored
  <2> QED
    BY <2>1, <2>2
<1>5. CASE Score!LoopPublishes
  <2>1. Score!Recent' = Score!Recent /\ UNCHANGED <<place, life>> /\ reading' = <<>>
        /\ timer' = Interval /\ last'.counted = reading[1] /\ reading # <<>>
    BY <1>5 DEF Score!LoopPublishes, Score!Recent, Score!Stored
  <2>2. \A o \in Score!Recent : Window - life[o] > Interval - Interval => life[o] < Window
    BY <1>p, <1>t
  <2> QED
    BY <1>p, <2>1, <2>2
<1>6. CASE Score!LoopFails \/ Score!Restart
  <2>1. \A o \in Events : place'[o] = "arriving" => place[o] = "arriving"
    BY <1>6, <1>t DEF Score!LoopFails, Score!Restart
  <2>2. life' = life /\ troubled' /\ reading' = <<>>
    BY <1>6 DEF Score!LoopFails, Score!Restart
  <2> QED
    BY <2>1, <2>2
<1>7. CASE Score!Tick
  <2>1. timer > 0 /\ reading = <<>> /\ reading' = <<>> /\ timer' = timer - 1
        /\ UNCHANGED <<place, last, troubled>>
        /\ \A o \in Events : place[o] # "arriving"
    BY <1>7 DEF Score!Tick
  <2>2. ASSUME NEW o \in Events PROVE life'[o] = IF -1 >= life[o] - 1 THEN -1 ELSE life[o] - 1
    <3>1. life'[o] = Score!Max({-1, life[o] - 1})
      BY <1>7 DEF Score!Tick
    <3>2. -1 \in Int /\ life[o] - 1 \in Int
      BY <1>t
    <3> QED
      BY <3>1, <3>2, ScoreMost
  <2>3. ASSUME NEW o \in Score!Recent' PROVE o \in Score!Recent /\ life'[o] = life[o] - 1
    <3>1. o \in Events /\ place[o] = "stored" /\ life'[o] >= 0
      BY <2>1, <2>3 DEF Score!Recent, Score!Stored
    <3>2. life'[o] = life[o] - 1 /\ life[o] >= 0
      BY <1>t, <2>2, <3>1
    <3> QED
      BY <3>1, <3>2 DEF Score!Recent, Score!Stored
  <2>4. ASSUME last'.ready /\ ~troubled'
        PROVE  /\ timer' <= Interval
               /\ \A o \in Score!Recent' :
                    Window - life'[o] > Interval - timer' => o \in last'.counted
    <3>1. timer <= Interval /\ timer' <= Interval
      BY <1>p, <1>t, <2>1, <2>4
    <3>2. ASSUME NEW o \in Score!Recent', Window - life'[o] > Interval - timer'
          PROVE  o \in last'.counted
      <4>1. o \in Score!Recent /\ life'[o] = life[o] - 1
        BY <2>3
      <4>2. life[o] \in Int
        BY <1>t, <4>1
      <4>3. Window - life[o] > Interval - timer
        BY <1>p, <1>t, <2>1, <3>2, <4>1, <4>2
      <4> QED
        BY <2>1, <2>4, <4>1, <4>3
    <3> QED
      BY <3>1, <3>2
  <2> QED
    BY <2>1, <2>4
<1>8. CASE UNCHANGED <<place, life, timer, reading, last, troubled>>
  BY <1>8 DEF Score!Recent, Score!Stored
<1> QED
  BY <1>1, <1>2, <1>3, <1>4, <1>5, <1>6, <1>7, <1>8
     DEF Score!Next, Score!LoopStep, Score!AskReads, Score!AskAnswers, Score!RedisFails,
         Score!RedisReturns, Score!vars

(* A newer event that was dropped has MaxStored as recent before it, and   *)
(* the next transaction keeps as many.                                     *)
AsRecent(d) == {o \in Score!Stored : life[o] >= life[d]}

LEMMA DroppedStaysOld ==
  ASSUME Score!Parameters, ScoreInv, [Score!Next]_Score!vars, ScoreTyped' PROVE Score!NewestKept'
<1>t. /\ place \in [Events -> {"new", "arriving", "stored", "dropped", "lost"}]
      /\ life \in [Events -> -1..Window] /\ Window \in Nat /\ MaxStored \in Nat
      /\ IsFiniteSet(Score!Stored) /\ IsFiniteSet(Score!Stored')
      /\ Score!Stored \subseteq Events
  BY DEF ScoreInv, ScoreTyped, Score!TypeOK, Score!Parameters, Score!Stored
<1>k. \A d \in Events : place[d] = "dropped" /\ life[d] > 0 => Cardinality(AsRecent(d)) >= MaxStored
  BY ScoreCounts DEF ScoreInv, Score!NewestKept, AsRecent
<1> SUFFICES ASSUME NEW d \in Events, place'[d] = "dropped", life'[d] > 0
             PROVE  Cardinality(AsRecent(d)') >= MaxStored
  BY ScoreCounts DEF Score!NewestKept, AsRecent
<1>1. ASSUME NEW e \in Events, Score!Store(e) PROVE Cardinality(AsRecent(d)') >= MaxStored
  <2> DEFINE added == Score!Stored \cup {e}
  <2>1. PICK kept \in SUBSET added :
           /\ \A o \in kept : life[o] > 0
           /\ \A c \in added \ kept : life[c] > 0 =>
                Cardinality(kept) = MaxStored /\ \A o \in kept : life[o] >= life[c]
           /\ Score!Stored' = kept /\ IsFiniteSet(kept) /\ Cardinality(kept) \in Nat
           /\ Cardinality(kept) <= MaxStored
           /\ \A S \in SUBSET added :
                (\A o \in S : life[o] > 0) /\ Cardinality(S) >= MaxStored
                  => Cardinality(kept) = MaxStored
           /\ \A o \in Events : place'[o] = IF o \in kept THEN "stored"
                                  ELSE IF o \in added THEN "dropped" ELSE place[o]
    BY <1>1, StoreKeeps
  <2>2. life' = life /\ d \notin kept
    BY <1>1, <2>1 DEF Score!Store
  <2>3. CASE d \in added
    <3>1. Cardinality(kept) = MaxStored /\ \A o \in kept : life[o] >= life[d]
      BY <2>1, <2>2, <2>3
    <3>2. AsRecent(d)' = kept
      BY <2>1, <2>2, <3>1 DEF AsRecent
    <3> QED
      BY <1>t, <3>1, <3>2
  <2>4. CASE d \notin added
    <3> DEFINE A == AsRecent(d)
    <3>1. place[d] = "dropped" /\ life[d] > 0 /\ A \subseteq Score!Stored
      BY <2>1, <2>2, <2>4 DEF AsRecent
    <3>2. Cardinality(A) >= MaxStored /\ A \in SUBSET added /\ \A o \in A : life[o] > 0
      <4>1. Cardinality(A) >= MaxStored
        BY <1>k, <3>1
      <4>2. \A o \in A : life[o] \in Int /\ life[d] \in Int /\ life[o] >= life[d]
        BY <1>t DEF AsRecent
      <4> QED
        BY <3>1, <4>1, <4>2
    <3>3. Cardinality(kept) = MaxStored
      <4> HIDE DEF A, added
      <4> QED
        BY <2>1, <3>2
    <3>4. ASSUME NEW k \in kept, ~(life[k] >= life[d]) PROVE FALSE
      <4>1. \A o \in added : life[o] \in Int
        BY <1>1, <1>t
      <4>2. A \subseteq kept
        <5> SUFFICES ASSUME NEW o \in A, o \notin kept PROVE FALSE
          OBVIOUS
        <5>1. o \in added \ kept /\ life[o] > 0
          BY <3>2
        <5>2. life[k] >= life[o]
          BY <2>1, <5>1
        <5>3. life[o] >= life[d] /\ life[k] \in Int /\ life[o] \in Int /\ life[d] \in Int
          BY <1>t, <2>1, <4>1, <5>1 DEF AsRecent
        <5> QED
          BY <3>4, <5>2, <5>3
      <4>3. k \notin A
        BY <3>4 DEF AsRecent
      <4>4. Cardinality(A) <= Cardinality(kept) /\ Cardinality(A) # Cardinality(kept)
            /\ Cardinality(A) \in Nat
        BY <2>1, <4>2, <4>3, FS_Subset, FS_CardinalityType
      <4> QED
        BY <1>t, <3>2, <3>3, <4>4
    <3>5. AsRecent(d)' = kept
      BY <2>1, <2>2, <3>4 DEF AsRecent
    <3> QED
      BY <1>t, <3>3, <3>5
  <2> QED
    BY <2>3, <2>4
<1>2. ASSUME place[d] = "dropped", life[d] > 0, AsRecent(d) \subseteq AsRecent(d)'
      PROVE  Cardinality(AsRecent(d)') >= MaxStored
  <2>1. IsFiniteSet(AsRecent(d)')
    <3>1. AsRecent(d)' \subseteq Score!Stored'
      BY DEF AsRecent
    <3> QED
      BY <1>t, <3>1, FS_Subset
  <2>2. /\ Cardinality(AsRecent(d)) <= Cardinality(AsRecent(d)')
        /\ Cardinality(AsRecent(d)) \in Nat /\ Cardinality(AsRecent(d)') \in Nat
    BY <1>2, <2>1, FS_Subset, FS_CardinalityType
  <2> QED
    BY <1>k, <1>2, <1>t, <2>2
<1>3. ASSUME NEW e \in Events, Score!Arrive(e) PROVE Cardinality(AsRecent(d)') >= MaxStored
  <2>1. d # e /\ place[d] = "dropped" /\ life'[d] = life[d]
    BY <1>3, <1>t DEF Score!Arrive
  <2>2. Score!Stored' = Score!Stored /\ \A o \in Score!Stored : life'[o] = life[o]
    BY <1>3, <1>t DEF Score!Arrive, Score!Stored
  <2> QED
    BY <1>2, <2>1, <2>2 DEF AsRecent
<1>4. ASSUME NEW e \in Events, Score!StoreFails(e) PROVE Cardinality(AsRecent(d)') >= MaxStored
  <2>1. place[d] = "dropped" /\ life' = life /\ Score!Stored' = Score!Stored
    BY <1>4, <1>t DEF Score!StoreFails, Score!Stored
  <2> QED
    BY <1>2, <2>1 DEF AsRecent
<1>5. CASE Score!Restart
  <2>1. place[d] = "dropped" /\ life' = life /\ Score!Stored' = Score!Stored
    BY <1>5, <1>t DEF Score!Restart, Score!Stored
  <2> QED
    BY <1>2, <2>1 DEF AsRecent
<1>6. CASE Score!Tick
  <2>1. Score!Stored' = Score!Stored /\ place' = place
    BY <1>6 DEF Score!Tick, Score!Stored
  <2>2. ASSUME NEW o \in Events PROVE life'[o] = IF -1 >= life[o] - 1 THEN -1 ELSE life[o] - 1
    <3>1. life'[o] = Score!Max({-1, life[o] - 1})
      BY <1>6 DEF Score!Tick
    <3>2. -1 \in Int /\ life[o] - 1 \in Int
      BY <1>t
    <3> QED
      BY <3>1, <3>2, ScoreMost
  <2>3. life[d] > 0 /\ life'[d] = life[d] - 1
    BY <1>t, <2>2
  <2>4. ASSUME NEW o \in Score!Stored, life[o] >= life[d] PROVE life'[o] >= life'[d]
    <3>1. life[o] \in Int /\ life[d] \in Int /\ o \in Events
      BY <1>t
    <3> QED
      BY <2>2, <2>3, <2>4, <3>1
  <2> QED
    BY <1>2, <2>1, <2>3, <2>4 DEF AsRecent
<1>7. CASE UNCHANGED <<place, life>>
  BY <1>2, <1>7 DEF AsRecent, Score!Stored
<1> QED
  BY <1>1, <1>3, <1>4, <1>5, <1>6, <1>7
     DEF Score!Next, Score!LoopStep, Score!LoopReads, Score!LoopPublishes, Score!LoopFails,
         Score!AskReads, Score!AskAnswers, Score!RedisFails, Score!RedisReturns, Score!vars

(* A flood costs no event that is newer than what it leaves, and the score *)
(* that is shown counts every event that is older than one interval        *)
(* (_store_event, _score_loop).                                            *)
THEOREM ScoresAreFresh ==
  ServicesSpec => [](ScoreIsFresh /\ (Runs("score") => Score!TypeOK))
<1> DEFINE Inv == Runs("score") => ScoreInv
<1>1. ServicesInit => Inv
  BY ScoreInit, ServicesAssumption DEF ServicesInit
<1>2. ASSUME Inv, [ServicesNext]_allVars PROVE Inv'
  BY <1>2, OneRuns, ScoreTypes, ScoreGoesOn, DroppedStaysOld, ServicesAssumption
     DEF ScoreInv, Runs
<1>3. ASSUME ScoreInv PROVE Score!CountedInTime
  <2> SUFFICES ASSUME last.ready, ~troubled, NEW e \in Score!Recent, Window - life[e] > Interval
               PROVE  e \in last.counted
    BY DEF Score!CountedInTime
  <2>1. timer \in Nat /\ Interval \in Nat /\ Window \in Nat /\ life[e] \in Int
    BY <1>3, ServicesAssumption, TimerType
       DEF ScoreInv, ScoreTyped, Score!TypeOK, Score!Recent, Score!Stored, Score!Parameters
  <2>2. Window - life[e] > Interval - timer
    BY <2>1
  <2> QED
    BY <1>3, <2>2 DEF ScoreInv, ScoreKeepsUp
<1>4. Inv => ScoreIsFresh /\ (Runs("score") => Score!TypeOK)
  BY <1>3 DEF ScoreIsFresh, Score!ScoreIsFresh, ScoreInv, ScoreTyped
<1> QED
  BY <1>1, <1>2, <1>4, PTL DEF ServicesSpec

-----------------------------------------------------------------------------
(* CaseStore.                                                              *)

LEMMA StoreCounts == ASSUME NEW S PROVE Store!Cardinality(S) = Cardinality(S)
BY DEF Store!Cardinality, Cardinality

LEMMA StoreMost ==
  ASSUME NEW S \in SUBSET Nat, S # {}, NEW n \in Nat, \A s \in S : s <= n
  PROVE  Store!Max(S) \in S /\ \A s \in S : Store!Max(S) >= s
<1> DEFINE bounds == {m \in Nat : \A s \in S : s <= m}
<1>1. PICK m \in bounds : \A k \in bounds : <<k, m>> \notin OpToRel(<, Nat)
  BY WFMin, NatLessThanWellFounded
<1>2. \A k \in bounds : ~(k < m)
  BY <1>1 DEF OpToRel
<1>3. m \in S
  <2> SUFFICES ASSUME m \notin S PROVE FALSE
    OBVIOUS
  <2>1. \A s \in S : s <= m - 1
    OBVIOUS
  <2>2. m - 1 \in bounds
    <3>1. PICK s \in S : s \in Nat /\ s <= m - 1
      BY <2>1
    <3>2. m - 1 \in Nat
      BY <3>1
    <3> QED
      BY <2>1, <3>2
  <2> QED
    BY <1>2, <2>2
<1>4. \E k \in S : \A s \in S : k >= s
  BY <1>3
<1> QED
  BY <1>4 DEF Store!Max

Piece(w, whole) == [write |-> w, whole |-> whole]

FileTyped == lines \in Seq(Seq(Store!Pieces)) /\ \A k \in 1..Len(lines) : lines[k] # <<>>

(* A piece goes to the end of an unfinished line, or starts a new one.     *)
LEMMA AppendedFacts ==
  ASSUME FileTyped, open => lines # <<>>, NEW w \in Writes, NEW whole \in BOOLEAN
  PROVE  LET text == Store!Appended(w, whole)
             n    == Len(lines)
         IN  /\ text \in Seq(Seq(Store!Pieces)) /\ n \in Nat
             /\ \A k \in 1..n : lines[k] \in Seq(Store!Pieces) /\ Len(lines[k]) \in Nat \ {0}
             /\ \A k \in 1..n : ~open \/ k # n => text[k] = lines[k]
             /\ open => /\ n \in 1..n /\ Len(text) = n
                        /\ Len(text[n]) = Len(lines[n]) + 1
                        /\ text[n][Len(lines[n]) + 1] = Piece(w, whole)
                        /\ \A i \in 1..Len(lines[n]) : text[n][i] = lines[n][i]
             /\ ~open => Len(text) = n + 1 /\ text[n + 1] = <<Piece(w, whole)>>
<1> DEFINE text == Store!Appended(w, whole)
           n    == Len(lines)
           p    == Piece(w, whole)
<1>1. p \in Store!Pieces
  BY DEF Piece, Store!Pieces
<1>2. n \in Nat /\ \A k \in 1..n : lines[k] \in Seq(Store!Pieces)
  BY LenProperties, ElementOfSeq DEF FileTyped
<1>3. \A k \in 1..n : Len(lines[k]) \in Nat \ {0}
  <2> SUFFICES ASSUME NEW k \in 1..n PROVE Len(lines[k]) \in Nat \ {0}
    OBVIOUS
  <2> QED
    BY <1>2, EmptySeq DEF FileTyped
<1>4. CASE open
  <2>1. n \in 1..n
    <3>1. n \in Nat \ {0}
      BY <1>4, EmptySeq DEF FileTyped
    <3> QED
      BY <3>1
  <2>2. text = [lines EXCEPT ![n] = Append(lines[n], p)]
    BY <1>4 DEF Store!Appended, Piece
  <2>3. /\ Append(lines[n], p) \in Seq(Store!Pieces)
        /\ Len(Append(lines[n], p)) = Len(lines[n]) + 1
        /\ \A i \in 1..Len(lines[n]) : Append(lines[n], p)[i] = lines[n][i]
        /\ Append(lines[n], p)[Len(lines[n]) + 1] = p
    BY <1>1, <1>2, <2>1, AppendProperties
  <2>4. /\ text \in Seq(Seq(Store!Pieces)) /\ Len(text) = n
        /\ \A k \in 1..n : text[k] = IF k = n THEN Append(lines[n], p) ELSE lines[k]
    BY <2>1, <2>2, <2>3, ExceptSeq DEF FileTyped
  <2> HIDE DEF text, n, p
  <2> QED
    BY <1>2, <1>3, <1>4, <2>1, <2>3, <2>4 DEF text, n, p
<1>5. CASE ~open
  <2>1. text = Append(lines, <<p>>)
    BY <1>5 DEF Store!Appended, Piece
  <2>2. <<p>> \in Seq(Store!Pieces)
    BY <1>1
  <2>3. /\ text \in Seq(Seq(Store!Pieces)) /\ Len(text) = n + 1
        /\ \A k \in 1..n : text[k] = lines[k]
        /\ text[n + 1] = <<p>>
    BY <2>1, <2>2, AppendProperties DEF FileTyped
  <2> HIDE DEF text, n, p
  <2> QED
    BY <1>2, <1>3, <1>5, <2>3 DEF text, n, p
<1> QED
  BY <1>4, <1>5

(* The records in the file are of appends that happened, each line starts  *)
(* with another record, a line of several pieces starts with one that was  *)
(* cut off, and a record that was reported stored ends a line for good.    *)
FirstOf(k) == lines[k][1].write

Ends(w, k) == /\ lines[k][Len(lines[k])] = Piece(w, TRUE)
              /\ k = Len(lines) => ~open

FileSound ==
  /\ \A k \in 1..Len(lines) : \A i \in 1..Len(lines[k]) : stored[lines[k][i].write] # "none"
  /\ \A j, k \in 1..Len(lines) : FirstOf(j) = FirstOf(k) => j = k
  /\ \A k \in 1..Len(lines) : Len(lines[k]) # 1 => FirstOf(k) \in Store!Cuts
  /\ open => lines # <<>> /\ FirstOf(Len(lines)) \in Store!Cuts
  /\ \A w \in Writes : stored[w] = "stored" => \E k \in 1..Len(lines) : Ends(w, k)

(* Without a cut append every line is a record.                            *)
FileWhole ==
  Store!Cuts = {} =>
    /\ ~open
    /\ \A k \in 1..Len(lines) : Store!Readable(lines[k])
    /\ Store!Load(lines) = memory

StoreInv == /\ Store!TypeOK /\ FileTyped /\ FileSound /\ FileWhole /\ IsFiniteSet(Store!Cuts)

LEMMA StoreInit == Store!Parameters /\ Store!Init => StoreInv
<1> SUFFICES ASSUME Store!Parameters, Store!Init PROVE StoreInv
  OBVIOUS
<1>1. lines = <<>> /\ Len(lines) = 0 /\ Store!Cuts = {}
  BY DEF Store!Init, Store!Cuts
<1>2. lines \in Seq(Seq(Store!Pieces))
  BY <1>1, EmptySeq
<1>3. Store!TypeOK
  <2>1. memory \in [Store!Cases -> Writes \cup {Nothing}] /\ open \in BOOLEAN
    BY DEF Store!Init
  <2>2. stored \in [Writes -> {"none", "stored", "error", "died"}] /\ starts \in 0..MaxStarts
    BY DEF Store!Init, Store!Parameters
  <2> QED
    BY <1>2, <2>1, <2>2 DEF Store!TypeOK
<1>4. FileSound
  BY <1>1 DEF FileSound, Store!Init
<1>5. Store!Load(lines) = memory
  <2>1. Store!Loaded(lines) = {}
    BY <1>1 DEF Store!Loaded
  <2> QED
    BY <2>1 DEF Store!Load, Store!Init
<1> QED
  BY <1>1, <1>2, <1>3, <1>4, <1>5, FS_EmptySet DEF StoreInv, FileTyped, FileWhole, Store!Init

(* The record of a case is read from the last of its lines.                *)
LEMMA LoadType ==
  ASSUME NEW text \in Seq(Seq(Store!Pieces))
  PROVE  /\ Store!Load(text) \in [Store!Cases -> Writes \cup {Nothing}]
         /\ \A c \in Store!Cases :
              LET mine == {k \in Store!Loaded(text) : CaseOf[text[k][1].write] = c}
              IN  mine # {} => Store!Max(mine) \in mine /\ \A k \in mine : Store!Max(mine) >= k
<1>1. Len(text) \in Nat /\ DOMAIN text = 1..Len(text)
  BY LenProperties
<1>2. ASSUME NEW c \in Store!Cases
      PROVE  LET mine == {k \in Store!Loaded(text) : CaseOf[text[k][1].write] = c}
             IN  mine # {} => Store!Max(mine) \in mine /\ \A k \in mine : Store!Max(mine) >= k
  <2> DEFINE mine == {k \in Store!Loaded(text) : CaseOf[text[k][1].write] = c}
  <2>1. mine \in SUBSET Nat /\ \A k \in mine : k <= Len(text)
    BY <1>1 DEF Store!Loaded
  <2> HIDE DEF mine
  <2>2. mine # {} => Store!Max(mine) \in mine /\ \A k \in mine : Store!Max(mine) >= k
    BY <1>1, <2>1, StoreMost
  <2> QED
    BY <2>2 DEF mine
<1>3. \A k \in Store!Loaded(text) : text[k][1].write \in Writes
  <2> SUFFICES ASSUME NEW k \in Store!Loaded(text) PROVE text[k][1].write \in Writes
    OBVIOUS
  <2>1. k \in 1..Len(text) /\ Len(text[k]) = 1
    BY <1>1 DEF Store!Loaded, Store!Readable
  <2>2. text[k] \in Seq(Store!Pieces)
    BY <2>1, ElementOfSeq
  <2>3. text[k][1] \in Store!Pieces
    BY <2>1, <2>2, ElementOfSeq
  <2> QED
    BY <2>3 DEF Store!Pieces
<1>4. ASSUME NEW c \in Store!Cases PROVE Store!Load(text)[c] \in Writes \cup {Nothing}
  <2> DEFINE mine == {k \in Store!Loaded(text) : CaseOf[text[k][1].write] = c}
  <2>1. Store!Load(text)[c] = IF mine = {} THEN Nothing ELSE text[Store!Max(mine)][1].write
    BY DEF Store!Load
  <2>2. mine # {} => Store!Max(mine) \in Store!Loaded(text)
    BY <1>2
  <2> HIDE DEF mine
  <2> QED
    BY <1>3, <2>1, <2>2
<1>5. Store!Load(text) \in [Store!Cases -> Writes \cup {Nothing}]
  BY <1>4 DEF Store!Load
<1> QED
  BY <1>2, <1>5

(* A record on a line of its own is the last of its case, and changes no   *)
(* other case.                                                             *)
LEMMA LoadAppended ==
  ASSUME FileTyped, ~open, NEW w \in Writes
  PROVE  Store!Load(Store!Appended(w, TRUE)) = [Store!Load(lines) EXCEPT ![CaseOf[w]] = w]
<1> DEFINE text == Store!Appended(w, TRUE)
           n    == Len(lines)
<1>1. /\ text \in Seq(Seq(Store!Pieces)) /\ n \in Nat /\ Len(text) = n + 1
      /\ \A k \in 1..n : text[k] = lines[k]
      /\ text[n + 1] = <<Piece(w, TRUE)>>
  BY AppendedFacts
<1> HIDE DEF text
<1>2. DOMAIN text = 1..(n + 1) /\ DOMAIN lines = 1..n
  BY <1>1, LenProperties DEF FileTyped
<1>3. Store!Loaded(text) = Store!Loaded(lines) \cup {n + 1} /\ Store!Loaded(lines) \subseteq 1..n
  <2>1. Store!Readable(text[n + 1])
    BY <1>1 DEF Store!Readable, Piece
  <2>2. \A k \in 1..n : Store!Readable(text[k]) <=> Store!Readable(lines[k])
    BY <1>1
  <2>3. 1..(n + 1) = 1..n \cup {n + 1}
    BY <1>1
  <2> QED
    BY <1>2, <2>1, <2>2, <2>3 DEF Store!Loaded
<1>4. ASSUME NEW c \in Store!Cases
      PROVE  Store!Load(text)[c] = IF c = CaseOf[w] THEN w ELSE Store!Load(lines)[c]
  <2> DEFINE mine == {k \in Store!Loaded(text) : CaseOf[text[k][1].write] = c}
             old  == {k \in Store!Loaded(lines) : CaseOf[lines[k][1].write] = c}
  <2>1. Store!Load(text)[c] = IF mine = {} THEN Nothing ELSE text[Store!Max(mine)][1].write
    BY DEF Store!Load
  <2>2. Store!Load(lines)[c] = IF old = {} THEN Nothing ELSE lines[Store!Max(old)][1].write
    BY DEF Store!Load
  <2>3. mine # {} => Store!Max(mine) \in mine /\ \A k \in mine : Store!Max(mine) >= k
    BY <1>1, LoadType
  <2>4. text[n + 1][1].write = w
    BY <1>1 DEF Piece
  <2>5. CASE c = CaseOf[w]
    <3>1. n + 1 \in mine /\ \A k \in mine : k \in 1..(n + 1)
      <4>1. n + 1 \in mine
        BY <1>3, <2>4, <2>5
      <4>2. Store!Loaded(text) \subseteq 1..(n + 1)
        BY <1>1, <1>3
      <4> QED
        BY <4>1, <4>2
    <3> HIDE DEF mine
    <3>2. Store!Max(mine) = n + 1
      BY <1>1, <2>3, <3>1
    <3> QED
      BY <2>1, <2>4, <2>5, <3>1, <3>2
  <2>6. CASE c # CaseOf[w]
    <3>1. mine = old
      BY <1>1, <1>3, <2>4, <2>6
    <3>2. old # {} => Store!Max(old) \in 1..n
      BY <1>3, <2>3, <3>1
    <3> HIDE DEF mine, old
    <3> QED
      BY <1>1, <2>1, <2>2, <2>6, <3>1, <3>2
  <2> QED
    BY <2>5, <2>6
<1>5. Store!Load(text) = [Store!Load(lines) EXCEPT ![CaseOf[w]] = w]
  <2>1. Store!Load(text) = [c \in Store!Cases |-> Store!Load(text)[c]]
        /\ Store!Load(lines) = [c \in Store!Cases |-> Store!Load(lines)[c]]
    BY DEF Store!Load
  <2> QED
    BY <1>4, <2>1
<1> QED
  BY <1>5 DEF text

(* What an append does to the lines: w is new in the file.                 *)
LEMMA FileSoundStep ==
  ASSUME StoreInv, NEW w \in Writes, NEW whole \in BOOLEAN, stored[w] = "none",
         lines' = Store!Appended(w, whole), NEW how \in {"stored", "error", "died"},
         stored' = [stored EXCEPT ![w] = how],
         how = "stored" => whole = TRUE /\ open' = FALSE,
         how # "stored" => open' = TRUE
  PROVE  FileTyped' /\ FileSound'
<1> USE DEF StoreInv
<1>0. PICK n \in Nat : n = Len(lines)
  BY LenProperties DEF FileTyped
<1> USE <1>0
<1>t. stored \in [Writes -> {"none", "stored", "error", "died"}]
  BY DEF Store!TypeOK
<1>s. \A v \in Writes : stored'[v] = IF v = w THEN how ELSE stored[v]
  BY <1>t
<1>o. open => lines # <<>>
  BY DEF FileSound
<1>1. /\ lines' \in Seq(Seq(Store!Pieces)) /\ n \in Nat
      /\ \A k \in 1..n : lines[k] \in Seq(Store!Pieces) /\ Len(lines[k]) \in Nat \ {0}
      /\ \A k \in 1..n : ~open \/ k # n => lines'[k] = lines[k]
      /\ open => /\ n \in 1..n /\ Len(lines') = n
                 /\ Len(lines'[n]) = Len(lines[n]) + 1
                 /\ lines'[n][Len(lines[n]) + 1] = Piece(w, whole)
                 /\ \A i \in 1..Len(lines[n]) : lines'[n][i] = lines[n][i]
      /\ ~open => Len(lines') = n + 1 /\ lines'[n + 1] = <<Piece(w, whole)>>
  BY <1>o, AppendedFacts
<1>w. \A k \in 1..n : \A i \in 1..Len(lines[k]) : lines[k][i].write \in Writes \ {w}
  <2> SUFFICES ASSUME NEW k \in 1..n, NEW i \in 1..Len(lines[k])
               PROVE  lines[k][i].write \in Writes \ {w}
    OBVIOUS
  <2>1. lines[k][i] \in Store!Pieces
    BY <1>1, ElementOfSeq
  <2>2. stored[lines[k][i].write] # "none"
    BY DEF FileSound
  <2> QED
    BY <2>1, <2>2 DEF Store!Pieces
<1>h. \A k \in 1..n : FirstOf(k) \in Writes \ {w} /\ FirstOf(k)' = FirstOf(k)
  <2> SUFFICES ASSUME NEW k \in 1..n PROVE FirstOf(k) \in Writes \ {w} /\ FirstOf(k)' = FirstOf(k)
    OBVIOUS
  <2>1. 1 \in 1..Len(lines[k]) /\ Len(lines[k]) \in Nat
    BY <1>1
  <2>2. FirstOf(k) \in Writes \ {w}
    BY <1>w, <2>1 DEF FirstOf
  <2>3. lines'[k][1] = lines[k][1]
    BY <1>1, <2>1
  <2> QED
    BY <2>2, <2>3 DEF FirstOf
<1>n. /\ \A k \in 1..Len(lines') : k \in 1..n \/ (~open /\ k = n + 1)
      /\ Len(lines') \in Nat \ {0} /\ n <= Len(lines')
      /\ ~open => FirstOf(n + 1)' = w
  BY <1>1 DEF FirstOf, Piece
<1>l. ~open => Len(lines'[n + 1]) = 1
  <2>1. Len(<<Piece(w, whole)>>) = 1
    OBVIOUS
  <2> QED
    BY <1>1, <2>1
<1>c. /\ Store!Cuts \subseteq Store!Cuts'
      /\ how # "stored" => w \in Store!Cuts'
  BY <1>s, <1>t DEF Store!Cuts
<1>2. FileTyped'
  <2> SUFFICES ASSUME NEW k \in 1..Len(lines') PROVE lines'[k] # <<>>
    BY <1>1 DEF FileTyped
  <2>1. Len(lines'[k]) # 0
    <3>1. CASE k \in 1..n /\ (~open \/ k # n)
      BY <1>1, <3>1
    <3>2. CASE open /\ k = n
      BY <1>1, <3>2
    <3>3. CASE ~open /\ k = n + 1
      BY <1>l, <3>3
    <3> QED
      BY <1>n, <3>1, <3>2, <3>3
  <2>2. Len(<<>>) = 0
    OBVIOUS
  <2> QED
    BY <2>1, <2>2
<1>3. ASSUME NEW k \in 1..Len(lines'), NEW i \in 1..Len(lines'[k])
      PROVE  stored'[lines'[k][i].write] # "none"
  <2>1. \/ k \in 1..n /\ i \in 1..Len(lines[k]) /\ lines'[k][i] = lines[k][i]
        \/ lines'[k][i] = Piece(w, whole)
    <3>1. CASE k \in 1..n /\ (~open \/ k # n)
      BY <1>1, <1>3, <3>1
    <3>2. CASE open /\ k = n
      <4>1. Len(lines'[n]) = Len(lines[n]) + 1 /\ Len(lines[n]) \in Nat
        BY <1>1, <3>2
      <4>2. i \in 1..Len(lines[n]) \/ i = Len(lines[n]) + 1
        BY <1>3, <3>2, <4>1
      <4> QED
        BY <1>1, <3>2, <4>2
    <3>3. CASE ~open /\ k = n + 1
      <4>1. lines'[k] = <<Piece(w, whole)>>
        BY <1>1, <3>3
      <4>2. i = 1
        BY <1>3, <4>1
      <4> QED
        BY <4>1, <4>2
    <3> QED
      BY <1>n, <3>1, <3>2, <3>3
  <2>2. CASE k \in 1..n /\ i \in 1..Len(lines[k]) /\ lines'[k][i] = lines[k][i]
    <3>1. lines[k][i].write \in Writes \ {w} /\ stored[lines[k][i].write] # "none"
      BY <1>w, <2>2 DEF FileSound
    <3> QED
      BY <1>s, <2>2, <3>1
  <2>3. CASE lines'[k][i] = Piece(w, whole)
    BY <1>s, <2>3 DEF Piece
  <2> QED
    BY <2>1, <2>2, <2>3
<1>4. ASSUME NEW j \in 1..Len(lines'), NEW k \in 1..Len(lines'), FirstOf(j)' = FirstOf(k)'
      PROVE  j = k
  <2>1. j \in 1..n /\ k \in 1..n => j = k
    BY <1>4, <1>h DEF FileSound
  <2>2. j \in 1..n /\ k \notin 1..n => FALSE
    BY <1>4, <1>h, <1>n
  <2>3. k \in 1..n /\ j \notin 1..n => FALSE
    BY <1>4, <1>h, <1>n
  <2> QED
    BY <1>n, <2>1, <2>2, <2>3
<1>5. ASSUME NEW k \in 1..Len(lines'), Len(lines'[k]) # 1 PROVE FirstOf(k)' \in Store!Cuts'
  <2>1. k \in 1..n
    BY <1>5, <1>l, <1>n
  <2>2. CASE open /\ k = n
    BY <1>c, <1>h, <2>1, <2>2 DEF FileSound
  <2>3. CASE ~open \/ k # n
    <3>1. Len(lines[k]) # 1
      BY <1>1, <1>5, <2>1, <2>3
    <3> QED
      BY <1>c, <1>h, <2>1, <3>1 DEF FileSound
  <2> QED
    BY <2>2, <2>3
<1>6. ASSUME open' PROVE lines' # <<>> /\ lines'[Len(lines')][1].write \in Store!Cuts'
  <2>1. how # "stored"
    BY <1>6
  <2>2. lines' # <<>>
    BY <1>n
  <2>3. CASE open
    <3>1. n \in 1..n /\ Len(lines') = n /\ FirstOf(n) \in Store!Cuts
      BY <1>1, <2>3 DEF FileSound
    <3> QED
      BY <1>c, <1>h, <2>2, <3>1 DEF FirstOf
  <2>4. CASE ~open
    <3>1. Len(lines') = n + 1 /\ FirstOf(n + 1)' = w
      BY <1>1, <1>n, <2>4
    <3> QED
      BY <1>c, <2>1, <2>2, <3>1 DEF FirstOf
  <2> QED
    BY <2>3, <2>4
<1>7. ASSUME NEW v \in Writes, stored'[v] = "stored" PROVE \E k \in 1..Len(lines') : Ends(v, k)'
  <2>1. CASE v = w
    <3>1. whole = TRUE /\ ~open'
      BY <1>7, <1>s, <2>1
    <3>2. lines'[Len(lines')][Len(lines'[Len(lines')])] = Piece(w, TRUE)
      <4>1. CASE open
        BY <1>1, <3>1, <4>1
      <4>2. CASE ~open
        <5>1. lines'[Len(lines')] = <<Piece(w, TRUE)>>
          BY <1>1, <3>1, <4>2
        <5> QED
          BY <5>1
      <4> QED
        BY <4>1, <4>2
    <3>3. Len(lines') \in 1..Len(lines')
      BY <1>n
    <3> QED
      BY <2>1, <3>1, <3>2, <3>3 DEF Ends
  <2>2. CASE v # w
    <3>1. stored[v] = "stored"
      BY <1>7, <1>s, <2>2
    <3>2. PICK k \in 1..n : Ends(v, k)
      BY <3>1 DEF FileSound
    <3>3. ~open \/ k # n
      BY <3>2 DEF Ends
    <3>4. lines'[k] = lines[k] /\ k \in 1..Len(lines') /\ k # Len(lines')
      BY <1>1, <1>n, <3>3
    <3> QED
      BY <3>2, <3>4 DEF Ends
  <2> QED
    BY <2>1, <2>2
<1>8. FileSound'
  <2> HIDE DEF StoreInv
  <2> QED
    BY <1>3, <1>4, <1>5, <1>6, <1>7 DEF FileSound, FirstOf
<1> QED
  BY <1>2, <1>8

LEMMA CutsStep ==
  ASSUME IsFiniteSet(Store!Cuts), NEW w \in Writes, NEW how,
         stored \in [Writes -> {"none", "stored", "error", "died"}],
         stored' = [stored EXCEPT ![w] = how]
  PROVE  IsFiniteSet(Store!Cuts')
<1>1. Store!Cuts' \subseteq Store!Cuts \cup {w}
  BY DEF Store!Cuts
<1>2. IsFiniteSet(Store!Cuts \cup {w})
  BY FS_AddElement
<1> QED
  BY <1>1, <1>2, FS_Subset

LEMMA StoreStep ==
  ASSUME Store!Parameters, StoreInv, [Store!Next]_Store!vars PROVE StoreInv'
<1> USE DEF StoreInv
<1>t. /\ stored \in [Writes -> {"none", "stored", "error", "died"}]
      /\ memory \in [Store!Cases -> Writes \cup {Nothing}]
      /\ starts \in 0..MaxStarts /\ open \in BOOLEAN
  BY DEF Store!TypeOK
<1>p. MaxStarts \in Nat
  BY DEF Store!Parameters
<1>1. ASSUME NEW w \in Writes, Store!RecordCase(w) PROVE StoreInv'
  <2>1. /\ stored[w] = "none" /\ lines' = Store!Appended(w, TRUE) /\ open' = FALSE
        /\ stored' = [stored EXCEPT ![w] = "stored"] /\ starts' = starts
        /\ memory' = [memory EXCEPT ![CaseOf[w]] = w]
    BY <1>1 DEF Store!RecordCase, Store!Remembered
  <2>2. FileTyped' /\ FileSound'
    BY <2>1, FileSoundStep
  <2>3. IsFiniteSet(Store!Cuts')
    BY <1>t, <2>1, CutsStep
  <2>4. Store!TypeOK'
    <3>1. stored' \in [Writes -> {"none", "stored", "error", "died"}]
      BY <1>t, <2>1
    <3>2. memory' \in [Store!Cases -> Writes \cup {Nothing}]
      BY <1>t, <2>1
    <3> QED
      BY <1>t, <2>1, <2>2, <3>1, <3>2 DEF Store!TypeOK, FileTyped
  <2>5. ASSUME Store!Cuts' = {}
        PROVE  /\ \A k \in 1..Len(lines') : Store!Readable(lines'[k])
               /\ Store!Load(lines') = memory'
    <3>1. Store!Cuts = {}
      <4>1. Store!Cuts \subseteq Store!Cuts'
        BY <1>t, <2>1 DEF Store!Cuts
      <4> QED
        BY <2>5, <4>1
    <3>2. ~open /\ Store!Load(lines) = memory
          /\ \A k \in 1..Len(lines) : Store!Readable(lines[k])
      BY <3>1 DEF FileWhole
    <3>3. Store!Load(lines') = memory'
      BY <2>1, <3>2, LoadAppended
    <3>4. /\ Len(lines) \in Nat /\ Len(lines') = Len(lines) + 1
          /\ \A k \in 1..Len(lines) : lines'[k] = lines[k]
          /\ lines'[Len(lines) + 1] = <<Piece(w, TRUE)>>
      BY <2>1, <3>2, AppendedFacts
    <3>5. Store!Readable(lines'[Len(lines) + 1])
      BY <3>4 DEF Store!Readable, Piece
    <3>6. \A k \in 1..(Len(lines) + 1) : k \in 1..Len(lines) \/ k = Len(lines) + 1
      BY <3>4
    <3>7. ASSUME NEW k \in 1..Len(lines') PROVE Store!Readable(lines'[k])
      <4>1. CASE k \in 1..Len(lines)
        <5>1. lines'[k] = lines[k] /\ Store!Readable(lines[k])
          BY <3>2, <3>4, <4>1
        <5> QED
          BY <5>1 DEF Store!Readable
      <4>2. CASE k = Len(lines) + 1
        BY <3>5, <4>2 DEF Store!Readable
      <4> QED
        BY <3>4, <3>6, <3>7, <4>1, <4>2
    <3> QED
      BY <3>3, <3>7
  <2> QED
    BY <2>1, <2>2, <2>3, <2>4, <2>5 DEF FileWhole
<1>2. ASSUME NEW w \in Writes, NEW how \in {"error", "died"}, Store!CutOff(w, how),
             memory' \in [Store!Cases -> Writes \cup {Nothing}]
      PROVE  StoreInv'
  <2>1. stored[w] = "none" /\ stored' = [stored EXCEPT ![w] = how] /\ starts' = starts
    BY <1>2 DEF Store!CutOff
  <2>2. w \in Store!Cuts' /\ Store!Cuts \subseteq Store!Cuts'
    BY <1>t, <2>1 DEF Store!Cuts
  <2>3. FileTyped' /\ FileSound' /\ open' \in BOOLEAN
    <3>1. CASE UNCHANGED <<lines, open>>
      <4>1. \A v \in Writes : /\ stored'[v] = "stored" => stored[v] = "stored"
                              /\ stored[v] # "none" => stored'[v] # "none"
        BY <1>t, <2>1
      <4>2. \A k \in 1..Len(lines) : \A i \in 1..Len(lines[k]) : lines[k][i].write \in Writes
        <5> SUFFICES ASSUME NEW k \in 1..Len(lines), NEW i \in 1..Len(lines[k])
                     PROVE  lines[k][i].write \in Writes
          OBVIOUS
        <5>1. lines[k] \in Seq(Store!Pieces)
          BY ElementOfSeq DEF FileTyped
        <5>2. lines[k][i] \in Store!Pieces
          BY <5>1, ElementOfSeq
        <5> QED
          BY <5>2 DEF Store!Pieces
      <4>3. FileTyped'
        BY <3>1 DEF FileTyped
      <4> QED
        BY <1>t, <2>2, <3>1, <4>1, <4>2, <4>3 DEF FileSound, FirstOf, Ends
    <3>2. ASSUME NEW whole \in BOOLEAN, lines' = Store!Appended(w, whole), open' = TRUE
          PROVE  FileTyped' /\ FileSound'
      BY <1>2, <2>1, <3>2, FileSoundStep
    <3> QED
      BY <1>2, <1>t, <3>1, <3>2 DEF Store!CutOff
  <2>4. IsFiniteSet(Store!Cuts')
    BY <1>t, <2>1, CutsStep
  <2>5. Store!TypeOK'
    <3>1. stored' \in [Writes -> {"none", "stored", "error", "died"}]
      BY <1>t, <2>1
    <3> QED
      BY <1>2, <1>t, <2>1, <2>3, <3>1 DEF Store!TypeOK, FileTyped
  <2> QED
    BY <2>2, <2>3, <2>4, <2>5 DEF FileWhole
<1>3. ASSUME NEW w \in Writes, Store!AppendRaises(w) PROVE StoreInv'
  <2>1. memory' \in [Store!Cases -> Writes \cup {Nothing}]
    BY <1>3, <1>t DEF Store!AppendRaises, Store!Remembered
  <2> QED
    BY <1>2, <1>3, <2>1 DEF Store!AppendRaises
<1>4. ASSUME NEW w \in Writes, Store!AppendDies(w) PROVE StoreInv'
  <2>1. lines' \in Seq(Seq(Store!Pieces))
    <3>1. CASE lines' = lines
      BY <3>1 DEF FileTyped
    <3>2. ASSUME NEW whole \in BOOLEAN, lines' = Store!Appended(w, whole)
          PROVE  lines' \in Seq(Seq(Store!Pieces))
      <4>1. open => lines # <<>>
        BY DEF FileSound
      <4> QED
        BY <3>2, <4>1, AppendedFacts
    <3> QED
      BY <1>4, <3>1, <3>2 DEF Store!AppendDies, Store!CutOff
  <2>2. memory' \in [Store!Cases -> Writes \cup {Nothing}]
    BY <1>4, <2>1, LoadType DEF Store!AppendDies
  <2> QED
    BY <1>2, <1>4, <2>2 DEF Store!AppendDies
<1>5. CASE Store!Restart
  <2>1. UNCHANGED <<lines, open, stored>> /\ memory' = Store!Load(lines)
        /\ starts' \in 0..MaxStarts
    BY <1>5, <1>t, <1>p DEF Store!Restart
  <2>2. memory' \in [Store!Cases -> Writes \cup {Nothing}]
    BY <2>1, LoadType DEF FileTyped
  <2>3. Store!Cuts' = Store!Cuts /\ FileTyped' /\ FileSound'
    BY <2>1 DEF Store!Cuts, FileTyped, FileSound, FirstOf, Ends
  <2>4. Store!TypeOK'
    BY <2>1, <2>2 DEF Store!TypeOK
  <2> QED
    BY <2>1, <2>3, <2>4 DEF FileWhole
<1>6. CASE UNCHANGED Store!vars
  <2>1. UNCHANGED <<memory, lines, open, stored, starts>>
    BY <1>6 DEF Store!vars
  <2>2. Store!Cuts' = Store!Cuts /\ FileTyped' /\ FileSound'
    BY <2>1 DEF Store!Cuts, FileTyped, FileSound, FirstOf, Ends
  <2> QED
    BY <2>1, <2>2 DEF FileWhole, Store!TypeOK
<1> QED
  BY <1>1, <1>3, <1>4, <1>5, <1>6 DEF Store!Next

(* A lost record lies behind the piece of a cut append, and no two lie     *)
(* behind the same.                                                        *)
Lost == {w \in Writes : stored[w] = "stored" /\ w \notin Store!Kept}

LEMMA LostBehindCuts == ASSUME StoreInv PROVE Cardinality(Lost) <= Cardinality(Store!Cuts)
<1> USE DEF StoreInv
<1> DEFINE LineOf(w) == CHOOSE k \in 1..Len(lines) : Ends(w, k)
           f == [w \in Lost |-> FirstOf(LineOf(w))]
<1>1. ASSUME NEW w \in Lost
      PROVE  LineOf(w) \in 1..Len(lines) /\ Ends(w, LineOf(w)) /\ FirstOf(LineOf(w)) \in Store!Cuts
  <2>1. \E k \in 1..Len(lines) : Ends(w, k)
    BY DEF Lost, FileSound
  <2>2. LineOf(w) \in 1..Len(lines) /\ Ends(w, LineOf(w))
    BY <2>1
  <2>3. PICK k : k = LineOf(w)
    OBVIOUS
  <2>4. Len(lines[k]) # 1
    <3> SUFFICES ASSUME Len(lines[k]) = 1 PROVE FALSE
      OBVIOUS
    <3>1. Store!Readable(lines[k]) /\ lines[k][1].write = w
      BY <2>2, <2>3 DEF Ends, Store!Readable, Piece
    <3>2. k \in DOMAIN lines
      BY <2>2, <2>3, LenProperties DEF FileTyped
    <3>3. w \in Store!Kept
      BY <3>1, <3>2 DEF Store!Kept, Store!Loaded
    <3> QED
      BY <3>3 DEF Lost
  <2>5. FirstOf(k) \in Store!Cuts
    BY <2>2, <2>3, <2>4 DEF FileSound
  <2> QED
    BY <2>2, <2>3, <2>5
<1> HIDE DEF LineOf
<1>2. f \in [Lost -> Store!Cuts]
  BY <1>1
<1>3. ASSUME NEW v \in Lost, NEW w \in Lost, f[v] = f[w] PROVE v = w
  <2>1. LineOf(v) = LineOf(w)
    BY <1>1, <1>3 DEF FileSound
  <2>2. Piece(v, TRUE) = Piece(w, TRUE)
    BY <1>1, <2>1 DEF Ends
  <2> QED
    BY <2>2 DEF Piece
<1>4. f \in Injection(Lost, Store!Cuts)
  BY <1>2, <1>3 DEF Injection, IsInjective
<1> QED
  BY <1>4, FS_Injection

(* Without a cut append a restart loses nothing and brings nothing back,   *)
(* and each cut append costs at most one record that was reported stored   *)
(* (record_case, persist_case, load_cases).                                *)
THEOREM StoresAreSound ==
  ServicesSpec => [](StoreIsSound /\ (Runs("store") => Store!TypeOK))
<1> DEFINE Inv == Runs("store") => StoreInv
<1>1. ServicesInit => Inv
  BY StoreInit, ServicesAssumption DEF ServicesInit
<1>2. ASSUME Inv, [ServicesNext]_allVars PROVE Inv'
  BY <1>2, OneRuns, StoreStep, ServicesAssumption DEF Runs
<1>3. ASSUME StoreInv PROVE Store!StoreIsSound
  <2>1. Store!FileIsMemory
    BY <1>3 DEF StoreInv, FileWhole, Store!FileIsMemory
  <2>2. Store!DamageIsBounded
    BY <1>3, LostBehindCuts, StoreCounts DEF Store!DamageIsBounded, Lost
  <2> QED
    BY <2>1, <2>2 DEF Store!StoreIsSound
<1>4. Inv => StoreIsSound /\ (Runs("store") => Store!TypeOK)
  BY <1>3 DEF StoreIsSound, StoreInv
<1> QED
  BY <1>1, <1>2, <1>4, PTL DEF ServicesSpec

-----------------------------------------------------------------------------
(* The state of whichever service runs keeps its type.                     *)
THEOREM ServicesTyping == ServicesSpec => []ServicesTypeOK
<1> DEFINE Inv == Runs("alerts") => IInv
<1>1. ServicesInit => Inv
  BY InitInv DEF ServicesInit
<1>2. ASSUME Inv, [ServicesNext]_allVars PROVE Inv'
  BY <1>2, OneRuns, Step DEF Runs
<1>3. Inv => (Runs("alerts") => TypeOK)
  BY DEF IInv
<1>4. TokensInv => Tokens!TypeOK
  BY DEF TokensInv
<1>5. DoorInv => Door!TypeOK
  BY DEF DoorInv
<1>6. ASSUME Runs("alerts") => TypeOK, Runs("score") => Score!TypeOK,
             Runs("bans") => Bans!TypeOK, Runs("login") => Login!TypeOK, Tokens!TypeOK,
             Runs("register") => Register!TypeOK, Door!TypeOK, Runs("store") => Store!TypeOK
      PROVE  ServicesTypeOK
  BY <1>6 DEF ServicesTypeOK
<1> HIDE DEF Inv
<1> QED
  BY <1>1, <1>2, <1>3, <1>4, <1>5, <1>6, TokensKeep, DoorKeeps, ListAndKeysAgree,
     LoginsAreSound, RegistrationsAreSound, ScoresAreFresh, StoresAreSound, PTL
     DEF ServicesSpec
=============================================================================
