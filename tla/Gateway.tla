------------------------------ MODULE Gateway ------------------------------
(***************************************************************************)
(* The door of api-gateway, before any payment: the rate limit that all    *)
(* pods share in Redis, and the keys each pod verifies tokens with, loaded *)
(* from Keycloak at startup and by _jwks_refresh_loop.                     *)
(*                                                                         *)
(* One source address, since the limit is per address; it is not banned    *)
(* (a banned one is refused before it is counted, and Blocklist is about   *)
(* the bans).  Every user has the roles; development tokens are off.  The  *)
(* loader blocks the pod's event loop, so a pod serves no call between its *)
(* two requests to Keycloak.  A tick is a fraction of the minute.          *)
(*                                                                         *)
(* A call reads the clock, then awaits Redis: its entry is Lag ticks old   *)
(* at most when it is written.  No time-out in the code bounds that wait,  *)
(* so Lag stands for what the network does, and for how far the clock of   *)
(* a pod may be behind another's: what the limit is worth depends on it.   *)
(***************************************************************************)
EXTENDS Integers, FiniteSets

CONSTANTS
  Pods,           \* replicas of api-gateway
  Calls,          \* requests of one address, each with a fresh token
  PodOf,          \* PodOf[c]: the pod call c is routed to
  Limit,          \* RATE_LIMIT_PER_MINUTE
  Minute,         \* the window, in ticks
  Lag,            \* the longest from reading the clock to the transaction
  FallbackRight,  \* is the built-in issuer the one Keycloak publishes?
  MaxFaults,      \* bound: outages of Keycloak, restarts of pods
  MaxRotations    \* bound: key rotations at Keycloak

Parameters ==
  /\ PodOf \in [Calls -> Pods]
  /\ Limit \in Nat /\ Minute \in Nat \ {0} /\ Lag \in Nat
  /\ FallbackRight \in BOOLEAN
  /\ MaxFaults \in Nat /\ MaxRotations \in Nat

VARIABLES
  keys,      \* keys[p]: generation of _jwks_keys, NoKeys while empty
  issuer,    \* issuer[p]: where _jwt_issuer comes from
  loading,   \* loading[p]: what _load_oidc_config has so far
  realm,     \* generation of the realm's keys
  keycloak,  \* Keycloak answers
  window,    \* calls with an entry in the sorted set
  since,     \* since[c]: ticks since c read the clock, its score; -1 before
  outcome,   \* outcome[c]: status of the answer, 0 before
  faults     \* faults so far

vars == <<keys, issuer, loading, realm, keycloak, window, since, outcome, faults>>

NoKeys == -1

Oldest == Minute + Lag + 1  \* ages above it are alike

TypeOK ==
  /\ keys \in [Pods -> NoKeys..realm]
  /\ issuer \in [Pods -> {"fallback", "published"}]
  /\ loading \in [Pods -> {"no", "fallback", "published"}]
  /\ realm \in 0..MaxRotations
  /\ keycloak \in BOOLEAN
  /\ window \subseteq Calls
  /\ since \in [Calls -> -1..Oldest]
  /\ outcome \in [Calls -> {0, 200, 401, 429, 500, 503}]
  /\ faults \in 0..MaxFaults

Init ==
  /\ keys = [p \in Pods |-> NoKeys]
  /\ issuer = [p \in Pods |-> "fallback"]
  /\ loading = [p \in Pods |-> "no"]
  /\ realm = 0
  /\ keycloak = TRUE
  /\ window = {}
  /\ since = [c \in Calls |-> -1]
  /\ outcome = [c \in Calls |-> 0]
  /\ faults = 0

-----------------------------------------------------------------------------
(* _load_oidc_config: the discovery document, or else the fallback; then   *)
(* the keys.  startup calls it once, and the loop for as long as there are *)
(* no keys.                                                                *)
\* Mutation: the condition of the loop is the wrong way round.
Discover_m(p) ==
  /\ keys[p] # NoKeys /\ loading[p] = "no"
  /\ loading' = [loading EXCEPT ![p] = IF keycloak THEN "published" ELSE "fallback"]
  /\ UNCHANGED <<keys, issuer, realm, keycloak, window, since, outcome, faults>>

Discover(p) ==
  /\ keys[p] = NoKeys /\ loading[p] = "no"
  /\ loading' = [loading EXCEPT ![p] = IF keycloak THEN "published" ELSE "fallback"]
  /\ UNCHANGED <<keys, issuer, realm, keycloak, window, since, outcome, faults>>

FetchKeys(p) ==
  /\ loading[p] # "no"
  /\ loading' = [loading EXCEPT ![p] = "no"]
  /\ IF keycloak
     THEN /\ keys' = [keys EXCEPT ![p] = realm]
          /\ issuer' = [issuer EXCEPT ![p] = loading[p]]
     ELSE UNCHANGED <<keys, issuer>>
  /\ UNCHANGED <<realm, keycloak, window, since, outcome, faults>>

(* _verify_token, of a token Keycloak has just issued.                     *)
CanVerify(p) == keys[p] = realm /\ (issuer[p] = "published" \/ FallbackRight)

VerifyToken(p) ==
  IF keys[p] = NoKeys THEN 503 ELSE IF CanVerify(p) THEN 200 ELSE 401

(* _check_rate_limit reads the clock and awaits Redis.                     *)
Call(c) ==
  /\ since[c] = -1
  /\ loading[PodOf[c]] = "no"
  /\ since' = [since EXCEPT ![c] = 0]
  /\ UNCHANGED <<keys, issuer, loading, realm, keycloak, window, outcome, faults>>

Waiting(c) == since[c] # -1 /\ outcome[c] = 0

(* The transaction: it drops the entries at least a minute older than its  *)
(* own, adds its own, and counts.  What is refused stays counted.          *)
\* Mutation: no entry ever leaves.
KeptForever_m(c) == window \cup {c}

Kept(c) == {d \in window : since[d] - since[c] < Minute} \cup {c}

\* Mutation: the entries are counted before the call's own is added.
Count_m(c) == Cardinality(Kept(c) \ {c})

Count(c) == Cardinality(Kept(c))

Answered(c, status) == outcome' = [outcome EXCEPT ![c] = status]

Check(c) ==
  /\ Waiting(c)
  /\ loading[PodOf[c]] = "no"
  /\ window' = Kept(c)
  /\ Answered(c, IF Count(c) > Limit THEN 429 ELSE VerifyToken(PodOf[c]))
  /\ UNCHANGED <<keys, issuer, loading, realm, keycloak, since, faults>>

(* Redis does not answer, or the pod dies, perhaps only after the          *)
(* transaction.                                                            *)
CheckFails(c) ==
  /\ Waiting(c)
  /\ window' \in {window, Kept(c)}
  /\ Answered(c, 500)
  /\ UNCHANGED <<keys, issuer, loading, realm, keycloak, since, faults>>

(* The key expires 65 s after the last transaction, later than any entry   *)
(* ends its minute.                                                        *)
KeyExpires ==
  /\ window # {} /\ \A c \in window : since[c] > Minute
  /\ window' = {}
  /\ UNCHANGED <<keys, issuer, loading, realm, keycloak, since, outcome, faults>>

Aged(t) == IF t = -1 \/ t = Oldest THEN t ELSE t + 1

Tick ==
  /\ \A c \in Calls : Waiting(c) => since[c] < Lag
  /\ since' = [c \in Calls |-> Aged(since[c])]
  /\ UNCHANGED <<keys, issuer, loading, realm, keycloak, window, outcome, faults>>

-----------------------------------------------------------------------------
Fault == faults < MaxFaults /\ faults' = faults + 1

KeycloakFails ==
  /\ Fault
  /\ keycloak /\ keycloak' = FALSE
  /\ UNCHANGED <<keys, issuer, loading, realm, window, since, outcome>>

KeycloakReturns ==
  /\ ~keycloak /\ keycloak' = TRUE
  /\ UNCHANGED <<keys, issuer, loading, realm, window, since, outcome, faults>>

KeysRotate ==
  /\ realm < MaxRotations
  /\ realm' = realm + 1
  /\ UNCHANGED <<keys, issuer, loading, keycloak, window, since, outcome, faults>>

(* The calls a pod dies with have failed before it starts again.           *)
PodRestarts(p) ==
  /\ Fault
  /\ \A c \in Calls : PodOf[c] = p => ~Waiting(c)
  /\ keys' = [keys EXCEPT ![p] = NoKeys]
  /\ issuer' = [issuer EXCEPT ![p] = "fallback"]
  /\ loading' = [loading EXCEPT ![p] = "no"]
  /\ UNCHANGED <<realm, keycloak, window, since, outcome>>

Next ==
  \/ \E p \in Pods :
       Discover(p) \/ FetchKeys(p) \/ PodRestarts(p)
  \/ \E c \in Calls : Call(c) \/ Check(c) \/ CheckFails(c)
  \/ KeyExpires
  \/ Tick
  \/ KeycloakFails \/ KeycloakReturns \/ KeysRotate

Spec == Init /\ [][Next]_vars

(* The loop keeps running, and Keycloak comes back.                        *)
Fairness ==
  /\ \A p \in Pods : WF_vars(Discover(p)) /\ WF_vars(FetchKeys(p))
  /\ WF_vars(KeycloakReturns)

FairSpec == Spec /\ Fairness

-----------------------------------------------------------------------------
(* Whichever pods they go to, at most Limit calls of one address pass in   *)
(* any minute less the lag, by the times they read: with no lag, in any    *)
(* minute that is open at one end.  The windows are those that end now or  *)
(* up to Lag ago, for later ones still have calls to come                  *)
(* (_check_rate_limit).                                                    *)
Passed(c) == outcome[c] \in {200, 401, 503}

MinuteLimit ==
  \A k \in 0..Lag :
    Cardinality({c \in Calls : Passed(c) /\ since[c] \in k..(k + Minute - Lag - 1)})
      <= Limit

(* A call is turned away with 429 only when more than Limit calls, itself  *)
(* included, came within a minute and the lag: the limit forgets.  Refused *)
(* calls count, so this is all a client can rely on (_check_rate_limit).   *)
LimitIsEarned ==
  [][\A c \in Calls :
       outcome[c] # 429 /\ outcome'[c] = 429 =>
         Cardinality({d \in Calls : since[d] \in 0..(Minute + Lag - 1)}) > Limit]_vars

(* The limit cuts in neither too late nor too early (_check_rate_limit).   *)
RateLimitIsFair == []MinuteLimit /\ LimitIsEarned

(* A pod that starts while Keycloak is away does not stay without keys,    *)
(* and as long as Keycloak publishes the built-in issuer and keeps its     *)
(* keys, as in k8s/keycloak, every pod comes to accept its tokens for      *)
(* good.  Without that proviso it may not: discovery is not tried again    *)
(* once there are keys (_load_oidc_config, _jwks_refresh_loop).            *)
DoorOpens ==
  \A p \in Pods :
    /\ <>[](keys[p] # NoKeys)
    /\ FallbackRight /\ [](realm = 0) => <>[]CanVerify(p)
=============================================================================
