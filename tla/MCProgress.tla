----------------------------- MODULE MCProgress -----------------------------
(***************************************************************************)
(* What must happen in the end.  The transfers of MCTransfers in full, and *)
(* small instances of the payment chain, the door of the gateway, the      *)
(* queue of ai-analyzer and the scorer.  As in MCServices, Init chooses    *)
(* the component that runs, and fairness is asked of that one only.        *)
(***************************************************************************)
EXTENDS MCTransfers

VARIABLES
  component,
  rows, applied, at, score, recent, counter, ledger, notified,
  keys, issuer, loading, realm, keycloak, window, since, outcome, doorFaults,
  job, batch, via, result, pending, age, forward, received, answer, seen, forgot,
  backoff, boots,
  place, life, timer, reading, asking, last, gauge, up, faults, troubled

chainVars == <<rows, applied, at, score, recent, counter, ledger, notified>>
doorVars  == <<keys, issuer, loading, realm, keycloak, window, since, outcome,
               doorFaults>>
alertVars == <<job, batch, via, result, pending, age, forward, received, answer, seen,
               forgot, backoff, boots>>
scoreVars == <<place, life, timer, reading, asking, last, gauge, up, faults, troubled>>
allVars   == <<component, vars, chainVars, doorVars, alertVars, scoreVars>>

Pay(amount, channel, country, device) ==
  [from |-> "a", to |-> "b", amount |-> amount, sameCurrency |-> TRUE,
   context |-> [riskyChannel |-> channel, unusualCountry |-> country, device |-> device]]

\* A payment of the critical amount, and one above what payment-service
\* accepts.
Chain == INSTANCE Payments WITH
  SoftLimit <- 1, High <- 3, Critical <- 5,
  Accounts <- {"a", "b", "c"}, Opening <- ("a" :> 10) @@ ("b" :> 0) @@ ("c" :> NoRow),
  Grants <- {0}, Payments <- {"p1", "p3"},
  Order <- ("p1" :> Pay(5, FALSE, FALSE, "unknown"))
           @@ ("p3" :> Pay(6, TRUE, TRUE, "suspicious")),
  Strong <- {"p1", "p3"}, Single <- 5, Daily <- 5, MaxSingle <- 5, OneDay <- TRUE,
  balance <- rows

\* Two pods, two outages or restarts.
Door == INSTANCE Gateway WITH
  Pods <- {"g1", "g2"}, Calls <- {"c1"}, PodOf <- [c \in {"c1"} |-> "g1"], Limit <- 1,
  Minute <- 1, Lag <- 0,
  FallbackRight <- TRUE, MaxFaults <- 2, MaxRotations <- 1, faults <- doorFaults

\* Two alerts, each open to the administrator.
Alerts == INSTANCE AiAlerts WITH
  MinAlertRank <- 2, ApprovalRank <- 3, Jobs <- {"i1", "i2"}, Batches <- {"b"},
  Findings <- [b \in {"b"} |-> <<"port_scan", "impair_defenses">>], Answers <- {},
  ProviderOn <- FALSE, SoarConfigured <- TRUE, SeenLimit <- 1, SeenKeep <- 0,
  SoarMinRank <- 2, SoarHitlRank <- 3, SoarMinConfidence <- 50, MaxRestarts <- 0,
  NoBatch <- "no batch"

\* Two events, of which the set keeps one.
Scorer == INSTANCE EventWindow WITH
  Events <- {"e1", "e2"},
  Matches <- ("e1" :> {"lateral_movement"}) @@ ("e2" :> {"access_denied"}),
  Window <- 2, Interval <- 1, FirstWait <- 1, MaxStored <- 1, MaxFaults <- 1

ProgressInit ==
  /\ component \in {"transfers", "chain", "door", "alerts", "score"}
  /\ Init /\ Chain!Init /\ Door!Init /\ Alerts!Init /\ Scorer!Init

ProgressNext ==
  /\ UNCHANGED component
  /\ \/ /\ component = "transfers" /\ Next
        /\ UNCHANGED <<chainVars, doorVars, alertVars, scoreVars>>
     \/ /\ component = "chain" /\ Chain!Next
        /\ UNCHANGED <<vars, doorVars, alertVars, scoreVars>>
     \/ /\ component = "door" /\ Door!Next
        /\ UNCHANGED <<vars, chainVars, alertVars, scoreVars>>
     \/ /\ component = "alerts" /\ Alerts!Next
        /\ UNCHANGED <<vars, chainVars, doorVars, scoreVars>>
     \/ /\ component = "score" /\ Scorer!Next
        /\ UNCHANGED <<vars, chainVars, doorVars, alertVars>>

\* The fairness of each module, guarded by the component that runs.
ProgressFairness ==
  /\ \A t \in Txns :
       /\ WF_vars(component = "transfers"
                  /\ (Begin(t) \/ SelectSource(t) \/ SelectTarget(t) \/ Refuse(t)
                      \/ Debit(t) \/ Credit(t) \/ Commit(t)))
       /\ WF_vars(component = "transfers" /\ AbortDeadlocked(t))
  /\ \A p \in {"p1", "p3"} :
       /\ WF_chainVars(component = "chain" /\ Chain!PaymentStep(p))
       /\ WF_chainVars(component = "chain" /\ Chain!CoreStep(p))
  /\ \A g \in {"g1", "g2"} :
       /\ WF_doorVars(component = "door" /\ Door!Discover(g))
       /\ WF_doorVars(component = "door" /\ Door!FetchKeys(g))
  /\ WF_doorVars(component = "door" /\ Door!KeycloakReturns)
  /\ WF_alertVars(component = "alerts" /\ Alerts!Sweep)
  /\ \A i \in {"i1", "i2"} : WF_alertVars(component = "alerts" /\ Alerts!GrowsOld(i))
  /\ \A e \in {"e1", "e2"} :
       WF_scoreVars(component = "score" /\ (Scorer!Store(e) \/ Scorer!StoreFails(e)))
  /\ WF_scoreVars(component = "score" /\ Scorer!LoopStep)
  /\ WF_scoreVars(component = "score" /\ Scorer!Tick)
  /\ WF_scoreVars(component = "score" /\ Scorer!RedisReturns)

ProgressSpec == ProgressInit /\ [][ProgressNext]_allVars /\ ProgressFairness

CallsEnd    == Chain!CallsEnd
DoorOpens   == component = "door" => Door!DoorOpens
QueueDrains == Alerts!QueueDrains
AlarmClears == component = "score" => Scorer!AlarmClears
=============================================================================
