-------------------------- MODULE SoarCases_proofs --------------------------
(***************************************************************************)
(* Proofs about SoarCases for any number of cases, alerts, administrator   *)
(* requests and restarts.                                                  *)
(***************************************************************************)
EXTENDS SoarCases, TLAPS

(* The records written to CASES, the store and the queue are case records. *)
LEMMA RecordTypes ==
  /\ Blank \in CaseRecord
  /\ Pending \in CaseRecord
  /\ Emailed \in CaseRecord
  /\ \A s \in Statuses : Fresh(s) \in CaseRecord
  /\ \A record \in CaseRecord, s \in Statuses :
       /\ [record EXCEPT !.status = s] \in CaseRecord
       /\ [record EXCEPT !.status = s].status = s
  /\ FinalStatus \in {"dry_run", "executed"}
<1>1. FinalStatus \in {"dry_run", "executed"}
  BY DEF FinalStatus
<1> QED
  BY <1>1 DEF Blank, Pending, Emailed, Fresh, CaseRecord, Statuses

(* Every alert that reaches the intake is one of Bodies, so its attack and *)
(* its rank are in the range of the deduplication registry.                *)
LEMMA BodyTypes ==
  /\ \A body \in Alerts : body \in Bodies
  /\ \A item \in GrafanaItems : GrafanaToAlert(item) \in Bodies
  /\ \A body \in Bodies : AttackOf(body) \in AttackTypes /\ RankOf(body) \in 1..4
BY CasesAssumption DEF Bodies, AttackTypes

-----------------------------------------------------------------------------
LEMMA InitTyped == Init => TypeOK
BY CasesAssumption, RecordTypes
DEF Init, TypeOK, NotBorn, NoRecent, Idle, HandlerStates

LEMMA RecordTyped ==
  ASSUME TypeOK, NEW c \in Cases, NEW record \in CaseRecord, Record(c, record)
  PROVE  cases' \in [Cases -> CaseRecord] /\ store' \in [Cases -> CaseRecord]
BY DEF TypeOK, Record

(* A run is counted for its case alone, and not at all in a dry run.       *)
LEMMA RunCounted ==
  ASSUME runs \in [Cases -> Nat], NEW c \in Cases, CountRun(c)
  PROVE  /\ runs' \in [Cases -> Nat]
         /\ runs'[c] = IF DryRun THEN runs[c] ELSE runs[c] + 1
         /\ \A d \in Cases \ {c} : runs'[d] = runs[d]
<1>1. CASE DryRun
  BY <1>1 DEF CountRun
<1>2. CASE ~DryRun
  BY <1>2 DEF CountRun
<1> QED
  BY <1>1, <1>2

(* A stretch of code that records a case and moves its handler.            *)
LEMMA RecordAndMoveTyped ==
  ASSUME TypeOK, NEW c \in Cases, NEW record \in CaseRecord,
         NEW state \in HandlerStates, Record(c, record),
         handler' = [handler EXCEPT ![c] = state], UNCHANGED runs
  PROVE  /\ runs' \in [Cases -> Nat] /\ cases' \in [Cases -> CaseRecord]
         /\ store' \in [Cases -> CaseRecord]
         /\ handler' \in [Cases -> HandlerStates]
<1>1. cases' \in [Cases -> CaseRecord] /\ store' \in [Cases -> CaseRecord]
  BY RecordTyped
<1>2. handler' \in [Cases -> HandlerStates] /\ runs' \in [Cases -> Nat]
  BY DEF TypeOK
<1> QED
  BY <1>1, <1>2

(* The part of a step that intake of a body performs keeps the types.      *)
LEMMA IntakeTyped ==
  ASSUME TypeOK, NEW c \in Cases, NEW body \in Bodies,
         NEW via \in {"alerts", "webhook"}, Intake(c, body, via),
         recent' \in [AttackTypes -> [rank : 0..4, at : 0..MaxTime]]
  PROVE  TypeOK'
<1>1. runs' \in [Cases -> Nat] /\ cases' \in [Cases -> CaseRecord]
      /\ store' \in [Cases -> CaseRecord]
      /\ handler' \in [Cases -> HandlerStates]
  <2>1. /\ Fresh("skipped") \in CaseRecord /\ Pending \in CaseRecord
        /\ "done" \in HandlerStates /\ "recorded" \in HandlerStates
    BY RecordTypes DEF Statuses, HandlerStates
  <2>2. CASE Disposition(body) = "skip"
    <3>1. /\ Record(c, Fresh("skipped")) /\ UNCHANGED runs
          /\ handler' = [handler EXCEPT ![c] = "done"]
      BY <2>2 DEF Intake
    <3> QED
      BY <2>1, <3>1, RecordAndMoveTyped
  <2>3. CASE Disposition(body) = "hold"
    <3>1. /\ Record(c, Pending) /\ UNCHANGED runs
          /\ handler' = [handler EXCEPT ![c] = "recorded"]
      BY <2>3 DEF Intake
    <3> QED
      BY <2>1, <3>1, RecordAndMoveTyped
  <2>4. CASE Disposition(body) = "run"
    BY <2>4, RunCounted DEF TypeOK, Intake, HandlerStates
  <2> QED
    BY <2>2, <2>3, <2>4 DEF Intake
<1>2. alert' \in [Cases -> Bodies \cup {NoAlert}]
  BY DEF TypeOK, Intake
<1>3. born' \in [Cases -> [via : {None, "alerts", "webhook"}, at : 0..MaxTime,
                           boot : 0..MaxRestarts]]
  BY DEF TypeOK, Intake
<1> QED
  BY <1>1, <1>2, <1>3 DEF TypeOK, Intake

LEMMA StepTyped == TypeOK /\ [Next]_vars => TypeOK'
<1> SUFFICES ASSUME TypeOK, [Next]_vars PROVE TypeOK'
  OBVIOUS
<1> USE RecordTypes
<1>1. ASSUME NEW c \in Cases, NEW body \in Alerts, PostAlert(c, body)
      PROVE  TypeOK'
  BY <1>1, BodyTypes, IntakeTyped DEF PostAlert, TypeOK
<1>2. ASSUME NEW c \in Cases, NEW item \in GrafanaItems, Webhook(c, item)
      PROVE  TypeOK'
  <2> DEFINE body == GrafanaToAlert(item)
  <2>1. body \in Bodies /\ AttackOf(body) \in AttackTypes /\ RankOf(body) \in 0..4
    BY BodyTypes
  <2>2. recent' \in [AttackTypes -> [rank : 0..4, at : 0..MaxTime]]
    <3> HIDE DEF body
    <3>1. recent' = [recent EXCEPT ![AttackOf(body)] =
                       [rank |-> RankOf(body), at |-> clock]]
      BY <1>2 DEF Webhook, body
    <3> QED
      BY <2>1, <3>1 DEF TypeOK
  <2>3. Intake(c, body, "webhook")
    BY <1>2 DEF Webhook
  <2> QED
    <3> HIDE DEF body
    <3> QED BY <2>1, <2>2, <2>3, IntakeTyped
<1>3. ASSUME NEW c \in Cases,
             \/ FinishAutoRun(c) \/ QueueCase(c) \/ Enrich(c)
             \/ EmailReturned(c) \/ EmailFailed(c)
      PROVE  TypeOK'
  <2>1. CASE FinishAutoRun(c)
    <3>1. Fresh(FinalStatus) \in CaseRecord
      BY DEF Statuses
    <3> QED
      BY <2>1, <3>1, RecordTyped DEF TypeOK, FinishAutoRun, HandlerStates
  <2>2. CASE QueueCase(c)
    BY <2>2 DEF TypeOK, QueueCase, HandlerStates
  <2>3. CASE Enrich(c)
    <3>1. CASE Record(c, Pending) /\ queue' = [queue EXCEPT ![c] = Pending]
      BY <2>3, <3>1, RecordTyped DEF TypeOK, Enrich, HandlerStates
    <3>2. CASE UNCHANGED <<cases, store, queue>>
      BY <2>3, <3>2 DEF TypeOK, Enrich, HandlerStates
    <3> QED
      BY <2>3, <3>1, <3>2 DEF Enrich
  <2>4. CASE EmailReturned(c)
    BY <2>4, RecordTyped DEF TypeOK, EmailReturned, HandlerStates
  <2>5. CASE EmailFailed(c)
    BY <2>5 DEF TypeOK, EmailFailed, HandlerStates
  <2> QED
    BY <1>3, <2>1, <2>2, <2>3, <2>4, <2>5
<1>4. ASSUME NEW c \in Cases, Deny(c) \/ ChooseMonitorOnly(c) \/ Rollback(c)
      PROVE  TypeOK'
  <2>1. CASE Deny(c)
    <3>1. queue' \in [Cases -> CaseRecord]
      BY <2>1 DEF TypeOK, Deny, Dequeue
    <3>2. [queue[c] EXCEPT !.status = "skipped"] \in CaseRecord
      BY DEF TypeOK, Statuses
    <3> QED
      BY <2>1, <3>1, <3>2, RecordTyped DEF TypeOK, Deny
  <2>2. CASE ChooseMonitorOnly(c)
    <3>1. queue' \in [Cases -> CaseRecord]
      BY <2>2 DEF TypeOK, ChooseMonitorOnly, Dequeue
    <3>2. [cases[c] EXCEPT !.status = "skipped"] \in CaseRecord
      BY DEF TypeOK, Statuses
    <3> QED
      BY <2>2, <3>1, <3>2, RecordTyped DEF TypeOK, ChooseMonitorOnly
  <2>3. CASE Rollback(c)
    <3>1. PICK outcome \in Statuses : Record(c, [cases[c] EXCEPT !.status = outcome])
      BY <2>3 DEF Rollback, Statuses
    <3>2. [cases[c] EXCEPT !.status = outcome] \in CaseRecord
      BY DEF TypeOK
    <3> QED
      BY <2>3, <3>1, <3>2, RecordTyped DEF TypeOK, Rollback
  <2> QED
    BY <1>4, <2>1, <2>2, <2>3
<1>5. ASSUME NEW r \in Requests, NEW c \in Cases, Approve(r, c) \/ Choose(r, c)
      PROVE  TypeOK'
  <2>1. runs' \in [Cases -> Nat] /\ queue' \in [Cases -> CaseRecord]
    BY <1>5, RunCounted DEF TypeOK, Approve, Choose, Dequeue
  <2>2. req' \in [Requests -> [case : Cases \cup {NoCase}, draft : CaseRecord]]
    BY <1>5 DEF TypeOK, Approve, Choose
  <2> QED
    BY <1>5, <2>1, <2>2 DEF TypeOK, Approve, Choose
<1>6. ASSUME NEW r \in Requests, FinishRun(r)
      PROVE  TypeOK'
  <2>1. req' \in [Requests -> [case : Cases \cup {NoCase}, draft : CaseRecord]]
    BY <1>6 DEF TypeOK, FinishRun, Idle
  <2>2. cases' \in [Cases -> CaseRecord] /\ store' \in [Cases -> CaseRecord]
    BY <1>6 DEF TypeOK, FinishRun, Record, Statuses
  <2> QED
    BY <1>6, <2>1, <2>2 DEF TypeOK, FinishRun
<1>7. CASE Restart
  <2>1. PICK marked \in SUBSET {c \in Cases : store[c] = Pending} :
          /\ cases' = Reloaded(marked)
          /\ store' = Reloaded(marked)
          /\ queue' = RestoredQueue(Reloaded(marked))
          /\ mailed' \subseteq mailed \cup marked /\ unsent' \subseteq unsent \cup marked
    BY <1>7 DEF Restart
  <2>2. Reloaded(marked) \in [Cases -> CaseRecord]
    BY DEF TypeOK, Reloaded
  <2>3. RestoredQueue(Reloaded(marked)) \in [Cases -> CaseRecord]
    BY <2>2 DEF RestoredQueue
  <2>4. boots' \in 0..MaxRestarts
    BY <1>7, CasesAssumption DEF Restart, TypeOK
  <2>5. mailed' \subseteq Cases /\ unsent' \subseteq Cases
    BY <2>1 DEF TypeOK
  <2>6. req' \in [Requests -> [case : Cases \cup {NoCase}, draft : CaseRecord]]
    BY <1>7 DEF Restart, Idle
  <2>7. recent' \in [AttackTypes -> [rank : 0..4, at : 0..MaxTime]]
    BY <1>7, CasesAssumption DEF Restart, NoRecent
  <2>8. handler' \in [Cases -> HandlerStates]
    BY <1>7 DEF Restart, HandlerStates
  <2> QED
    BY <1>7, <2>1, <2>2, <2>3, <2>4, <2>5, <2>6, <2>7, <2>8 DEF TypeOK, Restart
<1>8. CASE Tick
  BY <1>8, CasesAssumption DEF Tick, TypeOK
<1>9. CASE UNCHANGED vars
  BY <1>9 DEF vars, TypeOK
<1> QED
  BY <1>1, <1>2, <1>3, <1>4, <1>5, <1>6, <1>7, <1>8, <1>9 DEF Next

(* Every variable keeps its type through every step of soar-engine.        *)
THEOREM Typing == Spec => []TypeOK
BY InitTyped, StepTyped, PTL DEF Spec

-----------------------------------------------------------------------------
(* The inductive invariant, case by case.  OnlyEligibleRun and             *)
(* OutcomeHasRun speak of runs and outcomes only; to carry them through a  *)
(* step one must know that whatever can still lead to a run -- a handler   *)
(* on its way to the queue, a pending record in memory or in the store, a  *)
(* queued draft, a request under way -- stems from an alert that was held. *)
Held(c) ==
  \/ handler[c] \in {"recorded", "evidence", "emailing"}
  \/ cases[c].status = "pending_approval"
  \/ store[c].status = "pending_approval"
  \/ Queued(c)
  \/ Busy(c)

Outcomes == {"dry_run", "executed", "rolled_back", "rollback_failed"}

IdleIsFresh(c) ==
  handler[c] = "idle" => /\ cases[c] = Blank /\ store[c] = Blank
                        /\ queue[c] = Blank /\ runs[c] = 0 /\ ~Busy(c)

DraftIsPending(c) == Queued(c) => queue[c].status = "pending_approval"

HeldFromHold(c) == Held(c) => alert[c] # NoAlert /\ Disposition(alert[c]) = "hold"

RunsFromEligible(c) ==
  handler[c] = "running" \/ runs[c] > 0 =>
    alert[c] # NoAlert /\ Disposition(alert[c]) # "skip"

RunsAreCounted(c) ==
  /\ ~DryRun
  /\ \/ handler[c] = "running"
     \/ Busy(c)
     \/ cases[c].status \in Outcomes
     \/ store[c].status \in Outcomes
  => runs[c] > 0

Reachable(c) ==
  cases[c].status = "pending_approval" =>
    Queued(c) \/ handler[c] = "recorded" \/ Busy(c)

CaseInv(c) == /\ IdleIsFresh(c) /\ DraftIsPending(c) /\ HeldFromHold(c)
              /\ RunsFromEligible(c) /\ RunsAreCounted(c) /\ Reachable(c)

RequestsArePending ==
  \A r \in Requests : req[r] # Idle => /\ req[r].case \in Cases
                                      /\ req[r].draft.status = "pending_approval"

IInv == TypeOK /\ RequestsArePending /\ \A c \in Cases : CaseInv(c)

(* A step that leaves everything about a case alone keeps its invariant.   *)
Untouched(d) ==
  /\ alert'[d] = alert[d] /\ handler'[d] = handler[d] /\ cases'[d] = cases[d]
  /\ store'[d] = store[d] /\ queue'[d] = queue[d] /\ runs'[d] = runs[d]
  /\ Busy(d)' <=> Busy(d)

LEMMA Frame ==
  ASSUME NEW d \in Cases, CaseInv(d), Untouched(d)
  PROVE  CaseInv(d)'
BY DEF CaseInv, Untouched, IdleIsFresh, DraftIsPending, HeldFromHold, Held, Queued,
       RunsFromEligible, RunsAreCounted, Reachable

(* What a handler writes to CASES and the store, read back.                *)
LEMMA RecordRead ==
  ASSUME TypeOK, NEW c \in Cases, NEW record \in CaseRecord, Record(c, record)
  PROVE  /\ cases'[c] = record /\ store'[c] = record
         /\ \A d \in Cases \ {c} : cases'[d] = cases[d] /\ store'[d] = store[d]
BY DEF TypeOK, Record

(* A slot that takes up case c makes c busy, and no other case.            *)
LEMMA SlotTaken ==
  ASSUME TypeOK, NEW r \in Requests, NEW c \in Cases, NEW draft \in CaseRecord,
         req[r] = Idle, req' = [req EXCEPT ![r] = [case |-> c, draft |-> draft]]
  PROVE  Busy(c)' /\ \A d \in Cases \ {c} : Busy(d)' <=> Busy(d)
BY CasesAssumption DEF TypeOK, Busy, Idle

LEMMA InitInv == Init => IInv
<1> SUFFICES ASSUME Init PROVE IInv
  OBVIOUS
<1>1. TypeOK
  BY InitTyped
<1>2. RequestsArePending
  BY DEF Init, RequestsArePending
<1>3. ASSUME NEW c \in Cases PROVE CaseInv(c)
  <2>1. ~Busy(c)
    BY CasesAssumption DEF Init, Busy, Idle
  <2> QED
    BY <2>1 DEF Init, Blank, CaseInv, IdleIsFresh, DraftIsPending, HeldFromHold, Held,
                Queued, RunsFromEligible, RunsAreCounted, Reachable, Outcomes
<1> QED
  BY <1>1, <1>2, <1>3 DEF IInv

-----------------------------------------------------------------------------
(* Intake finds its case untouched and leaves it in one of three states.   *)
LEMMA IntakeInv ==
  ASSUME IInv, NEW c \in Cases, NEW body \in Bodies, NEW via, Intake(c, body, via)
  PROVE  \A d \in Cases : CaseInv(d)'
<1> USE DEF IInv
<1>1. \A d \in Cases : Busy(d)' <=> Busy(d)
  BY DEF Intake, Busy
<1>2. IdleIsFresh(c) /\ handler[c] = "idle"
  BY DEF CaseInv, Intake
<1>3. body # NoAlert /\ alert'[c] = body /\ queue'[c] = queue[c] /\ ~Busy(c)'
  BY <1>1, <1>2, CasesAssumption DEF Intake, TypeOK, IdleIsFresh
<1>4. \A d \in Cases \ {c} : alert'[d] = alert[d] /\ queue'[d] = queue[d]
  BY DEF Intake, TypeOK
<1>5. CASE Disposition(body) = "skip"
  <2>1. Record(c, Fresh("skipped")) /\ handler' = [handler EXCEPT ![c] = "done"]
        /\ runs' = runs
    BY <1>5 DEF Intake
  <2>2. Fresh("skipped") \in CaseRecord /\ Fresh("skipped").status = "skipped"
    BY RecordTypes DEF Statuses, Fresh
  <2>3. \A d \in Cases \ {c} : Untouched(d)
    BY <1>1, <1>4, <2>1, <2>2, RecordRead DEF Untouched, TypeOK
  <2>4. CaseInv(c)'
    BY <1>2, <1>3, <2>1, <2>2, RecordRead
    DEF TypeOK, CaseInv, IdleIsFresh, DraftIsPending, HeldFromHold, Held, Queued,
        RunsFromEligible, RunsAreCounted, Reachable, Outcomes
  <2> QED
    BY <2>3, <2>4, Frame
<1>6. CASE Disposition(body) = "hold"
  <2>1. Record(c, Pending) /\ handler' = [handler EXCEPT ![c] = "recorded"]
        /\ runs' = runs
    BY <1>6 DEF Intake
  <2>2. Pending.status = "pending_approval"
    BY DEF Pending, Fresh
  <2>3. \A d \in Cases \ {c} : Untouched(d)
    BY <1>1, <1>4, <2>1, RecordTypes, RecordRead DEF Untouched, TypeOK
  <2>4. CaseInv(c)'
    BY <1>2, <1>3, <1>6, <2>1, <2>2, RecordTypes, RecordRead
    DEF TypeOK, CaseInv, IdleIsFresh, DraftIsPending, HeldFromHold, Held, Queued,
        RunsFromEligible, RunsAreCounted, Reachable, Outcomes
  <2> QED
    BY <2>3, <2>4, Frame
<1>7. CASE Disposition(body) = "run"
  <2>1. CountRun(c) /\ handler' = [handler EXCEPT ![c] = "running"]
        /\ cases' = cases /\ store' = store
    BY <1>7 DEF Intake
  <2>2. runs'[c] = IF DryRun THEN 0 ELSE 1
    BY <1>2, <2>1, RunCounted DEF TypeOK, IdleIsFresh
  <2>3. \A d \in Cases \ {c} : Untouched(d)
    BY <1>1, <1>4, <2>1, RunCounted DEF Untouched, TypeOK
  <2>4. CaseInv(c)'
    BY <1>2, <1>3, <1>7, <2>1, <2>2
    DEF TypeOK, CaseInv, IdleIsFresh, DraftIsPending, HeldFromHold, Held, Queued,
        RunsFromEligible, RunsAreCounted, Reachable, Outcomes, Blank
  <2> QED
    BY <2>3, <2>4, Frame
<1> QED
  BY <1>5, <1>6, <1>7 DEF Intake

(* The intake handler of a case, from the recording to the e-mail.         *)
LEMMA HandlerInv ==
  ASSUME IInv, NEW c \in Cases,
         \/ FinishAutoRun(c) \/ QueueCase(c) \/ Enrich(c)
         \/ EmailReturned(c) \/ EmailFailed(c)
  PROVE  \A d \in Cases : CaseInv(d)'
<1> USE DEF IInv
<1>1. /\ \A d \in Cases : Busy(d)' <=> Busy(d)
      /\ runs' = runs /\ alert' = alert
  BY DEF Busy, FinishAutoRun, QueueCase, Enrich, EmailReturned, EmailFailed
<1>2. CaseInv(c)
  OBVIOUS
<1>3. Pending.status = "pending_approval" /\ Emailed.status = "pending_approval"
      /\ Pending # Blank /\ Emailed # Blank
  BY DEF Pending, Fresh, Emailed, Blank
<1>4. ASSUME handler[c] \in {"recorded", "evidence", "emailing"},
             \A d \in Cases \ {c} : Untouched(d),
             handler'[c] \in {"evidence", "emailing", "done"},
             \/ /\ queue'[c] # Blank /\ queue'[c].status = "pending_approval"
                /\ \/ cases'[c] = cases[c] /\ store'[c] = store[c]
                   \/ /\ cases'[c].status = "pending_approval"
                      /\ store'[c].status = "pending_approval"
             \/ /\ handler[c] # "recorded"
                /\ queue'[c] = queue[c] /\ cases'[c] = cases[c] /\ store'[c] = store[c]
      PROVE  \A d \in Cases : CaseInv(d)'
  <2>1. CaseInv(c)'
    BY <1>1, <1>2, <1>4
    DEF CaseInv, IdleIsFresh, DraftIsPending, HeldFromHold, Held, Queued,
        RunsFromEligible, RunsAreCounted, Reachable, Outcomes
  <2> QED
    BY <1>4, <2>1, Frame
<1>5. CASE FinishAutoRun(c)
  <2>1. Record(c, Fresh(FinalStatus)) /\ handler' = [handler EXCEPT ![c] = "done"]
        /\ queue' = queue /\ handler[c] = "running"
    BY <1>5 DEF FinishAutoRun
  <2>2. Fresh(FinalStatus) \in CaseRecord
        /\ Fresh(FinalStatus).status \in {"dry_run", "executed"}
    BY RecordTypes DEF Statuses, Fresh
  <2>3. \A d \in Cases \ {c} : Untouched(d)
    BY <1>1, <2>1, <2>2, RecordRead DEF Untouched, TypeOK
  <2>4. CaseInv(c)'
    BY <1>1, <1>2, <2>1, <2>2, RecordRead
    DEF TypeOK, CaseInv, IdleIsFresh, DraftIsPending, HeldFromHold, Held, Queued,
        RunsFromEligible, RunsAreCounted, Reachable, Outcomes
  <2> QED
    BY <2>3, <2>4, Frame
<1>6. CASE QueueCase(c)
  <2>1. \A d \in Cases \ {c} : Untouched(d)
    BY <1>1, <1>6 DEF QueueCase, Untouched, TypeOK
  <2> QED
    BY <1>3, <1>4, <1>6, <2>1 DEF QueueCase, TypeOK
<1>7. CASE Enrich(c)
  <2>1. handler[c] = "evidence" /\ handler' = [handler EXCEPT ![c] = "emailing"]
    BY <1>7 DEF Enrich
  <2>2. CASE Record(c, Pending) /\ queue' = [queue EXCEPT ![c] = Pending]
    <3>1. \A d \in Cases \ {c} : Untouched(d)
      BY <1>1, <2>1, <2>2, RecordTypes, RecordRead DEF Untouched, TypeOK
    <3> QED
      BY <1>3, <1>4, <2>1, <2>2, <3>1, RecordTypes, RecordRead DEF TypeOK
  <2>3. CASE UNCHANGED <<cases, store, queue>>
    <3>1. \A d \in Cases \ {c} : Untouched(d)
      BY <1>1, <2>1, <2>3 DEF Untouched, TypeOK
    <3> QED
      BY <1>4, <2>1, <2>3, <3>1 DEF TypeOK
  <2> QED
    BY <1>7, <2>2, <2>3 DEF Enrich
<1>8. CASE EmailReturned(c)
  <2>1. /\ handler[c] = "emailing" /\ handler' = [handler EXCEPT ![c] = "done"]
        /\ Record(c, Emailed) /\ queue' = [queue EXCEPT ![c] = Emailed]
    BY <1>8 DEF EmailReturned
  <2>2. \A d \in Cases \ {c} : Untouched(d)
    BY <1>1, <2>1, RecordTypes, RecordRead DEF Untouched, TypeOK
  <2> QED
    BY <1>3, <1>4, <2>1, <2>2, RecordTypes, RecordRead DEF TypeOK
<1>9. CASE EmailFailed(c)
  <2>1. /\ handler[c] = "emailing" /\ handler' = [handler EXCEPT ![c] = "done"]
        /\ UNCHANGED <<cases, store, queue>>
    BY <1>9 DEF EmailFailed
  <2>2. \A d \in Cases \ {c} : Untouched(d)
    BY <1>1, <2>1 DEF Untouched, TypeOK
  <2> QED
    BY <1>4, <2>1, <2>2 DEF TypeOK
<1> QED
  BY <1>5, <1>6, <1>7, <1>8, <1>9

(* Decisions that end in a record at once: deny, monitor_only, rollback.   *)
LEMMA DecisionInv ==
  ASSUME IInv, NEW c \in Cases, Deny(c) \/ ChooseMonitorOnly(c) \/ Rollback(c)
  PROVE  \A d \in Cases : CaseInv(d)'
<1> USE DEF IInv
<1>1. /\ \A d \in Cases : Busy(d)' <=> Busy(d)
      /\ runs' = runs /\ alert' = alert /\ handler' = handler
  BY DEF Busy, Deny, ChooseMonitorOnly, Rollback
<1>2. CaseInv(c)
  OBVIOUS
<1>3. ASSUME Deny(c) \/ ChooseMonitorOnly(c) PROVE \A d \in Cases : CaseInv(d)'
  <2>1. PICK record \in CaseRecord : record.status = "skipped" /\ Record(c, record)
    <3>1. CASE Deny(c)
      <4>1. queue[c] \in CaseRecord
        BY DEF TypeOK
      <4> QED
        BY <3>1, <4>1, RecordTypes DEF Deny, Statuses
    <3>2. CASE ChooseMonitorOnly(c)
      <4>1. cases[c] \in CaseRecord
        BY DEF TypeOK
      <4> QED
        BY <3>2, <4>1, RecordTypes DEF ChooseMonitorOnly, Statuses
    <3> QED
      BY <1>3, <3>1, <3>2
  <2>2. queue'[c] = Blank /\ \A d \in Cases \ {c} : queue'[d] = queue[d]
    BY <1>3 DEF Deny, ChooseMonitorOnly, Dequeue, TypeOK
  <2>3. handler[c] # "idle"
    BY <1>2, <1>3
    DEF Deny, ChooseMonitorOnly, Queued, CaseInv, IdleIsFresh, Blank
  <2>4. \A d \in Cases \ {c} : Untouched(d)
    BY <1>1, <2>1, <2>2, RecordRead DEF Untouched
  <2>5. CaseInv(c)'
    BY <1>1, <1>2, <2>1, <2>2, <2>3, RecordRead
    DEF CaseInv, IdleIsFresh, DraftIsPending, HeldFromHold, Held, Queued,
        RunsFromEligible, RunsAreCounted, Reachable, Outcomes
  <2> QED
    BY <2>4, <2>5, Frame
<1>4. CASE Rollback(c)
  <2>1. PICK outcome \in {"rolled_back", "rollback_failed"} :
          Record(c, [cases[c] EXCEPT !.status = outcome])
    BY <1>4 DEF Rollback
  <2>2. PICK record \in CaseRecord : record.status = outcome /\ Record(c, record)
    <3>1. cases[c] \in CaseRecord
      BY DEF TypeOK
    <3>2. outcome \in Statuses
      BY DEF Statuses
    <3> QED
      BY <2>1, <3>1, <3>2, RecordTypes
  <2>3. cases[c].status \in Outcomes /\ queue' = queue /\ handler[c] # "idle"
    BY <1>2, <1>4 DEF Rollback, CaseInv, IdleIsFresh, Blank, Outcomes
  <2>4. \A d \in Cases \ {c} : Untouched(d)
    BY <1>1, <2>2, <2>3, RecordRead DEF Untouched
  <2>5. CaseInv(c)'
    BY <1>1, <1>2, <2>2, <2>3, RecordRead
    DEF CaseInv, IdleIsFresh, DraftIsPending, HeldFromHold, Held, Queued,
        RunsFromEligible, RunsAreCounted, Reachable, Outcomes
  <2> QED
    BY <2>4, <2>5, Frame
<1> QED
  BY <1>3, <1>4

(* An approved or chosen case leaves the queue and becomes busy.           *)
LEMMA RequestInv ==
  ASSUME IInv, NEW r \in Requests, NEW c \in Cases, Approve(r, c) \/ Choose(r, c)
  PROVE  RequestsArePending' /\ \A d \in Cases : CaseInv(d)'
<1> USE DEF IInv
<1>1. CaseInv(c) /\ TypeOK
  OBVIOUS
<1>2. PICK draft \in CaseRecord :
        /\ draft.status = "pending_approval"
        /\ req' = [req EXCEPT ![r] = [case |-> c, draft |-> draft]]
  <2>1. CASE Approve(r, c)
    BY <1>1, <2>1 DEF Approve, TypeOK, CaseInv, DraftIsPending
  <2>2. CASE Choose(r, c)
    BY <1>1, <2>2 DEF Choose, TypeOK
  <2> QED
    BY <2>1, <2>2
<1>3. /\ req[r] = Idle /\ CountRun(c) /\ Dequeue(c)
      /\ UNCHANGED <<alert, handler, cases, store>>
      /\ Queued(c) \/ cases[c].status = "pending_approval"
  BY DEF Approve, Choose
<1>4. Busy(c)' /\ \A d \in Cases \ {c} : Busy(d)' <=> Busy(d)
  BY <1>2, <1>3, SlotTaken
<1>5. queue'[c] = Blank /\ \A d \in Cases \ {c} : queue'[d] = queue[d]
  BY <1>3 DEF Dequeue, TypeOK
<1>6. /\ runs[c] \in Nat /\ runs'[c] = IF DryRun THEN runs[c] ELSE runs[c] + 1
      /\ \A d \in Cases \ {c} : runs'[d] = runs[d]
  BY <1>3, RunCounted DEF TypeOK
<1>7. RequestsArePending'
  BY <1>2 DEF RequestsArePending, TypeOK
<1>8. \A d \in Cases \ {c} : Untouched(d)
  BY <1>3, <1>4, <1>5, <1>6 DEF Untouched
<1>9. CaseInv(c)'
  <2>1. handler[c] # "idle" /\ alert[c] # NoAlert /\ Disposition(alert[c]) = "hold"
    BY <1>1, <1>3
    DEF CaseInv, IdleIsFresh, HeldFromHold, Held, Queued, Blank
  <2>2. ~DryRun => runs'[c] > 0
    BY <1>6
  <2> QED
    BY <1>1, <1>3, <1>4, <1>5, <2>1, <2>2
    DEF CaseInv, IdleIsFresh, DraftIsPending, HeldFromHold, Held, Queued,
        RunsFromEligible, RunsAreCounted, Reachable
<1> QED
  BY <1>7, <1>8, <1>9, Frame

(* A finished run is recorded for its case and frees its slot.             *)
LEMMA FinishRunInv ==
  ASSUME IInv, NEW r \in Requests, FinishRun(r)
  PROVE  RequestsArePending' /\ \A d \in Cases : CaseInv(d)'
<1> USE DEF IInv
<1>0. PICK c \in Cases : c = req[r].case
  BY DEF FinishRun, RequestsArePending
<1>1. /\ Busy(c)
      /\ req' = [req EXCEPT ![r] = Idle]
      /\ UNCHANGED <<alert, handler, queue, runs>>
  BY <1>0 DEF FinishRun, Busy
<1>2. PICK record \in CaseRecord :
        record.status \in {"dry_run", "executed"} /\ Record(c, record)
  <2>1. req[r].draft \in CaseRecord /\ FinalStatus \in Statuses
    BY RecordTypes DEF TypeOK, Statuses
  <2> QED
    BY <1>0, <2>1, RecordTypes DEF FinishRun
<1>4. \A d \in Cases \ {c} : Busy(d)' <=> Busy(d)
  BY <1>0, <1>1, CasesAssumption DEF Busy, Idle, TypeOK
<1>5. RequestsArePending'
  BY <1>1 DEF RequestsArePending, TypeOK
<1>6. \A d \in Cases \ {c} : Untouched(d)
  BY <1>1, <1>2, <1>4, RecordRead DEF Untouched
<1>7. CaseInv(c)'
  BY <1>1, <1>2, RecordRead
  DEF CaseInv, IdleIsFresh, DraftIsPending, HeldFromHold, Held, Queued,
      RunsFromEligible, RunsAreCounted, Reachable, Outcomes
<1> QED
  BY <1>5, <1>6, <1>7, Frame

(* A restart keeps the store, and CASES and the queue are rebuilt from it. *)
LEMMA RestartInv ==
  ASSUME IInv, Restart
  PROVE  RequestsArePending' /\ \A d \in Cases : CaseInv(d)'
<1> USE DEF IInv
<1>1. PICK marked \in SUBSET {c \in Cases : store[c] = Pending} :
        /\ cases' = Reloaded(marked)
        /\ store' = Reloaded(marked)
        /\ queue' = RestoredQueue(Reloaded(marked))
  BY DEF Restart
<1>2. RequestsArePending'
  BY DEF Restart, RequestsArePending
<1>3. ASSUME NEW d \in Cases PROVE CaseInv(d)'
  <2>1. ~Busy(d)'
    BY CasesAssumption DEF Restart, Busy, Idle
  <2>2. /\ handler'[d] = IF handler[d] = "idle" THEN "idle" ELSE "done"
        /\ alert'[d] = alert[d] /\ runs'[d] = runs[d]
    BY DEF Restart
  <2>3. /\ cases'[d] = store'[d]
        /\ \/ store'[d] = store[d]
           \/ store[d] = Pending /\ store'[d] = Emailed
        /\ queue'[d] = IF store'[d].status = "pending_approval" THEN store'[d]
                       ELSE Blank
    BY <1>1 DEF Reloaded, RestoredQueue
  <2>4. /\ Pending.status = "pending_approval" /\ Emailed.status = "pending_approval"
        /\ Blank.status = "none" /\ Pending # Blank /\ Emailed # Blank
    BY DEF Pending, Fresh, Emailed, Blank
  <2>5. CASE handler[d] = "idle"
    BY <2>1, <2>2, <2>3, <2>4, <2>5
    DEF CaseInv, IdleIsFresh, DraftIsPending, HeldFromHold, Held, Queued,
        RunsFromEligible, RunsAreCounted, Reachable, Outcomes
  <2>6. CASE handler[d] # "idle"
    <3>1. store'[d].status = "pending_approval" <=> store[d].status = "pending_approval"
      BY <2>3, <2>4
    <3>2. store'[d].status \in Outcomes => store[d].status \in Outcomes
      BY <2>3, <2>4 DEF Outcomes
    <3>3. Queued(d)' <=> store[d].status = "pending_approval"
      BY <2>3, <2>4, <3>1 DEF Queued
    <3> QED
      BY <2>1, <2>2, <2>3, <2>4, <2>6, <3>1, <3>2, <3>3
      DEF CaseInv, IdleIsFresh, DraftIsPending, HeldFromHold, Held, Queued,
          RunsFromEligible, RunsAreCounted, Reachable
  <2> QED
    BY <2>5, <2>6
<1> QED
  BY <1>2, <1>3

LEMMA StepInv == IInv /\ [Next]_vars => IInv'
<1> SUFFICES ASSUME IInv, [Next]_vars PROVE IInv'
  OBVIOUS
<1>1. TypeOK'
  BY StepTyped DEF IInv
<1>2. RequestsArePending' /\ \A d \in Cases : CaseInv(d)'
  <2>1. ASSUME req' = req PROVE RequestsArePending'
    BY <2>1 DEF IInv, RequestsArePending
  <2>2. ASSUME NEW c \in Cases, NEW body \in Alerts, PostAlert(c, body)
        PROVE  RequestsArePending' /\ \A d \in Cases : CaseInv(d)'
    BY <2>1, <2>2, BodyTypes, IntakeInv DEF PostAlert, Intake
  <2>3. ASSUME NEW c \in Cases, NEW item \in GrafanaItems, Webhook(c, item)
        PROVE  RequestsArePending' /\ \A d \in Cases : CaseInv(d)'
    <3>1. Intake(c, GrafanaToAlert(item), "webhook")
      BY <2>3 DEF Webhook
    <3>2. GrafanaToAlert(item) \in Bodies
      BY BodyTypes
    <3>3. req' = req
      BY <3>1 DEF Intake
    <3> QED
      BY <2>1, <3>1, <3>2, <3>3, IntakeInv
  <2>4. ASSUME NEW c \in Cases,
               \/ FinishAutoRun(c) \/ QueueCase(c) \/ Enrich(c)
               \/ EmailReturned(c) \/ EmailFailed(c)
        PROVE  RequestsArePending' /\ \A d \in Cases : CaseInv(d)'
    BY <2>1, <2>4, HandlerInv
    DEF FinishAutoRun, QueueCase, Enrich, EmailReturned, EmailFailed
  <2>5. ASSUME NEW c \in Cases, Deny(c) \/ ChooseMonitorOnly(c) \/ Rollback(c)
        PROVE  RequestsArePending' /\ \A d \in Cases : CaseInv(d)'
    BY <2>1, <2>5, DecisionInv DEF Deny, ChooseMonitorOnly, Rollback
  <2>6. ASSUME NEW r \in Requests, NEW c \in Cases, Approve(r, c) \/ Choose(r, c)
        PROVE  RequestsArePending' /\ \A d \in Cases : CaseInv(d)'
    BY <2>6, RequestInv
  <2>7. ASSUME NEW r \in Requests, FinishRun(r)
        PROVE  RequestsArePending' /\ \A d \in Cases : CaseInv(d)'
    BY <2>7, FinishRunInv
  <2>8. CASE Restart
    BY <2>8, RestartInv
  <2>9. CASE Tick \/ UNCHANGED vars
    <3>1. UNCHANGED <<alert, handler, cases, store, queue, req, runs>>
      BY <2>9 DEF Tick, vars
    <3>2. \A d \in Cases : Untouched(d)
      BY <3>1 DEF Untouched, Busy
    <3> QED
      BY <2>1, <3>1, <3>2, Frame DEF IInv
  <2> QED
    BY <2>2, <2>3, <2>4, <2>5, <2>6, <2>7, <2>8, <2>9 DEF Next
<1> QED
  BY <1>1, <1>2 DEF IInv

LEMMA Invariance == Spec => []IInv
BY InitInv, StepInv, PTL DEF Spec

(* Whatever the interleaving of intake, decisions and restarts, a pending  *)
(* case is queued, about to be queued, or being acted upon.                *)
THEOREM PendingStaysDecidable == Spec => []PendingIsDecidable
<1>1. IInv => PendingIsDecidable
  BY DEF IInv, CaseInv, Reachable, PendingIsDecidable
<1> QED
  BY <1>1, Invariance, PTL

(* No playbook is ever run for an alert the intake turned away.            *)
THEOREM OnlyEligibleCasesRun == Spec => []OnlyEligibleRun
<1>1. IInv => OnlyEligibleRun
  BY DEF IInv, CaseInv, RunsFromEligible, OnlyEligibleRun
<1> QED
  BY <1>1, Invariance, PTL

(* Outside a dry run, what is recorded as executed or rolled back was run. *)
THEOREM OutcomesAreReal ==
  ASSUME ~DryRun PROVE Spec => []OutcomeHasRun
<1>1. IInv => OutcomeHasRun
  BY DEF IInv, CaseInv, RunsAreCounted, OutcomeHasRun, Outcomes
<1> QED
  BY <1>1, Invariance, PTL
=============================================================================
