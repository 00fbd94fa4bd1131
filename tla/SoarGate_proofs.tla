-------------------------- MODULE SoarGate_proofs --------------------------
(***************************************************************************)
(* SoarCases implements HitlGate, for any number of cases and requests,    *)
(* when the administrator decides with approve and deny only, and only     *)
(* after the intake of the case has ended, and the process is not          *)
(* restarted.  Each of these conditions is necessary: the runs             *)
(* soar_double_run and soar_reverts show what happens without them.        *)
(***************************************************************************)
EXTENDS SoarCases_proofs

CarefulAdmin == AdminOps \subseteq {"approve", "deny"} /\ AdminWaits /\ MaxRestarts = 0

(* A case that is still to be decided has not been run and is held; a case *)
(* being acted upon has left the queue and occupies one slot.              *)
Undecided(c) == Queued(c) \/ handler[c] \in {"recorded", "evidence", "emailing"}

UndecidedIsHeld(c) ==
  Undecided(c) => /\ runs[c] = 0 /\ ~Busy(c)
                  /\ handler[c] \in {"recorded", "evidence", "emailing", "done"}
                  /\ cases[c].status = "pending_approval"

BusyIsDone(c) == Busy(c) => handler[c] = "done"

RunningIsFirst(c) == handler[c] = "running" => ~Busy(c)

OneSlot(c) == \A r, s \in Requests : req[r].case = c /\ req[s].case = c => r = s

GateInv(c) == /\ runs[c] <= 1 /\ UndecidedIsHeld(c) /\ BusyIsDone(c)
              /\ RunningIsFirst(c) /\ OneSlot(c)

GInv == IInv /\ \A c \in Cases : GateInv(c)

(* What a step does to one case: keeps its invariant, moves its gate.      *)
Moves(c, from, to) == GateInv(c)' /\ GateOf(c) = from /\ GateOf(c)' = to

SameSlots(d) == \A r \in Requests : req'[r].case = d <=> req[r].case = d

LEMMA GateFrame ==
  ASSUME NEW d \in Cases, GateInv(d), Untouched(d), SameSlots(d)
  PROVE  GateInv(d)' /\ GateOf(d)' = GateOf(d)
BY DEF GateInv, Untouched, SameSlots, UndecidedIsHeld, Undecided, Queued, BusyIsDone,
       RunningIsFirst, OneSlot, GateOf

LEMMA GateInit == Init => GInv /\ GateState = [c \in Cases |-> "absent"]
<1> SUFFICES ASSUME Init PROVE GInv /\ GateState = [c \in Cases |-> "absent"]
  OBVIOUS
<1>1. ASSUME NEW c \in Cases PROVE GateInv(c)
  <2>1. ~Busy(c) /\ OneSlot(c)
    BY CasesAssumption DEF Init, Busy, Idle, OneSlot
  <2>2. handler[c] = "idle" /\ queue[c] = Blank /\ runs[c] = 0
    BY DEF Init
  <2> QED
    BY <2>1, <2>2
    DEF GateInv, UndecidedIsHeld, Undecided, Queued, BusyIsDone, RunningIsFirst
<1>2. GateState = [c \in Cases |-> "absent"]
  BY DEF Init, GateState, GateOf
<1> QED
  BY <1>1, <1>2, InitInv DEF GInv

-----------------------------------------------------------------------------
LEMMA GateIntake ==
  ASSUME GInv, NEW c \in Cases, NEW body \in Bodies, NEW via, Intake(c, body, via)
  PROVE  /\ \A d \in Cases \ {c} : Untouched(d) /\ SameSlots(d)
         /\ \/ Moves(c, "absent", "closed")
            \/ Moves(c, "absent", "held")
            \/ Moves(c, "absent", "acting")
<1> USE DEF GInv, IInv
<1>1. /\ handler[c] = "idle" /\ cases[c] = Blank /\ queue[c] = Blank
      /\ runs[c] = 0 /\ ~Busy(c) /\ OneSlot(c) /\ GateOf(c) = "absent"
  <2>1. CaseInv(c) /\ GateInv(c) /\ handler[c] = "idle"
    BY DEF Intake
  <2> QED
    BY <2>1 DEF CaseInv, IdleIsFresh, GateInv, GateOf
<1>2. req' = req /\ queue' = queue /\ ~Busy(c)' /\ OneSlot(c)'
  BY <1>1 DEF Intake, Busy, OneSlot
<1>3. /\ \A d \in Cases \ {c} : SameSlots(d) /\ (Busy(d)' <=> Busy(d))
      /\ \A d \in Cases \ {c} : alert'[d] = alert[d]
  BY <1>2 DEF SameSlots, Busy, Intake, TypeOK
<1>4. Blank.status = "none" /\ Pending.status = "pending_approval"
      /\ Fresh("skipped").status = "skipped" /\ Fresh("skipped") \in CaseRecord
  BY RecordTypes DEF Blank, Pending, Fresh, Statuses
<1>5. CASE Disposition(body) = "skip"
  <2>1. Record(c, Fresh("skipped")) /\ handler' = [handler EXCEPT ![c] = "done"]
        /\ runs' = runs
    BY <1>5 DEF Intake
  <2>2. \A d \in Cases \ {c} : Untouched(d)
    BY <1>2, <1>3, <1>4, <2>1, RecordRead DEF Untouched, TypeOK
  <2>3. Moves(c, "absent", "closed")
    BY <1>1, <1>2, <1>4, <2>1, RecordRead
    DEF TypeOK, Moves, GateInv, UndecidedIsHeld, Undecided, Queued, BusyIsDone,
        RunningIsFirst, GateOf
  <2> QED
    BY <1>3, <2>2, <2>3
<1>6. CASE Disposition(body) = "hold"
  <2>1. Record(c, Pending) /\ handler' = [handler EXCEPT ![c] = "recorded"]
        /\ runs' = runs
    BY <1>6 DEF Intake
  <2>2. \A d \in Cases \ {c} : Untouched(d)
    BY <1>2, <1>3, <2>1, RecordRead, RecordTypes DEF Untouched, TypeOK
  <2>3. Moves(c, "absent", "held")
    BY <1>1, <1>2, <1>4, <2>1, RecordRead, RecordTypes
    DEF TypeOK, Moves, GateInv, UndecidedIsHeld, Undecided, Queued, BusyIsDone,
        RunningIsFirst, GateOf
  <2> QED
    BY <1>3, <2>2, <2>3
<1>7. CASE Disposition(body) = "run"
  <2>1. CountRun(c) /\ handler' = [handler EXCEPT ![c] = "running"]
        /\ cases' = cases /\ store' = store
    BY <1>7 DEF Intake
  <2>2. runs'[c] <= 1 /\ \A d \in Cases \ {c} : runs'[d] = runs[d]
    BY <1>1, <2>1, RunCounted DEF TypeOK
  <2>3. \A d \in Cases \ {c} : Untouched(d)
    BY <1>2, <1>3, <2>1, <2>2 DEF Untouched, TypeOK
  <2>4. Moves(c, "absent", "acting")
    BY <1>1, <1>2, <2>1, <2>2
    DEF TypeOK, Moves, GateInv, UndecidedIsHeld, Undecided, Queued, BusyIsDone,
        RunningIsFirst, GateOf
  <2> QED
    BY <1>3, <2>3, <2>4
<1> QED
  BY <1>5, <1>6, <1>7 DEF Intake

(* The rest of intake completes an automatic run or leaves the gate held.  *)
LEMMA GateHandler ==
  ASSUME GInv, NEW c \in Cases,
         \/ FinishAutoRun(c) \/ QueueCase(c) \/ Enrich(c)
         \/ EmailReturned(c) \/ EmailFailed(c)
  PROVE  /\ \A d \in Cases \ {c} : Untouched(d) /\ SameSlots(d)
         /\ Moves(c, "acting", "closed") \/ Moves(c, "held", "held")
<1> USE DEF GInv, IInv
<1>1. /\ req' = req /\ runs' = runs /\ alert' = alert
      /\ \A d \in Cases : SameSlots(d) /\ (Busy(d)' <=> Busy(d))
      /\ OneSlot(c)'
  BY DEF FinishAutoRun, QueueCase, Enrich, EmailReturned, EmailFailed, Busy,
         SameSlots, GateInv, OneSlot
<1>2. GateInv(c)
  OBVIOUS
<1>3. Pending.status = "pending_approval" /\ Emailed.status = "pending_approval"
  BY DEF Pending, Fresh, Emailed
<1>4. CASE FinishAutoRun(c)
  <2>1. Record(c, Fresh(FinalStatus)) /\ handler' = [handler EXCEPT ![c] = "done"]
        /\ queue' = queue /\ handler[c] = "running"
    BY <1>4 DEF FinishAutoRun
  <2>2. Fresh(FinalStatus) \in CaseRecord
        /\ Fresh(FinalStatus).status \in {"dry_run", "executed"}
    BY RecordTypes DEF Statuses, Fresh
  <2>3. \A d \in Cases \ {c} : Untouched(d)
    BY <1>1, <2>1, <2>2, RecordRead DEF Untouched, TypeOK
  <2>4. cases'[c].status \in {"dry_run", "executed"} /\ handler'[c] = "done"
        /\ queue[c] = Blank /\ ~Busy(c)
    BY <1>2, <2>1, <2>2, RecordRead
    DEF TypeOK, GateInv, UndecidedIsHeld, Undecided, Queued, RunningIsFirst
  <2>5. Moves(c, "acting", "closed")
    BY <1>1, <1>2, <2>1, <2>4
    DEF Moves, GateInv, UndecidedIsHeld, Undecided, Queued, BusyIsDone,
        RunningIsFirst, GateOf
  <2> QED
    BY <1>1, <2>3, <2>5
<1>5. ASSUME handler[c] \in {"recorded", "evidence", "emailing"},
             handler'[c] \in {"evidence", "emailing", "done"},
             cases'[c] = cases[c] \/ cases'[c].status = "pending_approval"
      PROVE  Moves(c, "held", "held")
  BY <1>1, <1>2, <1>5
  DEF Moves, GateInv, UndecidedIsHeld, Undecided, Queued, BusyIsDone,
      RunningIsFirst, GateOf
<1>6. CASE QueueCase(c)
  <2>1. \A d \in Cases \ {c} : Untouched(d)
    BY <1>1, <1>6 DEF QueueCase, Untouched, TypeOK
  <2> QED
    BY <1>1, <1>5, <1>6, <2>1 DEF QueueCase, TypeOK
<1>7. CASE Enrich(c)
  <2>1. handler[c] = "evidence" /\ handler' = [handler EXCEPT ![c] = "emailing"]
    BY <1>7 DEF Enrich
  <2>2. CASE Record(c, Pending) /\ queue' = [queue EXCEPT ![c] = Pending]
    <3>1. \A d \in Cases \ {c} : Untouched(d)
      BY <1>1, <2>1, <2>2, RecordTypes, RecordRead DEF Untouched, TypeOK
    <3> QED
      BY <1>1, <1>3, <1>5, <2>1, <2>2, <3>1, RecordTypes, RecordRead DEF TypeOK
  <2>3. CASE UNCHANGED <<cases, store, queue>>
    <3>1. \A d \in Cases \ {c} : Untouched(d)
      BY <1>1, <2>1, <2>3 DEF Untouched, TypeOK
    <3> QED
      BY <1>1, <1>5, <2>1, <2>3, <3>1 DEF TypeOK
  <2> QED
    BY <1>7, <2>2, <2>3 DEF Enrich
<1>8. CASE EmailReturned(c)
  <2>1. /\ handler[c] = "emailing" /\ handler' = [handler EXCEPT ![c] = "done"]
        /\ Record(c, Emailed) /\ queue' = [queue EXCEPT ![c] = Emailed]
    BY <1>8 DEF EmailReturned
  <2>2. \A d \in Cases \ {c} : Untouched(d)
    BY <1>1, <2>1, RecordTypes, RecordRead DEF Untouched, TypeOK
  <2> QED
    BY <1>1, <1>3, <1>5, <2>1, <2>2, RecordTypes, RecordRead DEF TypeOK
<1>9. CASE EmailFailed(c)
  <2>1. /\ handler[c] = "emailing" /\ handler' = [handler EXCEPT ![c] = "done"]
        /\ UNCHANGED <<cases, store, queue>>
    BY <1>9 DEF EmailFailed
  <2>2. \A d \in Cases \ {c} : Untouched(d)
    BY <1>1, <2>1 DEF Untouched, TypeOK
  <2> QED
    BY <1>1, <1>5, <2>1, <2>2 DEF TypeOK
<1> QED
  BY <1>4, <1>6, <1>7, <1>8, <1>9

(* A denial closes the gate; a rollback leaves it where it is.             *)
LEMMA GateDecision ==
  ASSUME CarefulAdmin, GInv, NEW c \in Cases, Deny(c) \/ Rollback(c)
  PROVE  /\ \A d \in Cases \ {c} : Untouched(d) /\ SameSlots(d)
         /\ Moves(c, "held", "closed") \/ (GateInv(c)' /\ GateOf(c)' = GateOf(c))
<1> USE DEF GInv, IInv
<1>1. /\ req' = req /\ runs' = runs /\ alert' = alert /\ handler' = handler
      /\ \A d \in Cases : SameSlots(d) /\ (Busy(d)' <=> Busy(d))
      /\ OneSlot(c)'
  BY DEF Deny, Rollback, Busy, SameSlots, GateInv, OneSlot
<1>2. GateInv(c) /\ CaseInv(c)
  OBVIOUS
<1>3. CASE Deny(c)
  <2>1. PICK record \in CaseRecord : record.status = "skipped" /\ Record(c, record)
    <3>1. queue[c] \in CaseRecord
      BY DEF TypeOK
    <3> QED
      BY <1>3, <3>1, RecordTypes DEF Deny, Statuses
  <2>2. queue'[c] = Blank /\ \A d \in Cases \ {c} : queue'[d] = queue[d]
    BY <1>3 DEF Deny, Dequeue, TypeOK
  <2>3. Queued(c) /\ handler[c] = "done"
    BY <1>3 DEF Deny, MayAct, CarefulAdmin
  <2>4. \A d \in Cases \ {c} : Untouched(d)
    BY <1>1, <2>1, <2>2, RecordRead DEF Untouched
  <2>5. Moves(c, "held", "closed")
    BY <1>1, <1>2, <2>1, <2>2, <2>3, RecordRead
    DEF Moves, GateInv, UndecidedIsHeld, Undecided, Queued, BusyIsDone,
        RunningIsFirst, GateOf
  <2> QED
    BY <1>1, <2>4, <2>5
<1>4. CASE Rollback(c)
  <2>1. PICK outcome \in {"rolled_back", "rollback_failed"} :
          Record(c, [cases[c] EXCEPT !.status = outcome])
    BY <1>4 DEF Rollback
  <2>2. PICK record \in CaseRecord : record.status = outcome /\ Record(c, record)
    <3>1. cases[c] \in CaseRecord
      BY DEF TypeOK
    <3>2. outcome \in Statuses
      BY DEF Statuses
    <3> QED
      BY <2>1, <3>1, <3>2, RecordTypes
  <2>3. queue' = queue /\ cases[c].status \in {"executed", "dry_run", "rollback_failed"}
    BY <1>4 DEF Rollback
  <2>4. \A d \in Cases \ {c} : Untouched(d)
    BY <1>1, <2>2, <2>3, RecordRead DEF Untouched
  <2>5. GateInv(c)' /\ GateOf(c)' = GateOf(c)
    BY <1>1, <1>2, <2>2, <2>3, RecordRead
    DEF GateInv, UndecidedIsHeld, Undecided, Queued, BusyIsDone, RunningIsFirst, GateOf
  <2> QED
    BY <1>1, <2>4, <2>5
<1> QED
  BY <1>3, <1>4

(* An approval takes the held case out of the queue and into a slot.       *)
LEMMA GateApprove ==
  ASSUME CarefulAdmin, GInv, NEW r \in Requests, NEW c \in Cases, Approve(r, c)
  PROVE  /\ \A d \in Cases \ {c} : Untouched(d) /\ SameSlots(d)
         /\ Moves(c, "held", "acting")
<1> USE DEF GInv, IInv
<1>1. /\ req[r] = Idle /\ req' = [req EXCEPT ![r] = [case |-> c, draft |-> queue[c]]]
      /\ CountRun(c) /\ Dequeue(c) /\ Queued(c) /\ handler[c] = "done"
      /\ UNCHANGED <<alert, handler, cases, store>>
  BY DEF Approve, MayAct, CarefulAdmin
<1>2. GateInv(c) /\ queue[c] \in CaseRecord
  BY DEF TypeOK
<1>3. runs[c] = 0 /\ ~Busy(c) /\ cases[c].status = "pending_approval"
  BY <1>1, <1>2 DEF GateInv, UndecidedIsHeld, Undecided
<1>4. Busy(c)' /\ \A d \in Cases \ {c} : Busy(d)' <=> Busy(d)
  BY <1>1, <1>2, SlotTaken
<1>5. OneSlot(c)' /\ \A d \in Cases \ {c} : SameSlots(d)
  BY <1>1, <1>3, CasesAssumption DEF TypeOK, OneSlot, SameSlots, Busy, Idle
<1>6. queue'[c] = Blank /\ \A d \in Cases \ {c} : queue'[d] = queue[d]
  BY <1>1 DEF Dequeue, TypeOK
<1>7. runs'[c] <= 1 /\ \A d \in Cases \ {c} : runs'[d] = runs[d]
  BY <1>1, <1>3, RunCounted DEF TypeOK
<1>8. \A d \in Cases \ {c} : Untouched(d)
  BY <1>1, <1>4, <1>6, <1>7 DEF Untouched
<1>9. Moves(c, "held", "acting")
  BY <1>1, <1>3, <1>4, <1>5, <1>6, <1>7
  DEF Moves, GateInv, UndecidedIsHeld, Undecided, Queued, BusyIsDone,
      RunningIsFirst, GateOf
<1> QED
  BY <1>5, <1>8, <1>9

(* The end of a run frees the only slot its case occupies.                 *)
LEMMA GateFinishRun ==
  ASSUME GInv, NEW r \in Requests, NEW c \in Cases, FinishRun(r), c = req[r].case
  PROVE  /\ \A d \in Cases \ {c} : Untouched(d) /\ SameSlots(d)
         /\ Moves(c, "acting", "closed")
<1> USE DEF GInv, IInv
<1>1. /\ Busy(c) /\ req' = [req EXCEPT ![r] = Idle]
      /\ UNCHANGED <<alert, handler, queue, runs>>
  BY DEF FinishRun, Busy
<1>2. PICK record \in CaseRecord :
        record.status \in {"dry_run", "executed"} /\ Record(c, record)
  <2>1. req[r].draft \in CaseRecord /\ FinalStatus \in Statuses
    BY RecordTypes DEF TypeOK, Statuses
  <2> QED
    BY <2>1, RecordTypes DEF FinishRun
<1>3. GateInv(c)
  OBVIOUS
<1>4. handler[c] = "done" /\ ~Undecided(c)
  BY <1>1, <1>3 DEF GateInv, BusyIsDone, UndecidedIsHeld
<1>5. ~Busy(c)' /\ OneSlot(c)'
  BY <1>1, <1>3, CasesAssumption DEF GateInv, OneSlot, Busy, Idle, TypeOK
<1>6. \A d \in Cases \ {c} : SameSlots(d) /\ (Busy(d)' <=> Busy(d))
  BY <1>1, CasesAssumption DEF SameSlots, Busy, Idle, TypeOK
<1>7. \A d \in Cases \ {c} : Untouched(d)
  BY <1>1, <1>2, <1>6, RecordRead DEF Untouched
<1>8. Moves(c, "acting", "closed")
  BY <1>1, <1>2, <1>3, <1>4, <1>5, RecordRead
  DEF Moves, GateInv, UndecidedIsHeld, Undecided, Queued, BusyIsDone,
      RunningIsFirst, GateOf
<1> QED
  BY <1>6, <1>7, <1>8

-----------------------------------------------------------------------------
(* One case moves, the others stay: a step of the abstract gate.           *)
LEMMA OneMoves ==
  ASSUME GInv, NEW c \in Cases, NEW from, NEW to, Moves(c, from, to),
         \A d \in Cases \ {c} : Untouched(d) /\ SameSlots(d)
  PROVE  /\ \A d \in Cases : GateInv(d)'
         /\ Gate!Move(c, from, to)
         /\ from = to => GateState' = GateState
<1>1. \A d \in Cases \ {c} : GateInv(d)' /\ GateOf(d)' = GateOf(d)
  BY GateFrame DEF GInv
<1>2. \A d \in Cases : GateState[d] = GateOf(d) /\ GateState'[d] = GateOf(d)'
  BY DEF GateState
<1>3. GateState' = [d \in Cases |-> GateState'[d]] /\ GateState = [d \in Cases |-> GateState[d]]
  BY DEF GateState
<1> QED
  BY <1>1, <1>2, <1>3 DEF Moves, Gate!Move

LEMMA GateStep ==
  ASSUME CarefulAdmin, GInv, [Next]_vars
  PROVE  GInv' /\ [Gate!Next]_GateState
<1> USE DEF Gate!Next
<1>1. IInv'
  BY StepInv DEF GInv
<1>2. ASSUME NEW c \in Cases,
             \/ \E body \in Alerts : PostAlert(c, body)
             \/ \E item \in GrafanaItems : Webhook(c, item)
      PROVE  GInv' /\ [Gate!Next]_GateState
  <2>1. PICK body \in Bodies, via \in {"alerts", "webhook"} : Intake(c, body, via)
    BY <1>2, BodyTypes DEF PostAlert, Webhook
  <2> QED
    BY <1>1, <2>1, GateIntake, OneMoves
    DEF GInv, Gate!Dismiss, Gate!Hold, Gate!ActAtOnce
<1>3. ASSUME NEW c \in Cases,
             \/ FinishAutoRun(c) \/ QueueCase(c) \/ Enrich(c)
             \/ EmailReturned(c) \/ EmailFailed(c)
      PROVE  GInv' /\ [Gate!Next]_GateState
  BY <1>1, <1>3, GateHandler, OneMoves DEF GInv, Gate!Complete
<1>4. ASSUME NEW c \in Cases, Deny(c) \/ Rollback(c)
      PROVE  GInv' /\ [Gate!Next]_GateState
  <2>1. Moves(c, "held", "closed") \/ Moves(c, GateOf(c), GateOf(c))
    BY <1>4, GateDecision DEF Moves
  <2> QED
    BY <1>1, <1>4, <2>1, GateDecision, OneMoves DEF GInv, Gate!Reject
<1>5. ASSUME NEW r \in Requests, NEW c \in Cases, Approve(r, c)
      PROVE  GInv' /\ [Gate!Next]_GateState
  BY <1>1, <1>5, GateApprove, OneMoves DEF GInv, Gate!Approve
<1>6. ASSUME NEW r \in Requests, FinishRun(r)
      PROVE  GInv' /\ [Gate!Next]_GateState
  <2>1. PICK c \in Cases : c = req[r].case
    BY <1>6 DEF GInv, IInv, RequestsArePending, FinishRun
  <2> QED
    BY <1>1, <1>6, <2>1, GateFinishRun, OneMoves DEF GInv, Gate!Complete
<1>7. ASSUME NEW c \in Cases, ChooseMonitorOnly(c) \/ \E r \in Requests : Choose(r, c)
      PROVE  FALSE
  BY <1>7 DEF ChooseMonitorOnly, Choose, MayAct, CarefulAdmin
<1>8. ~Restart
  BY DEF Restart, CarefulAdmin, GInv, IInv, TypeOK
<1>9. CASE Tick \/ UNCHANGED vars
  <2>1. UNCHANGED <<alert, handler, cases, store, queue, req, runs>>
    BY <1>9 DEF Tick, vars
  <2>2. \A d \in Cases : Untouched(d) /\ SameSlots(d)
    BY <2>1 DEF Untouched, SameSlots, Busy
  <2>3. GateState' = GateState
    BY <2>1 DEF GateState, GateOf, Busy
  <2> QED
    BY <1>1, <2>2, <2>3, GateFrame DEF GInv
<1> QED
  BY <1>2, <1>3, <1>4, <1>5, <1>6, <1>7, <1>8, <1>9 DEF Next

(* A careful administrator never has a playbook run twice for a case.      *)
THEOREM CarefulAdminRunsOnce ==
  ASSUME CarefulAdmin PROVE Spec => []AtMostOneRun
<1>1. GInv => AtMostOneRun
  BY DEF GInv, GateInv, AtMostOneRun
<1>2. Init => GInv
  BY GateInit
<1>3. GInv /\ [Next]_vars => GInv'
  BY GateStep
<1> QED
  BY <1>1, <1>2, <1>3, PTL DEF Spec

(* The life of the cases, seen through GateState, is a behaviour of the    *)
(* abstract gate.                                                          *)
THEOREM CasesImplementGate ==
  ASSUME CarefulAdmin PROVE Spec => GateSpec
<1>1. Init => GInv /\ Gate!Init
  BY GateInit DEF Gate!Init
<1>2. GInv /\ [Next]_vars => GInv' /\ [Gate!Next]_GateState
  BY GateStep
<1> QED
  BY <1>1, <1>2, PTL DEF Spec, GateSpec, Gate!Spec
=============================================================================
