------------------------------ MODULE SoarCases ------------------------------
(***************************************************************************)
(* The life of a SOAR case: intake by POST /alerts and by the Grafana      *)
(* webhook, the human-in-the-loop (HITL) queue, the administrator's        *)
(* endpoints, rollback, the append-only case store and restarts.           *)
(*                                                                         *)
(* soar-engine is one asyncio process.  A handler runs without             *)
(* interruption up to its next "await"; between two awaits any other       *)
(* handler may run.  Each action below is one such segment.  The awaits    *)
(* that matter are the push of a case to Loki inside record_case, the      *)
(* query of Loki for evidence, the SMTP thread and the playbook run.       *)
(*                                                                         *)
(* What a playbook does to the cluster is the subject of SoarPlaybooks;    *)
(* here a run is counted.                                                  *)
(***************************************************************************)
EXTENDS SoarDecision, FiniteSets

CONSTANTS
  Cases,          \* case identifiers, drawn by _case_id
  Alerts,         \* bodies POSTed to /alerts
  GrafanaItems,   \* alerts of webhook payloads
  Requests,       \* slots for administrator requests that run a playbook
  NoCase, NoAlert,
  DryRun,         \* SOAR_DRY_RUN
  SmtpSettings,   \* may a process have ADMIN_EMAIL, SMTP_USER and SMTP_PASS all set
  AdminOps,       \* endpoints the administrator uses
  AdminWaits,     \* TRUE: he acts on a case only once its intake handler ended
  DedupWindow,    \* _WEBHOOK_DEDUP_S, in ticks of the clock
  MaxTime,        \* bound: ticks of the clock
  MaxRestarts     \* bound: restarts of the process

Bodies == Alerts \cup {GrafanaToAlert(item) : item \in GrafanaItems}

AttackOf(body) == FirstKnownAttack(body)
RankOf(body)   == SeverityRank[body.severity]
AttackTypes    == {AttackOf(body) : body \in Bodies}

ASSUME CasesAssumption ==
  /\ NoCase \notin Cases
  /\ NoAlert \notin Bodies
  /\ \A body \in Bodies : RankOf(body) \in 1..4
  /\ DryRun \in BOOLEAN /\ AdminWaits \in BOOLEAN
  /\ SmtpSettings \subseteq BOOLEAN /\ SmtpSettings # {}
  /\ AdminOps \subseteq {"approve", "deny", "choose"}
  /\ DedupWindow \in Nat \ {0} /\ MaxTime \in Nat /\ MaxRestarts \in Nat

VARIABLES
  clock,      \* time.time(), in ticks
  boots,      \* restarts so far
  smtp,       \* this process has an SMTP account
  alert,      \* alert[c]: the body case c was created from
  born,       \* born[c]: route, time and process lifetime of its creation
  handler,    \* handler[c]: where the intake handler of case c is
  cases,      \* CASES, with Blank for a missing key
  store,      \* the last line of cases.jsonl about each case
  queue,      \* _HITL_QUEUE: the queued draft, with Blank for a missing key
  req,        \* administrator requests awaiting _run_steps
  recent,     \* _webhook_recent, rank 0 for a missing key
  runs,       \* runs[c]: times a playbook was run for real for case c
  mailed,     \* cases an approval e-mail really left for
  unsent      \* cases whose e-mail _smtp_send skipped for want of an account

vars == <<clock, boots, smtp, alert, born, handler, cases, store, queue, req,
          recent, runs, mailed, unsent>>

-----------------------------------------------------------------------------
(* CaseRecord, reduced to the fields that steer control flow.              *)
(* _run_steps catches every exception of its phases, so the handlers never *)
(* store "failed".                                                         *)
Statuses == {"none", "pending_approval", "skipped", "dry_run", "executed",
             "rolled_back", "rollback_failed"}
CaseRecord == [status : Statuses, emailed : BOOLEAN]
Blank      == [status |-> "none", emailed |-> FALSE]
Fresh(status) == [status |-> status, emailed |-> FALSE]
Pending    == Fresh("pending_approval")
Emailed    == [status |-> "pending_approval", emailed |-> TRUE]

\* Mutation: a status the model class does not know.
FinalStatus_m == "completed"
FinalStatus == IF DryRun THEN "dry_run" ELSE "executed"

HandlerStates == {"idle", "running", "recorded", "evidence", "emailing", "done"}
Idle      == [case |-> NoCase, draft |-> Blank]
NotBorn   == [via |-> None, at |-> 0, boot |-> 0]
NoRecent  == [rank |-> 0, at |-> 0]

TypeOK ==
  /\ clock \in 0..MaxTime
  /\ boots \in 0..MaxRestarts
  /\ smtp \in SmtpSettings
  /\ alert \in [Cases -> Bodies \cup {NoAlert}]
  /\ born \in [Cases -> [via : {None, "alerts", "webhook"}, at : 0..MaxTime,
                         boot : 0..MaxRestarts]]
  /\ handler \in [Cases -> HandlerStates]
  /\ cases \in [Cases -> CaseRecord]
  /\ store \in [Cases -> CaseRecord]
  /\ queue \in [Cases -> CaseRecord]
  /\ req \in [Requests -> [case : Cases \cup {NoCase}, draft : CaseRecord]]
  /\ recent \in [AttackTypes -> [rank : 0..4, at : 0..MaxTime]]
  /\ runs \in [Cases -> Nat]
  /\ mailed \subseteq Cases /\ unsent \subseteq Cases

Init ==
  /\ clock = 0
  /\ boots = 0
  /\ smtp \in SmtpSettings
  /\ alert = [c \in Cases |-> NoAlert]
  /\ born = [c \in Cases |-> NotBorn]
  /\ handler = [c \in Cases |-> "idle"]
  /\ cases = [c \in Cases |-> Blank]
  /\ store = [c \in Cases |-> Blank]
  /\ queue = [c \in Cases |-> Blank]
  /\ req = [r \in Requests |-> Idle]
  /\ recent = [a \in AttackTypes |-> NoRecent]
  /\ runs = [c \in Cases |-> 0]
  /\ mailed = {} /\ unsent = {}

-----------------------------------------------------------------------------
(* record_case up to its await: CASES and the store change together.       *)
Record(c, record) ==
  /\ cases' = [cases EXCEPT ![c] = record]
  /\ store' = [store EXCEPT ![c] = record]

(* A call of _run_steps; a dry run touches nothing.                        *)
CountRun(c) == runs' = [runs EXCEPT ![c] = IF DryRun THEN @ ELSE @ + 1]

Queued(c)  == queue[c] # Blank
Dequeue(c) == queue' = [queue EXCEPT ![c] = Blank]

(* The intake shared by both endpoints: skip, hold for approval, or run.   *)
Intake(c, body, via) ==
  /\ handler[c] = "idle"
  /\ alert' = [alert EXCEPT ![c] = body]
  /\ born' = [born EXCEPT ![c] = [via |-> via, at |-> clock, boot |-> boots]]
  /\ \/ /\ Disposition(body) = "skip"
        /\ Record(c, Fresh("skipped"))
        /\ handler' = [handler EXCEPT ![c] = "done"]
        /\ UNCHANGED runs
     \/ /\ Disposition(body) = "hold"
        /\ Record(c, Pending)
        /\ handler' = [handler EXCEPT ![c] = "recorded"]
        /\ UNCHANGED runs
     \/ /\ Disposition(body) = "run"
        /\ CountRun(c)
        /\ handler' = [handler EXCEPT ![c] = "running"]
        /\ UNCHANGED <<cases, store>>
  /\ UNCHANGED <<clock, boots, smtp, queue, req, mailed, unsent>>

(* POST /alerts: no deduplication, and the registry is not touched.        *)
PostAlert(c, body) ==
  /\ Intake(c, body, "alerts")
  /\ UNCHANGED recent

(* One alert of POST /grafana-webhook.                                     *)
\* Mutation: an alert of equal severity passes.
Deduplicated_m(body) ==
  LET last == recent[AttackOf(body)]
  IN  clock - last.at < DedupWindow /\ RankOf(body) < last.rank

Deduplicated(body) ==
  LET last == recent[AttackOf(body)]
  IN  clock - last.at < DedupWindow /\ RankOf(body) <= last.rank

Webhook(c, item) ==
  LET body == GrafanaToAlert(item)
  IN  /\ GrafanaAccepts(item)
      /\ ~Deduplicated(body)
      /\ recent' = [recent EXCEPT ![AttackOf(body)] =
                      [rank |-> RankOf(body), at |-> clock]]
      /\ Intake(c, body, "webhook")

(* An automatic run ends: only now does the case come into being.          *)
FinishAutoRun(c) ==
  /\ handler[c] = "running"
  /\ Record(c, Fresh(FinalStatus))
  /\ handler' = [handler EXCEPT ![c] = "done"]
  /\ UNCHANGED <<clock, boots, smtp, alert, born, queue, req, recent, runs,
                 mailed, unsent>>

(* The await inside record_case returned: the draft enters the queue.      *)
QueueCase(c) ==
  /\ handler[c] = "recorded"
  /\ queue' = [queue EXCEPT ![c] = Pending]
  /\ handler' = [handler EXCEPT ![c] = "evidence"]
  /\ UNCHANGED <<clock, boots, smtp, alert, born, cases, store, req, recent,
                 runs, mailed, unsent>>

(* Evidence came back.  When it names a source_ip the alert lacked, the    *)
(* handler writes its own pending copy everywhere.                         *)
Enrich(c) ==
  /\ handler[c] = "evidence"
  /\ handler' = [handler EXCEPT ![c] = "emailing"]
  /\ \/ /\ Record(c, Pending)
        /\ queue' = [queue EXCEPT ![c] = Pending]
     \/ UNCHANGED <<cases, store, queue>>
  /\ UNCHANGED <<clock, boots, smtp, alert, born, req, recent, runs, mailed,
                 unsent>>

(* The SMTP thread is done.  Without an SMTP account _smtp_send returns    *)
(* without sending and _send_hitl_email reports success all the same.      *)
EmailReturned(c) ==
  /\ handler[c] = "emailing"
  /\ handler' = [handler EXCEPT ![c] = "done"]
  /\ Record(c, Emailed)
  /\ queue' = [queue EXCEPT ![c] = Emailed]
  /\ IF smtp THEN mailed' = mailed \cup {c} /\ UNCHANGED unsent
             ELSE unsent' = unsent \cup {c} /\ UNCHANGED mailed
  /\ UNCHANGED <<clock, boots, smtp, alert, born, req, recent, runs>>

\* Mutation: the mark is set whatever became of the e-mail.
EmailFailed_m(c) ==
  /\ smtp
  /\ handler[c] = "emailing"
  /\ handler' = [handler EXCEPT ![c] = "done"]
  /\ Record(c, Emailed)
  /\ queue' = [queue EXCEPT ![c] = Emailed]
  /\ UNCHANGED <<clock, boots, smtp, alert, born, req, recent, runs, mailed,
                 unsent>>

EmailFailed(c) ==
  /\ smtp
  /\ handler[c] = "emailing"
  /\ handler' = [handler EXCEPT ![c] = "done"]
  /\ UNCHANGED <<clock, boots, smtp, alert, born, cases, store, queue, req,
                 recent, runs, mailed, unsent>>

-----------------------------------------------------------------------------
(* The administrator.  The e-mail links and the portal's buttons reach the *)
(* same code; /choose-action and /execute-playbook share                   *)
(* _execute_chosen_playbook.                                               *)
MayAct(c, op) ==
  /\ op \in AdminOps
  /\ AdminWaits => handler[c] = "done"

\* Mutation: the queue is read, not popped.
Approve_m(r, c) ==
  /\ MayAct(c, "approve")
  /\ req[r] = Idle
  /\ Queued(c)
  /\ CountRun(c)
  /\ req' = [req EXCEPT ![r] = [case |-> c, draft |-> queue[c]]]
  /\ UNCHANGED <<clock, boots, smtp, alert, born, handler, cases, store, queue,
                 recent, mailed, unsent>>

Approve(r, c) ==
  /\ MayAct(c, "approve")
  /\ req[r] = Idle
  /\ Queued(c)
  /\ Dequeue(c)
  /\ CountRun(c)
  /\ req' = [req EXCEPT ![r] = [case |-> c, draft |-> queue[c]]]
  /\ UNCHANGED <<clock, boots, smtp, alert, born, handler, cases, store, recent,
                 mailed, unsent>>

\* Mutation: a denied case stays queued.
DenyLeavesQueue_m(c) ==
  /\ MayAct(c, "deny")
  /\ Queued(c)
  /\ Record(c, [queue[c] EXCEPT !.status = "skipped"])
  /\ UNCHANGED <<clock, boots, smtp, alert, born, handler, queue, req, recent,
                 runs, mailed, unsent>>

\* Mutation: a denial is not persisted.
DenyInMemory_m(c) ==
  /\ MayAct(c, "deny")
  /\ Queued(c)
  /\ Dequeue(c)
  /\ cases' = [cases EXCEPT ![c] = [queue[c] EXCEPT !.status = "skipped"]]
  /\ UNCHANGED <<clock, boots, smtp, alert, born, handler, store, req, recent,
                 runs, mailed, unsent>>

Deny(c) ==
  /\ MayAct(c, "deny")
  /\ Queued(c)
  /\ Dequeue(c)
  /\ Record(c, [queue[c] EXCEPT !.status = "skipped"])
  /\ UNCHANGED <<clock, boots, smtp, alert, born, handler, req, recent, runs,
                 mailed, unsent>>

(* The check is on CASES; the queue is popped and its answer ignored.      *)
\* Mutation: any known case may be chosen for, not only a pending one.
Choose_m(r, c) ==
  /\ MayAct(c, "choose")
  /\ req[r] = Idle
  /\ cases[c] # Blank
  /\ Dequeue(c)
  /\ CountRun(c)
  /\ req' = [req EXCEPT ![r] = [case |-> c, draft |-> cases[c]]]
  /\ UNCHANGED <<clock, boots, smtp, alert, born, handler, cases, store, recent,
                 mailed, unsent>>

Choose(r, c) ==
  /\ MayAct(c, "choose")
  /\ req[r] = Idle
  /\ cases[c].status = "pending_approval"
  /\ Dequeue(c)
  /\ CountRun(c)
  /\ req' = [req EXCEPT ![r] = [case |-> c, draft |-> cases[c]]]
  /\ UNCHANGED <<clock, boots, smtp, alert, born, handler, cases, store, recent,
                 mailed, unsent>>

ChooseMonitorOnly(c) ==
  /\ MayAct(c, "choose")
  /\ cases[c].status = "pending_approval"
  /\ Dequeue(c)
  /\ Record(c, [cases[c] EXCEPT !.status = "skipped"])
  /\ UNCHANGED <<clock, boots, smtp, alert, born, handler, req, recent, runs,
                 mailed, unsent>>

(* _run_steps returned to the request that awaited it.                     *)
FinishRun(r) ==
  /\ req[r] # Idle
  /\ Record(req[r].case, [req[r].draft EXCEPT !.status = FinalStatus])
  /\ req' = [req EXCEPT ![r] = Idle]
  /\ UNCHANGED <<clock, boots, smtp, alert, born, handler, queue, recent, runs,
                 mailed, unsent>>

\* Mutation: a rejected case may be rolled back.
Rollback_m(c) ==
  /\ cases[c].status \in {"executed", "dry_run", "rollback_failed", "skipped"}
  /\ \E outcome \in IF DryRun THEN {"rolled_back"}
                    ELSE {"rolled_back", "rollback_failed"} :
       Record(c, [cases[c] EXCEPT !.status = outcome])
  /\ UNCHANGED <<clock, boots, smtp, alert, born, handler, queue, req, recent,
                 runs, mailed, unsent>>

Rollback(c) ==
  /\ cases[c].status \in {"executed", "dry_run", "rollback_failed"}
  /\ \E outcome \in IF DryRun THEN {"rolled_back"}
                    ELSE {"rolled_back", "rollback_failed"} :
       Record(c, [cases[c] EXCEPT !.status = outcome])
  /\ UNCHANGED <<clock, boots, smtp, alert, born, handler, queue, req, recent,
                 runs, mailed, unsent>>

-----------------------------------------------------------------------------
(* The process dies and starts again, perhaps with other SMTP settings:    *)
(* memory is lost, load_cases reads the store, every pending case is       *)
(* queued, and some of those without the e-mail mark get their e-mail      *)
(* again.  Requests are served only after startup has ended.               *)
Reloaded(marked) == [c \in Cases |-> IF c \in marked THEN Emailed ELSE store[c]]

\* Mutation: only the cases without the e-mail mark are queued again.
RestoredQueue_m(records) ==
  [c \in Cases |-> IF records[c] = Pending THEN records[c] ELSE Blank]

RestoredQueue(records) ==
  [c \in Cases |-> IF records[c].status = "pending_approval" THEN records[c]
                   ELSE Blank]

Restart ==
  /\ boots < MaxRestarts
  /\ boots' = boots + 1
  /\ smtp' \in SmtpSettings
  /\ \E marked \in SUBSET {c \in Cases : store[c] = Pending} :
       /\ cases' = Reloaded(marked)
       /\ store' = Reloaded(marked)
       /\ queue' = RestoredQueue(Reloaded(marked))
       /\ IF smtp' THEN mailed' = mailed \cup marked /\ UNCHANGED unsent
                   ELSE unsent' = unsent \cup marked /\ UNCHANGED mailed
  /\ handler' = [c \in Cases |-> IF handler[c] = "idle" THEN "idle" ELSE "done"]
  /\ req' = [r \in Requests |-> Idle]
  /\ recent' = [a \in AttackTypes |-> NoRecent]
  /\ UNCHANGED <<clock, alert, born, runs>>

Tick ==
  /\ clock < MaxTime
  /\ clock' = clock + 1
  /\ UNCHANGED <<boots, smtp, alert, born, handler, cases, store, queue, req,
                 recent, runs, mailed, unsent>>

Next ==
  \/ \E c \in Cases :
       \/ \E body \in Alerts : PostAlert(c, body)
       \/ \E item \in GrafanaItems : Webhook(c, item)
       \/ FinishAutoRun(c) \/ QueueCase(c) \/ Enrich(c)
       \/ EmailReturned(c) \/ EmailFailed(c)
       \/ Deny(c) \/ ChooseMonitorOnly(c) \/ Rollback(c)
  \/ \E r \in Requests, c \in Cases : Approve(r, c) \/ Choose(r, c)
  \/ \E r \in Requests : FinishRun(r)
  \/ Restart
  \/ Tick

Spec == Init /\ [][Next]_vars

(* The one await between recording a case and queueing it is the push to   *)
(* Loki, an httpx call with timeout=10 whose exceptions record_case        *)
(* catches: that segment always follows.  Nothing is assumed of the other  *)
(* awaits, which have no time limit: the SMTP thread, and in a playbook    *)
(* run the Redis call of redis_block_ip and the calls of the Kubernetes    *)
(* client.                                                                 *)
Fairness == \A c \in Cases : WF_vars(QueueCase(c))

FairSpec == Spec /\ Fairness

-----------------------------------------------------------------------------
Busy(c) == \E r \in Requests : req[r].case = c

(* A pending case nobody is working on can be decided from the e-mail: no  *)
(* interleaving of intake, decisions and restarts leaves a case in         *)
(* pending_approval that /approve and /deny answer with 404.               *)
PendingIsDecidable ==
  \A c \in Cases :
    cases[c].status = "pending_approval" =>
      Queued(c) \/ handler[c] = "recorded" \/ Busy(c)

(* No sequence of requests and restarts runs a playbook for an alert that  *)
(* _should_execute or monitor_only turned away at intake.                  *)
OnlyEligibleRun ==
  \A c \in Cases : runs[c] > 0 => /\ alert[c] # NoAlert
                                  /\ Disposition(alert[c]) # "skip"

(* What /rollback accepts as executed was executed: the status of a case,  *)
(* in memory and in the store, never claims a run that did not take place, *)
(* so a rollback never "restores" what no playbook touched.                *)
OutcomeHasRun ==
  \A c \in Cases :
    {cases[c].status, store[c].status}
      \cap {"executed", "rolled_back", "rollback_failed"} # {} => runs[c] > 0

(* The mark email_sent names its cause.  Startup never e-mails a marked    *)
(* case again, so the mark must not hide a failed attempt: a case with the *)
(* mark, in memory or in the store, was e-mailed, or a process without an  *)
(* SMTP account skipped it, whatever the account of this process is.       *)
MarkNamesItsCause ==
  \A c \in Cases :
    cases[c].emailed \/ store[c].emailed => c \in mailed \cup unsent

(* Two webhook cases of one attack type, created in one process lifetime   *)
(* less than the deduplication window apart, are an escalation: the later  *)
(* one is of higher severity.                                              *)
SameStream(c, d) ==
  /\ c # d
  /\ born[c].via = "webhook" /\ born[d].via = "webhook"
  /\ born[c].boot = born[d].boot
  /\ AttackOf(alert[c]) = AttackOf(alert[d])

DedupEscalates ==
  \A c, d \in Cases :
    SameStream(c, d) /\ born[c].at <= born[d].at
                    /\ born[d].at - born[c].at < DedupWindow =>
      /\ RankOf(alert[c]) # RankOf(alert[d])
      /\ born[c].at < born[d].at => RankOf(alert[c]) < RankOf(alert[d])

(* A playbook is run for a case at most once.                              *)
AtMostOneRun == \A c \in Cases : runs[c] <= 1

(* A case that left pending_approval never goes back to it.                *)
Decided(record) == record.status \notin {"none", "pending_approval"}
DecisionIsFinal ==
  [][\A c \in Cases : Decided(cases[c]) => Decided(cases'[c])]_vars

(* A restart neither loses a decision nor brings a decided case back.      *)
RestartKeepsDecisions ==
  [][boots' # boots => \A c \in Cases : cases'[c].status = cases[c].status]_vars

(* Every held case gets into the administrator's reach, whatever restarts  *)
(* happen on the way: it is queued, or he has already decided it and its   *)
(* playbook is running.  (That run may hang; see Fairness.)                *)
HeldBecomesDecidable ==
  \A c \in Cases :
    cases[c].status = "pending_approval" ~>
      (Queued(c) \/ Busy(c) \/ cases[c].status # "pending_approval")

(* The decision as an abstract gate; see HitlGate.                         *)
GateOf(c) ==
  IF handler[c] = "idle" THEN "absent"
  ELSE IF handler[c] = "running" \/ Busy(c) THEN "acting"
  ELSE IF cases[c].status = "pending_approval" THEN "held"
  ELSE "closed"

GateState == [c \in Cases |-> GateOf(c)]

Gate == INSTANCE HitlGate WITH Items <- Cases, gate <- GateState
GateSpec == Gate!Spec
=============================================================================
