------------------------- MODULE SoarDurable_proofs -------------------------
(***************************************************************************)
(* Proofs about what outlives a step of SoarCases: the store, the e-mail   *)
(* mark and the deduplication registry.                                    *)
(***************************************************************************)
EXTENDS SoarCases_proofs

(* record_case writes memory and store together, so they never differ.     *)
StoreIsMemory == store = cases

LEMMA StoreStep == StoreIsMemory /\ [Next]_vars => StoreIsMemory'
<1> SUFFICES ASSUME StoreIsMemory, [Next]_vars PROVE StoreIsMemory'
  OBVIOUS
<1> USE DEF StoreIsMemory
<1>1. ASSUME NEW c \in Cases, NEW body, NEW via, Intake(c, body, via)
      PROVE  store' = cases'
  BY <1>1 DEF Intake, Record
<1>2. ASSUME NEW c \in Cases,
             \/ \E body \in Alerts : PostAlert(c, body)
             \/ \E item \in GrafanaItems : Webhook(c, item)
      PROVE  store' = cases'
  BY <1>1, <1>2 DEF PostAlert, Webhook
<1>3. ASSUME NEW c \in Cases,
             \/ FinishAutoRun(c) \/ QueueCase(c) \/ Enrich(c)
             \/ EmailReturned(c) \/ EmailFailed(c)
             \/ Deny(c) \/ ChooseMonitorOnly(c) \/ Rollback(c)
      PROVE  store' = cases'
  BY <1>3 DEF FinishAutoRun, QueueCase, Enrich, EmailReturned, EmailFailed, Deny,
              ChooseMonitorOnly, Rollback, Record
<1>4. ASSUME NEW r \in Requests,
             FinishRun(r) \/ \E c \in Cases : Approve(r, c) \/ Choose(r, c)
      PROVE  store' = cases'
  BY <1>4 DEF FinishRun, Approve, Choose, Record
<1>5. CASE Restart \/ Tick \/ UNCHANGED vars
  BY <1>5 DEF Restart, Tick, vars
<1> QED
  BY <1>2, <1>3, <1>4, <1>5 DEF Next

(* A restart changes the status of no case.                                *)
THEOREM RestartIsNeutral == Spec => RestartKeepsDecisions
<1>1. Init => StoreIsMemory
  BY DEF Init, StoreIsMemory
<1>2. ASSUME StoreIsMemory, [Next]_vars, boots' # boots, NEW c \in Cases
      PROVE  cases'[c].status = cases[c].status
  <2>1. Restart
    BY <1>2 DEF Next, vars, PostAlert, Webhook, Intake, FinishAutoRun, QueueCase,
                Enrich, EmailReturned, EmailFailed, Deny, ChooseMonitorOnly, Rollback,
                Approve, Choose, FinishRun, Tick
  <2>2. PICK marked \in SUBSET {d \in Cases : store[d] = Pending} :
          cases' = Reloaded(marked)
    BY <2>1 DEF Restart
  <2>3. Pending.status = Emailed.status
    BY DEF Pending, Fresh, Emailed
  <2> QED
    BY <1>2, <2>2, <2>3 DEF Reloaded, StoreIsMemory
<1>3. StoreIsMemory /\ [Next]_vars =>
        [boots' # boots => \A c \in Cases : cases'[c].status = cases[c].status]_vars
  BY <1>2
<1> QED
  BY <1>1, <1>3, StoreStep, PTL DEF Spec, RestartKeepsDecisions

-----------------------------------------------------------------------------
(* Deduplication: the registry remembers, for every webhook case of this   *)
(* lifetime, a creation at least as late, and while the window of the case *)
(* is open one of at least its rank.                                       *)
Remembered(c) ==
  born[c].via = "webhook" =>
    /\ handler[c] # "idle"
    /\ alert[c] \in Bodies
    /\ born[c].at <= clock
    /\ born[c].boot <= boots
    /\ born[c].boot = boots =>
         LET last == recent[AttackOf(alert[c])]
         IN  /\ born[c].at <= last.at
             /\ last.at <= clock
             /\ last.at - born[c].at < DedupWindow => RankOf(alert[c]) <= last.rank

DedupInv == TypeOK /\ DedupEscalates /\ \A c \in Cases : Remembered(c)

(* The step that creates a case by webhook.                                *)
LEMMA WebhookDedup ==
  ASSUME DedupInv, NEW c \in Cases, NEW body \in Bodies, ~Deduplicated(body),
         recent' = [recent EXCEPT ![AttackOf(body)] =
                      [rank |-> RankOf(body), at |-> clock]],
         Intake(c, body, "webhook")
  PROVE  DedupEscalates' /\ \A d \in Cases : Remembered(d)'
<1> USE DEF DedupInv
<1> DEFINE a == AttackOf(body)
<1>1. /\ clock' = clock /\ boots' = boots /\ handler[c] = "idle"
      /\ alert'[c] = body /\ \A d \in Cases \ {c} : alert'[d] = alert[d]
      /\ born'[c] = [via |-> "webhook", at |-> clock, boot |-> boots]
      /\ \A d \in Cases \ {c} : born'[d] = born[d]
  BY DEF Intake, TypeOK
<1>2. /\ handler'[c] # "idle"
      /\ \A d \in Cases \ {c} : handler'[d] = handler[d]
  BY DEF Intake, TypeOK
<1>3. /\ clock \in Nat /\ boots \in Nat /\ DedupWindow \in Nat
      /\ a \in AttackTypes /\ RankOf(body) \in 1..4
      /\ recent[a].at \in Nat /\ recent[a].rank \in Nat
  BY CasesAssumption, BodyTypes DEF TypeOK
<1>4. /\ recent'[a] = [rank |-> RankOf(body), at |-> clock]
      /\ \A b \in AttackTypes \ {a} : recent'[b] = recent[b]
  <2>1. DOMAIN recent = AttackTypes
    BY DEF TypeOK
  <2>2. recent' = [recent EXCEPT ![a] = [rank |-> RankOf(body), at |-> clock]]
    OBVIOUS
  <2>3. a \in AttackTypes
    BY <1>3
  <2> HIDE DEF a, DedupInv
  <2> QED
    BY <2>1, <2>2, <2>3
<1>5. clock - recent[a].at >= DedupWindow \/ RankOf(body) > recent[a].rank
  BY <1>3 DEF Deduplicated
<1>6. ASSUME NEW d \in Cases \ {c}, born[d].via = "webhook", born[d].boot = boots,
             AttackOf(alert[d]) = a
      PROVE  /\ born[d].at <= clock
             /\ clock - born[d].at < DedupWindow => RankOf(alert[d]) < RankOf(body)
  <2>1. /\ born[d].at \in Nat /\ RankOf(alert[d]) \in 1..4
        /\ born[d].at <= recent[a].at /\ recent[a].at <= clock
        /\ recent[a].at - born[d].at < DedupWindow => RankOf(alert[d]) <= recent[a].rank
    BY <1>6, BodyTypes DEF Remembered, TypeOK
  <2> QED
    BY <1>3, <1>5, <2>1
<1> HIDE DEF a
<1>7. ASSUME NEW d \in Cases PROVE Remembered(d)'
  <2>1. CASE d = c
    BY <1>1, <1>2, <1>3, <1>4, <2>1 DEF Remembered, a
  <2>2. CASE d # c /\ born[d].via = "webhook"
    <3>1. Remembered(d) /\ alert[d] \in Bodies /\ AttackOf(alert[d]) \in AttackTypes
          /\ born[d].at \in Nat /\ RankOf(alert[d]) \in 1..4
      BY <2>2, BodyTypes DEF Remembered, TypeOK
    <3>2. CASE AttackOf(alert[d]) = a /\ born[d].boot = boots
      BY <1>1, <1>2, <1>3, <1>4, <1>6, <2>2, <3>1, <3>2 DEF Remembered
    <3>3. CASE AttackOf(alert[d]) # a /\ born[d].boot = boots
      BY <1>1, <1>2, <1>4, <2>2, <3>1, <3>3 DEF Remembered
    <3>4. CASE born[d].boot # boots
      BY <1>1, <1>2, <2>2, <3>1, <3>4 DEF Remembered
    <3> QED
      BY <3>2, <3>3, <3>4
  <2>3. CASE d # c /\ born[d].via # "webhook"
    BY <1>1, <2>3 DEF Remembered
  <2> QED
    BY <2>1, <2>2, <2>3
<1>8. DedupEscalates'
  <2> SUFFICES ASSUME NEW d \in Cases, NEW e \in Cases, SameStream(d, e)',
                      born'[d].at <= born'[e].at,
                      born'[e].at - born'[d].at < DedupWindow
               PROVE  /\ RankOf(alert'[d]) # RankOf(alert'[e])
                      /\ born'[d].at < born'[e].at =>
                           RankOf(alert'[d]) < RankOf(alert'[e])
    BY DEF DedupEscalates, RankOf
  <2>1. CASE d # c /\ e # c
    BY <1>1, <2>1 DEF SameStream, DedupEscalates
  <2>2. CASE d # c /\ e = c
    <3>1. RankOf(alert[d]) \in 1..4 /\ born[d].at \in Nat /\ born[d].via = "webhook"
          /\ born[d].boot = boots /\ AttackOf(alert[d]) = a
      BY <1>1, <2>2, BodyTypes DEF SameStream, Remembered, TypeOK, a
    <3> QED
      BY <1>1, <1>3, <1>6, <2>2, <3>1
  <2>3. CASE d = c /\ e # c
    <3>1. RankOf(alert[e]) \in 1..4 /\ born[e].at \in Nat /\ born[e].via = "webhook"
          /\ born[e].boot = boots /\ AttackOf(alert[e]) = a
      BY <1>1, <2>3, BodyTypes DEF SameStream, Remembered, TypeOK, a
    <3> QED
      BY <1>1, <1>3, <1>6, <2>3, <3>1
  <2> QED
    BY <2>1, <2>2, <2>3 DEF SameStream
<1> QED
  BY <1>7, <1>8

(* Any other step keeps every case's birth and alert, or makes a case that *)
(* did not come from the webhook.                                          *)
LEMMA OtherDedup ==
  ASSUME DedupInv, TypeOK',
         \A d \in Cases : \/ /\ born'[d] = born[d] /\ alert'[d] = alert[d]
                             /\ handler[d] # "idle" => handler'[d] # "idle"
                          \/ born'[d].via # "webhook",
         \/ boots' = boots /\ recent' = recent
         \/ boots' = boots + 1,
         clock' \in {clock, clock + 1}
  PROVE  DedupInv'
<1> USE DEF DedupInv
<1>1. clock \in Nat /\ boots \in Nat /\ clock <= clock' /\ boots <= boots'
  BY DEF TypeOK
<1>2. ASSUME NEW d \in Cases PROVE Remembered(d)'
  <2>1. CASE born'[d].via # "webhook"
    BY <2>1 DEF Remembered
  <2>2. CASE born[d].via = "webhook" /\ born'[d] = born[d] /\ alert'[d] = alert[d]
             /\ (handler[d] # "idle" => handler'[d] # "idle")
    <3>1. Remembered(d) /\ born[d].at \in Nat /\ born[d].boot \in Nat
      BY DEF TypeOK
    <3>2. /\ alert[d] \in Bodies /\ AttackOf(alert[d]) \in AttackTypes
          /\ recent[AttackOf(alert[d])].at \in Nat
      BY <2>2, <3>1, BodyTypes DEF Remembered, TypeOK
    <3>3. CASE boots' = boots /\ recent' = recent
      BY <1>1, <2>2, <3>1, <3>2, <3>3 DEF Remembered
    <3>4. CASE boots' = boots + 1
      BY <1>1, <2>2, <3>1, <3>4 DEF Remembered
    <3> QED
      BY <3>3, <3>4
  <2> QED
    BY <2>1, <2>2
<1>3. DedupEscalates'
  BY DEF DedupEscalates, SameStream
<1> QED
  BY <1>2, <1>3

LEMMA DedupStep == DedupInv /\ [Next]_vars => DedupInv'
<1> SUFFICES ASSUME DedupInv, [Next]_vars PROVE DedupInv'
  OBVIOUS
<1>1. TypeOK'
  BY StepTyped DEF DedupInv
<1>2. ASSUME NEW c \in Cases, NEW item \in GrafanaItems, Webhook(c, item)
      PROVE  DedupInv'
  <2>1. PICK body : body = GrafanaToAlert(item)
    OBVIOUS
  <2>2. /\ body \in Bodies /\ ~Deduplicated(body) /\ Intake(c, body, "webhook")
        /\ recent' = [recent EXCEPT ![AttackOf(body)] =
                        [rank |-> RankOf(body), at |-> clock]]
    BY <1>2, <2>1, BodyTypes DEF Webhook
  <2> QED
    BY <1>1, <2>2, WebhookDedup DEF DedupInv
<1>3. ASSUME NEW c \in Cases, NEW body \in Alerts, PostAlert(c, body)
      PROVE  DedupInv'
  <2>1. Intake(c, body, "alerts") /\ recent' = recent
    BY <1>3 DEF PostAlert
  <2>2. born'[c].via = "alerts" /\ clock' = clock /\ boots' = boots
        /\ \A d \in Cases \ {c} : /\ born'[d] = born[d] /\ alert'[d] = alert[d]
                                  /\ handler'[d] = handler[d]
    BY <2>1 DEF Intake, DedupInv, TypeOK
  <2> QED
    BY <1>1, <2>1, <2>2, OtherDedup
<1>4. ASSUME NEW c \in Cases,
             \/ FinishAutoRun(c) \/ QueueCase(c) \/ Enrich(c)
             \/ EmailReturned(c) \/ EmailFailed(c)
             \/ Deny(c) \/ ChooseMonitorOnly(c) \/ Rollback(c)
      PROVE  DedupInv'
  <2>1. UNCHANGED <<clock, boots, recent, alert, born>>
    BY <1>4 DEF FinishAutoRun, QueueCase, Enrich, EmailReturned, EmailFailed, Deny,
                ChooseMonitorOnly, Rollback
  <2>2. \A d \in Cases : handler[d] # "idle" => handler'[d] # "idle"
    BY <1>4 DEF FinishAutoRun, QueueCase, Enrich, EmailReturned, EmailFailed, Deny,
                ChooseMonitorOnly, Rollback, DedupInv, TypeOK
  <2> QED
    BY <1>1, <2>1, <2>2, OtherDedup
<1>5. ASSUME NEW r \in Requests,
             FinishRun(r) \/ \E c \in Cases : Approve(r, c) \/ Choose(r, c)
      PROVE  DedupInv'
  <2>1. UNCHANGED <<clock, boots, recent, alert, born, handler>>
    BY <1>5 DEF FinishRun, Approve, Choose
  <2> QED
    BY <1>1, <2>1, OtherDedup
<1>6. CASE Restart
  BY <1>1, <1>6, OtherDedup DEF Restart
<1>7. CASE Tick \/ UNCHANGED vars
  <2>1. UNCHANGED <<boots, recent, alert, born, handler>> /\ clock' \in {clock, clock + 1}
    BY <1>7 DEF Tick, vars
  <2> QED
    BY <1>1, <2>1, OtherDedup
<1> QED
  BY <1>2, <1>3, <1>4, <1>5, <1>6, <1>7 DEF Next

(* Within one process lifetime the window lets only escalations through.   *)
THEOREM WindowLetsEscalationsThrough == Spec => []DedupEscalates
<1>1. Init => DedupInv
  <2>1. Init => DedupEscalates /\ \A c \in Cases : Remembered(c)
    BY DEF Init, NotBorn, None, DedupEscalates, SameStream, Remembered
  <2> QED
    BY <2>1, InitTyped DEF DedupInv
<1>2. DedupInv => DedupEscalates
  BY DEF DedupInv
<1> QED
  BY <1>1, <1>2, DedupStep, PTL DEF Spec

-----------------------------------------------------------------------------
(* The e-mail mark travels in the records of memory, store and queue and   *)
(* in the drafts of administrator requests.                                *)
Marked(record) == record.emailed

Explained == mailed \cup unsent

MarksAreTrue ==
  /\ \A c \in Cases :
       Marked(cases[c]) \/ Marked(store[c]) \/ Marked(queue[c]) => c \in Explained
  /\ \A r \in Requests : Marked(req[r].draft) => req[r].case \in Explained

MailInv == TypeOK /\ MarksAreTrue

LEMMA MarkReads ==
  /\ ~Marked(Blank) /\ ~Marked(Pending) /\ \A s : ~Marked(Fresh(s))
  /\ ~Marked(Idle.draft)
  /\ \A record \in CaseRecord, s \in Statuses :
       Marked([record EXCEPT !.status = s]) <=> Marked(record)
BY DEF Blank, Pending, Fresh, Idle, CaseRecord, Marked

(* The rest of what one record_case and its queue update leave behind.     *)
LEMMA MarkRecorded ==
  ASSUME MailInv, NEW c \in Cases, NEW record \in CaseRecord, Record(c, record),
         Marked(record) => c \in Explained',
         Explained \subseteq Explained',
         \A d \in Cases : queue'[d] = queue[d] \/ (Marked(queue'[d]) => d \in Explained'),
         \A r \in Requests : req'[r] = req[r] \/ ~Marked(req'[r].draft)
  PROVE  MarksAreTrue'
<1>1. ASSUME NEW d \in Cases
      PROVE  Marked(cases'[d]) \/ Marked(store'[d]) \/ Marked(queue'[d]) => d \in Explained'
  <2>1. CASE d = c
    BY <2>1, RecordRead DEF MailInv, MarksAreTrue
  <2>2. CASE d # c
    BY <2>2, RecordRead DEF MailInv, MarksAreTrue
  <2> QED
    BY <2>1, <2>2
<1>2. ASSUME NEW r \in Requests PROVE Marked(req'[r].draft) => req'[r].case \in Explained'
  BY DEF MailInv, MarksAreTrue
<1> QED
  BY <1>1, <1>2 DEF MarksAreTrue

LEMMA MailStep ==
  ASSUME MailInv, [Next]_vars
  PROVE  MailInv'
<1> USE DEF MailInv, Explained
<1>1. TypeOK'
  BY StepTyped
<1>2. ASSUME NEW c \in Cases, NEW body \in Bodies, NEW via, Intake(c, body, via)
      PROVE  MarksAreTrue'
  <2>1. UNCHANGED <<queue, req, mailed, unsent>>
    BY <1>2 DEF Intake
  <2>2. CASE Record(c, Fresh("skipped"))
    <3>1. Fresh("skipped") \in CaseRecord
      BY RecordTypes DEF Statuses
    <3> QED
      BY <2>1, <2>2, <3>1, MarkReads, MarkRecorded
  <2>3. CASE Record(c, Pending)
    BY <2>1, <2>3, RecordTypes, MarkReads, MarkRecorded
  <2>4. CASE UNCHANGED <<cases, store>>
    BY <2>1, <2>4 DEF MarksAreTrue
  <2> QED
    BY <1>2, <2>2, <2>3, <2>4 DEF Intake
<1>3. ASSUME NEW c \in Cases,
             \/ \E body \in Alerts : PostAlert(c, body)
             \/ \E item \in GrafanaItems : Webhook(c, item)
      PROVE  MarksAreTrue'
  <2>1. PICK body \in Bodies, via \in {"alerts", "webhook"} : Intake(c, body, via)
    BY <1>3, BodyTypes DEF PostAlert, Webhook
  <2> QED
    BY <1>2, <2>1
<1>4. ASSUME NEW c \in Cases, FinishAutoRun(c) PROVE MarksAreTrue'
  <2>1. Fresh(FinalStatus) \in CaseRecord
    BY RecordTypes DEF Statuses
  <2> QED
    BY <1>4, <2>1, MarkReads, MarkRecorded DEF FinishAutoRun
<1>5. ASSUME NEW c \in Cases, QueueCase(c) \/ EmailFailed(c) PROVE MarksAreTrue'
  <2>1. UNCHANGED <<cases, store, req, mailed, unsent>>
    BY <1>5 DEF QueueCase, EmailFailed
  <2>2. \A d \in Cases : queue'[d] = queue[d] \/ ~Marked(queue'[d])
    BY <1>5, MarkReads DEF QueueCase, EmailFailed, TypeOK
  <2> QED
    BY <2>1, <2>2 DEF MarksAreTrue
<1>6. ASSUME NEW c \in Cases, Enrich(c) PROVE MarksAreTrue'
  <2>1. CASE Record(c, Pending) /\ queue' = [queue EXCEPT ![c] = Pending]
    <3>1. \A d \in Cases : queue'[d] = queue[d] \/ ~Marked(queue'[d])
      BY <2>1, MarkReads DEF TypeOK
    <3>2. UNCHANGED <<req, mailed, unsent>>
      BY <1>6 DEF Enrich
    <3> QED
      BY <2>1, <3>1, <3>2, RecordTypes, MarkReads, MarkRecorded
  <2>2. CASE UNCHANGED <<cases, store, queue>>
    BY <1>6, <2>2 DEF Enrich, MarksAreTrue
  <2> QED
    BY <1>6, <2>1, <2>2 DEF Enrich
<1>7. ASSUME NEW c \in Cases, EmailReturned(c) PROVE MarksAreTrue'
  <2>1. /\ Record(c, Emailed) /\ queue' = [queue EXCEPT ![c] = Emailed]
        /\ Explained' = Explained \cup {c} /\ req' = req
    BY <1>7 DEF EmailReturned
  <2>2. \A d \in Cases : queue'[d] = queue[d] \/ d \in Explained'
    BY <2>1 DEF TypeOK
  <2>3. c \in Explained' /\ Explained \subseteq Explained'
    BY <2>1
  <2> QED
    BY <2>1, <2>2, <2>3, RecordTypes, MarkRecorded
<1>8. ASSUME NEW c \in Cases, Deny(c) \/ ChooseMonitorOnly(c) \/ Rollback(c)
      PROVE  MarksAreTrue'
  <2>1. PICK record \in {queue[c], cases[c]}, s \in Statuses :
          Record(c, [record EXCEPT !.status = s])
    BY <1>8 DEF Deny, ChooseMonitorOnly, Rollback, Statuses
  <2>2. record \in CaseRecord /\ (Marked(record) => c \in Explained)
    BY DEF TypeOK, MarksAreTrue
  <2>3. [record EXCEPT !.status = s] \in CaseRecord
        /\ (Marked([record EXCEPT !.status = s]) <=> Marked(record))
    BY <2>2, RecordTypes, MarkReads
  <2>4. \A d \in Cases : queue'[d] = queue[d] \/ ~Marked(queue'[d])
    BY <1>8, MarkReads DEF Deny, ChooseMonitorOnly, Rollback, Dequeue, TypeOK
  <2>5. UNCHANGED <<req, mailed, unsent>>
    BY <1>8 DEF Deny, ChooseMonitorOnly, Rollback
  <2>6. Marked([record EXCEPT !.status = s]) => c \in Explained'
    BY <2>2, <2>3, <2>5
  <2> QED
    BY <2>1, <2>3, <2>4, <2>5, <2>6, MarkRecorded
<1>9. ASSUME NEW r \in Requests, NEW c \in Cases, Approve(r, c) \/ Choose(r, c)
      PROVE  MarksAreTrue'
  <2>1. PICK draft \in {queue[c], cases[c]} :
          req' = [req EXCEPT ![r] = [case |-> c, draft |-> draft]]
    BY <1>9 DEF Approve, Choose
  <2>2. Marked(draft) => c \in Explained
    BY DEF MarksAreTrue
  <2>3. UNCHANGED <<cases, store, mailed, unsent>> /\ Dequeue(c)
    BY <1>9 DEF Approve, Choose
  <2>4. \A d \in Cases : queue'[d] = queue[d] \/ ~Marked(queue'[d])
    BY <2>3, MarkReads DEF Dequeue, TypeOK
  <2>5. \A s \in Requests : req'[s] = req[s] \/ req'[s] = [case |-> c, draft |-> draft]
    BY <2>1 DEF TypeOK
  <2> QED
    BY <2>2, <2>3, <2>4, <2>5 DEF MarksAreTrue
<1>10. ASSUME NEW r \in Requests, FinishRun(r) PROVE MarksAreTrue'
  <2>1. CASE req[r].case \in Cases
    <3>1. PICK c \in Cases : c = req[r].case
      BY <2>1
    <3>2. req[r].draft \in CaseRecord /\ FinalStatus \in Statuses
      BY RecordTypes DEF TypeOK, Statuses
    <3>3. Record(c, [req[r].draft EXCEPT !.status = FinalStatus])
      BY <1>10, <3>1 DEF FinishRun
    <3>4. \A s \in Requests : req'[s] = req[s] \/ ~Marked(req'[s].draft)
      BY <1>10, MarkReads DEF FinishRun, TypeOK
    <3>5. [req[r].draft EXCEPT !.status = FinalStatus] \in CaseRecord
          /\ (Marked([req[r].draft EXCEPT !.status = FinalStatus]) => c \in Explained)
      BY <3>1, <3>2, RecordTypes, MarkReads DEF MarksAreTrue
    <3>6. UNCHANGED <<queue, mailed, unsent>>
      BY <1>10 DEF FinishRun
    <3> QED
      BY <3>3, <3>4, <3>5, <3>6, MarkRecorded
  <2>2. CASE req[r].case \notin Cases
    <3>1. cases' = cases /\ store' = store
      BY <1>10, <2>2 DEF FinishRun, Record, TypeOK
    <3>2. \A s \in Requests : req'[s] = req[s] \/ ~Marked(req'[s].draft)
      BY <1>10, MarkReads DEF FinishRun, TypeOK
    <3> QED
      BY <1>10, <3>1, <3>2 DEF FinishRun, MarksAreTrue
  <2> QED
    BY <2>1, <2>2
<1>11. CASE Restart
  <2>1. PICK marked \in SUBSET {c \in Cases : store[c] = Pending} :
          /\ cases' = Reloaded(marked)
          /\ store' = Reloaded(marked)
          /\ queue' = RestoredQueue(Reloaded(marked))
          /\ Explained' = Explained \cup marked
    BY <1>11 DEF Restart
  <2>2. ASSUME NEW d \in Cases
        PROVE  Marked(cases'[d]) \/ Marked(store'[d]) \/ Marked(queue'[d])
                 => d \in Explained'
    BY <2>1, MarkReads DEF Reloaded, RestoredQueue, MarksAreTrue
  <2>3. \A r \in Requests : ~Marked(req'[r].draft)
    BY <1>11, MarkReads DEF Restart
  <2> QED
    BY <1>1, <2>2, <2>3 DEF MarksAreTrue
<1>12. CASE Tick \/ UNCHANGED vars
  <2>1. UNCHANGED <<cases, store, queue, req, mailed, unsent>>
    BY <1>12 DEF Tick, vars
  <2> QED
    BY <1>1, <2>1 DEF MarksAreTrue
<1> QED
  BY <1>1, <1>3, <1>4, <1>5, <1>6, <1>7, <1>8, <1>9, <1>10, <1>11, <1>12 DEF Next

(* Whatever SMTP settings the lifetimes of the process have, a mark is     *)
(* explained by an e-mail or by a process that had no account.             *)
THEOREM MarksAreExplained == Spec => []MarkNamesItsCause
<1>1. Init => MailInv
  <2>1. Init => MarksAreTrue
    BY MarkReads DEF Init, MarksAreTrue, Explained
  <2> QED
    BY <2>1, InitTyped DEF MailInv
<1>2. MailInv /\ [Next]_vars => MailInv'
  BY MailStep
<1>3. MailInv => MarkNamesItsCause
  BY DEF MailInv, MarksAreTrue, MarkNamesItsCause, Marked, Explained
<1> QED
  BY <1>1, <1>2, <1>3, PTL DEF Spec
=============================================================================
