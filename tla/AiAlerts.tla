------------------------------ MODULE AiAlerts ------------------------------
(***************************************************************************)
(* The alerts of ai-analyzer: batches of log lines come in by POST         *)
(* /analyze and from the loop that polls Loki, a batch is judged with or   *)
(* without the language model, a serious result waits in PENDING_ALERTS    *)
(* for the administrator, and an approved one is forwarded to soar-engine. *)
(*                                                                         *)
(* ai-analyzer is one asyncio process that keeps everything in memory.     *)
(* Each action is the code of one handler between two awaits: the call of  *)
(* the model, the notification of the administrator and the forward to     *)
(* soar-engine are the awaits at which the others interleave.  What        *)
(* soar-engine decides about a forwarded alert is SoarDecision's.          *)
(***************************************************************************)
EXTENDS AiVerdict, FiniteSets

CONSTANTS
  Jobs,              \* calls of handle_logs; job i's alert has the alert_id i
  Batches,           \* batches of log lines
  Findings,          \* Findings[b]: what the patterns find in batch b
  Answers,           \* what the model may answer, read as JSON
  ProviderOn,        \* a provider and its key are configured
  SoarConfigured,    \* SOAR_WEBHOOK_URL is set
  SeenLimit, SeenKeep,  \* 500 and 250: limits of the poll loop's memory
  SoarMinRank, SoarHitlRank, SoarMinConfidence,  \* thresholds of soar-engine
  MaxRestarts,       \* bound: restarts of the process
  NoBatch

ASSUME AlertsAssumption ==
  /\ NoBatch \notin Batches
  /\ Findings \in [Batches -> Seq(Attacks)]
  /\ \A raw \in Answers :
       raw \in [verdict : STRING, severity : STRING, confidence : Seq(Int),
               attack : Seq(STRING), playbook : STRING]
  /\ ProviderOn \in BOOLEAN /\ SoarConfigured \in BOOLEAN
  /\ SeenLimit \in Nat /\ SeenKeep \in 0..SeenLimit
  /\ {SoarMinRank, SoarHitlRank} \subseteq 1..4 /\ SoarMinConfidence \in 0..100
  /\ MaxRestarts \in Nat

VARIABLES
  job,      \* job[i]: where the handler of job i is
  batch,    \* batch[i]: the batch it was given
  via,      \* via[i]: "api" or "loki"
  result,   \* result[i]: the AnalyzeResult it came to
  pending,  \* pending[i]: status of PENDING_ALERTS[i], "none" for no entry yet
  age,      \* age[i]: is the entry's time up (TTL, or one hour after review)?
  forward,  \* forward[i]: the POST of alert i to soar-engine
  received, \* alerts soar-engine has received
  answer,   \* answer[i]: status code /pending/i/approve answered with
  seen,     \* seen_hashes of the poll loop
  forgot,   \* history: the poll loop has lost some of what it had seen
  backoff,  \* _provider_backoff_until lies in the future
  boots     \* restarts so far

vars == <<job, batch, via, result, pending, age, forward, received, answer,
          seen, forgot, backoff, boots>>

Soar == INSTANCE SoarDecision WITH
  AutoExecute <- TRUE, MinRank <- SoarMinRank, HitlRank <- SoarHitlRank,
  WebhookConfident <- TRUE

Heuristic(b) == HeuristicAnalyze(Findings[b])
NoResult     == HeuristicAnalyze(<<>>)

JobStates     == {"idle", "provider", "telling", "done", "cut"}
Resolved      == {"approved", "dismissed", "expired"}
PendingStates == {"none", "pending", "gone"} \cup Resolved
ForwardStates == {"none", "sending", "delivered", "refused", "unanswered"}

TypeOK ==
  /\ job \in [Jobs -> JobStates]
  /\ batch \in [Jobs -> Batches \cup {NoBatch}]
  /\ via \in [Jobs -> {None, "api", "loki"}]
  /\ \A i \in Jobs : /\ result[i].verdict \in Verdicts
                     /\ result[i].severity \in Severities
                     /\ result[i].confidence \in 0..100
  /\ pending \in [Jobs -> PendingStates]
  /\ age \in [Jobs -> {"fresh", "due"}]
  /\ forward \in [Jobs -> ForwardStates]
  /\ received \subseteq Jobs
  /\ answer \in [Jobs -> {0, 200, 502}]
  /\ seen \subseteq Batches
  /\ forgot \in BOOLEAN /\ backoff \in BOOLEAN
  /\ boots \in 0..MaxRestarts

Init ==
  /\ job = [i \in Jobs |-> "idle"]
  /\ batch = [i \in Jobs |-> NoBatch]
  /\ via = [i \in Jobs |-> None]
  /\ result = [i \in Jobs |-> NoResult]
  /\ pending = [i \in Jobs |-> "none"]
  /\ age = [i \in Jobs |-> "fresh"]
  /\ forward = [i \in Jobs |-> "none"]
  /\ received = {}
  /\ answer = [i \in Jobs |-> 0]
  /\ seen = {}
  /\ forgot = FALSE
  /\ backoff = FALSE
  /\ boots = 0

-----------------------------------------------------------------------------
(* The rest of handle_logs once a result r is there.  A job of the poll    *)
(* loop that has ended trims the hashes: which ones stay is arbitrary.     *)
Remember(i, hashes) ==
  IF via'[i] = "loki" /\ job'[i] = "done" /\ Cardinality(hashes) > SeenLimit
  THEN /\ \E kept \in kSubset(SeenKeep, hashes) : seen' = kept
       /\ forgot' = TRUE
  ELSE seen' = hashes /\ UNCHANGED forgot

Judge(i, r, hashes) ==
  LET held == ShouldAlert(r) /\ RequiresAdminApproval(r)
  IN  /\ result' = [result EXCEPT ![i] = r]
      /\ job' = [job EXCEPT ![i] = IF ShouldAlert(r) THEN "telling" ELSE "done"]
      /\ pending' = [pending EXCEPT ![i] = IF held THEN "pending" ELSE @]
      /\ Remember(i, hashes)
      /\ UNCHANGED <<age, forward, received, answer, boots>>

(* handle_logs up to its first await: without a provider, or while it is   *)
(* backing off, the heuristic decides at once.                             *)
Begin(i, b, from, hashes) ==
  /\ job[i] = "idle"
  /\ batch' = [batch EXCEPT ![i] = b]
  /\ via' = [via EXCEPT ![i] = from]
  /\ \/ /\ ~ProviderOn \/ backoff
        /\ Judge(i, Heuristic(b), hashes)
     \/ /\ ProviderOn /\ ~backoff
        /\ job' = [job EXCEPT ![i] = "provider"]
        /\ seen' = hashes
        /\ UNCHANGED <<result, pending, age, forward, received, answer, forgot, boots>>
  /\ UNCHANGED backoff

Analyze(i, b) == Begin(i, b, "api", seen)

(* The poll loop awaits handle_logs, so it has one job at a time.          *)
Polling == \E i \in Jobs : via[i] = "loki" /\ job[i] \in {"provider", "telling"}

\* Mutation: what was seen is not asked for.
Poll_m(i, b) ==
  /\ ~Polling
  /\ Begin(i, b, "loki", seen \cup {b})

Poll(i, b) ==
  /\ ~Polling
  /\ b \notin seen
  /\ Begin(i, b, "loki", seen \cup {b})

ProviderAnswers(i, raw) ==
  /\ job[i] = "provider"
  /\ UNCHANGED <<batch, via, backoff>>
  /\ Judge(i, MergeResultWithHeuristic(CoerceAiResult(raw), Heuristic(batch[i])), seen)

(* A refusal, a time-out or an answer of the wrong shape.                  *)
ProviderFails(i) ==
  /\ job[i] = "provider"
  /\ backoff' = TRUE
  /\ UNCHANGED <<batch, via>>
  /\ Judge(i, Heuristic(batch[i]), seen)

BackoffEnds ==
  /\ backoff
  /\ backoff' = FALSE
  /\ UNCHANGED <<job, batch, via, result, pending, age, forward, received, answer,
                 seen, forgot, boots>>

(* notify_admin, or push_alert_to_loki, has returned or failed; a failure  *)
(* is logged and nothing else.                                             *)
Told(i) ==
  /\ job[i] = "telling"
  /\ job' = [job EXCEPT ![i] = "done"]
  /\ UNCHANGED via
  /\ Remember(i, seen)
  /\ UNCHANGED <<batch, result, pending, age, forward, received, answer, backoff, boots>>

-----------------------------------------------------------------------------
(* approve_pending up to the await of the forward.                         *)
\* Mutation: an alert may be approved whatever its status.
Approve_m(i) ==
  /\ pending[i] \in {"pending"} \cup Resolved
  /\ pending' = [pending EXCEPT ![i] = "approved"]
  /\ age' = [age EXCEPT ![i] = "fresh"]
  /\ forward' = [forward EXCEPT ![i] = "sending"]
  /\ UNCHANGED <<job, batch, via, result, received, answer, seen, forgot, backoff, boots>>

Approve(i) ==
  /\ pending[i] = "pending"
  /\ pending' = [pending EXCEPT ![i] = "approved"]
  /\ age' = [age EXCEPT ![i] = "fresh"]
  /\ IF SoarConfigured
     THEN forward' = [forward EXCEPT ![i] = "sending"] /\ UNCHANGED answer
     ELSE answer' = [answer EXCEPT ![i] = 200] /\ UNCHANGED forward
  /\ UNCHANGED <<job, batch, via, result, received, seen, forgot, backoff, boots>>

Dismiss(i) ==
  /\ pending[i] = "pending"
  /\ pending' = [pending EXCEPT ![i] = "dismissed"]
  /\ age' = [age EXCEPT ![i] = "fresh"]
  /\ UNCHANGED <<job, batch, via, result, forward, received, answer, seen, forgot,
                 backoff, boots>>

(* The request reaches soar-engine, perhaps after ai-analyzer gave up.     *)
SoarReceives(i) ==
  /\ forward[i] \in {"sending", "unanswered"}
  /\ i \notin received
  /\ received' = received \cup {i}
  /\ UNCHANGED <<job, batch, via, result, pending, age, forward, answer, seen, forgot,
                 backoff, boots>>

ForwardEnds(i, how, code) ==
  /\ forward[i] = "sending"
  /\ forward' = [forward EXCEPT ![i] = how]
  /\ answer' = [answer EXCEPT ![i] = code]
  /\ UNCHANGED <<job, batch, via, result, pending, age, received, seen, forgot,
                 backoff, boots>>

ForwardSucceeds(i) == i \in received /\ ForwardEnds(i, "delivered", 200)
ForwardRefused(i)  == i \notin received /\ ForwardEnds(i, "refused", 502)
\* Mutation: a time-out counts as success.
ForwardTimesOut_m(i) == ForwardEnds(i, "unanswered", 200)

ForwardTimesOut(i) == ForwardEnds(i, "unanswered", 502)

(* Time: an entry's TTL, or the hour after its review, has passed.         *)
GrowsOld(i) ==
  /\ pending[i] \in {"pending"} \cup Resolved
  /\ age[i] = "fresh"
  /\ age' = [age EXCEPT ![i] = "due"]
  /\ UNCHANGED <<job, batch, via, result, pending, forward, received, answer, seen,
                 forgot, backoff, boots>>

(* One pass of expire_pending_loop over all entries.                       *)
\* Mutation: resolved entries are never deleted.
Swept_m(status) == IF status = "pending" THEN "expired" ELSE status

Swept(status) == IF status = "pending" THEN "expired" ELSE "gone"

Sweep ==
  LET due == {i \in Jobs : age[i] = "due" /\ pending[i] \in {"pending"} \cup Resolved}
  IN  /\ due # {}
      /\ pending' = [i \in Jobs |-> IF i \in due THEN Swept(pending[i]) ELSE pending[i]]
      /\ age' = [i \in Jobs |-> IF i \in due THEN "fresh" ELSE age[i]]
      /\ UNCHANGED <<job, batch, via, result, forward, received, answer, seen, forgot,
                     backoff, boots>>

(* The process dies and starts again: PENDING_ALERTS, the hashes, the      *)
(* back-off and the handlers are lost; a request on the wire is not.       *)
Restart ==
  /\ boots < MaxRestarts
  /\ boots' = boots + 1
  /\ job' = [i \in Jobs |-> IF job[i] \in {"provider", "telling"} THEN "cut" ELSE job[i]]
  /\ pending' = [i \in Jobs |-> IF pending[i] = "none" THEN "none" ELSE "gone"]
  /\ forward' = [i \in Jobs |-> IF forward[i] = "sending" THEN "unanswered"
                                ELSE forward[i]]
  /\ seen' = {}
  /\ forgot' = TRUE
  /\ backoff' = FALSE
  /\ UNCHANGED <<batch, via, result, age, received, answer>>

HandlerStep(i) ==
  \/ \E raw \in Answers : ProviderAnswers(i, raw)
  \/ ProviderFails(i)
  \/ Told(i)
  \/ ForwardSucceeds(i)
  \/ ForwardRefused(i)
  \/ ForwardTimesOut(i)

Next ==
  \/ \E i \in Jobs :
       \/ \E b \in Batches : Analyze(i, b) \/ Poll(i, b)
       \/ HandlerStep(i)
       \/ SoarReceives(i)
       \/ Approve(i)
       \/ Dismiss(i)
       \/ GrowsOld(i)
  \/ BackoffEnds
  \/ Sweep
  \/ Restart

Spec == Init /\ [][Next]_vars

(* The event loop runs both background loops, and time passes.             *)
Fairness ==
  /\ WF_vars(Sweep)
  /\ \A i \in Jobs : WF_vars(GrowsOld(i))

FairSpec == Spec /\ Fairness

-----------------------------------------------------------------------------
(* What forward_alert_to_soar sends, as SoarDecision sees it.              *)
\* Mutation: the forwarded alert does not say that it was approved.
SoarAlert_m(r) ==
  [ tokens            |-> r.attack,
    recommended       |-> r.playbook,
    service           |-> None,
    mentionsOpenstack |-> FALSE,
    verdict           |-> r.verdict,
    severity          |-> r.severity,
    confident         |-> r.confidence >= SoarMinConfidence,
    preApproved       |-> FALSE ]

SoarAlert(r) ==
  [ tokens            |-> r.attack,
    recommended       |-> r.playbook,
    service           |-> None,
    mentionsOpenstack |-> FALSE,
    verdict           |-> r.verdict,
    severity          |-> r.severity,
    confident         |-> r.confidence >= SoarMinConfidence,
    preApproved       |-> TRUE ]

(* Whatever the model answers, or fails to answer, a batch in which the    *)
(* patterns find an alert becomes an alert, and one whose findings need    *)
(* the administrator is queued for him: the model can add to the verdict   *)
(* of the rules and never take away from it (analyze_logs, handle_logs).   *)
ProviderCannotSuppress ==
  \A i \in Jobs :
    job[i] \in {"telling", "done"} =>
      LET rules == Heuristic(batch[i])
      IN  /\ ShouldAlert(rules) => ShouldAlert(result[i])
          /\ ShouldAlert(rules) /\ RequiresAdminApproval(rules) => pending[i] # "none"

(* An approved alert that reaches soar-engine is not held for a second     *)
(* approval, and when the rules found something in its batch it is not     *)
(* skipped either: the case is run (forward_alert_to_soar with soar's      *)
(* _needs_hitl, _should_execute and _select_playbook).                     *)
ApprovedIsActedOn ==
  \A i \in received :
    LET disposition == Soar!Disposition(SoarAlert(result[i]))
    IN  /\ disposition # "hold"
        /\ Findings[batch[i]] # <<>> => disposition = "run"

(* The administrator's answer accounts for his approval: 200 means that    *)
(* soar-engine has the alert, and when it has not, and the call is over    *)
(* in a process still alive, he was told 502 (approve_pending).            *)
ApprovalIsAccountedFor ==
  SoarConfigured =>
    \A i \in Jobs :
      /\ answer[i] = 200 => i \in received
      /\ pending[i] = "approved" /\ forward[i] # "sending" /\ i \notin received
           => answer[i] = 502

(* Two alerts of the poll loop about the same batch have a cause: a        *)
(* restart, or the trimming of the hashes it had seen (poll_loki_loop).    *)
DuplicatesHaveACause ==
  \A i, j \in Jobs :
    /\ i # j /\ batch[i] = batch[j] /\ via[i] = "loki" /\ via[j] = "loki"
    /\ pending[i] # "none" /\ pending[j] # "none"
    => forgot

(* What is raised: no attack the rules know is kept quiet, and none is     *)
(* raised twice by the poll loop for as long as it remembers the batch.    *)
(* (handle_logs, poll_loki_loop.)                                          *)
AttacksAreRaised == ProviderCannotSuppress /\ DuplicatesHaveACause

(* What becomes of an approval: soar-engine acts on it, or the             *)
(* administrator is told that it could not be handed over                  *)
(* (approve_pending, forward_alert_to_soar).                               *)
ApprovalIsKept == ApprovedIsActedOn /\ ApprovalIsAccountedFor

(* Every queued alert leaves the queue again, decided or not: first an     *)
(* open one expires, then a resolved one is deleted (expire_pending_loop). *)
QueueDrains == \A i \in Jobs : pending[i] = "pending" ~> pending[i] = "gone"

(* The approval of ai-analyzer keeps the promise of HitlGate: an alert is  *)
(* held until it is decided, decided once, and forwarded at most once and  *)
(* only when it was approved.                                              *)
GateOf(i) ==
  CASE pending[i] = "pending"                       -> "held"
    [] pending[i] # "pending" /\ forward[i] = "sending" -> "acting"
    [] pending[i] # "pending" /\ forward[i] # "sending"
         /\ (pending[i] # "none" \/ job[i] \in {"telling", "done", "cut"}) -> "closed"
    [] OTHER                                        -> "absent"

GateState == [i \in Jobs |-> GateOf(i)]

Gate == INSTANCE HitlGate WITH Items <- Jobs, gate <- GateState

GateSpec == Gate!Spec
=============================================================================
