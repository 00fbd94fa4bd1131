-------------------------- MODULE AiAlerts_proofs --------------------------
(***************************************************************************)
(* Proofs about AiAlerts, for any batches, findings, answers of the model, *)
(* limits and restarts: the model cannot suppress what the rules find, the *)
(* poll loop repeats no alert while it remembers the batch, the queue of   *)
(* pending alerts implements HitlGate, and, when soar-engine's thresholds  *)
(* are no stricter than what an approved alert shows, approval is kept.    *)
(***************************************************************************)
EXTENDS AiAlerts, WellFoundedInduction, TLAPS

(* soar-engine asks for no more than every approved alert has: the rank    *)
(* that needs approval, and the confidence of a single finding.            *)
ThresholdsAgree == SoarMinRank <= ApprovalRank /\ SoarMinConfidence <= 69

-----------------------------------------------------------------------------
(* The verdicts: what the operators of AiVerdict return.  Words are the    *)
(* strings; the literals are named because STRING is opaque to the provers. *)
Words == STRING \cup Attacks \cup {"none", "unknown"}

IsResult(r) ==
  /\ r.verdict \in Verdicts /\ r.severity \in Severities
  /\ r.confidence \in 0..100 /\ r.attack \in Seq(Words)

(* An attack found by the rules is not lost: the result is not normal, as  *)
(* severe as the rules say, as sure as one finding, and names an attack.   *)
Covers(r, b) ==
  Findings[b] # <<>> =>
    /\ r.verdict # "normal" /\ r.confidence >= 69
    /\ Rank[r.severity] >= Rank[Heuristic(b).severity]
    /\ \E a \in Attacks : r.attack = <<a>>

LEMMA Ranks ==
  /\ Severities = {"low", "medium", "high", "critical"}
  /\ Rank["low"] = 1 /\ Rank["medium"] = 2 /\ Rank["high"] = 3 /\ Rank["critical"] = 4
  /\ \A s \in Severities : Rank[s] \in 1..4
<1>1. /\ Severities = {"low", "medium", "high", "critical"}
      /\ Rank["low"] = 1 /\ Rank["medium"] = 2 /\ Rank["high"] = 3 /\ Rank["critical"] = 4
  BY DEF Severities, Rank
<1> QED
  BY <1>1

LEMMA AttackNames ==
  "none" \notin Attacks /\ "unknown" \notin Attacks
BY DEF Attacks, AttackPlaybooks

LEMMA Priorities ==
  /\ DOMAIN PriorityOrder = 1..15
  /\ \A k \in 1..15 : PriorityOrder[k] \in Attacks
  /\ \A a \in Attacks : \E k \in 1..15 : PriorityOrder[k] = a
<1>1. DOMAIN PriorityOrder = 1..15
  BY DEF PriorityOrder
<1>2. \A k \in 1..15 : PriorityOrder[k] \in Attacks
  BY DEF PriorityOrder, Attacks, AttackPlaybooks
<1>3. \A a \in Attacks : \E k \in 1..15 : PriorityOrder[k] = a
  BY DEF PriorityOrder, Attacks, AttackPlaybooks
<1> QED
  BY <1>1, <1>2, <1>3

LEMMA LeastIsIn ==
  ASSUME NEW S \in SUBSET Nat, S # {}
  PROVE  Min(S) \in S
<1>1. PICK x \in S : \A y \in S : <<y, x>> \notin OpToRel(<, Nat)
  BY WFMin, NatLessThanWellFounded
<1>2. \A y \in S : ~(y < x)
  BY <1>1 DEF OpToRel
<1>3. \A y \in S : x =< y
  BY <1>2
<1> QED
  BY <1>3 DEF Min

(* Among reasons of which one is ranked, a ranked one is primary.          *)
LEMMA PrimaryIsRanked ==
  ASSUME NEW reasons \in Seq(Words), NEW n \in DOMAIN reasons, reasons[n] \in Attacks
  PROVE  PrimaryAttackType(reasons) \in Attacks
<1> DEFINE ranked == {k \in DOMAIN PriorityOrder : PriorityOrder[k] \in ToSet(reasons)}
<1>1. ranked # {} /\ ranked \subseteq 1..15
  BY Priorities DEF ToSet
<1>2. Min(ranked) \in ranked
  <2>1. ranked \in SUBSET Nat
    BY <1>1
  <2> QED
    BY <1>1, <2>1, LeastIsIn
<1>3. PrimaryAttackType(reasons) = PriorityOrder[Min(ranked)]
  BY <1>1 DEF PrimaryAttackType
<1> QED
  BY <1>1, <1>2, <1>3, Priorities

(* The confidences: of the rules, of the model's answer, of the merge.     *)
LEMMA LeastOfTwo ==
  ASSUME NEW m \in Int, NEW n \in Int
  PROVE  Min({m, n}) \in {m, n} /\ Min({m, n}) =< m /\ Min({m, n}) =< n
<1>1. \E x \in {m, n} : \A y \in {m, n} : x =< y
  <2>1. CASE m =< n
    BY <2>1
  <2>2. CASE n =< m
    BY <2>2
  <2> QED
    BY <2>1, <2>2
<1> QED
  BY <1>1 DEF Min

LEMMA GreatestOfTwo ==
  ASSUME NEW m \in Int, NEW n \in Int
  PROVE  Max({m, n}) \in {m, n} /\ Max({m, n}) >= m /\ Max({m, n}) >= n
<1>1. \E x \in {m, n} : \A y \in {m, n} : x >= y
  <2>1. CASE m >= n
    BY <2>1
  <2>2. CASE n >= m
    BY <2>2
  <2> QED
    BY <2>1, <2>2
<1> QED
  BY <1>1 DEF Max

LEMMA RuleConfidence ==
  ASSUME NEW n \in Nat \ {0} PROVE Min({95, 62 + 7 * n}) \in 69..95
<1>1. PICK c \in Int, d \in Int : c = 62 + 7 * n /\ c >= 69 /\ d = 95
  OBVIOUS
<1>2. Min({d, c}) \in {d, c} /\ Min({d, c}) =< d
  BY LeastOfTwo
<1> QED
  BY <1>1, <1>2

LEMMA ReadConfidence ==
  ASSUME NEW n \in Int PROVE Max({0, Min({100, n})}) \in 0..100
<1>1. PICK c \in Int, d \in Int : c = 100 /\ d = 0
  OBVIOUS
<1>2. Min({c, n}) \in {c, n} /\ Min({c, n}) =< c
  BY LeastOfTwo
<1>3. PICK m \in Int : m = Min({c, n})
  BY <1>2
<1>4. Max({d, m}) \in {d, m} /\ Max({d, m}) >= d
  BY GreatestOfTwo
<1> QED
  BY <1>1, <1>2, <1>3, <1>4

LEMMA MergedConfidence ==
  ASSUME NEW m \in 0..100, NEW n \in 0..100, n >= 69 PROVE Max({m, n}) \in 69..100
<1>1. PICK k : k = Max({m, n})
  OBVIOUS
<1>2. k \in {m, n} /\ k >= n
  BY <1>1, GreatestOfTwo
<1> QED
  BY <1>1, <1>2

(* What the rules say of a batch.                                          *)
LEMMA RulesSay ==
  ASSUME NEW b \in Batches
  PROVE  /\ IsResult(Heuristic(b)) /\ Covers(Heuristic(b), b)
         /\ Heuristic(b).verdict = "normal" <=> Findings[b] = <<>>
<1> DEFINE found == Findings[b]
<1>1. found \in Seq(Attacks)
  BY AlertsAssumption
<1>2. CASE found = <<>>
  <2>1. /\ Heuristic(b).verdict = "normal" /\ Heuristic(b).severity = "low"
        /\ Heuristic(b).confidence = 72 /\ Heuristic(b).attack = <<"none">>
    BY <1>2 DEF Heuristic, HeuristicAnalyze
  <2>2. "low" \in Severities /\ "normal" \in Verdicts /\ 72 \in 0..100
        /\ <<"none">> \in Seq(Words)
    BY Ranks DEF Verdicts, Words
  <2> QED
    BY <1>2, <2>1, <2>2 DEF IsResult, Covers
<1>3. CASE found # <<>>
  <2>1. Len(found) \in Nat \ {0} /\ found[1] \in Attacks /\ 1 \in DOMAIN found
    BY <1>1, <1>3
  <2>2. found \in Seq(Words)
    BY <1>1 DEF Words
  <2>3. PrimaryAttackType(found) \in Attacks
    BY <2>1, <2>2, PrimaryIsRanked
  <2>4. FindingsSeverity(ToSet(found)) \in Severities
    BY Ranks DEF FindingsSeverity
  <2>5. Min({95, 62 + 7 * Len(found)}) \in 69..95
    BY <2>1, RuleConfidence
  <2>6. /\ Heuristic(b).verdict \in {"malicious", "suspicious"}
        /\ Heuristic(b).severity = FindingsSeverity(ToSet(found))
        /\ Heuristic(b).confidence = Min({95, 62 + 7 * Len(found)})
        /\ Heuristic(b).attack = <<PrimaryAttackType(found)>>
    BY <1>3 DEF Heuristic, HeuristicAnalyze
  <2>7. Heuristic(b).attack \in Seq(Words)
    BY <2>3, <2>6 DEF Words
  <2>8. Rank[Heuristic(b).severity] >= Rank[Heuristic(b).severity]
    BY <2>4, <2>6, Ranks
  <2>9. IsResult(Heuristic(b))
    <3>1. Heuristic(b).verdict \in Verdicts /\ Heuristic(b).severity \in Severities
      BY <2>4, <2>6 DEF Verdicts
    <3>2. Heuristic(b).confidence \in 0..100
      BY <2>5, <2>6
    <3> QED
      BY <2>7, <3>1, <3>2 DEF IsResult
  <2>10. Covers(Heuristic(b), b)
    <3>1. Heuristic(b).verdict # "normal"
      BY <2>6
    <3>2. Heuristic(b).confidence >= 69
      <4>1. PICK n : n \in 69..95 /\ Heuristic(b).confidence = n
        BY <2>5, <2>6
      <4> QED
        BY <4>1
    <3>3. \E a \in Attacks : Heuristic(b).attack = <<a>>
      BY <2>3, <2>6
    <3> QED
      BY <2>8, <3>1, <3>2, <3>3 DEF Covers
  <2> QED
    BY <1>3, <2>6, <2>9, <2>10
<1> QED
  BY <1>2, <1>3

(* Whatever the model answers is read as a result.                         *)
LEMMA AnswersAreRead ==
  ASSUME NEW raw \in Answers PROVE IsResult(CoerceAiResult(raw))
<1> DEFINE r == CoerceAiResult(raw)
<1>1. raw.confidence \in Seq(Int) /\ raw.attack \in Seq(STRING)
  BY AlertsAssumption
<1>2. r.verdict \in Verdicts /\ r.severity \in Severities
  BY Ranks DEF CoerceAiResult, Verdicts
<1>3. r.confidence \in 0..100
  <2>1. CASE raw.confidence = <<>>
    BY <2>1 DEF CoerceAiResult
  <2>2. CASE raw.confidence # <<>>
    <3>1. Head(raw.confidence) \in Int
      BY <1>1, <2>2
    <3>2. r.confidence = Max({0, Min({100, Head(raw.confidence)})})
      BY <2>2 DEF CoerceAiResult
    <3> QED
      BY <3>1, <3>2, ReadConfidence
  <2> QED
    BY <2>1, <2>2
<1>4. r.attack \in Seq(Words)
  <2>1. raw.attack \in Seq(Words) /\ <<"unknown">> \in Seq(Words)
    BY <1>1 DEF Words
  <2>2. r.attack = IF raw.attack = <<>> THEN <<"unknown">> ELSE raw.attack
    BY DEF CoerceAiResult
  <2> QED
    BY <2>1, <2>2
<1> QED
  BY <1>2, <1>3, <1>4 DEF IsResult

(* The merge keeps what the rules found, whatever the model said.          *)
LEMMA MergeKeepsRules ==
  ASSUME NEW b \in Batches, NEW r, IsResult(r)
  PROVE  /\ IsResult(MergeResultWithHeuristic(r, Heuristic(b)))
         /\ Covers(MergeResultWithHeuristic(r, Heuristic(b)), b)
<1> DEFINE h == Heuristic(b)
           m == MergeResultWithHeuristic(r, h)
<1>1. CASE Findings[b] = <<>>
  BY <1>1, RulesSay DEF MergeResultWithHeuristic, Covers
<1>2. CASE Findings[b] # <<>>
  <2>1. h.verdict # "normal" /\ h.confidence >= 69 /\ IsResult(h)
    BY <1>2, RulesSay DEF Covers
  <2>2. PICK a \in Attacks : h.attack = <<a>>
    BY <1>2, RulesSay DEF Covers
  <2> DEFINE severity == IF Rank[h.severity] > Rank[r.severity] THEN h.severity ELSE r.severity
             all == r.attack \o h.attack
  <2>3. severity \in Severities /\ Rank[severity] >= Rank[h.severity]
    BY <2>1, Ranks DEF IsResult
  <2>4. m.severity = severity
    BY <2>1 DEF MergeResultWithHeuristic
  <2>5. m.verdict = IF r.verdict = "normal" \/ Rank[severity] >= Rank["high"]
                    THEN "malicious" ELSE r.verdict
    BY <2>1 DEF MergeResultWithHeuristic
  <2>6. m.confidence = Max({r.confidence, h.confidence})
    BY <2>1 DEF MergeResultWithHeuristic
  <2>7. m.attack = IF Named(all) # {} THEN <<PrimaryAttackType(all)>> ELSE r.attack
    BY <2>1 DEF MergeResultWithHeuristic
  <2>8. all \in Seq(Words) /\ Len(all) \in DOMAIN all /\ all[Len(all)] = a
    BY <2>1, <2>2 DEF IsResult
  <2>9. Named(all) # {}
    BY <2>8, AttackNames DEF Named
  <2>10. PrimaryAttackType(all) \in Attacks
    BY <2>8, PrimaryIsRanked
  <2>11. m.attack = <<PrimaryAttackType(all)>> /\ m.attack \in Seq(Words)
    BY <2>7, <2>9, <2>10 DEF Words
  <2>12. m.verdict \in Verdicts /\ m.verdict # "normal"
    BY <2>5 DEF IsResult, Verdicts
  <2>13. m.confidence \in 69..100
    <3>1. r.confidence \in 0..100 /\ h.confidence \in 0..100
      BY <2>1 DEF IsResult
    <3> QED
      BY <2>1, <2>6, <3>1, MergedConfidence
  <2> HIDE DEF m, h
  <2>14. IsResult(m)
    BY <2>3, <2>4, <2>11, <2>12, <2>13 DEF IsResult
  <2>15. Rank[m.severity] >= Rank[h.severity] /\ m.confidence >= 69
    BY <2>3, <2>4, <2>13
  <2>16. Covers(m, b)
    BY <2>10, <2>11, <2>12, <2>15 DEF Covers, h
  <2> QED
    BY <2>14, <2>16 DEF m, h
<1> QED
  BY <1>1, <1>2

-----------------------------------------------------------------------------
(* The inductive invariant.  Judged: the handler has its result.  Held:    *)
(* the result waits for the administrator.                                 *)
Judged(i) == job[i] \in {"telling", "done"} \/ pending[i] # "none"
Held(r)   == ShouldAlert(r) /\ RequiresAdminApproval(r)

JobInv(i) ==
  /\ IsResult(result[i])
  /\ job[i] # "idle" => batch[i] \in Batches
  /\ job[i] = "idle" => via[i] = None
  /\ Judged(i) => job[i] # "idle" /\ Covers(result[i], batch[i])
  /\ job[i] \in {"telling", "done"} /\ Held(result[i]) => pending[i] # "none"
  /\ job[i] = "provider" => pending[i] = "none"

(* An entry of PENDING_ALERTS, the call of soar-engine and the answer.     *)
EntryInv(i) ==
  /\ pending[i] # "none" => Held(result[i])
  /\ pending[i] \in {"none", "pending"} => forward[i] = "none"
  /\ pending[i] = "approved" /\ SoarConfigured => forward[i] # "none"
  /\ i \in received => forward[i] # "none"
  /\ forward[i] = "delivered" => i \in received
  /\ answer[i] = 200 /\ SoarConfigured => forward[i] = "delivered"
  /\ pending[i] = "approved" /\ forward[i] \in {"refused", "unanswered"} => answer[i] = 502

(* As long as nothing is forgotten, the poll loop has seen the batch of    *)
(* each of its jobs, and each once.                                        *)
PollInv ==
  ~forgot =>
    /\ \A i \in Jobs : via[i] = "loki" => batch[i] \in seen
    /\ \A i, j \in Jobs :
         i # j /\ via[i] = "loki" /\ via[j] = "loki" => batch[i] # batch[j]

IInv ==
  /\ TypeOK
  /\ result = [i \in Jobs |-> result[i]]
  /\ \A i \in Jobs : JobInv(i) /\ EntryInv(i)
  /\ PollInv

LEMMA InitInv == Init => IInv
<1> SUFFICES ASSUME Init PROVE IInv
  OBVIOUS
<1>1. IsResult(NoResult) /\ NoResult.verdict = "normal"
  <2>1. NoResult = [verdict |-> "normal", severity |-> "low", confidence |-> 72,
                    attack |-> <<"none">>, playbook |-> None]
    BY DEF NoResult, HeuristicAnalyze
  <2>2. "low" \in Severities /\ "normal" \in Verdicts /\ <<"none">> \in Seq(Words)
    BY Ranks DEF Verdicts, Words
  <2> QED
    BY <2>1, <2>2 DEF IsResult
<1>2. result = [i \in Jobs |-> NoResult]
  BY DEF Init
<1>3. TypeOK
  <2>1. \A i \in Jobs : result[i] = NoResult
    BY <1>2
  <2>2. boots \in 0..MaxRestarts
    BY AlertsAssumption DEF Init
  <2> QED
    BY <1>1, <2>1, <2>2
    DEF Init, TypeOK, IsResult, JobStates, PendingStates, ForwardStates
<1>4. ASSUME NEW i \in Jobs PROVE JobInv(i) /\ EntryInv(i)
  BY <1>1 DEF Init, JobInv, EntryInv, Judged
<1>5. PollInv
  BY DEF Init, PollInv, None
<1> QED
  BY <1>2, <1>3, <1>4, <1>5 DEF IInv

(* A job none of whose facts change.                                       *)
Same(i) ==
  /\ job'[i] = job[i] /\ batch'[i] = batch[i] /\ via'[i] = via[i]
  /\ result'[i] = result[i] /\ pending'[i] = pending[i] /\ forward'[i] = forward[i]
  /\ answer'[i] = answer[i] /\ (i \in received' <=> i \in received)

LEMMA Frame ==
  ASSUME NEW i \in Jobs, JobInv(i), EntryInv(i), Same(i)
  PROVE  JobInv(i)' /\ EntryInv(i)' /\ GateOf(i)' = GateOf(i)
<1>1. JobInv(i)'
  BY DEF Same, JobInv, Judged
<1>2. EntryInv(i)'
  BY DEF Same, EntryInv
<1>3. GateOf(i)' = GateOf(i)
  BY DEF Same, GateOf
<1> QED
  BY <1>1, <1>2, <1>3

(* The memory of the poll loop after a step of job i.                      *)
LEMMA PollStep ==
  ASSUME TypeOK, PollInv, NEW i \in Jobs, NEW b, NEW from,
         batch' = [batch EXCEPT ![i] = b], via' = [via EXCEPT ![i] = from],
         ~forgot' =>
           /\ ~forgot /\ seen \subseteq seen'
           /\ from = "loki" => b \in seen' /\ (b \notin seen \/ (batch[i] = b /\ via[i] = from))
  PROVE  PollInv'
<1> SUFFICES ASSUME ~forgot' PROVE PollInv'
  BY DEF PollInv
<1>1. ASSUME NEW j \in Jobs, via'[j] = "loki" PROVE batch'[j] \in seen'
  BY <1>1 DEF TypeOK, PollInv
<1>2. ASSUME NEW j \in Jobs \ {i}, via'[i] = "loki", via'[j] = "loki"
      PROVE  batch'[i] # batch'[j]
  <2>1. via[j] = "loki" /\ batch'[j] = batch[j] /\ batch[j] \in seen
    BY <1>2 DEF TypeOK, PollInv
  <2>2. from = "loki" /\ batch'[i] = b
    BY <1>2 DEF TypeOK
  <2>3. CASE b \notin seen
    BY <2>1, <2>2, <2>3
  <2>4. CASE batch[i] = b /\ via[i] = from
    BY <2>1, <2>2, <2>4 DEF PollInv
  <2> QED
    BY <2>2, <2>3, <2>4
<1>3. ASSUME NEW j \in Jobs \ {i}, NEW k \in Jobs \ {i}, j # k,
             via'[j] = "loki", via'[k] = "loki"
      PROVE  batch'[j] # batch'[k]
  BY <1>3 DEF TypeOK, PollInv
<1> QED
  BY <1>1, <1>2, <1>3 DEF PollInv

LEMMA RememberStep ==
  ASSUME TypeOK, NEW i \in Jobs, NEW hashes \in SUBSET Batches, Remember(i, hashes)
  PROVE  /\ seen' \subseteq Batches /\ forgot' \in BOOLEAN
         /\ ~forgot' => ~forgot /\ seen' = hashes
<1> DEFINE trims == via'[i] = "loki" /\ job'[i] = "done" /\ Cardinality(hashes) > SeenLimit
<1>1. CASE trims
  <2>1. forgot' = TRUE /\ \E kept \in kSubset(SeenKeep, hashes) : seen' = kept
    BY <1>1 DEF Remember
  <2>2. seen' \subseteq hashes
    BY <2>1 DEF kSubset
  <2> QED
    BY <2>1, <2>2
<1>2. CASE ~trims
  BY <1>2 DEF Remember, TypeOK
<1> QED
  BY <1>1, <1>2

(* The handler comes to its result.                                        *)
LEMMA JudgeStep ==
  ASSUME IInv, NEW i \in Jobs, NEW r, NEW b \in Batches, NEW from \in {None, "api", "loki"},
         NEW hashes \in SUBSET Batches, job[i] \in {"idle", "provider"},
         IsResult(r), Covers(r, b), Judge(i, r, hashes),
         batch' = [batch EXCEPT ![i] = b], via' = [via EXCEPT ![i] = from],
         seen \subseteq hashes, backoff' \in BOOLEAN,
         ~forgot /\ from = "loki" =>
           b \in hashes /\ (b \notin seen \/ (batch[i] = b /\ via[i] = from))
  PROVE  /\ IInv' /\ \A j \in Jobs \ {i} : Same(j)
         /\ pending[i] = "none" /\ forward[i] = "none" /\ forward' = forward
         /\ pending'[i] \in {"none", "pending"} /\ job'[i] \in {"telling", "done"}
<1> USE DEF IInv
<1>1. pending[i] = "none" /\ forward[i] = "none"
  BY DEF JobInv, EntryInv, Judged
<1>2. /\ job' = [job EXCEPT ![i] = IF ShouldAlert(r) THEN "telling" ELSE "done"]
      /\ pending' = [pending EXCEPT ![i] = IF Held(r) THEN "pending" ELSE @]
      /\ result' = [result EXCEPT ![i] = r] /\ Remember(i, hashes)
      /\ UNCHANGED <<age, forward, received, answer, boots>>
  BY DEF Judge, Held
<1>3. /\ job'[i] = IF ShouldAlert(r) THEN "telling" ELSE "done"
      /\ pending'[i] = IF Held(r) THEN "pending" ELSE "none"
      /\ result'[i] = r /\ batch'[i] = b /\ via'[i] = from
  BY <1>1, <1>2 DEF TypeOK
<1>4. \A j \in Jobs \ {i} : Same(j)
  BY <1>2 DEF TypeOK, Same
<1>5. /\ seen' \subseteq Batches /\ forgot' \in BOOLEAN
      /\ ~forgot' => ~forgot /\ seen' = hashes
  BY <1>2, RememberStep
<1>6. PollInv'
  BY <1>5, PollStep
<1>7. result' = [j \in Jobs |-> result'[j]]
  BY <1>2
<1>8. \A j \in Jobs : /\ result'[j].verdict \in Verdicts
                       /\ result'[j].severity \in Severities
                       /\ result'[j].confidence \in 0..100
  BY <1>3, <1>4 DEF TypeOK, Same, IsResult
<1>9. TypeOK'
  <2>1. /\ job' \in [Jobs -> JobStates] /\ pending' \in [Jobs -> PendingStates]
        /\ batch' \in [Jobs -> Batches \cup {NoBatch}]
        /\ via' \in [Jobs -> {None, "api", "loki"}]
    BY <1>2 DEF TypeOK, JobStates, PendingStates
  <2> QED
    BY <1>2, <1>5, <1>8, <2>1 DEF TypeOK
<1>10. JobInv(i)' /\ EntryInv(i)'
  <2>1. JobInv(i)'
    BY <1>3 DEF JobInv, Judged
  <2>2. EntryInv(i)'
    BY <1>1, <1>2, <1>3 DEF EntryInv
  <2> QED
    BY <2>1, <2>2
<1>11. ASSUME NEW j \in Jobs \ {i} PROVE JobInv(j)' /\ EntryInv(j)'
  BY <1>4, Frame
<1>12. IInv'
  BY <1>6, <1>7, <1>9, <1>10, <1>11
<1> QED
  BY <1>1, <1>2, <1>3, <1>4, <1>12

LEMMA BeginStep ==
  ASSUME IInv, NEW i \in Jobs, NEW b \in Batches, NEW from \in {"api", "loki"},
         NEW hashes \in SUBSET Batches, Begin(i, b, from, hashes), seen \subseteq hashes,
         from = "loki" => b \in hashes /\ b \notin seen
  PROVE  /\ IInv' /\ \A j \in Jobs \ {i} : Same(j)
         /\ GateOf(i) = "absent" /\ GateOf(i)' \in {"absent", "held", "closed"}
<1> USE DEF IInv
<1>1. /\ job[i] = "idle" /\ backoff' \in BOOLEAN
      /\ batch' = [batch EXCEPT ![i] = b] /\ via' = [via EXCEPT ![i] = from]
  BY DEF Begin, TypeOK
<1>2. pending[i] = "none" /\ forward[i] = "none" /\ GateOf(i) = "absent"
  BY <1>1 DEF JobInv, EntryInv, Judged, GateOf
<1>3. CASE Judge(i, Heuristic(b), hashes)
  <2>1. IsResult(Heuristic(b)) /\ Covers(Heuristic(b), b)
    BY RulesSay
  <2>2. /\ IInv' /\ \A j \in Jobs \ {i} : Same(j)
        /\ forward'[i] = "none" /\ pending'[i] \in {"none", "pending"}
        /\ job'[i] \in {"telling", "done"}
    BY <1>1, <1>3, <2>1, JudgeStep
  <2>3. GateOf(i)' \in {"held", "closed"}
    BY <2>2 DEF GateOf
  <2> QED
    BY <1>2, <2>2, <2>3
<1>4. CASE /\ job' = [job EXCEPT ![i] = "provider"]
           /\ seen' = hashes
           /\ UNCHANGED <<result, pending, age, forward, received, answer, forgot, boots>>
  <2>1. /\ job'[i] = "provider" /\ batch'[i] = b /\ via'[i] = from
        /\ \A j \in Jobs \ {i} : Same(j)
    BY <1>1, <1>4 DEF TypeOK, Same
  <2>2. PollInv'
    BY <1>1, <1>4, PollStep
  <2>3. TypeOK' /\ result' = [j \in Jobs |-> result'[j]]
    BY <1>1, <1>4 DEF TypeOK, JobStates
  <2>4. JobInv(i)' /\ EntryInv(i)'
    BY <1>2, <1>4, <2>1 DEF JobInv, EntryInv, Judged
  <2>5. ASSUME NEW j \in Jobs \ {i} PROVE JobInv(j)' /\ EntryInv(j)'
    BY <2>1, Frame
  <2>6. GateOf(i)' = "absent"
    BY <1>2, <1>4, <2>1 DEF GateOf
  <2> QED
    BY <1>2, <2>1, <2>2, <2>3, <2>4, <2>5, <2>6
<1> QED
  BY <1>3, <1>4 DEF Begin

(* The model has answered, or not.                                         *)
LEMMA ProviderStep ==
  ASSUME IInv, NEW i \in Jobs, (\E raw \in Answers : ProviderAnswers(i, raw)) \/ ProviderFails(i)
  PROVE  /\ IInv' /\ \A j \in Jobs \ {i} : Same(j)
         /\ GateOf(i) = "absent" /\ GateOf(i)' \in {"held", "closed"}
<1> USE DEF IInv
<1>1. /\ job[i] = "provider" /\ batch[i] \in Batches /\ backoff' \in BOOLEAN
      /\ batch' = [batch EXCEPT ![i] = batch[i]] /\ via' = [via EXCEPT ![i] = via[i]]
      /\ via[i] \in {None, "api", "loki"} /\ seen \in SUBSET Batches
  <2>1. /\ job[i] = "provider" /\ batch' = batch /\ via' = via
        /\ backoff' = backoff \/ backoff' = TRUE
    BY DEF ProviderAnswers, ProviderFails
  <2>2. batch[i] \in Batches
    BY <2>1 DEF JobInv
  <2>3. batch \in [Jobs -> Batches \cup {NoBatch}] /\ via \in [Jobs -> {None, "api", "loki"}]
        /\ backoff \in BOOLEAN /\ seen \in SUBSET Batches
    BY DEF TypeOK
  <2>4. batch = [batch EXCEPT ![i] = batch[i]] /\ via = [via EXCEPT ![i] = via[i]]
    BY <2>3
  <2> QED
    BY <2>1, <2>2, <2>3, <2>4
<1>2. PICK r : IsResult(r) /\ Covers(r, batch[i]) /\ Judge(i, r, seen)
  BY <1>1, RulesSay, AnswersAreRead, MergeKeepsRules DEF ProviderAnswers, ProviderFails
<1>3. ~forgot /\ via[i] = "loki" => batch[i] \in seen
  BY DEF PollInv
<1>4. /\ IInv' /\ \A j \in Jobs \ {i} : Same(j)
      /\ pending[i] = "none" /\ forward[i] = "none" /\ forward'[i] = "none"
      /\ pending'[i] \in {"none", "pending"} /\ job'[i] \in {"telling", "done"}
  BY <1>1, <1>2, <1>3, JudgeStep
<1>5. GateOf(i) = "absent" /\ GateOf(i)' \in {"held", "closed"}
  BY <1>1, <1>4 DEF GateOf
<1> QED
  BY <1>4, <1>5

LEMMA ToldStep ==
  ASSUME IInv, NEW i \in Jobs, Told(i)
  PROVE  IInv' /\ \A j \in Jobs : GateOf(j)' = GateOf(j)
<1> USE DEF IInv
<1>1. /\ job[i] = "telling" /\ job' = [job EXCEPT ![i] = "done"] /\ Remember(i, seen)
      /\ UNCHANGED <<batch, via, result, pending, age, forward, received, answer, backoff,
                     boots>>
  BY DEF Told
<1>2. job'[i] = "done" /\ \A j \in Jobs \ {i} : Same(j)
  BY <1>1 DEF TypeOK, Same
<1>3. /\ seen' \subseteq Batches /\ forgot' \in BOOLEAN
      /\ ~forgot' => ~forgot /\ seen' = seen
  BY <1>1, RememberStep DEF TypeOK
<1>4. PollInv'
  BY <1>1, <1>3 DEF PollInv
<1>5. TypeOK' /\ result' = [j \in Jobs |-> result'[j]]
  BY <1>1, <1>3 DEF TypeOK, JobStates
<1>6. JobInv(i)' /\ EntryInv(i)'
  BY <1>1, <1>2 DEF JobInv, EntryInv, Judged
<1>7. GateOf(i)' = GateOf(i)
  BY <1>1, <1>2 DEF GateOf
<1> QED
  BY <1>2, <1>4, <1>5, <1>6, <1>7, Frame

-----------------------------------------------------------------------------
(* The administrator and soar-engine: steps that leave jobs and poll loop  *)
(* alone, and change one entry.                                            *)
OnlyEntries ==
  UNCHANGED <<job, batch, via, result, seen, forgot, backoff, boots>>

LEMMA EntryStep ==
  ASSUME IInv, OnlyEntries, NEW i \in Jobs, \A j \in Jobs \ {i} : Same(j),
         pending'[i] = pending[i] \/ (pending[i] # "none" /\ pending'[i] # "none"),
         pending' \in [Jobs -> PendingStates], age' \in [Jobs -> {"fresh", "due"}],
         forward' \in [Jobs -> ForwardStates], received' \subseteq Jobs,
         answer' \in [Jobs -> {0, 200, 502}], EntryInv(i)'
  PROVE  IInv'
<1> USE DEF IInv
<1>1. TypeOK' /\ result' = [j \in Jobs |-> result'[j]] /\ PollInv'
  BY DEF TypeOK, OnlyEntries, PollInv
<1>2. JobInv(i)'
  BY DEF JobInv, Judged, OnlyEntries
<1> QED
  BY <1>1, <1>2, Frame

LEMMA ApproveStep ==
  ASSUME IInv, NEW i \in Jobs, Approve(i)
  PROVE  /\ IInv' /\ \A j \in Jobs \ {i} : Same(j)
         /\ GateOf(i) = "held" /\ GateOf(i)' \in {"acting", "closed"}
<1> USE DEF IInv
<1>1. /\ pending[i] = "pending" /\ forward[i] = "none" /\ Held(result[i]) /\ OnlyEntries
      /\ pending' = [pending EXCEPT ![i] = "approved"] /\ age' = [age EXCEPT ![i] = "fresh"]
      /\ received' = received
  BY DEF Approve, EntryInv, OnlyEntries
<1>2. \/ SoarConfigured /\ forward' = [forward EXCEPT ![i] = "sending"] /\ answer' = answer
      \/ ~SoarConfigured /\ answer' = [answer EXCEPT ![i] = 200] /\ forward' = forward
  BY DEF Approve
<1>3. \A j \in Jobs \ {i} : Same(j)
  BY <1>1, <1>2 DEF TypeOK, Same, OnlyEntries
<1>4. /\ pending' \in [Jobs -> PendingStates] /\ age' \in [Jobs -> {"fresh", "due"}]
      /\ forward' \in [Jobs -> ForwardStates] /\ answer' \in [Jobs -> {0, 200, 502}]
      /\ received' \subseteq Jobs
  BY <1>1, <1>2 DEF TypeOK, PendingStates, Resolved, ForwardStates
<1>5. /\ pending'[i] = "approved" /\ result'[i] = result[i]
      /\ forward'[i] = IF SoarConfigured THEN "sending" ELSE "none"
      /\ SoarConfigured => answer'[i] = answer[i]
  BY <1>1, <1>2 DEF TypeOK, OnlyEntries
<1>6. EntryInv(i)'
  BY <1>1, <1>5 DEF EntryInv, Held
<1>7. GateOf(i) = "held" /\ GateOf(i)' \in {"acting", "closed"}
  BY <1>1, <1>5 DEF GateOf
<1> QED
  BY <1>1, <1>3, <1>4, <1>5, <1>6, <1>7, EntryStep

LEMMA DismissStep ==
  ASSUME IInv, NEW i \in Jobs, Dismiss(i)
  PROVE  /\ IInv' /\ \A j \in Jobs \ {i} : Same(j)
         /\ GateOf(i) = "held" /\ GateOf(i)' = "closed"
<1> USE DEF IInv
<1>1. /\ pending[i] = "pending" /\ forward[i] = "none" /\ Held(result[i]) /\ OnlyEntries
      /\ pending' = [pending EXCEPT ![i] = "dismissed"] /\ age' = [age EXCEPT ![i] = "fresh"]
      /\ UNCHANGED <<forward, received, answer>>
  BY DEF Dismiss, EntryInv, OnlyEntries
<1>2. \A j \in Jobs \ {i} : Same(j)
  BY <1>1 DEF TypeOK, Same, OnlyEntries
<1>3. pending' \in [Jobs -> PendingStates] /\ age' \in [Jobs -> {"fresh", "due"}]
  BY <1>1 DEF TypeOK, PendingStates, Resolved
<1>4. pending'[i] = "dismissed" /\ result'[i] = result[i]
  BY <1>1 DEF TypeOK, OnlyEntries
<1>5. EntryInv(i)'
  BY <1>1, <1>4 DEF EntryInv, Held
<1>6. GateOf(i) = "held" /\ GateOf(i)' = "closed"
  BY <1>1, <1>4 DEF GateOf
<1>7. IInv'
  BY <1>1, <1>2, <1>3, <1>4, <1>5, EntryStep DEF TypeOK
<1> QED
  BY <1>2, <1>6, <1>7

LEMMA ReceiveStep ==
  ASSUME IInv, NEW i \in Jobs, SoarReceives(i)
  PROVE  IInv' /\ \A j \in Jobs : GateOf(j)' = GateOf(j)
<1> USE DEF IInv
<1>1. /\ forward[i] \in {"sending", "unanswered"} /\ received' = received \cup {i}
      /\ UNCHANGED <<pending, age, forward, answer>> /\ OnlyEntries
  BY DEF SoarReceives, OnlyEntries
<1>2. \A j \in Jobs \ {i} : Same(j)
  BY <1>1 DEF TypeOK, Same, OnlyEntries
<1>3. EntryInv(i)'
  BY <1>1 DEF EntryInv, OnlyEntries, Held
<1>4. IInv'
  BY <1>1, <1>2, <1>3, EntryStep DEF TypeOK
<1>5. \A j \in Jobs : GateOf(j)' = GateOf(j)
  BY <1>1 DEF GateOf, OnlyEntries
<1> QED
  BY <1>4, <1>5

LEMMA ForwardStep ==
  ASSUME IInv, NEW i \in Jobs, ForwardSucceeds(i) \/ ForwardRefused(i) \/ ForwardTimesOut(i)
  PROVE  /\ IInv' /\ \A j \in Jobs \ {i} : Same(j)
         /\ GateOf(i) = "acting" /\ GateOf(i)' = "closed"
<1> USE DEF IInv
<1>1. PICK how, code :
        /\ ForwardEnds(i, how, code)
        /\ \/ how = "delivered" /\ code = 200 /\ i \in received
           \/ how \in {"refused", "unanswered"} /\ code = 502
  BY DEF ForwardSucceeds, ForwardRefused, ForwardTimesOut
<1>2. /\ forward[i] = "sending" /\ pending[i] \notin {"none", "pending"}
      /\ forward' = [forward EXCEPT ![i] = how] /\ answer' = [answer EXCEPT ![i] = code]
      /\ UNCHANGED <<pending, age, received>> /\ OnlyEntries
  BY <1>1 DEF ForwardEnds, OnlyEntries, EntryInv
<1>3. \A j \in Jobs \ {i} : Same(j)
  BY <1>2 DEF TypeOK, Same, OnlyEntries
<1>4. forward' \in [Jobs -> ForwardStates] /\ answer' \in [Jobs -> {0, 200, 502}]
  BY <1>1, <1>2 DEF TypeOK, ForwardStates
<1>5. forward'[i] = how /\ answer'[i] = code
  BY <1>2 DEF TypeOK
<1>6. EntryInv(i)'
  BY <1>1, <1>2, <1>5 DEF EntryInv, Held, OnlyEntries
<1>7. IInv'
  BY <1>2, <1>3, <1>4, <1>6, EntryStep DEF TypeOK
<1>8. GateOf(i) = "acting" /\ GateOf(i)' = "closed"
  BY <1>1, <1>2, <1>5 DEF GateOf
<1> QED
  BY <1>3, <1>7, <1>8

-----------------------------------------------------------------------------
(* The clocks and the crash: many entries may change at once.              *)
LEMMA SweepStep ==
  ASSUME IInv, Sweep
  PROVE  /\ IInv'
         /\ \A i \in Jobs : GateOf(i)' = GateOf(i) \/ GateOf(i)' = "closed"
<1> USE DEF IInv
<1> DEFINE due(i) == age[i] = "due" /\ pending[i] \in {"pending"} \cup Resolved
<1>1. /\ \A i \in Jobs : pending'[i] = IF due(i) THEN Swept(pending[i]) ELSE pending[i]
      /\ pending' = [i \in Jobs |-> pending'[i]]
      /\ age' \in [Jobs -> {"fresh", "due"}]
      /\ UNCHANGED <<job, batch, via, result, forward, received, answer, seen, forgot,
                     backoff, boots>>
  BY DEF Sweep, TypeOK
<1>2. ASSUME NEW i \in Jobs
      PROVE  /\ pending'[i] \in PendingStates
             /\ JobInv(i)' /\ EntryInv(i)'
             /\ GateOf(i)' = GateOf(i) \/ GateOf(i)' = "closed"
  <2>1. JobInv(i) /\ EntryInv(i) /\ pending[i] \in PendingStates
    BY DEF TypeOK
  <2>2. CASE pending'[i] = pending[i]
    <3>1. Same(i)
      BY <1>1, <2>2 DEF Same
    <3> QED
      BY <2>1, <2>2, <3>1, Frame
  <2>3. CASE pending[i] = "pending" /\ pending'[i] = "expired"
    <3>1. JobInv(i)'
      BY <1>1, <2>1, <2>3 DEF JobInv, Judged
    <3>2. EntryInv(i)'
      BY <1>1, <2>1, <2>3 DEF EntryInv, Held
    <3>3. GateOf(i)' = "closed"
      BY <1>1, <2>1, <2>3 DEF GateOf, EntryInv
    <3> QED
      BY <2>3, <3>1, <3>2, <3>3 DEF PendingStates, Resolved
  <2>4. CASE pending[i] \in Resolved /\ pending'[i] = "gone"
    <3>1. JobInv(i)'
      BY <1>1, <2>1, <2>4 DEF JobInv, Judged, Resolved
    <3>2. EntryInv(i)'
      BY <1>1, <2>1, <2>4 DEF EntryInv, Held, Resolved
    <3>3. GateOf(i)' = GateOf(i)
      BY <1>1, <2>4 DEF GateOf, Resolved
    <3> QED
      BY <2>4, <3>1, <3>2, <3>3 DEF PendingStates
  <2> QED
    BY <1>1, <2>2, <2>3, <2>4 DEF Swept, Resolved
<1>3. TypeOK' /\ result' = [j \in Jobs |-> result'[j]] /\ PollInv'
  BY <1>1, <1>2 DEF TypeOK, PollInv
<1> QED
  BY <1>2, <1>3

LEMMA RestartStep ==
  ASSUME IInv, Restart
  PROVE  /\ IInv'
         /\ \A i \in Jobs : GateOf(i)' = GateOf(i) \/ GateOf(i)' = "closed"
<1> USE DEF IInv
<1>1. /\ boots < MaxRestarts /\ boots' = boots + 1 /\ forgot' = TRUE /\ seen' = {}
      /\ backoff' = FALSE /\ UNCHANGED <<batch, via, result, age, received, answer>>
  BY DEF Restart
<1>2. ASSUME NEW i \in Jobs
      PROVE  /\ job'[i] = IF job[i] \in {"provider", "telling"} THEN "cut" ELSE job[i]
             /\ pending'[i] = IF pending[i] = "none" THEN "none" ELSE "gone"
             /\ forward'[i] = IF forward[i] = "sending" THEN "unanswered" ELSE forward[i]
  BY DEF Restart
<1>3. ASSUME NEW i \in Jobs PROVE JobInv(i)' /\ EntryInv(i)'
  <2>1. JobInv(i) /\ EntryInv(i) /\ job[i] \in JobStates
    BY DEF TypeOK
  <2>2. JobInv(i)'
    BY <1>1, <1>2, <2>1 DEF JobInv, Judged, JobStates
  <2>3. EntryInv(i)'
    BY <1>1, <1>2, <2>1 DEF EntryInv, Held
  <2> QED
    BY <2>2, <2>3
<1>4. TypeOK' /\ result' = [j \in Jobs |-> result'[j]] /\ PollInv'
  <2>1. boots' \in 0..MaxRestarts
    BY <1>1, AlertsAssumption DEF TypeOK
  <2>2. /\ job' \in [Jobs -> JobStates] /\ pending' \in [Jobs -> PendingStates]
        /\ forward' \in [Jobs -> ForwardStates]
    BY DEF Restart, TypeOK, JobStates, PendingStates, ForwardStates
  <2>3. TypeOK'
    BY <1>1, <2>1, <2>2 DEF TypeOK
  <2>4. PollInv'
    BY <1>1 DEF PollInv
  <2> QED
    BY <1>1, <2>3, <2>4
<1>5. ASSUME NEW i \in Jobs PROVE GateOf(i)' = GateOf(i) \/ GateOf(i)' = "closed"
  <2>1. JobInv(i) /\ EntryInv(i) /\ forward'[i] # "sending" /\ pending'[i] # "pending"
    BY <1>2
  <2>2. CASE pending[i] # "none"
    BY <1>2, <2>1, <2>2 DEF GateOf
  <2>3. CASE pending[i] = "none"
    <3>1. forward[i] = "none" /\ pending'[i] = "none" /\ forward'[i] = "none"
      BY <1>2, <2>1, <2>3 DEF EntryInv
    <3>2. CASE job[i] \in {"provider", "telling"}
      BY <1>2, <2>3, <3>1, <3>2 DEF GateOf
    <3>3. CASE job[i] \notin {"provider", "telling"}
      BY <1>2, <2>3, <3>1, <3>3 DEF GateOf
    <3> QED
      BY <3>2, <3>3
  <2> QED
    BY <2>2, <2>3
<1> QED
  BY <1>3, <1>4, <1>5

LEMMA QuietStep ==
  ASSUME IInv, (\E i \in Jobs : GrowsOld(i)) \/ BackoffEnds \/ UNCHANGED vars
  PROVE  IInv' /\ \A i \in Jobs : GateOf(i)' = GateOf(i)
<1> USE DEF IInv
<1>1. UNCHANGED <<job, batch, via, result, pending, forward, received, answer, seen, forgot,
                  boots>>
  BY DEF GrowsOld, BackoffEnds, vars
<1>2. age' \in [Jobs -> {"fresh", "due"}] /\ backoff' \in BOOLEAN
  <2>1. age \in [Jobs -> {"fresh", "due"}] /\ backoff \in BOOLEAN
    BY DEF TypeOK
  <2>2. CASE \E i \in Jobs : GrowsOld(i)
    BY <2>1, <2>2 DEF GrowsOld
  <2>3. CASE BackoffEnds
    BY <2>1, <2>3 DEF BackoffEnds
  <2>4. CASE UNCHANGED vars
    BY <2>1, <2>4 DEF vars
  <2> QED
    BY <2>2, <2>3, <2>4
<1>3. TypeOK' /\ result' = [j \in Jobs |-> result'[j]] /\ PollInv'
  BY <1>1, <1>2 DEF TypeOK, PollInv
<1>4. \A i \in Jobs : Same(i)
  BY <1>1 DEF Same
<1> QED
  BY <1>3, <1>4, Frame

-----------------------------------------------------------------------------
(* One job's gate moves while the others rest, or several close at once.   *)
LEMMA OneMoves ==
  ASSUME NEW i \in Jobs, \A j \in Jobs \ {i} : GateOf(j)' = GateOf(j)
  PROVE  /\ GateState[i] = GateOf(i)
         /\ GateState' = [GateState EXCEPT ![i] = GateOf(i)']
<1>1. \A j \in Jobs : GateState[j] = GateOf(j) /\ GateState'[j] = GateOf(j)'
  BY DEF GateState
<1>2. GateState' = [j \in Jobs |-> GateState'[j]] /\ GateState = [j \in Jobs |-> GateState[j]]
  BY DEF GateState
<1> QED
  BY <1>1, <1>2

LEMMA SomeClose ==
  ASSUME \A i \in Jobs : GateOf(i)' = GateOf(i) \/ GateOf(i)' = "closed"
  PROVE  \E S \in SUBSET Jobs : Gate!GiveUp(S)
<1> DEFINE S == {i \in Jobs : GateOf(i)' = "closed"}
<1>1. GateState' = [i \in Jobs |-> IF i \in S THEN "closed" ELSE GateState[i]]
  BY DEF GateState
<1> QED
  BY <1>1 DEF Gate!GiveUp

LEMMA Step ==
  ASSUME IInv, [Next]_vars
  PROVE  IInv' /\ [Gate!Next]_GateState
<1> USE DEF Gate!Next
<1>1. ASSUME NEW i \in Jobs, NEW b \in Batches, Analyze(i, b) \/ Poll(i, b)
      PROVE  IInv' /\ [Gate!Next]_GateState
  <2>1. /\ IInv' /\ \A j \in Jobs \ {i} : Same(j)
        /\ GateOf(i) = "absent" /\ GateOf(i)' \in {"absent", "held", "closed"}
    <3>1. seen \in SUBSET Batches /\ seen \cup {b} \in SUBSET Batches
      BY DEF IInv, TypeOK
    <3>2. CASE Analyze(i, b)
      BY <3>1, <3>2, BeginStep DEF Analyze
    <3>3. CASE Poll(i, b)
      BY <3>1, <3>3, BeginStep DEF Poll
    <3> QED
      BY <1>1, <3>2, <3>3
  <2>2. \A j \in Jobs \ {i} : GateOf(j)' = GateOf(j)
    BY <2>1, Frame DEF IInv
  <2>3. GateState' = [GateState EXCEPT ![i] = GateOf(i)'] /\ GateState[i] = "absent"
    BY <2>1, <2>2, OneMoves
  <2>4. CASE GateOf(i)' = "absent"
    BY <2>1, <2>3, <2>4 DEF GateState
  <2> QED
    BY <2>1, <2>3, <2>4 DEF Gate!Hold, Gate!Dismiss, Gate!Move
<1>2. ASSUME NEW i \in Jobs, (\E raw \in Answers : ProviderAnswers(i, raw)) \/ ProviderFails(i)
      PROVE  IInv' /\ [Gate!Next]_GateState
  <2>1. \A j \in Jobs \ {i} : GateOf(j)' = GateOf(j)
    BY <1>2, ProviderStep, Frame DEF IInv
  <2> QED
    BY <1>2, <2>1, ProviderStep, OneMoves DEF Gate!Hold, Gate!Dismiss, Gate!Move
<1>3. ASSUME NEW i \in Jobs, Approve(i) PROVE IInv' /\ [Gate!Next]_GateState
  <2>1. \A j \in Jobs \ {i} : GateOf(j)' = GateOf(j)
    BY <1>3, ApproveStep, Frame DEF IInv
  <2> QED
    BY <1>3, <2>1, ApproveStep, OneMoves DEF Gate!Approve, Gate!Reject, Gate!Move
<1>4. ASSUME NEW i \in Jobs, Dismiss(i) PROVE IInv' /\ [Gate!Next]_GateState
  <2>1. \A j \in Jobs \ {i} : GateOf(j)' = GateOf(j)
    BY <1>4, DismissStep, Frame DEF IInv
  <2> QED
    BY <1>4, <2>1, DismissStep, OneMoves DEF Gate!Reject, Gate!Move
<1>5. ASSUME NEW i \in Jobs, ForwardSucceeds(i) \/ ForwardRefused(i) \/ ForwardTimesOut(i)
      PROVE  IInv' /\ [Gate!Next]_GateState
  <2>1. \A j \in Jobs \ {i} : GateOf(j)' = GateOf(j)
    BY <1>5, ForwardStep, Frame DEF IInv
  <2> QED
    BY <1>5, <2>1, ForwardStep, OneMoves DEF Gate!Complete, Gate!Move
<1>6. ASSUME NEW i \in Jobs, Told(i) \/ SoarReceives(i)
      PROVE  IInv' /\ [Gate!Next]_GateState
  BY <1>6, ToldStep, ReceiveStep DEF GateState
<1>7. CASE Sweep \/ Restart
  BY <1>7, SweepStep, RestartStep, SomeClose
<1>8. CASE (\E i \in Jobs : GrowsOld(i)) \/ BackoffEnds \/ UNCHANGED vars
  BY <1>8, QuietStep DEF GateState
<1> QED
  BY <1>1, <1>2, <1>3, <1>4, <1>5, <1>6, <1>7, <1>8 DEF Next, HandlerStep

LEMMA Invariance == Spec => []IInv
<1>1. IInv /\ [Next]_vars => IInv'
  BY Step
<1> QED
  BY <1>1, InitInv, PTL DEF Spec

-----------------------------------------------------------------------------
(* Jobs, verdicts, entries, forwards and the poll loop's memory keep their *)
(* types.                                                                  *)
THEOREM Typing == Spec => []TypeOK
<1>1. IInv => TypeOK
  BY DEF IInv
<1> QED
  BY <1>1, Invariance, PTL

(* Whatever the model answers or fails to answer, what the rules find is   *)
(* raised and queued; and the poll loop raises nothing twice unless it was *)
(* restarted or had to trim its memory (handle_logs, poll_loki_loop).      *)
THEOREM NoAttackIsLost == Spec => []AttacksAreRaised
<1>1. ASSUME IInv PROVE ProviderCannotSuppress
  <2> SUFFICES ASSUME NEW i \in Jobs, job[i] \in {"telling", "done"},
                      ShouldAlert(Heuristic(batch[i]))
               PROVE  /\ ShouldAlert(result[i])
                      /\ RequiresAdminApproval(Heuristic(batch[i])) => pending[i] # "none"
    BY DEF ProviderCannotSuppress
  <2> DEFINE rules == Heuristic(batch[i])
  <2>1. JobInv(i)
    BY <1>1 DEF IInv
  <2>2. batch[i] \in Batches /\ Covers(result[i], batch[i]) /\ IsResult(result[i])
    BY <2>1 DEF JobInv, Judged
  <2>3. Findings[batch[i]] # <<>> /\ IsResult(rules)
    BY <2>2, RulesSay DEF ShouldAlert
  <2>4. result[i].verdict # "normal" /\ Rank[result[i].severity] >= Rank[rules.severity]
    BY <2>2, <2>3 DEF Covers
  <2>5. Rank[result[i].severity] \in Int /\ Rank[rules.severity] \in Int
        /\ MinAlertRank \in Int /\ ApprovalRank \in Int
    BY <2>2, <2>3, Ranks, VerdictAssumption DEF IsResult
  <2>6. ShouldAlert(result[i])
    BY <2>4, <2>5 DEF ShouldAlert
  <2>7. RequiresAdminApproval(rules) => RequiresAdminApproval(result[i])
    BY <2>4, <2>5 DEF RequiresAdminApproval
  <2> QED
    BY <2>1, <2>6, <2>7 DEF JobInv, Held
<1>2. IInv => DuplicatesHaveACause
  BY DEF IInv, PollInv, DuplicatesHaveACause
<1>3. IInv => AttacksAreRaised
  BY <1>1, <1>2 DEF AttacksAreRaised
<1> QED
  BY <1>3, Invariance, PTL

(* The queue of pending alerts is a HitlGate: an alert is decided once,    *)
(* and forwarded at most once and only when it was approved                *)
(* (approve_pending, dismiss_pending, expire_pending_loop).                *)
THEOREM AlertsImplementGate == Spec => GateSpec
<1>1. Init => Gate!Init
  BY DEF Init, Gate!Init, GateState, GateOf
<1>2. IInv /\ [Next]_vars => [Gate!Next]_GateState
  BY Step
<1> QED
  BY <1>1, <1>2, Invariance, PTL DEF Spec, GateSpec, Gate!Spec

(* The alert that is forwarded names an attack both services know, so that *)
(* soar-engine finds a playbook for it.                                    *)
LEMMA KnownAttacksAgree ==
  \A a \in Attacks : /\ a \in Soar!KnownAttacks
                     /\ Soar!PlaybookByAttack[a] # "monitor_only"
BY DEF Attacks, AttackPlaybooks, Soar!KnownAttacks, Soar!PlaybookByAttack

LEMMA SingletonMin == ASSUME NEW S, S = {1} PROVE Soar!Min(S) = 1
BY DEF Soar!Min

LEMMA KnownIsFound ==
  ASSUME NEW r, NEW a \in Attacks, r.attack = <<a>>
  PROVE  Soar!FirstKnownAttack(SoarAlert(r)) = a
<1> DEFINE tokens   == SoarAlert(r).tokens
           known    == {k \in DOMAIN tokens : tokens[k] \in Soar!KnownAttacks}
           matching == {k \in known :
                         Soar!PlaybookByAttack[tokens[k]] = SoarAlert(r).recommended}
<1>1. tokens = <<a>>
  BY DEF SoarAlert
<1>2. known = {1} /\ tokens[1] = a
  BY <1>1, KnownAttacksAgree
<1>3. Soar!FirstKnownAttack(SoarAlert(r))
        = CASE matching # {}               -> tokens[Soar!Min(matching)]
            [] matching = {} /\ known # {} -> tokens[Soar!Min(known)]
            [] OTHER                       -> "unknown"
  BY DEF Soar!FirstKnownAttack
<1>4. CASE matching = {}
  <2>1. Soar!Min(known) = 1
    BY <1>2, SingletonMin
  <2> HIDE DEF tokens, known, matching
  <2> QED
    BY <1>2, <1>3, <1>4, <2>1
<1>5. CASE matching # {}
  <2>1. matching = {1}
    BY <1>2, <1>5
  <2>2. Soar!Min(matching) = 1
    BY <2>1, SingletonMin
  <2> HIDE DEF tokens, known, matching
  <2> QED
    BY <1>2, <1>3, <1>5, <2>2
<1> QED
  BY <1>4, <1>5

(* An approved alert is acted on by soar-engine, or the administrator was  *)
(* told that it could not be handed over (approve_pending,                 *)
(* forward_alert_to_soar).                                                 *)
THEOREM ApprovalsAreKept ==
  ASSUME ThresholdsAgree PROVE Spec => []ApprovalIsKept
<1>1. ASSUME IInv PROVE ApprovedIsActedOn
  <2> SUFFICES ASSUME NEW i \in received
               PROVE  /\ Soar!Disposition(SoarAlert(result[i])) # "hold"
                      /\ Findings[batch[i]] # <<>> =>
                           Soar!Disposition(SoarAlert(result[i])) = "run"
    BY DEF ApprovedIsActedOn
  <2> DEFINE r     == result[i]
             alert == SoarAlert(r)
  <2>1. i \in Jobs /\ JobInv(i) /\ EntryInv(i)
    BY <1>1 DEF IInv, TypeOK
  <2>2. /\ Held(r) /\ IsResult(r) /\ Covers(r, batch[i])
    BY <2>1 DEF JobInv, EntryInv, Judged
  <2>3. ~Soar!NeedsHitl(alert)
    BY DEF Soar!NeedsHitl, SoarAlert
  <2>4. Soar!Disposition(alert) # "hold"
    BY <2>3 DEF Soar!Disposition
  <2>5. ASSUME Findings[batch[i]] # <<>> PROVE Soar!Disposition(alert) = "run"
    <3>1. PICK a \in Attacks : r.attack = <<a>>
      BY <2>2, <2>5 DEF Covers
    <3>2. Soar!FirstKnownAttack(alert) = a
      BY <3>1, KnownIsFound
    <3>3. Soar!SelectPlaybook(alert, a) # "monitor_only"
      BY KnownAttacksAgree DEF Soar!SelectPlaybook
    <3>4. Soar!ShouldExecute(alert)
      <4>1. alert.verdict = r.verdict /\ alert.severity = r.severity
            /\ alert.confident = (r.confidence >= SoarMinConfidence)
        BY DEF SoarAlert
      <4>2. r.verdict # "normal" /\ r.confidence >= 69 /\ r.confidence \in 0..100
        BY <2>2, <2>5 DEF Covers, IsResult
      <4>3. r.confidence >= SoarMinConfidence
        <5>1. SoarMinConfidence \in Int /\ SoarMinConfidence <= 69
          BY AlertsAssumption DEF ThresholdsAgree
        <5> HIDE DEF r
        <5> QED
          BY <4>2, <5>1
      <4>4. Soar!SeverityRank[r.severity] = Rank[r.severity]
        BY <2>2 DEF Soar!SeverityRank, Rank, IsResult, Severities
      <4>5. Rank[r.severity] >= SoarMinRank
        <5>1. Rank[r.severity] >= ApprovalRank /\ Rank[r.severity] \in Int
          BY <2>2, Ranks DEF Held, RequiresAdminApproval, IsResult
        <5> QED
          BY <5>1, VerdictAssumption, AlertsAssumption DEF ThresholdsAgree
      <4> HIDE DEF alert, r
      <4> QED
        BY <4>1, <4>2, <4>3, <4>4, <4>5 DEF Soar!ShouldExecute
    <3> QED
      BY <2>3, <3>2, <3>3, <3>4 DEF Soar!Disposition
  <2> QED
    BY <2>4, <2>5
<1>2. IInv => ApprovalIsAccountedFor
  <2> SUFFICES ASSUME IInv, SoarConfigured, NEW i \in Jobs
               PROVE  /\ answer[i] = 200 => i \in received
                      /\ pending[i] = "approved" /\ forward[i] # "sending" /\ i \notin received
                           => answer[i] = 502
    BY DEF ApprovalIsAccountedFor
  <2>1. EntryInv(i) /\ forward[i] \in ForwardStates
    BY DEF IInv, TypeOK
  <2> QED
    BY <2>1 DEF EntryInv, ForwardStates
<1>3. IInv => ApprovalIsKept
  BY <1>1, <1>2 DEF ApprovalIsKept
<1> QED
  BY <1>3, Invariance, PTL
=============================================================================
