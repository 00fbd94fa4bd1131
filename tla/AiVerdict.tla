------------------------------ MODULE AiVerdict ------------------------------
(***************************************************************************)
(* How ai-analyzer judges a batch of log lines: the rule-based verdict,    *)
(* the reading of what a language model answered, the merge of the two,    *)
(* and the thresholds for an alert and for an administrator's approval.    *)
(*                                                                         *)
(* A batch is abstracted to its findings, the sequence of the attacks      *)
(* MALICIOUS_PATTERNS finds in it, each once, in the order found.  A       *)
(* confidence is in hundredths.  A result keeps the fields that steer what *)
(* ai-analyzer and soar-engine do next; attack is the sequence of the      *)
(* tokens of the comma-separated attack_type.                              *)
(***************************************************************************)
EXTENDS Integers, Sequences, SequencesExt, FiniteSetsExt

CONSTANTS
  MinAlertRank,   \* SEVERITY_RANK of AI_ANALYZER_MIN_ALERT_SEVERITY
  ApprovalRank    \* SEVERITY_RANK of AI_ANALYZER_ADMIN_APPROVAL_SEVERITY

ASSUME VerdictAssumption == MinAlertRank \in 1..4 /\ ApprovalRank \in 1..4

None == "none"

Rank == [low |-> 1, medium |-> 2, high |-> 3, critical |-> 4]
Severities == DOMAIN Rank
Verdicts   == {"normal", "suspicious", "malicious"}

(* ATTACK_PLAYBOOKS; its keys are the attacks the patterns can find.       *)
AttackPlaybooks ==
  [ brute_force          |-> "revoke_user_sessions",
    credential_stuffing  |-> "revoke_user_sessions",
    jwt_replay           |-> "revoke_user_sessions",
    fraud_gate_bypass    |-> "isolate_workload",
    lateral_movement     |-> "isolate_workload",
    account_manipulation |-> "isolate_workload",
    large_response       |-> "restrict_egress",
    data_staging         |-> "restrict_egress",
    cryptomining         |-> "quarantine_workload",
    container_escape     |-> "quarantine_workload",
    impair_defenses      |-> "quarantine_workload",
    privilege_escalation |-> "quarantine_workload",
    port_scan            |-> "block_source_ip",
    exploit_probe        |-> "block_source_ip",
    access_denied        |-> "block_source_ip" ]

Attacks == DOMAIN AttackPlaybooks

PriorityOrder ==
  <<"fraud_gate_bypass", "lateral_movement", "cryptomining", "container_escape",
    "large_response", "data_staging", "brute_force", "credential_stuffing",
    "jwt_replay", "port_scan", "exploit_probe", "privilege_escalation",
    "impair_defenses", "account_manipulation", "access_denied">>

CriticalAttacks ==
  {"fraud_gate_bypass", "container_escape", "privilege_escalation", "impair_defenses"}
HighAttacks ==
  {"large_response", "brute_force", "credential_stuffing", "data_staging",
   "cryptomining", "account_manipulation", "lateral_movement"}
MediumAttacks == {"port_scan", "access_denied"}

(* _primary_attack_type: the reason ranked first, otherwise the first one. *)
(* Its callers drop what names no attack before they pass the reasons.     *)
Named(reasons) == {k \in DOMAIN reasons : reasons[k] \notin {"none", "unknown"}}

PrimaryAttackType(reasons) ==
  LET ranked == {k \in DOMAIN PriorityOrder : PriorityOrder[k] \in ToSet(reasons)}
  IN  CASE ranked # {}                          -> PriorityOrder[Min(ranked)]
        [] ranked = {} /\ Named(reasons) # {}   -> reasons[Min(Named(reasons))]
        [] OTHER                                -> "unknown"

-----------------------------------------------------------------------------
(* heuristic_analyze; each finding is one match, so the confidence is the  *)
(* least the code can compute for these findings.                          *)
FindingsSeverity(found) ==
  CASE found \cap CriticalAttacks # {} -> "critical"
    [] found \cap CriticalAttacks = {} /\ found \cap HighAttacks # {} -> "high"
    [] found \cap (CriticalAttacks \cup HighAttacks) = {}
         /\ found \cap MediumAttacks # {} -> "medium"
    [] OTHER -> "high"

HeuristicAnalyze(findings) ==
  IF findings = <<>>
  THEN [verdict |-> "normal", severity |-> "low", confidence |-> 72,
        attack |-> <<"none">>, playbook |-> None]
  ELSE LET severity == FindingsSeverity(ToSet(findings))
       IN  [verdict    |-> IF severity \in {"high", "critical"}
                           THEN "malicious" ELSE "suspicious",
            severity   |-> severity,
            confidence |-> Min({95, 62 + 7 * Len(findings)}),
            attack     |-> <<PrimaryAttackType(findings)>>,
            playbook   |-> AttackPlaybooks[Head(findings)]]

(* _normalize_ai_json and _coerce_ai_result: whatever the model answered,  *)
(* with unreadable as the value of a missing or unusable field.            *)
Unreadable == "unreadable"

\* Mutation: the verdict is taken as it comes.
CoerceAiResult_m(raw) ==
  [ verdict    |-> raw.verdict,
    severity   |-> IF raw.severity \in Severities THEN raw.severity ELSE "medium",
    confidence |-> IF raw.confidence = <<>> THEN 60
                   ELSE Max({0, Min({100, Head(raw.confidence)})}),
    attack     |-> IF raw.attack = <<>> THEN <<"unknown">> ELSE raw.attack,
    playbook   |-> raw.playbook ]

CoerceAiResult(raw) ==
  [ verdict    |-> IF raw.verdict \in Verdicts THEN raw.verdict ELSE "suspicious",
    severity   |-> IF raw.severity \in Severities THEN raw.severity ELSE "medium",
    confidence |-> IF raw.confidence = <<>> THEN 60
                   ELSE Max({0, Min({100, Head(raw.confidence)})}),
    attack     |-> IF raw.attack = <<>> THEN <<"unknown">> ELSE raw.attack,
    playbook   |-> raw.playbook ]

(* _merge_result_with_heuristic *)
\* Mutation: the model's answer stands as it is.
MergeResultWithHeuristic_m(result, heuristic) == result

MergeResultWithHeuristic(result, heuristic) ==
  IF heuristic.verdict = "normal" THEN result
  ELSE LET merged   == result.attack \o heuristic.attack
           severity == IF Rank[heuristic.severity] > Rank[result.severity]
                       THEN heuristic.severity ELSE result.severity
       IN  [ verdict    |-> IF result.verdict = "normal" \/ Rank[severity] >= Rank["high"]
                            THEN "malicious" ELSE result.verdict,
             severity   |-> severity,
             confidence |-> Max({result.confidence, heuristic.confidence}),
             attack     |-> IF Named(merged) # {} THEN <<PrimaryAttackType(merged)>>
                            ELSE result.attack,
             playbook   |-> IF result.playbook # None THEN result.playbook
                            ELSE heuristic.playbook ]

ShouldAlert(result) ==
  result.verdict # "normal" /\ Rank[result.severity] >= MinAlertRank

RequiresAdminApproval(result) == Rank[result.severity] >= ApprovalRank
=============================================================================
