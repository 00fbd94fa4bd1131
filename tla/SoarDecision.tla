---------------------------- MODULE SoarDecision ----------------------------
(***************************************************************************)
(* The pure decisions of soar-engine: which attack an alert is about,      *)
(* which playbook answers it, what the playbook is aimed at, whether it    *)
(* may run at all and whether an administrator must approve it first.      *)
(*                                                                         *)
(* An alert is a record.  Free text is abstracted to what the code looks   *)
(* for in it: attack_type is the sequence of its tokens, the text of the   *)
(* evidence is one Boolean ("mentions the OpenStack side"), a confidence   *)
(* is one Boolean ("at least SOAR_MIN_CONFIDENCE").                        *)
(***************************************************************************)
EXTENDS Integers, Sequences, FiniteSetsExt

CONSTANTS
  AutoExecute,   \* SOAR_AUTO_EXECUTE
  MinRank,       \* SEVERITY_RANK of SOAR_MIN_SEVERITY
  HitlRank,      \* SEVERITY_RANK of SOAR_HITL_SEVERITY
  WebhookConfident  \* does 0.85, the confidence the webhook assigns, reach
                    \* SOAR_MIN_CONFIDENCE?

ASSUME DecisionAssumption ==
  /\ AutoExecute \in BOOLEAN
  /\ MinRank \in 1..4
  /\ HitlRank \in 1..4
  /\ WebhookConfident \in BOOLEAN

None == "none"   \* Python's None, and a key missing from a dict

SeverityRank == [low |-> 1, medium |-> 2, high |-> 3, critical |-> 4]

AwsContext       == "ctx-aws"
OpenstackContext == "ctx-openstack"

WorkloadPlaybooks ==
  {"isolate_workload", "restrict_egress", "quarantine_workload"}

AllowedPlaybooks ==
  WorkloadPlaybooks \cup
  {"block_source_ip", "revoke_user_sessions", "monitor_only"}

PlaybookByAttack ==
  [ fraud_gate_bypass    |-> "isolate_workload",
    lateral_movement     |-> "isolate_workload",
    large_response       |-> "restrict_egress",
    cryptomining         |-> "quarantine_workload",
    port_scan            |-> "block_source_ip",
    exploit_probe        |-> "block_source_ip",
    brute_force          |-> "revoke_user_sessions",
    credential_stuffing  |-> "revoke_user_sessions",
    access_denied        |-> "block_source_ip",
    jwt_replay           |-> "revoke_user_sessions",
    account_manipulation |-> "isolate_workload",
    data_staging         |-> "restrict_egress",
    container_escape     |-> "quarantine_workload",
    impair_defenses      |-> "quarantine_workload",
    privilege_escalation |-> "quarantine_workload" ]

KnownAttacks == DOMAIN PlaybookByAttack

OpenstackWorkloads == {"core-banking", "account-service", "transaction-service"}

TargetWorkloadOf ==
  [ attack \in KnownAttacks |->
      CASE attack \in {"fraud_gate_bypass", "lateral_movement"} -> "payment-service"
        [] attack = "large_response"                            -> "core-banking"
        [] attack \in {"account_manipulation", "data_staging"}  -> "account-service"
        [] OTHER                                                -> "api-gateway" ]

TargetsByAttack ==
  [ attack \in KnownAttacks |->
      [ workload |-> TargetWorkloadOf[attack],
        context  |-> IF attack \in {"large_response", "account_manipulation",
                                    "data_staging"}
                     THEN OpenstackContext ELSE AwsContext ] ]

-----------------------------------------------------------------------------
(* _first_known_attack: among the known tokens, the first whose playbook   *)
(* is the recommended one, otherwise the first.                            *)
FirstKnownAttack(alert) ==
  LET tokens   == alert.tokens
      known    == {k \in DOMAIN tokens : tokens[k] \in KnownAttacks}
      matching == {k \in known : PlaybookByAttack[tokens[k]] = alert.recommended}
  IN  CASE matching # {}                -> tokens[Min(matching)]
        [] matching = {} /\ known # {}  -> tokens[Min(known)]
        [] OTHER                        -> "unknown"

(* _select_playbook: a recommendation other than monitor_only wins.        *)
SelectPlaybook(alert, attack) ==
  IF alert.recommended \in AllowedPlaybooks \ {"monitor_only"}
  THEN alert.recommended
  ELSE IF attack \in KnownAttacks
       THEN PlaybookByAttack[attack]
       ELSE "monitor_only"

(* _infer_target: affected_service replaces the workload of the table, but *)
(* the context only when the service is an OpenStack one.                  *)
InferTarget(alert, attack) ==
  LET base     == IF attack \in KnownAttacks THEN TargetsByAttack[attack]
                  ELSE [workload |-> None, context |-> None]
      workload == IF alert.service # None THEN alert.service ELSE base.workload
      context  ==
        IF alert.service \in OpenstackWorkloads THEN OpenstackContext
        ELSE IF base.context # None THEN base.context
        ELSE IF alert.mentionsOpenstack THEN OpenstackContext
        ELSE AwsContext
  IN  [workload |-> workload, context |-> context]

ShouldExecute(alert) ==
  /\ AutoExecute
  /\ alert.verdict # "normal"
  /\ SeverityRank[alert.severity] >= MinRank
  /\ alert.confident

NeedsHitl(alert) ==
  /\ ~alert.preApproved
  /\ SeverityRank[alert.severity] >= HitlRank

(* The three-way branch every intake endpoint takes on the above.          *)
Disposition(alert) ==
  LET playbook == SelectPlaybook(alert, FirstKnownAttack(alert))
  IN  IF playbook = "monitor_only" \/ ~ShouldExecute(alert) THEN "skip"
      ELSE IF NeedsHitl(alert) THEN "hold" ELSE "run"

-----------------------------------------------------------------------------
(* One alert of a Grafana webhook payload.  attackLabel is the label       *)
(* attack_type; words is the set of keywords found in summary and          *)
(* description; gap1 the label of the OpenStack exfiltration rule.         *)
GrafanaSeverity(raw) ==
  CASE raw \in {"critical", "high", "low"} -> raw
    [] raw = "info"                        -> "low"
    [] OTHER                               -> "medium"

GrafanaKeywords ==
  <<"fraud", "brute", "anomaly", "lateral", "port_scan", "exploit", "jwt">>

GrafanaAttackMap ==
  [ fraud     |-> "fraud_gate_bypass",
    brute     |-> "brute_force",
    anomaly   |-> "access_denied",
    lateral   |-> "lateral_movement",
    port_scan |-> "port_scan",
    exploit   |-> "exploit_probe",
    jwt       |-> "jwt_replay" ]

GrafanaAttack(item) ==
  LET found == SelectSeq(GrafanaKeywords, LAMBDA w : w \in item.words)
  IN  IF item.attackLabel # None THEN item.attackLabel
      ELSE IF found # <<>> THEN GrafanaAttackMap[Head(found)]
      ELSE "access_denied"

(* Resolved alerts and alerts about the platform itself are dropped.       *)
GrafanaAccepts(item) ==
  /\ item.status = "firing"
  /\ item.category \notin {"health", "ops"}

GrafanaToAlert(item) ==
  LET attack == GrafanaAttack(item)
  IN  [ tokens            |-> <<attack>>,
        recommended       |-> IF attack \in KnownAttacks
                              THEN PlaybookByAttack[attack] ELSE None,
        service           |-> IF item.gap1 THEN "core-banking" ELSE None,
        mentionsOpenstack |-> item.mentionsOpenstack,
        verdict           |-> "malicious",
        severity          |-> GrafanaSeverity(item.severity),
        confident         |-> WebhookConfident,
        preApproved       |-> FALSE ]
=============================================================================
