SPECIFICATION Spec
CONSTANTS
  AutoExecute = TRUE
  MinRank = 2
  HitlRank = 3
  WebhookConfident = TRUE
  NoCase = NoCase
  NoAlert = NoAlert
  Cases = {c1, c2}
  Requests = {r1, r2}
  Alerts <- AlertsOfEachKind
  GrafanaItems <- EscalatingItems
  DryRun = FALSE
  SmtpSettings = {TRUE}
  AdminOps = {"approve", "deny"}
  AdminWaits = TRUE
  DedupWindow = 2
  MaxTime = 3
  MaxRestarts = 0
CHECK_DEADLOCK FALSE
INVARIANT AtMostOneRun
PROPERTY GateSpec
INVARIANT DedupEscalates
