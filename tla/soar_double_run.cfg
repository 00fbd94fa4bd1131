SPECIFICATION Spec
CONSTANTS
  AutoExecute = TRUE
  MinRank = 2
  HitlRank = 3
  WebhookConfident = TRUE
  NoCase = NoCase
  NoAlert = NoAlert
  Cases = {c1}
  Requests = {r1, r2}
  Alerts <- HeldAlert
  GrafanaItems <- NoBodies
  DryRun = FALSE
  SmtpSettings = {TRUE}
  AdminOps = {"choose"}
  AdminWaits = TRUE
  DedupWindow = 2
  MaxTime = 0
  MaxRestarts = 0
CHECK_DEADLOCK FALSE
INVARIANT AtMostOneRun
