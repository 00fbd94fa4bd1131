SPECIFICATION FairSpec
CONSTANTS
  AutoExecute = TRUE
  MinRank = 2
  HitlRank = 3
  WebhookConfident = TRUE
  NoCase = NoCase
  NoAlert = NoAlert
  Cases = {c1}
  Requests = {r1, r2}
  Alerts <- AlertsOfEachKind
  GrafanaItems <- NoBodies
  DryRun = FALSE
  SmtpSettings = {TRUE, FALSE}
  AdminOps = {"approve", "deny", "choose"}
  AdminWaits = FALSE
  DedupWindow = 2
  MaxTime = 0
  MaxRestarts = 2
CHECK_DEADLOCK FALSE
INVARIANT TypeOK
INVARIANT PendingIsDecidable
INVARIANT OnlyEligibleRun
INVARIANT OutcomeHasRun
INVARIANT MarkNamesItsCause
PROPERTY RestartKeepsDecisions
PROPERTY HeldBecomesDecidable
