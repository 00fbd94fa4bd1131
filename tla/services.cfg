SPECIFICATION ServicesSpec
CONSTANTS
  b1 = b1
  b2 = b2
  NoBatch = NoBatch
  Jobs = {"i1", "i2"}
  Batches = {b1, b2}
  Findings <- TwoFindings
  Answers <- TwoAnswers
  MinAlertRank = 2
  ApprovalRank = 3
  ProviderOn = TRUE
  SoarConfigured = TRUE
  SeenLimit = 1
  SeenKeep = 0
  SoarMinRank = 2
  SoarHitlRank = 3
  SoarMinConfidence = 50
  MaxRestarts = 1
  Components = {"alerts", "score", "bans", "login", "tokens", "register", "door", "store"}
  Events = {"e1", "e2", "e3"}
  Matches <- ThreeMatches
  Window = 2
  Interval = 1
  FirstWait = 1
  MaxStored = 2
  ScoreFaults = 1
  Blocks = {"block1", "block2"}
  Unblocks = {"unblock"}
  Lists = {"list"}
  Logins = {"l1", "l2"}
  AccountIds = {"k1", "k2", "k3"}
  UserOf <- TwoIds
  DeviceOf <- OneBrowser
  Taken = {"k3"}
  MaxTries = 2
  PortalRestarts = 1
  NoLogin = NoLogin
  Requests = {"q1", "q2"}
  Mixes <- TwoMixes
  Lifetime = 4
  Margin = 3
  CallTime = 2
  RefreshTime = 1
  MaxAge = 3
  CleanInterval = 2
  Attempts = {"r1", "r2"}
  NameOf <- OneName
  MailOf <- TwoMails
  HourLimit = 1
  Hour = 2
  Nobody = Nobody
  Others = Others
  Pods = {"g1", "g2"}
  Calls = {"c1", "c2"}
  PodOf <- Routed
  PerMinute = 1
  Minute = 2
  Lag = 1
  FallbackRight = FALSE
  DoorFaults = 1
  MaxRotations = 1
  Writes = {"w1", "w2", "w3", "w4"}
  CaseOf <- FourRecords
  MaxCuts = 2
  MaxStarts = 1
  Nothing = Nothing
CHECK_DEADLOCK FALSE
INVARIANT ServicesTypeOK
INVARIANT AttacksAreRaised
INVARIANT ApprovalIsKept
INVARIANT ScoreIsFresh
INVARIANT BansAgree
INVARIANT StoreIsSound
INVARIANT LoginIsSound
INVARIANT AccountsAreSound
INVARIANT RegistrationIsSound
PROPERTY SessionIsSound
PROPERTY RateLimitIsFair
PROPERTY GateSpec
