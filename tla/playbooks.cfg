SPECIFICATION Spec
CONSTANTS
  c1 = c1
  c2 = c2
  c3 = c3
  w1 = w1
  i1 = i1
  Cases = {c1, c2, c3}
  Workloads = {w1}
  Ips = {i1}
  Runs = {r1, r2, r3}
  WorkloadOf <- ApartWorkloads
  AlertIp <- ApartIps
  FoundIp <- ApartFound
  Proposed <- ApartProposed
  Choices <- ApartChoices
  Automatic = {c2, c3}
  Initial = 1
  K8sMayFail = TRUE
  RedisMayFail = TRUE
  ManualIps = {i1}
  MaxRestarts = 1
SYMMETRY AnyRun
CHECK_DEADLOCK FALSE
INVARIANT TypeOK
INVARIANT RollbackRestores
INVARIANT ContainmentHolds
INVARIANT NoOrphanPolicy
