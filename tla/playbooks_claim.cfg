SPECIFICATION Spec
CONSTANTS
  c1 = c1
  c2 = c2
  c3 = c3
  w1 = w1
  i1 = i1
  Cases = {c1, c2}
  Workloads = {w1}
  Ips = {i1}
  Runs = {r1, r2}
  WorkloadOf <- NoWorkload
  AlertIp <- SameIp
  FoundIp <- NoIp
  Proposed <- Block
  Choices <- NoChoices
  Automatic = {c1}
  Initial = 1
  K8sMayFail = FALSE
  RedisMayFail = FALSE
  ManualIps = {}
  MaxRestarts = 0
CHECK_DEADLOCK FALSE
INVARIANT ExecutedIsContained
