SPECIFICATION ProgressSpec
CONSTANTS
  a1 = a1
  a2 = a2
  a3 = a3
  t1 = t1
  t2 = t2
  t3 = t3
  NoRow = NoRow
  Free = Free
  Accounts = {a1, a2, a3}
  Txns = {t1, t2, t3}
  Order <- CrossingOrder
  Opening <- SmallOpening
  Grants <- OneGrant
  PoolSize = 2
  MayFail = TRUE
CHECK_DEADLOCK FALSE
INVARIANT TypeOK
INVARIANT NoOverdraft
PROPERTY BankSpec
PROPERTY TransfersEnd
PROPERTY CallsEnd
PROPERTY DoorOpens
PROPERTY QueueDrains
PROPERTY AlarmClears
