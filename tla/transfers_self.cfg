SPECIFICATION Spec
CONSTANTS
  a1 = a1
  a2 = a2
  a3 = a3
  t1 = t1
  t2 = t2
  t3 = t3
  NoRow = NoRow
  Free = Free
  Accounts = {a1, a2, a3}
  Txns = {t1}
  Order <- SelfOrder
  Opening <- SmallOpening
  Grants <- OneGrant
  PoolSize = 3
  MayFail = FALSE
CHECK_DEADLOCK FALSE
PROPERTY BankSpec
