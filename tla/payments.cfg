SPECIFICATION Spec
CONSTANTS
  a = a
  b = b
  c = c
  p1 = p1
  p2 = p2
  p3 = p3
  NoRow = NoRow
  SoftLimit = 1
  High = 3
  Critical = 5
  Accounts = {a, b, c}
  Opening <- Rows
  Grants = {0}
  Payments = {p1, p2, p3}
  Order <- ThreeOrder
  Strong = {p1, p3}
  Single = 5
  Daily = 5
  MaxSingle = 5
  OneDay = FALSE
CHECK_DEADLOCK FALSE
INVARIANT TypeOK
INVARIANT BooksAreReal
INVARIANT AnswersAreTrue
INVARIANT CounterIsCovered
INVARIANT BurstIsCut
