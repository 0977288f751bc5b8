SPECIFICATION Spec
CONSTANTS
  Requests = {r1, r2}
  Initializations = {}
  Deposits = {d1, d2}
  Withdrawals = {}
  Tx <- AllOfThem
  User <- OneUser
  Op <- Kinds
  What <- OneAmount
  MaxAttempts = 1
  None = None
INVARIANT
  OwnReply
CHECK_DEADLOCK FALSE
