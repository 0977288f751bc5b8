SPECIFICATION Spec
CONSTANTS
  Requests = {r1, r2}
  Initializations = {i1}
  Deposits = {d1}
  Withdrawals = {w1}
  Tx <- AllOfThem
  User <- OneUser
  Op <- Kinds
  What <- OneAmount
  MaxAttempts = 2
  None = None
SYMMETRY Symmetry
INVARIANTS
  RepliesAreTrue
  RepliesAreBooked
  OwnReply
  OrphansHaveCause
PROPERTIES
  BooksFollowChain
\* Every request has been answered.
CHECK_DEADLOCK FALSE
