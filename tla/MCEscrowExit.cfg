SPECIFICATION ExitSpec
CONSTANTS
  Keys = {k1}
  Nobody = Nobody
  MaxAllowedBalance = 1
  DefaultMaxBalance = 1
  MaxSubscriptionFee = 1
  MaxTransactionAmount = 1
  MinAuthorityAge = 1
  UnpauseCooldown = 2
  DustThreshold = 1
  MaxU64 = 3
  NonceSpan = 1
  Supply = 2
  Lifetimes = {0, 1}
  MaxTime = 4
  Horizon = 2
PROPERTIES
  OwnerGetsOut
\* The owner has left, or the clock has reached its bound.
CHECK_DEADLOCK FALSE
