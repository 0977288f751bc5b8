SPECIFICATION Spec
CONSTANTS
  Keys = {k1, k2}
  Nobody = Nobody
  MaxAllowedBalance = 2
  DefaultMaxBalance = 1
  MaxSubscriptionFee = 1
  MaxTransactionAmount = 1
  MinAuthorityAge = 2
  UnpauseCooldown = 2
  DustThreshold = 1
  MaxU64 = 2
  NonceSpan = 2
  Supply = 2
  Lifetimes = {0, 1}
  MaxTime = 5
SYMMETRY Symmetry
INVARIANTS
  AccountsBalance
  SpendersExclusive
PROPERTIES
  TimeLock
  PauseHolds
  ImplementsCustody
