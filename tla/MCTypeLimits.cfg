SPECIFICATION LimiterSpec
CONSTANTS
  trade = trade
  Identifier = {i1}
  MessageType = {trade}
  Untyped = Untyped
  DefaultLimit = 2
  TypeLimit <- OnePerWindow
  Window = 3
  Horizon = 7
INVARIANTS
  TypeLimitsHold
