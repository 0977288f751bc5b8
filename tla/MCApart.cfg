SPECIFICATION MCSpec
CONSTANTS
  Requests = 3
  terms = terms
  privacy = privacy
  Doc = {terms, privacy}
  Lists <- SomeLists
  Identifier = {i1}
  MessageType = {}
  Untyped = Untyped
  DefaultLimit = 2
  TypeLimit <- NoTypeLimit
  Window = 3
  Horizon = 9
  price = price
  Names = {price, rsi}
  Values = {1, 2, 3}
  NaN = NaN
  Missing = Missing
  Periods = {1, 2, 3}
  Thresholds = {2}
  MaxHistory = 3
  MaxBars = 4
  Prices = {2, 4, 9}
  StopLosses = {0, 3, 8}
  TrailingStops = {0, 50}
  MaxDailyLoss = 3
  None = None
  MaxDay = 2
  MaxTrades = 2
  pourtier = pourtier
  passeur = passeur
  shared = shared
  Component = {pourtier, passeur, shared}
  Tested = {pourtier, passeur}
  Sources = {pourtier, passeur}
  TestFile = {1, 2, 3}
  Home <- SomeHome
  CategoryOf <- SomeCategories
  Suite <- SomeSuites
  Commands <- SomeCommands
  MaxFlaws = 1
  Balance = {0, 1, 2}
  Absent = Absent
  PasseurAttempts = 2
  PourtierAttempts = 2
  client = client
  module = module
  Event = {1, 2, 3}
  Caller = {client, module}
  CallerOf <- SomeCallers
  Named = {module}
  MaxRetries = 2
  Service = {"pourtier", "passeur"}
  Visit = {v1}
INVARIANTS
  DoublesHaveCause
  DuplicatesHaveCause
  AccountWhole
  ComplianceTrue
  AdmittedBounded
  NoNeedlessRefusal
  AdviceHolds
  DetectorsRight
  StopFollows
  LimitIsDaily
  ExitTrue
  LeftoversHaveCause
  AnswersHaveCause
  CopiesHaveCause
  OrderHasCause
  LeftOpenHasCause
  RefusedHasCause
\* The bounds on bars, days and trades end a behaviour.
CHECK_DEADLOCK FALSE
