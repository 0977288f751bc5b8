SPECIFICATION Spec
CONSTANTS
  c1 = c1
  c2 = c2
  u1 = u1
  job = job
  global = global
  Clients = {c1, c2, c3}
  Channels = {job, global}
  Ephemeral = {job}
  Posts = {p1}
  User <- TwoOfOneUser
  Anonymous = Anonymous
  Path <- TwoOnJob
  MaxTotal = 2
  MaxPerUser = 1
  MaxPerChannel = 2
INVARIANTS
  LimitsHold
  SentOnce
  EphemeralDeleted
PROPERTIES
  MissesHaveCause
  ShutdownEnds
\* The server may stop for good.
CHECK_DEADLOCK FALSE
