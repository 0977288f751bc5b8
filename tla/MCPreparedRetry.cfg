SPECIFICATION PrepSpec
CONSTANTS
  q1 = q1
  q2 = q2
  Callers = {q1, q2}
  Holder = {platform}
  MostTaken <- OneUnit
  Authority = {k1, k2}
  Supply = 2
  InUnits <- OneIsLost
  All = All
  None = None
  Reserved = Reserved
  Life = 1
  Uses <- FirstUse
  MaxFailures = 1
INVARIANT
  SafeToRetry
\* Without the owner, who need not go on, a behaviour may end.
CHECK_DEADLOCK FALSE
