SPECIFICATION Spec
CONSTANTS
  Callers = {c1, c2}
  FailureThreshold = 2
  SuccessThreshold = 2
  HalfOpenMaxCalls = 3
  Timeout = 1
  Endings = {"success", "failure", "ignored"}
  None = None
INVARIANT
  NotWedged
