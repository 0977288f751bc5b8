SPECIFICATION RSpec
CONSTANTS
  Callers = {c1, c2, c3}
  FailureThreshold = 2
  SuccessThreshold = 2
  HalfOpenMaxCalls = 2
  Timeout = 2
  Endings = {"success", "failure", "ignored"}
  None = None
  MaxAttempts = 3
  RetryError = RetryError
  Errors = {ClientError, BridgeError}
  RetryOn = {ClientError}
  Expected = {ClientError, BridgeError, RetryError}
INVARIANTS
  NotWedged
  OutageOpens
  LoadBounded
PROPERTIES
  OpenProtects
  Recovers
