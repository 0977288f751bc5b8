SPECIFICATION CSpec
CONSTANTS
  Callers = {c1, c2}
  FailureThreshold = 2
  SuccessThreshold = 2
  HalfOpenMaxCalls = 3
  Timeout = 1
  Endings = {"success", "failure", "ignored"}
  None = None
  MaxAttempts = 3
  RetryError = RetryError
  Errors = {BridgeConnectionException, BridgeTimeoutException}
  RetryOn = {BridgeConnectionException}
  Expected = {BridgeConnectionException}
INVARIANT
  OutageOpens
