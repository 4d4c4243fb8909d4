CONSTANTS
  Client = {c1}
  Kind = {"search", "detail"}
  Limit <- MCLimit
  Retries = 2
  Threshold <- MCThreshold
  Quota = 2
  MaxWindow = 2
SPECIFICATION Spec
INVARIANTS RateLimitIsReported
CHECK_DEADLOCK FALSE
