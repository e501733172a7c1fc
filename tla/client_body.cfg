SPECIFICATION ClientSpec
CONSTANTS
    Callers = {w1}
    Writers = {w1}
    MaxRetries = 2
    FailureThreshold = 3
    SuccessThreshold = 2
    OpenTimeout = 2
INVARIANT RetryHasBody
