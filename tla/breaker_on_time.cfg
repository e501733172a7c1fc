SPECIFICATION Spec
CONSTANTS
    Callers = {c1, c2}
    FailureThreshold = 2
    SuccessThreshold = 2
    OpenTimeout = 2
INVARIANT HalfOpenOnTime
