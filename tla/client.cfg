SPECIFICATION ClientFairSpec
CONSTANTS
    Callers = {w1, r1}
    Writers = {w1}
    MaxRetries = 2
    FailureThreshold = 3
    SuccessThreshold = 2
    OpenTimeout = 2
INVARIANTS
    AnswersTruthful
PROPERTIES
    BreakerCloses
    CallEnds
