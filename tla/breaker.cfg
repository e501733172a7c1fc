SPECIFICATION FairSpec
CONSTANTS
    Callers = {c1, c2, c3}
    FailureThreshold = 3
    SuccessThreshold = 2
    OpenTimeout = 2
INVARIANTS
    NoOverdueTransition
    CountersExact
PROPERTIES
    TransitionsEarned
    OpenEnds
