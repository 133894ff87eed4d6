\* Three concurrent callers.
SPECIFICATION FairSpec
CONSTANTS
    c1 = c1
    c2 = c2
    c3 = c3
    Callers = {c1, c2, c3}
    failureThreshold = 3
    halfOpenSuccesses = 2
    FailureCap = 5
INVARIANTS
    TypeOK
    CountersMatchState
PROPERTIES
    MovesAreEarned
    Recovers
