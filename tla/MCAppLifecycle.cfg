SPECIFICATION FairSpec
CONSTANTS
    h1 = h1
    h2 = h2
    Unset = Unset
    Handlers <- MCHandlers
    RetryMax <- MCRetryMax
    Backoff <- MCBackoff
    Least <- MCLeast
INVARIANTS
    TypeOK
    ServedByWholeSystem
    ConnectionsAreOwned
    StartIsBounded
PROPERTIES
    ClientsAreWaitedFor
    EveryStepAdvances
    SignalEnds
    LeaderServesOrYields
\* The process exits.
CHECK_DEADLOCK FALSE
