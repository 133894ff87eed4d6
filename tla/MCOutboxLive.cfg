\* The relay loop of one node, with leadership, pause and deadlines, and two
\* requests over one event.
SPECIFICATION FairSpec
CONSTANTS
    h1 = h1
    h2 = h2
    n1 = n1
    n2 = n2
    a1 = a1
    c1 = c1
    Events = {1}
    Handlers = {h1, h2}
    Nodes = {n1}
    Admins = {}
    Cleaners = {}
    QuarantineAfter = 2
    PublishRetryMax = 1
    BatchSize = 1
    FetchLimit = 1
    CleanupBatch = 1
    MaxClock = 1
    MaxFaults = 0
    Switched = {n1}
INVARIANTS
    TypeOK
    NoEventLost
    AnswersAreTrue
    IndexedIsClaimable
    QuarantineIsEarned
PROPERTIES
    RelaySettles
