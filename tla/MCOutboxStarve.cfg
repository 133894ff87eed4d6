\* Two events and a page of one row.
SPECIFICATION FairSpec
CONSTANTS
    h1 = h1
    h2 = h2
    n1 = n1
    n2 = n2
    a1 = a1
    c1 = c1
    Events = {1, 2}
    Handlers = {h1, h2}
    Nodes = {n1}
    Admins = {}
    Cleaners = {}
    QuarantineAfter = 2
    PublishRetryMax = 1
    BatchSize = 1
    FetchLimit = 1
    CleanupBatch = 1
    MaxClock = 1
    MaxFaults = 0
    Switched = {}
PROPERTIES
    RelaySettles
