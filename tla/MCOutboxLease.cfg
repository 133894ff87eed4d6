\* Two relays and a request over one event: who publishes under a lease.
SPECIFICATION Spec
CONSTANTS
    h1 = h1
    h2 = h2
    n1 = n1
    n2 = n2
    a1 = a1
    c1 = c1
    Events = {1}
    Handlers = {h1}
    Nodes = {n1, n2}
    Admins = {}
    Cleaners = {}
    QuarantineAfter = 2
    PublishRetryMax = 2
    BatchSize = 1
    FetchLimit = 1
    CleanupBatch = 1
    MaxClock = 1
    MaxFaults = 0
    Switched = {}
SYMMETRY Symmetric
INVARIANT LeaseExcludes
