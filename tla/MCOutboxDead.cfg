\* A request, a relay, a replay and a cleanup over one event.
SPECIFICATION Spec
CONSTANTS
    h1 = h1
    h2 = h2
    n1 = n1
    n2 = n2
    a1 = a1
    c1 = c1
    Events = {1}
    Handlers = {h1}
    Nodes = {n1}
    Admins = {a1}
    Cleaners = {c1}
    QuarantineAfter = 1
    PublishRetryMax = 2
    BatchSize = 1
    FetchLimit = 1
    CleanupBatch = 1
    MaxClock = 3
    MaxFaults = 1
    Switched = {}
INVARIANTS
    ReplayableIsListed
    HiddenIsExcused
PROPERTIES
    DeliverySpec
