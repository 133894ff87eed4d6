SPECIFICATION Spec
CONSTANTS
    r1 = r1
    r2 = r2
    r3 = r3
    i1 = i1
    i2 = i2
    Requests <- MCRequests
    IPs <- MCIPs
    NoIP = NoIP
    MaxRequests = 2
    MaxLane <- MCMaxLane
    MaxIPs = 1
    MaxFailures = 2
    TokensConfigured = TRUE
    DisableAuth = FALSE
INVARIANTS
    TypeOK
    RunningBounded
    TableBounded
    TriesAreBounded
PROPERTIES
    BusyIsTrue
SYMMETRY Symmetry
