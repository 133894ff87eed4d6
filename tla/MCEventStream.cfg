\* Two streams, of one consumer or of two, one-place channels, one fault.
SPECIFICATION FairSpec
CONSTANTS
    s1 = s1
    s2 = s2
    c1 = c1
    c2 = c2
    m1 = m1
    u1 = u1
    None = None
    Streams = {s1, s2}
    Consumers = {c1, c2}
    Messages = {m1, u1}
    Unnamed = {u1}
    Instrumented = FALSE
    Capacity = 1
    MaxPublishes = 2
    MaxFaults = 1
CHECK_DEADLOCK FALSE
INVARIANTS
    TypeOK
    AtMostOncePerConsumer
    ClaimedReachesConsumer
    ReceivedInOrder
PROPERTIES
    BufferedIsReceived
    StreamsLetGo
    OneChanceEach
