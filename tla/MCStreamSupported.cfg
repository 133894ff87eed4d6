\* The handler as Run wires it: behind instrument's statusRecorder.
SPECIFICATION Spec
CONSTANTS
    s1 = s1
    s2 = s2
    c1 = c1
    c2 = c2
    m1 = m1
    u1 = u1
    None = None
    Streams = {s1}
    Consumers = {c1}
    Messages = {m1, u1}
    Unnamed = {u1}
    Instrumented = TRUE
    Capacity = 1
    MaxPublishes = 1
    MaxFaults = 0
CHECK_DEADLOCK FALSE
INVARIANT StreamIsSupported
