\* Two candidates, lost sessions, crashes and stops.
SPECIFICATION FairSpec
CONSTANTS
    n1 = n1
    n2 = n2
    Nobody = Nobody
    Nodes = {n1, n2}
    MaxLosses = 2
    MaxRestarts = 2
CHECK_DEADLOCK FALSE
INVARIANTS
    TypeOK
    LeaderIsElected
PROPERTIES
    ElectedNodeLeads
