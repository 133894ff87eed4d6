\* A session lost once is not followed by another campaign.
SPECIFICATION FairSpec
CONSTANTS
    n1 = n1
    n2 = n2
    Nobody = Nobody
    Nodes = {n1, n2}
    MaxLosses = 1
    MaxRestarts = 1
CHECK_DEADLOCK FALSE
PROPERTIES
    LeaderReturns
