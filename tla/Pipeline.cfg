SPECIFICATION FairSpec
CONSTANTS
    N = 4
    Stake <- EqualStakes
    MaxRound = 9
    GcDepth = 4
    ChannelCap = 1
    Dags <- MCDags
CHECK_DEADLOCK FALSE
INVARIANTS
    WholeSlicesInOrder
    EvidenceExact
    WaitingAreActive
PROPERTIES
    SlicesAsExpected
    Drains
