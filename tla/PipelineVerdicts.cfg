SPECIFICATION Spec
CONSTANTS
    N = 7
    Stake <- EqualStakes
    MaxRound = 11
    GcDepth = 8
    ChannelCap = 1
    Dags <- MCDags
CHECK_DEADLOCK FALSE
ACTION_CONSTRAINT InOrder
INVARIANTS VerdictsFollowAncestry
