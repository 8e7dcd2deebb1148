SPECIFICATION Spec
CONSTANTS
    N = 3
    Stake <- StakeByRank
    Me = 0
    MaxRound = 7
    GcDepth = 1
    LastProposal = 1
    Others <- MCOthers
    Links <- MCLinks
    Announced <- NoHeaders
    Loaded <- NoHeaders
    Certified <- ByOthers
    CommitDepth = 4
INVARIANT OwnVoteProcessed
ACTION_CONSTRAINT Sorted
CHECK_DEADLOCK FALSE
