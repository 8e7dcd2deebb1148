SPECIFICATION FairSpec
CONSTANTS
    N = 3
    Stake <- ThreeStakes
    MaxRound = 9
    GcDepth = 1
    Dags <- AllDags
CHECK_DEADLOCK FALSE
INVARIANTS TypeOK NoDoubleCommit NoPanic HistoryCommitted
PROPERTIES SupportedLeaderCommits
