SPECIFICATION Spec
CONSTANTS
    N = 3
    Stake <- ThreeStakes
    MaxRound = 7
    GcDepth = 3
    Dags <- LateDags
CHECK_DEADLOCK FALSE
ACTION_CONSTRAINT OneAfterTheOther
INVARIANTS SameSlices
