SPECIFICATION Spec
CONSTANTS
    N = 3
    Stake <- ThreeStakes
    MaxRound = 7
    GcDepth = 3
    Dags <- MCDags
CHECK_DEADLOCK FALSE
ACTION_CONSTRAINT OneAfterTheOther
PROPERTIES OneLedger
