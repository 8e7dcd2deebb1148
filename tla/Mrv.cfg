SPECIFICATION MCSpec
CONSTANTS
    N = 4
    Stake <- EqualStakes
    MaxRound = 8
    WindowCap = 4
    Dags <- MCDags
    NumNodes = 5
CHECK_DEADLOCK FALSE
INVARIANTS
    TypeOK
    FloorExact
    SeenExact
    WindowBound
    HorizonIsFinal
    RobustVerdicts
    SortsAsSpecified
PROPERTIES
    KeepsPromise
