SPECIFICATION FairSpec
CONSTANTS
    d1 = d1
    p1 = p1
    p2 = p2
    Digest <- MCDigest
    Key <- MCDigest
    Reader <- MCReader
    Waiter <- MCWaiter
    StoreCap = 2
    Peer <- MCPeer
    Holders <- MCHolders
    GcDepth = 2
    MaxRound = 4
    MaxRequests = 4
INVARIANTS
    TypeOK
    NoLostWakeUp
    PendingIsWatched
PROPERTIES
    StoreIsAtomic
    Obtained
    OnlyDroppedWhenOld
CHECK_DEADLOCK FALSE
