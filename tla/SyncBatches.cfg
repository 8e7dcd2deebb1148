SPECIFICATION SyncSpec
CONSTANTS
    N = 3
    Stake <- StakeByRank
    Me = 0
    MaxRound = 2
    GcDepth = 0
    LastProposal = 0
    Others <- MCOthers
    Links <- MCLinks
    Announced <- MCAnnounced
    Loaded <- TopOnly
    Certified <- MCCertified
    CommitDepth = 0
    Broadcast <- MCBroadcast
    Answering <- MCAnswering
    Delivered <- Nothing
INVARIANT OurWorkerAsked
CHECK_DEADLOCK FALSE
