SPECIFICATION FairSpec
CONSTANTS
    N = 3
    Stake <- StakeByRank
    Me = 0
    Peer <- MCPeer
    Silent <- MCSilent
    BatchSize = 2
    MaxTxs = 2
    MaxMessages = 2
    ChannelCap = 1
    SocketCap = 2
    TaskCap = 1
    MaxConnections <- MCConnections
INVARIANTS
    TypeOK
    AckedWasReceived
    HeldOnceInOrder
    QuorumHasIt
CHECK_DEADLOCK FALSE
PROPERTIES
    DeliversReliably
    StaysAvailable
    TransactionsAnnounced
