SPECIFICATION FairSpec
CONSTANTS
    N = 3
    Stake <- StakeByRank
    Me = 0
    Peer <- MCPeer
    Silent <- MCSilent
    BatchSize = 1
    MaxTxs = 4
    MaxMessages = 4
    ChannelCap = 1
    SocketCap = 1
    TaskCap = 1
    MaxConnections <- OneConnection
PROPERTY TransactionsAnnounced
CHECK_DEADLOCK FALSE
