SPECIFICATION Spec
CONSTANTS
    N = 3
    Stake <- StakeByRank
    Me = 0
    MaxRound = 3
    GcDepth = 0
    LastProposal = 3
    Others <- FewOthers
    Links <- FewLinks
    Announced <- MCAnnounced
    Loaded <- MCLoaded
    Certified <- FewByOthers
    CommitDepth = 0
INVARIANTS
    TypeOK
    OneVotePerRound
    HistoryFirst
    ProposalsValid
    CertifiedByQuorum
PROPERTIES
    RoundsIncrease
CHECK_DEADLOCK FALSE
