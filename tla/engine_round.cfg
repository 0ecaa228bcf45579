SPECIFICATION Spec
CONSTANTS
    p1 = p1
    p2 = p2
    p3 = p3
    overlong = overlong
    rubbish = rubbish
    PeerId <- MCPeers
    OverlongId = {overlong}
    MalformedHash = MalformedHash
    V4Bits = 2
    MappedBits = 2
    MappedRange <- MCMappedRange
    ASN_MIN = 1
    ASN_MAX = 2
    Threshold = 2
    MIN_CLAIM_ENTRIES = 1
    MAX_CLAIM_ENTRIES = 3
    MAX_SENDERS = 0
    MAX_REJECTION_OBSERVATIONS = 1
    MAX_EPOCH_SKEW = 1
    EPOCH_ABSOLUTE_MAX = 1
    U64_MAX = 2
    Claim <- RoundClaims
    StartEpoch = {0}
    Clock = {0}
    MaxProcessed = 4
SYMMETRY Symmetry
INVARIANTS
    TypeOK
    VotesCountBallots
    ParticipantsVotedOnce
    OneAssertionPerNetwork
    EntriesHaveDistinctPaths
    LogKeepsEveryAcceptance
    LedgerReconciles
PROPERTIES
    ImplementsRound
