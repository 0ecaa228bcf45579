SPECIFICATION Spec
CONSTANTS
    p1 = p1
    p2 = p2
    p3 = p3
    unparsable = unparsable
    PeerId <- MCPeers
    OverlongId = {}
    MalformedHash = MalformedHash
    V4Bits = 2
    MappedBits = 2
    MappedRange <- MCMappedRange
    ASN_MIN = 1
    ASN_MAX = 2
    Threshold = 2
    MIN_CLAIM_ENTRIES = 1
    MAX_CLAIM_ENTRIES = 3
    MAX_SENDERS = 2
    MAX_REJECTION_OBSERVATIONS = 1
    MAX_EPOCH_SKEW = 1
    EPOCH_ABSOLUTE_MAX = 2
    U64_MAX = 3
    ClaimsFile <- MCFiles
    NoEpoch = NoEpoch
    EpochOption = {NoEpoch, 0, 1, 3}
    EarlierFiles <- MCEarlierFiles
    NoFile = NoFile
    Truncated = Truncated
INVARIANTS
    LedgerCoversFile
CHECK_DEADLOCK FALSE
