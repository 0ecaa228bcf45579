SPECIFICATION Spec
CONSTANTS
    s1 = s1
    s2 = s2
    c3 = c3
    Node <- MCNode
    Collecting = {c3}
    Ticking = {c3}
    Failing = {}
    Link <- FullMesh
    Snapshot <- MCSnapshot
    StartMaps <- MCStartMaps
    FirstEpoch = 0
    LastEpoch = 1
    MaxStarts = 0
    Now = 3
    NoFile = NoFile
    Truncated = Truncated
    PeerId <- MCPeerId
    OverlongId = {}
    MalformedHash = MalformedHash
    V4Bits = 1
    MappedBits = 1
    MappedRange <- MCMappedRange
    ASN_MIN = 1
    ASN_MAX = 2
    Threshold = 2
    MIN_CLAIM_ENTRIES = 1
    MAX_CLAIM_ENTRIES = 1
    MAX_SENDERS = 3
    MAX_REJECTION_OBSERVATIONS = 0
    MAX_EPOCH_SKEW = 1
    EPOCH_ABSOLUTE_MAX = 3
    U64_MAX = 4
SYMMETRY Symmetry
INVARIANTS
    TypeOK
    ContradictionNeedsEquivocation
    ReportsCountNeighboursClaims
CHECK_DEADLOCK FALSE
