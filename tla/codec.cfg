SPECIFICATION Spec
CONSTANTS
    MATCH_CLASSES = 2
    V4Bits = 1
    MappedBits = 2
    MappedRange <- MCMappedRange
    ASN_MIN = 1
    ASN_MAX = 33521664
    ListedAsn = {0, 1}
    Ipv6Asn = {33521664}
    EntryLists <- MCEntryLists
    OtherMaps <- MCOtherMaps
INVARIANTS
    MapIsCanonical
    PlannedSizesAreWritten
    BinaryRoundTrip
    TextRoundTrip
    MinimalEntriesAreFewest
    CutFileAssignsNothing
    OwnClaimPassesGateSix
    DiffIsExact
