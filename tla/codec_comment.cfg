SPECIFICATION Spec
CONSTANTS
    MATCH_CLASSES = 2
    V4Bits = 1
    MappedBits = 2
    MappedRange <- MCMappedRange
    ASN_MIN = 1
    ASN_MAX = 33521664
    ListedAsn = {0, 2441}
    Ipv6Asn = {}
    EntryLists <- MCEntryLists
    OtherMaps <- MCOtherMaps
INVARIANT
    EncodeThenDecode
