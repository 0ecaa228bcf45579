SPECIFICATION MCSpec
CONSTANTS
    rubbish = rubbish
    V4Bits = 1
    MappedBits = 2
    MappedRange <- MCMappedRange
    ASN_MIN = 1
    ASN_MAX = 2
    EntryText <- MCEntryText
    EntryAsn = {0, 1, 2, 3}
    MaxEntries = 3
    n1 = n1
    n2 = n2
    Voted = {n1, n2}
    VotedAsn = {1, 2, 4}
    MaxVotes = 3
    Threshold = 2
SYMMETRY Symmetry
INVARIANTS
    FinalizeTypeOK
    LoopComputesVoteKeys
    KeysAddressDistinctPaths
    BestIsElectedAmongVisited
CHECK_DEADLOCK FALSE
