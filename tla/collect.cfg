SPECIFICATION Spec
CONSTANTS
    V4Bits = 1
    MappedBits = 2
    MappedRange <- MCMappedRange
    Peer = {1, 2, 3}
    Collecting = {1, 3}
    Lists <- MCLists
    AllCollectors <- MCAllCollectors
    Dump <- MCDump
    Cuts = {0, 2}
    MaxFaults = 1
INVARIANTS
    TypeOK
    ClaimFollowsLongestPrefix
    CutTablesStayUpstream
    OneViewSharesAllCollectors
PROPERTY
    EveryCollectorIsRead
CHECK_DEADLOCK FALSE
