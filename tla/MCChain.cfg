CONSTANTS
    XOR_NAME_BITS = 3
    Ids <- MCIds
    OurId <- N000
    GenesisMembers <- MCGenesisMembers
    Joiners <- MCJoiners
    Purgeable <- MCNoJoiners
    Leavers <- MCLeavers
    MinSecSize = 1
    MaxVersion = 2
    ChurnEvents <- MCNoChurn
    NoId = NoId
    NoInfo = NoInfo
    Connected <- MCConnected
SPECIFICATION FairSpec
INVARIANTS
    TypeOK
    KnownPrefixesPartition
PROPERTIES
    KnownNeighbourStaysKnown
CHECK_DEADLOCK FALSE
