CONSTANTS
    XOR_NAME_BITS = 3
    Ids <- MCIds5
    OurId <- N000
    GenesisMembers <- MCGenesisMembers
    Joiners <- MCJoinersBoth
    Purgeable <- MCJoinersBoth
    Leavers <- MCLeavers
    MinSecSize = 1
    MaxVersion = 0
    ChurnEvents <- MCNoChurn
    NoId = NoId
    NoInfo = NoInfo
    Connected <- MCConnected
SPECIFICATION Spec
INVARIANT
    MembersMatchPrefix
PROPERTIES
    HistoryRefined
CHECK_DEADLOCK FALSE
