CONSTANTS
    XOR_NAME_BITS = 3
    Ids <- MCIds
    OurId <- N000
    GenesisMembers <- MCGenesisAll
    Joiners <- MCNoJoiners
    Purgeable <- MCNoJoiners
    Leavers <- MCTwoLeavers
    MinSecSize = 2
    MaxVersion = 2
    ChurnEvents <- MCNoChurn
    NoId = NoId
    NoInfo = NoInfo
    Connected <- MCConnected
SPECIFICATION Spec
PROPERTIES
    HistoryRefined
CHECK_DEADLOCK FALSE
