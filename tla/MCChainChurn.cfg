CONSTANTS
    XOR_NAME_BITS = 3
    Ids <- MCIds
    OurId <- N000
    GenesisMembers <- MCGenesisMembers
    Joiners <- MCJoiners
    Purgeable <- MCNoJoiners
    Leavers <- MCLeavers
    MinSecSize = 1
    MaxVersion = 1
    ChurnEvents <- MCChurn
    NoId = NoId
    NoInfo = NoInfo
    Connected <- MCConnected
SPECIFICATION FairSpec

    
    
PROPERTIES
    ChurnCompletes
    SplitCompletes
CHECK_DEADLOCK FALSE
