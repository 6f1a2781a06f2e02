CONSTANTS
    XOR_NAME_BITS = 3
    OurName <- MCOurName
    OurPrefix0 <- MCOurPrefix0
    TheirPrefix0 <- MCTheirPrefix0
    GenesisVersion = 1
    MaxVersion = 3
    MaxInFlight = 1
SPECIFICATION Spec
INVARIANTS
    ProofTrusted
