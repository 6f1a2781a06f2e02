CONSTANTS
    XOR_NAME_BITS = 3
SPECIFICATION Spec
INVARIANTS
    IsCoveredByCorrect
    BoundsBracket
    PrefixOrderTotal
    IsNeighbourCorrect
