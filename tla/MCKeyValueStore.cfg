CONSTANTS
    Calls = {}
    Names = {n1, n2}
    Values = {v1, v2}
    MaxRequests = 3
    MaxCommands = 4
    MaxEvents = 1
    NoValue = NoValue
SPECIFICATION KVSSpec
INVARIANTS
    ReadYourWrites
CHECK_DEADLOCK FALSE
