CONSTANTS
    Calls = {"get_idata", "get_mdata_value", "put_mdata"}
    Names = {n1, n2}
    Values = {v1, v2}
    MaxRequests = 3
    MaxEvents = 1
    NoValue = NoValue
SPECIFICATION FairSpec
INVARIANTS
    TypeOK
    GotValueIsStored
PROPERTIES
    TimeoutOnlyIfUnanswered
    CallReturns
    NewConnects
CHECK_DEADLOCK FALSE
