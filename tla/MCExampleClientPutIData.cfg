CONSTANTS
    Calls = {"put_idata"}
    Names = {n1}
    Values = {v1}
    MaxRequests = 1
    MaxEvents = 0
    NoValue = NoValue
SPECIFICATION Spec
PROPERTIES
    TimeoutOnlyIfUnanswered
CHECK_DEADLOCK FALSE
