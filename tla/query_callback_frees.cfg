SPECIFICATION Spec
CONSTANTS
    Query = {q1}
    NoQuery = NoQuery
    NBackends = 3
    Mandatory = {}
    Stateful = {2}
    Supports <- AllTypes
    Requests = {"FORWARD"}
    RequestTimeout = 1
    ResultTimeout = 1
    CallbackFrees = TRUE
INVARIANTS
    NoUseAfterFree
CHECK_DEADLOCK FALSE
