SPECIFICATION Spec
CONSTANTS
    Query = {q1, q2}
    NoQuery = NoQuery
    NBackends = 3
    Mandatory = {}
    Stateful = {2}
    Supports <- AllTypes
    Requests = {"FORWARD"}
    RequestTimeout = 1
    ResultTimeout = 1
    CallbackFrees = FALSE
INVARIANTS
    NoAssertionFails
CHECK_DEADLOCK FALSE
