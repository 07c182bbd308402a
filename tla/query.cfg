SPECIFICATION FairSpec
CONSTANTS
    Query = {q1, q2}
    NoQuery = NoQuery
    NBackends = 3
    Mandatory = {2}
    Stateful = {2, 3}
    Supports <- FirstForwardOnly
    Requests = {"FORWARD", "REVERSE"}
    RequestTimeout = 1
    ResultTimeout = 1
    CallbackFrees = FALSE
INVARIANTS
    TypeOK
    TimersMatchState
    NeverStranded
    StateObjectOwned
    FinishedIsQuiet
    CallbackOnce
    ContextReleased
PROPERTIES
    ResultStable
    Isolation
    EveryQueryFinishes
CHECK_DEADLOCK FALSE
