SPECIFICATION Spec
CONSTANTS
    Libraries = {"UNBOUND"}
    MaxSrv = 0
INVARIANTS
    FailedHasNoData
CHECK_DEADLOCK FALSE
