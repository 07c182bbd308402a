SPECIFICATION Spec
CONSTANTS
    Libraries = {"UNBOUND", "ARES", "AVAHI"}
    MaxSrv = 2
INVARIANTS
    PendingIsOutstanding
    CompleteWhenFinished
    SecureMeansAll
    AresNeverIdle
CHECK_DEADLOCK FALSE
