SPECIFICATION Spec
CONSTANTS
    NFds = 3
    MaxGen = 2
INVARIANTS
    NfdsIsTight
PROPERTIES
    EventsGoHome
CHECK_DEADLOCK FALSE
