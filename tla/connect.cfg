SPECIFICATION SocketSpec
CONSTANTS
    Paths = 5
    Family <- Sorted
    Modes <- Orderly
    Asks = 3
    Addresses = 3
    Roles = {"connect", "listen"}
    Limit = 6
INVARIANTS
    InOrder
    TimersFit
    WaitingIsTimed
    CallbackOnce
    AcceptsEverywhere
    ListenReleased
    OthersKept
PROPERTIES
    PreferenceKept
    ServedInSequence
CHECK_DEADLOCK FALSE
