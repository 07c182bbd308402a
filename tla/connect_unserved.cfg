SPECIFICATION SocketSpec
CONSTANTS
    Paths = 2
    Family <- Alternating
    Modes <- Streams
    Asks = 0
    Addresses = 0
    Roles = {"connect"}
    Limit = 1
PROPERTIES
    Served
CHECK_DEADLOCK FALSE
