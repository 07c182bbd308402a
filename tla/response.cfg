SPECIFICATION Spec
CONSTANTS
    Request <- SmallRequest
    Address <- SmallAddress
    Service <- SmallService
    Addrinfos <- SmallAddrinfo
    Addrtuples <- SmallAddrtuple
    Leading <- SmallLeading
    Numeric = {"53"}
    File <- SmallFile
    NoName = NoName
    MaxCalls = 3
INVARIANTS
    TypeOK
    StablySorted
    NoPathTwice
    PathsAgree
CHECK_DEADLOCK FALSE
