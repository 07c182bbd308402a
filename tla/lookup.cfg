SPECIFICATION LookupSpec
CONSTANTS
    Request = {}
    Address = {}
    Service = {}
    Addrinfos = {}
    Addrtuples = {}
    Leading <- SmallLeading
    Numeric = {""}
    File <- SmallFile
    NoName = NoName
    MaxCalls = 16
    Unreachable <- SmallUnreachable
    Literal <- SmallLiteral
    SocketNames = {"/socket"}
    HostsFile <- SmallHosts
    Uname = "self"
    Interfaces <- SmallInterfaces
    ZeroPrefix = {"loopback", "any", "mapped"}
    NssModules <- SmallNss
    Resolved <- SmallResolved
    Configs <- SmallConfigs
    Remote <- SmallRemote
    Node <- SmallNode
    Hints <- SmallHints
    Peer <- SmallPeer
    Size <- SmallSize
    MaxQueries = 2
INVARIANTS
    LocalStaysLocal
    AnswerIsFound
    BufferExact
CHECK_DEADLOCK FALSE
