SPECIFICATION FairSpec
CONSTANTS
    Ptr = {p1, p2, p3}
    Null = Null
    MaxEvents = 2
    Reused = {p1}
    MaxGen = 2
    MaxDepth = 2
INVARIANTS
    NoStaleEvent
PROPERTIES
    ImplementsWatches
    Served
