SPECIFICATION AsyncnsSpec
CONSTANTS
    Node = {n1, n2, n3, n4}
    queries = queries
    NoNode = NoNode
    MaxNodes = 4
INVARIANTS
    ListIsQueue
    OldestFirst
    NoOrphans
