CONSTANTS
    Nodes = {"a", "b"}
    Interval = 2
    Lifetime = 6
    MaxDelay = 1
    MaxLate = 1
    MaxLostRow = 1

SPECIFICATION FairSpec
INVARIANT ListFresh
PROPERTY NeighbourStays
PROPERTY Announced
CHECK_DEADLOCK FALSE
