CONSTANTS
    c1 = c1
    c2 = c2
    Containers = {c1, c2}
    NoPod = NoPod
    NoRecord = NoRecord
    NoData = NoData
    MaxData = 1
    MaxMoves = 2
    MaxDeletes = 1
    MaxMishaps = 1
    MaxIds = 6

SPECIFICATION FairSpec
INVARIANT StateCarried
INVARIANT InitializedFirst
PROPERTY MoveCompletes
PROPERTY AppIsSetUp
CHECK_DEADLOCK FALSE
