CONSTANTS
    Home = "home"
    Nodes = {"home", "viewer"}
    XrNodes = {"home"}
    Positions <- MCPositions
    Start = "here"
    Near <- MCNear
    Wide <- MCWide
    MaxUpdates = 1
    MaxFaults = 2

SPECIFICATION FairSpec
PROPERTY DeletedStaysDeleted
PROPERTY SceneForward
PROPERTY SceneSettles
CHECK_DEADLOCK FALSE
