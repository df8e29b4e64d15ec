CONSTANTS
    a = a
    b = b
    ra1 = ra1
    ra2 = ra2
    rb1 = rb1
    rb2 = rb2
    ha = ha
    hb = hb
    ua = ua
    ub = ub
    c1 = c1
    c2 = c2
    Nodes = {a, b}
    Containers = {c1}
    NoNode = NoNode
    NoPod = NoPod
    Reconcilers = {ra1}
    Holders = {hb}
    Users = {ua}
    NodeOf <- MCNodeOf
    Creator = a
    Allowed = {a, b}
    CoreRuntime = {c1}
    Timing = "turns"
    MaxMigrations = 0
    MaxDeletes = 1
    MaxCleanups = 0
    MaxFaults = 0
    MaxExits = 0
    MaxCrashes = 0
    MaxIds = 6

SPECIFICATION FairSpec
PROPERTY DeleteEnds
CHECK_DEADLOCK FALSE
