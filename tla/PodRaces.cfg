CONSTANTS
    a = a
    b = b
    ra1 = ra1
    ra2 = ra2
    rb1 = rb1
    rb2 = rb2
    ha = ha
    hb = hb
    ua = ua
    ub = ub
    c1 = c1
    c2 = c2
    Nodes = {a, b}
    Containers = {c1, c2}
    NoNode = NoNode
    NoPod = NoPod
    Reconcilers = {ra1, ra2, rb1}
    Holders = {hb}
    Users = {ua}
    NodeOf <- MCNodeOf
    Creator = a
    Allowed = {a}
    CoreRuntime = {c1}
    Timing = "free"
    MaxMigrations = 1
    MaxDeletes = 1
    MaxCleanups = 1
    MaxFaults = 1
    MaxExits = 1
    MaxCrashes = 1
    MaxIds = 5

SPECIFICATION Spec
SYMMETRY Symmetry
CONSTRAINT OneCallAndOneMishap
INVARIANT ReconcileAlone
INVARIANT SandboxTracked
INVARIANT RecordValid
INVARIANT Coherent
CHECK_DEADLOCK FALSE
