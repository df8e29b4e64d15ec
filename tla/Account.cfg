CONSTANTS
    n1 = n1
    n2 = n2
    p1 = p1
    p2 = p2
    x = x
    Nodes = {n1, n2}
    Pods = {p1, p2}
    Accounts = {x}
    NoAccount = NoAccount
    NoRecord = NoRecord
    NoLog = NoLog
    AccountOf <- MCAccountOf
    PodsAt <- MCPodsAt
    Owner <- MCOwner
    First = n1
    KeepAlivePeriod = 1
    DealPeriod = 1
    ResourceLifetime = 1
    AccountLifetime = 1
    MaxTime = 7
    MaxEvents = 1

SPECIFICATION Spec
INVARIANT LogsOrdered
INVARIANT LiveListed
INVARIANT SilentUnlisted
INVARIANT SilentRemoved
INVARIANT OnlyEmptyRemoved
CHECK_DEADLOCK FALSE
