CONSTANTS
    Threads = {t1, t2, t3}
    Keys = {k1, k2}
    NoThread = NoThread

SPECIFICATION FairSpec

INVARIANT NoLostWakeup
PROPERTY KeyIsServed
PROPERTY ImplementsLock
