------------------------------ MODULE KeyedLock ------------------------------
(***************************************************************************)
(* What misc.UniqueSet promises to its callers, the Get, Update and Delete  *)
(* wrappers of node/kvs: a lock per key.  Insert acquires the key, Remove   *)
(* releases it, and a key never has two owners.                             *)
(***************************************************************************)
CONSTANTS Threads, Keys, NoThread

VARIABLE owner

LockTypeOK == owner \in [Keys -> Threads \cup {NoThread}]

LockInit == owner = [k \in Keys |-> NoThread]

Acquire(t, k) ==
    /\ owner[k] = NoThread
    /\ owner' = [owner EXCEPT ![k] = t]

Release(t, k) ==
    /\ owner[k] = t
    /\ owner' = [owner EXCEPT ![k] = NoThread]

LockNext == \E t \in Threads, k \in Keys : Acquire(t, k) \/ Release(t, k)

LockSpec == LockInit /\ [][LockNext]_owner
==============================================================================
