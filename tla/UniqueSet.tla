------------------------------ MODULE UniqueSet ------------------------------
(***************************************************************************)
(* misc.UniqueSet (node/misc/unique_set.go): a set of keys under a mutex    *)
(* with one condition variable.  Insert waits while its key is a member and *)
(* then adds it; Remove deletes the key and broadcasts.  The critical       *)
(* sections of the mutex are the atomic steps.  A broadcast wakes the       *)
(* waiters of every key, each of which locks the mutex again and tests its  *)
(* own key again.                                                           *)
(***************************************************************************)
CONSTANTS
    Threads,    \* the goroutines that use the set
    Keys,       \* the record keys ("pod/<uuid>", ...) they insert
    NoThread    \* refinement only: the owner of a free key

ASSUME UniqueSetAssumption == NoThread \notin Threads

VARIABLES
    keys,   \* UniqueSet.keys: the members of the set
    pc,     \* where each goroutine is in Insert ... Remove
    want    \* the key of the goroutine's current Insert/Remove pair

vars == <<keys, pc, want>>

States == {"idle", "locking", "waiting", "inside"}

(* Every value has its type; the set holds keys, and each goroutine has one.*)
TypeOK ==
    /\ keys \subseteq Keys
    /\ pc \in [Threads -> States]
    /\ want \in [Threads -> Keys]

Init ==
    /\ keys = {}
    /\ pc = [t \in Threads |-> "idle"]
    /\ want \in [Threads -> Keys]

-----------------------------------------------------------------------------
(* A caller enters Insert(k). *)
Call(t, k) ==
    /\ pc[t] = "idle"
    /\ pc' = [pc EXCEPT ![t] = "locking"]
    /\ want' = [want EXCEPT ![t] = k]
    /\ UNCHANGED keys

(* The loop of Insert, under the mutex: the key is taken, cond.Wait sleeps. *)
Wait(t) ==
    /\ pc[t] = "locking"
    /\ want[t] \in keys
    /\ pc' = [pc EXCEPT ![t] = "waiting"]
    /\ UNCHANGED <<keys, want>>

(* The loop of Insert ends: the key is free and becomes a member. *)
Enter(t) ==
    /\ pc[t] = "locking"
    /\ want[t] \notin keys
    /\ keys' = keys \cup {want[t]}
    /\ pc' = [pc EXCEPT ![t] = "inside"]
    /\ UNCHANGED want

(* Defect: cond.Wait under an "if" instead of a "for", so that a woken      *)
(* waiter goes on with its insert without testing its key again.            *)
BroadcastNoRetest(p) ==
    [s \in Threads |-> IF p[s] = "waiting" THEN "inside" ELSE p[s]]

(* Defect: Remove forgets cond.Broadcast. *)
BroadcastNobody(p) == p

(* The waiters after cond.Broadcast: all of them are runnable again and     *)
(* have to lock the mutex to return from cond.Wait.                         *)
Broadcast(p) == [s \in Threads |-> IF p[s] = "waiting" THEN "locking" ELSE p[s]]

Remove(t) ==
    /\ pc[t] = "inside"
    /\ keys' = keys \ {want[t]}
    /\ pc' = Broadcast([pc EXCEPT ![t] = "idle"])
    /\ UNCHANGED want

Next ==
    \E t \in Threads :
        \/ \E k \in Keys : Call(t, k)
        \/ Wait(t)
        \/ Enter(t)
        \/ Remove(t)

Spec == Init /\ [][Next]_vars

(* A goroutine that is runnable runs, and every caller defers its Remove, so *)
(* a goroutine that holds a key gives it back.                               *)
Fairness == \A t \in Threads : WF_vars(Wait(t) \/ Enter(t)) /\ WF_vars(Remove(t))

FairSpec == Spec /\ Fairness

-----------------------------------------------------------------------------
Holders(k) == {t \in Threads : pc[t] = "inside" /\ want[t] = k}

(* Two goroutines are never between Insert and Remove of the same key: the  *)
(* check-then-set of kvs.Update is alone on its record within a node.       *)
MutualExclusion ==
    \A s, t \in Threads :
        pc[s] = "inside" /\ pc[t] = "inside" /\ want[s] = want[t] => s = t

(* Every member of the set has a goroutine that will remove it, and a       *)
(* goroutine sleeps in cond.Wait only while its key has such a holder: no   *)
(* wake-up was lost between the test and the sleep or by the broadcast.     *)
NoLostWakeup ==
    /\ \A k \in keys : Holders(k) # {}
    /\ \A t \in Threads : pc[t] = "waiting" => Holders(want[t]) # {}

(* A key that a goroutine asks for, awake or asleep, does not stay free:    *)
(* that goroutine or another one gets it.                                   *)
KeyIsServed ==
    \A t \in Threads :
        pc[t] \in {"locking", "waiting"} ~> (pc[t] = "inside" \/ Holders(want[t]) # {})

-----------------------------------------------------------------------------
(* The owner of a key in the abstract lock: the goroutine inside, if any. *)
owners ==
    [k \in Keys |->
        IF Holders(k) = {}
        THEN NoThread
        ELSE CHOOSE t \in Threads : pc[t] = "inside" /\ want[t] = k]

Lock == INSTANCE KeyedLock WITH owner <- owners

(* UniqueSet implements the lock per key. *)
ImplementsLock == Lock!LockSpec

==============================================================================
