--------------------------- MODULE UniqueSet_proofs ---------------------------
(***************************************************************************)
(* Proofs about UniqueSet for any set of goroutines and any set of keys.    *)
(***************************************************************************)
EXTENDS UniqueSet, TLAPS

Inside(t, k) == pc[t] = "inside" /\ want[t] = k

(* The members of the set are exactly the keys of the goroutines inside, and *)
(* whoever sleeps sleeps on a member.                                        *)
KeysAreHeld ==
    /\ \A k \in keys : \E t \in Threads : Inside(t, k)
    /\ \A t \in Threads : pc[t] = "inside" => want[t] \in keys
    /\ \A t \in Threads : pc[t] = "waiting" => want[t] \in keys

IInv == TypeOK /\ KeysAreHeld /\ MutualExclusion

(* Every reachable state of the set has its type. *)
THEOREM TypeCorrect == Spec => []TypeOK
<1>1. Init => TypeOK
  BY DEF Init, TypeOK, States
<1>2. TypeOK /\ [Next]_vars => TypeOK'
  <2> SUFFICES ASSUME TypeOK, [Next]_vars PROVE TypeOK'
    OBVIOUS
  <2> USE DEF TypeOK, States
  <2>1. ASSUME NEW t \in Threads, NEW k \in Keys, Call(t, k) PROVE TypeOK'
    BY <2>1 DEF Call
  <2>2. ASSUME NEW t \in Threads, Wait(t) PROVE TypeOK'
    BY <2>2 DEF Wait
  <2>3. ASSUME NEW t \in Threads, Enter(t) PROVE TypeOK'
    BY <2>3 DEF Enter
  <2>4. ASSUME NEW t \in Threads, Remove(t) PROVE TypeOK'
    BY <2>4 DEF Remove, Broadcast
  <2>5. CASE UNCHANGED vars
    BY <2>5 DEF vars
  <2> QED
    BY <2>1, <2>2, <2>3, <2>4, <2>5 DEF Next
<1> QED
  BY <1>1, <1>2, PTL DEF Spec

(* The inductive invariant behind mutual exclusion: the set of keys and the *)
(* program counters agree.                                                  *)
THEOREM Inductive == Spec => []IInv
<1>1. Init => IInv
  BY DEF Init, IInv, TypeOK, States, KeysAreHeld, MutualExclusion
<1>2. IInv /\ TypeOK' /\ [Next]_vars => IInv'
  <2> SUFFICES ASSUME IInv, TypeOK', [Next]_vars PROVE KeysAreHeld' /\ MutualExclusion'
    BY DEF IInv
  <2> USE DEF IInv, TypeOK, States, KeysAreHeld, MutualExclusion, Inside
  <2>1. ASSUME NEW t \in Threads, NEW k \in Keys, Call(t, k)
        PROVE  KeysAreHeld' /\ MutualExclusion'
    BY <2>1 DEF Call
  <2>2. ASSUME NEW t \in Threads, Wait(t) PROVE KeysAreHeld' /\ MutualExclusion'
    BY <2>2 DEF Wait
  <2>3. ASSUME NEW t \in Threads, Enter(t) PROVE KeysAreHeld' /\ MutualExclusion'
    <3>1. MutualExclusion'
      BY <2>3 DEF Enter
    <3>2. \A k \in keys' : \E s \in Threads : Inside(s, k)'
      <4> SUFFICES ASSUME NEW k \in keys' PROVE \E s \in Threads : Inside(s, k)'
        OBVIOUS
      <4>1. CASE k = want[t]
        BY <2>3, <4>1 DEF Enter
      <4>2. CASE k # want[t]
        BY <2>3, <4>2 DEF Enter
      <4> QED
        BY <4>1, <4>2
    <3> QED
      BY <2>3, <3>1, <3>2 DEF Enter
  <2>4. ASSUME NEW t \in Threads, Remove(t) PROVE KeysAreHeld' /\ MutualExclusion'
    <3>1. /\ keys' = keys \ {want[t]} /\ want' = want
          /\ pc[t] = "inside" /\ pc'[t] = "idle"
          /\ \A s \in Threads \ {t} :
                pc'[s] = IF pc[s] = "waiting" THEN "locking" ELSE pc[s]
      BY <2>4 DEF Remove, Broadcast
    <3> HIDE DEF TypeOK
    <3>2. \A s \in Threads : pc'[s] = "inside" => pc[s] = "inside" /\ s # t
      BY <3>1
    <3>3. \A s \in Threads : pc'[s] # "waiting"
      BY <3>1
    <3>4. \A k \in keys' : \E s \in Threads : Inside(s, k)'
      BY <3>1
    <3> QED
      BY <3>1, <3>2, <3>3, <3>4
  <2>5. CASE UNCHANGED vars
    BY <2>5 DEF vars
  <2> QED
    BY <2>1, <2>2, <2>3, <2>4, <2>5 DEF Next
<1> QED
  BY <1>1, <1>2, TypeCorrect, PTL DEF Spec

(* No two goroutines are ever inside with the same key. *)
THEOREM Exclusion == Spec => []MutualExclusion
<1>1. IInv => MutualExclusion
  BY DEF IInv
<1> QED
  BY <1>1, Inductive, PTL

(* A member always has a goroutine that will remove it, and nobody sleeps on *)
(* a key that is free.                                                       *)
THEOREM WakeupsAreKept == Spec => []NoLostWakeup
<1>1. IInv => NoLostWakeup
  BY DEF IInv, NoLostWakeup, KeysAreHeld, Inside, Holders, TypeOK
<1> QED
  BY <1>1, Inductive, PTL

-----------------------------------------------------------------------------
(* Refinement: what the owner of a key is, without CHOOSE. *)

LEMMA OwnerIsInside ==
    ASSUME MutualExclusion, NEW k \in Keys, NEW t \in Threads, Inside(t, k)
    PROVE  owners[k] = t
BY DEF owners, Holders, Inside, MutualExclusion

LEMMA FreeHasNoOwner ==
    ASSUME NEW k \in Keys, \A t \in Threads : ~ Inside(t, k)
    PROVE  owners[k] = NoThread
BY DEF owners, Holders, Inside

LEMMA PointUpdate ==
    ASSUME NEW D, NEW f, NEW g, NEW x \in D, NEW v,
           f = [d \in D |-> f[d]], g = [d \in D |-> g[d]],
           g[x] = v, \A d \in D \ {x} : g[d] = f[d]
    PROVE  g = [f EXCEPT ![x] = v]
OBVIOUS

(* UniqueSet implements a lock per key: Enter acquires, Remove releases, and *)
(* every other step leaves all owners as they are.                           *)
THEOREM Implementation == Spec => ImplementsLock
<1>1. Init => Lock!LockInit
  BY FreeHasNoOwner DEF Init, Lock!LockInit, Inside, owners
<1>2. IInv /\ IInv' /\ [Next]_vars => [Lock!LockNext]_owners
  <2> SUFFICES ASSUME IInv, IInv', [Next]_vars PROVE [Lock!LockNext]_owners
    OBVIOUS
  <2>a. MutualExclusion /\ MutualExclusion' /\ TypeOK /\ TypeOK' /\ KeysAreHeld
    BY DEF IInv
  <2>b. ASSUME NEW k \in Keys,
               \A s \in Threads : Inside(s, k)' <=> Inside(s, k)
        PROVE  owners'[k] = owners[k]
    <3>1. CASE \E s \in Threads : Inside(s, k)
      <4> PICK s \in Threads : Inside(s, k)
        BY <3>1
      <4> QED
        BY <2>a, <2>b DEF owners, Holders, Inside, MutualExclusion
    <3>2. CASE \A s \in Threads : ~ Inside(s, k)
      BY <2>b, <3>2 DEF owners, Holders, Inside
    <3> QED
      BY <3>1, <3>2
  <2>c. /\ owners = [k \in Keys |-> owners[k]]
        /\ owners' = [k \in Keys |-> owners'[k]]
    BY DEF owners
  <2>1. ASSUME NEW t \in Threads, NEW k \in Keys, Call(t, k) PROVE owners' = owners
    <3>1. \A j \in Keys, s \in Threads : Inside(s, j)' <=> Inside(s, j)
      BY <2>a, <2>1 DEF Call, Inside, TypeOK
    <3> QED
      BY <2>b, <3>1 DEF owners
  <2>2. ASSUME NEW t \in Threads, Wait(t) PROVE owners' = owners
    <3>1. \A j \in Keys, s \in Threads : Inside(s, j)' <=> Inside(s, j)
      BY <2>a, <2>2 DEF Wait, Inside, TypeOK
    <3> QED
      BY <2>b, <3>1 DEF owners
  <2>3. ASSUME NEW t \in Threads, Enter(t) PROVE Lock!Acquire(t, want[t])
    <3> want[t] \in Keys
      BY <2>a DEF TypeOK
    <3>1. \A j \in Keys \ {want[t]}, s \in Threads : Inside(s, j)' <=> Inside(s, j)
      BY <2>a, <2>3 DEF Enter, Inside, TypeOK
    <3>2. owners[want[t]] = NoThread
      BY <2>a, <2>3, FreeHasNoOwner DEF Enter, Inside, KeysAreHeld
    <3>3. owners'[want[t]] = t
      <4>1. pc'[t] = "inside" /\ want'[t] = want[t] /\ want' = want
        BY <2>a, <2>3 DEF Enter, TypeOK
      <4> QED
        BY <2>a, <4>1 DEF owners, Holders, MutualExclusion
    <3>4. \A j \in Keys \ {want[t]} : owners'[j] = owners[j]
      BY <2>b, <3>1 DEF owners
    <3>5. owners' = [owners EXCEPT ![want[t]] = t]
      BY <2>c, <3>3, <3>4, PointUpdate
    <3> QED
      BY <3>2, <3>5 DEF Lock!Acquire
  <2>4. ASSUME NEW t \in Threads, Remove(t) PROVE Lock!Release(t, want[t])
    <3> want[t] \in Keys
      BY <2>a DEF TypeOK
    <3>0. /\ want' = want /\ pc[t] = "inside" /\ pc'[t] = "idle"
          /\ \A s \in Threads \ {t} :
                pc'[s] = IF pc[s] = "waiting" THEN "locking" ELSE pc[s]
      BY <2>a, <2>4 DEF Remove, Broadcast, TypeOK
    <3>1. \A j \in Keys \ {want[t]}, s \in Threads : Inside(s, j)' <=> Inside(s, j)
      BY <3>0 DEF Inside
    <3>2. owners[want[t]] = t
      BY <2>a, <3>0, OwnerIsInside DEF Inside
    <3>3. owners'[want[t]] = NoThread
      BY <2>a, <3>0 DEF owners, Holders, MutualExclusion
    <3>4. \A j \in Keys \ {want[t]} : owners'[j] = owners[j]
      BY <2>b, <3>1 DEF owners
    <3>5. owners' = [owners EXCEPT ![want[t]] = NoThread]
      BY <2>c, <3>3, <3>4, PointUpdate
    <3> QED
      BY <3>2, <3>5 DEF Lock!Release
  <2>5. CASE UNCHANGED vars
    BY <2>5 DEF vars, owners, Holders
  <2> QED
    BY <2>a, <2>1, <2>2, <2>3, <2>4, <2>5 DEF Next, Lock!LockNext, TypeOK
<1> QED
  BY <1>1, <1>2, Inductive, PTL DEF Spec, ImplementsLock, Lock!LockSpec
==============================================================================
