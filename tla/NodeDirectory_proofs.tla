-------------------------- MODULE NodeDirectory_proofs --------------------------
(***************************************************************************)
(* Proofs about NodeDirectory for any set of nodes, interval, lifetime and  *)
(* delays that satisfy NodeDirectoryAssumption.                             *)
(***************************************************************************)
EXTENDS NodeDirectory, FiniteSetTheorems, WellFoundedInduction, TLAPS

LEMMA Constants ==
    /\ Interval \in Nat /\ Lifetime \in Nat /\ MaxDelay \in Nat /\ MaxLate \in Nat
    /\ MaxLostRow \in Nat /\ MaxLate < Interval
BY NodeDirectoryAssumption DEF NodeDirectoryAssumption

USE Constants

Messages == [from : Nodes, to : Nodes, age : 0 .. MaxDelay]

(* Nobody is late for its ticker beyond MaxLate. *)
InTime == \A n \in online : due[n] => timer[n] <= MaxLate

(* What a record says is no older than the record and a message, *)
SaidInTime(r) == r.said <= r.age + MaxDelay

(* and the record no older than the lifetime at the last cleanup and the    *)
(* time since: that on the ticker, and an interval if it has ticked since.  *)
SinceCleanup(n) == timer[n] + (IF due[n] THEN Interval ELSE 0)

Cleaned(n, r) == r.age <= Lifetime + SinceCleanup(n)

RecordsBounded ==
    \A n \in online : \A m \in DOMAIN nodes[n] :
        SaidInTime(nodes[n][m]) /\ Cleaned(n, nodes[n][m])

NodesFunction == nodes = [n \in Nodes |-> nodes[n]]

ToOthers == \A m \in flying : m.from # m.to

IInv == TypeOK /\ NodesFunction /\ ToOthers /\ InTime /\ RecordsBounded
(* A step that leaves the lists and the tickers alone. *)
LEMMA OthersKeep ==
    ASSUME IInv, TypeOK', online' \subseteq online, flying' \subseteq flying,
            UNCHANGED <<timer, due, nodes>>
    PROVE  IInv'
BY DEF IInv, NodesFunction, ToOthers, InTime, RecordsBounded, SaidInTime, Cleaned, SinceCleanup

(* A tick forgets what is older than the lifetime, and changes no age. *)
LEMMA TickKeeps ==
    ASSUME IInv, NEW n \in Nodes, Tick(n)
    PROVE  IInv'
<1> USE DEF IInv, TypeOK, Tick
<1>1. NodesFunction' /\ ToOthers'
  BY DEF NodesFunction, ToOthers
<1>2. TypeOK'
  <2>1. flying' \subseteq Messages
    BY DEF Messages
  <2>2. \A o \in Nodes : DOMAIN nodes'[o] \subseteq DOMAIN nodes[o]
                         /\ \A m \in DOMAIN nodes'[o] : nodes'[o][m] \in Records
    <3> SUFFICES ASSUME NEW o \in Nodes, NEW m \in DOMAIN nodes'[o]
                 PROVE  m \in DOMAIN nodes[o] /\ nodes'[o][m] \in Records
      OBVIOUS
    <3>1. m \in DOMAIN nodes[o]
      BY DEF Kept
    <3>2. nodes[o][m] \in Records
      BY <3>1
    <3>3. nodes'[o][m] \in {nodes[o][m], [nodes[o][m] EXCEPT !.silent = TRUE]}
      BY <3>1
    <3> QED
      BY <3>1, <3>2, <3>3 DEF Records
  <2> QED
    BY <2>1, <2>2 DEF Messages
<1>3. InTime'
  BY DEF InTime
<1>4. RecordsBounded'
  <2> SUFFICES ASSUME NEW o \in online', NEW m \in DOMAIN nodes'[o]
               PROVE  (SaidInTime(nodes[o][m]) /\ Cleaned(o, nodes[o][m]))'
    BY DEF RecordsBounded
  <2>1. /\ m \in DOMAIN nodes[o] /\ nodes[o][m] \in Records
        /\ nodes'[o][m].age = nodes[o][m].age /\ nodes'[o][m].said = nodes[o][m].said
        /\ o = n => m \in Kept(n)
    BY DEF Kept, Records
  <2>2. SaidInTime(nodes[o][m]) /\ Cleaned(o, nodes[o][m])
    BY <2>1 DEF RecordsBounded
  <2>3. CASE o = n
    BY <2>1, <2>2, <2>3 DEF SaidInTime, Cleaned, SinceCleanup, Kept, Expired, Records
  <2>4. CASE o # n
    BY <2>1, <2>2, <2>4 DEF SaidInTime, Cleaned, SinceCleanup
  <2> QED
    BY <2>3, <2>4
<1> QED
  BY <1>1, <1>2, <1>3, <1>4

(* What is received is as old as its message, and no message is older than  *)
(* MaxDelay.                                                                *)
LEMMA ReceivePublishingNodeKeeps ==
    ASSUME IInv, NEW m \in flying, ReceivePublishingNode(m)
    PROVE  IInv'
<1> USE DEF IInv, TypeOK, ReceivePublishingNode, Received
<1>1. m \in Messages
  BY DEF Messages
<1>2. NodesFunction'
  BY <1>1 DEF NodesFunction, Messages
<1>6. ToOthers'
  BY DEF ToOthers
<1>3. TypeOK'
  <2>1. flying' \subseteq Messages
    BY DEF Messages
  <2>2. lostRow' \in [Nodes \X Nodes -> 0 .. MaxLostRow]
    OBVIOUS
  <2>3. \A o \in Nodes : DOMAIN nodes'[o] \subseteq Nodes \ {o}
                         /\ \A k \in DOMAIN nodes'[o] : nodes'[o][k] \in Records
    BY <1>1 DEF Messages, NodesFunction, Records, ToOthers
  <2> QED
    BY <2>1, <2>2, <2>3 DEF Messages
<1>4. InTime'
  BY DEF InTime
<1>5. RecordsBounded'
  <2> SUFFICES ASSUME NEW o \in online', NEW k \in DOMAIN nodes'[o]
               PROVE  (SaidInTime(nodes[o][k]) /\ Cleaned(o, nodes[o][k]))'
    BY DEF RecordsBounded
  <2>1. CASE o = m.to /\ k = m.from
    <3>1. nodes'[o][k].age = 0 /\ nodes'[o][k].said = m.age
      BY <1>1, <2>1 DEF NodesFunction, Messages
    <3> QED
      BY <1>1, <3>1 DEF SaidInTime, Cleaned, SinceCleanup, Messages
  <2>2. CASE ~ (o = m.to /\ k = m.from)
    <3>1. k \in DOMAIN nodes[o] /\ nodes'[o][k] = nodes[o][k]
      BY <1>1, <2>2 DEF NodesFunction, Messages
    <3> QED
      BY <3>1 DEF RecordsBounded, SaidInTime, Cleaned, SinceCleanup
  <2> QED
    BY <2>1, <2>2
<1> QED
  BY <1>2, <1>3, <1>4, <1>5, <1>6

(* Who leaves has no list; who stays keeps the ages of its records. *)
LEMMA LeavesKeeps ==
    ASSUME IInv, NEW n \in Nodes, Leaves(n)
    PROVE  IInv'
<1> USE DEF IInv, TypeOK, Leaves
<1>1. NodesFunction' /\ ToOthers'
  BY DEF NodesFunction, ToOthers
<1>2. TypeOK'
  <2>1. \A o \in Nodes : DOMAIN nodes'[o] \subseteq DOMAIN nodes[o]
                         /\ \A m \in DOMAIN nodes'[o] : nodes'[o][m] \in Records
    <3> SUFFICES ASSUME NEW o \in Nodes, NEW m \in DOMAIN nodes'[o]
                 PROVE  m \in DOMAIN nodes[o] /\ nodes'[o][m] \in Records
      OBVIOUS
    <3>1. m \in DOMAIN nodes[o]
      OBVIOUS
    <3>2. nodes[o][m] \in Records
      BY <3>1
    <3>3. nodes'[o][m] \in {nodes[o][m], [nodes[o][m] EXCEPT !.silent = TRUE]}
      BY <3>1
    <3> QED
      BY <3>1, <3>2, <3>3 DEF Records
  <2> QED
    BY <2>1
<1>3. InTime'
  BY DEF InTime
<1>4. RecordsBounded'
  <2> SUFFICES ASSUME NEW o \in online', NEW m \in DOMAIN nodes'[o]
               PROVE  (SaidInTime(nodes[o][m]) /\ Cleaned(o, nodes[o][m]))'
    BY DEF RecordsBounded
  <2>1. /\ o \in online /\ m \in DOMAIN nodes[o]
        /\ nodes'[o][m].age = nodes[o][m].age /\ nodes'[o][m].said = nodes[o][m].said
    BY DEF Records
  <2> QED
    BY <2>1 DEF RecordsBounded, SaidInTime, Cleaned, SinceCleanup
<1> QED
  BY <1>1, <1>2, <1>3, <1>4

(* A record grows older in both ways. *)
LEMMA Older ==
    ASSUME NEW r \in Records
    PROVE  LET q == [r EXCEPT !.age = @ + 1, !.said = @ + 1]
           IN q \in Records /\ q.age = r.age + 1 /\ q.said = r.said + 1
<1> DEFINE a == [r EXCEPT !.age = @ + 1]
<1>1. a \in Records /\ a.age = r.age + 1 /\ a.said = r.said
  BY DEF Records
<1> HIDE DEF a
<1>2. LET q == [a EXCEPT !.said = @ + 1]
      IN q \in Records /\ q.age = a.age /\ q.said = a.said + 1
  BY <1>1 DEF Records
<1> QED
  BY <1>1, <1>2 DEF a

(* As time passes records and messages grow older and tickers go on alike;  *)
(* a ticker that comes round is due, and was not.                           *)
LEMMA ElapseKeeps ==
    ASSUME IInv, Elapse
    PROVE  IInv'
<1>0. ASSUME NEW n \in online
      PROVE  /\ timer[n] = Interval - 1 => ~ due[n] /\ timer'[n] = 0 /\ due'[n]
             /\ timer[n] # Interval - 1 => /\ timer'[n] = timer[n] + 1 /\ (due'[n] <=> due[n])
                                           /\ due[n] => timer'[n] <= MaxLate
             /\ timer[n] \in 0 .. Interval - 1
  <2>1. n \in Nodes /\ timer[n] \in 0 .. Interval - 1 /\ (due[n] => timer[n] < MaxLate)
    BY DEF IInv, TypeOK, Elapse
  <2>2. timer'[n] = IF timer[n] = Interval - 1 THEN 0 ELSE timer[n] + 1
    BY <2>1 DEF Elapse
  <2>3. CASE timer[n] = Interval - 1
    <3>1. due'[n]
      BY <2>1, <2>3 DEF Elapse
    <3> QED
      BY <2>1, <2>2, <2>3, <3>1
  <2>4. CASE timer[n] # Interval - 1
    <3>1. due'[n] <=> due[n]
      BY <2>1, <2>4 DEF Elapse
    <3> QED
      BY <2>1, <2>2, <2>4, <3>1
  <2> QED
    BY <2>1, <2>3, <2>4
<1>1. NodesFunction' /\ ToOthers'
  BY DEF IInv, TypeOK, Elapse, NodesFunction, ToOthers
<1>2. \A n \in Nodes : nodes'[n] = [m \in DOMAIN nodes[n] |->
                                       [nodes[n][m] EXCEPT !.age = @ + 1, !.said = @ + 1]]
  BY DEF Elapse
<1>3. TypeOK'
  <2>1. flying' \subseteq Messages
    <3> SUFFICES ASSUME NEW m \in flying PROVE [m EXCEPT !.age = @ + 1] \in Messages
      BY DEF Elapse
    <3>1. m \in Messages /\ m.age < MaxDelay
      BY DEF Messages, IInv, TypeOK, Elapse
    <3> QED
      BY <3>1 DEF Messages
  <2>2. timer' \in [Nodes -> 0 .. Interval - 1]
    <3> SUFFICES ASSUME NEW n \in Nodes PROVE timer'[n] \in 0 .. Interval - 1
      BY DEF Elapse
    <3>1. CASE n \in online
      BY <1>0, <3>1
    <3>2. CASE n \notin online
      BY <3>2 DEF Elapse, IInv, TypeOK
    <3> QED
      BY <3>1, <3>2
  <2>3. due' \in [Nodes -> BOOLEAN]
    BY DEF Elapse, IInv, TypeOK
  <2>4. ASSUME NEW o \in Nodes
        PROVE  DOMAIN nodes'[o] \subseteq Nodes \ {o}
               /\ \A m \in DOMAIN nodes'[o] : nodes'[o][m] \in Records
    <3>1. /\ DOMAIN nodes[o] \subseteq Nodes \ {o}
          /\ \A m \in DOMAIN nodes[o] : nodes[o][m] \in Records
      BY DEF IInv, TypeOK
    <3> QED
      BY <1>2, <3>1, Older
  <2> QED
    BY <2>1, <2>2, <2>3, <2>4 DEF Messages, Elapse, IInv, TypeOK
<1>4. InTime'
  <2> SUFFICES ASSUME NEW n \in online, due'[n] PROVE timer'[n] <= MaxLate
    BY DEF InTime, Elapse
  <2> QED
    BY <1>0
<1>5. RecordsBounded'
  <2> SUFFICES ASSUME NEW n \in online, NEW m \in DOMAIN nodes'[n]
               PROVE  (SaidInTime(nodes[n][m]) /\ Cleaned(n, nodes[n][m]))'
    BY DEF RecordsBounded, Elapse
  <2>1. n \in Nodes /\ m \in DOMAIN nodes[n]
    BY <1>2 DEF IInv, TypeOK
  <2>2. nodes[n][m] \in Records /\ SaidInTime(nodes[n][m]) /\ Cleaned(n, nodes[n][m])
    BY <2>1 DEF IInv, TypeOK, RecordsBounded
  <2>3. nodes'[n][m].age = nodes[n][m].age + 1 /\ nodes'[n][m].said = nodes[n][m].said + 1
    <3>1. nodes'[n][m] = [nodes[n][m] EXCEPT !.age = @ + 1, !.said = @ + 1]
      BY <1>2, <2>1
    <3> QED
      BY <2>2, <3>1, Older
  <2>4. SinceCleanup(n) \in Nat /\ SinceCleanup(n)' = SinceCleanup(n) + 1
    BY <1>0 DEF SinceCleanup
  <2> QED
    BY <2>2, <2>3, <2>4 DEF SaidInTime, Cleaned, Records
<1> QED
  BY <1>1, <1>3, <1>4, <1>5 DEF IInv

(* Types, and that the age of each record is bounded by the time since the  *)
(* list it is in was cleaned up: what makes ListFresh inductive.            *)
THEOREM BoundsInductive == Spec => []IInv
<1>1. Init => IInv
  BY DEF Init, IInv, TypeOK, NodesFunction, ToOthers, InTime, RecordsBounded
<1>2. IInv /\ [Next]_vars => IInv'
  <2> SUFFICES ASSUME IInv, [Next]_vars PROVE IInv'
    OBVIOUS
  <2>1. ASSUME NEW n \in Nodes, SetPosition(n) PROVE IInv'
    <3>1. TypeOK'
      BY <2>1 DEF SetPosition, IInv, TypeOK
    <3> QED
      BY <2>1, <3>1, OthersKeep DEF SetPosition
  <2>2. ASSUME NEW n \in Nodes, SetPublicity(n) PROVE IInv'
    <3>1. TypeOK'
      BY <2>2 DEF SetPublicity, IInv, TypeOK
    <3> QED
      BY <2>2, <3>1, OthersKeep DEF SetPublicity
  <2>3. ASSUME NEW n \in Nodes, Tick(n) PROVE IInv'
    BY <2>3, TickKeeps
  <2>4. ASSUME NEW n \in Nodes, Leaves(n) PROVE IInv'
    BY <2>4, LeavesKeeps
  <2>5. ASSUME NEW m \in flying, ReceivePublishingNode(m) PROVE IInv'
    BY <2>5, ReceivePublishingNodeKeeps
  <2>6. ASSUME NEW m \in flying, Lost(m) PROVE IInv'
    <3>1. TypeOK'
      BY <2>6 DEF Lost, IInv, TypeOK
    <3> QED
      BY <2>6, <3>1, OthersKeep DEF Lost
  <2>7. CASE Elapse
    BY <2>7, ElapseKeeps
  <2>8. CASE UNCHANGED vars
    <3>1. TypeOK'
      BY <2>8 DEF vars, IInv, TypeOK
    <3> QED
      BY <2>8, <3>1, OthersKeep DEF vars
  <2> QED
    BY <2>1, <2>2, <2>3, <2>4, <2>5, <2>6, <2>7, <2>8 DEF Next
<1> QED
  BY <1>1, <1>2, PTL DEF Spec

(* No node lists another on word older than the lifetime, an interval and   *)
(* the two delays, for all of their values and any number of nodes.         *)
THEOREM ListsAreFresh == Spec => []ListFresh
<1>1. IInv => ListFresh
  <2> SUFFICES ASSUME IInv, NEW n \in online, NEW m \in DOMAIN nodes[n]
               PROVE  nodes[n][m].said <= Lifetime + Interval + MaxLate + MaxDelay
    BY DEF ListFresh
  <2>1. nodes[n][m] \in Records /\ SaidInTime(nodes[n][m]) /\ Cleaned(n, nodes[n][m])
    BY DEF IInv, TypeOK, RecordsBounded
  <2>2. SinceCleanup(n) \in Nat /\ SinceCleanup(n) <= Interval + MaxLate
    BY DEF IInv, TypeOK, InTime, SinceCleanup
  <2> QED
    BY <2>1, <2>2 DEF SaidInTime, Cleaned, Records
<1> QED
  BY <1>1, BoundsInductive, PTL

-----------------------------------------------------------------------------
(* That a node which goes on publishing is not dropped follows from a bound *)
(* on the age of each record by the messages that were sent since: each of  *)
(* them was lost or is still flying.                                        *)

(* The ages of the messages that fly from a node to another, those of a set *)
(* from an age on, and how many these are.                                  *)
AgesOf(m, n) == {a \in 0 .. MaxDelay : [from |-> m, to |-> n, age |-> a] \in flying}

AtLeast(S, a) == {b \in S : b >= a}

Rank(S, a) == Cardinality(AtLeast(S, a))

(* age is at most i intervals and c. *)
Fits(age, i, c) == age <= i * Interval + c

(* Counting the messages that were lost and those that fly, a record of m   *)
(* is an interval older than they are in number, up to the time since m's   *)
(* tick; likewise for each flying message with those before it.             *)
Awaited(age, lost, S, since) ==
    /\ Fits(age, lost + Rank(S, 0), since)
    /\ \A a \in S : Fits(age, lost + Rank(S, a), MaxLate + a)

AllAwaited ==
    \A n \in online : \A m \in DOMAIN nodes[n] :
        ~ nodes[n][m].silent =>
            /\ m \in online
            /\ Awaited(nodes[n][m].age, lostRow[<<m, n>>], AgesOf(m, n), SinceCleanup(m))

(* A message is about as old as its sender's last tick, or older. *)
Spaced == \A x \in flying : x.from \in online => SinceCleanup(x.from) <= x.age + MaxLate

LInv == Spaced /\ AllAwaited

LEMMA FitsFacts ==
    ASSUME NEW age \in Nat, NEW i \in Nat, NEW c \in Nat
    PROVE  /\ Fits(0, i, c)
           /\ Fits(age, i, c) <=> Fits(age + 1, i, c + 1)
           /\ Fits(age, i, c + Interval) <=> Fits(age, i + 1, c)
<1>1. i * Interval \in Nat /\ (i + 1) * Interval = i * Interval + Interval
  OBVIOUS
<1> QED
  BY <1>1 DEF Fits

LEMMA FitsMore ==
    ASSUME NEW age \in Nat, NEW i \in Nat, NEW j \in Nat, NEW c \in Nat, NEW d \in Nat,
           i <= j, c <= d, Fits(age, i, c)
    PROVE  Fits(age, j, d)
<1>1. PICK k \in Nat : j = i + k
  <2>1. j - i \in Nat /\ j = i + (j - i)
    OBVIOUS
  <2> QED
    BY <2>1
<1>2. j * Interval = i * Interval + k * Interval
  BY <1>1
<1>3. i * Interval \in Nat /\ k * Interval \in Nat
  OBVIOUS
<1>4. age <= i * Interval + c
  BY DEF Fits
<1> DEFINE p == i * Interval
           q == k * Interval
<1>5. age <= p + q + d
  <2> p \in Nat /\ q \in Nat /\ age <= p + c
    BY <1>3, <1>4
  <2> HIDE DEF p, q
  <2> QED
    OBVIOUS
<1> QED
  BY <1>2, <1>5 DEF Fits

-----------------------------------------------------------------------------
(* How ranks change when messages are sent, lost, or grow older. *)

LEMMA RankType ==
    ASSUME NEW S \in SUBSET (0 .. MaxDelay), NEW a
    PROVE  IsFiniteSet(AtLeast(S, a)) /\ Rank(S, a) \in Nat
<1>1. IsFiniteSet(0 .. MaxDelay)
  BY FS_Interval
<1>2. AtLeast(S, a) \in SUBSET (0 .. MaxDelay)
  BY DEF AtLeast
<1>3. IsFiniteSet(AtLeast(S, a))
  BY <1>1, <1>2, FS_Subset
<1>4. Cardinality(AtLeast(S, a)) \in Nat
  BY <1>3, FS_CardinalityType
<1> QED
  BY <1>3, <1>4 DEF Rank

(* A set of ages that is not empty has a largest one. *)
LEMMA LargestOf ==
    ASSUME NEW S \in SUBSET (0 .. MaxDelay), S # {}
    PROVE  \E a \in S : \A b \in S : b <= a
<1> DEFINE R == StrictSubsetOrdering(0 .. MaxDelay)
           T == {AtLeast(S, a) : a \in S}
<1>1. IsWellFoundedOn(R, FiniteSubsetsOf(0 .. MaxDelay))
  BY FS_StrictSubsetOrderingWellFounded
<1>2. T \subseteq FiniteSubsetsOf(0 .. MaxDelay) /\ T # {}
  BY RankType DEF AtLeast, FiniteSubsetsOf
<1>3. PICK x \in T : \A y \in T : <<y, x>> \notin R
  <2> HIDE DEF R, T
  <2> QED
    BY <1>1, <1>2, WFMin
<1>4. PICK a \in S : x = AtLeast(S, a)
  OBVIOUS
<1>5. ASSUME NEW b \in S, a < b PROVE FALSE
  <2>0. a \in Nat /\ b \in Nat /\ \A c \in S : c \in Nat /\ (c >= b => c >= a)
    BY <1>5
  <2>1. AtLeast(S, b) \subseteq AtLeast(S, a) /\ a \in AtLeast(S, a) /\ a \notin AtLeast(S, b)
    <3>1. AtLeast(S, b) \subseteq AtLeast(S, a)
      BY <2>0 DEF AtLeast
    <3>2. a >= a /\ ~ (a >= b)
      BY <1>5, <2>0
    <3> QED
      BY <3>1, <3>2 DEF AtLeast
  <2>2. <<AtLeast(S, b), AtLeast(S, a)>> \in R
    BY <2>1 DEF StrictSubsetOrdering, AtLeast
  <2> QED
    BY <1>3, <1>4, <2>2
<1> QED
  BY <1>5

LEMMA RankOfLost ==
    ASSUME NEW S \in SUBSET (0 .. MaxDelay), NEW c, NEW a
    PROVE  Rank(S, a) <= Rank(S \ {c}, a) + 1
<1>1. AtLeast(S \ {c}, a) = AtLeast(S, a) \ {c}
  BY DEF AtLeast
<1>2. IsFiniteSet(AtLeast(S, a)) /\ Rank(S, a) \in Nat
  BY RankType
<1>3. Cardinality(AtLeast(S, a) \ {c}) =
         IF c \in AtLeast(S, a) THEN Rank(S, a) - 1 ELSE Rank(S, a)
  BY <1>2, FS_RemoveElement DEF Rank
<1>4. Rank(S \ {c}, a) = IF c \in AtLeast(S, a) THEN Rank(S, a) - 1 ELSE Rank(S, a)
  BY <1>1, <1>3 DEF Rank
<1> QED
  BY <1>2, <1>4

LEMMA RankOfSent ==
    ASSUME NEW S \in SUBSET (0 .. MaxDelay), 0 \notin S
    PROVE  /\ Rank(S \cup {0}, 0) = Rank(S, 0) + 1
           /\ \A a \in S : Rank(S \cup {0}, a) = Rank(S, a)
<1>1. AtLeast(S \cup {0}, 0) = AtLeast(S, 0) \cup {0} /\ 0 \notin AtLeast(S, 0)
  BY DEF AtLeast
<1>2. Rank(S \cup {0}, 0) = Rank(S, 0) + 1
  <2>1. Cardinality(AtLeast(S, 0) \cup {0}) = Cardinality(AtLeast(S, 0)) + 1
    BY <1>1, RankType, FS_AddElement
  <2> QED
    BY <1>1, <2>1 DEF Rank
<1>3. ASSUME NEW a \in S PROVE AtLeast(S \cup {0}, a) = AtLeast(S, a)
  <2>1. a \in Nat /\ a # 0
    OBVIOUS
  <2> QED
    BY <2>1 DEF AtLeast
<1> QED
  BY <1>2, <1>3 DEF Rank

LEMMA RankOfOlder ==
    ASSUME NEW S \in SUBSET (0 .. MaxDelay), \A a \in S : a < MaxDelay,
           NEW T \in SUBSET (0 .. MaxDelay), T = {a + 1 : a \in S}
    PROVE  /\ Rank(S, 0) <= Rank(T, 0)
           /\ \A a \in S : Rank(S, a) <= Rank(T, a + 1)
<1>1. ASSUME NEW a \in Nat, NEW b \in Nat,
             \A x \in S : x >= a => x + 1 >= b
      PROVE  Rank(S, a) <= Rank(T, b)
  <2> DEFINE f == [x \in AtLeast(S, a) |-> x + 1]
  <2>1. f \in Injection(AtLeast(S, a), AtLeast(T, b))
    <3>1. \A x \in AtLeast(S, a) : x \in Nat /\ x + 1 \in AtLeast(T, b)
      BY <1>1 DEF AtLeast
    <3>2. f \in [AtLeast(S, a) -> AtLeast(T, b)]
      BY <3>1
    <3>3. ASSUME NEW x \in AtLeast(S, a), NEW y \in AtLeast(S, a), f[x] = f[y] PROVE x = y
      <4>1. x \in Nat /\ y \in Nat /\ f[x] = x + 1 /\ f[y] = y + 1
        BY <3>1
      <4> QED
        BY <3>3, <4>1
    <3> QED
      BY <3>2, <3>3 DEF Injection, IsInjective
  <2> QED
    BY <2>1, RankType, FS_Injection DEF Rank
<1> QED
  BY <1>1

-----------------------------------------------------------------------------
(* The steps. *)

LEMMA PairTypes ==
    ASSUME IInv, NEW n \in online, NEW m \in DOMAIN nodes[n]
    PROVE  /\ n \in Nodes /\ m \in Nodes /\ n # m
           /\ nodes[n][m] \in Records /\ nodes[n][m].age \in Nat
           /\ lostRow[<<m, n>>] \in Nat /\ lostRow[<<m, n>>] <= MaxLostRow
           /\ AgesOf(m, n) \in SUBSET (0 .. MaxDelay)
<1>1. n \in Nodes /\ m \in Nodes \ {n} /\ nodes[n][m] \in Records
  BY DEF IInv, TypeOK
<1>2. lostRow[<<m, n>>] \in 0 .. MaxLostRow
  BY <1>1 DEF IInv, TypeOK
<1> QED
  BY <1>1, <1>2 DEF Records, AgesOf

LEMMA SinceType ==
    ASSUME IInv, NEW n \in online
    PROVE  /\ SinceCleanup(n) \in Nat
           /\ SinceCleanup(n) <= Interval + MaxLate
           /\ due[n] => /\ timer[n] \in Nat /\ timer[n] <= MaxLate
                        /\ SinceCleanup(n) = timer[n] + Interval
BY DEF IInv, TypeOK, InTime, SinceCleanup

(* Nothing that the bound speaks of changes. *)
LEMMA NothingAwaited ==
    ASSUME LInv, UNCHANGED <<online, timer, due, flying, nodes, lostRow>>
    PROVE  LInv'
<1>1. Spaced'
  BY DEF LInv, Spaced, SinceCleanup
<1>2. AllAwaited'
  <2> SUFFICES ASSUME NEW n \in online, NEW m \in DOMAIN nodes[n], ~ nodes[n][m].silent
               PROVE  m \in online /\ Awaited(nodes[n][m].age, lostRow[<<m, n>>],
                                              AgesOf(m, n)', SinceCleanup(m)')
    BY DEF AllAwaited
  <2>1. AgesOf(m, n)' = AgesOf(m, n) /\ SinceCleanup(m)' = SinceCleanup(m)
    BY DEF AgesOf, SinceCleanup
  <2> QED
    BY <2>1 DEF LInv, AllAwaited
<1> QED
  BY <1>1, <1>2 DEF LInv

(* A tick of a publishing node sends a message to each other node, which    *)
(* takes the place of the interval that the tick takes from its time.       *)
LEMMA TickAwaited ==
    ASSUME IInv, LInv, NEW n \in Nodes, Tick(n)
    PROVE  LInv'
<1>1. /\ n \in online /\ due[n] /\ SinceCleanup(n)' = timer[n]
      /\ SinceCleanup(n) = timer[n] + Interval /\ timer[n] \in Nat /\ timer[n] <= MaxLate
  BY SinceType DEF Tick, SinceCleanup, IInv, TypeOK
<1>2. \A m \in Nodes : m # n => SinceCleanup(m)' = SinceCleanup(m)
  BY DEF Tick, SinceCleanup, IInv, TypeOK
<1>3. Spaced'
  <2> SUFFICES ASSUME NEW x \in flying', x.from \in online
               PROVE  SinceCleanup(x.from)' <= x.age + MaxLate
    BY DEF Spaced, Tick
  <2>1. CASE x \in flying
    <3>1. x.from \in Nodes /\ x.age \in Nat /\ SinceCleanup(x.from) <= x.age + MaxLate
      BY <2>1 DEF LInv, Spaced, IInv, TypeOK
    <3> QED
      BY <1>1, <1>2, <3>1
  <2>2. CASE x \notin flying
    <3>1. x.from = n /\ x.age = 0
      BY <2>2 DEF Tick
    <3> QED
      BY <1>1, <3>1
  <2> QED
    BY <2>1, <2>2
<1>4. AllAwaited'
  <2> SUFFICES ASSUME NEW o \in online, NEW m \in DOMAIN nodes'[o], ~ nodes'[o][m].silent
               PROVE  m \in online /\ Awaited(nodes'[o][m].age, lostRow[<<m, o>>],
                                              AgesOf(m, o)', SinceCleanup(m)')
    BY DEF AllAwaited, Tick
  <2>1. o \in Nodes /\ m \in DOMAIN nodes[o]
    BY DEF Tick, IInv, TypeOK, Kept
  <2>2. /\ m \in Nodes /\ o # m /\ nodes[o][m] \in Records /\ nodes[o][m].age \in Nat
        /\ lostRow[<<m, o>>] \in Nat /\ AgesOf(m, o) \in SUBSET (0 .. MaxDelay)
    BY <2>1, PairTypes
  <2>3. nodes'[o][m] = nodes[o][m] /\ (m = n => Publishes(n))
    <3>1. nodes'[o][m] = IF o # n /\ m = n /\ ~ Publishes(n)
                         THEN [nodes[o][m] EXCEPT !.silent = TRUE] ELSE nodes[o][m]
      BY <2>1 DEF Tick, Kept
    <3>2. [nodes[o][m] EXCEPT !.silent = TRUE].silent
      BY <2>2 DEF Records
    <3> QED
      BY <2>2, <3>1, <3>2
  <2> DEFINE S == AgesOf(m, o)
             age == nodes[o][m].age
             lost == lostRow[<<m, o>>]
  <2>4. m \in online /\ Awaited(age, lost, S, SinceCleanup(m))
    BY <2>1, <2>3 DEF LInv, AllAwaited
  <2>5. CASE m # n
    <3>1. AgesOf(m, o)' = S
      BY <2>5 DEF AgesOf, Tick
    <3> QED
      BY <1>2, <2>2, <2>3, <2>4, <2>5, <3>1
  <2>6. CASE m = n
    <3>1. AgesOf(m, o)' = S \cup {0}
      BY <2>1, <2>2, <2>3, <2>6 DEF AgesOf, Tick
    <3>2. 0 \notin S
      <4> SUFFICES ASSUME [from |-> m, to |-> o, age |-> 0] \in flying PROVE FALSE
        BY DEF AgesOf
      <4> QED
        BY <1>1, <2>6 DEF LInv, Spaced
    <3> DEFINE T == S \cup {0}
    <3>3. /\ Rank(S, 0) \in Nat /\ Rank(T, 0) = Rank(S, 0) + 1
          /\ \A a \in S : Rank(T, a) = Rank(S, a)
      BY <2>2, <3>2, RankOfSent, RankType
    <3> HIDE DEF S, T
    <3>4. Fits(age, lost + Rank(T, 0), timer[n])
      <4>1. Fits(age, lost + Rank(S, 0), timer[n] + Interval)
        BY <1>1, <2>4, <2>6 DEF Awaited
      <4>2. age \in Nat /\ lost + Rank(S, 0) \in Nat
        BY <2>2, <3>3 DEF age, lost
      <4>3. Fits(age, (lost + Rank(S, 0)) + 1, timer[n])
        BY <1>1, <4>1, <4>2, FitsFacts
      <4>4. (lost + Rank(S, 0)) + 1 = lost + Rank(T, 0)
        BY <2>2, <3>3 DEF lost
      <4> QED
        BY <4>3, <4>4
    <3>5. ASSUME NEW a \in T PROVE Fits(age, lost + Rank(T, a), MaxLate + a)
      <4>1. CASE a \in S
        BY <2>4, <3>3, <4>1 DEF Awaited
      <4>2. CASE a = 0
        <5>1. /\ age \in Nat /\ lost + Rank(T, 0) \in Nat
              /\ lost + Rank(T, 0) <= lost + Rank(T, 0)
          BY <2>2, <3>3 DEF age, lost
        <5>2. Fits(age, lost + Rank(T, 0), MaxLate)
          <6> DEFINE i == lost + Rank(T, 0)
          <6>1. Fits(age, i, timer[n]) /\ i \in Nat /\ i <= i
            BY <3>4, <5>1
          <6>2. timer[n] \in Nat /\ timer[n] <= MaxLate
            BY <1>1
          <6> HIDE DEF i
          <6>3. Fits(age, i, MaxLate)
            BY <5>1, <6>1, <6>2, FitsMore
          <6> QED
            BY <6>3 DEF i
        <5> QED
          BY <4>2, <5>2
      <4> QED
        BY <4>1, <4>2 DEF T
    <3> QED
      BY <1>1, <2>3, <2>4, <2>6, <3>1, <3>4, <3>5 DEF Awaited, T
  <2> QED
    BY <2>5, <2>6
<1> QED
  BY <1>3, <1>4 DEF LInv

(* A record that has just been received has age 0; the others are not       *)
(* touched.                                                                 *)
LEMMA ReceiveAwaited ==
    ASSUME IInv, LInv, NEW x \in flying, ReceivePublishingNode(x)
    PROVE  LInv'
<1>0. x \in Messages
  BY DEF IInv, TypeOK, Messages
<1>1. Spaced'
  BY DEF LInv, Spaced, SinceCleanup, ReceivePublishingNode
<1>2. AllAwaited'
  <2> SUFFICES ASSUME NEW o \in online, NEW m \in DOMAIN nodes'[o], ~ nodes'[o][m].silent
               PROVE  m \in online /\ Awaited(nodes'[o][m].age, lostRow'[<<m, o>>],
                                              AgesOf(m, o)', SinceCleanup(m)')
    BY DEF AllAwaited, ReceivePublishingNode
  <2>1. SinceCleanup(m)' = SinceCleanup(m)
    BY DEF SinceCleanup, ReceivePublishingNode
  <2>2. CASE o = x.to /\ m = x.from
    <3>1. nodes'[o][m].age = 0 /\ m \in online
      BY <1>0, <2>2 DEF ReceivePublishingNode, Received, IInv, NodesFunction, Messages
    <3>2. SinceCleanup(m) \in Nat
      BY <3>1, SinceType
    <3>3. lostRow'[<<m, o>>] = 0
      BY <1>0, <2>2 DEF ReceivePublishingNode, IInv, TypeOK, Messages
    <3>4. AgesOf(m, o)' \in SUBSET (0 .. MaxDelay)
      BY DEF AgesOf
    <3>5. \A a : Rank(AgesOf(m, o)', a) \in Nat
      BY <3>4, RankType
    <3>6. \A a \in AgesOf(m, o)' : MaxLate + a \in Nat
      BY <3>4
    <3> QED
      <4>1. \A i, c \in Nat : Fits(0, i, c)
        BY FitsFacts
      <4>2. \A a : 0 + Rank(AgesOf(m, o)', a) \in Nat
        BY <3>5
      <4> HIDE DEF Fits
      <4> QED
        BY <2>1, <3>1, <3>2, <3>3, <3>6, <4>1, <4>2 DEF Awaited
  <2>3. CASE ~ (o = x.to /\ m = x.from)
    <3>1. o \in Nodes /\ m \in DOMAIN nodes[o] /\ nodes'[o][m] = nodes[o][m]
      BY <1>0, <2>3 DEF ReceivePublishingNode, Received, IInv, TypeOK, NodesFunction, Messages
    <3>2. m \in Nodes
      BY <3>1, PairTypes
    <3>3. lostRow'[<<m, o>>] = lostRow[<<m, o>>]
      BY <1>0, <2>3, <3>1, <3>2 DEF ReceivePublishingNode, IInv, TypeOK, Messages
    <3>4. AgesOf(m, o)' = AgesOf(m, o)
      BY <1>0, <2>3 DEF AgesOf, ReceivePublishingNode, Messages
    <3> QED
      BY <2>1, <3>1, <3>3, <3>4 DEF LInv, AllAwaited
  <2> QED
    BY <2>2, <2>3
<1> QED
  BY <1>1, <1>2 DEF LInv

(* A message that is lost is counted among the lost instead. *)
LEMMA LostAwaited ==
    ASSUME IInv, LInv, NEW x \in flying, Lost(x)
    PROVE  LInv'
<1>0. x \in Messages
  BY DEF IInv, TypeOK, Messages
<1>1. Spaced'
  BY DEF LInv, Spaced, SinceCleanup, Lost
<1>2. AllAwaited'
  <2> SUFFICES ASSUME NEW o \in online, NEW m \in DOMAIN nodes[o], ~ nodes[o][m].silent
               PROVE  m \in online /\ Awaited(nodes[o][m].age, lostRow'[<<m, o>>],
                                              AgesOf(m, o)', SinceCleanup(m)')
    BY DEF AllAwaited, Lost
  <2> DEFINE S == AgesOf(m, o)
             age == nodes[o][m].age
             lost == lostRow[<<m, o>>]
  <2>1. SinceCleanup(m)' = SinceCleanup(m)
    BY DEF SinceCleanup, Lost
  <2>2. m \in online /\ Awaited(age, lost, S, SinceCleanup(m))
    BY DEF LInv, AllAwaited
  <2>3. /\ o \in Nodes /\ m \in Nodes /\ age \in Nat /\ lost \in Nat
        /\ S \in SUBSET (0 .. MaxDelay) /\ SinceCleanup(m) \in Nat
    BY <2>2, PairTypes, SinceType
  <2>4. CASE o = x.to /\ m = x.from
    <3> DEFINE T == S \ {x.age}
    <3>1. AgesOf(m, o)' = T
      BY <1>0, <2>4 DEF AgesOf, Lost, Messages
    <3>2. lostRow'[<<m, o>>] = lost + 1
      BY <1>0, <2>3, <2>4 DEF Lost, IInv, TypeOK, Messages
    <3>3. \A a : Rank(S, a) \in Nat /\ Rank(T, a) \in Nat /\ Rank(S, a) <= Rank(T, a) + 1
      BY <2>3, RankOfLost, RankType
    <3>4. T \subseteq S
      OBVIOUS
    <3>5. \A a \in S : MaxLate + a \in Nat
      BY <2>3
    <3> HIDE DEF S, T, age, lost
    <3>6. Fits(age, lost + 1 + Rank(T, 0), SinceCleanup(m))
      BY <2>2, <2>3, <3>3, FitsMore DEF Awaited
    <3>7. ASSUME NEW a \in T PROVE Fits(age, lost + 1 + Rank(T, a), MaxLate + a)
      <4>1. Fits(age, lost + Rank(S, a), MaxLate + a)
        BY <2>2, <3>4, <3>7 DEF Awaited
      <4> QED
        BY <2>3, <3>3, <3>4, <3>5, <4>1, FitsMore
    <3> QED
      BY <2>1, <2>2, <3>1, <3>2, <3>6, <3>7 DEF Awaited, age
  <2>5. CASE ~ (o = x.to /\ m = x.from)
    <3>1. lostRow'[<<m, o>>] = lost
      BY <1>0, <2>3, <2>5 DEF Lost, IInv, TypeOK, Messages
    <3>2. AgesOf(m, o)' = S
      BY <1>0, <2>5 DEF AgesOf, Lost, Messages
    <3> QED
      BY <2>1, <2>2, <3>1, <3>2
  <2> QED
    BY <2>4, <2>5
<1> QED
  BY <1>1, <1>2 DEF LInv

(* Who leaves is silent from then on. *)
LEMMA LeavesAwaited ==
    ASSUME IInv, LInv, NEW n \in Nodes, Leaves(n)
    PROVE  LInv'
<1>1. Spaced'
  BY DEF LInv, Spaced, SinceCleanup, Leaves
<1>2. AllAwaited'
  <2> SUFFICES ASSUME NEW o \in online', NEW m \in DOMAIN nodes'[o], ~ nodes'[o][m].silent
               PROVE  m \in online' /\ Awaited(nodes'[o][m].age, lostRow[<<m, o>>],
                                               AgesOf(m, o)', SinceCleanup(m)')
    BY DEF AllAwaited, Leaves
  <2>1. o \in Nodes /\ o \in online /\ o # n /\ m \in DOMAIN nodes[o]
    BY DEF Leaves, IInv, TypeOK
  <2>2. nodes[o][m] \in Records
    BY <2>1, PairTypes
  <2>3. nodes'[o][m] = nodes[o][m] /\ m # n
    <3>1. nodes'[o][m] = IF m = n THEN [nodes[o][m] EXCEPT !.silent = TRUE] ELSE nodes[o][m]
      BY <2>1 DEF Leaves
    <3>2. [nodes[o][m] EXCEPT !.silent = TRUE].silent
      BY <2>2 DEF Records
    <3> QED
      BY <3>1, <3>2
  <2>4. AgesOf(m, o)' = AgesOf(m, o) /\ SinceCleanup(m)' = SinceCleanup(m)
    BY DEF AgesOf, SinceCleanup, Leaves
  <2> QED
    BY <2>1, <2>3, <2>4 DEF LInv, AllAwaited, Leaves
<1> QED
  BY <1>1, <1>2 DEF LInv

(* As time passes all ages and the time since the tick grow alike. *)
LEMMA ElapseAwaited ==
    ASSUME IInv, LInv, Elapse
    PROVE  LInv'
<1>1. ASSUME NEW n \in online
      PROVE  SinceCleanup(n) \in Nat /\ SinceCleanup(n)' = SinceCleanup(n) + 1
  <2>1. n \in Nodes /\ timer[n] \in 0 .. Interval - 1 /\ (due[n] => timer[n] < MaxLate)
    BY DEF IInv, TypeOK, Elapse
  <2>2. timer'[n] = IF timer[n] = Interval - 1 THEN 0 ELSE timer[n] + 1
    BY <2>1 DEF Elapse
  <2>3. due'[n] = IF timer[n] = Interval - 1 THEN TRUE ELSE due[n]
    BY <2>1 DEF Elapse
  <2> QED
    BY <2>1, <2>2, <2>3 DEF SinceCleanup
<1>2. Spaced'
  <2> SUFFICES ASSUME NEW x \in flying, x.from \in online
               PROVE  SinceCleanup(x.from)' <= (x.age + 1) + MaxLate
    <3>1. \A y \in flying' : \E x \in flying : y = [x EXCEPT !.age = @ + 1]
      BY DEF Elapse
    <3>2. \A x \in flying : [x EXCEPT !.age = @ + 1].from = x.from
                            /\ [x EXCEPT !.age = @ + 1].age = x.age + 1
      BY DEF IInv, TypeOK
    <3> QED
      BY <3>1, <3>2 DEF Spaced, Elapse
  <2>1. x.age \in Nat /\ SinceCleanup(x.from) <= x.age + MaxLate
    BY DEF LInv, Spaced, IInv, TypeOK
  <2> QED
    BY <1>1, <2>1
<1>3. AllAwaited'
  <2> SUFFICES ASSUME NEW o \in online, NEW m \in DOMAIN nodes'[o], ~ nodes'[o][m].silent
               PROVE  m \in online /\ Awaited(nodes'[o][m].age, lostRow[<<m, o>>],
                                              AgesOf(m, o)', SinceCleanup(m)')
    BY DEF AllAwaited, Elapse
  <2> DEFINE S == AgesOf(m, o)
             T == AgesOf(m, o)'
             age == nodes[o][m].age
             lost == lostRow[<<m, o>>]
             since == SinceCleanup(m)
  <2>1. m \in DOMAIN nodes[o]
    BY DEF Elapse, IInv, TypeOK
  <2>2. /\ o \in Nodes /\ nodes[o][m] \in Records /\ age \in Nat /\ lost \in Nat
        /\ S \in SUBSET (0 .. MaxDelay)
    BY <2>1, PairTypes
  <2>3. nodes'[o][m].age = age + 1 /\ nodes'[o][m].silent = nodes[o][m].silent
    <3>1. nodes'[o][m] = [nodes[o][m] EXCEPT !.age = @ + 1, !.said = @ + 1]
      BY <2>1, <2>2 DEF Elapse
    <3> QED
      BY <2>2, <3>1 DEF Records
  <2>4. m \in online /\ Awaited(age, lost, S, since)
    BY <2>1, <2>3 DEF LInv, AllAwaited
  <2>5. since \in Nat /\ SinceCleanup(m)' = since + 1
    BY <1>1, <2>4
  <2>6. (\A a \in S : a < MaxDelay) /\ T \in SUBSET (0 .. MaxDelay) /\ T = {a + 1 : a \in S}
    <3>1. \A x \in flying : x \in Messages /\ x.age < MaxDelay
      BY DEF IInv, TypeOK, Elapse, Messages
    <3>2. \A a \in S : a \in Nat /\ a < MaxDelay /\ [from |-> m, to |-> o, age |-> a] \in flying
      BY <3>1 DEF AgesOf
    <3>3. ASSUME NEW a \in S PROVE a + 1 \in T
      <4>1. [[from |-> m, to |-> o, age |-> a] EXCEPT !.age = @ + 1]
              = [from |-> m, to |-> o, age |-> a + 1]
        OBVIOUS
      <4>2. [from |-> m, to |-> o, age |-> a + 1] \in flying'
        BY <3>2, <4>1 DEF Elapse
      <4>3. a + 1 \in 0 .. MaxDelay
        <5>1. a \in Nat /\ a < MaxDelay
          BY <3>2
        <5> HIDE DEF S, T
        <5> QED
          BY <5>1
      <4> QED
        BY <4>2, <4>3 DEF AgesOf
    <3>4. ASSUME NEW b \in T PROVE \E a \in S : b = a + 1
      <4>1. PICK x \in flying : [from |-> m, to |-> o, age |-> b] = [x EXCEPT !.age = @ + 1]
        BY DEF AgesOf, Elapse
      <4>2. x \in Messages /\ x.age < MaxDelay
        BY <3>1
      <4>3. x.from = m /\ x.to = o /\ b = x.age + 1
        BY <4>1, <4>2 DEF Messages
      <4>4. x = [from |-> m, to |-> o, age |-> x.age]
        BY <4>2, <4>3 DEF Messages
      <4>5. x.age \in S
        BY <4>2, <4>4 DEF AgesOf, Messages
      <4> QED
        BY <4>3, <4>5
    <3>5. T \in SUBSET (0 .. MaxDelay)
      BY DEF AgesOf
    <3> QED
      BY <3>2, <3>3, <3>4, <3>5
  <2>7. /\ Rank(S, 0) <= Rank(T, 0)
        /\ \A a \in S : Rank(S, a) <= Rank(T, a + 1)
        /\ \A a : Rank(S, a) \in Nat /\ Rank(T, a) \in Nat
    BY <2>2, <2>6, RankOfOlder, RankType
  <2>8. \A a \in S : a \in Nat
    BY <2>2
  <2> HIDE DEF S, T, age, lost, since
  <2>9. Fits(age + 1, lost + Rank(T, 0), since + 1)
    <3>1. Fits(age, lost + Rank(S, 0), since)
      BY <2>4 DEF Awaited
    <3>2. Fits(age, lost + Rank(T, 0), since)
      <4>1. /\ age \in Nat /\ lost + Rank(S, 0) \in Nat /\ lost + Rank(T, 0) \in Nat
            /\ lost + Rank(S, 0) <= lost + Rank(T, 0) /\ since \in Nat /\ since <= since
        BY <2>2, <2>5, <2>7
      <4> QED
        BY <3>1, <4>1, FitsMore
    <3>3. age \in Nat /\ lost + Rank(T, 0) \in Nat
      BY <2>2, <2>7
    <3> QED
      BY <2>5, <3>2, <3>3, FitsFacts
  <2>10. ASSUME NEW b \in T PROVE Fits(age + 1, lost + Rank(T, b), MaxLate + b)
    <3>1. PICK a \in S : b = a + 1
      BY <2>6
    <3>2. Fits(age, lost + Rank(S, a), MaxLate + a)
      BY <2>4 DEF Awaited
    <3>3. Fits(age, lost + Rank(T, b), MaxLate + a)
      <4>1. /\ age \in Nat /\ lost + Rank(S, a) \in Nat /\ lost + Rank(T, b) \in Nat
            /\ lost + Rank(S, a) <= lost + Rank(T, b)
        BY <2>2, <2>7, <3>1
      <4>2. MaxLate + a \in Nat /\ MaxLate + a <= MaxLate + a
        BY <2>8
      <4> QED
        BY <3>2, <4>1, <4>2, FitsMore
    <3>4. Fits(age + 1, lost + Rank(T, b), (MaxLate + a) + 1)
      <4>1. age \in Nat /\ lost + Rank(T, b) \in Nat /\ MaxLate + a \in Nat
        BY <2>2, <2>7, <2>8
      <4> QED
        BY <3>3, <4>1, FitsFacts
    <3> QED
      BY <2>8, <3>1, <3>4
  <2> QED
    BY <2>3, <2>4, <2>5, <2>9, <2>10 DEF Awaited, T, lost
<1> QED
  BY <1>2, <1>3 DEF LInv

(* Each record is bounded by the messages that were sent since it came, all *)
(* of which were lost or are on their way.                                  *)
THEOREM LossesInductive == Spec => []LInv
<1>1. Init => LInv
  BY DEF Init, LInv, Spaced, AllAwaited
<1>2. IInv /\ LInv /\ [Next]_vars => LInv'
  <2> SUFFICES ASSUME IInv, LInv, [Next]_vars PROVE LInv'
    OBVIOUS
  <2>1. ASSUME NEW n \in Nodes, SetPosition(n) PROVE LInv'
    BY <2>1, NothingAwaited DEF SetPosition
  <2>2. ASSUME NEW n \in Nodes, SetPublicity(n) PROVE LInv'
    BY <2>2, NothingAwaited DEF SetPublicity
  <2>3. ASSUME NEW n \in Nodes, Tick(n) PROVE LInv'
    BY <2>3, TickAwaited
  <2>4. ASSUME NEW n \in Nodes, Leaves(n) PROVE LInv'
    BY <2>4, LeavesAwaited
  <2>5. ASSUME NEW m \in flying, ReceivePublishingNode(m) PROVE LInv'
    BY <2>5, ReceiveAwaited
  <2>6. ASSUME NEW m \in flying, Lost(m) PROVE LInv'
    BY <2>6, LostAwaited
  <2>7. CASE Elapse
    BY <2>7, ElapseAwaited
  <2>8. CASE UNCHANGED vars
    BY <2>8, NothingAwaited DEF vars
  <2> QED
    BY <2>1, <2>2, <2>3, <2>4, <2>5, <2>6, <2>7, <2>8 DEF Next
<1> QED
  BY <1>1, <1>2, BoundsInductive, PTL DEF Spec

(* The record of a node that goes on publishing never gets too old: the     *)
(* oldest message that flies, or the next one, comes in time.               *)
LEMMA NotSilentNotExpired ==
    ASSUME IInv, LInv, NEW n \in online, NEW m \in DOMAIN nodes[n], ~ nodes[n][m].silent
    PROVE  ~ Expired(nodes[n][m])
<1> DEFINE S == AgesOf(m, n)
           age == nodes[n][m].age
           lost == lostRow[<<m, n>>]
           since == SinceCleanup(m)
<1>1. m \in online /\ Awaited(age, lost, S, since)
  BY DEF LInv, AllAwaited
<1>2. /\ age \in Nat /\ lost \in Nat /\ lost <= MaxLostRow
      /\ S \in SUBSET (0 .. MaxDelay) /\ since \in Nat /\ since <= Interval + MaxLate
  BY <1>1, PairTypes, SinceType
<1> HIDE DEF S, age, lost, since
<1>3. Fits(age, MaxLostRow + 1, MaxLate + MaxDelay)
  <2>1. CASE S = {}
    <3>1. Rank(S, 0) = 0
      <4>1. AtLeast(S, 0) = {}
        BY <2>1 DEF AtLeast
      <4> QED
        BY <4>1, FS_EmptySet DEF Rank
    <3>2. Fits(age, lost, since)
      BY <1>1, <1>2, <3>1 DEF Awaited
    <3>3. Fits(age, MaxLostRow, MaxLate + Interval)
      BY <1>2, <3>2, FitsMore
    <3>4. Fits(age, MaxLostRow + 1, MaxLate)
      BY <1>2, <3>3, FitsFacts
    <3> QED
      BY <1>2, <3>4, FitsMore
  <2>2. CASE S # {}
    <3>1. PICK a \in S : \A b \in S : b <= a
      BY <1>2, <2>2, LargestOf
    <3>2. Rank(S, a) = 1
      <4>1. \A b \in S : b \in Nat /\ b <= a
        BY <1>2, <3>1
      <4>2. \A b \in S : b >= a <=> b = a
        BY <4>1
      <4>3. AtLeast(S, a) = {a}
        BY <4>2 DEF AtLeast
      <4> QED
        BY <4>3, FS_Singleton DEF Rank
    <3>3. a \in Nat /\ a <= MaxDelay
      BY <1>2
    <3>4. Fits(age, lost + 1, MaxLate + a)
      BY <1>1, <3>2 DEF Awaited
    <3> QED
      BY <1>2, <3>3, <3>4, FitsMore
  <2> QED
    BY <2>1, <2>2
<1>4. age <= Lifetime
  <2>1. /\ age <= (MaxLostRow + 1) * Interval + (MaxLate + MaxDelay)
        /\ (MaxLostRow + 1) * Interval + MaxDelay + MaxLate <= Lifetime
    BY <1>3, NodeDirectoryAssumption DEF Fits, NodeDirectoryAssumption
  <2> DEFINE p == (MaxLostRow + 1) * Interval
  <2>2. p \in Nat
    OBVIOUS
  <2> HIDE DEF p
  <2> QED
    BY <1>2, <2>1, <2>2 DEF p
<1> QED
  BY <1>2, <1>4 DEF Expired, age

(* A node is dropped from a list only if it was silent at one of its ticks  *)
(* or has left, for every number of lost messages, interval, lifetime and   *)
(* delay of which the first three leave room for the last.                  *)
THEOREM NeighboursStay == Spec => NeighbourStays
<1>1. IInv /\ LInv /\ [Next]_vars =>
        [\A n, m \in Nodes :
          n \in online /\ n \in online' /\ m \in DOMAIN nodes[n] /\ m \notin DOMAIN nodes'[n]
              => nodes[n][m].silent]_vars
  <2> SUFFICES ASSUME IInv, LInv, Next, NEW n \in Nodes, NEW m \in Nodes,
                      n \in online, n \in online',
                      m \in DOMAIN nodes[n], m \notin DOMAIN nodes'[n]
               PROVE  nodes[n][m].silent
    OBVIOUS
  <2>1. CASE \E o \in Nodes : Tick(o)
    <3>1. PICK o \in Nodes : Tick(o)
      BY <2>1
    <3>2. o = n /\ m \notin Kept(n)
      BY <3>1 DEF Tick
    <3>3. Expired(nodes[n][m])
      BY <3>2 DEF Kept
    <3> QED
      BY <3>3, NotSilentNotExpired
  <2>2. CASE \E o \in Nodes : Leaves(o)
    <3>1. PICK o \in Nodes : Leaves(o)
      BY <2>2
    <3>2. o = n
      BY <3>1 DEF Leaves
    <3> QED
      BY <3>1, <3>2 DEF Leaves
  <2>3. CASE \E x \in flying : ReceivePublishingNode(x)
    <3>1. PICK x \in flying : ReceivePublishingNode(x)
      BY <2>3
    <3>2. m \in DOMAIN nodes'[n]
      BY <3>1 DEF ReceivePublishingNode, Received, IInv, NodesFunction
    <3> QED
      BY <3>2
  <2>4. CASE Elapse
    BY <2>4 DEF Elapse
  <2>5. CASE UNCHANGED nodes
    BY <2>5
  <2> QED
    BY <2>1, <2>2, <2>3, <2>4, <2>5 DEF Next, SetPosition, SetPublicity, Lost
<1> QED
  BY <1>1, BoundsInductive, LossesInductive, PTL DEF Spec, NeighbourStays

==============================================================================
