----------------------------- MODULE NodeDirectory -----------------------------
(***************************************************************************)
(* The nodes a node knows around it (node/controller/node.go): each tells   *)
(* those near it of itself every NODE_PUBLISH_INTERVAL, keeps what it is    *)
(* told, and forgets what is older than NODE_RECORD_LIFETIME.               *)
(*                                                                          *)
(* Time is counted in units of which the interval and the lifetime are      *)
(* multiples; messages may be lost, overtake each other and take MaxDelay,  *)
(* and a goroutine may take MaxLate to act on its ticker.                   *)
(***************************************************************************)
EXTENDS Naturals, FiniteSets

CONSTANTS
    Nodes,       \* all within each other's range
    Interval, Lifetime,
    MaxDelay, MaxLate,
    MaxLostRow   \* messages of a node to another lost one after another

ASSUME NodeDirectoryAssumption ==
    /\ {Interval, Lifetime, MaxDelay, MaxLate, MaxLostRow} \subseteq Nat
    /\ MaxLate < Interval
    /\ (MaxLostRow + 1) * Interval + MaxDelay + MaxLate <= Lifetime

VARIABLES
    online,     \* nodes that are connected
    publicity,  \* those that have set one
    placed,     \* those that have set their position
    timer,      \* per node: the time since its ticker last ticked
    due,        \* per node: whether it has not acted on that yet
    flying,     \* the messages on their way
    nodes,      \* per node: its map of nodes, with the age of each record,
                \* the age of what it says, and, as history, whether its node
                \* has been silent at a tick since
    lostRow     \* per node and receiver: messages lost since the last received

vars == <<online, publicity, placed, timer, due, flying, nodes, lostRow>>

Records == [age : Nat, said : Nat, silent : BOOLEAN]

TypeOK ==
    /\ online \subseteq Nodes /\ publicity \subseteq Nodes /\ placed \subseteq Nodes
    /\ timer \in [Nodes -> 0 .. Interval - 1] /\ due \in [Nodes -> BOOLEAN]
    /\ flying \subseteq [from : Nodes, to : Nodes, age : 0 .. MaxDelay]
    /\ \A n \in Nodes : DOMAIN nodes[n] \subseteq Nodes \ {n}
                        /\ \A m \in DOMAIN nodes[n] : nodes[n][m] \in Records
    /\ lostRow \in [Nodes \X Nodes -> 0 .. MaxLostRow]

Init ==
    /\ online = Nodes /\ publicity = {} /\ placed = {}
    /\ timer \in [Nodes -> 0 .. Interval - 1] /\ due = [n \in Nodes |-> FALSE]
    /\ flying = {}
    /\ nodes = [n \in Nodes |-> <<>>]
    /\ lostRow = [p \in Nodes \X Nodes |-> 0]

-----------------------------------------------------------------------------
(* SetPosition; there is none at first, and never again none. *)
SetPosition(n) ==
    /\ n \in online \ placed
    /\ placed' = placed \cup {n}
    /\ UNCHANGED <<online, publicity, timer, due, flying, nodes, lostRow>>

SetPublicity(n) ==
    /\ n \in online
    /\ \/ publicity' = publicity \cup {n}
       \/ publicity' = publicity \ {n}
    /\ UNCHANGED <<online, placed, timer, due, flying, nodes, lostRow>>

(* Defect: a record just as old as the lifetime is removed. *)
ExpiredAtOnce(r) == r.age >= Lifetime

(* cleanup: what is older than the lifetime, not what is just as old. *)
Expired(r) == r.age > Lifetime

Publishes(n) == n \in publicity /\ n \in placed

(* Defect: a node that does not publish does not clean up. *)
KeptIfHidden(n) ==
    {m \in DOMAIN nodes[n] : Publishes(n) => ~ Expired(nodes[n][m])}

Kept(n) == {m \in DOMAIN nodes[n] : ~ Expired(nodes[n][m])}

(* The goroutine of the controller: cleanup, then publish. *)
Tick(n) ==
    /\ n \in online /\ due[n]
    /\ due' = [due EXCEPT ![n] = FALSE]
    /\ nodes' = [o \in Nodes |->
          IF o = n THEN [m \in Kept(n) |-> nodes[n][m]]
          ELSE [m \in DOMAIN nodes[o] |->
                  IF m = n /\ ~ Publishes(n) THEN [nodes[o][m] EXCEPT !.silent = TRUE]
                  ELSE nodes[o][m]]]
    /\ flying' = flying \cup
          (IF Publishes(n) THEN [from : {n}, to : Nodes \ {n}, age : {0}] ELSE {})
    /\ UNCHANGED <<online, publicity, placed, timer, lostRow>>

(* Defect: only the record of a node that is known is set. *)
ReceivedIfKnown(m) ==
    [nodes EXCEPT ![m.to] = [n \in DOMAIN @ |->
        IF n = m.from THEN [age |-> 0, said |-> m.age, silent |-> n \notin online] ELSE @[n]]]

(* ReceivePublishingNode: the message that comes last counts. *)
Received(m) ==
    [nodes EXCEPT ![m.to] = [n \in DOMAIN @ \cup {m.from} |->
        IF n = m.from THEN [age |-> 0, said |-> m.age, silent |-> n \notin online] ELSE @[n]]]

ReceivePublishingNode(m) ==
    /\ m \in flying /\ m.to \in online
    /\ flying' = flying \ {m}
    /\ nodes' = Received(m)
    /\ lostRow' = [lostRow EXCEPT ![<<m.from, m.to>>] = 0]
    /\ UNCHANGED <<online, publicity, placed, timer, due>>

Lost(m) ==
    /\ m \in flying
    /\ m.to \in online => lostRow[<<m.from, m.to>>] < MaxLostRow
    /\ flying' = flying \ {m}
    /\ lostRow' = IF m.to \in online
                  THEN [lostRow EXCEPT ![<<m.from, m.to>>] = @ + 1] ELSE lostRow
    /\ UNCHANGED <<online, publicity, placed, timer, due, nodes>>

(* A node disconnects; it would come back with another id. *)
Leaves(n) ==
    /\ n \in online
    /\ online' = online \ {n}
    /\ nodes' = [o \in Nodes |->
          IF o = n THEN <<>>
          ELSE [m \in DOMAIN nodes[o] |->
                  IF m = n THEN [nodes[o][m] EXCEPT !.silent = TRUE] ELSE nodes[o][m]]]
    /\ UNCHANGED <<publicity, placed, timer, due, flying, lostRow>>

(* Time passes, if no message is at the end of its delay and no ticker has  *)
(* waited too long.                                                         *)
Elapse ==
    /\ \A m \in flying : m.age < MaxDelay
    /\ \A n \in online : due[n] => timer[n] < MaxLate
    /\ timer' = [n \in Nodes |->
          IF n \notin online THEN timer[n]
          ELSE IF timer[n] = Interval - 1 THEN 0 ELSE timer[n] + 1]
    /\ due' = [n \in Nodes |->
          IF n \notin online THEN FALSE
          ELSE IF timer[n] = Interval - 1 THEN TRUE ELSE due[n]]
    /\ flying' = {[m EXCEPT !.age = @ + 1] : m \in flying}
    /\ nodes' = [n \in Nodes |-> [m \in DOMAIN nodes[n] |->
          [nodes[n][m] EXCEPT !.age = @ + 1, !.said = @ + 1]]]
    /\ UNCHANGED <<online, publicity, placed, lostRow>>

Next ==
    \/ \E n \in Nodes : SetPosition(n) \/ SetPublicity(n) \/ Tick(n) \/ Leaves(n)
    \/ \E m \in flying : ReceivePublishingNode(m) \/ Lost(m)
    \/ Elapse

Spec == Init /\ [][Next]_vars

(* Time goes on, and with it what is due. *)
Fairness ==
    /\ WF_vars(Elapse)
    /\ \A n \in Nodes : WF_vars(Tick(n))
    /\ WF_vars(\E m \in flying : ReceivePublishingNode(m) \/ Lost(m))

FairSpec == Spec /\ Fairness

-----------------------------------------------------------------------------
(* Properties *)

(* Nobody is listed on word older than the lifetime and an interval (in     *)
(* which nothing is cleaned up), whatever messages are late or out of       *)
(* order: who has left or hidden itself is forgotten by then.               *)
ListFresh ==
    \A n \in online : \A m \in DOMAIN nodes[n] :
        nodes[n][m].said <= Lifetime + Interval + MaxLate + MaxDelay

(* A node is dropped from the list of another only if it has been silent:   *)
(* messages lost one by one, late ones and late ticks do not make it        *)
(* disappear.                                                               *)
NeighbourStays ==
    [][\A n, m \in Nodes :
          n \in online /\ n \in online' /\ m \in DOMAIN nodes[n] /\ m \notin DOMAIN nodes'[n]
              => nodes[n][m].silent]_vars

(* A node that goes on publishing is known to the others that are there.    *)
Announced ==
    \A n, m \in Nodes :
        n # m => ([](n \in online /\ m \in online /\ Publishes(m)) ~> m \in DOMAIN nodes[n])
==============================================================================
