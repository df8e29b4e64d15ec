----------------------------- MODULE PodLifecycle -----------------------------
(***************************************************************************)
(* What the cluster promises for one pod, without records, messages and     *)
(* reconciliations: the pod has at most one place, its containers run only  *)
(* there, and it moves or goes only when all of them have ended.            *)
(***************************************************************************)
CONSTANTS Nodes, Containers, NoNode

VARIABLES
    place,  \* "new", NoNode (not yet scheduled), the pod's node, or "gone"
    live    \* per container: the nodes on which it is running

NothingLive == \A c \in Containers : live[c] = {}

PodInit == place = "new" /\ live = [c \in Containers |-> {}]

Created == place = "new" /\ place' = NoNode /\ UNCHANGED live

Scheduled == place = NoNode /\ place' \in Nodes /\ UNCHANGED live

Moves ==
    /\ place \in Nodes
    /\ NothingLive
    /\ place' \in Nodes \ {place}
    /\ UNCHANGED live

Starts(c) ==
    /\ place \in Nodes
    /\ live[c] = {}
    /\ live' = [live EXCEPT ![c] = {place}]
    /\ UNCHANGED place

(* Some containers end: one by itself, all of them with their sandbox. *)
Ends ==
    /\ \E ending \in SUBSET Containers :
        live' = [c \in Containers |-> IF c \in ending THEN {} ELSE live[c]]
    /\ UNCHANGED place

Goes ==
    /\ place \in Nodes \cup {NoNode}
    /\ NothingLive
    /\ place' = "gone"
    /\ UNCHANGED live

PodNext == Created \/ Scheduled \/ Moves \/ (\E c \in Containers : Starts(c)) \/ Ends \/ Goes

PodSpec == PodInit /\ [][PodNext]_<<place, live>>
==============================================================================
