------------------------------ MODULE PodRecord ------------------------------
(***************************************************************************)
(* The pod record as it is kept in the KVS (api/core/pod.go), reduced to    *)
(* what the controllers decide on: the deletion mark, the target and the    *)
(* running node, and per container which parts of its status are filled.    *)
(* Timestamps, reasons and exit codes are abstracted to "set or not set".   *)
(***************************************************************************)
EXTENDS Naturals

CONSTANTS
    Nodes,       \* node ids
    Containers,  \* Spec.Containers: the container names of the pod
    NoNode,      \* the empty node id
    NoPod        \* the nil value the KVS holds for a missing or deleted record

ASSUME PodRecordAssumption ==
    /\ NoNode \notin Nodes
    /\ Containers # {}

NoId == 0   \* the empty container or sandbox id

ContainerStatus ==
    [id : Nat,             \* ContainerID
     image : BOOLEAN,      \* Image is filled
     running : BOOLEAN,    \* State.Running # nil
     terminated : BOOLEAN, \* State.Terminated # nil
     unknown : BOOLEAN,    \* State.Unknown # nil
     last : BOOLEAN]       \* LastState # nil: the container ran on an earlier node

Pod ==
    [deleted : BOOLEAN,               \* Meta.DeletionTimestamp is filled
     target : Nodes \cup {NoNode},    \* Spec.TargetNode
     running : Nodes \cup {NoNode},   \* Status.RunningNode
     status : [Containers -> ContainerStatus]]

ASSUME NoPodAssumption == NoPod \notin Pod

EmptyStatus ==
    [id |-> NoId, image |-> FALSE, running |-> FALSE, terminated |-> FALSE,
     unknown |-> FALSE, last |-> FALSE]

(* The record PodController.Create stores. *)
NewPod ==
    [deleted |-> FALSE, target |-> NoNode, running |-> NoNode,
     status |-> [c \in Containers |-> EmptyStatus]]

isContainerTerminated(pod) == \A c \in Containers : pod.status[c].terminated

isContainerUnknown(pod) ==
    \E c \in Containers : ~ pod.status[c].terminated /\ pod.status[c].unknown

(* Reconcile stops the containers of a pod that is deleted or has to move. *)
MustTerminate(pod) ==
    pod.deleted \/ (pod.target # NoNode /\ pod.target # pod.running)

(* PodStatus.validate: a container status with any trace of a container has *)
(* all of them, on some running node, and only what ran has terminated.     *)
Valid(pod) ==
    \A c \in Containers :
        LET s == pod.status[c] IN
        /\ s.id # NoId \/ s.image \/ s.running =>
               pod.running # NoNode /\ s.id # NoId /\ s.image /\ s.running
        /\ s.terminated => s.running

(* Defect: State.Running is not cleared. *)
ResetStatusKeepsRunning(s) ==
    [s EXCEPT !.terminated = FALSE, !.unknown = FALSE, !.last = s.last \/ s.terminated]

(* The container status of a pod that is handed to its next node: everything *)
(* is cleared, and a termination moves to LastState.                         *)
ResetStatus(s) == [EmptyStatus EXCEPT !.last = s.last \/ s.terminated]

(* Defect: the record is reset but RunningNode is not set. *)
HandoverStays(pod) ==
    [pod EXCEPT !.status = [c \in Containers |-> ResetStatus(pod.status[c])]]

Handover(pod) ==
    [pod EXCEPT !.running = pod.target,
                !.status = [c \in Containers |-> ResetStatus(pod.status[c])]]

(* What the holder writes after a failed reconcile call. *)
MarkUnknown(pod) ==
    [pod EXCEPT !.status =
        [c \in Containers |-> [pod.status[c] EXCEPT !.unknown = TRUE]]]
==============================================================================
