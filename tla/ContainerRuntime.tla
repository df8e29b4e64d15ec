--------------------------- MODULE ContainerRuntime ---------------------------
(***************************************************************************)
(* What the container runtime of a node (src/cri.ts) holds for one pod: at  *)
(* most one sandbox, since a second one would have a duplicate uid, and in  *)
(* it at most one container per name.  A runtime is a record               *)
(*   [sandbox |-> id or NoId, box |-> [Containers -> container]].           *)
(* The operators are the effects of the CRI calls on that record.           *)
(***************************************************************************)
EXTENDS PodRecord

ContainerStates == {"none", "created", "running", "exited"}

Container == [id : Nat, state : ContainerStates, stopping : BOOLEAN]

Runtime == [sandbox : Nat, box : [Containers -> Container]]

NoContainer == [id |-> NoId, state |-> "none", stopping |-> FALSE]

EmptyRuntime == [sandbox |-> NoId, box |-> [c \in Containers |-> NoContainer]]

(* ContainerImpl.getState, "none" for a name without a container. *)
Exists(rt, c) == rt.box[c].state # "none"

Live(rt, c) == rt.box[c].state = "running"

(* listContainers with the sandbox as filter, without the exited ones. *)
NotExited(rt, sandbox) ==
    IF sandbox # rt.sandbox THEN {}
    ELSE {c \in Containers : rt.box[c].state \in {"created", "running"}}

RunPodSandbox(rt, id) == [rt EXCEPT !.sandbox = id]

CreateContainer(rt, c, id) ==
    [rt EXCEPT !.box[c] = [id |-> id, state |-> "created", stopping |-> FALSE]]

(* CreateContainer followed by StartContainer. *)
CreateAndStart(rt, c, id) ==
    [rt EXCEPT !.box[c] = [id |-> id, state |-> "running", stopping |-> FALSE]]

(* ContainerImpl.stop: the app is told to terminate (it ignores that) and a *)
(* timer of containerStopTimeout is started that ends it.                   *)
StopContainer(rt, c) == [rt EXCEPT !.box[c].stopping = TRUE]

(* _onFinished, or the timer of stop(). *)
Finish(rt, c) == [rt EXCEPT !.box[c] = [@ EXCEPT !.state = "exited", !.stopping = FALSE]]

(* removeSandbox of the container controller: every container is stopped,   *)
(* its worker terminated and its entry removed, then the sandbox goes.      *)
RemoveSandbox(rt, sandbox) == IF sandbox = rt.sandbox THEN EmptyRuntime ELSE rt
==============================================================================
