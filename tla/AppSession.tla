----------------------------- MODULE AppSession -----------------------------
(***************************************************************************)
(* The session of the apps of one pod with the core API: an app is loaded   *)
(* into its worker, says it is ready, is set up with the state its          *)
(* predecessor left on another node, works, and is torn down for its state  *)
(* (node/apis/core, lib/oinari, src/container/manager.ts, ContainerImpl of  *)
(* src/cri.ts, and letRunning and letTerminate of                           *)
(* node/controller/container.go).                                           *)
(*                                                                          *)
(* The pod is followed from node to node; apps, drivers and goroutines are  *)
(* those of the node it runs on.  How the writers of its record race is the *)
(* subject of PodSystem: here users and the holder come between reconciles. *)
(* An app's state is the amount of work it has done.                        *)
(***************************************************************************)
EXTENDS Naturals, FiniteSets

CONSTANTS
    Containers,   \* names of containers, all with the runtime core:dev1
    NoPod, NoRecord,
    NoData,       \* an app's record that is nil
    MaxData,      \* work of an app
    MaxMoves, MaxDeletes,  \* calls of users
    MaxMishaps,   \* faults, exits and hastes together
    MaxIds        \* containers that are created

(* Failed KVS calls and errors of apps; apps that exit by themselves; what  *)
(* is begun before what was begun earlier is over                           *)
Mishaps == {"faults", "exits", "hastes"}

Counters == {"moves", "deletes"} \cup Mishaps

ASSUME AppSessionAssumption ==
    /\ Containers # {}
    /\ {MaxData, MaxMoves, MaxDeletes, MaxMishaps, MaxIds} \subseteq Nat
    /\ NoData \notin Nat

VARIABLES
    pod,      \* the record of the pod, as far as sessions go
    saved,    \* the record of its apps' states ("record/<uuid>")
    app,      \* the containers at the pod's node and the workers they run in
    ready,    \* the ready handler's goroutine for each of them
    drivers,  \* ids of containers with a core driver
    rec,      \* the goroutine that reconciles
    nextId,
    used,     \* how much of each bound has been used
    kept      \* history: the state each app was torn down with

vars == <<pod, saved, app, ready, drivers, rec, nextId, used, kept>>

NoId == 0
Data == 0..MaxData

Status == [id : Nat, last : BOOLEAN, terminated : BOOLEAN]
Pod == [deleted : BOOLEAN, moving : BOOLEAN, status : [Containers -> Status]]
Entries == [Containers -> Data \cup {NoData}]

ASSUME NoneAssumption == NoPod \notin Pod /\ NoRecord \notin Entries

(* A worker waits for its program, then starts it; the program binds itself *)
(* to the crosslink and serves. After its exit the worker lives on for a    *)
(* while, unless it is gone with its link.                                  *)
Phases == {"none", "loading", "starting", "serving", "exited", "gone"}

App == [id : Nat, phase : Phases, stopping : BOOLEAN, setUp : BOOLEAN, data : Data]
Ready == [pc : {"none", "pod", "record", "setup"}, initialize : BOOLEAN, record : Data \cup {NoData}]

NoApp == [id |-> NoId, phase |-> "none", stopping |-> FALSE, setUp |-> FALSE, data |-> 0]
NotReady == [pc |-> "none", initialize |-> TRUE, record |-> NoData]
NoEntries == [c \in Containers |-> NoData]

Resting == [pc |-> "idle", copy |-> NoPod, todo |-> {}, entries |-> NoEntries]

PCs == {"idle", "start", "teardown", "update", "stuck", "panicked"}

(* Every value has its type; a reconcile knows only containers of the pod.  *)
TypeOK ==
    /\ pod \in Pod \cup {NoPod}
    /\ saved \in Entries \cup {NoRecord}
    /\ app \in [Containers -> App]
    /\ ready \in [Containers -> Ready]
    /\ drivers \subseteq 1..MaxIds
    /\ rec \in [pc : PCs, copy : Pod \cup {NoPod}, todo : SUBSET Containers, entries : Entries]
    /\ nextId \in 1..(MaxIds + 1)
    /\ used \in [Counters -> Nat]
    /\ kept \in Entries

(* A pod that was scheduled and has not been reconciled yet *)
Init ==
    /\ pod = [deleted |-> FALSE, moving |-> FALSE,
              status |-> [c \in Containers |-> [id |-> NoId, last |-> FALSE, terminated |-> FALSE]]]
    /\ saved = NoRecord
    /\ app = [c \in Containers |-> NoApp]
    /\ ready = [c \in Containers |-> NotReady]
    /\ drivers = {}
    /\ rec = Resting
    /\ nextId = 1
    /\ used = [x \in Counters |-> 0]
    /\ kept = NoEntries

Bounded(u) ==
    /\ u["moves"] <= MaxMoves /\ u["deletes"] <= MaxDeletes
    /\ u["faults"] + u["exits"] + u["hastes"] <= MaxMishaps

Spend(events) ==
    /\ used' = [x \in Counters |-> IF x \in events THEN used[x] + 1 ELSE used[x]]
    /\ Bounded(used')

Live(c) == app[c].phase \in {"loading", "starting", "serving"}

(* Nothing is under way between a node and its apps. *)
Settled ==
    \A c \in Containers :
        /\ ready[c].pc = "none"
        /\ app[c].phase \notin {"loading", "starting"}
        /\ ~ app[c].stopping

Hasty == IF Settled THEN {} ELSE {"hastes"}

Terminated == \A c \in Containers : pod.status[c].terminated

MustTerminate(p) == p.deleted \/ p.moving

-----------------------------------------------------------------------------
(* Users and the holder of the record *)

Migrate ==
    /\ pod # NoPod /\ rec.pc = "idle"
    /\ ~ MustTerminate(pod)
    /\ Spend({"moves"} \cup Hasty)
    /\ pod' = [pod EXCEPT !.moving = TRUE]
    /\ UNCHANGED <<saved, app, ready, drivers, rec, nextId, kept>>

Delete ==
    /\ pod # NoPod /\ rec.pc = "idle"
    /\ ~ pod.deleted
    /\ Spend({"deletes"} \cup Hasty)
    /\ pod' = [pod EXCEPT !.deleted = TRUE]
    /\ UNCHANGED <<saved, app, ready, drivers, rec, nextId, kept>>

(* The next node knows nothing of the apps, and the one before is done.     *)
Leaves ==
    /\ app' = [c \in Containers |-> NoApp]
    /\ ready' = [c \in Containers |-> NotReady]

(* Defect: that the containers ran before is forgotten. *)
HandoverForgets ==
    /\ pod # NoPod /\ rec.pc = "idle"
    /\ pod.moving /\ ~ pod.deleted /\ Terminated
    /\ pod' = [pod EXCEPT !.moving = FALSE,
                 !.status = [c \in Containers |-> [id |-> NoId, last |-> FALSE, terminated |-> FALSE]]]
    /\ Leaves
    /\ drivers' = {}
    /\ Spend(Hasty)
    /\ UNCHANGED <<saved, rec, nextId, kept>>

(* The pod is handed to its next node; LastState tells that its containers  *)
(* have run before.                                                         *)
Handover ==
    /\ pod # NoPod /\ rec.pc = "idle"
    /\ pod.moving /\ ~ pod.deleted /\ Terminated
    /\ pod' = [pod EXCEPT !.moving = FALSE,
                 !.status = [c \in Containers |-> [id |-> NoId, last |-> TRUE, terminated |-> FALSE]]]
    /\ Leaves
    /\ drivers' = {}
    /\ Spend(Hasty)
    /\ UNCHANGED <<saved, rec, nextId, kept>>

Remove ==
    /\ pod # NoPod /\ rec.pc = "idle"
    /\ pod.deleted /\ Terminated
    /\ pod' = NoPod
    /\ Spend(Hasty)
    /\ UNCHANGED <<saved, app, ready, drivers, rec, nextId, kept>>

-----------------------------------------------------------------------------
(* Reconcile, letRunning and letTerminate *)

(* What the runtime lists without the exited ones *)
Listed == {c \in Containers : Live(c)}

(* Without containers only the record of the pod is updated; otherwise the  *)
(* running ones are listed, and the record of their states is read.         *)
Begin ==
    /\ pod # NoPod /\ rec.pc = "idle"
    /\ ~ Terminated
    /\ rec' =
         IF ~ MustTerminate(pod)
         THEN [Resting EXCEPT !.pc = "start", !.copy = pod,
                 !.todo = {c \in Containers : pod.status[c].id = NoId}]
         ELSE IF \A c \in Containers : app[c].phase = "none"
         THEN [Resting EXCEPT !.pc = "update", !.copy = pod]
         ELSE [Resting EXCEPT !.pc = "teardown", !.copy = pod, !.todo = Listed,
                 !.entries = IF pod.deleted \/ saved = NoRecord THEN NoEntries ELSE saved]
    /\ Spend(Hasty)
    /\ UNCHANGED <<pod, saved, app, ready, drivers, nextId, kept>>

(* recordKvs.Get of letTerminate fails. *)
BeginFails ==
    /\ pod # NoPod /\ rec.pc = "idle"
    /\ ~ Terminated /\ pod.moving /\ ~ pod.deleted
    /\ \E c \in Containers : app[c].phase # "none"
    /\ Spend({"faults"} \cup Hasty)
    /\ UNCHANGED <<pod, saved, app, ready, drivers, rec, nextId, kept>>

(* CreateContainer, NewCoreDriver, StartContainer: the record will say so   *)
(* only when the reconcile is over.                                         *)
StartContainer(c) ==
    /\ rec.pc = "start" /\ c \in rec.todo
    /\ nextId <= MaxIds
    /\ app' = [app EXCEPT ![c] = [NoApp EXCEPT !.id = nextId, !.phase = "loading"]]
    /\ drivers' = drivers \cup {nextId}
    /\ nextId' = nextId + 1
    /\ rec' = [rec EXCEPT !.todo = @ \ {c}, !.copy.status[c].id = nextId]
    /\ UNCHANGED <<pod, saved, ready, used, kept>>

StartDone ==
    /\ rec.pc = "start" /\ rec.todo = {}
    /\ rec' = [rec EXCEPT !.pc = "update"]
    /\ UNCHANGED <<pod, saved, app, ready, drivers, nextId, used, kept>>

(* letTerminate may tear down one of the containers it has listed.          *)
TearsDown(c) == rec.pc = "teardown" /\ c \in rec.todo

HasDriver(c) == app[c].id \in drivers

Panics == rec' = [Resting EXCEPT !.pc = "panicked"]

(* Defect: what the app answers is not entered into the record. *)
TeardownForgets(c) ==
    /\ TearsDown(c) /\ HasDriver(c)
    /\ app[c].phase = "serving"
    /\ rec' = [rec EXCEPT !.todo = @ \ {c}]
    /\ kept' = IF app[c].setUp /\ ~ rec.copy.deleted THEN [kept EXCEPT ![c] = app[c].data] ELSE kept
    /\ app' = [app EXCEPT ![c].stopping = TRUE]
    /\ drivers' = drivers \ {app[c].id}
    /\ UNCHANGED <<pod, saved, ready, nextId, used>>

(* The app answers with its state, which only a pod that moves needs, and   *)
(* ends; it is told to stop, and its driver is given up.                    *)
Teardown(c) ==
    /\ TearsDown(c) /\ HasDriver(c)
    /\ app[c].phase = "serving"
    /\ IF rec.copy.deleted
       THEN /\ rec' = [rec EXCEPT !.todo = @ \ {c}]
            /\ UNCHANGED kept
       ELSE /\ rec' = [rec EXCEPT !.todo = @ \ {c}, !.entries[c] = app[c].data]
            /\ kept' = IF app[c].setUp THEN [kept EXCEPT ![c] = app[c].data] ELSE kept
    /\ app' = [app EXCEPT ![c].stopping = TRUE]
    /\ drivers' = drivers \ {app[c].id}
    /\ UNCHANGED <<pod, saved, ready, nextId, used>>

(* The error of an app that fails, ends when it has answered; of a worker   *)
(* that has no program yet; or of one whose program has exited.  The driver *)
(* looks for a state in an answer that does not exist, unless none is       *)
(* wanted.                                                                  *)
TeardownErrs(c) ==
    /\ TearsDown(c) /\ HasDriver(c)
    /\ \/ /\ app[c].phase = "serving"
          /\ Spend({"faults"})
          /\ app' = [app EXCEPT ![c].phase = "exited"]
       \/ /\ app[c].phase \in {"loading", "exited"}
          /\ UNCHANGED <<app, used>>
    /\ IF rec.copy.deleted THEN rec' = Resting ELSE Panics
    /\ UNCHANGED <<pod, saved, ready, drivers, nextId, kept>>

(* A worker whose program has not bound itself yet lets calls go by, one    *)
(* that is gone has no link, and an app that exits while it is asked does   *)
(* not answer any more.                                                     *)
TeardownHangs(c) ==
    /\ TearsDown(c) /\ HasDriver(c)
    /\ app[c].phase \in {"starting", "exited", "gone"}
    /\ rec' = [Resting EXCEPT !.pc = "stuck"]
    /\ UNCHANGED <<pod, saved, app, ready, drivers, nextId, used, kept>>

(* The driver of an app that has been torn down, and is listed again before *)
(* it has ended, is nil.                                                    *)
TeardownPanics(c) ==
    /\ TearsDown(c) /\ ~ HasDriver(c)
    /\ Panics
    /\ UNCHANGED <<pod, saved, app, ready, drivers, nextId, used, kept>>

SaveRecord ==
    /\ rec.pc = "teardown" /\ rec.todo = {}
    /\ saved' = IF rec.copy.deleted THEN NoRecord ELSE rec.entries
    /\ rec' = [rec EXCEPT !.pc = "update"]
    /\ UNCHANGED <<pod, app, ready, drivers, nextId, used, kept>>

(* The error of Set ends the reconcile, that of Delete is logged. *)
SaveFails ==
    /\ rec.pc = "teardown" /\ rec.todo = {}
    /\ Spend({"faults"})
    /\ rec' = IF rec.copy.deleted THEN [rec EXCEPT !.pc = "update"] ELSE Resting
    /\ UNCHANGED <<pod, saved, app, ready, drivers, nextId, kept>>

(* Defect: exits are not noted. *)
ObservedNothing == rec.copy

(* What updatePodInfo finds out; a container that never was is not known to *)
(* have ended.                                                              *)
Observed ==
    [rec.copy EXCEPT !.status = [c \in Containers |->
        [rec.copy.status[c] EXCEPT !.terminated = @ \/ app[c].phase \in {"exited", "gone"}]]]

(* With the containers ended, the sandbox of a pod that has to stop goes.   *)
Update ==
    /\ rec.pc = "update"
    /\ pod' = Observed
    /\ IF MustTerminate(Observed) /\ (\A c \in Containers : Observed.status[c].terminated)
       THEN Leaves
       ELSE UNCHANGED <<app, ready>>
    /\ rec' = Resting
    /\ UNCHANGED <<saved, drivers, nextId, used, kept>>

ReconcileStep ==
    \/ Begin \/ BeginFails
    \/ \E c \in Containers : StartContainer(c)
    \/ StartDone
    \/ \E c \in Containers :
          Teardown(c) \/ TeardownErrs(c) \/ TeardownHangs(c) \/ TeardownPanics(c)
    \/ SaveRecord \/ SaveFails \/ Update

-----------------------------------------------------------------------------
(* The worker of a container and the app in it *)

(* The runtime gives the worker the image and what to do with it; from then *)
(* on calls for the app go to the program.                                  *)
Load(c) ==
    /\ app[c].phase = "loading"
    /\ app' = [app EXCEPT ![c].phase = "starting"]
    /\ UNCHANGED <<pod, saved, ready, drivers, rec, nextId, used, kept>>

(* Defect: the node is not told. *)
RunUnready(c) ==
    /\ app[c].phase = "starting"
    /\ app' = [app EXCEPT ![c].phase = "serving"]
    /\ UNCHANGED <<pod, saved, ready, drivers, rec, nextId, used, kept>>

(* Manager.Run: the handlers are there, and the node is told. *)
Run(c) ==
    /\ app[c].phase = "starting"
    /\ app' = [app EXCEPT ![c].phase = "serving"]
    /\ ready' = [ready EXCEPT ![c] = [NotReady EXCEPT !.pc = "pod"]]
    /\ UNCHANGED <<pod, saved, drivers, rec, nextId, used, kept>>

(* The app takes an error of the ready call for fatal. *)
Refused(c) ==
    /\ app' = [app EXCEPT ![c].phase = IF Live(c) THEN "exited" ELSE @]
    /\ ready' = [ready EXCEPT ![c] = NotReady]

(* The node program is there to be asked. *)
Answers == rec.pc # "panicked"

(* It takes longer to load an app than to end the reconcile that starts it. *)
Early == IF rec.pc \in {"start", "update"} THEN {"hastes"} ELSE {}

(* Defect: every app is initialized. *)
ReadyInitializes(c) ==
    /\ ready[c].pc = "pod" /\ Answers
    /\ pod # NoPod /\ HasDriver(c)
    /\ ready' = [ready EXCEPT ![c] = [NotReady EXCEPT !.pc = "setup"]]
    /\ Spend(Early)
    /\ UNCHANGED <<pod, saved, app, drivers, rec, nextId, kept>>

(* The ready handler reads the record of the pod: the app is initialized    *)
(* unless the container of this id has run before.                          *)
ReadyGetsPod(c) ==
    /\ ready[c].pc = "pod" /\ Answers
    /\ pod # NoPod /\ HasDriver(c)
    /\ ready' = [ready EXCEPT ![c] =
         IF pod.status[c].id = app[c].id /\ pod.status[c].last
         THEN [@ EXCEPT !.pc = "record", !.initialize = FALSE]
         ELSE [@ EXCEPT !.pc = "setup"]]
    /\ Spend(Early)
    /\ UNCHANGED <<pod, saved, app, drivers, rec, nextId, kept>>

ReadyGetsRecord(c) ==
    /\ ready[c].pc = "record" /\ Answers
    /\ ready' = [ready EXCEPT ![c].pc = "setup",
                              ![c].record = IF saved = NoRecord THEN NoData ELSE saved[c]]
    /\ UNCHANGED <<pod, saved, app, drivers, rec, nextId, used, kept>>

(* There is no driver or no pod any more, or a Get fails. *)
ReadyFails(c) ==
    /\ Answers
    /\ \/ ready[c].pc = "pod" /\ (pod = NoPod \/ ~ HasDriver(c)) /\ UNCHANGED used
       \/ ready[c].pc \in {"pod", "record"} /\ Spend({"faults"})
    /\ Refused(c)
    /\ UNCHANGED <<pod, saved, drivers, rec, nextId, kept>>

(* Setup of the app, if it is still there to be called *)
Setup(c) ==
    /\ ready[c].pc = "setup" /\ Answers
    /\ ready' = [ready EXCEPT ![c] = NotReady]
    /\ app' = IF app[c].phase = "serving"
              THEN [app EXCEPT ![c].setUp = TRUE,
                     ![c].data = IF ready[c].record = NoData THEN 0 ELSE ready[c].record]
              ELSE app
    /\ UNCHANGED <<pod, saved, drivers, rec, nextId, used, kept>>

(* The app answers Setup with an error, and Run returns it. *)
SetupFails(c) ==
    /\ ready[c].pc = "setup" /\ Answers
    /\ app[c].phase = "serving"
    /\ Spend({"faults"})
    /\ Refused(c)
    /\ UNCHANGED <<pod, saved, drivers, rec, nextId, kept>>

Works(c) ==
    /\ app[c].phase = "serving" /\ app[c].setUp /\ ~ app[c].stopping
    /\ app[c].data < MaxData
    /\ app' = [app EXCEPT ![c].data = @ + 1]
    /\ UNCHANGED <<pod, saved, ready, drivers, rec, nextId, used, kept>>

(* Run has returned after Teardown, or the timer of ContainerImpl.stop.     *)
Stops(c) ==
    /\ Live(c) /\ app[c].stopping
    /\ app' = [app EXCEPT ![c].phase = "exited", ![c].stopping = FALSE]
    /\ UNCHANGED <<pod, saved, ready, drivers, rec, nextId, used, kept>>

Exits(c) ==
    /\ app[c].phase \in {"starting", "serving"} /\ ~ app[c].stopping
    /\ Spend({"exits"})
    /\ app' = [app EXCEPT ![c].phase = "exited"]
    /\ UNCHANGED <<pod, saved, ready, drivers, rec, nextId, kept>>

(* ContainerImpl.cleanup *)
CleanUp(c) ==
    /\ app[c].phase = "exited"
    /\ app' = [app EXCEPT ![c].phase = "gone"]
    /\ UNCHANGED <<pod, saved, ready, drivers, rec, nextId, used, kept>>

AppStep(c) ==
    \/ Load(c) \/ Run(c)
    \/ ReadyGetsPod(c) \/ ReadyGetsRecord(c) \/ ReadyFails(c)
    \/ Setup(c) \/ SetupFails(c) \/ Works(c)
    \/ Stops(c) \/ Exits(c) \/ CleanUp(c)

Next ==
    \/ Migrate \/ Delete \/ Handover \/ Remove
    \/ ReconcileStep
    \/ \E c \in Containers : AppStep(c)

Spec == Init /\ [][Next]_vars

(* The holder and the node's ticks come again and again, and what runs goes *)
(* on; nobody has to move a pod, to fail or to exit.                        *)
GoesOn(c) ==
    Load(c) \/ Run(c) \/ ReadyGetsPod(c) \/ ReadyGetsRecord(c) \/ Setup(c) \/ Stops(c)

Fairness ==
    /\ WF_vars(Handover) /\ WF_vars(Remove) /\ WF_vars(ReconcileStep)
    /\ \A c \in Containers : WF_vars(GoesOn(c))

FairSpec == Spec /\ Fairness

-----------------------------------------------------------------------------
(* Properties *)

(* The state of an app that has been set up goes on from where the last one *)
(* was torn down, on whatever node.                                         *)
StateGoesOn ==
    \A c \in Containers : app[c].setUp /\ kept[c] # NoData => app[c].data >= kept[c]

(* It does, if no call failed and none came early. *)
StateCarried == used["faults"] = 0 /\ used["hastes"] = 0 => StateGoesOn

(* An app is initialized on the first node of the pod and nowhere else, if  *)
(* no call came early.                                                      *)
InitializedFirst ==
    \A c \in Containers :
        ready[c].pc = "setup" /\ pod # NoPod /\ used["hastes"] = 0 =>
            (ready[c].initialize <=> ~ pod.status[c].last)

Missed == rec.pc \in {"stuck", "panicked"}

Started == \A c \in Containers : pod.status[c].id # NoId

(* A started pod that has to move gets away, unless it is deleted or its    *)
(* reconcile has missed an app.                                             *)
MoveCompletes ==
    pod # NoPod /\ pod.moving /\ Started
        ~> Missed \/ pod = NoPod \/ pod.deleted \/ ~ pod.moving

(* A container that is started comes to be set up, or it exits.             *)
AppIsSetUp ==
    \A c \in Containers : app[c].phase = "loading" ~> Missed \/ app[c].setUp \/ ~ Live(c)
=============================================================================
