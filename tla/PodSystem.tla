------------------------------ MODULE PodSystem ------------------------------
(***************************************************************************)
(* The life of one pod in an Oinari cluster: the record in the KVS, the     *)
(* nodes that deal with it every three seconds because they hold it         *)
(* (PodController.DealLocalResource), the users that create, migrate and    *)
(* delete it, and on every node the reconciliation that makes the           *)
(* containers follow the record (ContainerController.Reconcile).            *)
(*                                                                          *)
(* Every writer works on a copy: it reads the record, changes its copy and  *)
(* calls kvs.Update, which looks whether the record still exists and then   *)
(* overwrites it.  The lock of kvs.Update is per node, so writers of        *)
(* different nodes interleave freely between their reads and their writes.  *)
(***************************************************************************)
EXTENDS ContainerRuntime, FiniteSets

CONSTANTS
    Reconcilers,  \* goroutines of the messaging handler that run Reconcile
    Holders,      \* goroutines of Manager.Start, one per node that may hold the record
    Users,        \* goroutines of the frontend handlers
    NodeOf,       \* the node a goroutine runs on
    Creator,      \* Meta.CreatorNode: where Create was called
    Allowed,      \* nodes whose application filter admits the pod
    CoreRuntime,  \* containers with runtime core:dev1; the others get the null driver
    Timing,       \* how much the writers of the record overlap, see Quiet
    MaxMigrations, MaxDeletes, MaxCleanups,  \* user calls in a run
    MaxFaults,    \* failed or timed out calls in a run
    MaxExits,     \* containers that exit by themselves in a run
    MaxCrashes,   \* nodes that go away in a run
    MaxIds        \* sandboxes and containers made in a run

Procs == Reconcilers \cup Holders \cup Users

ASSUME PodSystemAssumption ==
    /\ NodeOf \in [Procs -> Nodes]
    /\ Reconcilers \cap Holders = {} /\ Reconcilers \cap Users = {} /\ Holders \cap Users = {}
    /\ Creator \in Nodes
    /\ Allowed \subseteq Nodes
    /\ CoreRuntime \subseteq Containers
    /\ Timing \in {"free", "long ticks", "turns"}
    /\ {MaxMigrations, MaxDeletes, MaxCleanups, MaxFaults, MaxExits, MaxCrashes,
        MaxIds} \subseteq Nat

VARIABLES
    kvs,      \* the value of "pod/<uuid>": a record or NoPod
    created,  \* the pod has been created (its uuid is never created again)
    local,    \* per node: containerControllerImpl.reconcileStates[uuid]
    cri,      \* per node: the container runtime
    drivers,  \* per node: core API Manager.drivers, the ids of containers with a driver
    msgs,     \* nodes with a reconcile message under way
    node,     \* per node: "up", "left" (page closed) or "panicked"
    proc,     \* per goroutine: where it is and its copy of the record
    nextId,   \* the next sandbox or container id (random in cri.ts, so unique)
    used      \* how much of each bound has been used

vars == <<kvs, created, local, cri, drivers, msgs, node, proc, nextId, used>>

-----------------------------------------------------------------------------
(* reconcileStates: no entry, or the fields of reconcileState. *)
NoEntry == [known |-> FALSE, running |-> FALSE, willDelete |-> FALSE, sandbox |-> NoId]

Entry == [known : BOOLEAN, running : BOOLEAN, willDelete : BOOLEAN, sandbox : Nat]

(* A goroutine: pc, its copy of the record, where it goes after a successful *)
(* Update, and the containers letTerminate still has to tear down.           *)
ReconcilePCs ==
    {"get", "pull", "start", "teardown", "info", "remove", "drop", "leave", "stuck"}
UpdatePCs == {"check", "set"}
PCs == {"idle", "deal", "blocked", "delete", "clear"} \cup ReconcilePCs \cup UpdatePCs

Afters == {"idle", "delete", "leave", "drop", "remove"}

Process ==
    [pc : PCs, pod : Pod \cup {NoPod}, then : Afters, todo : SUBSET Containers]

Idle == [pc |-> "idle", pod |-> NoPod, then |-> "idle", todo |-> {}]

Counters == {"migrations", "deletes", "cleanups", "faults", "exits", "crashes"}

(* Every value has its type; messages go to nodes that exist.               *)
TypeOK ==
    /\ kvs \in Pod \cup {NoPod}
    /\ created \in BOOLEAN
    /\ local \in [Nodes -> Entry]
    /\ cri \in [Nodes -> Runtime]
    /\ drivers \in [Nodes -> SUBSET Nat]
    /\ msgs \subseteq Nodes
    /\ node \in [Nodes -> {"up", "left", "panicked"}]
    /\ proc \in [Procs -> Process]
    /\ nextId \in Nat \ {0}
    /\ used \in [Counters -> Nat]

Init ==
    /\ kvs = NoPod
    /\ created = FALSE
    /\ local = [n \in Nodes |-> NoEntry]
    /\ cri = [n \in Nodes |-> EmptyRuntime]
    /\ drivers = [n \in Nodes |-> {}]
    /\ msgs = {}
    /\ node = [n \in Nodes |-> "up"]
    /\ proc = [p \in Procs |-> Idle]
    /\ nextId = 1
    /\ used = [x \in Counters |-> 0]

-----------------------------------------------------------------------------
Up(p) == node[NodeOf[p]] = "up"

At(p, pc) == Up(p) /\ proc[p].pc = pc

(* The goroutine goes on at pc; its copy of the record stays. *)
Goto(p, pc) == proc' = [proc EXCEPT ![p].pc = pc]

(* The goroutine returns to its event loop and forgets its copy. *)
Finished(p) == proc' = [proc EXCEPT ![p] = Idle]

(* Reconcile returns by its deferred function, the others just return. *)
Return(p) ==
    IF p \in Reconcilers
    THEN proc' = [proc EXCEPT ![p] = [Idle EXCEPT !.pc = "leave"]]
    ELSE Finished(p)

Spend(counter, bound) ==
    /\ used[counter] < bound
    /\ used' = [used EXCEPT ![counter] = @ + 1]

(* PodKvs.progressing: an Update keeps the key from its existence check to  *)
(* its set; Get, Update and Delete of the same node wait for it.            *)
KeyIsFree(n) == \A p \in Procs : NodeOf[p] = n => proc[p].pc # "set"

(* Defect: the record is not validated. *)
CallUpdateUnchecked(p, pod, then) ==
    proc' = [proc EXCEPT ![p] = [pc |-> "check", pod |-> pod, then |-> then, todo |-> {}]]

(* The call of kvs.Update(pod) that ends an operation: the record is        *)
(* validated before anything else.                                          *)
CallUpdate(p, pod, then) ==
    IF Valid(pod)
    THEN proc' = [proc EXCEPT ![p] =
                    [pc |-> "check", pod |-> pod, then |-> then, todo |-> {}]]
    ELSE Return(p)

NodeUnchanged == UNCHANGED <<local, cri, drivers, nextId>>

-----------------------------------------------------------------------------
(* node/kvs/pod.go *)

(* Update, first half: lock the key and look whether the record exists. *)
UpdateCheck(p) ==
    /\ At(p, "check")
    /\ KeyIsFree(NodeOf[p])
    /\ IF kvs = NoPod THEN Return(p) ELSE Goto(p, "set")
    /\ UNCHANGED <<kvs, created, msgs, node, used>>
    /\ NodeUnchanged

(* Update, second half: overwrite the record and unlock the key. *)
UpdateSet(p) ==
    /\ At(p, "set")
    /\ kvs' = proc[p].pod
    /\ IF proc[p].then = "idle" THEN Finished(p)
       ELSE proc' = [proc EXCEPT ![p] = [Idle EXCEPT !.pc = proc[p].then]]
    /\ UNCHANGED <<created, msgs, node, used>>
    /\ NodeUnchanged

(* A KVS call of Update fails: nothing is written, the error is returned. *)
UpdateFails(p) ==
    /\ At(p, "check") \/ At(p, "set")
    /\ Spend("faults", MaxFaults)
    /\ Return(p)
    /\ UNCHANGED <<kvs, created, msgs, node>>
    /\ NodeUnchanged

-----------------------------------------------------------------------------
(* The users: node/controller/pod.go called by the frontend handlers. *)

(* Nothing that was begun on the record is still going on. How far apart the *)
(* writers are is a matter of time, so it is a parameter:                   *)
(*   "free"        anybody may begin at any moment                          *)
(*   "long ticks"  a holder's tick, three seconds after the last one, comes *)
(*                 after every read, write, message and reconcile that was  *)
(*                 begun before it is over                                  *)
(*   "turns"       in addition no user's call begins before that            *)
(* A container that was told to stop may run on for ten seconds, past any   *)
(* number of ticks.                                                         *)
Quiet ==
    /\ msgs = {}
    /\ \A p \in Reconcilers \cup Holders : Up(p) => proc[p].pc \in {"idle", "stuck", "blocked"}
    /\ \A u \in Users : proc[u].pc \notin UpdatePCs

MayBegin == Timing = "turns" => Quiet

(* Create: the uuid is new, so the record is free to be set. *)
Create(u) ==
    /\ At(u, "idle")
    /\ NodeOf[u] = Creator
    /\ ~ created
    /\ kvs' = NewPod
    /\ created' = TRUE
    /\ UNCHANGED <<msgs, node, proc, used>>
    /\ NodeUnchanged

(* Migrate: read, set the target (and the running node if there is none *)
(* yet), and update.                                                      *)
Migrate(u, n) ==
    /\ At(u, "idle")
    /\ MayBegin
    /\ KeyIsFree(NodeOf[u])
    /\ kvs # NoPod
    /\ Spend("migrations", MaxMigrations)
    /\ CallUpdate(u, IF kvs.running = NoNode
                      THEN [kvs EXCEPT !.target = n, !.running = n]
                      ELSE [kvs EXCEPT !.target = n], "idle")
    /\ UNCHANGED <<kvs, created, msgs, node>>
    /\ NodeUnchanged

(* Delete: a loop that ends when the record is gone ... *)
Delete(u) ==
    /\ At(u, "idle")
    /\ created
    /\ Spend("deletes", MaxDeletes)
    /\ Goto(u, "delete")
    /\ UNCHANGED <<kvs, created, msgs, node>>
    /\ NodeUnchanged

(* ... and until then marks it whenever the mark is missing. *)
DeleteMarks(u) ==
    /\ At(u, "delete")
    /\ MayBegin
    /\ KeyIsFree(NodeOf[u])
    /\ kvs # NoPod
    /\ ~ kvs.deleted
    /\ CallUpdate(u, [kvs EXCEPT !.deleted = TRUE], "delete")
    /\ UNCHANGED <<kvs, created, msgs, node, used>>
    /\ NodeUnchanged

(* Any error of Get counts as "the record is gone". *)
DeleteReturns(u) ==
    /\ At(u, "delete")
    /\ KeyIsFree(NodeOf[u])
    /\ \/ kvs = NoPod /\ UNCHANGED used
       \/ Spend("faults", MaxFaults)
    /\ Finished(u)
    /\ UNCHANGED <<kvs, created, msgs, node>>
    /\ NodeUnchanged

(* Cleanup: give up a pod whose containers are unknown. *)
Cleanup(u) ==
    /\ At(u, "idle")
    /\ KeyIsFree(NodeOf[u])
    /\ kvs # NoPod
    /\ isContainerUnknown(kvs)
    /\ Spend("cleanups", MaxCleanups)
    /\ Goto(u, "clear")
    /\ UNCHANGED <<kvs, created, msgs, node>>
    /\ NodeUnchanged

CleanupClears(u) ==
    /\ At(u, "clear")
    /\ KeyIsFree(NodeOf[u])
    /\ kvs' = NoPod
    /\ Finished(u)
    /\ UNCHANGED <<created, msgs, node, used>>
    /\ NodeUnchanged

UserStep(u) ==
    \/ Create(u)
    \/ \E n \in Nodes : Migrate(u, n)
    \/ Delete(u) \/ DeleteMarks(u) \/ DeleteReturns(u)
    \/ Cleanup(u) \/ CleanupClears(u)
    \/ UpdateCheck(u) \/ UpdateSet(u) \/ UpdateFails(u)

-----------------------------------------------------------------------------
(* The holder of the record: Manager.dealLocalResource calls                *)
(* PodController.DealLocalResource with a snapshot of its local records.    *)

(* The snapshot. Records dealt with earlier in the same tick take their time *)
(* (up to ten seconds each), so it may be stale when this one is its turn.   *)
Tick(h) ==
    /\ At(h, "idle")
    /\ kvs # NoPod
    /\ Timing # "free" => Quiet
    /\ proc' = [proc EXCEPT ![h] = [Idle EXCEPT !.pc = "deal", !.pod = kvs]]
    /\ UNCHANGED <<kvs, created, msgs, node, used>>
    /\ NodeUnchanged

(* Defect: a deleted record is removed while its containers run. *)
RemovableEarly(pod) == ~ Valid(pod) \/ pod.deleted

(* A malformed record is of no use, nor is a deleted one that runs nowhere. *)
Removable(pod) ==
    \/ ~ Valid(pod)
    \/ pod.deleted /\ (pod.running = NoNode \/ isContainerTerminated(pod))

(* The manager sets the record to nil without the lock of PodKvs. *)
DealRemove(h) ==
    /\ At(h, "deal")
    /\ Removable(proc[h].pod)
    /\ kvs' = NoPod
    /\ Finished(h)
    /\ UNCHANGED <<created, msgs, node, used>>
    /\ NodeUnchanged

(* A deleted record whose containers still run: tell the running node. This *)
(* call has no timeout of its own, and colonio's may never come when the    *)
(* node is down.                                                            *)
DealDeleting(h) ==
    LET pod == proc[h].pod IN
        /\ At(h, "deal")
        /\ pod.deleted /\ ~ Removable(pod)
        /\ \/ /\ node[pod.running] = "up"
              /\ msgs' = msgs \cup {pod.running}
              /\ Finished(h)
              /\ UNCHANGED used
           \/ /\ node[pod.running] = "up"
              /\ Spend("faults", MaxFaults)
              /\ Finished(h)
              /\ UNCHANGED msgs
           \/ /\ node[pod.running] # "up"
              /\ Finished(h) \/ Goto(h, "blocked")
              /\ UNCHANGED <<msgs, used>>
        /\ UNCHANGED <<kvs, created, node>>
        /\ NodeUnchanged

(* schedulePod: a pod that runs nowhere goes to its creator. *)
DealSchedule(h) ==
    LET pod == proc[h].pod IN
        /\ At(h, "deal")
        /\ Valid(pod) /\ ~ pod.deleted
        /\ pod.running = NoNode
        /\ CallUpdate(h, [pod EXCEPT !.target = Creator, !.running = Creator], "idle")
        /\ UNCHANGED <<kvs, created, msgs, node, used>>
        /\ NodeUnchanged

(* A pod that has ended where it should run is left alone. *)
Resting(pod) ==
    pod.running = pod.target /\ (isContainerTerminated(pod) \/ isContainerUnknown(pod))

(* Defect: the pod is handed over without waiting for its containers. *)
MovedEarly(pod) == pod.running # pod.target

(* A pod that has to move and whose containers have all terminated. *)
Moved(pod) == pod.running # pod.target /\ isContainerTerminated(pod)

DealRest(h) ==
    LET pod == proc[h].pod IN
        /\ At(h, "deal")
        /\ Valid(pod) /\ ~ pod.deleted
        /\ pod.running # NoNode
        /\ Resting(pod)
        /\ Finished(h)
        /\ UNCHANGED <<kvs, created, msgs, node, used>>
        /\ NodeUnchanged

DealHandover(h) ==
    LET pod == proc[h].pod IN
        /\ At(h, "deal")
        /\ Valid(pod) /\ ~ pod.deleted
        /\ pod.running # NoNode
        /\ Moved(pod)
        /\ CallUpdate(h, Handover(pod), "idle")
        /\ UNCHANGED <<kvs, created, msgs, node, used>>
        /\ NodeUnchanged

Reconcilable(pod) ==
    /\ Valid(pod) /\ ~ pod.deleted
    /\ pod.running # NoNode
    /\ ~ Resting(pod) /\ ~ Moved(pod)

DealReconcile(h) ==
    LET pod == proc[h].pod IN
        /\ At(h, "deal")
        /\ Reconcilable(pod)
        /\ node[pod.running] = "up"
        /\ msgs' = msgs \cup {pod.running}
        /\ Finished(h)
        /\ UNCHANGED <<kvs, created, node, used>>
        /\ NodeUnchanged

(* The call fails or takes more than ten seconds, though it may still arrive: *)
(* the containers become unknown.                                             *)
DealTimeout(h) ==
    LET pod == proc[h].pod IN
        /\ At(h, "deal")
        /\ Reconcilable(pod)
        /\ \/ node[pod.running] # "up" /\ UNCHANGED <<msgs, used>>
           \/ /\ node[pod.running] = "up"
              /\ Spend("faults", MaxFaults)
              /\ msgs' \in {msgs, msgs \cup {pod.running}}
        /\ CallUpdate(h, MarkUnknown(pod), "idle")
        /\ UNCHANGED <<kvs, created, node>>
        /\ NodeUnchanged

HolderStep(h) ==
    \/ Tick(h)
    \/ DealRemove(h) \/ DealDeleting(h) \/ DealSchedule(h) \/ DealRest(h)
    \/ DealHandover(h) \/ DealReconcile(h) \/ DealTimeout(h)
    \/ UpdateCheck(h) \/ UpdateSet(h) \/ UpdateFails(h)

-----------------------------------------------------------------------------
(* Reconciliation on a node: node/controller/container.go. *)

EntryOf(p) == local[NodeOf[p]]

(* Defect: an error return that does not pass the deferred function. *)
FailAtOnce(p) == Finished(p)

(* An error return of Reconcile or of what it calls. *)
Fail(p) == proc' = [proc EXCEPT ![p] = [Idle EXCEPT !.pc = "leave"]]

(* Defect: reconcileState.running is not tested. *)
EnterAnyway(p) ==
    LET n == NodeOf[p] IN
        /\ At(p, "idle")
        /\ n \in msgs
        /\ msgs' = msgs \ {n}
        /\ local' = [local EXCEPT ![n] = [@ EXCEPT !.known = TRUE, !.running = TRUE]]
        /\ Goto(p, "get")
        /\ UNCHANGED <<kvs, created, cri, drivers, node, nextId, used>>

(* A message arrives and its goroutine calls Reconcile.  If another one runs *)
(* for the pod the call returns at once; the message is used up either way.  *)
Enter(p) ==
    LET n == NodeOf[p] IN
        /\ At(p, "idle")
        /\ n \in msgs
        /\ msgs' = msgs \ {n}
        /\ local' = [local EXCEPT ![n] = [@ EXCEPT !.known = TRUE, !.running = TRUE]]
        /\ IF local[n].running THEN UNCHANGED proc ELSE Goto(p, "get")
        /\ UNCHANGED <<kvs, created, cri, drivers, node, nextId, used>>

(* podKvs.Get fails, or the record is gone. *)
GetFails(p) ==
    /\ At(p, "get")
    /\ KeyIsFree(NodeOf[p])
    /\ \/ kvs = NoPod /\ UNCHANGED used
       \/ Spend("faults", MaxFaults)
    /\ Fail(p)
    /\ UNCHANGED <<kvs, created, msgs, node>>
    /\ NodeUnchanged

(* podKvs.Get returns the record, and Reconcile decides by it. *)
Gets(p) == At(p, "get") /\ KeyIsFree(NodeOf[p]) /\ kvs # NoPod

(* The pod runs elsewhere: force its containers here to stop. *)
ReconcileElsewhere(p) ==
    LET n == NodeOf[p] IN
        /\ Gets(p)
        /\ kvs.running # n
        /\ IF local[n].sandbox # NoId
           THEN /\ cri' = [cri EXCEPT ![n] = RemoveSandbox(@, local[n].sandbox)]
                /\ local' = [local EXCEPT ![n].willDelete = TRUE]
           ELSE UNCHANGED <<cri, local>>
        /\ Fail(p)
        /\ UNCHANGED <<kvs, created, drivers, msgs, node, nextId, used>>

(* The pod has to stop here: without a sandbox only the record is updated,  *)
(* otherwise letTerminate lists the containers that have not exited and, if *)
(* the pod is to move, reads the record of its application state.           *)
ReconcileTerminate(p) ==
    LET n == NodeOf[p] IN
        /\ Gets(p)
        /\ kvs.running = n
        /\ MustTerminate(kvs)
        /\ proc' = [proc EXCEPT ![p] =
             IF local[n].sandbox = NoId
             THEN [Idle EXCEPT !.pc = "info", !.pod = kvs]
             ELSE [Idle EXCEPT !.pc = "teardown", !.pod = kvs,
                               !.todo = NotExited(cri[n], local[n].sandbox)]]
        /\ UNCHANGED <<kvs, created, msgs, node, used>>
        /\ NodeUnchanged

(* The pod has to run here.  letRunning: nothing to do when the application *)
(* filter refuses the pod; otherwise make or find the sandbox.              *)
ReconcileRun(p) ==
    LET n == NodeOf[p]
        waiting == {c \in Containers : ~ kvs.status[c].running}
    IN  /\ Gets(p)
        /\ kvs.running = n
        /\ ~ MustTerminate(kvs)
        /\ \/ /\ n \notin Allowed
              /\ proc' = [proc EXCEPT ![p] = [Idle EXCEPT !.pc = "info", !.pod = kvs]]
              /\ UNCHANGED <<local, cri, nextId>>
           \/ \* RunPodSandbox, PodSandboxStatus, ListImages
              /\ n \in Allowed
              /\ local[n].sandbox = NoId
              /\ cri[n].sandbox = NoId
              /\ nextId <= MaxIds
              /\ cri' = [cri EXCEPT ![n] = RunPodSandbox(@, nextId)]
              /\ local' = [local EXCEPT ![n].sandbox = nextId]
              /\ nextId' = nextId + 1
              /\ proc' = [proc EXCEPT ![p] =
                    [Idle EXCEPT !.pc = "pull", !.pod = kvs, !.todo = waiting]]
           \/ \* the sandbox exists: PodSandboxStatus, ListImages
              /\ n \in Allowed
              /\ local[n].sandbox # NoId
              /\ cri[n].sandbox = local[n].sandbox
              /\ proc' = [proc EXCEPT ![p] =
                    [Idle EXCEPT !.pc = "pull", !.pod = kvs, !.todo = waiting]]
              /\ UNCHANGED <<local, cri, nextId>>
           \/ \* PodSandboxStatus: the sandbox of the entry has been removed
              /\ n \in Allowed
              /\ local[n].sandbox # NoId
              /\ cri[n].sandbox # local[n].sandbox
              /\ Fail(p)
              /\ UNCHANGED <<local, cri, nextId>>
        /\ UNCHANGED <<kvs, created, drivers, msgs, node, used>>

(* RunPodSandbox refuses a duplicate: of this pod, or (a fault) of another  *)
(* pod with the same name.                                                  *)
SandboxRefused(p) ==
    LET n == NodeOf[p] IN
        /\ Gets(p)
        /\ kvs.running = n /\ ~ MustTerminate(kvs) /\ n \in Allowed
        /\ local[n].sandbox = NoId
        /\ IF cri[n].sandbox # NoId THEN UNCHANGED used ELSE Spend("faults", MaxFaults)
        /\ local' = [local EXCEPT ![n].willDelete = TRUE]
        /\ Fail(p)
        /\ UNCHANGED <<kvs, created, cri, drivers, msgs, node, nextId>>

(* The images that the containers to be created need are there, or pulled.  *)
PullImages(p) ==
    /\ At(p, "pull")
    /\ Goto(p, "start")
    /\ UNCHANGED <<kvs, created, msgs, node, used>>
    /\ NodeUnchanged

(* PullImage fails: letRunning ends with the sandbox made and no container  *)
(* created.                                                                 *)
PullFails(p) ==
    /\ At(p, "pull")
    /\ \E c \in proc[p].todo : ~ Exists(cri[NodeOf[p]], c)
    /\ Spend("faults", MaxFaults)
    /\ Fail(p)
    /\ UNCHANGED <<kvs, created, msgs, node>>
    /\ NodeUnchanged

(* Defect: the status is made anew, and LastState is lost. *)
FilledAnew(s, id) == [EmptyStatus EXCEPT !.id = id, !.image = TRUE, !.running = TRUE]

Filled(s, id) ==
    [s EXCEPT !.id = id, !.image = TRUE, !.running = TRUE, !.terminated = FALSE,
              !.unknown = FALSE]

Found(s, started) ==
    IF started THEN Filled(s, NoId) ELSE [s EXCEPT !.id = NoId, !.image = TRUE]

(* A reconcile has dealt with container c: its copy says s of it. *)
Noted(v, c, s) == [v EXCEPT !.todo = @ \ {c}, !.pod.status[c] = s]

(* letRunning for a container the record does not call running. If it does *)
(* not exist it is created, gets its core API driver and is started.        *)
StartContainer(p, c) ==
    LET n == NodeOf[p] IN
        /\ At(p, "start")
        /\ c \in proc[p].todo
        /\ ~ Exists(cri[n], c)
        /\ nextId <= MaxIds
        /\ cri' = [cri EXCEPT ![n] = CreateAndStart(@, c, nextId)]
        /\ drivers' = [drivers EXCEPT ![n] = @ \cup {nextId}]
        /\ nextId' = nextId + 1
        /\ proc' = [proc EXCEPT ![p] = Noted(@, c, Filled(@.pod.status[c], nextId))]
        /\ UNCHANGED <<kvs, created, local, msgs, node, used>>

Listed(s, id) == [s EXCEPT !.id = id, !.image = TRUE]

(* It is created and gets its driver, but then ListContainers or, with the  *)
(* id and the image noted, StartContainer fails, which is only logged.      *)
StartFails(p, c) ==
    LET n == NodeOf[p]
        s == proc[p].pod.status[c]
    IN  /\ At(p, "start")
        /\ c \in proc[p].todo
        /\ ~ Exists(cri[n], c)
        /\ nextId <= MaxIds
        /\ Spend("faults", MaxFaults)
        /\ cri' = [cri EXCEPT ![n] = CreateContainer(@, c, nextId)]
        /\ drivers' = [drivers EXCEPT ![n] = @ \cup {nextId}]
        /\ nextId' = nextId + 1
        /\ \E noted \in {s, Listed(s, nextId)} :
              proc' = [proc EXCEPT ![p] = Noted(@, c, noted)]
        /\ UNCHANGED <<kvs, created, local, msgs, node>>

(* It exists already: containerID stays "", so ListContainers filters       *)
(* nothing and the first container of the node, of any pod, decides whether *)
(* the status becomes Running or StartContainer("") fails.                  *)
FindContainer(p, c) ==
    /\ At(p, "start")
    /\ c \in proc[p].todo
    /\ Exists(cri[NodeOf[p]], c)
    /\ \E started \in BOOLEAN :
        proc' = [proc EXCEPT ![p] = Noted(@, c, Found(@.pod.status[c], started))]
    /\ UNCHANGED <<kvs, created, msgs, node, used>>
    /\ NodeUnchanged

(* CreateContainer fails, or ListContainers for a container that exists:    *)
(* that is only logged.                                                     *)
CreateFails(p, c) ==
    /\ At(p, "start")
    /\ c \in proc[p].todo
    /\ Spend("faults", MaxFaults)
    /\ proc' = [proc EXCEPT ![p].todo = @ \ {c}]
    /\ UNCHANGED <<kvs, created, msgs, node>>
    /\ NodeUnchanged

StartDone(p) ==
    /\ At(p, "start")
    /\ proc[p].todo = {}
    /\ Goto(p, "info")
    /\ UNCHANGED <<kvs, created, msgs, node, used>>
    /\ NodeUnchanged

-----------------------------------------------------------------------------
(* letTerminate *)

(* No goroutine of the node goes on, and no message reaches it. *)
ProgramEnds(n, how) ==
    /\ node' = [node EXCEPT ![n] = how]
    /\ msgs' = msgs \ {n}
    /\ proc' = [p \in Procs |-> IF NodeOf[p] = n THEN Idle ELSE proc[p]]

(* The page of the node is closed: its program and its containers are gone. *)
NodeDies(n) ==
    /\ ProgramEnds(n, "left")
    /\ local' = [local EXCEPT ![n] = NoEntry]
    /\ cri' = [cri EXCEPT ![n] = EmptyRuntime]
    /\ drivers' = [drivers EXCEPT ![n] = {}]

(* The node's Go program panics. The containers are the page's, so they run *)
(* on; what the program knew of them is never read again.                   *)
NodePanics(n) ==
    /\ ProgramEnds(n, "panicked")
    /\ local' = [local EXCEPT ![n] = [@ EXCEPT !.running = FALSE, !.willDelete = FALSE]]
    /\ UNCHANGED <<cri, drivers>>

HasDriver(n, c) == cri[n].box[c].id \in drivers[n]

(* Defect: StopContainer is not called. *)
TeardownOnly(p, c) ==
    LET n == NodeOf[p] IN
        /\ At(p, "teardown")
        /\ c \in proc[p].todo
        /\ HasDriver(n, c)
        /\ c \in CoreRuntime => Live(cri[n], c)
        /\ drivers' = [drivers EXCEPT ![n] = @ \ {cri[n].box[c].id}]
        /\ proc' = [proc EXCEPT ![p].todo = @ \ {c}]
        /\ UNCHANGED <<kvs, created, local, cri, msgs, node, nextId, used>>

(* Teardown, StopContainer and DestroyDriver of one listed container. The   *)
(* app of a core driver answers teardown and then exits; the null driver    *)
(* answers by itself, and the container runs on until its stop timer.       *)
Teardown(p, c) ==
    LET n == NodeOf[p] IN
        /\ At(p, "teardown")
        /\ c \in proc[p].todo
        /\ HasDriver(n, c)
        /\ c \in CoreRuntime => Live(cri[n], c)
        /\ cri' = [cri EXCEPT ![n] = IF Live(@, c) THEN StopContainer(@, c) ELSE @]
        /\ drivers' = [drivers EXCEPT ![n] = @ \ {cri[n].box[c].id}]
        /\ proc' = [proc EXCEPT ![p].todo = @ \ {c}]
        /\ UNCHANGED <<kvs, created, local, msgs, node, nextId, used>>

(* The app has exited since it was listed. If it exits before it answers, or *)
(* its worker is gone already, there never is an answer, and the call has no *)
(* timeout. Nor is there one of a container that was never started, or (a    *)
(* fault) of an app that is still being loaded.                              *)
TeardownHangs(p, c) ==
    LET n == NodeOf[p] IN
        /\ At(p, "teardown")
        /\ c \in proc[p].todo \cap CoreRuntime
        /\ HasDriver(n, c)
        /\ IF Live(cri[n], c) THEN Spend("faults", MaxFaults) ELSE UNCHANGED used
        /\ proc' = [proc EXCEPT ![p] = [Idle EXCEPT !.pc = "stuck"]]
        /\ UNCHANGED <<kvs, created, msgs, node>>
        /\ NodeUnchanged

(* The container has been torn down before, by a reconcile that did not see *)
(* it exit: GetDriver returns nil, and the call through it panics.          *)
TeardownPanics(p, c) ==
    LET n == NodeOf[p] IN
        /\ At(p, "teardown")
        /\ c \in proc[p].todo
        /\ ~ HasDriver(n, c)
        /\ NodePanics(n)
        /\ UNCHANGED <<kvs, created, nextId, used>>

(* The app, or the worker it has exited from or is not yet loaded into,     *)
(* answers teardown with an error; a container that was never started has   *)
(* no worker to answer. When the pod moves, the driver reads the record of  *)
(* an answer that does not exist; when it is deleted, letTerminate returns  *)
(* the error.                                                               *)
TeardownErrs(p, c) ==
    LET n == NodeOf[p] IN
        /\ At(p, "teardown")
        /\ c \in proc[p].todo \cap CoreRuntime
        /\ HasDriver(n, c)
        /\ cri[n].box[c].state # "created"
        /\ IF Live(cri[n], c) THEN Spend("faults", MaxFaults) ELSE UNCHANGED used
        /\ IF proc[p].pod.deleted
           THEN Fail(p) /\ UNCHANGED <<local, cri, drivers, msgs, node>>
           ELSE NodePanics(n)
        /\ UNCHANGED <<kvs, created, nextId>>

(* The application state is stored for the next node, or deleted. *)
TeardownDone(p) ==
    /\ At(p, "teardown")
    /\ proc[p].todo = {}
    /\ Goto(p, "info")
    /\ UNCHANGED <<kvs, created, msgs, node, used>>
    /\ NodeUnchanged

(* recordKvs.Get or recordKvs.Set fails (Delete's error is only logged). *)
RecordFails(p) ==
    /\ At(p, "teardown")
    /\ ~ proc[p].pod.deleted
    /\ Spend("faults", MaxFaults)
    /\ Fail(p)
    /\ UNCHANGED <<kvs, created, msgs, node>>
    /\ NodeUnchanged

-----------------------------------------------------------------------------
(* updatePodInfo: the statuses follow what the runtime says. *)

Missing(s) == IF s.terminated THEN s ELSE [s EXCEPT !.unknown = TRUE]

(* A container the record does not know is entered into it ... *)
Adopted(s, k) ==
    IF k.state \in {"running", "exited"} /\ ~ s.running
    THEN [s EXCEPT !.id = k.id, !.image = TRUE, !.running = TRUE, !.unknown = FALSE]
    ELSE s

(* ... one with another id makes the status unknown, and an exit is noted. *)
Observed(s, k) ==
    LET adopted == Adopted(s, k) IN
        IF adopted.id # k.id THEN [adopted EXCEPT !.unknown = TRUE]
        ELSE IF k.state = "exited" /\ ~ adopted.terminated
        THEN [adopted EXCEPT !.terminated = TRUE, !.unknown = FALSE]
        ELSE adopted

(* The containers PodSandboxStatus returns to updatePodInfo. *)
Seen(p) ==
    IF EntryOf(p).sandbox = NoId THEN {}
    ELSE {c \in Containers : Exists(cri[NodeOf[p]], c)}

NewStatus(p) ==
    [c \in Containers |->
        IF c \in Seen(p)
        THEN Observed(proc[p].pod.status[c], cri[NodeOf[p]].box[c])
        ELSE Missing(proc[p].pod.status[c])]

Mismatched(p) ==
    {c \in Seen(p) : NewStatus(p)[c].id # cri[NodeOf[p]].box[c].id}

(* A container of the record's own id runs though the record says it ended. *)
Zombies(p) ==
    {c \in Seen(p) \ Mismatched(p) :
        NewStatus(p)[c].terminated /\ cri[NodeOf[p]].box[c].state # "exited"}

SandboxLost(p) ==
    EntryOf(p).sandbox # NoId /\ cri[NodeOf[p]].sandbox # EntryOf(p).sandbox

UpdateInfo(p) ==
    LET n == NodeOf[p]
        pod == [proc[p].pod EXCEPT !.status = NewStatus(p)]
    IN  /\ At(p, "info")
        /\ ~ SandboxLost(p)
        /\ Zombies(p) = {}
        /\ cri' = IF Mismatched(p) = {} THEN cri
                  ELSE [cri EXCEPT ![n] = RemoveSandbox(@, local[n].sandbox)]
        /\ CallUpdate(p, pod,
             IF Mismatched(p) # {} THEN "drop"
             ELSE IF MustTerminate(pod) /\ local[n].sandbox # NoId /\ isContainerTerminated(pod)
             THEN "remove"
             ELSE "leave")
        /\ UNCHANGED <<kvs, created, local, drivers, msgs, node, nextId, used>>

(* PodSandboxStatus fails, or a container should be terminated: no update. *)
UpdateInfoErrs(p) ==
    LET n == NodeOf[p] IN
        /\ At(p, "info")
        /\ SandboxLost(p) \/ Zombies(p) # {}
        /\ cri' = IF SandboxLost(p) THEN cri
                  ELSE [cri EXCEPT ![n] = RemoveSandbox(@, local[n].sandbox)]
        /\ Fail(p)
        /\ UNCHANGED <<kvs, created, local, drivers, msgs, node, nextId, used>>

(* Defect: the entry is given up but its sandbox is not removed. *)
RemoveEntryOnly(p) ==
    LET n == NodeOf[p] IN
        /\ At(p, "remove") \/ At(p, "drop")
        /\ local' = [local EXCEPT ![n].willDelete = @ \/ proc[p].pc = "remove"]
        /\ Fail(p)
        /\ UNCHANGED <<kvs, created, cri, drivers, msgs, node, nextId, used>>

(* removeSandbox after the record says that all containers have terminated, *)
(* or after an update that found differences.                               *)
Remove(p) ==
    LET n == NodeOf[p] IN
        /\ At(p, "remove") \/ At(p, "drop")
        /\ cri' = [cri EXCEPT ![n] = RemoveSandbox(@, local[n].sandbox)]
        /\ local' = [local EXCEPT ![n].willDelete = @ \/ proc[p].pc = "remove"]
        /\ Fail(p)
        /\ UNCHANGED <<kvs, created, drivers, msgs, node, nextId, used>>

(* The deferred end of Reconcile. *)
Leave(p) ==
    LET n == NodeOf[p] IN
        /\ At(p, "leave")
        /\ local' = [local EXCEPT ![n] =
                        IF @.willDelete THEN NoEntry ELSE [@ EXCEPT !.running = FALSE]]
        /\ Finished(p)
        /\ UNCHANGED <<kvs, created, cri, drivers, msgs, node, nextId, used>>

ReconcileStep(p) ==
    \/ Enter(p) \/ GetFails(p)
    \/ ReconcileElsewhere(p) \/ ReconcileTerminate(p)
    \/ ReconcileRun(p) \/ SandboxRefused(p) \/ PullImages(p) \/ PullFails(p)
    \/ \E c \in Containers :
          \/ StartContainer(p, c) \/ StartFails(p, c)
          \/ FindContainer(p, c) \/ CreateFails(p, c)
    \/ StartDone(p)
    \/ \E c \in Containers :
          Teardown(p, c) \/ TeardownHangs(p, c) \/ TeardownPanics(p, c) \/ TeardownErrs(p, c)
    \/ TeardownDone(p) \/ RecordFails(p)
    \/ UpdateInfo(p) \/ UpdateInfoErrs(p)
    \/ UpdateCheck(p) \/ UpdateSet(p) \/ UpdateFails(p)
    \/ Remove(p) \/ Leave(p)

-----------------------------------------------------------------------------
(* The containers and the nodes themselves. *)

(* A container that was told to stop ends: its app exits, or the timer of   *)
(* ContainerImpl.stop fires.                                                *)
ContainerStops(n, c) ==
    /\ Live(cri[n], c)
    /\ cri[n].box[c].stopping
    /\ cri' = [cri EXCEPT ![n] = Finish(@, c)]
    /\ UNCHANGED <<kvs, created, local, drivers, msgs, node, proc, nextId, used>>

(* A container ends by itself. *)
ContainerExits(n, c) ==
    /\ Live(cri[n], c)
    /\ ~ cri[n].box[c].stopping
    /\ Spend("exits", MaxExits)
    /\ cri' = [cri EXCEPT ![n] = Finish(@, c)]
    /\ UNCHANGED <<kvs, created, local, drivers, msgs, node, proc, nextId>>

(* The page of a node is closed. Its share of the KVS goes to other nodes. *)
NodeLeaves(n) ==
    /\ node[n] # "left"
    /\ Spend("crashes", MaxCrashes)
    /\ NodeDies(n)
    /\ UNCHANGED <<kvs, created, nextId>>

Next ==
    \/ \E u \in Users : UserStep(u)
    \/ \E h \in Holders : HolderStep(h)
    \/ \E p \in Reconcilers : ReconcileStep(p)
    \/ \E n \in Nodes, c \in Containers : ContainerStops(n, c) \/ ContainerExits(n, c)
    \/ \E n \in Nodes : NodeLeaves(n)

Spec == Init /\ [][Next]_vars

(* Every goroutine that can go on does: a user's call that has begun, the   *)
(* three second ticker and the dealing it starts, the handler of a message  *)
(* that has arrived. A container told to stop ends, at the latest by its    *)
(* timer. Nothing makes a user call, a container exit or a node leave.      *)
UserGoesOn(u) ==
    DeleteMarks(u) \/ DeleteReturns(u) \/ CleanupClears(u) \/ UpdateCheck(u) \/ UpdateSet(u)

Fairness ==
    /\ \A u \in Users : WF_vars(UserGoesOn(u))
    /\ \A h \in Holders : WF_vars(HolderStep(h))
    /\ \A p \in Reconcilers : WF_vars(ReconcileStep(p))
    /\ \A n \in Nodes, c \in Containers : WF_vars(ContainerStops(n, c))

FairSpec == Spec /\ Fairness

-----------------------------------------------------------------------------
(* Properties that hold however the goroutines interleave. *)

Reconciling(p) == proc[p].pc # "idle"

(* On a node one reconcile of the pod runs at a time, and the flag          *)
(* reconcileState.running tells exactly when: an entry is neither deleted   *)
(* under a running reconcile nor left locked by a finished one.             *)
ReconcileAlone ==
    \A n \in Nodes :
        LET active == {p \in Reconcilers : NodeOf[p] = n /\ Reconciling(p)} IN
            /\ \A p, q \in active : p = q
            /\ local[n].running <=> active # {}

(* The sandbox of the pod is always known to its reconcile state, so that   *)
(* some later reconcile can remove it (if the node program did not panic),  *)
(* and containers live inside it.                                           *)
SandboxTracked ==
    \A n \in Nodes :
        /\ node[n] # "panicked" /\ cri[n].sandbox # NoId => local[n].known /\ local[n].sandbox = cri[n].sandbox
        /\ cri[n].sandbox = NoId => \A c \in Containers : ~ Exists(cri[n], c)

(* Whatever is written passes Pod.Validate, so no holder ever drops the     *)
(* record as malformed.                                                     *)
RecordValid == kvs # NoPod => Valid(kvs)

(* A container that has not been told to stop has its core API driver, so   *)
(* the first letTerminate that meets it can tear it down.                   *)
LiveHasDriver ==
    \A n \in Nodes, c \in Containers :
        Live(cri[n], c) /\ ~ cri[n].box[c].stopping => HasDriver(n, c)

-----------------------------------------------------------------------------
(* The inductive invariant behind the five properties above. *)

HasCopyPCs == {"deal", "pull", "start", "teardown", "info"} \cup UpdatePCs

(* A goroutine that works on a copy has one, what it is about to write is   *)
(* valid, and a reconcile that writes goes on afterwards.                   *)
GoodProcess(p, v) ==
    /\ v.pc \in HasCopyPCs => v.pod \in Pod
    /\ v.pc \in UpdatePCs => Valid(v.pod)
    /\ p \in Reconcilers /\ v.pc \in UpdatePCs => v.then \in {"leave", "drop", "remove"}

(* The reconciles of node n that are going on. *)
ActiveOn(n) == {p \in Reconcilers : NodeOf[p] = n /\ Reconciling(p)}

(* What the entry of a node says of its reconcile: it is locked exactly     *)
(* while one runs, and to be deleted only when that one is about to leave.  *)
GoodEntry(n) ==
    /\ \A p, q \in ActiveOn(n) : p = q
    /\ local[n].running <=> ActiveOn(n) # {}
    /\ local[n].running => local[n].known
    /\ local[n].willDelete =>
           /\ local[n].running
           /\ cri[n].sandbox = NoId
           /\ \A p \in ActiveOn(n) : proc[p].pc = "leave"
    /\ \A p \in ActiveOn(n) : proc[p].pc \in {"pull", "start"} => cri[n].sandbox # NoId

(* The runtime of a node: its sandbox is the one of the entry, containers   *)
(* live in it, have ids of their own that were handed out before next, and  *)
(* until they are torn down a driver.                                       *)
GoodRuntime(entry, rt, ids, next) ==
    /\ rt.sandbox # NoId => entry.known /\ entry.sandbox = rt.sandbox
    /\ rt.sandbox = NoId => \A c \in Containers : ~ Exists(rt, c)
    /\ \A c \in Containers :
           /\ rt.box[c].id < next
           /\ Exists(rt, c) <=> rt.box[c].id # NoId
           /\ Live(rt, c) /\ ~ rt.box[c].stopping => rt.box[c].id \in ids
    /\ \A c, d \in Containers :
           Exists(rt, c) /\ Exists(rt, d) /\ rt.box[c].id = rt.box[d].id => c = d

(* The entries, the runtimes, the drivers and the goroutines of every node  *)
(* agree with each other, and the record is valid.                          *)
Coherent ==
    /\ TypeOK
    /\ RecordValid
    /\ \A p \in Procs : GoodProcess(p, proc[p])
    /\ \A n \in Nodes : GoodEntry(n) /\ GoodRuntime(local[n], cri[n], drivers[n], nextId)

-----------------------------------------------------------------------------
(* Properties that need the writers of the record to take turns. *)

LiveOn(c) == {n \in Nodes : Live(cri[n], c)}

(* A container of the pod runs on one node at a time: the next node starts  *)
(* it only after it has terminated on the one before.                       *)
OneLiveInstance == \A c \in Containers, m, n \in Nodes : {m, n} \subseteq LiveOn(c) => m = n

(* A running container is one the record says runs on that node: it can     *)
(* still be reached by a reconcile, and none outlives the record.           *)
LiveIsRecorded == \A c \in Containers : \A n \in LiveOn(c) : kvs # NoPod /\ kvs.running = n

placeOfPod == IF kvs # NoPod THEN kvs.running ELSE IF created THEN "gone" ELSE "new"

Lifecycle ==
    INSTANCE PodLifecycle WITH
        place <- placeOfPod, live <- [c \in Containers |-> LiveOn(c)]

(* The record, the messages and the reconciliations implement the life of a *)
(* pod that is in one place and leaves it only when its containers ended.   *)
ImplementsLifecycle == Lifecycle!PodSpec

(* The end of a container, once recorded, is not taken back on its node, so *)
(* the handover and the removal that wait for it do take place.             *)
TerminationKept ==
    [][\A c \in Containers :
          kvs # NoPod /\ kvs.status[c].terminated /\ kvs' # NoPod /\ kvs'.running = kvs.running
              => kvs'.status[c].terminated]_vars

(* A handover is not taken back, nor forgotten by what is written after it: *)
(* the end of a container on an earlier node (LastState) stays recorded. It *)
(* is why the app on the next node is told to take over a state and not to  *)
(* begin anew (handler.go:79).                                              *)
HandoverKept ==
    [][\A c \in Containers :
          kvs # NoPod /\ kvs.status[c].last /\ kvs' # NoPod => kvs'.status[c].last]_vars

(* The program of a node only panics over a container that an earlier       *)
(* reconcile has torn down and told to stop: the first teardown of an app   *)
(* that lives is safe. Holds as long as no app ends by itself and no call   *)
(* fails.                                                                   *)
PanicsAtSecondTeardown ==
    \A n \in Nodes : node[n] = "panicked" =>
        \E c \in Containers :
            /\ ~ HasDriver(n, c)
            /\ cri[n].box[c].stopping \/ cri[n].box[c].state = "exited"

-----------------------------------------------------------------------------
(* Liveness *)

Started(pod) == \A c \in Containers : pod.status[c].running

MarkedWhileRunning ==
    kvs # NoPod /\ kvs.deleted /\ Started(kvs) /\ ~ isContainerTerminated(kvs)

NothingRuns == \A c \in Containers : LiveOn(c) = {}

(* A container has exited just before its teardown, and its reconcile waits *)
(* for an answer and keeps the pod's entry locked, or its node panics; or a *)
(* container ran on until the next tick, and its second teardown panics.    *)
TeardownMissed ==
    \/ \E p \in Reconcilers : proc[p].pc = "stuck"
    \/ \E n \in Nodes : node[n] = "panicked"

(* Once the mark of Delete is on a record whose containers have been        *)
(* started, Delete returns, the record is gone and none of them runs,       *)
(* unless a teardown missed its app.                                        *)
DeleteCompletes ==
    \A u \in Users :
        proc[u].pc = "delete" /\ MarkedWhileRunning
            ~> TeardownMissed \/ (proc[u].pc = "idle" /\ kvs = NoPod /\ NothingRuns)

(* Delete of any pod returns. *)
DeleteEnds == \A u \in Users : proc[u].pc = "delete" ~> proc[u].pc = "idle"

Wanted(n) == kvs # NoPod /\ ~ kvs.deleted /\ kvs.target = n

(* The pod has been taken up by n: its containers run there or have run. *)
Arrived(n) ==
    /\ kvs # NoPod /\ kvs.running = n
    /\ \A c \in Containers : n \in LiveOn(c) \/ kvs.status[c].terminated

(* A started pod that is wanted on another node gets there, unless it is    *)
(* wanted elsewhere or deleted meanwhile, or a teardown missed its app.     *)
MigrationCompletes ==
    \A n \in Nodes :
        Wanted(n) /\ Started(kvs) /\ kvs.running # n
            ~> TeardownMissed \/ ~ Wanted(n) \/ Arrived(n)

(* A started pod that is wanted on another node waits for its containers to *)
(* end and gets there, unless it is wanted elsewhere or deleted meanwhile.  *)
MigrationWaits ==
    \A n \in Nodes :
        Wanted(n) /\ Started(kvs) /\ kvs.running # n ~> ~ Wanted(n) \/ Arrived(n)
=============================================================================
