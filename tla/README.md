# Oinari: a verification project

Oinari runs WebAssembly applications in web browsers. Browsers join a peer-to-peer network (colonio,
a library outside this repository); each is a *node*. A node keeps a part of a key-value store (KVS)
shared by all, runs *pods* (groups of containers; a container is a Web Worker with a WebAssembly
program) and may hand a pod to another node, where its applications go on from the state they left.
There is no server that decides: every node runs the same controllers, and whichever node has a
record in its part of the KVS tends it.

This directory holds TLA+ models of that machinery, what TLC checks of them on small instances and
what TLAPS proves of them for all. `PROJECT.json` lists the runs, the mutants that show each
property can fail, the source lines behind every definition, the findings, the hazards and the
theorems.

1. [The system](#1-the-system)
2. [The modules](#2-the-modules)
3. [What is checked](#3-what-is-checked)
4. [What is proved](#4-what-is-proved)
5. [What was found](#5-what-was-found)
6. [What is not covered, and the plan](#6-what-is-not-covered-and-the-plan)

---

## 1. The system

Paths are relative to the repository; `C` stands for `node/controller/container.go`.

| Component | State | Operations | Talks to |
|---|---|---|---|
| Pod controller (`node/controller/pod.go`) | none of its own: the pod's record in the KVS | Create, Migrate, Delete (waits until the record is gone), Cleanup; DealLocalResource for the node that holds the record | pod KVS, messaging |
| Container controller (`C`) | `reconcileStates`: per pod the sandbox, `running`, `willDelete`, the owner | Reconcile = letRunning or letTerminate, then updatePodInfo; removeSandbox | pod KVS, record KVS, CRI, core drivers |
| KVS wrappers (`node/kvs`) and `misc.UniqueSet` | the set of keys in use on this node | Get, Create, Update, Delete, each under its key's lock | colonio |
| Account controller (`node/controller/account.go`) | the account's record; per account a log of what was seen when | UpdatePodAndNodeState, DealLocalResource | account KVS |
| Manager (`node/manager.go`), local datastore | two tickers | every 3 s deal with the local part of the KVS, every 30 s keep alive | all controllers |
| CRI (`src/cri.ts`) | images, sandboxes, containers and their workers, stop timers | the calls of the Kubernetes CRI that are needed | container workers |
| Core API (`node/apis/core`, `lib/oinari`) | a driver per container; in the app the two handlers' state | ready, setup, teardown (marshal is never called) | the app in the worker |
| Record KVS (`node/kvs/record.go`) | the applications' states, per pod | Get, Set, Delete | colonio |
| Messaging (`node/messaging`) | calls under way | ReconcileContainer, PublishNode | colonio |
| Node directory (`node/controller/node.go`) | positions of nearby nodes, with timestamps | publish, receive, list | messaging, frontend |
| Three objects (`node/controller/three`, …) | objects of apps, placed in space | create, get, update, delete, receive a spread event | KVS, messaging, app, scenes of the page |
| Crosslink (`lib/crosslink`, `src/crosslink.ts`) | calls without an answer yet, handlers per path | call, serve, reply, forward | everything between page, worker and program |
| User interface (`src/main.ts`, `src/ui`) | the scene of the view (map or XR), settings | connect, open a view, apply and delete objects, terminate | node, CRI |
| Application filter, frontend handlers, system controller | configuration | user's requests, start-up | controllers |

How a pod lives. A user's *Create* writes a record without a running node. The *holder* of the
record (a ticker, every three seconds) schedules it, and from then on sends the running node a
*reconcile* message with each tick. A reconcile reads the record; makes a sandbox, pulls images,
creates and starts the containers, or tears the applications down and stops their containers; and
writes what it found into the record. *Migrate* sets the target node; when the reconciles of the old
node have reported every container as terminated, the holder resets the statuses and names the
target as the running node. *Delete* marks the record; the holder drops it when all containers have
terminated.

### What makes it hard

* **Everybody writes copies.** `kvs.Update` overwrites the record with a copy that was read earlier.
  The lock around it is one of its node, so a user, the holder and a reconcile on three nodes
  interleave freely between their reads and their writes.
* **Reconciles overlap.** Messages of the holder arrive while a reconcile of the same pod is still
  going on; a flag in a map keeps the second one out, and must be reset on every path.
* **Things end by themselves.** An application may exit between being listed and being asked to tear
  down; a container that is told to stop only stops when a timer fires; a page may be closed.
* **Calls fail or are late.** A message may arrive after its sender has given up on it. Any KVS,
  runtime or application call may fail in the middle of a sequence.
* **Waits without a limit.** Delete polls, the holder waits for some answers for ever, drivers wait
  for an application's answer for ever.
* **Behind the back of the calls.** Downloads settle, stop timers fire and workers post their ends
  while other pods use the same runtime, and after a container has been removed.
* **Answers find their way by ids.** A call may pass three workers and four tables of ids, any of
  whose programs may exit in between; ids are used again.
* **Every message starts a goroutine.** Whatever order messages arrive in, the goroutines they start
  read and act in another.
* **Old knowledge.** An account's holder judges by its own log of when it saw a record change, which
  may be older than the record it has now.

`PROJECT.json` lists each of these as a hazard with the line where it bites and the properties that
cover it.

### What makes each part correct

* Pod and containers: one instance of a container in the cluster, on the node the record names; a
  pod moves or goes only when its containers have ended; it does move and go when asked; no
  reconcile excludes itself for ever, loses a sandbox, or takes the node's program down; no record
  is ever written that its next reader refuses.
* The lock per key: exclusion, no lost wake-up, a key that is wanted does not stay free.
* Accounts: live nodes stay listed, silent ones are dropped in time, a record is removed in time and
  never while it names somebody.
* Core API: each app that starts is set up, exactly once per container, with the state its
  predecessor was torn down with.
* CRI: no worker runs that no sandbox lists; an image is downloaded once at a time and is there when
  a container needs it; an exit code is final; each pod sees a runtime of its own.
* Crosslink: each caller gets one answer, to its own call; a registered path is refused only when
  nobody runs who could answer; calls between programs that live do not stay open.
* Node directory: nobody is listed on old word; who publishes is known and stays known.
* Three objects: a deleted object stays deleted; no view goes back in time; views settle.

---

## 2. The modules

```
 KeyedLock  <==refines==  UniqueSet  <--  UniqueSet_proofs
                          (lock of the KVS wrappers)

 PodRecord  <-  ContainerRuntime  <-  PodSystem  <-  PodSystem_proofs
 (record)       (one pod's runtime)   (everybody)
                     ^^                   ==refines==>  PodLifecycle
                  refines
                     ||
                    Cri  <-  Cri_proofs
                    (the runtime of a page: all pods, images, workers, timers)

 AppSession     <--  AppSession_proofs   (an app's ready / setup / teardown, across moves)

 Rpc  <==refines==  Crosslink  <--  Crosslink_proofs   (calls between page, node and apps)

 Account        <--  Account_proofs
 NodeDirectory  <--  NodeDirectory_proofs   (positions of nodes)
 ThreeObjects   <--  ThreeObjects_proofs    (an object from the app to the scenes that show it)
```

`MC*` modules hold only names and constants for TLC. Operators under a comment that begins with
"Defect:" are mistakes a change of the code could make; no action uses them. The mutants in
`PROJECT.json` put one in the place of the definition after it, to see that the property named there
notices.

### UniqueSet, KeyedLock

`misc.UniqueSet`: a set of keys, a mutex and one condition variable for all keys. `keys` is the set;
`pc[t]` tells whether goroutine `t` wants the mutex, sleeps in `cond.Wait`, or is between `Insert`
and `Remove`. One action per stretch of code under the mutex. *KeyedLock* says what callers rely on:
a key has one owner. `UniqueSet` implements it with `owner` = the goroutine inside.

### PodRecord, ContainerRuntime

*PodRecord* is the record of `api/core/pod.go` reduced to what controllers decide on: the deletion
mark, the target and the running node, and per container its id and which parts of its status are
filled (timestamps, exit codes and reasons become "set or not"). `Valid` is the part of
`Pod.Validate` that depends on these. *ContainerRuntime* gives the effects of the CRI calls on one
pod's sandbox and containers (`src/cri.ts`). A container that is told to stop goes on until its app
ends or `containerStopTimeout` has passed (`stopping`).

### PodSystem

The main model. One pod, several nodes, and on them three kinds of goroutines:

| Kind | Code | Actions |
|---|---|---|
| `Users` | handlers of the frontend | `Create`, `Migrate`, `Delete`, `DeleteMarks`, `DeleteReturns`, `Cleanup`, `CleanupClears` |
| `Holders` | `Manager.Start`'s loop on a node that may hold the record | `Tick`, `DealRemove`, `DealDeleting`, `DealSchedule`, `DealHandover`, `DealReconcile`, `DealTimeout`, … |
| `Reconcilers` | the handler of a reconcile message | `Enter`, `GetFails`, `ReconcileElsewhere`, `ReconcileTerminate`, `ReconcileRun`, `SandboxRefused`, `PullImages`, `StartContainer`, `StartFails`, `Teardown`, `UpdateInfo`, `Remove`, `Leave`, … |

`proc[p]` is a goroutine's place in the code and its *copy* of the record. A step is what happens
between two points at which another goroutine can be seen: KVS calls, calls to the runtime (they go
to another thread), the mutex of `reconcileStates`. `UpdateCheck` and `UpdateSet` are the two KVS
calls in `kvs.Update`. On every path out of `Reconcile`, `Leave` is its deferred function.
`StartContainer` is the creation, the driver, the listing and the start of a container without a
mishap, in one step: nobody else deals with a container before the reconcile that makes it is over.
`StartFails` is the same call when the listing or the start fails, and leaves a container that is
created and never started. `local[n]` is the node's `reconcileState`, `cri[n]` its runtime,
`drivers[n]` the ids with a core driver, `msgs` the reconcile messages under way (a set: two
messages for a node do what one does, because the second finds the first one's reconcile or does
nothing new).

*Faults.* `MaxFaults` bounds the calls that fail, `DealTimeout` among them, after which the message
may still arrive; `MaxCrashes` the pages that are closed (`NodeLeaves`: everything in memory is
gone, the KVS is not); `MaxExits` the apps that exit by themselves. A goroutine that dereferences
nil takes the node's program down (`NodePanics`): its goroutines are gone and nobody restarts it, but
the page goes on, and the containers in it.

*Timing.* How far writers may overlap is a constant, and a property is claimed for the weakest one
that it needs:

* `"free"`: any writer may begin at any moment.
* `"long ticks"`: a holder's tick begins only when what was begun earlier is over: no message is
  under way, no reconcile and no update is going on (`Quiet`). Ticks come three seconds apart and a
  reconcile is a few KVS calls, so this is the usual case, and the code does not enforce it: a slow
  KVS breaks it, and so does a reconcile that pulls an image for longer than three seconds. A
  container that is still stopping is no obstacle to a tick, as its timer runs for ten seconds.
  Users begin at any moment.
* `"turns"`: users wait for the same.

That is where the code's own protection ends: with `"free"` writers the cluster does run a container
twice and loses handovers (section 5), so what the system promises can only be stated
under one of the others.

### PodLifecycle

What users of the cluster see: a pod is nowhere, at one node, or gone; containers run only at that
node; it moves or goes only when none runs. `PodSystem` with `"turns"` implements it; `place` is the
record's running node and `live` the runtimes' running containers.

### AppSession

The core API. Here the pod is followed from node to node, and the detail is in its apps: a worker
that waits for its program (`loading`), one whose program has been started and is not bound to the
crosslink yet (`starting`), then `serving`, `exited`, `gone`. `ready[c]` is the goroutine of the
ready handler with what it has read so far. `saved` is the record of the apps' states, `kept` (a
history variable) the state each app was torn down with. A state is the amount of work done, `Works`
adds to it. Users and the holder come between reconciles (how writers race is PodSystem's subject),
but apps and the ready handler run at any time against a reconcile.

Two steps count as *hasty* and are bounded: a user's call or tick that comes while an app is still
being loaded, set up or stopped (seconds), and a ready handler that reads the pod's record before
the reconcile that started its container has written it. Nothing in the code forbids either.
Properties that need their absence say so; what happens otherwise is described in section 5.

### Account

Account records, keep-alive and expiry with time. `now` counts ticks; `keepDue` and `dealDue` are
the manager's tickers; a manager is one goroutine, so it does one thing at a time (`mgr[n].pc`). A
keep-alive reads, merges and writes each record in some order of a Go map (`KeepAliveGet`,
`KeepAliveSet`, any `acc \in todo`). `Deal` is `GetResources`, `DealRecord` the controller's
`DealLocalResource` for one of them, with its log. A record may move to another holder
(`HolderMoves`), nodes leave and come, calls fail, and a copy may be written over a newer one
(counted in `used`). The maps of pods and of nodes in a record work alike and are one map of keys.

### Cri

The runtime of a page as `src/cri.ts` keeps it, with the pods' reconciles as its clients, one at a
time for a pod (`client[p]`). `sandboxes`, `containers` and `images` are the three maps; `sandbox`,
`container` and `image` the objects, which may live on after they have left their map: whoever waits
for an image keeps its object, and a worker's message finds its container. A container's `worker`
goes from `loading` to `running`, posts its end (`finishing`), and idles until a timer frees it; the
two timers are fields. An image counts its `fetches` that have not settled. `RunPodSandbox`,
`CreateContainer`, … are the calls, `OnReady`, `OnFinished`, `KillTimer`, `CleanupTimer` and
`FetchEnds` come from the browser at any moment, and `Terminate` is the end of the runtime when the
page finds a newer version of the site. `StopPodSandbox` and `RemoveImage` are called by nobody but
tests; they are modelled as calls that may come at any time.

`FollowsRuntime` is the bridge to `ContainerRuntime`: seen from one pod (`ViewOf`), every step of the
page is one of the steps that PodSystem takes a runtime to do, or nothing.

### Rpc, Crosslink

*Rpc* is what a caller relies on: a call is served at most once, and its answer is the one its
handler gave, or a refusal if it was not served. *Crosslink* shows how: two Crosslinks share the
messages of each worker (`toPage`, `toWorker`), `pageWaits` and `waits` are their tables `waitings`,
`cbMap` and `rwMap` those of the Go program and of GoInterfaceHandler, `handling` the goroutines that
serve. `PageForwardsToApp` and `PageForwardsToNode` are the two forwarders of `cri.ts`. Paths are
sequences of their parts, with the `leaf` that multiplexers leave in the tags; the tables of paths
(`PageFuncs`, `NodeFuncs`, `AppFuncs`, `WorkerFuncs`) are those the code registers. A worker's
program is `loading`, `bound` (its handler is there and its crosslink is not), `serving`, `exited`,
and its worker may be `gone`; `GoExits`, `CleanUp` and `RemoveContainer` may come at any moment.

### ThreeObjects

One object, the app that has it (`cmd/app/fox`: its loop and its teardown run against each other),
the calls of its API on its home node, the record in the KVS, and on each node the goroutines of
`ReceiveSpreadEvent` and the view of the page. `call[t]` is a call's place in the code; `lock[n]`
the key of the object in the node's `UniqueSet`. `events`, `got` and `queue` are the three places
where a change of the object may be on its way to a view: spread messages and goroutines that have
not read the record, records read, and messages to the page. A map view collects changes until it
draws (`Draw`), an XR view acts at once and keeps the entities it has removed. Versions count the
writes, so that going back can be seen. `Near[p]` and `Wide[p]` are who is reached from position `p`
by a change (1000 m) and by a deletion (2000 m); the object may move to any position. A deletion is
spread around the position that the controller has just read, which the model keeps as `kvs.pos`.

Nodes may end here: `Gets` of an object that is not there, `Throws` when a page has no handler yet or
is told to remove an XR entity twice. The properties speak of the nodes that go on.

### NodeDirectory

Each node's map of the others (`nodes`), with the age of each record and, as history, the age of
what it says and whether its node has been silent since. `Tick` is the ticker of the controller,
cleanup before publishing; messages are late, overtake each other, and are lost. `Elapse` lets a unit
of time pass, unless a message has reached `MaxDelay` or a goroutine is later than `MaxLate`. The
sending message handler and `ReceivePublishingNode` are one step.

---

## 3. What is checked

All runs finish within four minutes on two workers. "Mishaps" are faults, exits, crashes and cleanups
of unknown pods.

| Run | Instance | Distinct states | Shows |
|---|---|---|---|
| `unique_set` | 3 goroutines, 2 keys | 250 | `NoLostWakeup`, `ImplementsLock`; under fairness a wanted key is served (`KeyIsServed`) |
| `pod_turns` | 2 nodes, 2 containers, `turns`, 2 migrations, 1 deletion, 1 exit | 21,876 | `ImplementsLifecycle`, `TerminationKept`, `HandoverKept`; under fairness `MigrationCompletes`, `DeleteCompletes` |
| `pod_long_ticks` | 2 nodes, 1 container, 2 reconcilers and a user on each, `long ticks`, 2 migrations, 1 deletion | 41,905 (by symmetry) | `OneLiveInstance`, `LiveIsRecorded`, `PanicsAtSecondTeardown` |
| `pod_races` | 2 nodes, 2 containers (one with the null driver), 3 reconcilers, `free`, one node refuses the pod, 1 call of a user, 1 mishap of any kind | 226,807 (by symmetry) | `ReconcileAlone`, `SandboxTracked`, `RecordValid`, and `Coherent`, the inductive invariant of the proofs |
| `account` | 2 nodes and 2 pods, one without an owner, 1 account, periods of 1, 7 units of time, 1 event | 1,349,444 | `LogsOrdered`, `LiveListed`, `SilentUnlisted`, `SilentRemoved`, `OnlyEmptyRemoved` |
| `app_session` | 2 containers, 2 moves, 1 deletion, 1 mishap | 88,789 | `StateCarried`, `InitializedFirst`; under fairness `MoveCompletes`, `AppIsSetUp` |
| `cri` | 2 pods with 1 container each, of the same image, 4 ids, 1 failed download, 1 removed image | 125,602 | `NoOrphans`, `OneDownload`, `NeverWithoutImage`, `ExitIsFinal`, `FollowsRuntime`; under fairness `PullEnds` |
| `crosslink` | a page, its node and 1 app, 8 calls between each two of them | 457,543 | `ImplementsRpc`, `NoLeftovers`, `RightRefusals`; under fairness `CallsAnswered` |
| `objects` | 2 nodes (XR at home, a map that the object leaves), 3 positions, 1 update, 2 faults | 335,642 | `DeletedStaysDeleted`, `SceneForward`; under fairness `SceneSettles` |
| `node_directory` | 2 nodes, interval 2, lifetime 6, delays and lateness of 1, every second message lost | 391,588 | `ListFresh`, `NeighbourStays`; under fairness `Announced` |
| `pod_delete_unstarted`, `pod_slow_stop` | 2 nodes, 1 container | end in a violation | `DeleteEnds`, `MigrationWaits`: findings 1 and 2 of section 5 |

### Why the bounds are enough

* *Nodes.* Two nodes are the one a pod leaves and the one it goes to. With two migrations it comes
  back, so old entries and sandboxes meet the new ones. A third node would only be another one the
  pod is not at.
* *Goroutines.* Two reconcilers per node are needed for one to meet another's flag; one that finds
  the flag set returns. One holder: a record has one holder at a time. `pod_long_ticks` has users of
  both nodes, since the lock is per node.
* *Containers.* Two, when "all terminated" must differ from "one terminated".
* *Calls and mishaps.* Each is bounded by its own constant. `pod_races` allows one call of a user
  and one mishap together (`OneCallAndOneMishap`, a state constraint; the run checks only
  invariants); what its invariants say is proved without bounds. A second deletion is like the
  first.
* `MaxIds` bounds the sandboxes and containers that are ever made. Without writers' races the bound
  is above what the calls of a run can need (a sandbox and the containers per stay); in `pod_races`
  it stops a pod from being bounced between nodes for ever by stale writes.
* *Account.* Periods and lifetimes are 1, the least at which everything can expire; seven units of
  time are enough for a record to be written, to fall silent, lose its keys, and be removed at the
  last permitted moment. One holder change, node change or failure, and one overwritten record.
* *AppSession.* `MaxData` = 1 tells a lost state from a kept one. Two moves: lose the state at the
  first, see it at the second.
* *Cri.* Two pods are what an image can be shared by; one of them may be made again, so that old
  timers and messages meet new containers. Two image objects: one that is waited for after it has
  left its map, and its successor.
* *Crosslink.* One app: workers only meet in the page. The calls are one for each kind of path: boot
  and end of a worker, an app's call to its node and one to a path that is not forwarded, the node's
  to the app, to the page with an answer that waits (`pullImage`), and the page's to both. Ids are the
  least free ones, so they are in use again at once.
* *ThreeObjects.* The viewer is within reach of both kinds of message at first. The update leaves it
  behind with the deletion still reaching it, or so far that nothing does any more; two faults lose a
  message and fail a read or a call.
* *NodeDirectory.* A unit is 15 s: 30 s and 90 s as in the code. With two nodes each is the other's
  neighbour; a record of a third would not depend on the first two.

Deadlock is not checked where `CHECK_DEADLOCK FALSE` is given: a deleted pod leaves nothing to do,
and users need not call again.

### Fairness

Weak fairness of every goroutine that can go on: tickers tick, a handler that has a message runs, a
call of a user that has begun is carried on (Go schedules runnable goroutines; colonio answers or
fails). A container that was told to stop ends, at the latest by its timer. In `UniqueSet` a
goroutine that holds a key gives it back (callers defer `Remove`), and one that is awake gets the
mutex; the order in which sleepers get the key is not fair, so it is not claimed that each gets it.
In `Cri` downloads settle and intervals fire (the stop timers need no fairness for what is claimed);
in `Crosslink` event loops deliver messages, goroutines run and a `pullImage` is answered (`PullEnds`
of `Cri`), but no program has to start or end; in `ThreeObjects` calls of the KVS end, what is sent
arrives or is lost, and a map draws; in `NodeDirectory` time goes on and with it what is due. In
`AppSession` programs are loaded, started and bound, and calls to a serving app are answered.
Nobody is forced to create, move or delete a pod, to exit, to fail or to leave; liveness runs
therefore hold whatever users do within the bounds.

### What the liveness properties excuse

`TeardownMissed` and `Missed`: an app exits in the short time between being listed and being asked
to tear down. Then the reconcile never ends (the call has no time limit,
`node/apis/core/driver.go:73`) or the program panics (`driver.go:103` reads a field of an answer
that is nil). `TeardownMissed` also excuses a program that panics in the second teardown of a
container that is slow to stop, which is finding 2; without that excuse `MigrationCompletes` is
`MigrationWaits`, which does not hold. `DeleteCompletes` speaks of started containers and
`MigrationCompletes` of a started pod; what happens otherwise is finding 1. `CallsAnswered` excuses
the callers and the callees that have stopped; its instance has no call that comes between the load
of an app and its crosslink (section 5). `RightRefusals` speaks of calls to an app that come after a
call of its program (`Timely`): setup follows `ready`, but a teardown may come while the program is
still being loaded, and then it is refused. `SceneSettles` excuses views that lost a message or
failed to read, which nothing repeats, a home node that ends between a write and its message, and,
of a deleted object, views that are then more than 2000 m from it: the deletion is not spread so
far, and they keep the object though they missed nothing (section 5). All properties of `Account`
but two excuse disturbed runs (`Undisturbed`).

---

## 4. What is proved

Proofs are in `*_proofs.tla`, for all values of the constants that satisfy the modules' assumptions.
No assumption is made beyond those the modules declare (`PodRecordAssumption`, `NoPodAssumption`,
`PodSystemAssumption`, `AccountAssumption`, `CriAssumption`, `ThreeObjectsAssumption`,
`NodeDirectoryAssumption`, `AppSessionAssumption`, `CrosslinkAssumption`, `PathAssumption`,
`NoneAssumption`, and that of `UniqueSet`). `ThreeObjectsAssumption` says of the object's movement
only that what is within 1000 m of a position is within 2000 m of it. `PathAssumption` says that
nobody calls a path that goes on behind a registered function of a Go program, for which the program
ends itself (`lib/crosslink/func_handler.go:46`); no caller in the repository does.
`CrosslinkAssumption` says that the page calls workers only, and that calls and the refusal differ
from the marks `"idle"` and `"open"`; the first and the last call of an app's worker are its own.
The bounds (`MaxFaults`, …) are any natural numbers.

**PodSystem_proofs.** `CoherentInductive`: `Coherent` holds initially and is preserved by each step,
with any number of nodes, containers and goroutines and any timing. From it: `TypeCorrect`,
`ReconcilesAlone`, `SandboxesTracked`, `RecordsValid`, `LiveHaveDrivers`.
The last has no run of its own, as `Coherent`, which the runs check, contains it.

None of those is inductive by itself. That a node has at most one reconcile of the pod needs the
flag to be set exactly while there is one, which needs that an entry that is to be deleted is
deleted by the goroutine that holds the flag, at its very end (`GoodEntry`). That a sandbox is
always known needs, besides, that whoever sets `willDelete` has removed it, and that goroutines
which are about to create containers see a sandbox. That a live container has a driver needs ids to
be unique and smaller than the next one (`GoodRuntime`). That records are valid needs each copy
about to be written to be valid (`GoodProcess`). The four speak of each other, so they are one
invariant.

The proof follows the actions. `NodeStep` and `RecordStep` say once what a step must establish if it
changes one node's parts, or none; lemmas of the form `…Keeps` do the actions of users, holders,
reconciles, dying nodes and ending containers; the theorem puts them together by the disjuncts of
`Next`.

The rest of what is proved about a pod depends on when its writers write, or on what goes wrong, so
these theorems have a hypothesis on the constants:

| theorem | states | if |
|---|---|---|
| `OneInstance` | `OneLiveInstance` | `Timing # "free"` |
| `LiveAreRecorded` | `LiveIsRecorded` | `Timing # "free"`, `MaxCleanups = 0` |
| `FirstTeardownsAreSafe` | `PanicsAtSecondTeardown` | `MaxFaults = 0`, `MaxExits = 0`, any `Timing` |
| `LifecycleImplemented` | `ImplementsLifecycle` | `Timing = "turns"`, `MaxCleanups = 0` |
| `EndsAreKept` | `TerminationKept` | `Timing = "turns"`, `MaxFaults = 0` |
| `HandoversAreKept` | `HandoverKept` | `Timing = "turns"`, `MaxFaults = 0` |

What a hypothesis excludes is what makes the property false: with `"free"` ticks a container runs
twice and handovers are taken back (section 5); `Cleanup` removes a record whatever runs; a container that
has exited while a teardown is about to ask it, or one whose start failed halfway, brings the node
down. Where there is none, any number of nodes, crashes, commands, failures and exits is covered;
the runs have at most two nodes.

The invariant is `Placed` (`PlacedInductive`, `Timing # "free"`). The pod is *in place* at a node if
a message asks that node to reconcile, a reconcile of that node runs, or a container of the pod
lives there. `OnePlace`: there is one such node. That needs `CopiesPlaced`: as long as there is, the
record and every copy of it that a goroutine still holds names this node, so whoever writes last
cannot move the pod. A holder may clear the node only when all containers have ended, hence
`NoneEnded` (no copy says that of a container that lives or is about to be started) and `SameEnds`
(until a reconcile has read the record, all copies agree on what has ended); and it sends the pod
elsewhere only after that, hence `DealsAlone` (while it decides nobody reconciles and no other copy
contradicts its own, which is what `"long ticks"` buys). The other parts are small: users have
copies only while they update, a node that is down does nothing, there is no copy before the
creation.

`LiveAreRecorded` adds `Kept`: while the pod is in place or a holder decides, there is a record.
`FirstTeardownsAreSafe` does not need `Placed`: its invariant is `Coherent` with `TornDown`. No
container is half made, what has been told to stop or has ended has lost its driver, and what a
teardown is still to ask runs or has exited. So a container that is met without a driver has been
torn down before, whenever the reconciles come. That a second teardown does panic is finding 2. With
`"turns"`, `InTurn` says that a user's update has the pod to itself and that a holder decides about
what the record says now; `Ordered` then makes each write a step of `PodLifecycle`. `EndsKept`, of
copies to be written for the node that the record names, is what keeps an end that has been
recorded, and `LastsKept`, of all copies, what keeps a handover: nobody else has a copy when one is
written.

**UniqueSet_proofs.** `Exclusion` and `WakeupsAreKept` for any number of goroutines and keys, from
an invariant that says that a key is in the set exactly if somebody is inside with it and that a
sleeper's key is held; and `Implementation`: each step is one of the lock's or leaves its owners
alone.

**Account_proofs.** `TypeCorrect`, `LogsAreOrdered` and `NothingListedIsRemoved`, of any run. The last says that
a record that a node drops because of its age names nobody, whatever copy the node has in hand,
however old its log, as long as `ResourceLifetime <= AccountLifetime`. It follows from the order of
timestamps in a log: a key that is left was refreshed at most `ResourceLifetime` ago, so the log did
not change longer than `AccountLifetime` ago.

The bounds in time have a hypothesis on the periods, which the code's constants meet by far:

| theorem | states | if |
|---|---|---|
| `AliveAreListed` | `LiveListed` | `KeepAlivePeriod <= ResourceLifetime` (30 s, 180 s) |
| `SilentAreUnlisted` | `SilentUnlisted` | `DealPeriod <= 2 * AccountLifetime` (3 s, 1200 s) |
| `SilentAreRemoved` | `SilentRemoved` | `DealPeriod <= 2 * AccountLifetime` |

`LiveInv` says why a node stays listed. No ticker of a running manager is overdue (`Clock`), the
node's entry is as young as its ticker (`Fresh`), and no log has seen an entry before it was written
(`Stamps`): so whoever deals with the record finds the entry expired only after the ticker has fired
again. While a keep-alive is on its way the entry is as young only if the node has already written
its own account (`Wrote`, `Tasks`).

`SilentInv` follows a record to the node that deals with it next, at `NextDeal` at the latest.
Either that is within a `DealPeriod` of the last write, or of the move to this holder, or the
holder's log has already seen what was written, in time, and found it not yet expired when it dealt
with it last: for one entry `Watched`, for the record as a whole `Judged`. Others may still deal
with copies of a record that has moved away (`Hands`, `Copies`); such a copy differs from the record
only by what was written at this very moment. The hypothesis keeps the log: a holder with many
records drops the log of one that it has not dealt with for two lifetimes (`Cleaned`), and would
begin to count again.

**Cri_proofs.** `RuntimeInductive` gives an invariant `IInv`, from which `NothingIsOrphaned`,
`DownloadsAreSingle`, `ImagesAreSupplied`, `ExitsAreFinal` and `RuntimeIsFollowed` follow. Its parts:

* `BoxInv`: sandboxes and containers name each other in both directions, and a reconcile works on the
  sandbox of its own pod. `NoOrphans` alone is not inductive: the step that removes a sandbox stops
  the containers *it* lists, so every container must be listed by the sandbox it names.
* `ImageInv`: an image that is being downloaded is the one its url leads to, with one fetch under
  way. That is what makes a second pull of the url find it, whatever came before. Once the node's
  program has ended nobody pulls any more.
* `SupplyInv`: while no image has been removed, what a reconcile has still to make has an image that
  is there, is still to be pulled, or is the one it waits for. The pull is over long before the
  container is made, so the invariant has to carry this through all steps between.
* `Lives` (in `BoxInv`): what has an exit code has exited and its worker does nothing more, so that
  no late message or timer can write a second one.

`RuntimeIsFollowed` proves the bridge to `ContainerRuntime`, one lemma per kind of step. It needs one
more invariant, `OneEach`: a pod has at most one sandbox, which `runPodSandbox` guards by looking for
a duplicate. With it, and as the names in a sandbox differ, the view of a pod is a function of its
sandbox's containers (`ViewIs`), a step on one container changes the view at one name (`OneSeen`),
and a step on a sandbox or container of another pod changes nothing (`ViewUnchanged`). What remains
is that the container's step is one that `ContainerRuntime` has: a stop is seen only of a running
container (what is only created has no worker to tell, `Lives`), and what a timer ends after the
container has exited is not seen at all.

**ThreeObjects_proofs.** `KeysInductive` and `DeletionLasts`. A call holds the object's key exactly
from its check of the record to its write, and no other call runs before the create is over; hence
no update that has seen the object can write after its deletion. Positions, nodes and faults are
arbitrary.

`OrderInductive` and `ViewsGoForward` follow a version on its way: what the view shows, what it is
about to show, what is queued for its page, what the goroutine that holds the key has read, and the
record are in order. Notices of a change may overtake each other, since all they do is start a
goroutine that reads; the reads cannot, because each holds the key from its read until its result
is queued, which `KeysInductive` supplies.

**NodeDirectory_proofs.** `BoundsInductive` and `ListsAreFresh`. That a listed node has been heard
of lately is not inductive, because a record grows older with every unit of time. It is once the age
of each record is bounded by the lifetime and the time since the list was last cleaned up, and
messages by their delay: the bound of `ListFresh` is the lifetime, an interval and the two delays.

`LossesInductive` and `NeighboursStay` are the converse: a neighbour is listed as long as not too
many of its messages are lost in a row. Whether a record is too old depends on what is still on its
way, in any order, so the invariant counts: the age of a record is bounded by the number of messages
lost in a row and of those that fly, and with each message that flies by the number of those as old
as it or older. One that is delivered resets the age, one that is lost raises the count, and a tick
of the sender makes room for one more; hence the oldest one on its way, or the next to be sent,
arrives before the lifetime is over.

**AppSession_proofs.** `SessionInductive`, `InitializedOnce` and `StatesAreCarried`. Neither property
is inductive: the state of an app is with the app, in a reconcile's copy, in the record of states and
in the ready handler, one after the other. The invariant says where it is at each moment
(`StateKept`, `Stored`), and why nobody comes between:

* while a reconcile runs, its copy of the pod's record differs from the record only in the containers
  it has started (`CopyInv`), and between them they know the id of each app (`IdKnown`), so the ready
  handler finds its container;
* as long as nothing came early, no app is being loaded or set up while the pod moves or is deleted
  (`TimelyInv`), so the app that is torn down has been set up, and the record that the ready handler
  has read is still the one of its pod;
* of a clean run, the state is in the reconcile's copy during a teardown and in the record of states
  otherwise, unless the pod is deleted or the reconcile has missed an app.

**Crosslink_proofs.** `CallsInductive`, `AnswersItsOwn`, `NothingIsLeft` and `RefusalsAreRight`, for any number of apps and
calls, programs that start, exit and are terminated at any time, and event loops in any order. A call
passes through up to four tables (`cbMap` of the program, `waitings` of its worker, those of the page,
`rwMap` of the program that serves it), each with ids of its own, so its identity is only kept by
what leads from one to the next. The invariant has three parts, beside the
shape of the tables (`Tables`):

* `UpQueues`, `DownQueues`: in a queue a message is known by its type and id. An id is fresh if the
  table lacks it, whatever the queue holds; that no old message bears it is a part of `Tokens`.
* `Waitings`: each entry leads back to one open call, by way of the tables before it, and no two lead
  to the same (`GoCalls`, `OwnCalls`, `PageCalls`, `Forwardings`).
* `Tokens`: for a waiting of a worker there is at most one of the call on its way up, a download, a
  forwarding and a reply on its way down; for one of the page at most one of the call on its way
  down, a held writer and a reply on its way up. Each knows the call, and whether it was served.
  `ImplementsRpc` follows: whoever serves a call holds the one thing that stands for it, and a
  reply's answer is that of the call it removes.

A termination or an exit takes things away and never adds one, which is why none of this needs
the worker to live (`LossStep`); it is also why a call may stay without an answer (section 5).

`RefusalsAreRight` needs to know where refusals come from. `Routed` says that each message is where
it was meant to be: a call on its way down is at the worker it is meant for and has a leaf that this
worker serves or a path that its Go program does (the leaf changes on the way, the path must not be
lost); and each refusal, on its way or arrived, is `Over`: no route leads to its path, or the
program has stopped for good. `Begun` says how far a program is by the calls made so far, so that a
timely call does not find it still loading. That a refusal stays right while it travels takes
`CallsInductive`: the waiting it is for is known to be the same call's until it arrives.

**Only model-checked.** Every invariant and action property of the passing runs is stated by a
theorem, and so are the refinements of `PodLifecycle`, `KeyedLock` and `Rpc`. What is left is
liveness: `KeyIsServed`, `DeleteCompletes`, `MigrationCompletes`, `MoveCompletes`, `AppIsSetUp`,
`PullEnds`, `CallsAnswered`, `SceneSettles` and `Announced` hold under
fairness, which is beyond the prover, and stay with TLC. Type correctness (`TypeOK`) is not a property of
the runs but the first conjunct of the invariants that are proved.

---

## 5. What was found

The first two are runs whose counterexample TLC prints.

1. **A pod deleted before its containers start is never removed** (`pod_delete_unstarted`,
   `node/controller/pod.go:75`). The holder drops a marked record if it has no running node or all
   containers are Terminated. If the pod was scheduled and marked before the first reconcile, that
   reconcile finds no container and says Unknown, never Terminated; no later one changes that, and
   `Delete` polls for ever. `node/controller/pod.test.go:165`: "require deletion if deletion
   timestamp is set and container does not start". For the same reason a pod that is moved before
   its containers start never gets away.
2. **A container that is slow to stop brings its node down** (`pod_slow_stop`, `C:378`). Its driver is
   destroyed as soon as it has been told to stop, but it is listed as running until it exits or its timer
   of ten seconds fires (`src/cri.ts:25`, `158`). The next tick comes after three seconds
   (`node/manager.go:54`), and its teardown calls a method of a nil interface. A container
   without the core runtime always takes the ten seconds; so the pod, deleted or moved, ends its
   node's program and never arrives, however far apart writers are and although nothing fails.
   `node/apis/core/handler/handler.go:140` expects that the driver may be missing; `letTerminate`
   does not. `PanicsAtSecondTeardown` says that this is the only panic there is without mishaps.

The next five were counterexamples of earlier runs; the properties of the runs that remain state
what holds around them.

* A container may run on two nodes (`node/kvs/pod.go:101`), with `Timing = "free"`. A user's Migrate
  reads a pod that is not scheduled yet, and as it has no running node sets that too
  (`node/controller/pod.go:239`). The holder schedules the pod to its creator, a reconcile starts
  there, and then the user's copy is written over the record. It names the target as the running
  node, without a handover, and the target starts the containers that the creator runs
  (`OneLiveInstance`).
* A handover may be taken back (the same line), with `Timing = "free"`. A second reconcile of the old
  node reads the record before the handover and writes its status after it: the running node is the
  old one again, and the statuses are those from before the reset (`HandoverKept`). If the next node
  has started its containers meanwhile, they run on without a record that names their node, as
  holders only send messages to the one that is named.
* A pod that returns to a node does not start there (`C:457`). If its containers ended by themselves
  it is handed over without a reconcile on its old node, whose sandbox stays. When the pod comes back
  the exited containers there are taken for the pod's, found not to match the record, and the sandbox
  is removed but not forgotten by the entry: all later reconciles fail.
* A node may vanish from its account because of a pod it could not read (`node/manager.go:137`). A
  reconcile whose Get fails leaves an entry with an empty owner. `keepAlive` tries to write the record
  of "", which is refused, and returns without the accounts that come later in map order, possibly
  its own. (`LiveListed` excuses such nodes.)
* A moved app may lose its state (`handler.go:72`). The ready handler looks for the container's id in
  the pod's record. The reconcile writes it only after all containers were started; an app that is
  ready earlier is initialized as if new. (`StateCarried` excuses hasty calls.)

Seen in the code or in traces while the models were built, not claimed by a run:

* The holder's call for a deleted pod has no time limit (`pod.go:79`, compare the TODO at 113): one
  node that does not answer stops its ticker, and with it keep-alives.
* `Update` tests existence and sets in two calls; a record removed in between comes back
  (`node/kvs/pod.go:93-101`).
* A pod whose containers have all ended is removed while its sandbox is still on the running node
  (`pod.go:74-76`), and so is its record of states in the record KVS.
* With `long ticks` a Delete's stale write can undo the scheduling of a new pod; the pod is
  scheduled again.
* Migrating back before the handover leaves a pod whose containers are terminated and which nobody
  restarts (the TODOs at `pod.go:89` and `108`).
* A tick spends up to ten seconds per unreachable node; with enough of them keep-alives come later
  than 180 s and a live node is unlisted. `Account` assumes short ticks (`Punctual`).
* Two keep-alives of an account, or a keep-alive and the holder's Set, may overwrite each other; the
  entry returns with the next keep-alive.
* A teardown that comes before the app's setup overwrites the saved state by an empty one.
* `recordKvs.Set` may fail after the apps were torn down (`C:400`): their states are lost.
* A call that reaches a worker between the load of its program and its crosslink is never answered
  (`src/crosslink.ts:326`); one that comes before is refused, and one after the program has exited
  gets an exception for an answer. A call for a listed container that has been cleaned up is not
  answered either (`src/cri.ts:314`).
* `listNode` replies a second time after an error (`node/frontend/handler/resource.go:92`). The ready
  handler replies after a failed `ListPodSandbox` and goes on to read the list that it did not get
  (`node/apis/core/handler/handler.go:59-61`), which is nil. `createPod` answers with an
  error after the pod has been created (`resource.go:142`).
* Two pods of the same name, of different owners, cannot be on one node: the second sandbox is
  refused (`src/cri.ts:681`) at every tick.
* Nodes end where an object is missing: `Get` and `Delete` dereference nil
  (`node/controller/three/object.go:131`, `149`), and the loop of fox asks for its object once more
  after its teardown; an object created before the node has a position does so too
  (`node/apis/three/handler/handler.go:37`).
* A view answers with an error to a spread event before it is open (`src/main.ts:146-165`: the node is
  connected and publishes before `UI_MAP.init` or `UI_XR.init`), and an XR view to the second deletion
  of an object (`src/ui/xr.ts:123`); either answer is a `log.Fatalf` in the node
  (`node/frontend/driver/frontend.go:67`).
* An object that is deleted stays on a view that is more than 2000 m away by then
  (`node/controller/three/object.go:157`). The object of the example app drifts without limit
  (`cmd/app/fox/main.go:163`), and a view is told nothing when it leaves the 1000 m within which
  changes are spread. (`SceneSettles` excuses such views.)
* Objects stay when the pod or the node that made them goes without a teardown. An update on another
  node could bring a deleted object back (`node/kvs/three/object.go:96-104`); here the app is on one
  node.
* The handlers of messages are installed after `colonio.Connect` has returned
  (`node/controller/system.go:74-81`): a message before that is lost. `terminate()` waits for the
  answer of `disconnect` before it ends the runtime (`src/main.ts:254`), which a program that has
  ended never gives.

---

## 6. What is not covered, and the plan

Abstracted everywhere: the contents of names, images, URLs and timestamps other than their order,
logging, JSON, the user interface. External and modelled from how it is used: colonio (reads and
writes of a key are atomic, messages may be lost or late, a record may move). Not modelled because
it keeps no state or is not the system's own logic: the seed (`seed/`), screens and maps (`src/ui`),
templates, tools and example applications, test doubles.

Not modelled further: the seed server has no state of its own beyond the library's; the system
controller only calls colonio and `OnConnect`, whose effects are the initial states of the other
models; of the user interface only the scenes, the commands and the end of the page matter to the
rest.

Left for later, in this order:

1. **Several records on one holder**: an error ends the tick (`manager.go:103`); composing `Account`
   and pods in one manager.
2. **Start-up**: the system controller's order of Connect, handlers and first ticks, and a second
   Connect after a failed one.
3. **Objects of several apps or nodes**, whose updates race in the KVS.
