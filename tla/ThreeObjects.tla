----------------------------- MODULE ThreeObjects -----------------------------
(***************************************************************************)
(* A three-dimensional object: its record in the KVS, the app that creates, *)
(* moves and deletes it through the API of its node (cmd/app/fox), and the  *)
(* scenes in which the nodes around it show it.  A node learns of a change  *)
(* by a spread message, reads the record and tells its page to apply or to  *)
(* delete the object.                                                       *)
(*                                                                          *)
(* The Go programs are js/wasm: a goroutine gives way to others only where  *)
(* it waits, for the KVS or for a key of UniqueSet. An answer of a call     *)
(* reaches the app with the step that ends the call.                        *)
(***************************************************************************)
EXTENDS Naturals, Sequences

CONSTANTS
    Nodes, Home,      \* the app runs on Home
    XrNodes,          \* the nodes that show an XR view instead of the map
    Positions, Start, \* Start: the position of Home
    Near, Wide,       \* per position: the nodes within 1000 m and 2000 m of it
    MaxUpdates, MaxFaults \* faults: calls of the KVS that fail, messages that are lost

ASSUME ThreeObjectsAssumption ==
    /\ Home \in Nodes /\ XrNodes \subseteq Nodes /\ Start \in Positions
    /\ Near \in [Positions -> SUBSET Nodes] /\ Wide \in [Positions -> SUBSET Nodes]
    /\ \A p \in Positions : Near[p] \subseteq Wide[p]
    /\ {MaxUpdates, MaxFaults} \subseteq Nat

VARIABLES
    kvs,      \* the record of the object
    alive,    \* nodes whose Go program runs
    app,      \* the app: how far it is, and whether it knows the object's uuid
    call,     \* per goroutine of the app: its call of the API
    lock,     \* per node: who has the object's key in progressing
    events,   \* per node: spread messages on their way, and goroutines of
              \* ReceiveSpreadEvent that have not read yet
    got,      \* per node: records read and not yet told to the page
    queue,    \* per node: messages to the page
    page,     \* per node: the view
    missed,   \* nodes that have lost a message or failed to read
    used      \* how much of each bound is used

vars == <<kvs, alive, app, call, lock, events, got, queue, page, missed, used>>

(* Versions count the writes: 1 is that of Create. The pos of a record that *)
(* has been deleted is the one its deletion is spread around.               *)
NoRecord == [state |-> "none", version |-> 0, pos |-> Start]
Exists(r) == r.state = "live"

Records == [state : {"none", "live", "deleted"}, version : Nat, pos : Positions]

(* loop() of fox, and its Setup and Teardown. *)
Threads == {"main", "loop"}

Idle == [op |-> "none", step |-> "idle", pos |-> Start, from |-> Start]

Calls ==
    [op : {"none", "create", "get", "update", "delete"},
     step : {"idle", "sleep", "get", "getting", "write", "check", "set", "spread"},
     pos : Positions, from : Positions]

(* The page opens its view after the node has connected. The map view       *)
(* collects what to do for the next frame; the XR view keeps the entities   *)
(* it has removed.                                                          *)
Page == [open : BOOLEAN, applying : Nat, deleting : BOOLEAN, shown : Nat,
         entity : {"none", "in", "out"}]

TypeOK ==
    /\ kvs \in Records /\ alive \subseteq Nodes
    /\ app \in [phase : {"new", "setup", "running", "torn", "ended"}, known : BOOLEAN]
    /\ call \in [Threads -> Calls]
    /\ lock \in [Nodes -> {"free", "event"} \cup Threads]
    /\ events \in [Nodes -> Nat]
    /\ got \in [Nodes -> SUBSET Records]
    /\ queue \in [Nodes -> Seq(Nat)]
    /\ page \in [Nodes -> Page]
    /\ missed \subseteq Nodes
    /\ used \in [{"updates", "faults"} -> Nat]

Init ==
    /\ kvs = NoRecord /\ alive = Nodes
    /\ app = [phase |-> "new", known |-> FALSE]
    /\ call = [t \in Threads |-> Idle]
    /\ lock = [n \in Nodes |-> "free"]
    /\ events = [n \in Nodes |-> 0]
    /\ got = [n \in Nodes |-> {}] /\ queue = [n \in Nodes |-> <<>>]
    /\ page = [n \in Nodes |-> [open |-> FALSE, applying |-> 0, deleting |-> FALSE,
                                shown |-> 0, entity |-> "none"]]
    /\ missed = {}
    /\ used = [b \in {"updates", "faults"} |-> 0]

Spend(b, bound) == used[b] < bound /\ used' = [used EXCEPT ![b] = @ + 1]

HomeRuns == Home \in alive

EventsUnchanged == UNCHANGED <<events, got, queue, page, missed>>

-----------------------------------------------------------------------------
(* The app *)

Called(op, p) == [op |-> op, step |-> IF op = "create" THEN "write" ELSE "get",
                  pos |-> p, from |-> Start]

(* Setup: initObject; the node fills its own position in. *)
Setup ==
    /\ app.phase = "new" /\ HomeRuns
    /\ app' = [app EXCEPT !.phase = "setup"]
    /\ call' = [call EXCEPT !["main"] = Called("create", Start)]
    /\ EventsUnchanged /\ UNCHANGED <<kvs, alive, lock, used>>

(* start: the loop runs whether the object could be created or not. *)
StartLoop ==
    /\ app.phase = "setup" /\ call["main"] = Idle
    /\ app' = [app EXCEPT !.phase = "running"]
    /\ EventsUnchanged /\ UNCHANGED <<kvs, alive, call, lock, used>>

(* Once the loop has found that it is not cancelled it sleeps, and goes on  *)
(* though it is cancelled then.                                             *)
LoopSleeps ==
    /\ app.phase = "running" /\ call["loop"] = Idle
    /\ Spend("updates", MaxUpdates)
    /\ call' = [call EXCEPT !["loop"].step = "sleep"]
    /\ EventsUnchanged /\ UNCHANGED <<kvs, alive, app, lock>>

LoopWakes ==
    /\ call["loop"].step = "sleep" /\ HomeRuns
    /\ call' = [call EXCEPT !["loop"] = IF app.phase = "ended" THEN Idle ELSE Called("get", Start)]
    /\ EventsUnchanged /\ UNCHANGED <<kvs, alive, app, lock, used>>

(* Teardown to finalize. *)
Teardown ==
    /\ app.phase = "running" /\ HomeRuns
    /\ app' = [app EXCEPT !.phase = "torn"]
    /\ call' = [call EXCEPT !["main"] = IF app.known THEN Called("delete", Start) ELSE Idle]
    /\ EventsUnchanged /\ UNCHANGED <<kvs, alive, lock, used>>

(* The program exits after Teardown. What the node does for it goes on.     *)
AppExits ==
    /\ app.phase = "torn" /\ call["main"] = Idle
    /\ app' = [app EXCEPT !.phase = "ended"]
    /\ EventsUnchanged /\ UNCHANGED <<kvs, alive, call, lock, used>>

-----------------------------------------------------------------------------
(* The API of the home node and its wrapper of the KVS *)

(* What the KVS has under the uuid the app gives. *)
Read == IF app.known THEN kvs ELSE NoRecord

Holds(t) == lock[Home] = t
Released == [lock EXCEPT ![Home] = "free"]

Goes(t, step) == [call EXCEPT ![t].step = step]
Returns(t) == [call EXCEPT ![t] = Idle]

(* progressing.Insert: for the controller's Get, and for Create, Update and *)
(* Delete, which keep the key from the check to the write (Delete does not  *)
(* check).                                                                  *)
TakesKey(t) ==
    /\ HomeRuns /\ lock[Home] = "free"
    /\ call[t].step \in {"get", "write"}
    /\ lock' = [lock EXCEPT ![Home] = t]
    /\ call' = Goes(t, IF call[t].step = "get" THEN "getting"
                       ELSE IF call[t].op = "delete" THEN "set" ELSE "check")
    /\ EventsUnchanged /\ UNCHANGED <<kvs, alive, app, used>>

(* A goroutine that dereferences nil, or calls log.Fatal, ends the program. *)
Dies(n) == alive' = alive \ {n}

(* The controller's Get: Update looks whether there is an object, Get and   *)
(* Delete take it for granted. When fox has the object it updates it with   *)
(* the position moved.                                                      *)
Gets(t) ==
    /\ HomeRuns /\ Holds(t) /\ call[t].step = "getting"
    /\ lock' = Released
    /\ \/ /\ ~ Exists(Read)
          /\ call' = Returns(t)
          /\ IF call[t].op = "update" THEN UNCHANGED alive ELSE Dies(Home)
       \/ /\ Exists(Read) /\ call[t].op = "get"
          /\ \E p \in Positions :
                call' = [call EXCEPT ![t] = IF app.phase = "ended" THEN Idle
                                            ELSE Called("update", p)]
          /\ UNCHANGED alive
       \/ /\ Exists(Read) /\ call[t].op \in {"update", "delete"}
          /\ call' = [call EXCEPT ![t] = [@ EXCEPT !.step = "write", !.from = Read.pos]]
          /\ UNCHANGED alive
    /\ EventsUnchanged /\ UNCHANGED <<kvs, app, used>>

(* Defect: Update writes whatever it has found. *)
ChecksNothing(t) ==
    /\ HomeRuns /\ Holds(t) /\ call[t].step = "check"
    /\ call' = Goes(t, "set") /\ UNCHANGED lock
    /\ EventsUnchanged /\ UNCHANGED <<kvs, alive, app, used>>

(* objectKVS: Create writes if there is nothing, Update if there is.        *)
Checks(t) ==
    /\ HomeRuns /\ Holds(t) /\ call[t].step = "check"
    /\ IF Exists(kvs) = (call[t].op = "update")
       THEN call' = Goes(t, "set") /\ UNCHANGED lock
       ELSE call' = Returns(t) /\ lock' = Released
    /\ EventsUnchanged /\ UNCHANGED <<kvs, alive, app, used>>

Sets(t) ==
    /\ HomeRuns /\ Holds(t) /\ call[t].step = "set"
    /\ kvs' = IF call[t].op = "delete"
              THEN [kvs EXCEPT !.state = "deleted", !.pos = call[t].from]
              ELSE [state |-> "live", version |-> kvs.version + 1, pos |-> call[t].pos]
    /\ lock' = Released
    /\ call' = Goes(t, "spread")
    /\ EventsUnchanged /\ UNCHANGED <<alive, app, used>>

(* Defect: the deletion is spread no further than a change. *)
ReachedNear(c) == IF c.op = "delete" THEN Near[c.from] ELSE Near[c.pos]

(* A deletion reaches further than the changes did, around the position the *)
(* controller has read.                                                     *)
Reached(c) == IF c.op = "delete" THEN Wide[c.from] ELSE Near[c.pos]

(* SpreadObject, a direct ReceiveSpreadEvent, which the message does not    *)
(* cause on its own node, and the answer.                                   *)
Spreads(t) ==
    /\ HomeRuns /\ call[t].step = "spread"
    /\ events' = [n \in Nodes |->
          IF n \in Reached(call[t]) \cup {Home} THEN events[n] + 1 ELSE events[n]]
    /\ app' = [app EXCEPT !.known = @ \/ call[t].op = "create"]
    /\ call' = Returns(t)
    /\ UNCHANGED <<kvs, alive, lock, got, queue, page, missed, used>>

(* A call of the KVS fails, for the record of the pod or of the object: an  *)
(* error for the app, which fox goes on after (but for a Get, when it uses  *)
(* the object it has not got and panics itself).                            *)
CallFails(t) ==
    /\ HomeRuns /\ call[t].step \in {"get", "getting", "check", "set"}
    /\ Spend("faults", MaxFaults)
    /\ lock' = IF Holds(t) THEN Released ELSE lock
    /\ call' = Returns(t)
    /\ app' = IF call[t].op = "get" THEN [app EXCEPT !.phase = "ended"] ELSE app
    /\ EventsUnchanged /\ UNCHANGED <<kvs, alive>>

-----------------------------------------------------------------------------
(* ReceiveSpreadEvent on every node *)

AppUnchanged == UNCHANGED <<app, call>>

(* SpreadPost promises nothing. *)
Lost(n) ==
    /\ n # Home /\ events[n] > 0
    /\ Spend("faults", MaxFaults)
    /\ events' = [events EXCEPT ![n] = @ - 1]
    /\ missed' = missed \cup {n}
    /\ AppUnchanged /\ UNCHANGED <<kvs, alive, lock, got, queue, page>>

(* Defect: Get does not wait for the key. *)
EventReadsAnyway(n) ==
    /\ n \in alive /\ events[n] > 0
    /\ lock' = [lock EXCEPT ![n] = "event"]
    /\ events' = [events EXCEPT ![n] = @ - 1]
    /\ got' = [got EXCEPT ![n] = @ \cup {kvs}]
    /\ AppUnchanged /\ UNCHANGED <<kvs, alive, queue, page, missed, used>>

(* A message has arrived and started its goroutine, sooner or later; that   *)
(* has the key of objectKVS.Get, and the KVS reads the record.              *)
EventReads(n) ==
    /\ n \in alive /\ events[n] > 0 /\ lock[n] = "free"
    /\ lock' = [lock EXCEPT ![n] = "event"]
    /\ events' = [events EXCEPT ![n] = @ - 1]
    /\ got' = [got EXCEPT ![n] = @ \cup {kvs}]
    /\ AppUnchanged /\ UNCHANGED <<kvs, alive, queue, page, missed, used>>

Delete == 0
Message(r) == IF Exists(r) THEN r.version ELSE Delete

(* The record arrives; the key is released and the page told to apply or to *)
(* delete the object, before another goroutine runs.                        *)
EventTells(n, r) ==
    /\ n \in alive /\ r \in got[n]
    /\ got' = [got EXCEPT ![n] = @ \ {r}]
    /\ lock' = [lock EXCEPT ![n] = "free"]
    /\ queue' = [queue EXCEPT ![n] = Append(@, Message(r))]
    /\ AppUnchanged /\ UNCHANGED <<kvs, alive, events, page, missed, used>>

EventFails(n, r) ==
    /\ n \in alive /\ r \in got[n]
    /\ Spend("faults", MaxFaults)
    /\ got' = [got EXCEPT ![n] = @ \ {r}]
    /\ lock' = [lock EXCEPT ![n] = "free"]
    /\ missed' = missed \cup {n}
    /\ AppUnchanged /\ UNCHANGED <<kvs, alive, events, queue, page>>

-----------------------------------------------------------------------------
(* The page *)

Map(n) == n \notin XrNodes

(* applyObjects *)
Applied(n, v) ==
    IF Map(n) THEN [page[n] EXCEPT !.applying = v]
    ELSE IF page[n].entity = "out" THEN page[n]
    ELSE [page[n] EXCEPT !.entity = "in", !.shown = v]

(* deleteObjects *)
Removed(n) ==
    IF Map(n) THEN [page[n] EXCEPT !.applying = 0, !.deleting = TRUE]
    ELSE IF page[n].entity = "in" THEN [page[n] EXCEPT !.entity = "out", !.shown = 0]
    ELSE page[n]

(* The view opens (UI_MAP.init and its map, or UI_XR.init): until then the  *)
(* page has no handlers, though connect() has made the node reachable.      *)
ViewOpens(n) ==
    /\ ~ page[n].open
    /\ page' = [page EXCEPT ![n].open = TRUE]
    /\ AppUnchanged
    /\ UNCHANGED <<kvs, alive, lock, events, got, queue, missed, used>>

(* There is no handler, or no scene yet, or an entity is removed a second   *)
(* time: the node gets an error for an answer and ends with log.Fatal.      *)
Throws(n, m) ==
    \/ ~ page[n].open
    \/ m = Delete /\ ~ Map(n) /\ page[n].entity = "out"

PageHandles(n) ==
    LET m == Head(queue[n]) IN
        /\ queue[n] # <<>>
        /\ queue' = [queue EXCEPT ![n] = Tail(@)]
        /\ IF Throws(n, m) THEN Dies(n) /\ UNCHANGED page
           ELSE /\ page' = [page EXCEPT ![n] = IF m = Delete THEN Removed(n) ELSE Applied(n, m)]
                /\ UNCHANGED alive
        /\ AppUnchanged /\ UNCHANGED <<kvs, lock, events, got, missed, used>>

Drawn(v) ==
    [v EXCEPT !.shown = IF v.deleting THEN 0 ELSE IF v.applying # 0 THEN v.applying ELSE v.shown,
              !.applying = 0, !.deleting = FALSE]

(* onDraw of the map view. *)
Draw(n) ==
    /\ page[n].applying # 0 \/ page[n].deleting
    /\ page' = [page EXCEPT ![n] = Drawn(@)]
    /\ AppUnchanged
    /\ UNCHANGED <<kvs, alive, lock, events, got, queue, missed, used>>

-----------------------------------------------------------------------------
AppStep == Setup \/ StartLoop \/ LoopSleeps \/ LoopWakes \/ Teardown \/ AppExits

CallStep(t) == TakesKey(t) \/ Gets(t) \/ Checks(t) \/ Sets(t) \/ Spreads(t)

EventStep(n) == EventReads(n) \/ \E r \in got[n] : EventTells(n, r)

Next ==
    \/ AppStep
    \/ \E t \in Threads : CallStep(t) \/ CallFails(t)
    \/ \E n \in Nodes :
        \/ Lost(n)
        \/ EventStep(n) \/ (\E r \in got[n] : EventFails(n, r))
        \/ ViewOpens(n) \/ PageHandles(n) \/ Draw(n)

Spec == Init /\ [][Next]_vars

(* The KVS answers, goroutines run, a key that is released is taken by each *)
(* that waits for it, what is sent arrives or is lost, the page draws. The  *)
(* app may be torn down, or not.                                            *)
Fairness ==
    /\ \A t \in Threads : WF_vars(CallStep(t))
    /\ \A n \in Nodes :
        /\ WF_vars(EventStep(n))
        /\ WF_vars(PageHandles(n)) /\ WF_vars(Draw(n))

FairSpec == Spec /\ Fairness

-----------------------------------------------------------------------------
(* Properties *)

(* An object that has been deleted is not brought back by an update that    *)
(* was under way (the KVS knows no deletion: it sets nil, and any set would *)
(* bring the record back).                                                  *)
DeletedStaysDeleted == [][kvs.state = "deleted" => kvs'.state = "deleted"]_vars

(* No view goes back to an older version of the object: messages arrive in  *)
(* any order and each starts a goroutine, but the reads of a key follow one *)
(* another and are told to the page in their order.                         *)
SceneForward ==
    [][\A n \in Nodes :
          page[n].shown # 0 /\ page'[n].shown # 0 => page'[n].shown >= page[n].shown]_vars

(* What a view shows in the end: an object near it as it is, and none that  *)
(* is deleted, though the object may have moved since the view got it. Only *)
(* views within 2000 m of where the controller last saw the object are told *)
(* of its deletion: one that it has left farther behind may keep it.        *)
UpToDate(n) ==
    /\ kvs.state = "none" => page[n].shown = 0
    /\ kvs.state = "deleted" /\ n \in Wide[kvs.pos] => page[n].shown = 0
    /\ kvs.state = "live" /\ n \in Near[kvs.pos] => page[n].shown = kvs.version

(* A view that has lost nothing comes to that, unless the home node ended   *)
(* between a write and its message, or the node itself has ended.           *)
SceneSettles == <>[](HomeRuns => \A n \in alive \ missed : UpToDate(n))
==============================================================================
