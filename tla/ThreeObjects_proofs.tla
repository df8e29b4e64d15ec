-------------------------- MODULE ThreeObjects_proofs --------------------------
(***************************************************************************)
(* Proofs about ThreeObjects for any set of nodes and positions: what the  *)
(* key of the object is held for, that a deletion lasts, and that no view  *)
(* goes back in time.                                                      *)
(***************************************************************************)
EXTENDS ThreeObjects, TLAPS

LEMMA Constants == Home \in Nodes /\ Start \in Positions
BY ThreeObjectsAssumption DEF ThreeObjectsAssumption

USE Constants

TypesOK ==
    /\ kvs \in Records
    /\ app \in [phase : {"new", "setup", "running", "torn", "ended"}, known : BOOLEAN]
    /\ call \in [Threads -> Calls]
    /\ lock \in [Nodes -> {"free", "event"} \cup Threads]
    /\ got \in [Nodes -> SUBSET Records]

(* A call has the key exactly in the steps in which it needs it. *)
KeyHeld == \A t \in Threads : call[t].step \in {"getting", "check", "set"} <=> Holds(t)

(* Which call does which steps. *)
StepOfOp(c) ==
    /\ c.step = "check" => c.op \in {"create", "update"}
    /\ c.step \in {"write", "set"} => c.op \in {"create", "update", "delete"}
    /\ c.step \in {"get", "getting"} => c.op \in {"get", "update", "delete"}

(* Between the check and the write of an update the object exists. *)
UpdateSees(c) == c.step = "set" /\ c.op = "update" => Exists(kvs)

(* The main goroutine calls in Setup and in Teardown, and the loop between   *)
(* them; a create that has not written yet is the first write.              *)
Creates(c) == c.op = "create" /\ c.step \in {"write", "check", "set"}

CreateFirst ==
    /\ app.phase = "new" => call["main"] = Idle /\ kvs.state = "none"
    /\ app.phase = "setup" => call["main"].op \in {"none", "create"}
    /\ app.phase = "running" => call["main"] = Idle
    /\ app.phase \in {"new", "setup"} => call["loop"] = Idle
    /\ ~ Creates(call["loop"])
    /\ Creates(call["main"]) => app.phase = "setup" /\ kvs.state = "none"

(* A goroutine that has read the record and not told the page has the key,  *)
(* and is the only one.                                                     *)
EventReading ==
    \A n \in Nodes : /\ got[n] # {} => lock[n] = "event"
                     /\ \A r, q \in got[n] : r = q

CallsOK == \A t \in Threads : StepOfOp(call[t]) /\ UpdateSees(call[t])

IInv == TypesOK /\ KeyHeld /\ EventReading /\ CreateFirst /\ CallsOK

(* Steps of messages, pages and views, which have nothing to do with keys.  *)
LEMMA OthersKeep ==
    ASSUME IInv, UNCHANGED <<kvs, app, call, lock, got>>
    PROVE  IInv'
BY DEF IInv, TypesOK, KeyHeld, Holds, EventReading, CreateFirst, Creates, CallsOK,
       StepOfOp, UpdateSees, Exists

(* A goroutine of ReceiveSpreadEvent takes the key of its node. *)
LEMMA EventReadsKeeps ==
    ASSUME IInv, NEW n \in Nodes, EventReads(n)
    PROVE  IInv'
<1> USE DEF IInv, EventReads, AppUnchanged
<1>1. TypesOK'
  BY DEF TypesOK
<1>2. KeyHeld'
  BY DEF TypesOK, KeyHeld, Holds, Threads
<1>3. EventReading'
  BY DEF TypesOK, EventReading
<1>4. CreateFirst' /\ CallsOK'
  BY DEF CreateFirst, Creates, CallsOK, StepOfOp, UpdateSees, Exists
<1> QED
  BY <1>1, <1>2, <1>3, <1>4

(* It gives the key back, whatever became of its reading. *)
LEMMA EventEnds ==
    ASSUME IInv, NEW n \in Nodes, NEW r \in got[n], UNCHANGED <<kvs, app, call>>,
           got' = [got EXCEPT ![n] = @ \ {r}], lock' = [lock EXCEPT ![n] = "free"]
    PROVE  IInv'
<1> USE DEF IInv
<1>1. TypesOK'
  BY DEF TypesOK
<1>2. KeyHeld'
  BY DEF TypesOK, KeyHeld, Holds, Threads, EventReading
<1>3. EventReading'
  BY DEF TypesOK, EventReading
<1>4. CreateFirst' /\ CallsOK'
  BY DEF CreateFirst, Creates, CallsOK, StepOfOp, UpdateSees, Exists
<1> QED
  BY <1>1, <1>2, <1>3, <1>4

(* The steps of the app begin and end calls, and touch no key. *)
LEMMA AppStepKeeps ==
    ASSUME IInv, AppStep
    PROVE  IInv'
<1> USE DEF IInv, EventsUnchanged
<1>1. TypesOK' /\ UNCHANGED <<kvs, lock, got>>
  BY DEF TypesOK, AppStep, Setup, StartLoop, LoopSleeps, LoopWakes, Teardown, AppExits,
         Calls, Called, Idle, Threads
<1>2. \A t \in Threads :
          \/ call'[t] = call[t]
          \/ call[t].step \in {"idle", "sleep"} /\ call'[t].step \in {"idle", "sleep", "get", "write"}
  BY DEF TypesOK, AppStep, Setup, StartLoop, LoopSleeps, LoopWakes, Teardown, AppExits,
         Calls, Called, Idle, Threads, CreateFirst
<1>3. KeyHeld'
  BY <1>1, <1>2 DEF KeyHeld, Holds
<1>4. EventReading'
  BY <1>1 DEF EventReading
<1>5. CreateFirst'
  BY DEF TypesOK, AppStep, Setup, StartLoop, LoopSleeps, LoopWakes, Teardown, AppExits,
         Calls, Called, Idle, Threads, CreateFirst, Creates
<1>6. CallsOK'
  BY <1>1 DEF TypesOK, AppStep, Setup, StartLoop, LoopSleeps, LoopWakes, Teardown, AppExits,
         Calls, Called, Idle, Threads, CallsOK, StepOfOp, UpdateSees, Exists
<1> QED
  BY <1>1, <1>3, <1>4, <1>5, <1>6

(* A step of a call that writes nothing, and takes or gives back the key as *)
(* the call's next step wants.                                              *)
LEMMA CallKeeps ==
    ASSUME IInv, NEW t \in Threads, NEW c \in Calls,
           UNCHANGED <<kvs, app, got>>, call' = [call EXCEPT ![t] = c], call[t] # Idle,
           lock' \in [Nodes -> {"free", "event"} \cup Threads],
           \A n \in Nodes \ {Home} : lock'[n] = lock[n],
           lock[Home] \in {"free", t}, lock'[Home] \in {"free", t},
           c.step \in {"getting", "check", "set"} <=> lock'[Home] = t,
           StepOfOp(c), UpdateSees(c), Creates(c) => Creates(call[t]),
           call[t].op = "create" => c.op \in {"none", "create"}, call[t].op # "none"
    PROVE  IInv'
<1> USE DEF IInv
<1>1. TypesOK'
  BY DEF TypesOK
<1>2. KeyHeld'
  BY DEF TypesOK, KeyHeld, Holds, Threads
<1>3. EventReading'
  BY DEF TypesOK, EventReading, Threads
<1>4. CreateFirst'
  BY DEF TypesOK, CreateFirst, Creates, Threads
<1>5. CallsOK'
  BY DEF TypesOK, CallsOK, StepOfOp, UpdateSees, Exists
<1> QED
  BY <1>1, <1>2, <1>3, <1>4, <1>5

(* A call gets the key. *)
LEMMA TakesKeyKeeps ==
    ASSUME IInv, NEW t \in Threads, TakesKey(t)
    PROVE  IInv'
<1> DEFINE s == IF call[t].step = "get" THEN "getting"
                ELSE IF call[t].op = "delete" THEN "set" ELSE "check"
           c == [call[t] EXCEPT !.step = s]
<1>1. /\ UNCHANGED <<kvs, app, got>> /\ lock[Home] = "free" /\ lock' = [lock EXCEPT ![Home] = t]
      /\ call' = [call EXCEPT ![t] = c]
  BY DEF TakesKey, EventsUnchanged, Goes
<1>2. call[t] \in Calls /\ call[t].step \in {"get", "write"} /\ s \in {"getting", "set", "check"}
  BY DEF TakesKey, IInv, TypesOK
<1>3. c \in Calls /\ c.step = s /\ c.op = call[t].op
  BY <1>2 DEF Calls
<1>4. StepOfOp(c) /\ UpdateSees(c) /\ call[t].op # "none"
  BY <1>2, <1>3 DEF IInv, CallsOK, StepOfOp, UpdateSees
<1>5. Creates(c) => Creates(call[t])
  BY <1>2, <1>3 DEF Creates, IInv, CallsOK, StepOfOp
<1>6. call[t] # Idle
  BY <1>2 DEF Idle
<1> HIDE DEF s, c
<1>7. /\ lock' \in [Nodes -> {"free", "event"} \cup Threads] /\ lock'[Home] = t
      /\ \A n \in Nodes \ {Home} : lock'[n] = lock[n]
  BY <1>1 DEF IInv, TypesOK
<1> QED
  BY <1>1, <1>2, <1>3, <1>4, <1>5, <1>6, <1>7, CallKeeps

(* The controller's Get gives the key back before the call goes on.         *)
LEMMA GetsKeeps ==
    ASSUME IInv, NEW t \in Threads, Gets(t)
    PROVE  IInv'
<1>1. /\ UNCHANGED <<kvs, app, got>> /\ lock[Home] = t /\ call[t].step = "getting"
      /\ lock' = [lock EXCEPT ![Home] = "free"]
  BY DEF Gets, EventsUnchanged, Holds, Released
<1>2. call[t] \in Calls /\ call[t] # Idle
  BY <1>1 DEF IInv, TypesOK, Idle
<1>3. call[t].op \in {"get", "update", "delete"}
  BY <1>1 DEF IInv, CallsOK, StepOfOp
<1>4. PICK c \in Calls :
         /\ call' = [call EXCEPT ![t] = c]
         /\ \/ c = Idle
            \/ c.step = "get" /\ c.op = "update"
            \/ c.step = "write" /\ c.op \in {"update", "delete"}
  <2>1. Idle \in Calls /\ \A p \in Positions : Called("update", p) \in Calls
    BY DEF Idle, Calls, Called
  <2>2. CASE call' = Returns(t)
    BY <2>1, <2>2 DEF Returns
  <2>3. CASE \E p \in Positions :
                call' = [call EXCEPT ![t] = IF app.phase = "ended" THEN Idle
                                            ELSE Called("update", p)]
    BY <2>1, <2>3 DEF Called
  <2>4. CASE /\ call[t].op \in {"update", "delete"}
             /\ call' = [call EXCEPT ![t] = [@ EXCEPT !.step = "write", !.from = Read.pos]]
    <3> DEFINE c == [call[t] EXCEPT !.step = "write", !.from = Read.pos]
    <3>1. Read.pos \in Positions
      BY DEF Read, NoRecord, Records, IInv, TypesOK
    <3>2. c \in Calls /\ c.step = "write" /\ c.op = call[t].op
      BY <1>2, <3>1 DEF Calls
    <3> QED
      BY <2>4, <3>2
  <2> QED
    BY <2>2, <2>3, <2>4 DEF Gets
<1>5. /\ StepOfOp(c) /\ UpdateSees(c) /\ ~ Creates(c)
      /\ c.step \notin {"getting", "check", "set"}
  BY <1>4 DEF StepOfOp, UpdateSees, Creates, Idle
<1>6. /\ lock' \in [Nodes -> {"free", "event"} \cup Threads] /\ lock'[Home] = "free"
      /\ \A n \in Nodes \ {Home} : lock'[n] = lock[n]
  BY <1>1 DEF IInv, TypesOK
<1> QED
  BY <1>1, <1>2, <1>3, <1>4, <1>5, <1>6, CallKeeps DEF Threads

(* What the check has seen holds until the write, as the key is not given   *)
(* back.                                                                    *)
LEMMA ChecksKeeps ==
    ASSUME IInv, NEW t \in Threads, Checks(t)
    PROVE  IInv'
<1> USE DEF IInv, Checks, EventsUnchanged, Returns, Goes, Released, Holds, Threads
<1>1. TypesOK'
  BY DEF TypesOK, Calls, Idle
<1>2. KeyHeld'
  BY DEF TypesOK, KeyHeld, Calls, Idle
<1>3. EventReading'
  BY DEF TypesOK, EventReading
<1>4. CreateFirst'
  BY DEF TypesOK, CreateFirst, Creates, Idle, Calls
<1>5. CallsOK'
  BY DEF TypesOK, CallsOK, StepOfOp, UpdateSees, Exists, Calls, Idle
<1> QED
  BY <1>1, <1>2, <1>3, <1>4, <1>5

(* Nobody else is between a check and a write when one writes. *)
LEMMA SetsKeeps ==
    ASSUME IInv, NEW t \in Threads, Sets(t)
    PROVE  IInv'
<1> USE DEF IInv, Sets, EventsUnchanged, Goes, Released, Holds, Threads
<1>1. TypesOK'
  <2>1. call[t].pos \in Positions /\ call[t].from \in Positions
    BY DEF TypesOK, Calls
  <2>2. [kvs EXCEPT !.state = "deleted", !.pos = call[t].from] \in Records
    BY <2>1 DEF TypesOK, Records
  <2>3. kvs' \in Records
    BY <2>1, <2>2 DEF TypesOK, Records
  <2> QED
    BY <2>3 DEF TypesOK, Calls
<1>2. KeyHeld'
  BY DEF TypesOK, KeyHeld, Calls
<1>3. EventReading'
  BY DEF TypesOK, EventReading
<1>4. CreateFirst'
  BY DEF TypesOK, CreateFirst, Creates, Idle, Calls, StepOfOp, CallsOK
<1>5. CallsOK'
  BY DEF TypesOK, CallsOK, StepOfOp, UpdateSees, KeyHeld, Calls
<1> QED
  BY <1>1, <1>2, <1>3, <1>4, <1>5

(* A call that ends after its write. *)
LEMMA SpreadsKeeps ==
    ASSUME IInv, NEW t \in Threads, Spreads(t)
    PROVE  IInv'
<1> USE DEF IInv, Spreads, Returns, Threads
<1>1. TypesOK'
  BY DEF TypesOK, Calls, Idle
<1>2. KeyHeld'
  BY DEF TypesOK, KeyHeld, Calls, Idle, Holds
<1>3. EventReading'
  BY DEF TypesOK, EventReading
<1>4. CreateFirst'
  BY DEF TypesOK, CreateFirst, Creates, Idle, Calls
<1>5. CallsOK'
  BY DEF TypesOK, CallsOK, StepOfOp, UpdateSees, Exists, Calls, Idle
<1> QED
  BY <1>1, <1>2, <1>3, <1>4, <1>5

(* A call that fails gives its key back, if it has it. *)
LEMMA CallFailsKeeps ==
    ASSUME IInv, NEW t \in Threads, CallFails(t)
    PROVE  IInv'
<1> USE DEF IInv, CallFails, EventsUnchanged, Returns, Released, Holds, Threads
<1>1. TypesOK'
  BY DEF TypesOK, Calls, Idle
<1>2. KeyHeld'
  BY DEF TypesOK, KeyHeld, Calls, Idle
<1>3. EventReading'
  BY DEF TypesOK, EventReading
<1>4. CreateFirst'
  BY DEF TypesOK, CreateFirst, Creates, Idle, Calls
<1>5. CallsOK'
  BY DEF TypesOK, CallsOK, StepOfOp, UpdateSees, Exists, Calls, Idle
<1> QED
  BY <1>1, <1>2, <1>3, <1>4, <1>5

(* The key is held from the check to the write, and a create comes first.   *)
THEOREM KeysInductive == Spec => []IInv
<1>1. Init => IInv
  BY DEF Init, IInv, TypesOK, Records, NoRecord, KeyHeld, Holds, EventReading, CreateFirst,
         Creates, CallsOK, StepOfOp, UpdateSees, Calls, Idle, Threads
<1>2. IInv /\ [Next]_vars => IInv'
  <2> SUFFICES ASSUME IInv, [Next]_vars PROVE IInv'
    OBVIOUS
  <2>1. CASE AppStep
    BY <2>1, AppStepKeeps
  <2>2. ASSUME NEW t \in Threads, CallStep(t) PROVE IInv'
    BY <2>2, TakesKeyKeeps, GetsKeeps, ChecksKeeps, SetsKeeps, SpreadsKeeps DEF CallStep
  <2>3. ASSUME NEW t \in Threads, CallFails(t) PROVE IInv'
    BY <2>3, CallFailsKeeps
  <2>4. ASSUME NEW n \in Nodes, EventReads(n) PROVE IInv'
    BY <2>4, EventReadsKeeps
  <2>5. ASSUME NEW n \in Nodes, NEW r \in got[n], EventTells(n, r) \/ EventFails(n, r)
        PROVE  IInv'
    BY <2>5, EventEnds DEF EventTells, EventFails, AppUnchanged
  <2>6. ASSUME NEW n \in Nodes, Lost(n) \/ ViewOpens(n) \/ PageHandles(n) \/ Draw(n)
        PROVE  IInv'
    BY <2>6, OthersKeep DEF Lost, ViewOpens, PageHandles, Draw, AppUnchanged
  <2>7. CASE UNCHANGED vars
    BY <2>7, OthersKeep DEF vars
  <2> QED
    BY <2>1, <2>2, <2>3, <2>4, <2>5, <2>6, <2>7 DEF Next, EventStep
<1> QED
  BY <1>1, <1>2, PTL DEF Spec

(* No call of the app brings a deleted object back, whenever it began, and  *)
(* none writes over the deletion: for all nodes, positions and faults.      *)
THEOREM DeletionLasts == Spec => DeletedStaysDeleted
<1>1. IInv /\ [Next]_vars => [kvs.state = "deleted" => kvs'.state = "deleted"]_vars
  <2> SUFFICES ASSUME IInv, Next, kvs.state = "deleted" PROVE kvs'.state = "deleted"
    BY DEF vars
  <2>1. ASSUME NEW t \in Threads, Sets(t) PROVE kvs'.state = "deleted"
    <3>1. call[t].step = "set" /\ call[t].op = "delete"
      BY <2>1 DEF Sets, IInv, CallsOK, StepOfOp, UpdateSees, Exists, CreateFirst, Creates, Threads
    <3> QED
      BY <2>1, <3>1 DEF Sets, IInv, TypesOK, Records
  <2>2. ASSUME NEW t \in Threads,
               TakesKey(t) \/ Gets(t) \/ Checks(t) \/ Spreads(t) \/ CallFails(t)
        PROVE  kvs' = kvs
    BY <2>2 DEF TakesKey, Gets, Checks, Spreads, CallFails
  <2>3. CASE AppStep
    BY <2>3 DEF AppStep, Setup, StartLoop, LoopSleeps, LoopWakes, Teardown, AppExits
  <2>4. ASSUME NEW n \in Nodes,
               \/ Lost(n) \/ EventReads(n) \/ ViewOpens(n) \/ PageHandles(n) \/ Draw(n)
               \/ \E r \in got[n] : EventTells(n, r) \/ EventFails(n, r)
        PROVE  kvs' = kvs
    BY <2>4 DEF Lost, EventReads, ViewOpens, PageHandles, Draw, EventTells, EventFails
  <2> QED
    BY <2>1, <2>2, <2>3, <2>4 DEF Next, CallStep, EventStep
<1> QED
  BY <1>1, KeysInductive, PTL DEF Spec, DeletedStaysDeleted

-----------------------------------------------------------------------------
(* That no view goes back follows from the order of all versions that are   *)
(* on their way to it.                                                      *)

(* v is no newer than what a node is yet to learn of. *)
NotAhead(n, v) == v <= kvs.version /\ \A r \in got[n] : v <= r.version

(* Each message of the queue is newer than v, or deletes. *)
NewerQueued(n, v) == \A i \in 1 .. Len(queue[n]) : v <= queue[n][i] \/ queue[n][i] = Delete

(* Versions are in order from what a view shows, by what it is going to     *)
(* draw, the messages to the page in their order and the record that is     *)
(* read to the record as it is.                                             *)
InOrder(n) ==
    /\ NotAhead(n, page[n].shown) /\ NewerQueued(n, page[n].shown)
    /\ NotAhead(n, page[n].applying) /\ NewerQueued(n, page[n].applying)
    /\ page[n].shown <= page[n].applying \/ page[n].applying = 0
    /\ Map(n) \/ page[n].applying = 0
    /\ \A i \in 1 .. Len(queue[n]) : NotAhead(n, queue[n][i])
    /\ \A i, j \in 1 .. Len(queue[n]) :
          i < j => queue[n][i] <= queue[n][j] \/ queue[n][j] = Delete
    /\ \A r \in got[n] : r.version <= kvs.version

ViewTypes == queue \in [Nodes -> Seq(Nat)] /\ page \in [Nodes -> Page]

VInv == ViewTypes /\ \A n \in Nodes : InOrder(n)

LEMMA ReadTypes ==
    ASSUME IInv, NEW n \in Nodes
    PROVE  /\ kvs.version \in Nat /\ got[n] \subseteq Records
           /\ \A r \in got[n] : r.version \in Nat
BY DEF IInv, TypesOK, Records

LEMMA PageTypes ==
    ASSUME VInv, NEW n \in Nodes
    PROVE  /\ page[n] \in Page /\ page[n].shown \in Nat /\ page[n].applying \in Nat
           /\ queue[n] \in Seq(Nat) /\ Len(queue[n]) \in Nat
           /\ \A i \in 1 .. Len(queue[n]) : queue[n][i] \in Nat
<1>1. page[n] \in Page /\ queue[n] \in Seq(Nat)
  BY DEF VInv, ViewTypes
<1> QED
  BY <1>1 DEF Page

(* The home node writes, or does nothing that views see. *)
LEMMA WritesKeepOrder ==
    ASSUME IInv, IInv', VInv, UNCHANGED <<got, queue, page>>, kvs.version <= kvs'.version
    PROVE  VInv'
<1>1. ViewTypes'
  BY DEF VInv, ViewTypes
<1>2. ASSUME NEW n \in Nodes PROVE InOrder(n)'
  <2>1. \A v \in Nat : NotAhead(n, v) => NotAhead(n, v)'
    <3>1. kvs.version \in Nat /\ kvs'.version \in Nat
      BY DEF IInv, TypesOK, Records
    <3> QED
      BY <3>1 DEF NotAhead
  <2>2. \A v \in Nat : NewerQueued(n, v) => NewerQueued(n, v)'
    BY DEF NewerQueued
  <2>3. \A r \in got'[n] : r.version <= kvs'.version
    <3>1. \A r \in got[n] : r.version <= kvs.version
      BY DEF VInv, InOrder
    <3>2. kvs.version \in Nat /\ kvs'.version \in Nat
      BY DEF IInv, TypesOK, Records
    <3> QED
      BY <3>1, <3>2, ReadTypes
  <2> QED
    BY <2>1, <2>2, <2>3, PageTypes DEF VInv, InOrder
<1> QED
  BY <1>1, <1>2 DEF VInv

(* A read has the newest version, and no other read is under way. *)
LEMMA ReadsKeepOrder ==
    ASSUME IInv, VInv, NEW n \in Nodes, EventReads(n)
    PROVE  VInv'
<1>1. got[n] = {} /\ got'[n] = {kvs} /\ \A m \in Nodes \ {n} : got'[m] = got[m]
  BY DEF EventReads, IInv, EventReading, TypesOK
<1>2. UNCHANGED <<kvs, queue, page>>
  BY DEF EventReads
<1>3. ViewTypes'
  BY <1>2 DEF VInv, ViewTypes
<1>4. ASSUME NEW m \in Nodes PROVE InOrder(m)'
  <2>1. \A v : NotAhead(m, v) => NotAhead(m, v)'
    BY <1>1, <1>2 DEF NotAhead
  <2>2. \A v : NewerQueued(m, v) => NewerQueued(m, v)'
    BY <1>2 DEF NewerQueued
  <2>3. \A r \in got'[m] : r.version <= kvs.version
    <3>1. \A r \in got[m] : r.version <= kvs.version
      BY DEF VInv, InOrder
    <3>2. kvs.version <= kvs.version
      BY ReadTypes
    <3> QED
      BY <1>1, <3>1, <3>2
  <2> QED
    BY <1>2, <2>1, <2>2, <2>3 DEF VInv, InOrder
<1> QED
  BY <1>3, <1>4 DEF VInv

(* What is read goes to the end of the queue, or is dropped. *)
LEMMA TellsKeepOrder ==
    ASSUME IInv, VInv, NEW n \in Nodes, NEW r \in got[n],
           EventTells(n, r) \/ EventFails(n, r)
    PROVE  VInv'
<1>1. UNCHANGED <<kvs, page>> /\ got' = [got EXCEPT ![n] = @ \ {r}]
  BY DEF EventTells, EventFails
<1>2. \A m \in Nodes : got'[m] \subseteq got[m]
  BY <1>1 DEF IInv, TypesOK
<1>3. PICK add \in {<<>>, <<Message(r)>>} :
         /\ queue'[n] = queue[n] \o add
         /\ \A m \in Nodes \ {n} : queue'[m] = queue[m]
         /\ queue' \in [Nodes -> Seq(Nat)]
  <2>1. Message(r) \in Nat
    BY ReadTypes DEF Message, Delete
  <2>2. CASE EventTells(n, r)
    <3>1. queue'[n] = queue[n] \o <<Message(r)>>
      BY <2>2, PageTypes DEF EventTells, VInv, ViewTypes
    <3> QED
      BY <2>1, <2>2, <3>1 DEF EventTells, VInv, ViewTypes
  <2>3. CASE EventFails(n, r)
    <3>1. queue'[n] = queue[n] \o <<>>
      BY <2>3, PageTypes DEF EventFails
    <3> QED
      BY <2>3, <3>1 DEF EventFails, VInv, ViewTypes
  <2> QED
    BY <2>2, <2>3
<1>4. ViewTypes'
  BY <1>1, <1>3 DEF VInv, ViewTypes
<1>5. ASSUME NEW m \in Nodes, NEW v, NotAhead(m, v) PROVE NotAhead(m, v)'
  BY <1>1, <1>2, <1>5 DEF NotAhead
<1>6. ASSUME NEW m \in Nodes, m # n PROVE InOrder(m)'
  <2>1. queue'[m] = queue[m]
    BY <1>3, <1>6
  <2> QED
    BY <1>1, <1>2, <1>5, <2>1 DEF VInv, InOrder, NewerQueued
<1>7. InOrder(n)'
  <2>0. PICK q, s : q = queue[n] /\ s = queue'[n]
    OBVIOUS
  <2>1. /\ \A i \in 1 .. Len(s) :
              \/ i \in 1 .. Len(q) /\ s[i] = q[i]
              \/ i \notin 1 .. Len(q) /\ i = Len(q) + 1 /\ s[i] = Message(r)
        /\ Len(q) \in Nat /\ Len(s) \in Nat
    <3>1. q \in Seq(Nat) /\ Len(q) \in Nat
      BY <2>0, PageTypes
    <3>2. CASE add = <<>>
      <4>1. s = q
        BY <1>3, <2>0, <3>2, <3>1
      <4> QED
        BY <3>1, <4>1
    <3>3. CASE add = <<Message(r)>>
      <4>1. /\ s = Append(q, Message(r)) /\ Message(r) \in Nat
        BY <1>3, <2>0, <3>1, <3>3, ReadTypes DEF Message, Delete
      <4>2. Len(s) = Len(q) + 1 /\ (\A i \in 1 .. Len(q) : s[i] = q[i]) /\ s[Len(q) + 1] = Message(r)
        BY <3>1, <4>1
      <4> QED
        BY <3>1, <4>2
    <3> QED
      BY <3>2, <3>3
  <2>2. \A v : NotAhead(n, v) => v <= Message(r) \/ Message(r) = Delete
    BY DEF NotAhead, Message
  <2>3. NotAhead(n, Message(r))'
    <3>1. \A o \in got[n] : o = r
      BY DEF IInv, EventReading
    <3>2. r.version <= kvs.version /\ r.version \in Nat /\ kvs.version \in Nat
      BY ReadTypes DEF VInv, InOrder
    <3>3. got'[n] = {}
      BY <1>1, <3>1 DEF IInv, TypesOK
    <3> QED
      BY <1>1, <3>2, <3>3 DEF NotAhead, Message, Delete
  <2>4. \A v : NotAhead(n, v) /\ NewerQueued(n, v) => NewerQueued(n, v)'
    BY <2>0, <2>1, <2>2 DEF NewerQueued
  <2>5. \A i \in 1 .. Len(s) : NotAhead(n, s[i])'
    <3>1. \A i \in 1 .. Len(q) : NotAhead(n, q[i])
      BY <2>0 DEF VInv, InOrder
    <3> QED
      BY <1>5, <2>1, <2>3, <3>1
  <2>6. ASSUME NEW i \in 1 .. Len(s), NEW j \in 1 .. Len(s), i < j
        PROVE  s[i] <= s[j] \/ s[j] = Delete
    <3>1. i \in 1 .. Len(q) /\ s[i] = q[i]
      BY <2>1, <2>6
    <3>2. CASE j \in 1 .. Len(q) /\ s[j] = q[j]
      BY <2>0, <2>6, <3>1, <3>2 DEF VInv, InOrder
    <3>3. CASE s[j] = Message(r)
      <4>1. NotAhead(n, q[i])
        BY <2>0, <3>1 DEF VInv, InOrder
      <4> QED
        BY <2>2, <3>1, <3>3, <4>1
    <3> QED
      BY <2>1, <3>2, <3>3
  <2>7. \A o \in got'[n] : o.version <= kvs.version
    BY <1>2 DEF VInv, InOrder
  <2> QED
    BY <1>1, <1>5, <2>0, <2>4, <2>5, <2>6, <2>7 DEF VInv, InOrder, Map
<1> QED
  BY <1>4, <1>6, <1>7 DEF VInv

(* What a page does: it has a new view of the same queue, or of its tail.   *)
LEMMA PageKeepsOrder ==
    ASSUME IInv, VInv, NEW n \in Nodes, NEW p \in Page, NEW q \in Seq(Nat),
           UNCHANGED <<kvs, got>>,
           page' = [page EXCEPT ![n] = p], queue' = [queue EXCEPT ![n] = q],
           \/ q = queue[n]
           \/ queue[n] # <<>> /\ q = Tail(queue[n]),
           \A v \in {p.shown, p.applying} :
               \/ v \in {0, page[n].shown, page[n].applying}
               \/ queue[n] # <<>> /\ q = Tail(queue[n]) /\ v = Head(queue[n]) /\ v # Delete,
           p.shown <= p.applying \/ p.applying = 0, Map(n) \/ p.applying = 0
    PROVE  VInv'
<1>1. /\ queue'[n] = q /\ page'[n] = p
      /\ \A m \in Nodes \ {n} : queue'[m] = queue[m] /\ page'[m] = page[m]
  BY DEF VInv, ViewTypes
<1>2. ViewTypes'
  BY DEF VInv, ViewTypes
<1>3. ASSUME NEW m \in Nodes, m # n PROVE InOrder(m)'
  BY <1>1, <1>3 DEF VInv, InOrder, NotAhead, NewerQueued, Map
<1>4. PICK d \in {0, 1} :
         /\ \A i \in 1 .. Len(q) : i + d \in 1 .. Len(queue[n]) /\ q[i] = queue[n][i + d]
         /\ queue[n] # <<>> /\ q = Tail(queue[n]) =>
               /\ Head(queue[n]) = queue[n][1] /\ 1 \in 1 .. Len(queue[n])
               /\ d = 1
  <2>1. CASE queue[n] # <<>> /\ q = Tail(queue[n])
    <3>1. /\ Len(queue[n]) \in Nat /\ Len(queue[n]) >= 1
          /\ Len(q) = Len(queue[n]) - 1
          /\ \A i \in 1 .. Len(q) : q[i] = queue[n][i + 1]
          /\ Head(queue[n]) = queue[n][1]
      BY <2>1, PageTypes
    <3> QED
      BY <3>1
  <2>2. CASE ~ (queue[n] # <<>> /\ q = Tail(queue[n]))
    <3>1. q = queue[n] /\ Len(q) \in Nat
      BY <2>2, PageTypes
    <3>2. \A i \in 1 .. Len(q) : i + 0 = i
      BY <3>1
    <3> QED
      BY <2>2, <3>1, <3>2
  <2> QED
    BY <2>1, <2>2
<1>5. ASSUME NEW v, NotAhead(n, v) PROVE NotAhead(n, v)'
  BY <1>5 DEF NotAhead
<1>6. ASSUME NEW v, NewerQueued(n, v) PROVE NewerQueued(n, v)'
  <2> SUFFICES ASSUME NEW i \in 1 .. Len(q) PROVE v <= q[i] \/ q[i] = Delete
    BY <1>1 DEF NewerQueued
  <2>1. i + d \in 1 .. Len(queue[n]) /\ q[i] = queue[n][i + d]
    BY <1>4
  <2> QED
    BY <1>6, <2>1 DEF NewerQueued
<1>7. \A i \in 1 .. Len(q) : NotAhead(n, q[i])'
  BY <1>4, <1>5 DEF VInv, InOrder
<1>8. ASSUME NEW i \in 1 .. Len(q), NEW j \in 1 .. Len(q), i < j
      PROVE  q[i] <= q[j] \/ q[j] = Delete
  <2>1. i + d < j + d
    BY <1>8
  <2> QED
    BY <1>4, <2>1 DEF VInv, InOrder
<1>9. ASSUME NEW v \in {p.shown, p.applying}
      PROVE  NotAhead(n, v)' /\ NewerQueued(n, v)'
  <2>1. CASE v = 0
    <3>1. \A i \in 1 .. Len(q) : 0 <= q[i]
      OBVIOUS
    <3> QED
      BY <1>1, <2>1, <3>1, ReadTypes DEF NotAhead, NewerQueued
  <2>2. CASE v \in {page[n].shown, page[n].applying}
    BY <1>5, <1>6, <2>2 DEF VInv, InOrder
  <2>3. CASE queue[n] # <<>> /\ q = Tail(queue[n]) /\ v = Head(queue[n]) /\ v # Delete
    <3>1. v = queue[n][1] /\ 1 \in 1 .. Len(queue[n]) /\ d = 1
      BY <1>4, <2>3
    <3>2. NotAhead(n, v)
      BY <3>1 DEF VInv, InOrder
    <3>3. ASSUME NEW i \in 1 .. Len(q) PROVE v <= q[i] \/ q[i] = Delete
      <4>1. i + 1 \in 1 .. Len(queue[n]) /\ q[i] = queue[n][i + 1] /\ 1 < i + 1
        BY <1>4, <3>1
      <4> QED
        BY <3>1, <4>1 DEF VInv, InOrder
    <3> QED
      BY <1>1, <1>5, <3>2, <3>3 DEF NewerQueued
  <2> QED
    BY <2>1, <2>2, <2>3
<1>10. \A r \in got'[n] : r.version <= kvs'.version
  BY DEF VInv, InOrder
<1>11. InOrder(n)'
  BY <1>1, <1>7, <1>8, <1>9, <1>10 DEF InOrder, Map
<1> QED
  BY <1>2, <1>3, <1>11 DEF VInv

LEMMA ViewOpensKeepsOrder ==
    ASSUME IInv, VInv, NEW n \in Nodes, ViewOpens(n)
    PROVE  VInv'
<1> DEFINE p == [page[n] EXCEPT !.open = TRUE]
<1>1. p \in Page /\ p.shown = page[n].shown /\ p.applying = page[n].applying
  BY PageTypes DEF Page
<1>2. UNCHANGED <<kvs, got>> /\ page' = [page EXCEPT ![n] = p]
      /\ queue' = [queue EXCEPT ![n] = queue[n]]
  BY DEF ViewOpens, VInv, ViewTypes
<1>3. (p.shown <= p.applying \/ p.applying = 0) /\ (Map(n) \/ p.applying = 0)
  BY <1>1 DEF VInv, InOrder
<1> HIDE DEF p
<1> QED
  BY <1>1, <1>2, <1>3, PageTypes, PageKeepsOrder

LEMMA DrawKeepsOrder ==
    ASSUME IInv, VInv, NEW n \in Nodes, Draw(n)
    PROVE  VInv'
<1> DEFINE p == Drawn(page[n])
<1>1. p \in Page /\ p.applying = 0
      /\ p.shown \in {0, page[n].shown, page[n].applying}
  BY PageTypes DEF Page, Drawn
<1>2. UNCHANGED <<kvs, got>> /\ page' = [page EXCEPT ![n] = p]
      /\ queue' = [queue EXCEPT ![n] = queue[n]]
  BY DEF Draw, VInv, ViewTypes
<1> HIDE DEF p
<1> QED
  BY <1>1, <1>2, PageTypes, PageKeepsOrder

(* A view that shows or is going to draw a message that is no deletion.     *)
LEMMA PageHandlesKeepsOrder ==
    ASSUME IInv, VInv, NEW n \in Nodes, PageHandles(n)
    PROVE  VInv'
<1> DEFINE m == Head(queue[n])
           q == Tail(queue[n])
<1>1. queue[n] # <<>> /\ queue' = [queue EXCEPT ![n] = q] /\ UNCHANGED <<kvs, got>>
  BY DEF PageHandles
<1>2. q \in Seq(Nat) /\ m \in Nat /\ m = queue[n][1] /\ 1 \in 1 .. Len(queue[n])
  BY <1>1, PageTypes
<1>3. PICK p : /\ page' = [page EXCEPT ![n] = p]
               /\ \/ p = page[n]
                  \/ m = Delete /\ p = Removed(n)
                  \/ m # Delete /\ p = Applied(n, m)
  <2>1. CASE page' = page
    <3>1. page' = [page EXCEPT ![n] = page[n]]
      BY <2>1 DEF VInv, ViewTypes
    <3> QED
      BY <3>1
  <2>2. CASE page' = [page EXCEPT ![n] = IF m = Delete THEN Removed(n) ELSE Applied(n, m)]
    BY <2>2
  <2> QED
    BY <2>1, <2>2 DEF PageHandles
<1>4. CASE m # Delete /\ p = Applied(n, m)
  <2>1. NewerQueued(n, page[n].shown) /\ (Map(n) \/ page[n].applying = 0)
    BY DEF VInv, InOrder
  <2>2. page[n].shown <= m
    BY <1>2, <1>4, <2>1 DEF NewerQueued
  <2>3. /\ p \in Page /\ p.shown \in {page[n].shown, m} /\ p.applying \in {page[n].applying, m}
        /\ p.shown <= p.applying \/ p.applying = 0
        /\ Map(n) \/ p.applying = 0
    <3>1. page[n].shown <= page[n].applying \/ page[n].applying = 0
      BY DEF VInv, InOrder
    <3>2. CASE Map(n)
      BY <1>2, <1>4, <2>2, <3>2, PageTypes DEF Page, Applied
    <3>3. CASE ~ Map(n)
      BY <1>2, <1>4, <2>1, <3>1, <3>3, PageTypes DEF Page, Applied
    <3> QED
      BY <3>2, <3>3
  <2> HIDE DEF m, q
  <2>4. \A v \in {p.shown, p.applying} :
            v \in {0, page[n].shown, page[n].applying} \/ (v = m /\ v # Delete)
    BY <1>4, <2>3
  <2> QED
    BY <1>1, <1>2, <1>3, <2>3, <2>4, PageKeepsOrder DEF m, q
<1>5. CASE p = page[n] \/ p = Removed(n)
  <2>1. /\ p \in Page /\ p.shown \in {0, page[n].shown} /\ p.applying \in {0, page[n].applying}
        /\ p.shown <= p.applying \/ p.applying = 0
        /\ Map(n) \/ p.applying = 0
    <3>1. /\ page[n].shown <= page[n].applying \/ page[n].applying = 0
          /\ Map(n) \/ page[n].applying = 0
      BY DEF VInv, InOrder
    <3>2. CASE p = page[n]
      BY <3>1, <3>2, PageTypes
    <3>3. CASE p = Removed(n) /\ Map(n)
      BY <3>3, PageTypes DEF Page, Removed
    <3>4. CASE p = Removed(n) /\ ~ Map(n)
      <4>1. /\ p \in Page /\ p.shown \in {0, page[n].shown} /\ p.applying = page[n].applying
        BY <3>4, PageTypes DEF Page, Removed
      <4> QED
        BY <3>1, <3>4, <4>1, PageTypes
    <3> QED
      BY <1>5, <3>2, <3>3, <3>4
  <2>2. \A v \in {p.shown, p.applying} : v \in {0, page[n].shown, page[n].applying}
    BY <2>1
  <2> QED
    BY <1>1, <1>2, <1>3, <2>1, <2>2, PageKeepsOrder
<1> QED
  BY <1>3, <1>4, <1>5

(* All versions on their way to a view are in order, whatever is read, lost *)
(* or fails in between.                                                     *)
THEOREM OrderInductive == Spec => []VInv
<1>1. Init => VInv
  <2> SUFFICES ASSUME Init PROVE VInv
    OBVIOUS
  <2>1. ViewTypes
    BY DEF Init, ViewTypes, Page
  <2>2. ASSUME NEW n \in Nodes PROVE InOrder(n)
    BY DEF Init, InOrder, NotAhead, NewerQueued, NoRecord
  <2> QED
    BY <2>1, <2>2 DEF VInv
<1>2. IInv /\ IInv' /\ VInv /\ [Next]_vars => VInv'
  <2> SUFFICES ASSUME IInv, IInv', VInv, [Next]_vars PROVE VInv'
    OBVIOUS
  <2>0. kvs.version \in Nat /\ kvs.version <= kvs.version /\ kvs.version <= kvs.version + 1
    BY DEF IInv, TypesOK, Records
  <2>1. CASE AppStep
    BY <2>0, <2>1, WritesKeepOrder
       DEF AppStep, Setup, StartLoop, LoopSleeps, LoopWakes, Teardown, AppExits, EventsUnchanged
  <2>2. ASSUME NEW t \in Threads, CallStep(t) \/ CallFails(t) PROVE VInv'
    <3>1. kvs' = kvs \/ kvs'.version \in {kvs.version, kvs.version + 1}
      <4>1. CASE Sets(t)
        <5>1. [kvs EXCEPT !.state = "deleted", !.pos = call[t].from].version = kvs.version
          BY DEF IInv, TypesOK, Records
        <5> QED
          BY <4>1, <5>1 DEF Sets
      <4> QED
        BY <2>2, <4>1 DEF CallStep, CallFails, TakesKey, Gets, Checks, Spreads
    <3>2. UNCHANGED <<got, queue, page>>
      BY <2>2 DEF CallStep, CallFails, TakesKey, Gets, Checks, Sets, Spreads, EventsUnchanged
    <3> QED
      BY <2>0, <3>1, <3>2, WritesKeepOrder
  <2>3. ASSUME NEW n \in Nodes, Lost(n) PROVE VInv'
    BY <2>0, <2>3, WritesKeepOrder DEF Lost
  <2>4. ASSUME NEW n \in Nodes, EventReads(n) PROVE VInv'
    BY <2>4, ReadsKeepOrder
  <2>5. ASSUME NEW n \in Nodes, NEW r \in got[n], EventTells(n, r) \/ EventFails(n, r)
        PROVE  VInv'
    BY <2>5, TellsKeepOrder
  <2>6. ASSUME NEW n \in Nodes, ViewOpens(n) \/ PageHandles(n) \/ Draw(n)
        PROVE  VInv'
    BY <2>6, ViewOpensKeepsOrder, PageHandlesKeepsOrder, DrawKeepsOrder
  <2>7. CASE UNCHANGED vars
    BY <2>0, <2>7, WritesKeepOrder DEF vars
  <2> QED
    BY <2>1, <2>2, <2>3, <2>4, <2>5, <2>6, <2>7 DEF Next, EventStep
<1> QED
  BY <1>1, <1>2, KeysInductive, PTL DEF Spec

(* No view goes back to an older version, in whatever order the messages of *)
(* changes arrive, for all numbers of nodes, updates and faults.            *)
THEOREM ViewsGoForward == Spec => SceneForward
<1>1. VInv /\ [Next]_vars =>
        [\A n \in Nodes :
          page[n].shown # 0 /\ page'[n].shown # 0 => page'[n].shown >= page[n].shown]_vars
  <2> SUFFICES ASSUME VInv, Next, NEW n \in Nodes, page[n].shown # 0, page'[n].shown # 0
               PROVE  page'[n].shown >= page[n].shown
    OBVIOUS
  <2>0. page[n].shown >= page[n].shown
    BY PageTypes
  <2>1. ASSUME NEW m \in Nodes, PageHandles(m) PROVE page'[n].shown >= page[n].shown
    <3>1. CASE n = m /\ page' = [page EXCEPT ![n] = Applied(n, Head(queue[n]))]
                    /\ Head(queue[n]) # Delete /\ queue[n] # <<>>
      <4>1. Head(queue[n]) = queue[n][1] /\ 1 \in 1 .. Len(queue[n]) /\ Head(queue[n]) \in Nat
        BY <3>1, PageTypes
      <4>2. page[n].shown <= Head(queue[n])
        BY <3>1, <4>1 DEF VInv, InOrder, NewerQueued
      <4>3. page'[n].shown \in {page[n].shown, Head(queue[n])}
        BY <3>1, PageTypes DEF Applied, VInv, ViewTypes, Page
      <4> QED
        BY <2>0, <4>1, <4>2, <4>3, PageTypes
    <3>2. CASE n = m /\ page' = [page EXCEPT ![n] = Removed(n)]
      BY <2>0, <3>2, PageTypes DEF Removed, VInv, ViewTypes, Page
    <3>3. CASE n # m \/ page' = page
      BY <2>0, <2>1, <3>3 DEF PageHandles, VInv, ViewTypes
    <3> QED
      BY <2>1, <3>1, <3>2, <3>3 DEF PageHandles
  <2>2. ASSUME NEW m \in Nodes, Draw(m) PROVE page'[n].shown >= page[n].shown
    <3>1. CASE n = m
      <4>1. page'[n] = Drawn(page[n])
        BY <2>2, <3>1 DEF Draw, VInv, ViewTypes
      <4>2. page[n].applying # 0 => page[n].shown <= page[n].applying
        BY DEF VInv, InOrder
      <4> QED
        BY <2>0, <4>1, <4>2, PageTypes DEF Drawn, Page
    <3>2. CASE n # m
      BY <2>0, <2>2, <3>2 DEF Draw
    <3> QED
      BY <3>1, <3>2
  <2>3. ASSUME NEW m \in Nodes, ViewOpens(m) PROVE page'[n].shown >= page[n].shown
    BY <2>0, <2>3, PageTypes DEF ViewOpens, VInv, ViewTypes, Page
  <2>4. ASSUME NEW m \in Nodes,
               Lost(m) \/ EventReads(m) \/ \E r \in got[m] : EventTells(m, r) \/ EventFails(m, r)
        PROVE  page'[n].shown >= page[n].shown
    BY <2>0, <2>4 DEF Lost, EventReads, EventTells, EventFails
  <2>5. ASSUME NEW t \in Threads, CallStep(t) \/ CallFails(t)
        PROVE  page'[n].shown >= page[n].shown
    BY <2>0, <2>5 DEF CallStep, CallFails, TakesKey, Gets, Checks, Sets, Spreads, EventsUnchanged
  <2>6. CASE AppStep
    BY <2>0, <2>6 DEF AppStep, Setup, StartLoop, LoopSleeps, LoopWakes, Teardown, AppExits,
                      EventsUnchanged
  <2> QED
    BY <2>1, <2>2, <2>3, <2>4, <2>5, <2>6 DEF Next, EventStep
<1> QED
  BY <1>1, OrderInductive, PTL DEF Spec, SceneForward

==============================================================================
