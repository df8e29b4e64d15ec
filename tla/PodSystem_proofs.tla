--------------------------- MODULE PodSystem_proofs ---------------------------
(***************************************************************************)
(* What holds of PodSystem for any nodes, containers and goroutines.        *)
(*                                                                          *)
(* First what holds however they interleave: the invariant Coherent is      *)
(* inductive.  Then what holds when the holders' ticks do not overlap what  *)
(* was begun before them (Timing # "free"): everything about the pod goes   *)
(* on in one place, which all copies of the record name (Placed).  Last     *)
(* what holds when the users' calls do not overlap it either.               *)
(***************************************************************************)
EXTENDS PodSystem, TLAPS

(* The changes the writers make to their copy of the record. *)
LEMMA CopyType ==
    ASSUME NEW pod \in Pod
    PROVE  /\ [pod EXCEPT !.deleted = TRUE] \in Pod
           /\ \A m \in Nodes \cup {NoNode} : [pod EXCEPT !.target = m] \in Pod
           /\ \A m \in Nodes \cup {NoNode} : [pod EXCEPT !.target = m, !.running = m] \in Pod
           /\ \A s \in [Containers -> ContainerStatus] : [pod EXCEPT !.status = s] \in Pod
BY DEF Pod

LEMMA HandoverType ==
    ASSUME NEW pod \in Pod
    PROVE  Handover(pod) \in Pod /\ MarkUnknown(pod) \in Pod
BY DEF Pod, Handover, MarkUnknown, ResetStatus, EmptyStatus, ContainerStatus, NoId

LEMMA NewPodType == NewPod \in Pod /\ Valid(NewPod)
BY DEF Pod, NewPod, EmptyStatus, ContainerStatus, NoId, Valid

LEMMA IdleType ==
    /\ Idle \in Process
    /\ \A pc \in PCs : [Idle EXCEPT !.pc = pc] \in Process
    /\ "leave" \in PCs /\ "stuck" \in PCs /\ "info" \in PCs
BY DEF Idle, Process, PCs, ReconcilePCs, UpdatePCs, Afters

(* A bound is spent one at a time. *)
LEMMA SpendType ==
    ASSUME used \in [Counters -> Nat], NEW x \in Counters, NEW bound, Spend(x, bound)
    PROVE  used' \in [Counters -> Nat]
BY DEF Spend

-----------------------------------------------------------------------------
(* Steps of one goroutine *)

(* A goroutine moves from one good process record to another. *)
LEMMA ProcessStep ==
    ASSUME TypeOK, \A q \in Procs : GoodProcess(q, proc[q]),
           NEW p \in Procs, NEW v \in Process, GoodProcess(p, v),
           proc' = [proc EXCEPT ![p] = v]
    PROVE  /\ proc' \in [Procs -> Process]
           /\ \A q \in Procs : GoodProcess(q, proc'[q])
           /\ proc'[p] = v
           /\ \A q \in Procs : q # p => proc'[q] = proc[q]
<1>1. proc \in [Procs -> Process]
  BY DEF TypeOK
<1>2. /\ proc' \in [Procs -> Process]
      /\ proc'[p] = v
      /\ \A q \in Procs : q # p => proc'[q] = proc[q]
  BY <1>1
<1>3. \A q \in Procs : GoodProcess(q, proc'[q])
  <2>1. TAKE q \in Procs
  <2>2. CASE q = p
    BY <1>2, <2>2
  <2>3. CASE q # p
    <3>1. proc'[q] = proc[q]
      BY <1>2, <2>3
    <3>2. QED BY <3>1
  <2>4. QED BY <2>2, <2>3
<1>4. QED BY <1>2, <1>3

(* A reconcile of node n that goes on, whatever it does to its own node,    *)
(* keeps all entries and runtimes good when it leaves its own good.         *)
LEMMA NodeStep ==
    ASSUME Coherent,
           NEW p \in Reconcilers, proc[p].pc \notin {"idle", "leave"},
           NEW v \in Process, GoodProcess(p, v), v.pc # "idle",
           proc' = [proc EXCEPT ![p] = v],
           NEW l \in Entry, local' = [local EXCEPT ![NodeOf[p]] = l],
           NEW r \in Runtime, cri' = [cri EXCEPT ![NodeOf[p]] = r],
           NEW d \in SUBSET Nat, drivers' = [drivers EXCEPT ![NodeOf[p]] = d],
           nextId' \in Nat, nextId <= nextId',
           l.running, l.known,
           l.willDelete => r.sandbox = NoId /\ v.pc = "leave",
           v.pc \in {"pull", "start"} => r.sandbox # NoId,
           GoodRuntime(l, r, d, nextId'),
           kvs' \in Pod \cup {NoPod}, kvs' # NoPod => Valid(kvs'),
           created' \in BOOLEAN, msgs' \subseteq Nodes,
           node' \in [Nodes -> {"up", "left", "panicked"}], used' \in [Counters -> Nat]
    PROVE  Coherent'
<1> DEFINE n == NodeOf[p]
<1>1. /\ n \in Nodes /\ NodeOf \in [Procs -> Nodes] /\ p \in Procs /\ Reconcilers \subseteq Procs
  BY PodSystemAssumption DEF Procs
<1>2. TypeOK /\ RecordValid /\ (\A q \in Procs : GoodProcess(q, proc[q]))
      /\ \A m \in Nodes : GoodEntry(m) /\ GoodRuntime(local[m], cri[m], drivers[m], nextId)
  BY DEF Coherent
<1>3. /\ proc' \in [Procs -> Process]
      /\ \A q \in Procs : GoodProcess(q, proc'[q])
      /\ proc'[p] = v
      /\ \A q \in Procs : q # p => proc'[q] = proc[q]
  BY <1>1, <1>2, ProcessStep
<1>4. /\ local' \in [Nodes -> Entry] /\ local'[n] = l
      /\ cri' \in [Nodes -> Runtime] /\ cri'[n] = r
      /\ drivers' \in [Nodes -> SUBSET Nat] /\ drivers'[n] = d
      /\ \A m \in Nodes : m # n =>
             local'[m] = local[m] /\ cri'[m] = cri[m] /\ drivers'[m] = drivers[m]
  BY <1>1, <1>2 DEF TypeOK
<1>5. TypeOK'
  BY <1>2, <1>3, <1>4 DEF TypeOK
<1>6. ASSUME NEW m \in Nodes PROVE ActiveOn(m)' = ActiveOn(m)
  BY <1>1, <1>3 DEF ActiveOn, Reconciling
<1>7. ASSUME NEW m \in Nodes PROVE GoodEntry(m)'
  <2>1. GoodEntry(m)
    BY <1>2
  <2>2. CASE m = n
    <3>1. p \in ActiveOn(n) /\ ActiveOn(n) = {p}
      BY <1>1, <2>1, <2>2 DEF ActiveOn, Reconciling, GoodEntry
    <3>2. QED
      BY <1>1, <1>3, <1>4, <1>6, <2>1, <2>2, <3>1 DEF GoodEntry
  <2>3. CASE m # n
    <3>1. \A q \in ActiveOn(m) : q # p /\ proc'[q] = proc[q]
      BY <1>1, <1>3, <2>3 DEF ActiveOn
    <3>2. QED
      BY <1>4, <1>6, <2>1, <2>3, <3>1 DEF GoodEntry
  <2>4. QED BY <2>2, <2>3
<1>8. ASSUME NEW m \in Nodes
      PROVE  GoodRuntime(local'[m], cri'[m], drivers'[m], nextId')
  <2>1. CASE m = n
    BY <1>4, <2>1
  <2>2. CASE m # n
    <3>1. GoodRuntime(local[m], cri[m], drivers[m], nextId)
      BY <1>2
    <3>2. \A c \in Containers : cri[m].box[c].id \in Nat
      BY <1>2 DEF TypeOK, Runtime, Container
    <3>3. GoodRuntime(local[m], cri[m], drivers[m], nextId')
      BY <1>2, <3>1, <3>2 DEF GoodRuntime, TypeOK
    <3>4. QED BY <1>4, <2>2, <3>3
  <2>3. QED BY <2>1, <2>2
<1>9. RecordValid'
  BY DEF RecordValid
<1>10. QED
  BY <1>3, <1>5, <1>7, <1>8, <1>9 DEF Coherent

(* A step that leaves the nodes alone: of a user, of a holder, or of a      *)
(* reconcile that goes on.                                                  *)
LEMMA RecordStep ==
    ASSUME Coherent,
           NEW p \in Procs,
           p \in Reconcilers => proc[p].pc \notin {"idle", "leave"},
           NEW v \in Process, GoodProcess(p, v),
           p \in Reconcilers => v.pc # "idle",
           p \in Reconcilers /\ v.pc \in {"pull", "start"} => cri[NodeOf[p]].sandbox # NoId,
           proc' = [proc EXCEPT ![p] = v],
           NodeUnchanged,
           kvs' \in Pod \cup {NoPod}, kvs' # NoPod => Valid(kvs'),
           created' \in BOOLEAN, msgs' \subseteq Nodes,
           node' \in [Nodes -> {"up", "left", "panicked"}], used' \in [Counters -> Nat]
    PROVE  Coherent'
<1>1. /\ NodeOf[p] \in Nodes /\ NodeOf \in [Procs -> Nodes] /\ Reconcilers \subseteq Procs
  BY PodSystemAssumption DEF Procs
<1>2. TypeOK /\ RecordValid /\ (\A q \in Procs : GoodProcess(q, proc[q]))
      /\ \A m \in Nodes : GoodEntry(m) /\ GoodRuntime(local[m], cri[m], drivers[m], nextId)
  BY DEF Coherent
<1>3. /\ proc' \in [Procs -> Process]
      /\ \A q \in Procs : GoodProcess(q, proc'[q])
      /\ proc'[p] = v
      /\ \A q \in Procs : q # p => proc'[q] = proc[q]
  BY <1>1, <1>2, ProcessStep
<1>4. local' = local /\ cri' = cri /\ drivers' = drivers /\ nextId' = nextId
  BY DEF NodeUnchanged
<1>5. TypeOK'
  BY <1>2, <1>3, <1>4 DEF TypeOK
<1>6. ASSUME NEW m \in Nodes PROVE ActiveOn(m)' = ActiveOn(m)
  BY <1>1, <1>3 DEF ActiveOn, Reconciling
<1>7. ASSUME NEW m \in Nodes PROVE GoodEntry(m)'
  <2>1. GoodEntry(m)
    BY <1>2
  <2>2. \A q \in ActiveOn(m) : q # p => proc'[q] = proc[q]
    BY <1>1, <1>3 DEF ActiveOn
  <2>3. p \in ActiveOn(m) => ~ local[m].willDelete /\ (v.pc \in {"pull", "start"} => cri[m].sandbox # NoId)
    BY <2>1 DEF GoodEntry, ActiveOn
  <2>4. QED
    BY <1>3, <1>4, <1>6, <2>1, <2>2, <2>3 DEF GoodEntry
<1>8. ASSUME NEW m \in Nodes
      PROVE  GoodRuntime(local'[m], cri'[m], drivers'[m], nextId')
  BY <1>2, <1>4
<1>9. RecordValid'
  BY DEF RecordValid
<1>10. QED
  BY <1>3, <1>5, <1>7, <1>8, <1>9 DEF Coherent

(* What Goto, Finished, Return, Fail and CallUpdate do to their goroutine. *)
StepsTo(p, v) == v \in Process /\ GoodProcess(p, v) /\ proc' = [proc EXCEPT ![p] = v]

LEMMA GotoStep ==
    ASSUME Coherent, NEW p \in Procs, NEW pc \in PCs, Goto(p, pc),
           pc \in HasCopyPCs => proc[p].pc \in HasCopyPCs,
           pc \in UpdatePCs => proc[p].pc \in UpdatePCs
    PROVE  \E v : StepsTo(p, v) /\ v.pc = pc
<1> DEFINE v == [proc[p] EXCEPT !.pc = pc]
<1>1. proc[p] \in Process /\ GoodProcess(p, proc[p])
  BY DEF Coherent, TypeOK
<1>2. /\ v \in Process /\ v.pc = pc /\ v.pod = proc[p].pod /\ v.then = proc[p].then
  BY <1>1 DEF Process
<1>3. GoodProcess(p, v)
  BY <1>1, <1>2 DEF GoodProcess
<1>4. proc' = [proc EXCEPT ![p] = v]
  BY DEF Goto
<1>5. QED BY <1>2, <1>3, <1>4 DEF StepsTo

LEMMA FinishedStep ==
    ASSUME NEW p \in Procs, Finished(p)
    PROVE  StepsTo(p, Idle) /\ Idle.pc = "idle"
BY IdleType DEF StepsTo, Finished, GoodProcess, Idle, HasCopyPCs, UpdatePCs

LEMMA FailStep ==
    ASSUME NEW p \in Procs, Fail(p)
    PROVE  \E v : StepsTo(p, v) /\ v.pc = "leave"
<1> DEFINE v == [Idle EXCEPT !.pc = "leave"]
<1>1. v \in Process /\ v.pc = "leave"
  BY IdleType DEF Idle
<1>2. GoodProcess(p, v)
  BY <1>1 DEF GoodProcess, HasCopyPCs, UpdatePCs
<1>3. QED BY <1>1, <1>2 DEF StepsTo, Fail

LEMMA ReturnStep ==
    ASSUME NEW p \in Procs, Return(p)
    PROVE  \E v : StepsTo(p, v) /\ v.pc = IF p \in Reconcilers THEN "leave" ELSE "idle"
<1>1. CASE p \in Reconcilers
  BY <1>1, FailStep DEF Return, Fail
<1>2. CASE p \notin Reconcilers
  BY <1>2, FinishedStep DEF Return
<1>3. QED BY <1>1, <1>2

LEMMA CallUpdateStep ==
    ASSUME NEW p \in Procs, NEW pod \in Pod, NEW then \in Afters, CallUpdate(p, pod, then),
           p \in Reconcilers => then \in {"leave", "drop", "remove"}
    PROVE  \E v : StepsTo(p, v) /\ v.pc \in {"check", IF p \in Reconcilers THEN "leave" ELSE "idle"}
<1>1. CASE Valid(pod)
  <2> DEFINE v == [pc |-> "check", pod |-> pod, then |-> then, todo |-> {}]
  <2>1. v \in Process /\ v.pc = "check" /\ v.pod = pod /\ v.then = then
    BY DEF Process, PCs, UpdatePCs
  <2>2. GoodProcess(p, v)
    BY <1>1, <2>1 DEF GoodProcess
  <2>3. QED BY <1>1, <2>1, <2>2 DEF StepsTo, CallUpdate
<1>2. CASE ~ Valid(pod)
  BY <1>2, ReturnStep DEF CallUpdate
<1>3. QED BY <1>1, <1>2

-----------------------------------------------------------------------------
(* The actions of the users and the holders *)

(* A user or a holder leaves the nodes alone: what remains to be shown of   *)
(* its step is what becomes of the record and of itself.                    *)
LEMMA OutsideStep ==
    ASSUME Coherent, NEW p \in Users \cup Holders,
           NEW v, StepsTo(p, v),
           NodeUnchanged,
           kvs' \in Pod \cup {NoPod}, kvs' # NoPod => Valid(kvs'),
           created' \in BOOLEAN, msgs' \subseteq Nodes,
           node' = node, used' \in [Counters -> Nat]
    PROVE  Coherent'
<1>1. p \in Procs /\ p \notin Reconcilers
  BY PodSystemAssumption DEF Procs
<1>2. node \in [Nodes -> {"up", "left", "panicked"}]
  BY DEF Coherent, TypeOK
<1>3. QED BY <1>1, <1>2, RecordStep DEF StepsTo

LEMMA RecordFacts ==
    ASSUME Coherent
    PROVE  /\ kvs \in Pod \cup {NoPod} /\ (kvs # NoPod => Valid(kvs))
           /\ created \in BOOLEAN /\ msgs \subseteq Nodes /\ used \in [Counters -> Nat]
           /\ node \in [Nodes -> {"up", "left", "panicked"}]
BY DEF Coherent, TypeOK, RecordValid

LEMMA UpdateCheckGood ==
    ASSUME Coherent, NEW p \in Procs, UpdateCheck(p)
    PROVE  /\ \E v : StepsTo(p, v) /\ v.pc \in {"set", IF p \in Reconcilers THEN "leave" ELSE "idle"}
           /\ proc[p].pc = "check"
<1>1. proc[p].pc = "check"
  BY DEF UpdateCheck, At
<1>2. CASE kvs = NoPod
  BY <1>1, <1>2, ReturnStep DEF UpdateCheck
<1>3. CASE kvs # NoPod
  <2>1. Goto(p, "set")
    BY <1>3 DEF UpdateCheck
  <2>2. "set" \in PCs /\ "check" \in UpdatePCs /\ "check" \in HasCopyPCs
    BY DEF PCs, UpdatePCs, HasCopyPCs
  <2>3. QED BY <1>1, <2>1, <2>2, GotoStep
<1>4. QED BY <1>2, <1>3

LEMMA UpdateSetGood ==
    ASSUME Coherent, NEW p \in Procs, UpdateSet(p)
    PROVE  /\ \E v : /\ StepsTo(p, v)
                     /\ v.pc = proc[p].then
           /\ proc[p].pc = "set"
           /\ kvs' \in Pod /\ Valid(kvs')
<1>1. proc[p].pc = "set" /\ proc[p].pc \in UpdatePCs /\ proc[p].pc \in HasCopyPCs
  BY DEF UpdateSet, At, UpdatePCs, HasCopyPCs
<1>2. proc[p] \in Process /\ GoodProcess(p, proc[p])
  BY DEF Coherent, TypeOK
<1>3. kvs' \in Pod /\ Valid(kvs')
  BY <1>1, <1>2 DEF UpdateSet, GoodProcess
<1>4. PICK v : StepsTo(p, v) /\ v.pc = proc[p].then
  <2>1. CASE proc[p].then = "idle"
    BY <2>1, FinishedStep DEF UpdateSet
  <2>2. CASE proc[p].then # "idle"
    <3> DEFINE v == [Idle EXCEPT !.pc = proc[p].then]
    <3>1. v \in Process /\ v.pc = proc[p].then
      BY <1>2, IdleType DEF Process, Idle, Afters, PCs, ReconcilePCs
    <3>2. GoodProcess(p, v)
      BY <1>2, <3>1 DEF GoodProcess, Process, Afters, HasCopyPCs, UpdatePCs
    <3>3. QED BY <2>2, <3>1, <3>2 DEF StepsTo, UpdateSet
  <2>3. QED BY <2>1, <2>2
<1>5. QED BY <1>1, <1>3, <1>4

LEMMA UpdateFailsGood ==
    ASSUME Coherent, NEW p \in Procs, UpdateFails(p)
    PROVE  /\ \E v : StepsTo(p, v) /\ v.pc = IF p \in Reconcilers THEN "leave" ELSE "idle"
           /\ proc[p].pc \in UpdatePCs
           /\ used' \in [Counters -> Nat]
<1>1. proc[p].pc \in UpdatePCs
  BY DEF UpdateFails, At, UpdatePCs
<1>2. used' \in [Counters -> Nat]
  BY RecordFacts, SpendType DEF UpdateFails, Counters
<1>3. QED BY <1>1, <1>2, ReturnStep DEF UpdateFails

(* The three parts of kvs.Update, called by a user or a holder. *)
LEMMA OutsideUpdate ==
    ASSUME Coherent, NEW p \in Users \cup Holders,
           UpdateCheck(p) \/ UpdateSet(p) \/ UpdateFails(p)
    PROVE  Coherent'
<1>1. p \in Procs /\ p \notin Reconcilers
  BY PodSystemAssumption DEF Procs
<1>2. CASE UpdateCheck(p)
  <2>1. PICK v : StepsTo(p, v)
    BY <1>1, <1>2, UpdateCheckGood
  <2>2. NodeUnchanged /\ UNCHANGED <<kvs, created, msgs, node, used>>
    BY <1>2 DEF UpdateCheck
  <2>3. QED BY <2>1, <2>2, OutsideStep, RecordFacts
<1>3. CASE UpdateSet(p)
  <2>1. PICK v : StepsTo(p, v)
    BY <1>1, <1>3, UpdateSetGood
  <2>2. NodeUnchanged /\ UNCHANGED <<created, msgs, node, used>>
    BY <1>3 DEF UpdateSet
  <2>3. kvs' \in Pod /\ Valid(kvs')
    BY <1>1, <1>3, UpdateSetGood
  <2>4. QED BY <2>1, <2>2, <2>3, OutsideStep, RecordFacts
<1>4. CASE UpdateFails(p)
  <2>1. PICK v : StepsTo(p, v)
    BY <1>1, <1>4, UpdateFailsGood
  <2>2. NodeUnchanged /\ UNCHANGED <<kvs, created, msgs, node>> /\ used' \in [Counters -> Nat]
    BY <1>1, <1>4, UpdateFailsGood DEF UpdateFails
  <2>3. QED BY <2>1, <2>2, OutsideStep, RecordFacts
<1>5. QED BY <1>2, <1>3, <1>4

LEMMA UserKeeps ==
    ASSUME Coherent, NEW u \in Users, UserStep(u)
    PROVE  Coherent'
<1>1. u \in Procs /\ u \notin Reconcilers /\ u \in Users \cup Holders
  BY PodSystemAssumption DEF Procs
<1>2. /\ kvs \in Pod \cup {NoPod} /\ (kvs # NoPod => Valid(kvs))
      /\ created \in BOOLEAN /\ msgs \subseteq Nodes /\ used \in [Counters -> Nat]
  BY RecordFacts
<1>3. /\ {"delete", "clear"} \subseteq PCs \ HasCopyPCs
      /\ {"idle", "delete"} \subseteq Afters
      /\ {"migrations", "deletes", "cleanups", "faults"} \subseteq Counters
  BY DEF PCs, HasCopyPCs, UpdatePCs, Afters, Counters
<1>4. CASE Create(u)
  <2>1. kvs' \in Pod /\ Valid(kvs') /\ created' \in BOOLEAN
    BY <1>4, NewPodType DEF Create
  <2>2. NodeUnchanged /\ UNCHANGED <<msgs, node, proc, used>>
    BY <1>4 DEF Create
  <2>3. StepsTo(u, proc[u])
    BY <1>1, <2>2 DEF StepsTo, Coherent, TypeOK
  <2>4. QED BY <1>1, <1>2, <2>1, <2>2, <2>3, OutsideStep
<1>5. ASSUME NEW m \in Nodes, Migrate(u, m) PROVE Coherent'
  <2>1. kvs \in Pod
    BY <1>2, <1>5 DEF Migrate
  <2>2. PICK v : StepsTo(u, v)
    <3>1. CASE kvs.running = NoNode
      <4>1. CallUpdate(u, [kvs EXCEPT !.target = m, !.running = m], "idle")
        BY <1>5, <3>1 DEF Migrate
      <4>2. [kvs EXCEPT !.target = m, !.running = m] \in Pod
        BY <2>1, CopyType
      <4>3. QED BY <1>1, <1>3, <4>1, <4>2, CallUpdateStep
    <3>2. CASE kvs.running # NoNode
      <4>1. CallUpdate(u, [kvs EXCEPT !.target = m], "idle")
        BY <1>5, <3>2 DEF Migrate
      <4>2. [kvs EXCEPT !.target = m] \in Pod
        BY <2>1, CopyType
      <4>3. QED BY <1>1, <1>3, <4>1, <4>2, CallUpdateStep
    <3>3. QED BY <3>1, <3>2
  <2>3. NodeUnchanged /\ UNCHANGED <<kvs, created, msgs, node>> /\ used' \in [Counters -> Nat]
    BY <1>2, <1>3, <1>5, SpendType DEF Migrate
  <2>4. QED BY <1>1, <1>2, <2>2, <2>3, OutsideStep
<1>6. CASE Delete(u)
  <2>1. PICK v : StepsTo(u, v)
    BY <1>1, <1>3, <1>6, GotoStep DEF Delete, UpdatePCs, HasCopyPCs
  <2>2. NodeUnchanged /\ UNCHANGED <<kvs, created, msgs, node>> /\ used' \in [Counters -> Nat]
    BY <1>2, <1>3, <1>6, SpendType DEF Delete
  <2>3. QED BY <1>1, <1>2, <2>1, <2>2, OutsideStep
<1>7. CASE DeleteMarks(u)
  <2>1. [kvs EXCEPT !.deleted = TRUE] \in Pod
    BY <1>2, <1>7, CopyType DEF DeleteMarks
  <2>2. PICK v : StepsTo(u, v)
    BY <1>1, <1>3, <1>7, <2>1, CallUpdateStep DEF DeleteMarks
  <2>3. NodeUnchanged /\ UNCHANGED <<kvs, created, msgs, node, used>>
    BY <1>7 DEF DeleteMarks
  <2>4. QED BY <1>1, <1>2, <2>2, <2>3, OutsideStep
<1>8. CASE DeleteReturns(u)
  <2>1. PICK v : StepsTo(u, v)
    BY <1>1, <1>8, FinishedStep DEF DeleteReturns
  <2>2. NodeUnchanged /\ UNCHANGED <<kvs, created, msgs, node>> /\ used' \in [Counters -> Nat]
    BY <1>2, <1>3, <1>8, SpendType DEF DeleteReturns
  <2>3. QED BY <1>1, <1>2, <2>1, <2>2, OutsideStep
<1>9. CASE Cleanup(u)
  <2>1. PICK v : StepsTo(u, v)
    BY <1>1, <1>3, <1>9, GotoStep DEF Cleanup, UpdatePCs, HasCopyPCs
  <2>2. NodeUnchanged /\ UNCHANGED <<kvs, created, msgs, node>> /\ used' \in [Counters -> Nat]
    BY <1>2, <1>3, <1>9, SpendType DEF Cleanup
  <2>3. QED BY <1>1, <1>2, <2>1, <2>2, OutsideStep
<1>10. CASE CleanupClears(u)
  <2>1. PICK v : StepsTo(u, v)
    BY <1>1, <1>10, FinishedStep DEF CleanupClears
  <2>2. NodeUnchanged /\ UNCHANGED <<created, msgs, node, used>> /\ kvs' = NoPod
    BY <1>10 DEF CleanupClears
  <2>3. QED BY <1>1, <1>2, <2>1, <2>2, OutsideStep
<1>11. QED
  BY <1>1, <1>4, <1>5, <1>6, <1>7, <1>8, <1>9, <1>10, OutsideUpdate DEF UserStep

LEMMA HolderKeeps ==
    ASSUME Coherent, NEW h \in Holders, HolderStep(h)
    PROVE  Coherent'
<1> DEFINE pod == proc[h].pod
<1>1. h \in Procs /\ h \notin Reconcilers /\ h \in Users \cup Holders /\ Creator \in Nodes
  BY PodSystemAssumption DEF Procs
<1>2. /\ kvs \in Pod \cup {NoPod} /\ (kvs # NoPod => Valid(kvs))
      /\ created \in BOOLEAN /\ msgs \subseteq Nodes /\ used \in [Counters -> Nat]
      /\ node \in [Nodes -> {"up", "left", "panicked"}]
  BY RecordFacts
<1>3. /\ {"deal", "blocked"} \subseteq PCs /\ "blocked" \notin HasCopyPCs \cup UpdatePCs
      /\ "idle" \in Afters /\ "faults" \in Counters
  BY DEF PCs, HasCopyPCs, UpdatePCs, Afters, Counters
<1>4. ASSUME At(h, "deal") PROVE pod \in Pod
  BY <1>1, <1>4 DEF At, Coherent, GoodProcess, HasCopyPCs
<1>5. ASSUME NEW q \in Pod PROVE q.running \in Nodes \cup {NoNode} /\ q.target \in Nodes \cup {NoNode}
  BY DEF Pod
<1>6. CASE Tick(h)
  <2> DEFINE v == [Idle EXCEPT !.pc = "deal", !.pod = kvs]
  <2>1. kvs \in Pod /\ proc' = [proc EXCEPT ![h] = v]
    BY <1>2, <1>6 DEF Tick
  <2>2. v \in Process /\ v.pc = "deal" /\ v.pod = kvs
    BY <1>3, <2>1, IdleType DEF Process, Idle
  <2>3. StepsTo(h, v)
    BY <2>1, <2>2 DEF StepsTo, GoodProcess, UpdatePCs
  <2>4. NodeUnchanged /\ UNCHANGED <<kvs, created, msgs, node, used>>
    BY <1>6 DEF Tick
  <2>5. QED BY <1>1, <1>2, <2>3, <2>4, OutsideStep
<1>7. CASE DealRemove(h)
  <2>1. StepsTo(h, Idle)
    BY <1>1, <1>7, FinishedStep DEF DealRemove
  <2>2. NodeUnchanged /\ UNCHANGED <<created, msgs, node, used>> /\ kvs' = NoPod
    BY <1>7 DEF DealRemove
  <2>3. QED BY <1>1, <1>2, <2>1, <2>2, OutsideStep
<1>8. CASE DealDeleting(h)
  <2>1. PICK v : StepsTo(h, v)
    <3>1. Finished(h) \/ Goto(h, "blocked")
      BY <1>8 DEF DealDeleting
    <3>2. QED BY <1>1, <1>3, <3>1, FinishedStep, GotoStep
  <2>2. pod.running \in Nodes
    BY <1>4, <1>5, <1>8 DEF DealDeleting, Removable
  <2>3. msgs' \subseteq Nodes /\ used' \in [Counters -> Nat]
    BY <1>2, <1>3, <1>8, <2>2, SpendType DEF DealDeleting
  <2>4. NodeUnchanged /\ UNCHANGED <<kvs, created, node>>
    BY <1>8 DEF DealDeleting
  <2>5. QED BY <1>1, <1>2, <2>1, <2>3, <2>4, OutsideStep
<1>9. CASE DealSchedule(h)
  <2>1. [pod EXCEPT !.target = Creator, !.running = Creator] \in Pod
    BY <1>1, <1>4, <1>9, CopyType DEF DealSchedule
  <2>2. PICK v : StepsTo(h, v)
    BY <1>1, <1>3, <1>9, <2>1, CallUpdateStep DEF DealSchedule
  <2>3. NodeUnchanged /\ UNCHANGED <<kvs, created, msgs, node, used>>
    BY <1>9 DEF DealSchedule
  <2>4. QED BY <1>1, <1>2, <2>2, <2>3, OutsideStep
<1>10. CASE DealRest(h)
  <2>1. StepsTo(h, Idle)
    BY <1>1, <1>10, FinishedStep DEF DealRest
  <2>2. NodeUnchanged /\ UNCHANGED <<kvs, created, msgs, node, used>>
    BY <1>10 DEF DealRest
  <2>3. QED BY <1>1, <1>2, <2>1, <2>2, OutsideStep
<1>11. CASE DealHandover(h)
  <2>1. Handover(pod) \in Pod
    BY <1>4, <1>11, HandoverType DEF DealHandover
  <2>2. PICK v : StepsTo(h, v)
    BY <1>1, <1>3, <1>11, <2>1, CallUpdateStep DEF DealHandover
  <2>3. NodeUnchanged /\ UNCHANGED <<kvs, created, msgs, node, used>>
    BY <1>11 DEF DealHandover
  <2>4. QED BY <1>1, <1>2, <2>2, <2>3, OutsideStep
<1>12. CASE DealReconcile(h)
  <2>1. StepsTo(h, Idle)
    BY <1>1, <1>12, FinishedStep DEF DealReconcile
  <2>2. msgs' \subseteq Nodes
    BY <1>2, <1>4, <1>5, <1>12 DEF DealReconcile, Reconcilable
  <2>3. NodeUnchanged /\ UNCHANGED <<kvs, created, node, used>>
    BY <1>12 DEF DealReconcile
  <2>4. QED BY <1>1, <1>2, <2>1, <2>2, <2>3, OutsideStep
<1>13. CASE DealTimeout(h)
  <2>1. MarkUnknown(pod) \in Pod
    BY <1>4, <1>13, HandoverType DEF DealTimeout
  <2>2. PICK v : StepsTo(h, v)
    BY <1>1, <1>3, <1>13, <2>1, CallUpdateStep DEF DealTimeout
  <2>3. pod.running \in Nodes
    BY <1>4, <1>5, <1>13 DEF DealTimeout, Reconcilable
  <2>4. msgs' \subseteq Nodes /\ used' \in [Counters -> Nat]
    BY <1>2, <1>3, <1>13, <2>3, SpendType DEF DealTimeout
  <2>5. NodeUnchanged /\ UNCHANGED <<kvs, created, node>>
    BY <1>13 DEF DealTimeout
  <2>6. QED BY <1>1, <1>2, <2>2, <2>4, <2>5, OutsideStep
<1>14. QED
  BY <1>1, <1>6, <1>7, <1>8, <1>9, <1>10, <1>11, <1>12, <1>13, OutsideUpdate DEF HolderStep

-----------------------------------------------------------------------------
(* What the CRI calls do to a good runtime. *)

LEMMA EmptyIsGood ==
    ASSUME NEW entry \in Entry, NEW ids \in SUBSET Nat, NEW next \in Nat \ {0}
    PROVE  EmptyRuntime \in Runtime /\ GoodRuntime(entry, EmptyRuntime, ids, next)
BY DEF EmptyRuntime, NoContainer, Runtime, Container, ContainerStates, NoId, GoodRuntime,
       Exists, Live

LEMMA RunSandboxGood ==
    ASSUME NEW entry \in Entry, NEW rt \in Runtime, NEW ids \in SUBSET Nat, NEW id \in Nat \ {0},
           GoodRuntime(entry, rt, ids, id), entry.known, rt.sandbox = NoId
    PROVE  /\ [entry EXCEPT !.sandbox = id] \in Entry
           /\ RunPodSandbox(rt, id) \in Runtime
           /\ RunPodSandbox(rt, id).sandbox = id
           /\ GoodRuntime([entry EXCEPT !.sandbox = id], RunPodSandbox(rt, id), ids, id + 1)
<1> DEFINE r == RunPodSandbox(rt, id)
           l == [entry EXCEPT !.sandbox = id]
<1>1. l \in Entry /\ l.known /\ l.sandbox = id
  BY DEF Entry
<1>2. r \in Runtime /\ r.sandbox = id /\ r.box = rt.box /\ id # NoId
  BY DEF RunPodSandbox, Runtime, NoId
<1>3. \A c \in Containers : ~ Exists(rt, c) /\ rt.box[c].id \in Nat
  BY DEF GoodRuntime, Runtime, Container
<1>4. GoodRuntime(l, r, ids, id + 1)
  BY <1>1, <1>2, <1>3 DEF GoodRuntime, Exists, Live
<1>5. QED BY <1>1, <1>2, <1>4

LEMMA RemoveSandboxGood ==
    ASSUME NEW entry \in Entry, NEW other \in Entry, NEW rt \in Runtime, NEW ids \in SUBSET Nat,
           NEW next \in Nat \ {0}, GoodRuntime(entry, rt, ids, next)
    PROVE  /\ RemoveSandbox(rt, entry.sandbox) \in Runtime
           /\ RemoveSandbox(rt, entry.sandbox).sandbox = NoId
           /\ GoodRuntime(other, RemoveSandbox(rt, entry.sandbox), ids, next)
<1>1. CASE entry.sandbox = rt.sandbox
  <2>1. RemoveSandbox(rt, entry.sandbox) = EmptyRuntime /\ EmptyRuntime.sandbox = NoId
    BY <1>1 DEF RemoveSandbox, EmptyRuntime
  <2>2. QED BY <2>1, EmptyIsGood
<1>2. CASE entry.sandbox # rt.sandbox
  <2>1. RemoveSandbox(rt, entry.sandbox) = rt /\ rt.sandbox = NoId
    BY <1>2 DEF RemoveSandbox, GoodRuntime
  <2>2. QED BY <2>1 DEF GoodRuntime
<1>3. QED BY <1>1, <1>2

(* A container that is made anew, started or not. *)
Made(rt, c, id) == {CreateContainer(rt, c, id), CreateAndStart(rt, c, id)}

LEMMA MadeGood ==
    ASSUME NEW entry \in Entry, NEW rt \in Runtime, NEW ids \in SUBSET Nat, NEW id \in Nat \ {0},
           GoodRuntime(entry, rt, ids, id), rt.sandbox # NoId,
           NEW c \in Containers, ~ Exists(rt, c),
           NEW more \in SUBSET Nat, ids \subseteq more, id \in more,
           NEW next \in Nat, id < next,
           NEW r, r \in Made(rt, c, id)
    PROVE  /\ r \in Runtime
           /\ r.sandbox = rt.sandbox
           /\ GoodRuntime(entry, r, more, next)
<1> DEFINE made == [id |-> id, state |-> "created", stopping |-> FALSE]
           started == [id |-> id, state |-> "running", stopping |-> FALSE]
<1>0. PICK k : k \in {made, started} /\ r = [rt EXCEPT !.box[c] = k]
  <2>1. CASE r = CreateContainer(rt, c, id)
    BY <2>1 DEF CreateContainer
  <2>2. CASE r = CreateAndStart(rt, c, id)
    BY <2>2 DEF CreateAndStart
  <2> QED
    BY <2>1, <2>2 DEF Made
<1>1. /\ r \in Runtime /\ r.sandbox = rt.sandbox /\ r.box[c] = k
      /\ \A d \in Containers : d # c => r.box[d] = rt.box[d]
      /\ \A d \in Containers : rt.box[d].id \in Nat
  <2>1. k \in Container
    <3>1. made \in Container
      BY DEF Container, ContainerStates
    <3>2. started \in Container
      BY DEF Container, ContainerStates
    <3> HIDE DEF made, started
    <3> QED
      BY <1>0, <3>1, <3>2
  <2> HIDE DEF made, started
  <2>2. r \in Runtime /\ r.sandbox = rt.sandbox /\ r.box = [rt.box EXCEPT ![c] = k]
    BY <1>0, <2>1 DEF Runtime
  <2> QED
    BY <2>1, <2>2 DEF Runtime, Container
<1>2. k.id = id /\ k.state \in {"created", "running"}
  BY <1>0
<1>3. ASSUME NEW d \in Containers
      PROVE  /\ r.box[d].id < next
             /\ Exists(r, d) <=> r.box[d].id # NoId
             /\ Live(r, d) /\ ~ r.box[d].stopping => r.box[d].id \in more
  <2>1. CASE d = c
    BY <1>1, <1>2, <2>1 DEF Exists, NoId
  <2>2. CASE d # c
    BY <1>1, <2>2 DEF Exists, Live, GoodRuntime
  <2>3. QED BY <2>1, <2>2
<1>4. ASSUME NEW d \in Containers, NEW e \in Containers,
             Exists(r, d), Exists(r, e), r.box[d].id = r.box[e].id
      PROVE  d = e
  BY <1>1, <1>2, <1>4 DEF Exists, GoodRuntime
<1>5. QED BY <1>1, <1>3, <1>4 DEF GoodRuntime

LEMMA StopContainerGood ==
    ASSUME NEW entry \in Entry, NEW rt \in Runtime, NEW ids \in SUBSET Nat, NEW next \in Nat \ {0},
           GoodRuntime(entry, rt, ids, next), NEW c \in Containers,
           NEW fewer, fewer = ids \ {rt.box[c].id}
    PROVE  /\ Live(rt, c) =>
                 /\ StopContainer(rt, c) \in Runtime
                 /\ StopContainer(rt, c).sandbox = rt.sandbox
                 /\ GoodRuntime(entry, StopContainer(rt, c), fewer, next)
           /\ ~ Live(rt, c) => GoodRuntime(entry, rt, fewer, next)
<1>1. \A d \in Containers : rt.box[d].id \in Nat
  BY DEF Runtime, Container
<1>2. ASSUME NEW d \in Containers, Live(rt, d), rt.box[d].id = rt.box[c].id PROVE d = c
  BY <1>1, <1>2 DEF GoodRuntime, Exists, Live
<1>3. CASE ~ Live(rt, c)
  BY <1>2, <1>3 DEF GoodRuntime
<1>4. CASE Live(rt, c)
  <2> DEFINE r == StopContainer(rt, c)
  <2>1. /\ r \in Runtime /\ r.sandbox = rt.sandbox
        /\ r.box[c].stopping /\ r.box[c].id = rt.box[c].id /\ r.box[c].state = rt.box[c].state
        /\ \A d \in Containers : d # c => r.box[d] = rt.box[d]
    BY DEF StopContainer, Runtime, Container
  <2>2. \A d \in Containers : r.box[d].id = rt.box[d].id /\ r.box[d].state = rt.box[d].state
    BY <2>1
  <2>3. \A d \in Containers : (Exists(r, d) <=> Exists(rt, d)) /\ (Live(r, d) <=> Live(rt, d))
    BY <2>2 DEF Exists, Live
  <2>4. ASSUME NEW d \in Containers, Live(r, d), ~ r.box[d].stopping
        PROVE  r.box[d].id \in fewer
    BY <1>2, <2>1, <2>2, <2>3, <2>4 DEF GoodRuntime
  <2>5. QED BY <1>4, <2>1, <2>2, <2>3, <2>4 DEF GoodRuntime
<1>5. QED BY <1>3, <1>4

LEMMA FinishGood ==
    ASSUME NEW entry \in Entry, NEW rt \in Runtime, NEW ids \in SUBSET Nat, NEW next \in Nat \ {0},
           GoodRuntime(entry, rt, ids, next), NEW c \in Containers, Live(rt, c)
    PROVE  /\ Finish(rt, c) \in Runtime
           /\ Finish(rt, c).sandbox = rt.sandbox
           /\ GoodRuntime(entry, Finish(rt, c), ids, next)
<1> DEFINE r == Finish(rt, c)
<1>1. /\ r \in Runtime /\ r.sandbox = rt.sandbox
      /\ r.box[c].id = rt.box[c].id /\ r.box[c].state = "exited"
      /\ \A d \in Containers : d # c => r.box[d] = rt.box[d]
  BY DEF Finish, Runtime, Container, ContainerStates
<1>2. \A d \in Containers :
         /\ r.box[d].id = rt.box[d].id
         /\ Exists(r, d) <=> Exists(rt, d)
         /\ Live(r, d) => Live(rt, d) /\ r.box[d] = rt.box[d]
  BY <1>1 DEF Exists, Live
<1>3. QED BY <1>1, <1>2 DEF GoodRuntime

-----------------------------------------------------------------------------
(* The actions of a reconcile *)

(* What is known of a reconcile that goes on: it has its node's entry.      *)
LEMMA ReconcileFacts ==
    ASSUME Coherent, NEW p \in Reconcilers, proc[p].pc \notin {"idle", "leave"}
    PROVE  /\ p \in Procs /\ NodeOf[p] \in Nodes
           /\ proc[p] \in Process /\ GoodProcess(p, proc[p])
           /\ local[NodeOf[p]] \in Entry /\ cri[NodeOf[p]] \in Runtime
           /\ drivers[NodeOf[p]] \in SUBSET Nat /\ nextId \in Nat \ {0}
           /\ local[NodeOf[p]].running /\ local[NodeOf[p]].known
           /\ ~ local[NodeOf[p]].willDelete
           /\ proc[p].pc \in {"pull", "start"} => cri[NodeOf[p]].sandbox # NoId
           /\ GoodRuntime(local[NodeOf[p]], cri[NodeOf[p]], drivers[NodeOf[p]], nextId)
<1>1. p \in Procs /\ NodeOf[p] \in Nodes
  BY PodSystemAssumption DEF Procs
<1>2. p \in ActiveOn(NodeOf[p])
  BY DEF ActiveOn, Reconciling
<1>3. GoodEntry(NodeOf[p])
      /\ GoodRuntime(local[NodeOf[p]], cri[NodeOf[p]], drivers[NodeOf[p]], nextId)
  BY <1>1 DEF Coherent
<1>4. QED
  BY <1>1, <1>2, <1>3 DEF Coherent, TypeOK, GoodEntry

(* A reconcile step that leaves the nodes alone. *)
LEMMA InsideStep ==
    ASSUME Coherent, NEW p \in Reconcilers, proc[p].pc \notin {"idle", "leave"},
           NEW v, StepsTo(p, v), v.pc # "idle",
           v.pc \in {"pull", "start"} => cri[NodeOf[p]].sandbox # NoId,
           NodeUnchanged, UNCHANGED <<kvs, created, msgs, node>>, used' \in [Counters -> Nat]
    PROVE  Coherent'
<1>1. p \in Procs
  BY ReconcileFacts
<1>2. QED BY <1>1, RecordFacts, RecordStep DEF StepsTo

(* A reconcile step that changes its node. *)
LEMMA InsideNodeStep ==
    ASSUME Coherent, NEW p \in Reconcilers, proc[p].pc \notin {"idle", "leave"},
           NEW v, StepsTo(p, v), v.pc # "idle",
           NEW l \in Entry, local' = [local EXCEPT ![NodeOf[p]] = l],
           NEW r \in Runtime, cri' = [cri EXCEPT ![NodeOf[p]] = r],
           NEW d \in SUBSET Nat, drivers' = [drivers EXCEPT ![NodeOf[p]] = d],
           nextId' \in Nat, nextId <= nextId',
           l.running, l.known,
           l.willDelete => r.sandbox = NoId /\ v.pc = "leave",
           v.pc \in {"pull", "start"} => r.sandbox # NoId,
           GoodRuntime(l, r, d, nextId'),
           UNCHANGED <<kvs, created, msgs, node>>, used' \in [Counters -> Nat]
    PROVE  Coherent'
BY RecordFacts, NodeStep DEF StepsTo

LEMMA NotedType ==
    ASSUME NEW v \in Process, v.pod \in Pod, NEW c \in Containers, NEW s \in ContainerStatus
    PROVE  /\ Noted(v, c, s) \in Process
           /\ Noted(v, c, s).pc = v.pc
           /\ Noted(v, c, s).pod \in Pod
BY DEF Noted, Process, Pod

(* The steps that only change the copy of the record or end the reconcile. *)
LEMMA CopyStepsKeep ==
    ASSUME Coherent, NEW p \in Reconcilers,
           \/ GetFails(p) \/ ReconcileTerminate(p) \/ PullImages(p) \/ PullFails(p) \/ StartDone(p)
           \/ TeardownDone(p) \/ RecordFails(p)
           \/ \E c \in Containers : FindContainer(p, c) \/ CreateFails(p, c) \/ TeardownHangs(p, c)
           \/ UpdateCheck(p) \/ UpdateSet(p) \/ UpdateFails(p)
    PROVE  Coherent'
<1>1. used \in [Counters -> Nat] /\ kvs \in Pod \cup {NoPod} /\ "faults" \in Counters
  BY RecordFacts DEF Counters
<1>2. /\ {"get", "pull", "start", "teardown", "check", "set"} \cap {"idle", "leave"} = {}
      /\ {"info", "teardown", "stuck", "start"} \subseteq PCs \ UpdatePCs
      /\ {"pull", "start", "teardown"} \subseteq HasCopyPCs
  BY DEF PCs, ReconcilePCs, UpdatePCs, HasCopyPCs
<1>3. ASSUME GetFails(p) \/ PullFails(p) \/ RecordFails(p) PROVE Coherent'
  <2>1. proc[p].pc \notin {"idle", "leave"} /\ Fail(p)
    BY <1>2, <1>3 DEF GetFails, PullFails, RecordFails, At
  <2>2. p \in Procs
    BY <2>1, ReconcileFacts
  <2>3. PICK v : StepsTo(p, v) /\ v.pc = "leave"
    BY <2>1, <2>2, FailStep
  <2>4. NodeUnchanged /\ UNCHANGED <<kvs, created, msgs, node>> /\ used' \in [Counters -> Nat]
    BY <1>1, <1>3, SpendType DEF GetFails, PullFails, RecordFails
  <2>5. QED BY <2>1, <2>3, <2>4, InsideStep
<1>4. ASSUME ReconcileTerminate(p) PROVE Coherent'
  <2>1. proc[p].pc \notin {"idle", "leave"} /\ kvs \in Pod
    BY <1>1, <1>2, <1>4 DEF ReconcileTerminate, Gets, At
  <2>2. p \in Procs
    BY <2>1, ReconcileFacts
  <2>3. PICK v : v \in {[Idle EXCEPT !.pc = "info", !.pod = kvs],
                        [Idle EXCEPT !.pc = "teardown", !.pod = kvs,
                               !.todo = NotExited(cri[NodeOf[p]], local[NodeOf[p]].sandbox)]}
                 /\ proc' = [proc EXCEPT ![p] = v]
    BY <1>4 DEF ReconcileTerminate
  <2>4. NotExited(cri[NodeOf[p]], local[NodeOf[p]].sandbox) \in SUBSET Containers
    BY DEF NotExited
  <2>5. v \in Process /\ v.pc \in {"info", "teardown"} /\ v.pod = kvs
    BY <1>2, <2>1, <2>3, <2>4, IdleType DEF Process, Idle
  <2>6. StepsTo(p, v)
    BY <2>1, <2>3, <2>5 DEF StepsTo, GoodProcess, UpdatePCs
  <2>7. NodeUnchanged /\ UNCHANGED <<kvs, created, msgs, node, used>>
    BY <1>4 DEF ReconcileTerminate
  <2>8. QED BY <1>1, <2>1, <2>5, <2>6, <2>7, InsideStep
<1>5. ASSUME StartDone(p) \/ TeardownDone(p) PROVE Coherent'
  <2>1. /\ proc[p].pc \in {"start", "teardown"} /\ Goto(p, "info")
        /\ NodeUnchanged /\ UNCHANGED <<kvs, created, msgs, node, used>>
    BY <1>5 DEF StartDone, TeardownDone, At
  <2>2. p \in Procs
    BY <1>2, <2>1, ReconcileFacts
  <2>3. PICK v : StepsTo(p, v) /\ v.pc = "info"
    BY <1>2, <2>1, <2>2, GotoStep
  <2>4. QED BY <1>1, <2>1, <2>3, InsideStep
<1>6. ASSUME NEW c \in Containers, FindContainer(p, c) \/ CreateFails(p, c) PROVE Coherent'
  <2>1. proc[p].pc = "start" /\ proc[p].pc \notin {"idle", "leave"}
    BY <1>6 DEF FindContainer, CreateFails, At
  <2>2. /\ p \in Procs /\ proc[p] \in Process /\ proc[p].pod \in Pod
        /\ cri[NodeOf[p]].sandbox # NoId
    BY <1>2, <2>1, ReconcileFacts DEF GoodProcess
  <2>3. PICK v : v \in Process /\ v.pc = "start" /\ v.pod \in Pod /\ proc' = [proc EXCEPT ![p] = v]
    <3>1. CASE FindContainer(p, c)
      <4>1. PICK started \in BOOLEAN :
              proc' = [proc EXCEPT ![p] = Noted(proc[p], c, Found(proc[p].pod.status[c], started))]
        BY <3>1 DEF FindContainer
      <4>2. proc[p].pod.status[c] \in ContainerStatus
        BY <2>2 DEF Pod
      <4>3. Found(proc[p].pod.status[c], started) \in ContainerStatus
        BY <4>2 DEF Found, Filled, ContainerStatus, NoId
      <4>4. QED BY <2>1, <2>2, <4>1, <4>3, NotedType
    <3>2. CASE CreateFails(p, c)
      <4> DEFINE v == [proc[p] EXCEPT !.todo = @ \ {c}]
      <4>1. proc' = [proc EXCEPT ![p] = v]
        BY <3>2 DEF CreateFails
      <4>2. v \in Process /\ v.pc = "start" /\ v.pod \in Pod
        BY <2>1, <2>2 DEF Process
      <4>3. QED BY <4>1, <4>2
    <3>3. QED BY <1>6, <3>1, <3>2
  <2>4. StepsTo(p, v)
    BY <2>3 DEF StepsTo, GoodProcess, UpdatePCs
  <2>5. NodeUnchanged /\ UNCHANGED <<kvs, created, msgs, node>> /\ used' \in [Counters -> Nat]
    BY <1>1, <1>6, SpendType DEF FindContainer, CreateFails
  <2>6. QED BY <2>1, <2>2, <2>3, <2>4, <2>5, InsideStep
<1>7. ASSUME NEW c \in Containers, TeardownHangs(p, c) PROVE Coherent'
  <2>1. proc[p].pc \notin {"idle", "leave"} /\ proc' = [proc EXCEPT ![p] = [Idle EXCEPT !.pc = "stuck"]]
        /\ NodeUnchanged /\ UNCHANGED <<kvs, created, msgs, node>> /\ used' \in [Counters -> Nat]
    BY <1>1, <1>2, <1>7, SpendType DEF TeardownHangs, At
  <2> DEFINE v == [Idle EXCEPT !.pc = "stuck"]
  <2>2. v \in Process /\ v.pc = "stuck"
    BY IdleType DEF Idle
  <2>3. StepsTo(p, v)
    BY <2>1, <2>2 DEF StepsTo, GoodProcess, UpdatePCs, HasCopyPCs
  <2>4. QED BY <1>1, <2>1, <2>2, <2>3, InsideStep
<1>8. ASSUME UpdateCheck(p) PROVE Coherent'
  <2>1. p \in Procs
    BY DEF Procs
  <2>2. PICK v : StepsTo(p, v) /\ v.pc \in {"set", "leave"}
    BY <1>8, <2>1, UpdateCheckGood
  <2>3. proc[p].pc \notin {"idle", "leave"} /\ NodeUnchanged /\ UNCHANGED <<kvs, created, msgs, node, used>>
    BY <1>8, <2>1, UpdateCheckGood DEF UpdateCheck
  <2>4. QED BY <1>1, <2>2, <2>3, InsideStep
<1>9. ASSUME UpdateSet(p) PROVE Coherent'
  <2>1. p \in Procs
    BY DEF Procs
  <2>2. proc[p].pc = "set" /\ kvs' \in Pod /\ Valid(kvs')
    BY <1>9, <2>1, UpdateSetGood
  <2>3. proc[p].then \in {"leave", "drop", "remove"}
    BY <2>2, ReconcileFacts DEF GoodProcess, UpdatePCs
  <2>4. PICK v : StepsTo(p, v) /\ v.pc = proc[p].then
    BY <1>9, <2>1, UpdateSetGood
  <2>5. NodeUnchanged /\ UNCHANGED <<created, msgs, node, used>>
    BY <1>9 DEF UpdateSet
  <2>6. QED BY <2>1, <2>2, <2>3, <2>4, <2>5, RecordFacts, RecordStep DEF StepsTo
<1>10. ASSUME UpdateFails(p) PROVE Coherent'
  <2>1. p \in Procs
    BY DEF Procs
  <2>2. PICK v : StepsTo(p, v) /\ v.pc = "leave"
    BY <1>10, <2>1, UpdateFailsGood
  <2>3. proc[p].pc \notin {"idle", "leave"}
    BY <1>10, <2>1, UpdateFailsGood DEF UpdatePCs
  <2>4. NodeUnchanged /\ UNCHANGED <<kvs, created, msgs, node>> /\ used' \in [Counters -> Nat]
    BY <1>10, <2>1, UpdateFailsGood DEF UpdateFails
  <2>5. QED BY <2>2, <2>3, <2>4, InsideStep
<1>11. ASSUME PullImages(p) PROVE Coherent'
  <2>1. /\ proc[p].pc = "pull" /\ Goto(p, "start")
        /\ NodeUnchanged /\ UNCHANGED <<kvs, created, msgs, node, used>>
    BY <1>11 DEF PullImages, At
  <2>2. p \in Procs /\ cri[NodeOf[p]].sandbox # NoId
    BY <1>2, <2>1, ReconcileFacts
  <2>3. PICK v : StepsTo(p, v) /\ v.pc = "start"
    BY <1>2, <2>1, <2>2, GotoStep
  <2>4. QED BY <1>1, <1>2, <2>1, <2>2, <2>3, InsideStep
<1>12. QED BY <1>3, <1>4, <1>5, <1>6, <1>7, <1>8, <1>9, <1>10, <1>11

LEMMA SameAt ==
    ASSUME NEW S, NEW T, NEW f \in [S -> T], NEW x \in S
    PROVE  f = [f EXCEPT ![x] = f[x]]
OBVIOUS

LEMMA StatusType ==
    ASSUME Coherent, NEW p \in Reconcilers, proc[p].pc = "info"
    PROVE  [proc[p].pod EXCEPT !.status = NewStatus(p)] \in Pod
<1>1. NodeOf[p] \in Nodes /\ proc[p].pod \in Pod /\ cri[NodeOf[p]] \in Runtime
  BY ReconcileFacts DEF GoodProcess, HasCopyPCs
<1>2. ASSUME NEW c \in Containers PROVE NewStatus(p)[c] \in ContainerStatus
  <2> DEFINE s == proc[p].pod.status[c]
             k == cri[NodeOf[p]].box[c]
  <2>1. s \in ContainerStatus /\ k.id \in Nat
    BY <1>1 DEF Pod, Runtime, Container
  <2>2. Missing(s) \in ContainerStatus
    BY <2>1 DEF Missing, ContainerStatus
  <2>3. Adopted(s, k) \in ContainerStatus
    BY <2>1 DEF Adopted, ContainerStatus
  <2>4. Observed(s, k) \in ContainerStatus
    BY <2>3 DEF Observed, ContainerStatus
  <2>5. QED BY <2>2, <2>4 DEF NewStatus
<1>3. NewStatus(p) \in [Containers -> ContainerStatus]
  BY <1>2 DEF NewStatus
<1>4. QED BY <1>1, <1>3, CopyType

(* letRunning: the sandbox and the containers. *)
LEMMA RunStepsKeep ==
    ASSUME Coherent, NEW p \in Reconcilers,
           \/ ReconcileRun(p) \/ SandboxRefused(p)
           \/ \E c \in Containers : StartContainer(p, c) \/ StartFails(p, c)
    PROVE  Coherent'
<1> DEFINE n == NodeOf[p]
           waiting == {c \in Containers : ~ kvs.status[c].running}
<1>1. used \in [Counters -> Nat] /\ kvs \in Pod \cup {NoPod} /\ "faults" \in Counters
  BY RecordFacts DEF Counters
<1>2. proc[p].pc \notin {"idle", "leave"}
  BY DEF ReconcileRun, SandboxRefused, StartContainer, StartFails, Gets, At
<1>3. /\ p \in Procs /\ n \in Nodes
      /\ proc[p] \in Process /\ GoodProcess(p, proc[p])
      /\ local[n] \in Entry /\ cri[n] \in Runtime
      /\ drivers[n] \in SUBSET Nat /\ nextId \in Nat \ {0}
      /\ local[n].running /\ local[n].known /\ ~ local[n].willDelete
      /\ proc[p].pc \in {"pull", "start"} => cri[n].sandbox # NoId
      /\ GoodRuntime(local[n], cri[n], drivers[n], nextId)
  BY <1>2, ReconcileFacts
<1>4. /\ local = [local EXCEPT ![n] = local[n]] /\ cri = [cri EXCEPT ![n] = cri[n]]
      /\ drivers = [drivers EXCEPT ![n] = drivers[n]]
  BY <1>3, SameAt DEF Coherent, TypeOK
<1>5. ASSUME ReconcileRun(p) PROVE Coherent'
  <2>1. kvs \in Pod /\ n \in Nodes
    BY <1>1, <1>3, <1>5 DEF ReconcileRun, Gets
  <2>2. UNCHANGED <<kvs, created, drivers, msgs, node, used>>
    BY <1>5 DEF ReconcileRun
  <2> DEFINE informs == [Idle EXCEPT !.pc = "info", !.pod = kvs]
             starts == [Idle EXCEPT !.pc = "pull", !.pod = kvs, !.todo = waiting]
  <2>3. informs \in Process /\ informs.pc = "info" /\ informs.pod = kvs
        /\ starts \in Process /\ starts.pc = "pull" /\ starts.pod = kvs
    BY <2>1, IdleType DEF Process, Idle, PCs, ReconcilePCs
  <2>4. ASSUME n \notin Allowed,
               proc' = [proc EXCEPT ![p] = informs],
               UNCHANGED <<local, cri, nextId>>
        PROVE  Coherent'
    <3>1. StepsTo(p, informs)
      BY <2>1, <2>3, <2>4 DEF StepsTo, GoodProcess, UpdatePCs
    <3>2. NodeUnchanged
      BY <2>2, <2>4 DEF NodeUnchanged
    <3>3. QED BY <1>1, <1>2, <2>2, <2>3, <3>1, <3>2, InsideStep
  <2>5. ASSUME local[n].sandbox = NoId, cri[n].sandbox = NoId,
               cri' = [cri EXCEPT ![n] = RunPodSandbox(cri[n], nextId)],
               local' = [local EXCEPT ![n].sandbox = nextId],
               nextId' = nextId + 1,
               proc' = [proc EXCEPT ![p] = starts]
        PROVE  Coherent'
    <3> DEFINE l == [local[n] EXCEPT !.sandbox = nextId]
               r == RunPodSandbox(cri[n], nextId)
    <3>1. StepsTo(p, starts)
      BY <2>1, <2>3, <2>5 DEF StepsTo, GoodProcess, UpdatePCs
    <3>2. l \in Entry /\ r \in Runtime /\ r.sandbox = nextId
          /\ GoodRuntime(l, r, drivers[n], nextId + 1)
      BY <1>3, <2>5, RunSandboxGood
    <3>3. l.running /\ l.known /\ ~ l.willDelete
      BY <1>3 DEF Entry
    <3>4. local' = [local EXCEPT ![n] = l] /\ cri' = [cri EXCEPT ![n] = r]
          /\ drivers' = [drivers EXCEPT ![n] = drivers[n]]
      BY <1>4, <2>2, <2>5
    <3>5. nextId' \in Nat /\ nextId <= nextId' /\ nextId # NoId
      BY <1>3, <2>5 DEF NoId
    <3>6. GoodRuntime(l, r, drivers[n], nextId') /\ r.sandbox # NoId
      BY <2>5, <3>2, <3>5
    <3> HIDE DEF l, r, starts
    <3>7. QED
      BY <1>1, <1>2, <1>3, <2>2, <2>3, <3>1, <3>2, <3>3, <3>4, <3>5, <3>6, InsideNodeStep
  <2>6. ASSUME local[n].sandbox # NoId, cri[n].sandbox = local[n].sandbox,
               proc' = [proc EXCEPT ![p] = starts],
               UNCHANGED <<local, cri, nextId>>
        PROVE  Coherent'
    <3>1. StepsTo(p, starts)
      BY <2>1, <2>3, <2>6 DEF StepsTo, GoodProcess, UpdatePCs
    <3>2. NodeUnchanged
      BY <2>2, <2>6 DEF NodeUnchanged
    <3>3. QED BY <1>1, <1>2, <2>2, <2>3, <2>6, <3>1, <3>2, InsideStep
  <2>7. ASSUME Fail(p), UNCHANGED <<local, cri, nextId>>
        PROVE  Coherent'
    <3>1. PICK v : StepsTo(p, v) /\ v.pc = "leave"
      BY <1>3, <2>7, FailStep
    <3>2. NodeUnchanged
      BY <2>2, <2>7 DEF NodeUnchanged
    <3>3. QED BY <1>1, <1>2, <2>2, <3>1, <3>2, InsideStep
  <2>8. QED
    BY <1>5, <2>4, <2>5, <2>6, <2>7 DEF ReconcileRun
<1>6. ASSUME SandboxRefused(p) PROVE Coherent'
  <2> DEFINE l == [local[n] EXCEPT !.willDelete = TRUE]
  <2>1. /\ local[n].sandbox = NoId /\ Fail(p) /\ local' = [local EXCEPT ![n].willDelete = TRUE]
        /\ UNCHANGED <<kvs, created, cri, drivers, msgs, node, nextId>>
    BY <1>6 DEF SandboxRefused
  <2>2. used' \in [Counters -> Nat]
    BY <1>1, <1>6, SpendType DEF SandboxRefused
  <2>3. PICK v : StepsTo(p, v) /\ v.pc = "leave"
    BY <1>3, <2>1, FailStep
  <2>4. l \in Entry /\ l.running /\ l.known /\ l.sandbox = local[n].sandbox
    BY <1>3 DEF Entry
  <2>5. cri[n].sandbox = NoId
    BY <1>3, <2>1 DEF GoodRuntime
  <2>6. GoodRuntime(l, cri[n], drivers[n], nextId)
    BY <1>3, <2>4 DEF GoodRuntime
  <2>7. local' = [local EXCEPT ![n] = l] /\ cri' = [cri EXCEPT ![n] = cri[n]]
        /\ drivers' = [drivers EXCEPT ![n] = drivers[n]]
        /\ nextId' \in Nat /\ nextId <= nextId' /\ nextId' = nextId
    BY <1>3, <1>4, <2>1
  <2>8. GoodRuntime(l, cri[n], drivers[n], nextId')
    BY <2>6, <2>7
  <2> HIDE DEF l
  <2>9. QED
    BY <1>2, <1>3, <2>1, <2>2, <2>3, <2>4, <2>5, <2>7, <2>8, InsideNodeStep
<1>7. ASSUME NEW c \in Containers, StartContainer(p, c) \/ StartFails(p, c) PROVE Coherent'
  <2>0. PICK r \in Made(cri[n], c, nextId),
             s \in {proc[p].pod.status[c], Listed(proc[p].pod.status[c], nextId),
                   Filled(proc[p].pod.status[c], nextId)} :
            cri' = [cri EXCEPT ![n] = r] /\ proc' = [proc EXCEPT ![p] = Noted(proc[p], c, s)]
    <3>1. CASE StartContainer(p, c)
      BY <3>1 DEF StartContainer, Made
    <3>2. CASE StartFails(p, c)
      BY <3>2 DEF StartFails, Made
    <3> QED
      BY <1>7, <3>1, <3>2
  <2> DEFINE d == drivers[n] \cup {nextId}
             v == Noted(proc[p], c, s)
  <2>1. /\ proc[p].pc = "start" /\ ~ Exists(cri[n], c)
        /\ cri' = [cri EXCEPT ![n] = r] /\ drivers' = [drivers EXCEPT ![n] = d]
        /\ nextId' = nextId + 1
        /\ proc' = [proc EXCEPT ![p] = v]
        /\ UNCHANGED <<kvs, created, local, msgs, node>> /\ used' \in [Counters -> Nat]
    BY <1>1, <1>7, <2>0, SpendType DEF StartContainer, StartFails, At
  <2>2. proc[p].pod \in Pod
    BY <1>3, <2>1 DEF GoodProcess, HasCopyPCs
  <2>3. proc[p].pod.status[c] \in ContainerStatus
    BY <2>2 DEF Pod
  <2>4. s \in ContainerStatus
    <3>1. Filled(proc[p].pod.status[c], nextId) \in ContainerStatus
      BY <1>3, <2>3 DEF Filled, ContainerStatus
    <3>2. Listed(proc[p].pod.status[c], nextId) \in ContainerStatus
      BY <1>3, <2>3 DEF Listed, ContainerStatus
    <3> QED
      BY <2>3, <3>1, <3>2
  <2>5. v \in Process /\ v.pc = "start" /\ v.pod \in Pod
    BY <1>3, <2>1, <2>2, <2>4, NotedType
  <2>6. StepsTo(p, v)
    BY <2>1, <2>5 DEF StepsTo, GoodProcess, UpdatePCs
  <2>7. r \in Runtime /\ r.sandbox # NoId /\ GoodRuntime(local[n], r, d, nextId + 1)
        /\ d \in SUBSET Nat
    <3>1. /\ cri[n].sandbox # NoId
          /\ d \in SUBSET Nat /\ drivers[n] \subseteq d /\ nextId \in d
          /\ nextId + 1 \in Nat /\ nextId < nextId + 1
      BY <1>3, <2>1
    <3> DEFINE rt == cri[n]
               entry == local[n]
               next == nextId + 1
    <3>2. /\ entry \in Entry /\ rt \in Runtime /\ drivers[n] \in SUBSET Nat
          /\ nextId \in Nat \ {0} /\ rt.sandbox # NoId
          /\ GoodRuntime(entry, rt, drivers[n], nextId)
          /\ ~ Exists(rt, c) /\ r \in Made(rt, c, nextId)
          /\ next \in Nat /\ nextId < next
      BY <1>3, <2>1, <3>1
    <3> HIDE DEF d, next, rt, entry, v, n
    <3>3. r \in Runtime /\ r.sandbox = rt.sandbox /\ GoodRuntime(entry, r, d, next)
      BY <3>1, <3>2, MadeGood
    <3>4. QED BY <3>1, <3>2, <3>3 DEF next, entry
  <2>8. local' = [local EXCEPT ![n] = local[n]] /\ nextId' \in Nat /\ nextId <= nextId'
    BY <1>3, <1>4, <2>1
  <2>9. GoodRuntime(local[n], r, d, nextId')
    BY <2>1, <2>7
  <2>10. /\ cri' = [cri EXCEPT ![n] = r] /\ drivers' = [drivers EXCEPT ![n] = d]
         /\ UNCHANGED <<kvs, created, msgs, node>> /\ used' \in [Counters -> Nat]
    BY <2>1
  <2>11. local[n] \in Entry /\ local[n].running /\ local[n].known /\ ~ local[n].willDelete
    BY <1>3
  <2> HIDE DEF d, v
  <2>12. QED
    BY <1>2, <2>5, <2>6, <2>7, <2>8, <2>9, <2>10, <2>11, InsideNodeStep
<1>8. QED BY <1>5, <1>6, <1>7

(* The steps that stop containers or remove the sandbox. *)
LEMMA StopStepsKeep ==
    ASSUME Coherent, NEW p \in Reconcilers,
           \/ ReconcileElsewhere(p) \/ UpdateInfo(p) \/ UpdateInfoErrs(p) \/ Remove(p)
           \/ \E c \in Containers : Teardown(p, c)
    PROVE  Coherent'
<1> DEFINE n == NodeOf[p]
           gone == RemoveSandbox(cri[n], local[n].sandbox)
<1>1. used \in [Counters -> Nat] /\ kvs \in Pod \cup {NoPod}
  BY RecordFacts
<1>2. proc[p].pc \in {"get", "info", "remove", "drop", "teardown"}
  BY DEF ReconcileElsewhere, UpdateInfo, UpdateInfoErrs, Remove, Teardown, Gets, At
<1>3. /\ p \in Procs /\ n \in Nodes
      /\ proc[p] \in Process /\ GoodProcess(p, proc[p])
      /\ local[n] \in Entry /\ cri[n] \in Runtime
      /\ drivers[n] \in SUBSET Nat /\ nextId \in Nat \ {0}
      /\ local[n].running /\ local[n].known /\ ~ local[n].willDelete
      /\ GoodRuntime(local[n], cri[n], drivers[n], nextId)
  BY <1>2, ReconcileFacts
<1>4. /\ local = [local EXCEPT ![n] = local[n]] /\ cri = [cri EXCEPT ![n] = cri[n]]
      /\ drivers = [drivers EXCEPT ![n] = drivers[n]]
  BY <1>3, SameAt DEF Coherent, TypeOK
<1>5. gone \in Runtime /\ gone.sandbox = NoId
      /\ \A l \in Entry : GoodRuntime(l, gone, drivers[n], nextId)
  BY <1>3, RemoveSandboxGood
(* The shape all these steps but Teardown have. *)
<1>6. ASSUME NEW v, StepsTo(p, v), v.pc # "idle", v.pc \notin {"pull", "start"},
             NEW will \in BOOLEAN, will => v.pc = "leave",
             NEW removed \in BOOLEAN, will => removed,
             local' = [local EXCEPT ![n] = [local[n] EXCEPT !.willDelete = will]],
             cri' = [cri EXCEPT ![n] = IF removed THEN gone ELSE cri[n]],
             UNCHANGED <<kvs, created, drivers, msgs, node, nextId, used>>
      PROVE  Coherent'
  <2> DEFINE l == [local[n] EXCEPT !.willDelete = will]
             r == IF removed THEN gone ELSE cri[n]
  <2>1. l \in Entry /\ l.running /\ l.known /\ l.sandbox = local[n].sandbox /\ l.willDelete = will
    BY <1>3 DEF Entry
  <2>2. GoodRuntime(l, cri[n], drivers[n], nextId)
    BY <1>3, <2>1 DEF GoodRuntime
  <2>3. r \in Runtime /\ GoodRuntime(l, r, drivers[n], nextId) /\ (will => r.sandbox = NoId)
    BY <1>3, <1>5, <1>6, <2>1, <2>2
  <2>4. /\ local' = [local EXCEPT ![n] = l] /\ cri' = [cri EXCEPT ![n] = r]
        /\ drivers' = [drivers EXCEPT ![n] = drivers[n]]
        /\ nextId' = nextId /\ used' \in [Counters -> Nat]
    BY <1>1, <1>4, <1>6
  <2>5. GoodRuntime(l, r, drivers[n], nextId') /\ nextId' \in Nat /\ nextId <= nextId'
    BY <1>3, <2>3, <2>4
  <2> HIDE DEF l, r
  <2>6. QED
    BY <1>2, <1>3, <1>6, <2>1, <2>3, <2>4, <2>5, InsideNodeStep
<1>7. local = [local EXCEPT ![n] = [local[n] EXCEPT !.willDelete = FALSE]]
  <2>1. [local[n] EXCEPT !.willDelete = FALSE] = local[n]
    BY <1>3 DEF Entry
  <2>2. QED BY <1>4, <2>1
<1>8. ASSUME ReconcileElsewhere(p) PROVE Coherent'
  <2>1. PICK v : StepsTo(p, v) /\ v.pc = "leave"
    BY <1>3, <1>8, FailStep DEF ReconcileElsewhere
  <2>2. UNCHANGED <<kvs, created, drivers, msgs, node, nextId, used>>
    BY <1>8 DEF ReconcileElsewhere
  <2>3. CASE local[n].sandbox # NoId
    <3>1. cri' = [cri EXCEPT ![n] = gone]
          /\ local' = [local EXCEPT ![n] = [local[n] EXCEPT !.willDelete = TRUE]]
      BY <1>8, <2>3 DEF ReconcileElsewhere
    <3> HIDE DEF gone, n
    <3>2. QED BY <1>6, <2>1, <2>2, <3>1
  <2>4. CASE local[n].sandbox = NoId
    <3>1. cri' = [cri EXCEPT ![n] = cri[n]]
          /\ local' = [local EXCEPT ![n] = [local[n] EXCEPT !.willDelete = FALSE]]
      BY <1>4, <1>7, <1>8, <2>4 DEF ReconcileElsewhere
    <3> HIDE DEF gone, n
    <3>2. QED BY <1>6, <2>1, <2>2, <3>1
  <2>5. QED BY <2>3, <2>4
<1>9. ASSUME UpdateInfo(p) PROVE Coherent'
  <2> DEFINE pod == [proc[p].pod EXCEPT !.status = NewStatus(p)]
  <2>1. pod \in Pod
    BY <1>9, StatusType DEF UpdateInfo, At
  <2>2. PICK then \in {"drop", "remove", "leave"} : CallUpdate(p, pod, then)
    BY <1>9 DEF UpdateInfo
  <2>3. PICK v : StepsTo(p, v) /\ v.pc \in {"check", "leave"}
    <3>1. then \in Afters
      BY <2>2 DEF Afters
    <3> HIDE DEF pod
    <3>2. QED BY <1>3, <2>1, <2>2, <3>1, CallUpdateStep
  <2>4. /\ UNCHANGED <<kvs, created, drivers, msgs, node, nextId, used>>
        /\ local' = [local EXCEPT ![n] = [local[n] EXCEPT !.willDelete = FALSE]]
    BY <1>7, <1>9 DEF UpdateInfo
  <2>5. PICK removed \in BOOLEAN : cri' = [cri EXCEPT ![n] = IF removed THEN gone ELSE cri[n]]
    BY <1>4, <1>9 DEF UpdateInfo
  <2> HIDE DEF gone, n
  <2>6. QED BY <1>6, <2>3, <2>4, <2>5
<1>10. ASSUME UpdateInfoErrs(p) PROVE Coherent'
  <2>1. PICK v : StepsTo(p, v) /\ v.pc = "leave"
    BY <1>3, <1>10, FailStep DEF UpdateInfoErrs
  <2>2. /\ UNCHANGED <<kvs, created, drivers, msgs, node, nextId, used>>
        /\ local' = [local EXCEPT ![n] = [local[n] EXCEPT !.willDelete = FALSE]]
    BY <1>7, <1>10 DEF UpdateInfoErrs
  <2>3. PICK removed \in BOOLEAN : cri' = [cri EXCEPT ![n] = IF removed THEN gone ELSE cri[n]]
    BY <1>4, <1>10 DEF UpdateInfoErrs
  <2> HIDE DEF gone, n
  <2>4. QED BY <1>6, <2>1, <2>2, <2>3
<1>11. ASSUME Remove(p) PROVE Coherent'
  <2>1. PICK v : StepsTo(p, v) /\ v.pc = "leave"
    BY <1>3, <1>11, FailStep DEF Remove
  <2>2. PICK will \in BOOLEAN :
          local' = [local EXCEPT ![n] = [local[n] EXCEPT !.willDelete = will]]
    BY <1>3, <1>11 DEF Remove, Entry
  <2>3. /\ UNCHANGED <<kvs, created, drivers, msgs, node, nextId, used>>
        /\ cri' = [cri EXCEPT ![n] = gone]
    BY <1>11 DEF Remove
  <2> HIDE DEF gone, n
  <2>4. QED BY <1>6, <2>1, <2>2, <2>3
<1>12. ASSUME NEW c \in Containers, Teardown(p, c) PROVE Coherent'
  <2> DEFINE r == IF Live(cri[n], c) THEN StopContainer(cri[n], c) ELSE cri[n]
             d == drivers[n] \ {cri[n].box[c].id}
             v == [proc[p] EXCEPT !.todo = @ \ {c}]
  <2>1. /\ proc[p].pc = "teardown"
        /\ cri' = [cri EXCEPT ![n] = r] /\ drivers' = [drivers EXCEPT ![n] = d]
        /\ proc' = [proc EXCEPT ![p] = v]
        /\ UNCHANGED <<kvs, created, local, msgs, node, nextId, used>>
    BY <1>12 DEF Teardown, At
  <2>2. v \in Process /\ v.pc = "teardown" /\ v.pod = proc[p].pod
    BY <1>3, <2>1 DEF Process
  <2>3. StepsTo(p, v)
    BY <1>3, <2>1, <2>2 DEF StepsTo, GoodProcess, UpdatePCs, HasCopyPCs
  <2>4. d \in SUBSET Nat /\ d = drivers[n] \ {cri[n].box[c].id}
    BY <1>3
  <2>5. r \in Runtime /\ GoodRuntime(local[n], r, d, nextId)
    <3> DEFINE entry == local[n]
               rt == cri[n]
               ids == drivers[n]
               told == StopContainer(rt, c)
    <3>1. /\ rt \in Runtime /\ entry \in Entry /\ ids \in SUBSET Nat /\ nextId \in Nat \ {0}
          /\ d = ids \ {rt.box[c].id} /\ GoodRuntime(entry, rt, ids, nextId)
      BY <1>3
    <3> HIDE DEF d, entry, rt, ids
    <3>2. CASE Live(rt, c)
      <4>1. told \in Runtime /\ GoodRuntime(entry, told, d, nextId)
        BY <3>1, <3>2, StopContainerGood
      <4>2. r = told
        BY <3>2 DEF rt
      <4>3. QED BY <4>1, <4>2 DEF entry
    <3>3. CASE ~ Live(rt, c)
      <4>1. GoodRuntime(entry, rt, d, nextId)
        BY <3>1, <3>3, StopContainerGood
      <4>2. r = rt
        BY <3>3 DEF rt
      <4>3. QED BY <3>1, <4>1, <4>2 DEF entry
    <3>4. QED BY <3>2, <3>3
  <2>6. /\ local' = [local EXCEPT ![n] = local[n]] /\ nextId' = nextId
        /\ UNCHANGED <<kvs, created, msgs, node>> /\ used' \in [Counters -> Nat]
    BY <1>1, <1>4, <2>1
  <2>7. GoodRuntime(local[n], r, d, nextId') /\ nextId' \in Nat /\ nextId <= nextId'
    BY <1>3, <2>5, <2>6
  <2>8. /\ cri' = [cri EXCEPT ![n] = r] /\ drivers' = [drivers EXCEPT ![n] = d]
        /\ local[n] \in Entry /\ local[n].running /\ local[n].known /\ ~ local[n].willDelete
    BY <1>3, <2>1
  <2>9. proc[p].pc \notin {"idle", "leave"} /\ v.pc \notin {"idle", "pull", "start"}
    BY <2>1, <2>2
  <2> HIDE DEF r, d, v
  <2>10. QED
    BY <2>3, <2>4, <2>5, <2>6, <2>7, <2>8, <2>9, InsideNodeStep
<1>13. QED BY <1>8, <1>9, <1>10, <1>11, <1>12

-----------------------------------------------------------------------------
(* Beginning and end of a reconcile, and the nodes *)

LEMMA EnterKeeps ==
    ASSUME Coherent, NEW p \in Reconcilers, Enter(p)
    PROVE  Coherent'
<1> DEFINE n == NodeOf[p]
           l == [local[n] EXCEPT !.known = TRUE, !.running = TRUE]
<1>1. /\ p \in Procs /\ n \in Nodes /\ Reconcilers \subseteq Procs /\ NodeOf \in [Procs -> Nodes]
  BY PodSystemAssumption DEF Procs
<1>2. TypeOK /\ RecordValid /\ (\A q \in Procs : GoodProcess(q, proc[q]))
      /\ \A m \in Nodes : GoodEntry(m) /\ GoodRuntime(local[m], cri[m], drivers[m], nextId)
  BY DEF Coherent
<1>3. /\ proc[p].pc = "idle" /\ msgs' \subseteq Nodes
      /\ local' = [local EXCEPT ![n] = l]
      /\ UNCHANGED <<kvs, created, cri, drivers, node, nextId, used>>
  BY <1>2 DEF Enter, At, TypeOK
<1>4. /\ l \in Entry /\ l.known /\ l.running
      /\ l.willDelete = local[n].willDelete /\ l.sandbox = local[n].sandbox
  BY <1>1, <1>2 DEF TypeOK, Entry
<1>5. /\ local' \in [Nodes -> Entry] /\ local'[n] = l
      /\ \A m \in Nodes : m # n => local'[m] = local[m]
  BY <1>1, <1>2, <1>3, <1>4 DEF TypeOK
<1>6. ASSUME NEW m \in Nodes
      PROVE  GoodRuntime(local'[m], cri'[m], drivers'[m], nextId')
  <2>1. CASE m = n
    <3>1. GoodRuntime(local[n], cri[n], drivers[n], nextId)
      BY <1>1, <1>2
    <3>2. GoodRuntime(l, cri[n], drivers[n], nextId)
      BY <1>4, <3>1 DEF GoodRuntime
    <3>3. QED BY <1>3, <1>5, <2>1, <3>2
  <2>2. CASE m # n
    BY <1>2, <1>3, <1>5, <2>2
  <2>3. QED BY <2>1, <2>2
<1>7. CASE local[n].running
  <2>1. proc' = proc
    BY <1>7 DEF Enter
  <2>2. local[n].known
    BY <1>1, <1>2, <1>7 DEF GoodEntry
  <2>3. ASSUME NEW m \in Nodes PROVE GoodEntry(m)'
    <3>1. GoodEntry(m) /\ ActiveOn(m)' = ActiveOn(m)
      BY <1>2, <2>1 DEF ActiveOn, Reconciling
    <3>2. local'[m].running = local[m].running /\ local'[m].willDelete = local[m].willDelete
          /\ local'[m].known = local[m].known
      BY <1>1, <1>2, <1>4, <1>5, <1>7, <2>2 DEF TypeOK, Entry
    <3>3. QED BY <1>3, <2>1, <3>1, <3>2 DEF GoodEntry
  <2>4. TypeOK' /\ RecordValid'
    BY <1>2, <1>3, <1>5, <2>1 DEF TypeOK, RecordValid
  <2>5. \A q \in Procs : GoodProcess(q, proc'[q])
    BY <1>2, <2>1
  <2>6. QED BY <1>6, <2>3, <2>4, <2>5 DEF Coherent
<1>8. CASE ~ local[n].running
  <2>1. "get" \in PCs /\ "get" \notin HasCopyPCs \cup UpdatePCs
    BY DEF PCs, ReconcilePCs, HasCopyPCs, UpdatePCs
  <2>2. PICK v : StepsTo(p, v) /\ v.pc = "get"
    BY <1>1, <1>8, <2>1, GotoStep DEF Enter
  <2>3. /\ proc' \in [Procs -> Process]
        /\ \A q \in Procs : GoodProcess(q, proc'[q])
        /\ proc'[p] = v
        /\ \A q \in Procs : q # p => proc'[q] = proc[q]
    BY <1>1, <1>2, <2>2, ProcessStep DEF StepsTo
  <2>4. ASSUME NEW m \in Nodes PROVE GoodEntry(m)'
    <3>1. GoodEntry(m)
      BY <1>2
    <3>2. CASE m = n
      <4>1. ActiveOn(n) = {} /\ ~ local[n].willDelete
        BY <1>8, <3>1, <3>2 DEF GoodEntry
      <4>2. ActiveOn(m)' = {p}
        BY <1>1, <2>2, <2>3, <3>2, <4>1 DEF ActiveOn, Reconciling
      <4>3. QED BY <1>4, <1>5, <2>2, <2>3, <3>2, <4>1, <4>2 DEF GoodEntry
    <3>3. CASE m # n
      <4>1. ActiveOn(m)' = ActiveOn(m) /\ \A q \in ActiveOn(m) : proc'[q] = proc[q]
        BY <1>1, <2>3, <3>3 DEF ActiveOn, Reconciling
      <4>2. QED BY <1>3, <1>5, <3>1, <3>3, <4>1 DEF GoodEntry
    <3>4. QED BY <3>2, <3>3
  <2>5. TypeOK' /\ RecordValid'
    BY <1>2, <1>3, <1>5, <2>3 DEF TypeOK, RecordValid
  <2>6. QED BY <1>6, <2>3, <2>4, <2>5 DEF Coherent
<1>9. QED BY <1>7, <1>8

LEMMA LeaveKeeps ==
    ASSUME Coherent, NEW p \in Reconcilers, Leave(p)
    PROVE  Coherent'
<1> DEFINE n == NodeOf[p]
           l == IF local[n].willDelete THEN NoEntry ELSE [local[n] EXCEPT !.running = FALSE]
<1>1. /\ p \in Procs /\ n \in Nodes /\ Reconcilers \subseteq Procs /\ NodeOf \in [Procs -> Nodes]
  BY PodSystemAssumption DEF Procs
<1>2. TypeOK /\ RecordValid /\ (\A q \in Procs : GoodProcess(q, proc[q]))
      /\ \A m \in Nodes : GoodEntry(m) /\ GoodRuntime(local[m], cri[m], drivers[m], nextId)
  BY DEF Coherent
<1>3. /\ proc[p].pc = "leave"
      /\ local' = [local EXCEPT ![n] = l]
      /\ UNCHANGED <<kvs, created, cri, drivers, msgs, node, nextId, used>>
  BY DEF Leave, At
<1>4. /\ l \in Entry /\ ~ l.running /\ ~ l.willDelete
      /\ ~ local[n].willDelete => l.known = local[n].known /\ l.sandbox = local[n].sandbox
  <2>1. local[n] \in Entry
    BY <1>1, <1>2 DEF TypeOK
  <2>2. NoEntry \in Entry /\ ~ NoEntry.running /\ ~ NoEntry.willDelete
    BY DEF NoEntry, Entry, NoId
  <2>3. CASE local[n].willDelete
    BY <2>2, <2>3
  <2>4. CASE ~ local[n].willDelete
    BY <2>1, <2>4 DEF Entry
  <2>5. QED BY <2>3, <2>4
<1>5. /\ local' \in [Nodes -> Entry] /\ local'[n] = l
      /\ \A m \in Nodes : m # n => local'[m] = local[m]
  BY <1>1, <1>2, <1>3, <1>4 DEF TypeOK
<1>6. StepsTo(p, Idle) /\ Idle.pc = "idle"
  BY <1>1, FinishedStep DEF Leave
<1>7. /\ proc' \in [Procs -> Process]
      /\ \A q \in Procs : GoodProcess(q, proc'[q])
      /\ proc'[p] = Idle
      /\ \A q \in Procs : q # p => proc'[q] = proc[q]
  BY <1>1, <1>2, <1>6, ProcessStep DEF StepsTo
<1>8. ASSUME NEW m \in Nodes
      PROVE  GoodRuntime(local'[m], cri'[m], drivers'[m], nextId')
  <2>1. CASE m = n
    <3>1. GoodRuntime(local[n], cri[n], drivers[n], nextId) /\ GoodEntry(n)
      BY <1>1, <1>2
    <3>2. GoodRuntime(l, cri[n], drivers[n], nextId)
      BY <1>4, <3>1 DEF GoodRuntime, GoodEntry
    <3>3. QED BY <1>3, <1>5, <2>1, <3>2
  <2>2. CASE m # n
    BY <1>2, <1>3, <1>5, <2>2
  <2>3. QED BY <2>1, <2>2
<1>9. ASSUME NEW m \in Nodes PROVE GoodEntry(m)'
  <2>1. GoodEntry(m)
    BY <1>2
  <2>2. CASE m = n
    <3>1. ActiveOn(n) = {p}
      BY <1>1, <1>3, <2>1, <2>2 DEF ActiveOn, Reconciling, GoodEntry
    <3>2. ActiveOn(m)' = {}
      BY <1>1, <1>6, <1>7, <2>2, <3>1 DEF ActiveOn, Reconciling
    <3>3. QED BY <1>4, <1>5, <2>2, <3>2 DEF GoodEntry
  <2>3. CASE m # n
    <3>1. ActiveOn(m)' = ActiveOn(m) /\ \A q \in ActiveOn(m) : proc'[q] = proc[q]
      BY <1>1, <1>7, <2>3 DEF ActiveOn, Reconciling
    <3>2. QED BY <1>3, <1>5, <2>1, <2>3, <3>1 DEF GoodEntry
  <2>4. QED BY <2>2, <2>3
<1>10. TypeOK' /\ RecordValid'
  BY <1>2, <1>3, <1>5, <1>7 DEF TypeOK, RecordValid
<1>11. QED BY <1>7, <1>8, <1>9, <1>10 DEF Coherent

(* A node program that dies takes all it kept in memory with it. *)
LEMMA DyingKeeps ==
    ASSUME Coherent, NEW n \in Nodes, NodeDies(n),
           UNCHANGED <<kvs, created, nextId>>, used' \in [Counters -> Nat]
    PROVE  Coherent'
<1>1. Reconcilers \subseteq Procs /\ NodeOf \in [Procs -> Nodes]
  BY PodSystemAssumption DEF Procs
<1>2. TypeOK /\ RecordValid /\ (\A q \in Procs : GoodProcess(q, proc[q]))
      /\ \A m \in Nodes : GoodEntry(m) /\ GoodRuntime(local[m], cri[m], drivers[m], nextId)
  BY DEF Coherent
<1>3. NoEntry \in Entry /\ ~ NoEntry.running /\ ~ NoEntry.willDelete
  BY DEF NoEntry, Entry, NoId
<1>4. EmptyRuntime \in Runtime /\ EmptyRuntime.sandbox = NoId
      /\ GoodRuntime(NoEntry, EmptyRuntime, {}, nextId)
  BY <1>2, <1>3, EmptyIsGood DEF TypeOK, EmptyRuntime
<1>5. /\ local' \in [Nodes -> Entry] /\ local'[n] = NoEntry
      /\ cri' \in [Nodes -> Runtime] /\ cri'[n] = EmptyRuntime
      /\ drivers' \in [Nodes -> SUBSET Nat] /\ drivers'[n] = {}
      /\ \A m \in Nodes : m # n =>
            local'[m] = local[m] /\ cri'[m] = cri[m] /\ drivers'[m] = drivers[m]
  BY <1>2, <1>3, <1>4 DEF NodeDies, ProgramEnds, TypeOK
<1>6. /\ proc' \in [Procs -> Process]
      /\ \A q \in Procs : proc'[q] = IF NodeOf[q] = n THEN Idle ELSE proc[q]
  BY <1>2, IdleType DEF NodeDies, ProgramEnds, TypeOK
<1>7. ASSUME NEW q \in Procs PROVE GoodProcess(q, proc'[q])
  <2>1. GoodProcess(q, Idle)
    BY DEF GoodProcess, Idle, HasCopyPCs, UpdatePCs
  <2>2. QED BY <1>2, <1>6, <2>1
<1>8. ASSUME NEW m \in Nodes PROVE GoodEntry(m)'
  <2>1. CASE m = n
    <3>1. ActiveOn(m)' = {}
      BY <1>1, <1>6, <2>1 DEF ActiveOn, Reconciling, Idle
    <3>2. QED BY <1>3, <1>5, <2>1, <3>1 DEF GoodEntry
  <2>2. CASE m # n
    <3>1. ActiveOn(m)' = ActiveOn(m) /\ \A q \in ActiveOn(m) : proc'[q] = proc[q]
      BY <1>1, <1>6, <2>2 DEF ActiveOn, Reconciling
    <3>2. QED BY <1>2, <1>5, <2>2, <3>1 DEF GoodEntry
  <2>3. QED BY <2>1, <2>2
<1>9. ASSUME NEW m \in Nodes
      PROVE  GoodRuntime(local'[m], cri'[m], drivers'[m], nextId')
  BY <1>2, <1>4, <1>5
<1>10. TypeOK' /\ RecordValid'
  BY <1>2, <1>5, <1>6 DEF TypeOK, RecordValid, NodeDies, ProgramEnds
<1>11. QED BY <1>6, <1>7, <1>8, <1>9, <1>10 DEF Coherent

(* A node program that panics leaves the runtime as it is. *)
LEMMA PanicKeeps ==
    ASSUME Coherent, NEW n \in Nodes, NodePanics(n),
           UNCHANGED <<kvs, created, nextId>>, used' \in [Counters -> Nat]
    PROVE  Coherent'
<1>1. Reconcilers \subseteq Procs /\ NodeOf \in [Procs -> Nodes]
  BY PodSystemAssumption DEF Procs
<1>2. TypeOK /\ RecordValid /\ (\A q \in Procs : GoodProcess(q, proc[q]))
      /\ \A m \in Nodes : GoodEntry(m) /\ GoodRuntime(local[m], cri[m], drivers[m], nextId)
  BY DEF Coherent
<1>. DEFINE e == [local[n] EXCEPT !.running = FALSE, !.willDelete = FALSE]
<1>3. /\ local' = [local EXCEPT ![n] = e]
      /\ e \in Entry
      /\ e.known = local[n].known /\ e.sandbox = local[n].sandbox
      /\ ~ e.running /\ ~ e.willDelete
  <2>1. local[n] \in Entry
    BY <1>2 DEF TypeOK
  <2>2. local' = [local EXCEPT ![n] = e]
    BY DEF NodePanics
  <2>3. QED BY <2>1, <2>2 DEF Entry
<1>. HIDE DEF e
<1>4. UNCHANGED <<cri, drivers>>
  BY DEF NodePanics
<1>5. /\ local' \in [Nodes -> Entry] /\ local'[n] = e
      /\ \A m \in Nodes : m # n => local'[m] = local[m]
  BY <1>2, <1>3 DEF TypeOK
<1>6. /\ proc' \in [Procs -> Process]
      /\ \A q \in Procs : proc'[q] = IF NodeOf[q] = n THEN Idle ELSE proc[q]
  BY <1>2, IdleType DEF NodePanics, ProgramEnds, TypeOK
<1>7. ASSUME NEW q \in Procs PROVE GoodProcess(q, proc'[q])
  <2>1. GoodProcess(q, Idle)
    BY DEF GoodProcess, Idle, HasCopyPCs, UpdatePCs
  <2>2. QED BY <1>2, <1>6, <2>1
<1>8. ASSUME NEW m \in Nodes PROVE GoodEntry(m)'
  <2>1. CASE m = n
    <3>1. ActiveOn(m)' = {}
      BY <1>1, <1>6, <2>1 DEF ActiveOn, Reconciling, Idle
    <3>2. QED BY <1>3, <1>5, <2>1, <3>1 DEF GoodEntry
  <2>2. CASE m # n
    <3>1. ActiveOn(m)' = ActiveOn(m) /\ \A q \in ActiveOn(m) : proc'[q] = proc[q]
      BY <1>1, <1>6, <2>2 DEF ActiveOn, Reconciling
    <3>2. QED BY <1>2, <1>4, <1>5, <2>2, <3>1 DEF GoodEntry
  <2>3. QED BY <2>1, <2>2
<1>9. ASSUME NEW m \in Nodes
      PROVE  GoodRuntime(local'[m], cri'[m], drivers'[m], nextId')
  BY <1>2, <1>3, <1>4, <1>5 DEF GoodRuntime
<1>10. TypeOK' /\ RecordValid'
  BY <1>2, <1>4, <1>5, <1>6 DEF TypeOK, RecordValid, NodePanics, ProgramEnds
<1>11. QED BY <1>6, <1>7, <1>8, <1>9, <1>10 DEF Coherent

(* A container ends. *)
LEMMA FinishKeeps ==
    ASSUME Coherent, NEW n \in Nodes, NEW c \in Containers, Live(cri[n], c),
           cri' = [cri EXCEPT ![n] = Finish(cri[n], c)],
           UNCHANGED <<kvs, created, local, drivers, msgs, node, proc, nextId>>,
           used' \in [Counters -> Nat]
    PROVE  Coherent'
<1>1. TypeOK /\ RecordValid /\ (\A q \in Procs : GoodProcess(q, proc[q]))
      /\ \A m \in Nodes : GoodEntry(m) /\ GoodRuntime(local[m], cri[m], drivers[m], nextId)
  BY DEF Coherent
<1> DEFINE r == Finish(cri[n], c)
<1>2. r \in Runtime /\ r.sandbox = cri[n].sandbox
      /\ GoodRuntime(local[n], r, drivers[n], nextId)
  BY <1>1, FinishGood DEF TypeOK
<1>3. cri' \in [Nodes -> Runtime] /\ cri'[n] = r /\ \A m \in Nodes : m # n => cri'[m] = cri[m]
  BY <1>1, <1>2 DEF TypeOK
<1>4. ASSUME NEW m \in Nodes
      PROVE  GoodEntry(m)' /\ GoodRuntime(local'[m], cri'[m], drivers'[m], nextId')
  <2>1. cri'[m].sandbox = cri[m].sandbox
    BY <1>2, <1>3
  <2>2. ActiveOn(m)' = ActiveOn(m)
    BY DEF ActiveOn, Reconciling
  <2>3. GoodEntry(m)'
    BY <1>1, <2>1, <2>2 DEF GoodEntry
  <2>4. GoodRuntime(local'[m], cri'[m], drivers'[m], nextId')
    <3> HIDE DEF r
    <3>1. CASE m = n
      BY <1>2, <1>3, <3>1
    <3>2. CASE m # n
      BY <1>1, <1>3, <3>2
    <3>3. QED BY <3>1, <3>2
  <2>5. QED BY <2>3, <2>4
<1>5. TypeOK' /\ RecordValid'
  BY <1>1, <1>3 DEF TypeOK, RecordValid
<1>6. \A q \in Procs : GoodProcess(q, proc'[q])
  BY <1>1
<1>7. QED BY <1>4, <1>5, <1>6 DEF Coherent

-----------------------------------------------------------------------------
(* The theorems *)

(* Coherent is an inductive invariant: it holds of the initial state, which *)
(* has no pod, and no step of any goroutine, container or node violates it. *)
THEOREM CoherentInductive ==
    /\ Init => Coherent
    /\ Coherent /\ [Next]_vars => Coherent'
<1>1. ASSUME Init PROVE Coherent
  <2>1. NoEntry \in Entry /\ ~ NoEntry.running /\ ~ NoEntry.willDelete
    BY DEF NoEntry, Entry, NoId
  <2>2. EmptyRuntime \in Runtime /\ EmptyRuntime.sandbox = NoId
        /\ GoodRuntime(NoEntry, EmptyRuntime, {}, 1)
    BY <2>1, EmptyIsGood DEF EmptyRuntime
  <2>3. Idle \in Process /\ \A p \in Procs : GoodProcess(p, Idle)
    BY IdleType DEF GoodProcess, Idle, HasCopyPCs, UpdatePCs
  <2>4. TypeOK /\ RecordValid
    <3>1. /\ local \in [Nodes -> Entry] /\ cri \in [Nodes -> Runtime]
          /\ drivers \in [Nodes -> SUBSET Nat]
      BY <1>1, <2>1, <2>2 DEF Init
    <3>2. proc \in [Procs -> Process] /\ node \in [Nodes -> {"up", "left", "panicked"}]
      BY <1>1, <2>3 DEF Init
    <3>3. used \in [Counters -> Nat] /\ nextId \in Nat \ {0} /\ msgs \subseteq Nodes
          /\ created \in BOOLEAN /\ kvs = NoPod
      <4>1. used = [c \in Counters |-> 0] /\ nextId = 1 /\ msgs = {} /\ created = FALSE
            /\ kvs = NoPod
        BY <1>1 DEF Init
      <4>2. nextId \in Nat \ {0}
        BY <4>1, SMT
      <4>3. used \in [Counters -> Nat]
        BY <4>1
      <4>4. QED BY <4>1, <4>2, <4>3
    <3>4. QED BY <3>1, <3>2, <3>3 DEF TypeOK, RecordValid
  <2>5. ASSUME NEW n \in Nodes PROVE GoodEntry(n) /\ GoodRuntime(local[n], cri[n], drivers[n], nextId)
    <3>1. ActiveOn(n) = {}
      <4>1. \A p \in Reconcilers : proc[p].pc = "idle"
        BY <1>1 DEF Init, Idle, Procs
      <4>2. QED BY <4>1 DEF ActiveOn, Reconciling
    <3>2. GoodEntry(n)
      BY <1>1, <2>1, <3>1 DEF Init, GoodEntry
    <3>3. QED BY <1>1, <2>2, <3>2 DEF Init
  <2>6. \A p \in Procs : GoodProcess(p, proc[p])
    BY <1>1, <2>3 DEF Init
  <2>7. QED BY <2>4, <2>5, <2>6 DEF Coherent
<1>2. ASSUME Coherent, [Next]_vars PROVE Coherent'
  <2>1. used \in [Counters -> Nat] /\ {"faults", "exits", "crashes"} \subseteq Counters
    BY <1>2, RecordFacts DEF Counters
  <2>2. NodeOf \in [Procs -> Nodes] /\ Reconcilers \subseteq Procs
    BY PodSystemAssumption DEF Procs
  <2>3. ASSUME NEW p \in Reconcilers, ReconcileStep(p) PROVE Coherent'
    <3>1. ASSUME NEW c \in Containers, TeardownPanics(p, c) PROVE Coherent'
      <4>1. NodePanics(NodeOf[p]) /\ UNCHANGED <<kvs, created, nextId, used>>
        BY <3>1 DEF TeardownPanics
      <4>2. QED BY <1>2, <2>1, <2>2, <4>1, PanicKeeps
    <3>2. ASSUME NEW c \in Containers, TeardownErrs(p, c) PROVE Coherent'
      <4>1. used' \in [Counters -> Nat] /\ UNCHANGED <<kvs, created, nextId>>
        BY <2>1, <3>2, SpendType DEF TeardownErrs
      <4>2. CASE proc[p].pod.deleted
        <5>1. Fail(p) /\ NodeUnchanged /\ UNCHANGED <<kvs, created, msgs, node>>
          BY <3>2, <4>1, <4>2 DEF TeardownErrs, NodeUnchanged
        <5>2. PICK v : StepsTo(p, v) /\ v.pc = "leave"
          BY <2>2, <5>1, FailStep
        <5>3. proc[p].pc \notin {"idle", "leave"}
          BY <3>2 DEF TeardownErrs, At
        <5>4. QED BY <1>2, <4>1, <5>1, <5>2, <5>3, InsideStep
      <4>3. CASE ~ proc[p].pod.deleted
        <5>1. NodePanics(NodeOf[p])
          BY <3>2, <4>3 DEF TeardownErrs
        <5>2. QED BY <1>2, <2>2, <4>1, <5>1, PanicKeeps
      <4>4. QED BY <4>2, <4>3
    <3>3. QED
      BY <1>2, <2>3, <3>1, <3>2, EnterKeeps, LeaveKeeps, CopyStepsKeep, RunStepsKeep,
         StopStepsKeep DEF ReconcileStep
  <2>4. ASSUME NEW n \in Nodes, NEW c \in Containers, ContainerStops(n, c) \/ ContainerExits(n, c)
        PROVE  Coherent'
    <3>1. used' \in [Counters -> Nat]
      BY <2>1, <2>4, SpendType DEF ContainerStops, ContainerExits
    <3>2. QED BY <1>2, <2>4, <3>1, FinishKeeps DEF ContainerStops, ContainerExits
  <2>5. ASSUME NEW n \in Nodes, NodeLeaves(n) PROVE Coherent'
    <3>1. used' \in [Counters -> Nat]
      BY <2>1, <2>5, SpendType DEF NodeLeaves
    <3>2. QED BY <1>2, <2>5, <3>1, DyingKeeps DEF NodeLeaves
  <2>6. CASE UNCHANGED vars
    <3>1. \A n \in Nodes : ActiveOn(n)' = ActiveOn(n)
      BY <2>6 DEF ActiveOn, Reconciling, vars
    <3>2. QED
      BY <1>2, <2>6, <3>1 DEF Coherent, TypeOK, RecordValid, GoodEntry, vars
  <2>7. QED
    BY <1>2, <2>3, <2>4, <2>5, <2>6, UserKeeps, HolderKeeps DEF Next
<1>3. QED BY <1>1, <1>2

LEMMA CoherentAlways == Spec => []Coherent
BY CoherentInductive, PTL DEF Spec

(* Every variable keeps its type, in particular no message is addressed to  *)
(* a node id that is not set.                                               *)
THEOREM TypeCorrect == Spec => []TypeOK
<1>1. Coherent => TypeOK
  BY DEF Coherent
<1>2. QED BY <1>1, CoherentAlways, PTL

(* Reconciles of the pod exclude each other on a node, and the flag that    *)
(* makes them do so is neither lost nor left behind.                        *)
THEOREM ReconcilesAlone == Spec => []ReconcileAlone
<1>1. Coherent => ReconcileAlone
  BY DEF Coherent, GoodEntry, ReconcileAlone, ActiveOn
<1>2. QED BY <1>1, CoherentAlways, PTL

(* No sandbox is ever forgotten by the reconcile state of its pod. *)
THEOREM SandboxesTracked == Spec => []SandboxTracked
<1>1. Coherent => SandboxTracked
  BY DEF Coherent, GoodRuntime, SandboxTracked
<1>2. QED BY <1>1, CoherentAlways, PTL

(* The record in the KVS passes Pod.Validate whatever stale copies are      *)
(* written over it.                                                         *)
THEOREM RecordsValid == Spec => []RecordValid
<1>1. Coherent => RecordValid
  BY DEF Coherent
<1>2. QED BY <1>1, CoherentAlways, PTL

(* A container keeps its core API driver until it is told to stop. *)
THEOREM LiveHaveDrivers == Spec => []LiveHasDriver
<1>1. Coherent => LiveHasDriver
  BY DEF Coherent, GoodRuntime, LiveHasDriver, HasDriver
<1>2. QED BY <1>1, CoherentAlways, PTL


-----------------------------------------------------------------------------
(* One place at a time.  When holders' ticks are long, everything that goes *)
(* on for the pod goes on at one node, and all copies of the record agree   *)
(* that this is where it runs.                                              *)

(* The record and the copies of it that goroutines work on *)
Copies ==
    {pod \in Pod : \/ pod = kvs
                   \/ \E p \in Procs : proc[p].pc \in HasCopyPCs /\ pod = proc[p].pod}

Busy(p) == proc[p].pc \notin {"idle", "stuck", "blocked"}
NoneBusy == \A p \in Reconcilers : ~ Busy(p)
AtWork(h) == proc[h].pc \in {"deal"} \cup UpdatePCs

(* A node to which a reconcile is under way, that reconciles or that runs a *)
(* container of the pod                                                     *)
InPlace(n) ==
    \/ n \in msgs
    \/ \E p \in Reconcilers : NodeOf[p] = n /\ Busy(p)
    \/ \E c \in Containers : Live(cri[n], c)

OnePlace == \A m, n \in Nodes : InPlace(m) /\ InPlace(n) => m = n

CopiesPlaced == \A n \in Nodes : InPlace(n) => \A pod \in Copies : pod.running = n

(* No copy says that a container has ended which runs or is to be started.  *)
NoneEnded ==
    /\ \A n \in Nodes, c \in Containers :
          Live(cri[n], c) => \A pod \in Copies : ~ pod.status[c].terminated
    /\ \A p \in Reconcilers : proc[p].pc \in {"pull", "start"} =>
          \A c \in proc[p].todo, pod \in Copies : ~ pod.status[c].terminated

(* From a tick of the holder until the reconcile reads the record *)
Ahead ==
    \/ msgs # {}
    \/ \E p \in Reconcilers : proc[p].pc = "get"
    \/ \E h \in Holders : proc[h].pc = "deal"

(* Until then no copy says of a container's end what another one does not.  *)
SameEnds ==
    Ahead => \A x, y \in Copies, c \in Containers :
                x.status[c].terminated = y.status[c].terminated

(* A holder decides while nobody reconciles, about a pod whose running node *)
(* is the one of its copy, unless that has none.                            *)
DealsAlone ==
    \A h \in Holders : proc[h].pc = "deal" =>
        /\ msgs = {} /\ NoneBusy
        /\ \A g \in Holders : AtWork(g) => g = h
        /\ Valid(proc[h].pod)
        /\ \A pod \in Copies :
              proc[h].pod.running = NoNode \/ pod.running = proc[h].pod.running

MessagesFirst == msgs # {} => NoneBusy

(* A user has a copy only while it updates the record. *)
UsersUpdate == \A u \in Users : proc[u].pc \in HasCopyPCs => proc[u].pc \in UpdatePCs

DownIsIdle == \A p \in Procs : ~ Up(p) => proc[p].pc = "idle"

NotCreated == ~ created => Copies = {} /\ \A n \in Nodes : ~ InPlace(n)

(* What runs somewhere has been sent somewhere. *)
Targeted == \A pod \in Copies : pod.running # NoNode => pod.target # NoNode

Placed ==
    /\ OnePlace /\ CopiesPlaced /\ NoneEnded /\ SameEnds /\ DealsAlone
    /\ MessagesFirst /\ UsersUpdate /\ DownIsIdle /\ NotCreated /\ Targeted

(* Somebody deals with the pod. *)
Held == (\E n \in Nodes : InPlace(n)) \/ \E h \in Holders : proc[h].pc = "deal"

-----------------------------------------------------------------------------
(* Steps of one goroutine *)

(* Goroutine p goes on to v and no other one moves, nor does a node. *)
Moves(p, v) == Up(p) /\ node' = node /\ v \in Process /\ proc' = [proc EXCEPT ![p] = v]

FewerLive == \A n \in Nodes, c \in Containers : Live(cri[n], c)' => Live(cri[n], c)

(* A reconcile that goes on reads and starts no more than before; a holder  *)
(* that was not at work is not now, and decides once.                       *)
Calms(p, v) ==
    /\ p \in Reconcilers => Busy(p)
    /\ v.pc \notin {"get", "deal"}
    /\ v.pc \in {"pull", "start"} => proc[p].pc \in {"pull", "start"} /\ v.todo \subseteq proc[p].todo
    /\ p \in Holders /\ v.pc \in UpdatePCs => AtWork(p)
    /\ p \in Users /\ v.pc \in HasCopyPCs => v.pc \in UpdatePCs

LEMMA MovesFacts ==
    ASSUME Coherent, NEW p \in Procs, NEW v, Moves(p, v)
    PROVE  /\ proc \in [Procs -> Process]
           /\ \A q \in Procs : proc'[q] = IF q = p THEN v ELSE proc[q]
BY DEF Coherent, TypeOK, Moves

LEMMA GoroutineSets ==
    /\ Users \subseteq Procs /\ Holders \subseteq Procs /\ Reconcilers \subseteq Procs
    /\ \A p \in Procs : NodeOf[p] \in Nodes
    /\ Reconcilers \cap Holders = {} /\ Reconcilers \cap Users = {} /\ Holders \cap Users = {}
BY PodSystemAssumption DEF Procs

(* The copies there are after a step: of those before, and one more.        *)
LEMMA CopiesMove ==
    ASSUME Coherent, NEW p \in Procs, NEW v, Moves(p, v), NEW x,
           kvs' \in Copies \cup {NoPod, x},
           v.pc \in HasCopyPCs => v.pod \in Copies \cup {x}
    PROVE  Copies' \subseteq Copies \cup {x}
<1>1. ASSUME NEW pod \in Copies', pod # kvs'
      PROVE  pod \in Copies \cup {x}
  <2>1. PICK q \in Procs : proc'[q].pc \in HasCopyPCs /\ pod = proc'[q].pod
    BY <1>1 DEF Copies
  <2>2. pod \in Pod
    BY <1>1 DEF Copies
  <2>3. CASE q = p
    BY <2>1, <2>3, MovesFacts
  <2>4. CASE q # p
    <3>1. proc'[q] = proc[q]
      BY <2>4, MovesFacts
    <3> QED
      BY <2>1, <2>2, <3>1 DEF Copies
  <2> QED
    BY <2>3, <2>4
<1>2. ASSUME NEW pod \in Copies', pod = kvs'
      PROVE  pod \in Copies \cup {x}
  <2>1. pod \in Pod /\ pod # NoPod
    BY <1>2, NoPodAssumption DEF Copies
  <2> QED
    BY <1>2, <2>1
<1> QED
  BY <1>1, <1>2

(* What runs somewhere after such a step did before.                        *)
LEMMA PlacesMove ==
    ASSUME Coherent, NEW p \in Procs, NEW v, Moves(p, v), Calms(p, v), FewerLive,
           msgs' \subseteq msgs, NEW n \in Nodes, InPlace(n)'
    PROVE  InPlace(n)
<1>1. CASE \E q \in Reconcilers : NodeOf[q] = n /\ Busy(q)'
  <2>1. PICK q \in Reconcilers : NodeOf[q] = n /\ Busy(q)'
    BY <1>1
  <2>2. Busy(q)
    BY <2>1, MovesFacts, GoroutineSets DEF Calms, Busy
  <2> QED
    BY <2>1, <2>2 DEF InPlace
<1> QED
  BY <1>1 DEF InPlace, FewerLive

(* A step that adds a copy, if one at all, that says what the others do. *)
Fitting(p, v, x) ==
    /\ \A n \in Nodes : InPlace(n)' => x.running = n
    /\ \A n \in Nodes, c \in Containers : Live(cri[n], c)' => ~ x.status[c].terminated
    /\ \A q \in Reconcilers : proc'[q].pc \in {"pull", "start"} =>
          \A c \in proc'[q].todo : ~ x.status[c].terminated
    /\ Ahead' => \A y \in Copies, c \in Containers :
          x.status[c].terminated = y.status[c].terminated
    /\ \A h \in Holders : proc'[h].pc = "deal" =>
          proc[h].pod.running = NoNode \/ x.running = proc[h].pod.running
    /\ x.running # NoNode => x.target # NoNode

LEMMA OldFits ==
    ASSUME Coherent, Placed, NEW p \in Procs, NEW v, Moves(p, v), Calms(p, v), FewerLive,
           msgs' \subseteq msgs, NEW x \in Copies
    PROVE  Fitting(p, v, x)
<1>1. \A n \in Nodes : InPlace(n)' => InPlace(n)
  BY PlacesMove
<1>2. ASSUME NEW q \in Reconcilers, proc'[q].pc \in {"pull", "start"}
      PROVE  proc[q].pc \in {"pull", "start"} /\ proc'[q].todo \subseteq proc[q].todo
  BY <1>2, MovesFacts, GoroutineSets DEF Calms
<1>3. Ahead' => Ahead
  BY MovesFacts, GoroutineSets DEF Ahead, Calms
<1>4. ASSUME NEW h \in Holders, proc'[h].pc = "deal"
      PROVE  proc[h].pc = "deal"
  BY <1>4, MovesFacts, GoroutineSets DEF Calms
<1>5. \A n \in Nodes : InPlace(n)' => x.running = n
  BY <1>1 DEF Placed, CopiesPlaced
<1>6. \A n \in Nodes, c \in Containers : Live(cri[n], c)' => ~ x.status[c].terminated
  BY DEF Placed, NoneEnded, FewerLive
<1>7. \A q \in Reconcilers : proc'[q].pc \in {"pull", "start"} =>
          \A c \in proc'[q].todo : ~ x.status[c].terminated
  BY <1>2 DEF Placed, NoneEnded
<1>8. Ahead' => \A y \in Copies, c \in Containers :
          x.status[c].terminated = y.status[c].terminated
  BY <1>3 DEF Placed, SameEnds
<1>9. \A h \in Holders : proc'[h].pc = "deal" =>
          proc[h].pod.running = NoNode \/ x.running = proc[h].pod.running
  BY <1>4 DEF Placed, DealsAlone
<1>10. x.running # NoNode => x.target # NoNode
  BY DEF Placed, Targeted
<1> QED
  BY <1>5, <1>6, <1>7, <1>8, <1>9, <1>10 DEF Fitting

(* The steps of most actions: the goroutine goes on with the copies there   *)
(* are and one more at most.                                                *)
LEMMA CalmStep ==
    ASSUME Coherent, Placed, NEW p \in Procs, NEW v, Moves(p, v), Calms(p, v), FewerLive,
           msgs' \subseteq msgs, NEW x, Copies' \subseteq Copies \cup {x},
           x \in Copies' => Fitting(p, v, x),
           created' = created, created \/ Copies' = {}
    PROVE  Placed' /\ (Held' => Held)
<1>1. \A n \in Nodes : InPlace(n)' => InPlace(n)
  BY PlacesMove
<1>2. \A y \in Copies' : Fitting(p, v, y)
  BY OldFits
<1>3. OnePlace'
  BY <1>1 DEF Placed, OnePlace
<1>4. CopiesPlaced'
  BY <1>2 DEF CopiesPlaced, Fitting
<1>5. NoneEnded'
  BY <1>2 DEF NoneEnded, Fitting
<1>6. SameEnds'
  BY <1>2 DEF SameEnds, Fitting
<1>7. DealsAlone'
  <2> SUFFICES ASSUME NEW h \in Holders, proc'[h].pc = "deal"
               PROVE  /\ msgs' = {} /\ NoneBusy'
                      /\ \A g \in Holders : AtWork(g)' => g = h
                      /\ Valid(proc'[h].pod)
                      /\ \A pod \in Copies' :
                            proc'[h].pod.running = NoNode \/ pod.running = proc'[h].pod.running
    BY DEF DealsAlone
  <2>1. h # p /\ proc'[h] = proc[h] /\ proc[h].pc = "deal"
    BY MovesFacts, GoroutineSets DEF Calms
  <2>2. /\ msgs = {} /\ NoneBusy
        /\ \A g \in Holders : AtWork(g) => g = h
        /\ Valid(proc[h].pod)
    BY <2>1 DEF Placed, DealsAlone
  <2>3. NoneBusy'
    BY <2>2, MovesFacts, GoroutineSets DEF NoneBusy, Busy, Calms
  <2>4. \A g \in Holders : AtWork(g)' => AtWork(g)
    BY MovesFacts, GoroutineSets DEF AtWork, Calms
  <2> QED
    BY <1>2, <2>1, <2>2, <2>3, <2>4 DEF Fitting
<1>8. MessagesFirst'
  <2>1. NoneBusy => NoneBusy'
    BY MovesFacts, GoroutineSets DEF NoneBusy, Busy, Calms
  <2> QED
    BY <2>1 DEF Placed, MessagesFirst
<1>9. DownIsIdle'
  BY MovesFacts, GoroutineSets DEF Placed, DownIsIdle, Up, Moves
<1>10. NotCreated'
  BY <1>1 DEF Placed, NotCreated
<1>11. Targeted'
  BY <1>2 DEF Targeted, Fitting
<1>13. UsersUpdate'
  BY MovesFacts, GoroutineSets DEF Placed, UsersUpdate, Calms
<1>12. Held' => Held
  BY <1>1, MovesFacts, GoroutineSets DEF Held, Calms
<1> QED
  BY <1>3, <1>4, <1>5, <1>6, <1>7, <1>8, <1>9, <1>10, <1>11, <1>12, <1>13 DEF Placed

(* No new copy at all *)
LEMMA QuietStep ==
    ASSUME Coherent, Placed, NEW p \in Procs, NEW v, Moves(p, v), Calms(p, v), FewerLive,
           msgs' \subseteq msgs, created' = created,
           kvs' \in Copies \cup {NoPod}, v.pc \in HasCopyPCs => v.pod \in Copies
    PROVE  Placed' /\ (Held' => Held)
<1>1. Copies' \subseteq Copies
  <2> DEFINE x == CHOOSE y : y \notin Pod
  <2>1. x \notin Copies'
    BY NoSetContainsEverything DEF Copies
  <2>2. Copies' \subseteq Copies \cup {x}
    BY CopiesMove
  <2> QED
    BY <2>1, <2>2
<1>2. created \/ Copies' = {}
  BY <1>1 DEF Placed, NotCreated
<1>3. CASE Copies' = {}
  BY <1>2, <1>3, CalmStep
<1>4. CASE Copies' # {}
  <2>1. PICK x : x \in Copies'
    BY <1>4
  <2>2. Fitting(p, v, x)
    BY <1>1, <2>1, OldFits
  <2> QED
    BY <1>1, <1>2, <2>1, <2>2, CalmStep
<1> QED
  BY <1>3, <1>4
-----------------------------------------------------------------------------
(* What the operators that the actions are made of do *)

LEMMA MovesOn ==
    ASSUME NEW p \in Procs, NEW v, StepsTo(p, v), Up(p), node' = node
    PROVE  Moves(p, v)
BY DEF Moves, StepsTo

LEMMA GotoMoves ==
    ASSUME Coherent, NEW p \in Procs, NEW pc \in PCs, Goto(p, pc), Up(p), node' = node
    PROVE  \E v : Moves(p, v) /\ v.pc = pc /\ v.pod = proc[p].pod /\ v.todo = proc[p].todo
<1> DEFINE v == [proc[p] EXCEPT !.pc = pc]
<1>1. proc[p] \in Process
  BY DEF Coherent, TypeOK
<1>2. v \in Process /\ v.pc = pc /\ v.pod = proc[p].pod /\ v.todo = proc[p].todo
  BY <1>1 DEF Process
<1>3. proc' = [proc EXCEPT ![p] = v]
  BY DEF Goto
<1> QED
  BY <1>2, <1>3 DEF Moves

(* The end of a call: no copy is kept. *)
LEMMA ReturnMoves ==
    ASSUME NEW p \in Procs, Up(p), node' = node,
           Return(p) \/ Finished(p) \/ Fail(p)
    PROVE  \E v : Moves(p, v) /\ v.pc \in {"leave", "idle"}
BY ReturnStep, FinishedStep, FailStep, MovesOn

LEMMA CallUpdateMoves ==
    ASSUME NEW p \in Procs, Up(p), node' = node, NEW pod \in Pod, NEW then \in Afters,
           CallUpdate(p, pod, then)
    PROVE  \E v : /\ Moves(p, v) /\ v.pc \in {"check", "leave", "idle"}
                  /\ v.pc = "check" => v.pod = pod
<1>1. CASE Valid(pod)
  <2> DEFINE v == [pc |-> "check", pod |-> pod, then |-> then, todo |-> {}]
  <2>1. v \in Process /\ v.pc = "check" /\ v.pod = pod
    BY DEF Process, PCs, UpdatePCs
  <2> QED
    BY <1>1, <2>1 DEF Moves, CallUpdate
<1>2. CASE ~ Valid(pod)
  BY <1>2, ReturnMoves DEF CallUpdate
<1> QED
  BY <1>1, <1>2

LEMMA FewerByOne ==
    ASSUME Coherent, NEW n \in Nodes, NEW r, cri' = [cri EXCEPT ![n] = r],
           \A c \in Containers : Live(r, c) => Live(cri[n], c)
    PROVE  FewerLive
<1>1. \A m \in Nodes : cri'[m] = IF m = n THEN r ELSE cri[m]
  BY DEF Coherent, TypeOK
<1> QED
  BY <1>1 DEF FewerLive, Live

LEMMA SameLive == ASSUME cri' = cri PROVE FewerLive
BY DEF FewerLive, Live

LEMMA RemovedLive ==
    ASSUME NEW rt, NEW sandbox, NEW c \in Containers, Live(RemoveSandbox(rt, sandbox), c)
    PROVE  Live(rt, c)
BY DEF Live, RemoveSandbox, EmptyRuntime, NoContainer

LEMMA OwnCopy ==
    ASSUME Coherent, NEW p \in Procs, proc[p].pc \in HasCopyPCs
    PROVE  proc[p].pod \in Copies /\ proc[p].pod \in Pod /\ proc[p] \in Process
BY DEF Coherent, TypeOK, GoodProcess, Copies

LEMMA RecordCopy ==
    ASSUME Coherent
    PROVE  kvs \in Copies \cup {NoPod} /\ (kvs # NoPod => kvs \in Copies /\ kvs \in Pod)
BY DEF Coherent, TypeOK, Copies

(* A goroutine that has no copy afterwards *)
LEMMA NoCopyStep ==
    ASSUME Coherent, Placed, NEW p \in Procs, NEW v, Moves(p, v),
           p \in Reconcilers => Busy(p),
           v.pc \notin HasCopyPCs \cup {"get"},
           FewerLive, msgs' \subseteq msgs, created' = created,
           kvs' \in Copies \cup {NoPod}
    PROVE  Placed' /\ (Held' => Held)
<1>1. Calms(p, v)
  BY DEF Calms, HasCopyPCs, UpdatePCs
<1> QED
  BY <1>1, QuietStep

-----------------------------------------------------------------------------
(* The steps in which only what there was goes on *)

LEMMA UpdatePlaced ==
    ASSUME Coherent, Placed, NEW p \in Procs, UpdateCheck(p) \/ UpdateSet(p) \/ UpdateFails(p)
    PROVE  Placed' /\ (Held' => Held)
<1>1. /\ Up(p) /\ node' = node /\ proc[p].pc \in UpdatePCs
      /\ msgs' = msgs /\ created' = created /\ FewerLive
  BY SameLive DEF UpdateCheck, UpdateSet, UpdateFails, At, NodeUnchanged, UpdatePCs
<1>2. /\ proc[p].pod \in Copies /\ (p \in Reconcilers => Busy(p))
      /\ kvs \in Copies \cup {NoPod}
  BY <1>1, OwnCopy, RecordCopy DEF UpdatePCs, HasCopyPCs, Busy
<1>3. CASE Return(p) /\ kvs' = kvs
  <2>1. PICK v : Moves(p, v) /\ v.pc \in {"leave", "idle"}
    BY <1>1, <1>3, ReturnMoves
  <2> QED
    BY <1>1, <1>2, <1>3, <2>1, NoCopyStep DEF HasCopyPCs, UpdatePCs
<1>4. CASE Goto(p, "set") /\ kvs' = kvs
  <2>1. PICK v : Moves(p, v) /\ v.pc = "set" /\ v.pod = proc[p].pod
    BY <1>1, <1>4, GotoMoves DEF PCs, UpdatePCs
  <2>2. Calms(p, v)
    BY <1>1, <1>2, <2>1 DEF Calms, UpdatePCs, AtWork
  <2> QED
    BY <1>1, <1>2, <1>4, <2>1, <2>2, QuietStep
<1>5. CASE UpdateSet(p)
  <2>1. proc[p].then \in Afters
    BY <1>1, OwnCopy DEF UpdatePCs, HasCopyPCs, Process
  <2> DEFINE v == [Idle EXCEPT !.pc = proc[p].then]
  <2>2. v \in Process /\ v.pc = proc[p].then
    BY <2>1, IdleType DEF Idle, Afters, PCs, ReconcilePCs
  <2>3. proc' = [proc EXCEPT ![p] = v] /\ kvs' = proc[p].pod
    BY <1>5 DEF UpdateSet, Finished, Idle
  <2>4. Moves(p, v)
    BY <1>1, <2>2, <2>3 DEF Moves
  <2>5. v.pc \notin HasCopyPCs \cup {"get"}
    BY <2>1, <2>2 DEF Afters, HasCopyPCs, UpdatePCs
  <2> QED
    BY <1>1, <1>2, <2>3, <2>4, <2>5, NoCopyStep
<1> QED
  BY <1>3, <1>4, <1>5 DEF UpdateCheck, UpdateFails

LEMMA UserEndsPlaced ==
    ASSUME Coherent, Placed, NEW u \in Users,
           Delete(u) \/ DeleteReturns(u) \/ Cleanup(u) \/ CleanupClears(u)
    PROVE  Placed' /\ (Held' => Held)
<1>1. /\ Up(u) /\ node' = node /\ u \in Procs /\ u \notin Reconcilers
      /\ msgs' = msgs /\ created' = created /\ FewerLive /\ kvs' \in {kvs, NoPod}
  BY SameLive, GoroutineSets
     DEF Delete, DeleteReturns, Cleanup, CleanupClears, At, NodeUnchanged
<1>2. \E v : Moves(u, v) /\ v.pc \in {"leave", "idle", "delete", "clear"}
  <2>1. CASE Goto(u, "delete") \/ Goto(u, "clear")
    BY <1>1, <2>1, GotoMoves DEF PCs
  <2>2. CASE Finished(u)
    BY <1>1, <2>2, ReturnMoves
  <2> QED
    BY <2>1, <2>2 DEF Delete, DeleteReturns, Cleanup, CleanupClears
<1> QED
  BY <1>1, <1>2, RecordCopy, NoCopyStep DEF HasCopyPCs, UpdatePCs

(* A holder that writes nothing and calls nobody *)
LEMMA DealEndsPlaced ==
    ASSUME Coherent, Placed, NEW h \in Holders,
           DealRemove(h) \/ DealRest(h) \/ (DealDeleting(h) /\ msgs' = msgs)
    PROVE  Placed' /\ (Held' => Held)
<1>1. /\ Up(h) /\ node' = node /\ h \in Procs /\ h \notin Reconcilers
      /\ msgs' = msgs /\ created' = created /\ FewerLive /\ kvs' \in {kvs, NoPod}
  BY SameLive, GoroutineSets DEF DealRemove, DealRest, DealDeleting, At, NodeUnchanged
<1>2. \E v : Moves(h, v) /\ v.pc \in {"leave", "idle", "blocked"}
  <2>1. CASE Goto(h, "blocked")
    BY <1>1, <2>1, GotoMoves DEF PCs
  <2>2. CASE Finished(h)
    BY <1>1, <2>2, ReturnMoves
  <2> QED
    BY <2>1, <2>2 DEF DealRemove, DealRest, DealDeleting
<1> QED
  BY <1>1, <1>2, RecordCopy, NoCopyStep DEF HasCopyPCs, UpdatePCs

(* A reconcile that has nothing to say any more *)
LEMMA ReconcileEndsPlaced ==
    ASSUME Coherent, Placed, NEW p \in Reconcilers,
           \/ GetFails(p) \/ ReconcileElsewhere(p) \/ SandboxRefused(p) \/ PullFails(p)
           \/ RecordFails(p) \/ UpdateInfoErrs(p) \/ Remove(p) \/ Leave(p)
           \/ \E c \in Containers : TeardownHangs(p, c)
           \/ \E c \in Containers : TeardownErrs(p, c) /\ Fail(p) /\ UNCHANGED <<cri, msgs, node>>
    PROVE  Placed' /\ (Held' => Held)
<1>1. /\ Up(p) /\ node' = node /\ p \in Procs /\ NodeOf[p] \in Nodes /\ Busy(p)
      /\ msgs' = msgs /\ created' = created /\ kvs' = kvs
  BY GoroutineSets
     DEF GetFails, ReconcileElsewhere, Gets, SandboxRefused, PullFails, RecordFails, UpdateInfoErrs,
         Remove, Leave, TeardownHangs, TeardownErrs, At, NodeUnchanged, Busy
<1>2. \E v : Moves(p, v) /\ v.pc \in {"leave", "idle", "stuck"}
  <2>1. CASE Fail(p) \/ Finished(p)
    BY <1>1, <2>1, ReturnMoves
  <2>2. CASE \E c \in Containers : TeardownHangs(p, c)
    <3>1. proc' = [proc EXCEPT ![p] = [Idle EXCEPT !.pc = "stuck"]]
      BY <2>2 DEF TeardownHangs
    <3>2. [Idle EXCEPT !.pc = "stuck"] \in Process /\ [Idle EXCEPT !.pc = "stuck"].pc = "stuck"
      BY IdleType DEF Idle
    <3> QED
      BY <1>1, <3>1, <3>2 DEF Moves
  <2> QED
    BY <2>1, <2>2
       DEF GetFails, ReconcileElsewhere, SandboxRefused, PullFails, RecordFails, UpdateInfoErrs,
           Remove, Leave
<1>3. FewerLive
  <2>1. \/ cri' = cri
        \/ cri' = [cri EXCEPT ![NodeOf[p]] = RemoveSandbox(cri[NodeOf[p]], local[NodeOf[p]].sandbox)]
    BY DEF GetFails, ReconcileElsewhere, Gets, SandboxRefused, PullFails, RecordFails,
           UpdateInfoErrs, Remove, Leave, TeardownHangs, NodeUnchanged
  <2> QED
    BY <1>1, <2>1, SameLive, FewerByOne, RemovedLive
<1> QED
  BY <1>1, <1>2, <1>3, RecordCopy, NoCopyStep DEF HasCopyPCs, UpdatePCs

(* A reconcile that goes on with its copy *)
LEMMA ReconcileGoesOnPlaced ==
    ASSUME Coherent, Placed, NEW p \in Reconcilers,
           \/ PullImages(p) \/ StartDone(p) \/ TeardownDone(p)
           \/ \E c \in Containers : CreateFails(p, c) \/ Teardown(p, c)
    PROVE  Placed' /\ (Held' => Held)
<1>1. /\ Up(p) /\ node' = node /\ p \in Procs /\ NodeOf[p] \in Nodes /\ Busy(p)
      /\ msgs' = msgs /\ created' = created /\ kvs' = kvs /\ proc[p].pc \in HasCopyPCs
  BY GoroutineSets
     DEF PullImages, StartDone, TeardownDone, CreateFails, Teardown, At, NodeUnchanged, Busy,
         HasCopyPCs
<1> DEFINE GoesOn(v) ==
        /\ Moves(p, v) /\ v.pod = proc[p].pod /\ v.todo \subseteq proc[p].todo
        /\ \/ v.pc \in {"info", "teardown"}
           \/ v.pc = "start" /\ proc[p].pc \in {"pull", "start"}
<1>2. \E v : GoesOn(v)
  <2>1. CASE \E pc \in {"start", "info"} : Goto(p, pc) /\ (pc = "start" => proc[p].pc = "pull")
    <3>1. PICK pc \in {"start", "info"} : Goto(p, pc) /\ (pc = "start" => proc[p].pc = "pull")
      BY <2>1
    <3>2. pc \in PCs
      BY DEF PCs, ReconcilePCs
    <3>3. PICK v : Moves(p, v) /\ v.pc = pc /\ v.pod = proc[p].pod /\ v.todo = proc[p].todo
      BY <1>1, <3>1, <3>2, GotoMoves
    <3>4. GoesOn(v)
      BY <3>1, <3>3
    <3> QED
      BY <3>4
  <2>2. CASE \E c : /\ proc' = [proc EXCEPT ![p].todo = proc[p].todo \ {c}]
                    /\ proc[p].pc \in {"start", "teardown"}
    <3>1. PICK c : proc' = [proc EXCEPT ![p].todo = proc[p].todo \ {c}]
      BY <2>2
    <3> DEFINE v == [proc[p] EXCEPT !.todo = proc[p].todo \ {c}]
    <3>2. v \in Process /\ v.pc = proc[p].pc /\ v.pod = proc[p].pod /\ v.todo = proc[p].todo \ {c}
      BY <1>1, OwnCopy DEF Process
    <3>3. proc' = [proc EXCEPT ![p] = v]
      BY <3>1
    <3>4. Moves(p, v)
      BY <1>1, <3>2, <3>3 DEF Moves
    <3> HIDE DEF v
    <3>5. GoesOn(v)
      BY <2>2, <3>2, <3>4
    <3> QED
      BY <3>5
  <2> QED
    BY <2>1, <2>2 DEF PullImages, StartDone, TeardownDone, CreateFails, Teardown, At
<1>3. FewerLive
  <2>1. \/ cri' = cri
        \/ \E c \in Containers : cri' = [cri EXCEPT ![NodeOf[p]] =
              IF Live(cri[NodeOf[p]], c) THEN StopContainer(cri[NodeOf[p]], c) ELSE cri[NodeOf[p]]]
    BY DEF PullImages, StartDone, TeardownDone, CreateFails, Teardown, NodeUnchanged
  <2>2. ASSUME NEW rt \in Runtime, NEW c \in Containers, NEW d \in Containers,
               Live(StopContainer(rt, c), d)
        PROVE  Live(rt, d)
    BY <2>2 DEF Live, StopContainer, Runtime, Container
  <2>3. cri[NodeOf[p]] \in Runtime
    BY <1>1 DEF Coherent, TypeOK
  <2>4. CASE cri' = cri
    BY <2>4, SameLive
  <2>5. ASSUME NEW c \in Containers, NEW r,
               r = IF Live(cri[NodeOf[p]], c) THEN StopContainer(cri[NodeOf[p]], c) ELSE cri[NodeOf[p]],
               cri' = [cri EXCEPT ![NodeOf[p]] = r]
        PROVE  FewerLive
    <3>1. \A d \in Containers : Live(r, d) => Live(cri[NodeOf[p]], d)
      BY <2>2, <2>3, <2>5
    <3> QED
      BY <1>1, <2>5, <3>1, FewerByOne
  <2> QED
    BY <2>1, <2>4, <2>5
<1>4. PICK v : GoesOn(v)
  BY <1>2
<1>5. Calms(p, v)
  BY <1>1, <1>4, GoroutineSets DEF Calms
<1> QED
  BY <1>1, <1>3, <1>4, <1>5, OwnCopy, RecordCopy, QuietStep

(* letTerminate begins, or letRunning ends at once. *)
LEMMA ReconcileTerminatePlaced ==
    ASSUME Coherent, Placed, NEW p \in Reconcilers, Gets(p),
           NEW v \in Process, v.pc \in {"teardown", "info"}, v.pod = kvs,
           proc' = [proc EXCEPT ![p] = v],
           UNCHANGED <<kvs, created, msgs, node>>, cri' = cri
    PROVE  Placed' /\ (Held' => Held)
<1>1. Up(p) /\ p \in Procs /\ Busy(p) /\ kvs \in Copies
  BY GoroutineSets, RecordCopy DEF Gets, At, Busy
<1>2. Moves(p, v)
  BY <1>1 DEF Moves
<1>3. Calms(p, v)
  BY <1>1, GoroutineSets DEF Calms
<1> QED
  BY <1>1, <1>2, <1>3, SameLive, QuietStep

LEMMA ReadsType ==
    ASSUME Coherent, kvs # NoPod, NEW pc \in PCs, NEW todo \in SUBSET Containers
    PROVE  /\ [Idle EXCEPT !.pc = pc, !.pod = kvs, !.todo = todo] \in Process
           /\ [Idle EXCEPT !.pc = pc, !.pod = kvs, !.todo = todo].pc = pc
           /\ [Idle EXCEPT !.pc = pc, !.pod = kvs, !.todo = todo].pod = kvs
           /\ [Idle EXCEPT !.pc = pc, !.pod = kvs] \in Process
           /\ [Idle EXCEPT !.pc = pc, !.pod = kvs].pc = pc
           /\ [Idle EXCEPT !.pc = pc, !.pod = kvs].pod = kvs
BY RecordFacts DEF Process, Idle, Afters

-----------------------------------------------------------------------------
(* The steps in which something ends: no goroutine has a copy, no node is   *)
(* told anything and no container runs that did not before.                 *)

LEMMA LessStep ==
    ASSUME Coherent, Placed,
           \A q \in Procs : proc'[q] = proc[q] \/ proc'[q] = Idle,
           FewerLive, msgs' \subseteq msgs, kvs' = kvs, created' = created, DownIsIdle'
    PROVE  Placed' /\ (Held' => Held)
<1> USE GoroutineSets
<1>1. \A q \in Procs : proc'[q].pc \in HasCopyPCs \cup {"get"} \/ Busy(q)' => proc'[q] = proc[q]
  BY DEF Idle, HasCopyPCs, UpdatePCs, Busy
<1>2. Copies' \subseteq Copies
  BY <1>1 DEF Copies
<1>3. \A n \in Nodes : InPlace(n)' => InPlace(n)
  BY <1>1 DEF InPlace, FewerLive, Busy
<1>4. NoneBusy => NoneBusy'
  BY <1>1 DEF NoneBusy, Busy
<1>5. Ahead' => Ahead
  BY <1>1 DEF Ahead, HasCopyPCs
<1>6. \A h \in Holders : AtWork(h)' => AtWork(h) /\ proc'[h] = proc[h]
  BY <1>1 DEF AtWork, HasCopyPCs
<1>7. OnePlace' /\ CopiesPlaced'
  BY <1>2, <1>3 DEF Placed, OnePlace, CopiesPlaced
<1>8. NoneEnded'
  <2>1. \A n \in Nodes, c \in Containers :
            Live(cri[n], c)' => \A pod \in Copies' : ~ pod.status[c].terminated
    BY <1>2 DEF Placed, NoneEnded, FewerLive
  <2>2. ASSUME NEW p \in Reconcilers, proc'[p].pc \in {"pull", "start"}
        PROVE  proc'[p] = proc[p]
    BY <1>1, <2>2 DEF HasCopyPCs
  <2>3. \A p \in Reconcilers : proc'[p].pc \in {"pull", "start"} =>
            \A c \in proc'[p].todo, pod \in Copies' : ~ pod.status[c].terminated
    BY <1>2, <2>2 DEF Placed, NoneEnded
  <2> QED
    BY <2>1, <2>3 DEF NoneEnded
<1>9. SameEnds'
  BY <1>2, <1>5 DEF Placed, SameEnds
<1>10. DealsAlone'
  <2> SUFFICES ASSUME NEW h \in Holders, proc'[h].pc = "deal"
               PROVE  /\ msgs' = {} /\ NoneBusy'
                      /\ \A g \in Holders : AtWork(g)' => g = h
                      /\ Valid(proc'[h].pod)
                      /\ \A pod \in Copies' :
                            proc'[h].pod.running = NoNode \/ pod.running = proc'[h].pod.running
    BY DEF DealsAlone
  <2>1. proc'[h] = proc[h] /\ proc[h].pc = "deal"
    BY <1>6 DEF AtWork
  <2> QED
    BY <1>2, <1>4, <1>6, <2>1 DEF Placed, DealsAlone
<1>11. MessagesFirst'
  BY <1>4 DEF Placed, MessagesFirst
<1>12. UsersUpdate'
  BY <1>1 DEF Placed, UsersUpdate
<1>13. NotCreated' /\ Targeted'
  BY <1>2, <1>3 DEF Placed, NotCreated, Targeted
<1>14. Held' => Held
  BY <1>3, <1>6 DEF Held, AtWork
<1> QED
  BY <1>7, <1>8, <1>9, <1>10, <1>11, <1>12, <1>13, <1>14 DEF Placed

LEMMA ContainerEndsPlaced ==
    ASSUME Coherent, Placed, NEW n \in Nodes, NEW c \in Containers,
           ContainerStops(n, c) \/ ContainerExits(n, c)
    PROVE  Placed' /\ (Held' => Held)
<1>1. UNCHANGED <<kvs, created, msgs, node, proc>>
  BY DEF ContainerStops, ContainerExits
<1>2. cri' = [cri EXCEPT ![n] = Finish(cri[n], c)] /\ cri[n] \in Runtime
  BY DEF ContainerStops, ContainerExits, Coherent, TypeOK
<1>3. \A d \in Containers : Live(Finish(cri[n], c), d) => Live(cri[n], d)
  BY <1>2 DEF Live, Finish, Runtime, Container
<1>4. FewerLive
  BY <1>2, <1>3, FewerByOne
<1>5. DownIsIdle'
  BY <1>1 DEF Placed, DownIsIdle, Up
<1> QED
  BY <1>1, <1>4, <1>5, LessStep

LEMMA ProgramEndsPlaced ==
    ASSUME Coherent, Placed, NEW n \in Nodes, NEW how, how # "up", ProgramEnds(n, how),
           FewerLive, UNCHANGED <<kvs, created>>
    PROVE  Placed' /\ (Held' => Held)
<1>1. \A q \in Procs : proc'[q] = IF NodeOf[q] = n THEN Idle ELSE proc[q]
  BY DEF ProgramEnds
<1>2. \A m \in Nodes : node'[m] = IF m = n THEN how ELSE node[m]
  BY DEF ProgramEnds, Coherent, TypeOK
<1>3. DownIsIdle'
  BY <1>1, <1>2, GoroutineSets DEF Placed, DownIsIdle, Up, Idle
<1> QED
  BY <1>1, <1>3, LessStep DEF ProgramEnds

LEMMA NodeEndsPlaced ==
    ASSUME Coherent, Placed, NEW n \in Nodes, NodePanics(n) \/ NodeDies(n),
           UNCHANGED <<kvs, created>>
    PROVE  Placed' /\ (Held' => Held)
<1>1. ProgramEnds(n, "left") \/ ProgramEnds(n, "panicked")
  BY DEF NodePanics, NodeDies
<1>2. FewerLive
  <2>1. CASE NodePanics(n)
    BY <2>1, SameLive DEF NodePanics
  <2>2. CASE NodeDies(n)
    <3>1. \A c \in Containers : ~ Live(EmptyRuntime, c)
      BY DEF Live, EmptyRuntime, NoContainer
    <3> QED
      BY <2>2, <3>1, FewerByOne DEF NodeDies
  <2> QED
    BY <2>1, <2>2
<1> QED
  BY <1>1, <1>2, ProgramEndsPlaced

LEMMA StutterPlaced ==
    ASSUME Coherent, Placed, UNCHANGED vars
    PROVE  Placed' /\ (Held' => Held)
<1>1. UNCHANGED <<kvs, created, cri, msgs, node, proc>>
  BY DEF vars
<1>2. DownIsIdle'
  BY <1>1 DEF Placed, DownIsIdle, Up
<1> QED
  BY <1>1, <1>2, SameLive, LessStep

-----------------------------------------------------------------------------
(* The steps that make a new copy of the record *)

(* A copy that says of the containers what another one does and sends the   *)
(* pod somewhere only if that one did not.                                  *)
LEMMA RewrittenFits ==
    ASSUME Coherent, Placed, NEW p \in Procs, NEW v, Moves(p, v), Calms(p, v), FewerLive,
           msgs' \subseteq msgs, NEW y \in Copies, NEW x,
           \A c \in Containers : x.status[c].terminated = y.status[c].terminated,
           x.running = y.running \/ y.running = NoNode,
           x.target # NoNode \/ (x.running = y.running /\ x.target = y.target)
    PROVE  Fitting(p, v, x)
<1>1. Fitting(p, v, y)
  BY OldFits
<1>2. \A n \in Nodes : InPlace(n)' => x.running = n
  BY <1>1, PodRecordAssumption DEF Fitting
<1>3. \A n \in Nodes, c \in Containers : Live(cri[n], c)' => ~ x.status[c].terminated
  BY <1>1 DEF Fitting
<1>4. ASSUME NEW q \in Reconcilers, proc'[q].pc \in {"pull", "start"}, NEW c \in proc'[q].todo
      PROVE  ~ x.status[c].terminated
  <2>1. c \in Containers
    BY <1>4, MovesFacts, GoroutineSets DEF Moves, Process
  <2> QED
    BY <1>1, <1>4, <2>1 DEF Fitting
<1>5. Ahead' => \A z \in Copies, c \in Containers :
          x.status[c].terminated = z.status[c].terminated
  BY <1>1 DEF Fitting
<1>6. \A h \in Holders : proc'[h].pc = "deal" =>
          proc[h].pod.running = NoNode \/ x.running = proc[h].pod.running
  BY <1>1 DEF Fitting
<1>7. x.running # NoNode => x.target # NoNode
  BY DEF Placed, Targeted
<1> QED
  BY <1>2, <1>3, <1>4, <1>5, <1>6, <1>7 DEF Fitting

(* A user or a holder calls kvs.Update with such a copy. *)
LEMMA RewrittenStep ==
    ASSUME Coherent, Placed, NEW p \in Users \cup Holders, p \in Holders => AtWork(p), Up(p),
           NEW x \in Pod, NEW then \in Afters, CallUpdate(p, x, then),
           NodeUnchanged, UNCHANGED <<kvs, created, msgs, node>>,
           NEW y \in Copies,
           \A c \in Containers : x.status[c].terminated = y.status[c].terminated,
           x.running = y.running \/ y.running = NoNode,
           x.target # NoNode \/ (x.running = y.running /\ x.target = y.target)
    PROVE  Placed' /\ (Held' => Held)
<1>1. p \in Procs /\ p \notin Reconcilers
  BY GoroutineSets
<1>2. PICK v : /\ Moves(p, v) /\ v.pc \in {"check", "leave", "idle"}
               /\ v.pc = "check" => v.pod = x
  BY <1>1, CallUpdateMoves
<1>3. FewerLive
  BY SameLive DEF NodeUnchanged
<1>4. Calms(p, v)
  BY <1>1, <1>2, GoroutineSets DEF Calms, UpdatePCs, HasCopyPCs
<1>5. Fitting(p, v, x)
  BY <1>1, <1>2, <1>3, <1>4, RewrittenFits
<1>6. Copies' \subseteq Copies \cup {x}
  BY <1>1, <1>2, RecordCopy, CopiesMove DEF HasCopyPCs, UpdatePCs
<1>7. created
  BY DEF Placed, NotCreated
<1> QED
  BY <1>1, <1>2, <1>3, <1>4, <1>5, <1>6, <1>7, CalmStep

LEMMA MigratePlaced ==
    ASSUME Coherent, Placed, NEW u \in Users, NEW n \in Nodes, Migrate(u, n)
    PROVE  Placed' /\ (Held' => Held)
<1> DEFINE x == IF kvs.running = NoNode
                THEN [kvs EXCEPT !.target = n, !.running = n]
                ELSE [kvs EXCEPT !.target = n]
<1>1. kvs \in Pod /\ kvs \in Copies /\ Up(u)
  BY RecordCopy DEF Migrate, At
<1>2. x \in Pod
  BY <1>1, CopyType
<1>3. /\ x.status = kvs.status /\ x.target = n /\ n # NoNode
      /\ x.running = kvs.running \/ kvs.running = NoNode
  BY <1>1, PodRecordAssumption DEF Pod
<1>4. CallUpdate(u, x, "idle") /\ NodeUnchanged /\ UNCHANGED <<kvs, created, msgs, node>>
  BY DEF Migrate
<1>5. u \in Users \cup Holders /\ u \notin Holders /\ "idle" \in Afters
  BY GoroutineSets DEF Afters
<1> HIDE DEF x
<1> QED
  BY <1>1, <1>2, <1>3, <1>4, <1>5, RewrittenStep

LEMMA DeleteMarksPlaced ==
    ASSUME Coherent, Placed, NEW u \in Users, DeleteMarks(u)
    PROVE  Placed' /\ (Held' => Held)
<1> DEFINE x == [kvs EXCEPT !.deleted = TRUE]
<1>1. kvs \in Pod /\ kvs \in Copies /\ Up(u)
  BY RecordCopy DEF DeleteMarks, At
<1>2. x \in Pod /\ x.status = kvs.status /\ x.target = kvs.target /\ x.running = kvs.running
  BY <1>1 DEF Pod
<1>3. CallUpdate(u, x, "delete") /\ NodeUnchanged /\ UNCHANGED <<kvs, created, msgs, node>>
  BY DEF DeleteMarks
<1>4. u \in Users \cup Holders /\ u \notin Holders /\ "delete" \in Afters
  BY GoroutineSets DEF Afters
<1> HIDE DEF x
<1> QED
  BY <1>1, <1>2, <1>3, <1>4, RewrittenStep

(* Before Create there is nothing. *)
LEMMA NothingYet ==
    ASSUME Coherent, Placed, ~ created
    PROVE  /\ msgs = {} /\ NoneBusy
           /\ \A n \in Nodes, c \in Containers : ~ Live(cri[n], c)
           /\ \A p \in Procs : proc[p].pc \notin HasCopyPCs
<1>1. Copies = {} /\ \A n \in Nodes : ~ InPlace(n)
  BY DEF Placed, NotCreated
<1>2. \A p \in Procs : proc[p].pc \notin HasCopyPCs
  BY <1>1, OwnCopy
<1>3. msgs \subseteq Nodes
  BY DEF Coherent, TypeOK
<1> QED
  BY <1>1, <1>2, <1>3, GoroutineSets DEF InPlace, NoneBusy

LEMMA CreatePlaced ==
    ASSUME Coherent, Placed, NEW u \in Users, Create(u)
    PROVE  Placed' /\ kvs' # NoPod
<1>1. /\ UNCHANGED <<msgs, node, proc, cri>> /\ kvs' = NewPod /\ created' /\ ~ created
  BY DEF Create, NodeUnchanged
<1>2. /\ msgs' = {} /\ NoneBusy'
      /\ \A n \in Nodes, c \in Containers : ~ Live(cri[n], c)'
      /\ \A p \in Procs : proc'[p].pc \notin HasCopyPCs
  BY <1>1, NothingYet DEF NoneBusy, Busy, Live
<1>3. Copies' \subseteq {NewPod}
  BY <1>1, <1>2 DEF Copies
<1>4. \A n \in Nodes : ~ InPlace(n)'
  BY <1>2, GoroutineSets DEF InPlace, NoneBusy
<1>5. NoneEnded'
  BY <1>2, GoroutineSets DEF NoneEnded, HasCopyPCs
<1>6. SameEnds' /\ Targeted'
  BY <1>3 DEF SameEnds, Targeted, NewPod
<1>7. DealsAlone'
  BY <1>2, GoroutineSets DEF DealsAlone, HasCopyPCs
<1>8. UsersUpdate' /\ DownIsIdle'
  BY <1>1 DEF Placed, UsersUpdate, DownIsIdle, Up
<1>9. kvs' # NoPod
  BY <1>1, NewPodType, NoPodAssumption
<1> QED
  BY <1>1, <1>2, <1>4, <1>5, <1>6, <1>7, <1>8, <1>9
     DEF Placed, OnePlace, CopiesPlaced, MessagesFirst, NotCreated

(* A step of a user *)
LEMMA UserPlaced ==
    ASSUME Coherent, Placed, NEW u \in Users, UserStep(u)
    PROVE  Placed' /\ (Held' => Held \/ kvs' # NoPod)
BY CreatePlaced, MigratePlaced, DeleteMarksPlaced, UserEndsPlaced, UpdatePlaced, GoroutineSets
   DEF UserStep

-----------------------------------------------------------------------------
(* The steps of a holder that decides *)

(* What a holder knows when it decides *)
LEMMA AloneFacts ==
    ASSUME Coherent, Placed, NEW h \in Holders, proc[h].pc = "deal"
    PROVE  /\ proc[h].pod \in Copies /\ proc[h].pod \in Pod /\ Valid(proc[h].pod)
           /\ msgs = {} /\ NoneBusy /\ created
           /\ \A g \in Holders : AtWork(g) => g = h
           /\ \A n \in Nodes : InPlace(n) => proc[h].pod.running = n
           /\ proc[h].pod.running = NoNode \/ \A pod \in Copies : pod.running = proc[h].pod.running
<1>1. proc[h].pod \in Copies /\ proc[h].pod \in Pod
  BY OwnCopy, GoroutineSets DEF HasCopyPCs
<1> QED
  BY <1>1 DEF Placed, DealsAlone, CopiesPlaced, NotCreated

LEMMA TickPlaced ==
    ASSUME Timing # "free", Coherent, Placed, NEW h \in Holders, Tick(h)
    PROVE  Placed' /\ kvs' # NoPod
<1> DEFINE v == [Idle EXCEPT !.pc = "deal", !.pod = kvs]
<1>1. /\ Up(h) /\ h \in Procs /\ kvs \in Pod /\ kvs \in Copies /\ Valid(kvs) /\ Quiet
      /\ UNCHANGED <<kvs, created, msgs, node, cri>> /\ proc' = [proc EXCEPT ![h] = v]
  BY RecordCopy, RecordFacts, GoroutineSets DEF Tick, At, NodeUnchanged
<1>2. v \in Process /\ v.pc = "deal" /\ v.pod = kvs
  BY <1>1 DEF Process, Idle, PCs, Afters
<1>3. Moves(h, v)
  BY <1>1, <1>2 DEF Moves
<1> HIDE DEF v
<1>4. \A q \in Procs : proc'[q] = IF q = h THEN v ELSE proc[q]
  BY <1>1, <1>3, MovesFacts
<1>5. /\ \A p \in Reconcilers \cup Holders : proc[p].pc \in {"idle", "stuck", "blocked"}
      /\ \A u \in Users : proc[u].pc \notin HasCopyPCs
      /\ msgs = {}
  BY <1>1, GoroutineSets DEF Quiet, Placed, DownIsIdle, UsersUpdate
<1>6. Copies' \subseteq {kvs}
  <2>1. \A q \in Procs : q # h => proc'[q].pc \notin HasCopyPCs
    BY <1>4, <1>5 DEF Procs, HasCopyPCs, UpdatePCs
  <2> QED
    BY <1>1, <1>2, <1>4, <2>1 DEF Copies
<1>7. NoneBusy' /\ \A g \in Holders : AtWork(g)' => g = h
  BY <1>4, <1>5, GoroutineSets DEF NoneBusy, Busy, AtWork, UpdatePCs
<1>8. \A n \in Nodes : InPlace(n)' => InPlace(n)
  BY <1>1, <1>7, GoroutineSets DEF InPlace, NoneBusy, Live
<1>9. OnePlace' /\ CopiesPlaced'
  BY <1>1, <1>6, <1>8 DEF Placed, OnePlace, CopiesPlaced
<1>10. NoneEnded'
  <2>1. \A p \in Reconcilers : proc'[p].pc \notin {"pull", "start"}
    BY <1>7 DEF NoneBusy, Busy
  <2>2. \A n \in Nodes, c \in Containers :
            Live(cri[n], c)' => \A pod \in Copies' : ~ pod.status[c].terminated
    BY <1>1, <1>6 DEF Placed, NoneEnded, Live
  <2> QED
    BY <2>1, <2>2 DEF NoneEnded
<1>11. SameEnds' /\ Targeted'
  BY <1>1, <1>6 DEF Placed, SameEnds, Targeted
<1>12. DealsAlone'
  BY <1>1, <1>2, <1>4, <1>5, <1>6, <1>7, GoroutineSets DEF DealsAlone, AtWork
<1>13. UsersUpdate' /\ DownIsIdle' /\ MessagesFirst'
  BY <1>1, <1>4, <1>7, GoroutineSets DEF Placed, UsersUpdate, DownIsIdle, Up, MessagesFirst
<1>14. NotCreated'
  BY <1>1 DEF Placed, NotCreated
<1>15. kvs' # NoPod
  BY <1>1, NoPodAssumption
<1> QED
  BY <1>9, <1>10, <1>11, <1>12, <1>13, <1>14, <1>15 DEF Placed

(* The holder sends a message to the running node, and may write a copy     *)
(* that says the same as its own.                                           *)
LEMMA DealSendsPlaced ==
    ASSUME Coherent, Placed, NEW h \in Holders, proc[h].pc = "deal",
           proc[h].pod.running \in Nodes, msgs' = msgs \cup {proc[h].pod.running},
           UNCHANGED <<kvs, created, node>>, cri' = cri,
           NEW v, Moves(h, v), v.pc \in {"check", "idle", "leave"},
           NEW x, v.pc = "check" => v.pod = x,
           x.running = proc[h].pod.running, x.target = proc[h].pod.target,
           \A c \in Containers :
               x.status[c].terminated = proc[h].pod.status[c].terminated
    PROVE  Placed' /\ (Held' => Held)
<1> DEFINE y == proc[h].pod
<1>1. /\ y \in Copies /\ msgs = {} /\ NoneBusy /\ created /\ h \in Procs
      /\ \A g \in Holders : AtWork(g) => g = h
      /\ \A n \in Nodes : InPlace(n) => y.running = n
      /\ \A pod \in Copies : pod.running = y.running
  BY AloneFacts, GoroutineSets, PodRecordAssumption
<1>2. \A q \in Procs : proc'[q] = IF q = h THEN v ELSE proc[q]
  BY <1>1, MovesFacts
<1>3. Copies' \subseteq Copies \cup {x}
  BY <1>1, RecordCopy, CopiesMove DEF HasCopyPCs, UpdatePCs
<1>4. \A z \in Copies' : z.running = y.running
  BY <1>1, <1>3
<1>5. NoneBusy' /\ \A g \in Holders : proc'[g].pc # "deal"
  BY <1>1, <1>2, GoroutineSets DEF NoneBusy, Busy, AtWork
<1>6. \A n \in Nodes : InPlace(n)' => n = y.running
  BY <1>1, <1>5, GoroutineSets DEF InPlace, NoneBusy
<1>7. \A z \in Copies', c \in Containers : z.status[c].terminated = y.status[c].terminated
  BY <1>1, <1>3 DEF Placed, SameEnds, Ahead
<1>8. OnePlace' /\ CopiesPlaced'
  BY <1>4, <1>6 DEF OnePlace, CopiesPlaced
<1>9. NoneEnded'
  <2>1. \A p \in Reconcilers : proc'[p].pc \notin {"pull", "start"}
    BY <1>5 DEF NoneBusy, Busy
  <2>2. \A n \in Nodes, c \in Containers :
            Live(cri[n], c)' => \A pod \in Copies' : ~ pod.status[c].terminated
    BY <1>1, <1>7 DEF Placed, NoneEnded, Live
  <2> QED
    BY <2>1, <2>2 DEF NoneEnded
<1>10. SameEnds'
  BY <1>7 DEF SameEnds
<1>11. DealsAlone' /\ MessagesFirst' /\ NotCreated'
  BY <1>1, <1>5 DEF DealsAlone, MessagesFirst, NotCreated
<1>12. UsersUpdate' /\ DownIsIdle'
  BY <1>1, <1>2, GoroutineSets DEF Placed, UsersUpdate, DownIsIdle, Up, Moves
<1>13. Targeted'
  BY <1>1, <1>3 DEF Placed, Targeted
<1> QED
  BY <1>8, <1>9, <1>10, <1>11, <1>12, <1>13 DEF Placed, Held

LEMMA DealReconcilePlaced ==
    ASSUME Coherent, Placed, NEW h \in Holders,
           DealReconcile(h) \/ (DealDeleting(h) /\ msgs' # msgs)
    PROVE  Placed' /\ (Held' => Held)
<1>1. /\ h \in Procs /\ Up(h) /\ proc[h].pc = "deal" /\ proc[h].pod.running # NoNode
      /\ msgs' = msgs \cup {proc[h].pod.running} /\ Finished(h)
      /\ UNCHANGED <<kvs, created, node>> /\ cri' = cri
  BY GoroutineSets DEF DealReconcile, DealDeleting, Reconcilable, Removable, At, NodeUnchanged
<1>2. proc[h].pod.running \in Nodes
  BY <1>1, AloneFacts DEF Pod
<1>3. Moves(h, Idle) /\ Idle.pc = "idle"
  BY <1>1, FinishedStep, MovesOn
<1> QED
  BY <1>1, <1>2, <1>3, DealSendsPlaced

LEMMA DealTimeoutPlaced ==
    ASSUME Coherent, Placed, NEW h \in Holders, DealTimeout(h)
    PROVE  Placed' /\ (Held' => Held)
<1> DEFINE y == proc[h].pod
           x == MarkUnknown(y)
<1>1. /\ h \in Procs /\ Up(h) /\ proc[h].pc = "deal" /\ y.running # NoNode
      /\ msgs' \in {msgs, msgs \cup {y.running}} /\ CallUpdate(h, x, "idle")
      /\ UNCHANGED <<kvs, created, node>> /\ NodeUnchanged
  BY GoroutineSets DEF DealTimeout, Reconcilable, At
<1>2. y \in Pod /\ y \in Copies /\ y.running \in Nodes
  BY <1>1, AloneFacts DEF Pod
<1>3. /\ x \in Pod /\ x.running = y.running /\ x.target = y.target
      /\ \A c \in Containers : x.status[c].terminated = y.status[c].terminated
  <2>1. x \in Pod /\ x.running = y.running /\ x.target = y.target
    BY <1>2, HandoverType DEF MarkUnknown, Pod
  <2>2. ASSUME NEW c \in Containers
        PROVE  x.status[c].terminated = y.status[c].terminated
    <3>1. x.status[c] = [y.status[c] EXCEPT !.unknown = TRUE]
      BY <1>2 DEF MarkUnknown, Pod
    <3>2. y.status[c] \in ContainerStatus
      BY <1>2 DEF Pod
    <3> QED
      BY <3>1, <3>2 DEF ContainerStatus
  <2> QED
    BY <2>1, <2>2
<1>4. AtWork(h) /\ "idle" \in Afters
  BY <1>1 DEF AtWork, Afters
<1>5. cri' = cri
  BY <1>1 DEF NodeUnchanged
<1> HIDE DEF x
<1>6. CASE msgs' = msgs
  BY <1>1, <1>2, <1>3, <1>4, <1>6, RewrittenStep
<1>7. CASE msgs' = msgs \cup {y.running}
  <2>1. PICK v : /\ Moves(h, v) /\ v.pc \in {"check", "leave", "idle"}
                 /\ v.pc = "check" => v.pod = x
    BY <1>1, <1>3, <1>4, CallUpdateMoves
  <2> QED
    BY <1>1, <1>2, <1>3, <1>5, <1>7, <2>1, DealSendsPlaced
<1> QED
  BY <1>1, <1>6, <1>7

LEMMA DealSchedulePlaced ==
    ASSUME Coherent, Placed, NEW h \in Holders, DealSchedule(h)
    PROVE  Placed' /\ (Held' => Held)
<1> DEFINE y == proc[h].pod
           x == [y EXCEPT !.target = Creator, !.running = Creator]
<1>1. /\ h \in Procs /\ Up(h) /\ proc[h].pc = "deal" /\ y.running = NoNode
      /\ CallUpdate(h, x, "idle") /\ UNCHANGED <<kvs, created, msgs, node>> /\ NodeUnchanged
  BY GoroutineSets DEF DealSchedule, At
<1>2. y \in Pod /\ y \in Copies
  BY <1>1, AloneFacts
<1>3. Creator \in Nodes /\ Creator # NoNode
  BY PodSystemAssumption, PodRecordAssumption
<1>4. x \in Pod /\ x.status = y.status /\ x.target = Creator
  BY <1>2, <1>3, CopyType DEF Pod
<1>5. AtWork(h) /\ "idle" \in Afters
  BY <1>1 DEF AtWork, Afters
<1> HIDE DEF x
<1> QED
  BY <1>1, <1>2, <1>3, <1>4, <1>5, RewrittenStep

(* Nothing runs and nobody reconciles when the pod is handed over. *)
LEMMA DealHandoverPlaced ==
    ASSUME Coherent, Placed, NEW h \in Holders, DealHandover(h)
    PROVE  Placed' /\ (Held' => Held)
<1> DEFINE y == proc[h].pod
           x == Handover(y)
<1>1. /\ h \in Procs /\ h \notin Reconcilers /\ Up(h) /\ proc[h].pc = "deal" /\ y.running # NoNode
      /\ \A c \in Containers : y.status[c].terminated
      /\ CallUpdate(h, x, "idle") /\ UNCHANGED <<kvs, created, msgs, node>> /\ NodeUnchanged
  BY GoroutineSets DEF DealHandover, Moved, isContainerTerminated, At
<1>2. /\ y \in Pod /\ y \in Copies /\ msgs = {} /\ NoneBusy /\ created
      /\ \A g \in Holders : AtWork(g) => g = h
  BY <1>1, AloneFacts
<1>3. /\ x \in Pod /\ x.running = y.target /\ x.target = y.target /\ y.target # NoNode
      /\ \A c \in Containers : ~ x.status[c].terminated
  <2>1. x \in Pod /\ x.running = y.target /\ x.target = y.target
    BY <1>2, HandoverType DEF Handover, Pod
  <2>2. \A c \in Containers : ~ x.status[c].terminated
    BY <1>2 DEF Handover, Pod, ResetStatus, EmptyStatus
  <2> QED
    BY <1>1, <1>2, <2>1, <2>2 DEF Placed, Targeted
<1>4. AtWork(h) /\ "idle" \in Afters
  BY <1>1 DEF AtWork, Afters
<1> HIDE DEF x
<1>5. PICK v : /\ Moves(h, v) /\ v.pc \in {"check", "leave", "idle"}
               /\ v.pc = "check" => v.pod = x
  BY <1>1, <1>3, <1>4, CallUpdateMoves
<1>6. FewerLive
  BY <1>1, SameLive DEF NodeUnchanged
<1>7. Calms(h, v)
  BY <1>1, <1>4, <1>5, GoroutineSets DEF Calms, UpdatePCs, HasCopyPCs
<1>8. \A q \in Procs : proc'[q] = IF q = h THEN v ELSE proc[q]
  BY <1>1, <1>5, MovesFacts
<1>9. Copies' \subseteq Copies \cup {x}
  BY <1>1, <1>5, RecordCopy, CopiesMove DEF HasCopyPCs, UpdatePCs
<1>10. \A n \in Nodes, c \in Containers : ~ Live(cri[n], c)'
  BY <1>1, <1>2, <1>6 DEF Placed, NoneEnded, FewerLive
<1>11. NoneBusy' /\ ~ Ahead'
  BY <1>1, <1>2, <1>4, <1>5, <1>8, GoroutineSets DEF NoneBusy, Busy, Ahead, AtWork
<1>12. \A n \in Nodes : ~ InPlace(n)'
  BY <1>1, <1>2, <1>10, <1>11 DEF InPlace, NoneBusy
<1>13. \A q \in Reconcilers : proc'[q].pc \notin {"pull", "start"}
  BY <1>11 DEF NoneBusy, Busy
<1>14. \A g \in Holders : proc'[g].pc # "deal"
  BY <1>11 DEF Ahead
<1>15. Fitting(h, v, x)
  BY <1>3, <1>10, <1>11, <1>12, <1>13, <1>14 DEF Fitting
<1> QED
  BY <1>1, <1>2, <1>5, <1>6, <1>7, <1>9, <1>15, CalmStep

(* A step of a holder *)
LEMMA HolderPlaced ==
    ASSUME Timing # "free", Coherent, Placed, NEW h \in Holders, HolderStep(h)
    PROVE  Placed' /\ (Held' => Held \/ kvs' # NoPod)
BY TickPlaced, DealEndsPlaced, DealReconcilePlaced, DealTimeoutPlaced, DealSchedulePlaced,
   DealHandoverPlaced, UpdatePlaced, GoroutineSets
   DEF HolderStep

-----------------------------------------------------------------------------
(* The steps of a reconcile that reads, starts or writes *)

(* What a reconcile knows while it goes on *)
LEMMA BusyFacts ==
    ASSUME Coherent, Placed, NEW p \in Reconcilers, Busy(p)
    PROVE  /\ p \in Procs /\ NodeOf[p] \in Nodes /\ msgs = {}
           /\ \A q \in Reconcilers : Busy(q) => q = p
           /\ \A h \in Holders : proc[h].pc # "deal"
           /\ \A n \in Nodes : InPlace(n) => n = NodeOf[p]
           /\ \A pod \in Copies : pod.running = NodeOf[p]
<1>1. p \in Procs /\ NodeOf[p] \in Nodes
  BY GoroutineSets
<1>2. InPlace(NodeOf[p])
  BY <1>1 DEF InPlace
<1>3. msgs = {} /\ \A h \in Holders : proc[h].pc # "deal"
  BY DEF Placed, MessagesFirst, DealsAlone, NoneBusy
<1>4. \A n \in Nodes : InPlace(n) => n = NodeOf[p]
  BY <1>1, <1>2 DEF Placed, OnePlace
<1>5. ASSUME NEW q \in Reconcilers, Busy(q)
      PROVE  q = p
  <2>1. NodeOf[q] = NodeOf[p]
    BY <1>4, <1>5, GoroutineSets DEF InPlace
  <2>2. p \in ActiveOn(NodeOf[p]) /\ q \in ActiveOn(NodeOf[p])
    BY <1>5, <2>1 DEF ActiveOn, Reconciling, Busy
  <2> QED
    BY <1>1, <2>2 DEF Coherent, GoodEntry
<1> QED
  BY <1>1, <1>2, <1>3, <1>4, <1>5 DEF Placed, CopiesPlaced

LEMMA ReconcilerStep ==
    ASSUME Coherent, Placed, NEW p \in Reconcilers, Busy(p),
           NEW v, Moves(p, v), v.pc \notin {"get", "deal"},
           UNCHANGED <<created, msgs>>,
           \A n \in Nodes, c \in Containers : n # NodeOf[p] /\ Live(cri[n], c)' => Live(cri[n], c),
           \A x \in Copies' : x.running = NodeOf[p] /\ x.target # NoNode,
           \A c \in Containers : Live(cri[NodeOf[p]], c)' => \A x \in Copies' : ~ x.status[c].terminated,
           v.pc \in {"pull", "start"} =>
               \A c \in v.todo, x \in Copies' : ~ x.status[c].terminated,
           created
    PROVE  Placed' /\ (Held' => Held)
<1>1. /\ p \in Procs /\ p \notin Holders /\ p \notin Users /\ NodeOf[p] \in Nodes /\ msgs = {}
      /\ \A q \in Reconcilers : Busy(q) => q = p
      /\ \A h \in Holders : proc[h].pc # "deal"
      /\ \A n \in Nodes : InPlace(n) => n = NodeOf[p]
  BY BusyFacts, GoroutineSets
<1>2. \A q \in Procs : proc'[q] = IF q = p THEN v ELSE proc[q]
  BY <1>1, MovesFacts
<1>3. \A q \in Reconcilers : Busy(q)' => q = p
  BY <1>1, <1>2, GoroutineSets DEF Busy
<1>4. ASSUME NEW n \in Nodes, InPlace(n)'
      PROVE  n = NodeOf[p]
  <2>1. CASE \E c \in Containers : Live(cri[n], c)'
    BY <1>1, <2>1 DEF InPlace
  <2> QED
    BY <1>1, <1>3, <1>4, <2>1 DEF InPlace
<1>5. \A h \in Holders : proc'[h].pc # "deal"
  BY <1>1, <1>2, GoroutineSets
<1>6. ~ Ahead'
  <2>1. \A q \in Reconcilers : proc'[q].pc # "get"
    BY <1>2, <1>3, GoroutineSets DEF Busy
  <2> QED
    BY <1>1, <1>5, <2>1 DEF Ahead
<1>7. OnePlace' /\ CopiesPlaced'
  BY <1>4 DEF OnePlace, CopiesPlaced
<1>8. NoneEnded'
  <2>1. \A q \in Reconcilers : proc'[q].pc \in {"pull", "start"} =>
            \A c \in proc'[q].todo, x \in Copies' : ~ x.status[c].terminated
    BY <1>1, <1>2, <1>3 DEF Busy
  <2>2. ASSUME NEW n \in Nodes, NEW c \in Containers, Live(cri[n], c)'
        PROVE  \A x \in Copies' : ~ x.status[c].terminated
    <3>1. InPlace(n)'
      BY <2>2 DEF InPlace
    <3> QED
      BY <1>4, <2>2, <3>1
  <2> QED
    BY <2>1, <2>2 DEF NoneEnded
<1>9. SameEnds' /\ DealsAlone' /\ MessagesFirst'
  BY <1>1, <1>5, <1>6 DEF SameEnds, DealsAlone, MessagesFirst
<1>10. UsersUpdate' /\ DownIsIdle'
  BY <1>1, <1>2, GoroutineSets DEF Placed, UsersUpdate, DownIsIdle, Up, Moves
<1>11. NotCreated' /\ Targeted'
  BY DEF NotCreated, Targeted
<1>12. Held
  BY <1>1 DEF Held, InPlace
<1> QED
  BY <1>7, <1>8, <1>9, <1>10, <1>11, <1>12 DEF Placed

(* Reconcile begins, or returns at once since another one runs. *)
LEMMA EnterPlaced ==
    ASSUME Coherent, Placed, NEW p \in Reconcilers, Enter(p)
    PROVE  Placed' /\ (Held' => Held)
<1> DEFINE n == NodeOf[p]
<1>1. /\ p \in Procs /\ n \in Nodes /\ Up(p) /\ proc[p].pc = "idle" /\ n \in msgs
      /\ msgs' = msgs \ {n} /\ UNCHANGED <<kvs, created, node>> /\ cri' = cri
  BY GoroutineSets DEF Enter, At
<1>2. CASE proc' = proc
  <2>1. DownIsIdle'
    BY <1>1, <1>2 DEF Placed, DownIsIdle, Up
  <2> QED
    BY <1>1, <1>2, <2>1, SameLive, LessStep
<1>3. CASE Goto(p, "get")
  <2>1. PICK v : Moves(p, v) /\ v.pc = "get"
    BY <1>1, <1>3, GotoMoves DEF PCs, ReconcilePCs
  <2>2. \A q \in Procs : proc'[q] = IF q = p THEN v ELSE proc[q]
    BY <1>1, <2>1, MovesFacts
  <2>3. InPlace(n) /\ Ahead /\ NoneBusy
    BY <1>1 DEF InPlace, Ahead, Placed, MessagesFirst
  <2>4. \A m \in Nodes : InPlace(m) => m = n
    BY <1>1, <2>3 DEF Placed, OnePlace
  <2>5. msgs' = {}
    BY <1>1, <2>4 DEF InPlace, Coherent, TypeOK
  <2>6. \A q \in Reconcilers : Busy(q)' => q = p
    BY <2>2, <2>3, GoroutineSets DEF NoneBusy, Busy
  <2>7. ASSUME NEW m \in Nodes, InPlace(m)'
        PROVE  m = n
    <3>1. CASE \E c \in Containers : Live(cri[m], c)'
      <4>1. InPlace(m)
        BY <1>1, <3>1 DEF InPlace, Live
      <4> QED
        BY <2>4, <4>1
    <3> QED
      BY <2>5, <2>6, <2>7, <3>1 DEF InPlace
  <2>8. Copies' \subseteq Copies
    BY <1>1, <2>1, <2>2 DEF Copies, HasCopyPCs, UpdatePCs
  <2>9. \A h \in Holders : proc'[h] = proc[h] /\ proc[h].pc # "deal"
    BY <1>1, <2>2, GoroutineSets DEF Placed, DealsAlone
  <2>10. OnePlace' /\ CopiesPlaced'
    BY <1>1, <2>3, <2>7, <2>8 DEF Placed, OnePlace, CopiesPlaced
  <2>11. NoneEnded'
    <3>1. \A q \in Reconcilers : proc'[q].pc \notin {"pull", "start"}
      BY <2>1, <2>2, <2>6, GoroutineSets DEF Busy
    <3>2. \A m \in Nodes, c \in Containers :
              Live(cri[m], c)' => \A pod \in Copies' : ~ pod.status[c].terminated
      BY <1>1, <2>8 DEF Placed, NoneEnded, Live
    <3> QED
      BY <3>1, <3>2 DEF NoneEnded
  <2>12. SameEnds' /\ DealsAlone' /\ MessagesFirst'
    BY <2>3, <2>5, <2>8, <2>9 DEF Placed, SameEnds, DealsAlone, MessagesFirst
  <2>13. UsersUpdate' /\ DownIsIdle'
    BY <1>1, <2>1, <2>2, GoroutineSets
       DEF Placed, UsersUpdate, DownIsIdle, Up, HasCopyPCs, UpdatePCs
  <2>14. NotCreated' /\ Targeted'
    BY <1>1, <2>3, <2>8 DEF Placed, NotCreated, Targeted
  <2> QED
    BY <2>3, <1>1, <2>10, <2>11, <2>12, <2>13, <2>14 DEF Placed, Held
<1> QED
  BY <1>2, <1>3 DEF Enter

(* letRunning begins: what it is to start has not run. *)
LEMMA PullPlaced ==
    ASSUME Coherent, Placed, NEW p \in Reconcilers, Gets(p), kvs.running = NodeOf[p],
           proc' = [proc EXCEPT ![p] = [Idle EXCEPT !.pc = "pull", !.pod = kvs,
                                        !.todo = {c \in Containers : ~ kvs.status[c].running}]],
           UNCHANGED <<kvs, created, msgs, node>>,
           \A n \in Nodes, c \in Containers : Live(cri[n], c)' => Live(cri[n], c)
    PROVE  Placed' /\ (Held' => Held)
<1> DEFINE waiting == {c \in Containers : ~ kvs.status[c].running}
           v == [Idle EXCEPT !.pc = "pull", !.pod = kvs, !.todo = waiting]
<1>1. /\ p \in Procs /\ NodeOf[p] \in Nodes /\ Up(p) /\ Busy(p) /\ Ahead
      /\ kvs \in Copies /\ kvs \in Pod /\ Valid(kvs)
  BY GoroutineSets, RecordCopy, RecordFacts DEF Gets, At, Busy, Ahead
<1>2. v \in Process /\ v.pc = "pull" /\ v.pod = kvs /\ v.todo = waiting
  BY <1>1 DEF Process, Idle, PCs, ReconcilePCs, Afters
<1>3. Moves(p, v)
  BY <1>1, <1>2 DEF Moves
<1> HIDE DEF v
<1>4. \A q \in Procs : proc'[q] = IF q = p THEN v ELSE proc[q]
  BY <1>1, <1>3, MovesFacts
<1>5. Copies' \subseteq Copies
  BY <1>1, <1>2, <1>4 DEF Copies
<1>6. \A x \in Copies' : x.running = NodeOf[p] /\ x.target # NoNode
  BY <1>1, <1>5, BusyFacts, PodRecordAssumption DEF Placed, Targeted
<1>7. \A c \in v.todo, x \in Copies' : ~ x.status[c].terminated
  BY <1>1, <1>2, <1>5 DEF Placed, SameEnds, Valid
<1>8. \A c \in Containers : Live(cri[NodeOf[p]], c)' => \A x \in Copies' : ~ x.status[c].terminated
  BY <1>1, <1>5 DEF Placed, NoneEnded
<1>9. created
  BY <1>1 DEF Placed, NotCreated
<1> QED
  BY <1>1, <1>2, <1>3, <1>6, <1>7, <1>8, <1>9, ReconcilerStep

LEMMA ReconcileRunPlaced ==
    ASSUME Coherent, Placed, NEW p \in Reconcilers, ReconcileRun(p)
    PROVE  Placed' /\ (Held' => Held)
<1> DEFINE n == NodeOf[p]
<1>1. /\ Gets(p) /\ kvs.running = n /\ UNCHANGED <<kvs, created, msgs, node>>
      /\ p \in Procs /\ n \in Nodes /\ Up(p) /\ Busy(p)
  BY GoroutineSets DEF ReconcileRun, Gets, At, Busy
<1>2. CASE /\ proc' = [proc EXCEPT ![p] = [Idle EXCEPT !.pc = "info", !.pod = kvs]]
           /\ cri' = cri
  <2> DEFINE v == [Idle EXCEPT !.pc = "info", !.pod = kvs]
  <2>1. v \in Process /\ v.pc = "info" /\ v.pod = kvs
    BY <1>1, ReadsType DEF Gets, PCs, ReconcilePCs
  <2> HIDE DEF v
  <2>2. proc' = [proc EXCEPT ![p] = v] /\ v.pc \in {"teardown", "info"}
    BY <1>2, <2>1 DEF v
  <2> QED
    BY <1>1, <1>2, <2>1, <2>2, ReconcileTerminatePlaced
<1>3. CASE /\ proc' = [proc EXCEPT ![p] = [Idle EXCEPT !.pc = "pull", !.pod = kvs,
                                        !.todo = {c \in Containers : ~ kvs.status[c].running}]]
           /\ cri' = cri \/ cri' = [cri EXCEPT ![n] = RunPodSandbox(cri[n], nextId)]
  <2>1. cri[n] \in Runtime
    BY <1>1 DEF Coherent, TypeOK
  <2>2. \A c \in Containers : Live(RunPodSandbox(cri[n], nextId), c) => Live(cri[n], c)
    BY <2>1 DEF Live, RunPodSandbox, Runtime
  <2>3. FewerLive
    BY <1>1, <1>3, <2>2, SameLive, FewerByOne
  <2>4. \A m \in Nodes, c \in Containers : Live(cri[m], c)' => Live(cri[m], c)
    BY <2>3 DEF FewerLive
  <2>5. proc' = [proc EXCEPT ![p] = [Idle EXCEPT !.pc = "pull", !.pod = kvs,
                                        !.todo = {c \in Containers : ~ kvs.status[c].running}]]
    BY <1>3
  <2> QED
    BY <1>1, <2>4, <2>5, PullPlaced
<1>4. CASE Fail(p) /\ cri' = cri
  <2>1. PICK v : Moves(p, v) /\ v.pc \in {"leave", "idle"}
    BY <1>1, <1>4, ReturnMoves
  <2> QED
    BY <1>1, <1>4, <2>1, SameLive, RecordCopy, NoCopyStep DEF HasCopyPCs, UpdatePCs
<1> QED
  BY <1>2, <1>3, <1>4 DEF ReconcileRun

(* A reconcile notes in its copy what became of a container; none of the    *)
(* statuses ends.                                                           *)
LEMMA NotedPlaced ==
    ASSUME Coherent, Placed, NEW p \in Reconcilers, NEW c \in proc[p].todo,
           Up(p), proc[p].pc = "start", NEW s \in ContainerStatus,
           s.terminated => proc[p].pod.status[c].terminated,
           proc' = [proc EXCEPT ![p] = Noted(proc[p], c, s)],
           UNCHANGED <<kvs, created, msgs, node>>,
           \A n \in Nodes, d \in Containers :
               Live(cri[n], d)' => Live(cri[n], d) \/ (n = NodeOf[p] /\ d = c)
    PROVE  Placed' /\ (Held' => Held)
<1> DEFINE y == proc[p].pod
           x == [y EXCEPT !.status[c] = s]
           v == Noted(proc[p], c, s)
<1>1. /\ p \in Procs /\ NodeOf[p] \in Nodes /\ Busy(p)
      /\ y \in Copies /\ y \in Pod /\ proc[p] \in Process
  BY GoroutineSets, OwnCopy DEF Busy, HasCopyPCs
<1>2. c \in Containers
  BY <1>1 DEF Process
<1>3. /\ x \in Pod /\ x.running = y.running /\ x.target = y.target
      /\ \A d \in Containers : x.status[d].terminated => y.status[d].terminated
  BY <1>1, <1>2 DEF Pod
<1>4. v = [proc[p] EXCEPT !.todo = proc[p].todo \ {c}, !.pod = x]
  BY <1>1, <1>2 DEF Noted, Process, Pod
<1> HIDE DEF x
<1>5. v \in Process /\ v.pc = "start" /\ v.pod = x /\ v.todo = proc[p].todo \ {c}
  BY <1>1, <1>3, <1>4 DEF Process
<1> HIDE DEF v
<1>6. Moves(p, v)
  BY <1>5 DEF Moves, v
<1>7. Copies' \subseteq Copies \cup {x}
  BY <1>1, <1>5, <1>6, RecordCopy, CopiesMove
<1>8. \A z \in Copies' : z.running = NodeOf[p] /\ z.target # NoNode
  BY <1>1, <1>3, <1>7, BusyFacts, PodRecordAssumption DEF Placed, Targeted
<1>9. \A d \in proc[p].todo, z \in Copies' : ~ z.status[d].terminated
  <2>1. \A d \in proc[p].todo : ~ y.status[d].terminated
    BY <1>1 DEF Placed, NoneEnded
  <2>2. \A d \in proc[p].todo : ~ x.status[d].terminated
    BY <1>1, <1>3, <2>1 DEF Process
  <2> QED
    BY <1>7, <2>2 DEF Placed, NoneEnded
<1>10. \A d \in Containers : Live(cri[NodeOf[p]], d) => \A z \in Copies' : ~ z.status[d].terminated
  BY <1>1, <1>3, <1>7 DEF Placed, NoneEnded
<1>11. created
  BY <1>1 DEF Placed, NotCreated
<1>12. \A d \in Containers : Live(cri[NodeOf[p]], d)' => \A z \in Copies' : ~ z.status[d].terminated
  BY <1>1, <1>9, <1>10
<1>13. \A n \in Nodes, d \in Containers : n # NodeOf[p] /\ Live(cri[n], d)' => Live(cri[n], d)
  OBVIOUS
<1> QED
  BY <1>1, <1>5, <1>6, <1>8, <1>9, <1>11, <1>12, <1>13, ReconcilerStep

LEMMA StartContainerPlaced ==
    ASSUME Coherent, Placed, NEW p \in Reconcilers, NEW c \in Containers, StartContainer(p, c)
    PROVE  Placed' /\ (Held' => Held)
<1> DEFINE n == NodeOf[p]
           s == Filled(proc[p].pod.status[c], nextId)
<1>1. /\ Up(p) /\ proc[p].pc = "start" /\ c \in proc[p].todo /\ n \in Nodes /\ p \in Procs
      /\ cri' = [cri EXCEPT ![n] = CreateAndStart(cri[n], c, nextId)]
      /\ proc' = [proc EXCEPT ![p] = Noted(proc[p], c, s)]
      /\ UNCHANGED <<kvs, created, msgs, node>>
  BY GoroutineSets DEF StartContainer, At, Coherent, TypeOK
<1>2. proc[p].pod.status[c] \in ContainerStatus /\ nextId \in Nat /\ cri[n] \in Runtime
  BY <1>1, OwnCopy DEF HasCopyPCs, Pod, Coherent, TypeOK
<1>3. s \in ContainerStatus /\ ~ s.terminated
  BY <1>2 DEF Filled, ContainerStatus
<1>4. \A m \in Nodes : cri'[m] = IF m = n THEN CreateAndStart(cri[n], c, nextId) ELSE cri[m]
  BY <1>1 DEF Coherent, TypeOK
<1>5. \A d \in Containers : Live(CreateAndStart(cri[n], c, nextId), d) => Live(cri[n], d) \/ d = c
  BY <1>2 DEF Live, CreateAndStart, Runtime
<1>6. \A m \in Nodes, d \in Containers : Live(cri[m], d)' => Live(cri[m], d) \/ (m = n /\ d = c)
  BY <1>4, <1>5 DEF Live
<1> HIDE DEF s
<1> QED
  BY <1>1, <1>3, <1>6, NotedPlaced

LEMMA StartFailsPlaced ==
    ASSUME Coherent, Placed, NEW p \in Reconcilers, NEW c \in Containers, StartFails(p, c)
    PROVE  Placed' /\ (Held' => Held)
<1> DEFINE n == NodeOf[p]
<1>1. /\ Up(p) /\ proc[p].pc = "start" /\ c \in proc[p].todo /\ n \in Nodes /\ p \in Procs
      /\ cri' = [cri EXCEPT ![n] = CreateContainer(cri[n], c, nextId)]
      /\ UNCHANGED <<kvs, created, msgs, node>>
  BY GoroutineSets DEF StartFails, At, Coherent, TypeOK
<1>2. proc[p].pod.status[c] \in ContainerStatus /\ nextId \in Nat /\ cri[n] \in Runtime
  BY <1>1, OwnCopy DEF HasCopyPCs, Pod, Coherent, TypeOK
<1>3. PICK s \in {proc[p].pod.status[c], Listed(proc[p].pod.status[c], nextId)} :
          proc' = [proc EXCEPT ![p] = Noted(proc[p], c, s)]
  BY <1>1 DEF StartFails, Coherent, TypeOK
<1>4. s \in ContainerStatus /\ (s.terminated => proc[p].pod.status[c].terminated)
  BY <1>2, <1>3 DEF Listed, ContainerStatus
<1>5. \A m \in Nodes : cri'[m] = IF m = n THEN CreateContainer(cri[n], c, nextId) ELSE cri[m]
  BY <1>1 DEF Coherent, TypeOK
<1>6. \A d \in Containers : Live(CreateContainer(cri[n], c, nextId), d) => Live(cri[n], d) \/ d = c
  BY <1>2 DEF Live, CreateContainer, Runtime
<1>7. \A m \in Nodes, d \in Containers : Live(cri[m], d)' => Live(cri[m], d) \/ (m = n /\ d = c)
  BY <1>5, <1>6 DEF Live
<1> QED
  BY <1>1, <1>3, <1>4, <1>7, NotedPlaced

LEMMA FindContainerPlaced ==
    ASSUME Coherent, Placed, NEW p \in Reconcilers, NEW c \in Containers, FindContainer(p, c)
    PROVE  Placed' /\ (Held' => Held)
<1>1. PICK started \in BOOLEAN :
          proc' = [proc EXCEPT ![p] = Noted(proc[p], c, Found(proc[p].pod.status[c], started))]
  BY GoroutineSets DEF FindContainer, Coherent, TypeOK
<1> DEFINE s == Found(proc[p].pod.status[c], started)
<1>2. /\ Up(p) /\ proc[p].pc = "start" /\ c \in proc[p].todo /\ p \in Procs
      /\ UNCHANGED <<kvs, created, msgs, node>> /\ cri' = cri
  BY GoroutineSets DEF FindContainer, At, NodeUnchanged
<1>3. proc[p].pod.status[c] \in ContainerStatus
  BY <1>2, OwnCopy DEF HasCopyPCs, Pod
<1>4. s \in ContainerStatus /\ (s.terminated => proc[p].pod.status[c].terminated)
  BY <1>3 DEF Found, Filled, ContainerStatus, NoId
<1>5. \A m \in Nodes, d \in Containers : Live(cri[m], d)' => Live(cri[m], d)
  BY <1>2 DEF Live
<1> HIDE DEF s
<1> QED
  BY <1>1, <1>2, <1>4, <1>5, NotedPlaced DEF s

(* Only what has exited ends in the record. *)
LEMMA NewStatusEnds ==
    ASSUME Coherent, NEW p \in Reconcilers, proc[p].pc = "info", NEW c \in Containers
    PROVE  /\ NewStatus(p)[c] \in ContainerStatus
           /\ proc[p].pod.status[c].terminated => NewStatus(p)[c].terminated
           /\ NewStatus(p)[c].terminated =>
                  proc[p].pod.status[c].terminated \/ ~ Live(cri[NodeOf[p]], c)
<1> DEFINE s == proc[p].pod.status[c]
           k == cri[NodeOf[p]].box[c]
<1>1. s \in ContainerStatus /\ k \in Container
  BY OwnCopy, GoroutineSets DEF HasCopyPCs, Pod, Coherent, TypeOK, Runtime
<1>2. NewStatus(p)[c] \in {Observed(s, k), Missing(s)}
  BY DEF NewStatus
<1>3. /\ Missing(s) \in ContainerStatus
      /\ Missing(s).terminated = s.terminated
  BY <1>1 DEF Missing, ContainerStatus
<1> DEFINE t == Adopted(s, k)
<1>4. t \in ContainerStatus /\ t.terminated = s.terminated
  BY <1>1 DEF Adopted, ContainerStatus, Container
<1> HIDE DEF s, k, t
<1>5. /\ Observed(s, k) \in ContainerStatus
      /\ s.terminated => Observed(s, k).terminated
      /\ Observed(s, k).terminated => s.terminated \/ k.state = "exited"
  BY <1>4 DEF Observed, ContainerStatus, t
<1>6. k.state = "exited" => ~ Live(cri[NodeOf[p]], c)
  BY DEF Live, k
<1> QED
  BY <1>2, <1>3, <1>5, <1>6 DEF s, k

LEMMA UpdateInfoPlaced ==
    ASSUME Coherent, Placed, NEW p \in Reconcilers, UpdateInfo(p)
    PROVE  Placed' /\ (Held' => Held)
<1> DEFINE n == NodeOf[p]
           y == proc[p].pod
           x == [y EXCEPT !.status = NewStatus(p)]
<1>1. /\ Up(p) /\ proc[p].pc = "info" /\ p \in Procs /\ n \in Nodes /\ Busy(p)
      /\ UNCHANGED <<kvs, created, msgs, node>>
      /\ \E then \in Afters : CallUpdate(p, x, then)
      /\ cri' = cri \/ cri' = [cri EXCEPT ![n] = RemoveSandbox(cri[n], local[n].sandbox)]
  BY GoroutineSets DEF UpdateInfo, At, Afters, Busy
<1>2. y \in Copies /\ y \in Pod
  BY <1>1, OwnCopy DEF HasCopyPCs
<1>3. /\ x \in Pod /\ x.running = y.running /\ x.target = y.target /\ x.status = NewStatus(p)
  <2>1. NewStatus(p) \in [Containers -> ContainerStatus]
    BY <1>1, NewStatusEnds DEF NewStatus
  <2> QED
    BY <1>2, <2>1 DEF Pod
<1>4. FewerLive
  BY <1>1, SameLive, FewerByOne, RemovedLive
<1> HIDE DEF x
<1>5. PICK v : /\ Moves(p, v) /\ v.pc \in {"check", "leave", "idle"}
               /\ v.pc = "check" => v.pod = x
  BY <1>1, <1>3, CallUpdateMoves
<1>6. Copies' \subseteq Copies \cup {x}
  BY <1>1, <1>2, <1>5, RecordCopy, CopiesMove DEF HasCopyPCs, UpdatePCs
<1>7. \A z \in Copies' : z.running = n /\ z.target # NoNode
  BY <1>1, <1>2, <1>3, <1>6, BusyFacts, PodRecordAssumption DEF Placed, Targeted
<1>8. \A c \in Containers : Live(cri[n], c)' => \A z \in Copies' : ~ z.status[c].terminated
  BY <1>1, <1>2, <1>3, <1>4, <1>6, NewStatusEnds DEF Placed, NoneEnded, FewerLive
<1>9. created
  BY <1>2 DEF Placed, NotCreated
<1> QED
  BY <1>1, <1>4, <1>5, <1>7, <1>8, <1>9, ReconcilerStep DEF FewerLive

LEMMA ReconcileTerminateStep ==
    ASSUME Coherent, Placed, NEW p \in Reconcilers, ReconcileTerminate(p)
    PROVE  Placed' /\ (Held' => Held)
<1>1. Gets(p) /\ UNCHANGED <<kvs, created, msgs, node>> /\ cri' = cri
  BY DEF ReconcileTerminate, NodeUnchanged
<1>2. CASE proc' = [proc EXCEPT ![p] = [Idle EXCEPT !.pc = "info", !.pod = kvs]]
  <2> DEFINE v == [Idle EXCEPT !.pc = "info", !.pod = kvs]
  <2>1. v \in Process /\ v.pc = "info" /\ v.pod = kvs
    BY <1>1, ReadsType DEF Gets, PCs, ReconcilePCs
  <2> HIDE DEF v
  <2>2. proc' = [proc EXCEPT ![p] = v] /\ v.pc \in {"teardown", "info"}
    BY <1>2, <2>1 DEF v
  <2> QED
    BY <1>1, <1>2, <2>1, <2>2, ReconcileTerminatePlaced
<1>3. CASE proc' = [proc EXCEPT ![p] = [Idle EXCEPT !.pc = "teardown", !.pod = kvs,
                          !.todo = NotExited(cri[NodeOf[p]], local[NodeOf[p]].sandbox)]]
  <2> DEFINE todo == NotExited(cri[NodeOf[p]], local[NodeOf[p]].sandbox)
             v == [Idle EXCEPT !.pc = "teardown", !.pod = kvs, !.todo = todo]
  <2>1. todo \in SUBSET Containers
    BY DEF NotExited
  <2> HIDE DEF todo
  <2>2. v \in Process /\ v.pc = "teardown" /\ v.pod = kvs
    BY <1>1, <2>1, ReadsType DEF Gets, PCs, ReconcilePCs
  <2> HIDE DEF v
  <2>3. proc' = [proc EXCEPT ![p] = v] /\ v.pc \in {"teardown", "info"}
    BY <1>3, <2>2 DEF v, todo
  <2> QED
    BY <1>1, <2>2, <2>3, ReconcileTerminatePlaced
<1> QED
  BY <1>2, <1>3 DEF ReconcileTerminate

(* A step of a reconcile *)
LEMMA ReconcilePlaced ==
    ASSUME Coherent, Placed, NEW p \in Reconcilers, ReconcileStep(p)
    PROVE  Placed' /\ (Held' => Held)
<1>1. p \in Procs /\ NodeOf[p] \in Nodes
  BY GoroutineSets
<1>2. ASSUME NEW c \in Containers, TeardownPanics(p, c) PROVE Placed' /\ (Held' => Held)
  <2>1. NodePanics(NodeOf[p]) /\ UNCHANGED <<kvs, created>>
    BY <1>2 DEF TeardownPanics
  <2> QED
    BY <1>1, <2>1, NodeEndsPlaced
<1>3. ASSUME NEW c \in Containers, TeardownErrs(p, c) PROVE Placed' /\ (Held' => Held)
  <2>1. UNCHANGED <<kvs, created>> /\ ((Fail(p) /\ UNCHANGED <<cri, msgs, node>>) \/ NodePanics(NodeOf[p]))
    BY <1>3 DEF TeardownErrs
  <2>2. CASE NodePanics(NodeOf[p])
    BY <1>1, <2>1, <2>2, NodeEndsPlaced
  <2>3. CASE Fail(p) /\ UNCHANGED <<cri, msgs, node>>
    BY <1>3, <2>3, ReconcileEndsPlaced
  <2> QED
    BY <2>1, <2>2, <2>3
<1>4. ASSUME \/ GetFails(p) \/ ReconcileElsewhere(p) \/ SandboxRefused(p) \/ PullFails(p)
             \/ RecordFails(p) \/ UpdateInfoErrs(p) \/ Remove(p) \/ Leave(p)
             \/ \E c \in Containers : TeardownHangs(p, c)
      PROVE  Placed' /\ (Held' => Held)
  BY <1>4, ReconcileEndsPlaced
<1>5. ASSUME \/ PullImages(p) \/ StartDone(p) \/ TeardownDone(p)
             \/ \E c \in Containers : CreateFails(p, c) \/ Teardown(p, c)
      PROVE  Placed' /\ (Held' => Held)
  BY <1>5, ReconcileGoesOnPlaced
<1>6. ASSUME \/ Enter(p) \/ ReconcileTerminate(p) \/ ReconcileRun(p) \/ UpdateInfo(p)
             \/ UpdateCheck(p) \/ UpdateSet(p) \/ UpdateFails(p)
             \/ \E c \in Containers : StartContainer(p, c) \/ StartFails(p, c) \/ FindContainer(p, c)
      PROVE  Placed' /\ (Held' => Held)
  BY <1>1, <1>6, EnterPlaced, ReconcileTerminateStep, ReconcileRunPlaced, UpdateInfoPlaced,
     UpdatePlaced, StartContainerPlaced, StartFailsPlaced, FindContainerPlaced
<1> QED
  BY <1>2, <1>3, <1>4, <1>5, <1>6 DEF ReconcileStep

(* However long the users' calls take, the pod stays in one place. *)
LEMMA PlacedStep ==
    ASSUME Timing # "free", Coherent, Placed, [Next]_vars
    PROVE  Placed' /\ (Held' => Held \/ kvs' # NoPod)
<1>1. ASSUME NEW n \in Nodes, NodeLeaves(n) PROVE Placed' /\ (Held' => Held)
  BY <1>1, NodeEndsPlaced DEF NodeLeaves
<1> QED
  BY <1>1, UserPlaced, HolderPlaced, ReconcilePlaced, ContainerEndsPlaced, StutterPlaced DEF Next

LEMMA InitPlaced == Init => Placed /\ ~ Held
<1> SUFFICES ASSUME Init PROVE Placed /\ ~ Held
  OBVIOUS
<1>1. /\ kvs = NoPod /\ msgs = {} /\ \A n \in Nodes : cri[n] = EmptyRuntime
      /\ \A p \in Procs : proc[p] = Idle
  BY DEF Init
<1>2. \A p \in Procs : proc[p].pc = "idle"
  BY <1>1 DEF Idle
<1>3. Copies = {}
  <2>1. ASSUME NEW p \in Procs PROVE proc[p].pc \notin HasCopyPCs
    BY <1>2 DEF HasCopyPCs, UpdatePCs
  <2> QED
    BY <1>1, <2>1, NoPodAssumption DEF Copies
<1>4. \A n \in Nodes : ~ InPlace(n)
  <2>1. \A n \in Nodes, c \in Containers : ~ Live(cri[n], c)
    BY <1>1 DEF Live, EmptyRuntime, NoContainer
  <2>2. \A p \in Reconcilers : ~ Busy(p)
    BY <1>2, GoroutineSets DEF Busy
  <2> QED
    BY <1>1, <2>1, <2>2 DEF InPlace
<1>5. NoneEnded
  BY <1>2, <1>3, GoroutineSets DEF NoneEnded
<1>6. OnePlace /\ CopiesPlaced /\ SameEnds /\ NotCreated /\ Targeted
  BY <1>3, <1>4 DEF OnePlace, CopiesPlaced, SameEnds, NotCreated, Targeted
<1>7. DealsAlone /\ MessagesFirst /\ UsersUpdate /\ DownIsIdle
  BY <1>1, <1>2, GoroutineSets
     DEF DealsAlone, MessagesFirst, UsersUpdate, DownIsIdle, HasCopyPCs, UpdatePCs
<1>8. ~ Held
  BY <1>2, <1>4, GoroutineSets DEF Held
<1> QED
  BY <1>5, <1>6, <1>7, <1>8 DEF Placed

(* When holders tick only after what was begun before is over, Placed holds *)
(* initially and no step of a user, a holder, a reconcile, a container or a *)
(* node violates it: the handover of the holder (PodController.updatePod),  *)
(* which is the only change of the running node, finds nothing in place.    *)
THEOREM PlacedInductive ==
    ASSUME Timing # "free"
    PROVE  /\ Init => Placed
           /\ Coherent /\ Placed /\ [Next]_vars => Placed'
BY InitPlaced, PlacedStep

LEMMA PlacedAlways ==
    ASSUME Timing # "free"
    PROVE  Spec => [](Coherent /\ Placed)
<1>1. (Init => Placed) /\ (Coherent /\ Placed /\ [Next]_vars => Placed')
  BY PlacedInductive
<1> QED
  BY <1>1, CoherentInductive, PTL DEF Spec

(* Then a container of the pod never runs on two nodes, whatever the users  *)
(* do meanwhile, calls fail and nodes go away.                              *)
THEOREM OneInstance ==
    ASSUME Timing # "free"
    PROVE  Spec => []OneLiveInstance
<1>1. Placed => OneLiveInstance
  BY DEF Placed, OnePlace, InPlace, OneLiveInstance, LiveOn
<1> QED
  BY <1>1, PlacedAlways, PTL

-----------------------------------------------------------------------------
(* Which steps change what *)

(* A step of a goroutine leaves the other ones alone, unless it ends them.  *)
LEMMA OthersStay ==
    ASSUME Coherent, NEW p \in Procs, UserStep(p) \/ HolderStep(p) \/ ReconcileStep(p),
           NEW q \in Procs, q # p
    PROVE  proc'[q] \in {proc[q], Idle}
<1>1. proc \in [Procs -> Process]
  BY DEF Coherent, TypeOK
<1>2. ASSUME Goto(p, "set") \/ Finished(p) \/ Fail(p) \/ Return(p) PROVE proc'[q] = proc[q]
  BY <1>1, <1>2 DEF Goto, Finished, Fail, Return
<1>3. ASSUME NEW pc, Goto(p, pc) PROVE proc'[q] = proc[q]
  BY <1>1, <1>3 DEF Goto
<1>4. ASSUME NEW pod, NEW then, CallUpdate(p, pod, then) PROVE proc'[q] = proc[q]
  BY <1>1, <1>2, <1>4 DEF CallUpdate
<1>5. ASSUME UpdateCheck(p) \/ UpdateSet(p) \/ UpdateFails(p) PROVE proc'[q] = proc[q]
  BY <1>1, <1>2, <1>5 DEF UpdateCheck, UpdateSet, UpdateFails
<1>6. CASE UserStep(p)
  <2>1. CASE \E n \in Nodes : Migrate(p, n)
    BY <1>4, <2>1 DEF Migrate
  <2>2. CASE DeleteMarks(p)
    BY <1>4, <2>2 DEF DeleteMarks
  <2>3. CASE Create(p) \/ Delete(p) \/ DeleteReturns(p) \/ Cleanup(p) \/ CleanupClears(p)
    BY <1>2, <1>3, <2>3 DEF Create, Delete, DeleteReturns, Cleanup, CleanupClears
  <2> QED
    BY <1>5, <1>6, <2>1, <2>2, <2>3 DEF UserStep
<1>7. CASE HolderStep(p)
  <2>1. CASE Tick(p)
    BY <1>1, <2>1 DEF Tick
  <2>2. CASE DealSchedule(p) \/ DealHandover(p) \/ DealTimeout(p)
    BY <1>4, <2>2 DEF DealSchedule, DealHandover, DealTimeout
  <2>3. CASE DealRemove(p) \/ DealDeleting(p) \/ DealRest(p) \/ DealReconcile(p)
    BY <1>2, <1>3, <2>3 DEF DealRemove, DealDeleting, DealRest, DealReconcile
  <2> QED
    BY <1>5, <1>7, <2>1, <2>2, <2>3 DEF HolderStep
<1>8. CASE ReconcileStep(p)
  <2>1. CASE Enter(p) \/ GetFails(p) \/ ReconcileElsewhere(p) \/ SandboxRefused(p) \/ PullImages(p)
             \/ PullFails(p) \/ StartDone(p) \/ TeardownDone(p) \/ RecordFails(p)
             \/ UpdateInfoErrs(p) \/ Remove(p) \/ Leave(p)
    BY <1>2, <1>3, <2>1
       DEF Enter, GetFails, ReconcileElsewhere, SandboxRefused, PullImages, PullFails, StartDone,
           TeardownDone, RecordFails, UpdateInfoErrs, Remove, Leave
  <2>2. CASE ReconcileTerminate(p) \/ ReconcileRun(p)
    BY <1>1, <1>2, <2>2 DEF ReconcileTerminate, ReconcileRun
  <2>3. CASE UpdateInfo(p)
    BY <1>4, <2>3 DEF UpdateInfo
  <2>4. ASSUME NEW c \in Containers,
               \/ StartContainer(p, c) \/ StartFails(p, c) \/ FindContainer(p, c)
               \/ CreateFails(p, c) \/ Teardown(p, c) \/ TeardownHangs(p, c)
        PROVE  proc'[q] = proc[q]
    BY <1>1, <2>4 DEF StartContainer, StartFails, FindContainer, CreateFails, Teardown, TeardownHangs
  <2>5. ASSUME NEW c \in Containers, TeardownPanics(p, c) \/ TeardownErrs(p, c)
        PROVE  proc'[q] \in {proc[q], Idle}
    BY <1>2, <2>5 DEF TeardownPanics, TeardownErrs, NodePanics, ProgramEnds
  <2> QED
    BY <1>5, <1>8, <2>1, <2>2, <2>3, <2>4, <2>5 DEF ReconcileStep
<1> QED
  BY <1>6, <1>7, <1>8

(* The record is written by Create and Update, and taken away by Cleanup    *)
(* and by a holder.                                                         *)
LEMMA RecordChanges ==
    ASSUME [Next]_vars, kvs' # kvs
    PROVE  \/ \E u \in Users : Create(u) \/ CleanupClears(u)
           \/ \E h \in Holders : DealRemove(h)
           \/ \E p \in Procs : UpdateSet(p) /\ (UserStep(p) \/ HolderStep(p) \/ ReconcileStep(p))
<1> USE GoroutineSets
<1>1. ASSUME NEW p \in Procs, UpdateCheck(p) \/ UpdateFails(p) PROVE FALSE
  BY <1>1 DEF UpdateCheck, UpdateFails
<1>2. ASSUME NEW u \in Users, UserStep(u)
      PROVE  Create(u) \/ CleanupClears(u) \/ UpdateSet(u)
  BY <1>1, <1>2 DEF UserStep, Migrate, Delete, DeleteMarks, DeleteReturns, Cleanup
<1>3. ASSUME NEW h \in Holders, HolderStep(h)
      PROVE  DealRemove(h) \/ UpdateSet(h)
  BY <1>1, <1>3
     DEF HolderStep, Tick, DealDeleting, DealSchedule, DealRest, DealHandover, DealReconcile, DealTimeout
<1>4. ASSUME NEW p \in Reconcilers, ReconcileStep(p)
      PROVE  UpdateSet(p)
  BY <1>1, <1>4
     DEF ReconcileStep, Enter, GetFails, ReconcileElsewhere, ReconcileTerminate, ReconcileRun,
         SandboxRefused, PullImages, PullFails, StartContainer, StartFails, FindContainer, CreateFails,
         StartDone, Teardown, TeardownHangs, TeardownPanics, TeardownErrs, TeardownDone, RecordFails,
         UpdateInfo, UpdateInfoErrs, Remove, Leave
<1>5. ASSUME \/ \E n \in Nodes, c \in Containers : ContainerStops(n, c) \/ ContainerExits(n, c)
             \/ \E n \in Nodes : NodeLeaves(n)
             \/ UNCHANGED vars
      PROVE  FALSE
  BY <1>5 DEF ContainerStops, ContainerExits, NodeLeaves, vars
<1> QED
  BY <1>2, <1>3, <1>4, <1>5 DEF Next

(* Only the reconcile of a node, its containers and its end change what     *)
(* runs there.                                                              *)
LEMMA RuntimeChanges ==
    ASSUME Coherent, [Next]_vars, NEW n \in Nodes, cri'[n] # cri[n]
    PROVE  \/ \E p \in Reconcilers : ReconcileStep(p) /\ Busy(p) /\ NodeOf[p] = n
           \/ \E c \in Containers : ContainerStops(n, c) \/ ContainerExits(n, c)
           \/ NodeLeaves(n)
<1> USE GoroutineSets
<1>1. cri \in [Nodes -> Runtime]
  BY DEF Coherent, TypeOK
<1>2. ASSUME NEW p \in Procs, UpdateCheck(p) \/ UpdateSet(p) \/ UpdateFails(p) PROVE FALSE
  BY <1>2 DEF UpdateCheck, UpdateSet, UpdateFails, NodeUnchanged
<1>3. ASSUME NEW u \in Users, UserStep(u) PROVE FALSE
  BY <1>2, <1>3
     DEF UserStep, Create, Migrate, Delete, DeleteMarks, DeleteReturns, Cleanup, CleanupClears,
         NodeUnchanged
<1>4. ASSUME NEW h \in Holders, HolderStep(h) PROVE FALSE
  BY <1>2, <1>4
     DEF HolderStep, Tick, DealRemove, DealDeleting, DealSchedule, DealRest, DealHandover,
         DealReconcile, DealTimeout, NodeUnchanged
<1>5. ASSUME NEW p \in Reconcilers, ReconcileStep(p)
      PROVE  Busy(p) /\ NodeOf[p] = n
  <2>1. CASE Enter(p) \/ GetFails(p) \/ ReconcileTerminate(p) \/ SandboxRefused(p) \/ PullImages(p)
             \/ PullFails(p) \/ StartDone(p) \/ TeardownDone(p) \/ RecordFails(p) \/ Leave(p)
    BY <2>1 DEF Enter, GetFails, ReconcileTerminate, SandboxRefused, PullImages, PullFails,
                StartDone, TeardownDone, RecordFails, Leave, NodeUnchanged
  <2>2. CASE ReconcileElsewhere(p) \/ ReconcileRun(p) \/ UpdateInfo(p) \/ UpdateInfoErrs(p) \/ Remove(p)
    BY <1>1, <2>2 DEF ReconcileElsewhere, ReconcileRun, Gets, UpdateInfo, UpdateInfoErrs, Remove, At, Busy
  <2>3. ASSUME NEW c \in Containers,
               FindContainer(p, c) \/ CreateFails(p, c) \/ TeardownHangs(p, c) \/ TeardownPanics(p, c)
               \/ TeardownErrs(p, c)
        PROVE  FALSE
    BY <2>3 DEF FindContainer, CreateFails, TeardownHangs, TeardownPanics, TeardownErrs, NodePanics,
                NodeUnchanged
  <2>4. ASSUME NEW c \in Containers, StartContainer(p, c) \/ StartFails(p, c) \/ Teardown(p, c)
        PROVE  Busy(p) /\ NodeOf[p] = n
    BY <1>1, <2>4 DEF StartContainer, StartFails, Teardown, At, Busy
  <2> QED
    BY <1>2, <1>5, <2>1, <2>2, <2>3, <2>4 DEF ReconcileStep
<1>6. ASSUME NEW m \in Nodes, NEW c \in Containers, ContainerStops(m, c) \/ ContainerExits(m, c)
      PROVE  m = n
  BY <1>1, <1>6 DEF ContainerStops, ContainerExits
<1>7. ASSUME NEW m \in Nodes, NodeLeaves(m) PROVE m = n
  BY <1>1, <1>7 DEF NodeLeaves, NodeDies
<1>8. CASE UNCHANGED vars
  BY <1>8 DEF vars
<1> QED
  BY <1>3, <1>4, <1>5, <1>6, <1>7, <1>8 DEF Next

-----------------------------------------------------------------------------
(* Nobody takes the record away under a running pod when Cleanup is not     *)
(* called.                                                                  *)
Kept == (\A u \in Users : proc[u].pc # "clear") /\ (Held => kvs # NoPod)

(* Where a user gets to *)
LEMMA UserGoes ==
    ASSUME Coherent, NEW u \in Users, UserStep(u)
    PROVE  /\ proc'[u].pc = "clear" => Cleanup(u)
           /\ proc'[u].pc = "check" => DeleteMarks(u) \/ \E n \in Nodes : Migrate(u, n)
           /\ proc'[u].pc = "set" => UpdateCheck(u)
<1>1. u \in Procs /\ u \notin Reconcilers /\ proc \in [Procs -> Process] /\ proc[u] \in Process
  BY GoroutineSets DEF Coherent, TypeOK
<1>2. ASSUME Finished(u) \/ Return(u) PROVE proc'[u].pc = "idle"
  BY <1>1, <1>2 DEF Finished, Return, Idle
<1>3. ASSUME NEW pc, Goto(u, pc) PROVE proc'[u].pc = pc
  BY <1>1, <1>3 DEF Goto, Process
<1>4. CASE Create(u)
  <2>1. proc' = proc /\ proc[u].pc = "idle"
    BY <1>4 DEF Create, At
  <2> QED
    BY <2>1
<1>5. CASE DeleteMarks(u) \/ \E n \in Nodes : Migrate(u, n)
  <2>1. \E pod, then : CallUpdate(u, pod, then)
    BY <1>5 DEF DeleteMarks, Migrate
  <2>2. proc'[u].pc \in {"check", "idle"}
    BY <1>1, <1>2, <2>1 DEF CallUpdate
  <2> QED
    BY <1>5, <2>2
<1>6. CASE Delete(u) \/ DeleteReturns(u) \/ CleanupClears(u)
  <2>1. proc'[u].pc \in {"delete", "idle"}
    BY <1>2, <1>3, <1>6 DEF Delete, DeleteReturns, CleanupClears
  <2> QED
    BY <2>1
<1>7. CASE Cleanup(u)
  <2>1. proc'[u].pc = "clear"
    BY <1>3, <1>7 DEF Cleanup
  <2> QED
    BY <1>7, <2>1
<1>8. CASE UpdateCheck(u)
  <2>1. proc'[u].pc \in {"set", "idle"}
    BY <1>2, <1>3, <1>8 DEF UpdateCheck
  <2> QED
    BY <1>8, <2>1
<1>9. CASE UpdateSet(u) \/ UpdateFails(u)
  <2>1. CASE Finished(u) \/ Return(u)
    BY <1>2, <2>1
  <2>2. CASE proc' = [proc EXCEPT ![u] = [Idle EXCEPT !.pc = proc[u].then]]
    <3>1. proc'[u].pc = proc[u].then
      BY <1>1, <2>2 DEF Idle
    <3>2. proc[u].then \in Afters
      BY <1>1 DEF Process
    <3> QED
      BY <3>1, <3>2 DEF Afters
  <2> QED
    BY <1>9, <2>1, <2>2 DEF UpdateSet, UpdateFails
<1> QED
  BY <1>4, <1>5, <1>6, <1>7, <1>8, <1>9 DEF UserStep

(* Every other step leaves a goroutine where it is, or ends it. *)
LEMMA OtherSteps ==
    ASSUME Coherent, [Next]_vars, NEW q \in Procs, proc'[q] \notin {proc[q], Idle}
    PROVE  \/ q \in Users /\ UserStep(q)
           \/ q \in Holders /\ HolderStep(q)
           \/ q \in Reconcilers /\ ReconcileStep(q)
<1>1. ASSUME NEW n \in Nodes, NodeLeaves(n) PROVE FALSE
  BY <1>1 DEF NodeLeaves, NodeDies, ProgramEnds
<1>2. ASSUME NEW n \in Nodes, NEW c \in Containers, ContainerStops(n, c) \/ ContainerExits(n, c)
      PROVE  FALSE
  BY <1>2 DEF ContainerStops, ContainerExits
<1>3. CASE UNCHANGED vars
  BY <1>3 DEF vars
<1> QED
  BY <1>1, <1>2, <1>3, OthersStay, GoroutineSets DEF Next

(* A holder takes the record away while nothing goes on. *)
LEMMA DealRemoveFacts ==
    ASSUME Coherent, Placed, NEW h \in Holders, DealRemove(h)
    PROVE  /\ proc[h].pc = "deal" /\ kvs' = NoPod /\ proc' = [proc EXCEPT ![h] = Idle]
           /\ cri' = cri /\ msgs' = msgs /\ created' = created /\ created
           /\ \A n \in Nodes : ~ InPlace(n)
           /\ \A g \in Holders : AtWork(g) => g = h
           /\ NoneBusy
<1>1. /\ proc[h].pc = "deal" /\ kvs' = NoPod /\ proc' = [proc EXCEPT ![h] = Idle]
      /\ cri' = cri /\ msgs' = msgs /\ created' = created
  BY DEF DealRemove, At, Finished, NodeUnchanged
<1>2. /\ proc[h].pod \in Copies /\ Valid(proc[h].pod) /\ msgs = {} /\ NoneBusy /\ created
      /\ \A g \in Holders : AtWork(g) => g = h
      /\ \A n \in Nodes : InPlace(n) => proc[h].pod.running = n
  BY <1>1, AloneFacts
<1>3. ASSUME NEW n \in Nodes, InPlace(n) PROVE FALSE
  <2>1. PICK c \in Containers : Live(cri[n], c)
    BY <1>2, <1>3 DEF InPlace, NoneBusy
  <2>2. ~ proc[h].pod.status[c].terminated
    BY <1>2, <2>1 DEF Placed, NoneEnded
  <2>3. proc[h].pod.running # NoNode
    BY <1>2, <1>3, PodRecordAssumption
  <2> QED
    BY <1>2, <2>2, <2>3 DEF DealRemove, Removable, isContainerTerminated
<1> QED
  BY <1>1, <1>2, <1>3

LEMMA KeptStep ==
    ASSUME Timing # "free", MaxCleanups = 0, Coherent, Placed, Kept, [Next]_vars
    PROVE  Kept'
<1>1. ASSUME NEW u \in Users, Cleanup(u) PROVE FALSE
  BY <1>1, RecordFacts DEF Cleanup, Spend, Counters
<1>2. ASSUME NEW u \in Users, proc'[u].pc = "clear" PROVE FALSE
  <2>1. proc'[u] \notin {proc[u], Idle}
    BY <1>2 DEF Kept, Idle
  <2> QED
    BY <1>1, <1>2, <2>1, OtherSteps, UserGoes, GoroutineSets
<1>3. ASSUME Held', kvs' = NoPod PROVE FALSE
  <2>1. Held /\ kvs # NoPod
    BY <1>3, PlacedStep DEF Kept
  <2>2. ASSUME NEW h \in Holders, DealRemove(h) PROVE FALSE
    <3>1. \A n \in Nodes : ~ InPlace(n)'
      <4>1. NoneBusy'
        BY <2>2, DealRemoveFacts, GoroutineSets DEF NoneBusy, Busy, Coherent, TypeOK
      <4> QED
        BY <2>2, <4>1, DealRemoveFacts DEF InPlace, NoneBusy, Live
    <3>2. \A g \in Holders : proc'[g].pc # "deal"
      BY <2>2, DealRemoveFacts, GoroutineSets DEF AtWork, Idle, Coherent, TypeOK
    <3> QED
      BY <1>3, <3>1, <3>2 DEF Held
  <2>3. ASSUME NEW u \in Users, CleanupClears(u) PROVE FALSE
    BY <2>3 DEF CleanupClears, At, Kept
  <2>4. ASSUME NEW u \in Users, Create(u) PROVE FALSE
    BY <1>3, <2>4, NewPodType, NoPodAssumption DEF Create
  <2>5. ASSUME NEW p \in Procs, UpdateSet(p) PROVE FALSE
    BY <1>3, <2>5, UpdateSetGood, NoPodAssumption
  <2> QED
    BY <1>3, <2>1, <2>2, <2>3, <2>4, <2>5, RecordChanges
<1> QED
  BY <1>2, <1>3 DEF Kept

LEMMA InitKept == Init => Kept
<1>1. Init => \A u \in Users : proc[u].pc = "idle"
  BY GoroutineSets DEF Init, Idle
<1> QED
  BY <1>1, InitPlaced DEF Kept

LEMMA KeptAlways ==
    ASSUME Timing # "free", MaxCleanups = 0
    PROVE  Spec => [](Coherent /\ Placed /\ Kept)
<1>1. Coherent /\ Placed /\ Kept /\ [Next]_vars => Kept'
  BY KeptStep
<1> QED
  BY <1>1, InitKept, PlacedInductive, CoherentInductive, PTL DEF Spec

(* Then every running container is one whose node the record in the KVS     *)
(* names, unless Cleanup was called: no reconcile starts a container for a  *)
(* record that is gone, and no holder removes a record while one runs.      *)
THEOREM LiveAreRecorded ==
    ASSUME Timing # "free", MaxCleanups = 0
    PROVE  Spec => []LiveIsRecorded
<1>1. Coherent /\ Placed /\ Kept => LiveIsRecorded
  <2> SUFFICES ASSUME Coherent, Placed, Kept, NEW c \in Containers, NEW n \in LiveOn(c)
               PROVE  kvs # NoPod /\ kvs.running = n
    BY DEF LiveIsRecorded
  <2>1. n \in Nodes /\ InPlace(n) /\ Held
    BY DEF LiveOn, InPlace, Held
  <2> QED
    BY <2>1, RecordCopy DEF Kept, Placed, CopiesPlaced
<1> QED
  BY <1>1, KeptAlways, PTL

-----------------------------------------------------------------------------
(* Where holders and reconciles get to *)

LEMMA HolderGoes ==
    ASSUME Coherent, NEW h \in Holders, HolderStep(h)
    PROVE  /\ proc'[h].pc = "deal" => Tick(h)
           /\ proc'[h].pc = "check" => DealSchedule(h) \/ DealHandover(h) \/ DealTimeout(h)
           /\ proc'[h].pc = "set" => UpdateCheck(h)
           /\ proc'[h].pc \in HasCopyPCs => AtWork(h)'
<1> USE DEF AtWork, HasCopyPCs, UpdatePCs
<1>1. h \in Procs /\ h \notin Reconcilers /\ proc \in [Procs -> Process] /\ proc[h] \in Process
  BY GoroutineSets DEF Coherent, TypeOK
<1>2. ASSUME Finished(h) \/ Return(h) PROVE proc'[h].pc = "idle"
  BY <1>1, <1>2 DEF Finished, Return, Idle
<1>3. ASSUME NEW pc, Goto(h, pc) PROVE proc'[h].pc = pc
  BY <1>1, <1>3 DEF Goto, Process
<1>4. CASE Tick(h)
  <2>1. proc'[h].pc = "deal"
    BY <1>1, <1>4 DEF Tick, Idle
  <2> QED
    BY <1>4, <2>1
<1>5. CASE DealSchedule(h) \/ DealHandover(h) \/ DealTimeout(h)
  <2>1. \E pod, then : CallUpdate(h, pod, then)
    BY <1>5 DEF DealSchedule, DealHandover, DealTimeout
  <2>2. proc'[h].pc \in {"check", "idle"}
    BY <1>1, <1>2, <2>1 DEF CallUpdate
  <2> QED
    BY <1>5, <2>2
<1>6. CASE DealRemove(h) \/ DealDeleting(h) \/ DealRest(h) \/ DealReconcile(h)
  <2>1. proc'[h].pc \in {"blocked", "idle"}
    BY <1>2, <1>3, <1>6 DEF DealRemove, DealDeleting, DealRest, DealReconcile
  <2> QED
    BY <2>1
<1>7. CASE UpdateCheck(h)
  <2>1. proc'[h].pc \in {"set", "idle"}
    BY <1>2, <1>3, <1>7 DEF UpdateCheck
  <2> QED
    BY <1>7, <2>1
<1>8. CASE UpdateSet(h) \/ UpdateFails(h)
  <2>1. CASE Finished(h) \/ Return(h)
    BY <1>2, <2>1
  <2>2. CASE proc' = [proc EXCEPT ![h] = [Idle EXCEPT !.pc = proc[h].then]]
    <3>1. proc'[h].pc = proc[h].then
      BY <1>1, <2>2 DEF Idle
    <3>2. proc[h].then \in Afters
      BY <1>1 DEF Process
    <3> QED
      BY <3>1, <3>2 DEF Afters
  <2> QED
    BY <1>8, <2>1, <2>2 DEF UpdateSet, UpdateFails
<1> QED
  BY <1>4, <1>5, <1>6, <1>7, <1>8 DEF HolderStep

LEMMA ReconcilerGoes ==
    ASSUME Coherent, NEW p \in Reconcilers, ReconcileStep(p), Busy(p)'
    PROVE  /\ proc'[p].pc = "get" => Enter(p)
           /\ proc'[p].pc = "pull" => ReconcileRun(p)
           /\ proc'[p].pc = "start" =>
                 \/ PullImages(p)
                 \/ \E c \in Containers :
                       \/ StartContainer(p, c) \/ StartFails(p, c)
                       \/ FindContainer(p, c) \/ CreateFails(p, c)
           /\ proc'[p].pc = "teardown" =>
                 ReconcileTerminate(p) \/ \E c \in Containers : Teardown(p, c)
           /\ proc'[p].pc = "info" =>
                 ReconcileTerminate(p) \/ ReconcileRun(p) \/ StartDone(p) \/ TeardownDone(p)
           /\ proc'[p].pc = "check" => UpdateInfo(p)
           /\ proc'[p].pc = "set" => UpdateCheck(p)
           /\ proc'[p].pc # "deal"
<1> DEFINE Goal ==
        /\ proc'[p].pc = "get" => Enter(p)
        /\ proc'[p].pc = "pull" => ReconcileRun(p)
        /\ proc'[p].pc = "start" =>
              \/ PullImages(p)
              \/ \E c \in Containers :
                    \/ StartContainer(p, c) \/ StartFails(p, c)
                    \/ FindContainer(p, c) \/ CreateFails(p, c)
        /\ proc'[p].pc = "teardown" =>
              ReconcileTerminate(p) \/ \E c \in Containers : Teardown(p, c)
        /\ proc'[p].pc = "info" =>
              ReconcileTerminate(p) \/ ReconcileRun(p) \/ StartDone(p) \/ TeardownDone(p)
        /\ proc'[p].pc = "check" => UpdateInfo(p)
        /\ proc'[p].pc = "set" => UpdateCheck(p)
        /\ proc'[p].pc # "deal"
<1>1. p \in Procs /\ proc \in [Procs -> Process] /\ proc[p] \in Process
  BY GoroutineSets DEF Coherent, TypeOK
<1>2. ASSUME proc'[p].pc \in {"idle", "leave", "stuck", "drop", "remove", "delete"} PROVE Goal
  BY <1>2
<1>3. ASSUME Finished(p) \/ Return(p) \/ Fail(p) PROVE proc'[p].pc \in {"idle", "leave"}
  BY <1>1, <1>3 DEF Finished, Return, Fail, Idle
<1>4. ASSUME NEW pc, Goto(p, pc) PROVE proc'[p].pc = pc
  BY <1>1, <1>4 DEF Goto, Process
<1>5. CASE Enter(p)
  <2>1. proc'[p].pc \in {"get", "idle"}
    BY <1>4, <1>5 DEF Enter, At
  <2> QED
    BY <1>5, <2>1
<1>6. CASE GetFails(p) \/ ReconcileElsewhere(p) \/ SandboxRefused(p) \/ PullFails(p) \/ RecordFails(p)
           \/ UpdateInfoErrs(p) \/ Remove(p) \/ Leave(p)
  BY <1>2, <1>3, <1>6
     DEF GetFails, ReconcileElsewhere, SandboxRefused, PullFails, RecordFails, UpdateInfoErrs, Remove, Leave
<1>7. CASE ReconcileTerminate(p)
  <2>1. proc'[p].pc \in {"info", "teardown"}
    BY <1>1, <1>7 DEF ReconcileTerminate, Idle
  <2> QED
    BY <1>7, <2>1
<1>8. CASE ReconcileRun(p)
  <2>1. proc'[p].pc \in {"info", "pull", "idle", "leave"}
    BY <1>1, <1>3, <1>8 DEF ReconcileRun, Idle
  <2> QED
    BY <1>8, <2>1
<1>9. CASE PullImages(p) \/ StartDone(p) \/ TeardownDone(p)
  <2>1. proc'[p].pc = IF PullImages(p) THEN "start" ELSE "info"
    BY <1>4, <1>9 DEF PullImages, StartDone, TeardownDone, At
  <2> QED
    BY <1>9, <2>1
<1>10. ASSUME NEW c \in Containers,
              \/ StartContainer(p, c) \/ StartFails(p, c)
              \/ FindContainer(p, c) \/ CreateFails(p, c)
       PROVE  Goal
  <2>1. proc'[p].pc = "start"
    <3>1. ASSUME NEW s, proc' = [proc EXCEPT ![p] = Noted(proc[p], c, s)], proc[p].pc = "start"
          PROVE  proc'[p].pc = "start"
      <4>1. Noted(proc[p], c, s).pc = proc[p].pc
        BY <1>1 DEF Noted, Process
      <4> QED
        BY <1>1, <3>1, <4>1
    <3>2. CASE StartContainer(p, c)
      BY <1>1, <3>1, <3>2 DEF StartContainer, At
    <3>3. CASE FindContainer(p, c)
      BY <1>1, <3>1, <3>3 DEF FindContainer, At
    <3>4. CASE CreateFails(p, c)
      BY <1>1, <3>4 DEF CreateFails, At, Process
    <3>5. CASE StartFails(p, c)
      BY <1>1, <3>1, <3>5 DEF StartFails, At
    <3> QED
      BY <1>10, <3>2, <3>3, <3>4, <3>5
  <2> QED
    BY <1>10, <2>1
<1>11. ASSUME NEW c \in Containers, Teardown(p, c)
       PROVE  Goal
  <2>1. proc'[p].pc = "teardown"
    BY <1>1, <1>11 DEF Teardown, At, Process
  <2> QED
    BY <1>11, <2>1
<1>12. ASSUME NEW c \in Containers, TeardownHangs(p, c) \/ TeardownPanics(p, c) \/ TeardownErrs(p, c)
       PROVE  Goal
  <2>1. proc'[p].pc \in {"stuck", "idle", "leave"}
    BY <1>1, <1>3, <1>12
       DEF TeardownHangs, TeardownPanics, TeardownErrs, NodePanics, ProgramEnds, Idle
  <2> QED
    BY <1>2, <2>1
<1>13. CASE UpdateInfo(p)
  <2>1. \E pod, then : CallUpdate(p, pod, then)
    BY <1>13 DEF UpdateInfo
  <2>2. proc'[p].pc \in {"check", "idle", "leave"}
    BY <1>1, <1>3, <2>1 DEF CallUpdate
  <2> QED
    BY <1>13, <2>2
<1>14. CASE UpdateCheck(p)
  <2>1. proc'[p].pc \in {"set", "idle", "leave"}
    BY <1>3, <1>4, <1>14 DEF UpdateCheck
  <2> QED
    BY <1>14, <2>1
<1>15. CASE UpdateSet(p) \/ UpdateFails(p)
  <2>1. CASE Finished(p) \/ Return(p)
    BY <1>2, <1>3, <2>1
  <2>2. CASE proc' = [proc EXCEPT ![p] = [Idle EXCEPT !.pc = proc[p].then]]
    <3>1. proc'[p].pc = proc[p].then
      BY <1>1, <2>2 DEF Idle
    <3>2. proc[p].then \in Afters
      BY <1>1 DEF Process
    <3> QED
      BY <1>2, <3>1, <3>2 DEF Afters
  <2> QED
    BY <1>15, <2>1, <2>2 DEF UpdateSet, UpdateFails
<1> QED
  BY <1>5, <1>6, <1>7, <1>8, <1>9, <1>10, <1>11, <1>12, <1>13, <1>14, <1>15 DEF ReconcileStep

(* A message is sent by a holder that deals with the pod. *)
LEMMA MessageChanges ==
    ASSUME [Next]_vars, ~ (msgs' \subseteq msgs)
    PROVE  \E h \in Holders :
               /\ proc[h].pc = "deal"
               /\ DealReconcile(h) \/ DealDeleting(h) \/ (DealTimeout(h) /\ Spend("faults", MaxFaults))
<1> USE GoroutineSets
<1>1. ASSUME NEW p \in Procs, UpdateCheck(p) \/ UpdateSet(p) \/ UpdateFails(p) PROVE FALSE
  BY <1>1 DEF UpdateCheck, UpdateSet, UpdateFails
<1>2. ASSUME NEW u \in Users, UserStep(u) PROVE FALSE
  BY <1>1, <1>2
     DEF UserStep, Create, Migrate, Delete, DeleteMarks, DeleteReturns, Cleanup, CleanupClears
<1>3. ASSUME NEW h \in Holders, HolderStep(h)
      PROVE  /\ proc[h].pc = "deal"
             /\ DealReconcile(h) \/ DealDeleting(h) \/ (DealTimeout(h) /\ Spend("faults", MaxFaults))
  BY <1>1, <1>3
     DEF HolderStep, Tick, DealRemove, DealDeleting, DealSchedule, DealRest, DealHandover,
         DealReconcile, DealTimeout, At
<1>4. ASSUME NEW p \in Reconcilers, ReconcileStep(p) PROVE FALSE
  BY <1>1, <1>4
     DEF ReconcileStep, Enter, GetFails, ReconcileElsewhere, ReconcileTerminate, ReconcileRun,
         SandboxRefused, PullImages, PullFails, StartContainer, StartFails, FindContainer, CreateFails,
         StartDone, Teardown, TeardownHangs, TeardownPanics, TeardownErrs, NodePanics, ProgramEnds,
         TeardownDone, RecordFails, UpdateInfo, UpdateInfoErrs, Remove, Leave
<1>5. ASSUME \/ \E n \in Nodes, c \in Containers : ContainerStops(n, c) \/ ContainerExits(n, c)
             \/ \E n \in Nodes : NodeLeaves(n)
             \/ UNCHANGED vars
      PROVE  FALSE
  BY <1>5 DEF ContainerStops, ContainerExits, NodeLeaves, NodeDies, ProgramEnds, vars
<1> QED
  BY <1>2, <1>3, <1>4, <1>5 DEF Next

-----------------------------------------------------------------------------
(* Teardowns *)

(* The container has been told to stop, or has ended. *)
Told(n, c) == cri[n].box[c].stopping \/ cri[n].box[c].state = "exited"

(* A container is told to stop by a teardown only, is left half made only   *)
(* when its start fails, and is started by a reconcile of its node.         *)
LEMMA BoxChanges ==
    ASSUME Coherent, [Next]_vars, NEW n \in Nodes, NEW c \in Containers
    PROVE  /\ Told(n, c)' =>
                  \/ Told(n, c) /\ cri'[n].box[c].id = cri[n].box[c].id
                  \/ \E p \in Reconcilers : NodeOf[p] = n /\ Teardown(p, c)
                  \/ Spend("exits", MaxExits)
           /\ cri'[n].box[c].state = "created" =>
                  cri[n].box[c].state = "created" \/ Spend("faults", MaxFaults)
           /\ cri'[n].box[c].state = "running" =>
                  \/ cri[n].box[c].state = "running"
                  \/ \E p \in Reconcilers : NodeOf[p] = n /\ StartContainer(p, c)
<1> DEFINE Goal ==
        /\ Told(n, c)' =>
              \/ Told(n, c) /\ cri'[n].box[c].id = cri[n].box[c].id
              \/ \E p \in Reconcilers : NodeOf[p] = n /\ Teardown(p, c)
              \/ Spend("exits", MaxExits)
        /\ cri'[n].box[c].state = "created" =>
              cri[n].box[c].state = "created" \/ Spend("faults", MaxFaults)
        /\ cri'[n].box[c].state = "running" =>
              \/ cri[n].box[c].state = "running"
              \/ \E p \in Reconcilers : NodeOf[p] = n /\ StartContainer(p, c)
<1>1. cri \in [Nodes -> Runtime] /\ cri[n] \in Runtime
  BY DEF Coherent, TypeOK
<1> USE DEF Told
<1>3. CASE cri'[n] = cri[n]
  BY <1>3
<1>4. /\ ~ EmptyRuntime.box[c].stopping /\ EmptyRuntime.box[c].state = "none"
  BY DEF EmptyRuntime, NoContainer
<1>5. ASSUME NEW d \in Containers, ContainerStops(n, d) \/ ContainerExits(n, d) PROVE Goal
  <2>1. cri'[n] = Finish(cri[n], d) /\ (cri[n].box[d].stopping \/ Spend("exits", MaxExits))
    BY <1>1, <1>5 DEF ContainerStops, ContainerExits
  <2>2. /\ Finish(cri[n], d).box[c].id = cri[n].box[c].id
        /\ c = d => Finish(cri[n], d).box[c].state = "exited"
        /\ c # d => Finish(cri[n], d).box[c] = cri[n].box[c]
    BY <1>1 DEF Finish, Runtime, Container
  <2> QED
    BY <2>1, <2>2
<1>6. CASE NodeLeaves(n)
  <2>1. cri'[n] = EmptyRuntime
    BY <1>1, <1>6 DEF NodeLeaves, NodeDies
  <2> QED
    BY <1>4, <2>1
<1>7. ASSUME NEW p \in Reconcilers, ReconcileStep(p), NodeOf[p] = n, cri'[n] # cri[n]
      PROVE  Goal
  <2>1. \/ ReconcileElsewhere(p) \/ ReconcileRun(p) \/ UpdateInfo(p) \/ UpdateInfoErrs(p) \/ Remove(p)
        \/ \E d \in Containers : StartContainer(p, d) \/ StartFails(p, d) \/ Teardown(p, d)
    BY <1>7 DEF ReconcileStep, Enter, GetFails, ReconcileTerminate, SandboxRefused, PullImages,
                PullFails, FindContainer, CreateFails, StartDone, TeardownHangs, TeardownPanics,
                TeardownErrs, NodePanics, TeardownDone, RecordFails, UpdateCheck, UpdateSet,
                UpdateFails, Leave, NodeUnchanged
  <2>2. CASE ReconcileElsewhere(p) \/ UpdateInfo(p) \/ UpdateInfoErrs(p) \/ Remove(p)
    <3>1. cri'[n] = RemoveSandbox(cri[n], local[n].sandbox)
      BY <1>1, <1>7, <2>2 DEF ReconcileElsewhere, UpdateInfo, UpdateInfoErrs, Remove
    <3>2. RemoveSandbox(cri[n], local[n].sandbox) \in {cri[n], EmptyRuntime}
      BY DEF RemoveSandbox
    <3> QED
      BY <1>4, <3>1, <3>2
  <2>3. CASE ReconcileRun(p)
    <3>1. cri'[n] = RunPodSandbox(cri[n], nextId)
      BY <1>1, <1>7, <2>3 DEF ReconcileRun
    <3>2. RunPodSandbox(cri[n], nextId).box = cri[n].box
      BY <1>1 DEF RunPodSandbox, Runtime
    <3> QED
      BY <3>1, <3>2
  <2>4. ASSUME NEW d \in Containers, StartContainer(p, d) PROVE Goal
    <3>1. cri'[n] = CreateAndStart(cri[n], d, nextId)
      BY <1>1, <1>7, <2>4 DEF StartContainer
    <3>2. CreateAndStart(cri[n], d, nextId).box[c] =
              IF c = d THEN [id |-> nextId, state |-> "running", stopping |-> FALSE] ELSE cri[n].box[c]
      BY <1>1 DEF CreateAndStart, Runtime
    <3> QED
      BY <1>7, <2>4, <3>1, <3>2
  <2>5. ASSUME NEW d \in Containers, Teardown(p, d) PROVE Goal
    <3>1. cri'[n] \in {cri[n], StopContainer(cri[n], d)}
      BY <1>1, <1>7, <2>5 DEF Teardown
    <3>2. /\ c # d => StopContainer(cri[n], d).box[c] = cri[n].box[c]
          /\ StopContainer(cri[n], d).box[c].state = cri[n].box[c].state
      BY <1>1 DEF StopContainer, Runtime, Container
    <3>3. CASE c = d
      BY <1>7, <2>5, <3>1, <3>2, <3>3
    <3>4. CASE c # d
      BY <3>1, <3>2, <3>4
    <3> QED
      BY <3>3, <3>4
  <2>6. ASSUME NEW d \in Containers, StartFails(p, d) PROVE Goal
    <3>1. cri'[n] = CreateContainer(cri[n], d, nextId) /\ Spend("faults", MaxFaults)
      BY <1>1, <1>7, <2>6 DEF StartFails
    <3>2. CreateContainer(cri[n], d, nextId).box[c] =
              IF c = d THEN [id |-> nextId, state |-> "created", stopping |-> FALSE] ELSE cri[n].box[c]
      BY <1>1 DEF CreateContainer, Runtime
    <3> QED
      BY <3>1, <3>2
  <2> QED
    BY <2>1, <2>2, <2>3, <2>4, <2>5, <2>6
<1>8. CASE cri'[n] # cri[n]
  BY <1>5, <1>6, <1>7, <1>8, RuntimeChanges
<1> QED
  BY <1>3, <1>8

(* The only driver that comes is the one with the next id. *)
LEMMA DriverChanges ==
    ASSUME Coherent, [Next]_vars, NEW n \in Nodes
    PROVE  drivers'[n] \subseteq drivers[n] \cup {nextId}
<1> DEFINE Goal == drivers'[n] \subseteq drivers[n] \cup {nextId}
<1> USE GoroutineSets
<1>1. drivers \in [Nodes -> SUBSET Nat]
  BY DEF Coherent, TypeOK
<1>2. ASSUME NEW p \in Procs, UpdateCheck(p) \/ UpdateSet(p) \/ UpdateFails(p) PROVE Goal
  BY <1>2 DEF UpdateCheck, UpdateSet, UpdateFails, NodeUnchanged
<1>3. ASSUME NEW u \in Users, UserStep(u) PROVE Goal
  BY <1>2, <1>3
     DEF UserStep, Create, Migrate, Delete, DeleteMarks, DeleteReturns, Cleanup, CleanupClears,
         NodeUnchanged
<1>4. ASSUME NEW h \in Holders, HolderStep(h) PROVE Goal
  BY <1>2, <1>4
     DEF HolderStep, Tick, DealRemove, DealDeleting, DealSchedule, DealRest, DealHandover,
         DealReconcile, DealTimeout, NodeUnchanged
<1>5. ASSUME NEW p \in Reconcilers, ReconcileStep(p)
      PROVE  Goal
  <2>1. CASE Enter(p) \/ GetFails(p) \/ ReconcileTerminate(p) \/ SandboxRefused(p) \/ PullImages(p)
             \/ PullFails(p) \/ StartDone(p) \/ TeardownDone(p) \/ RecordFails(p) \/ Leave(p)
    BY <2>1 DEF Enter, GetFails, ReconcileTerminate, SandboxRefused, PullImages, PullFails,
                StartDone, TeardownDone, RecordFails, Leave, NodeUnchanged
  <2>2. CASE ReconcileElsewhere(p) \/ ReconcileRun(p) \/ UpdateInfo(p) \/ UpdateInfoErrs(p) \/ Remove(p)
    BY <2>2 DEF ReconcileElsewhere, ReconcileRun, UpdateInfo, UpdateInfoErrs, Remove
  <2>3. ASSUME NEW c \in Containers,
               FindContainer(p, c) \/ CreateFails(p, c) \/ TeardownHangs(p, c) \/ TeardownPanics(p, c)
               \/ TeardownErrs(p, c)
        PROVE  Goal
    BY <2>3 DEF FindContainer, CreateFails, TeardownHangs, TeardownPanics, TeardownErrs, NodePanics,
                NodeUnchanged
  <2>4. ASSUME NEW c \in Containers, StartContainer(p, c) \/ StartFails(p, c) PROVE Goal
    BY <1>1, <2>4 DEF StartContainer, StartFails
  <2>5. ASSUME NEW c \in Containers, Teardown(p, c) PROVE Goal
    BY <1>1, <2>5 DEF Teardown
  <2> QED
    BY <1>2, <1>5, <2>1, <2>2, <2>3, <2>4, <2>5 DEF ReconcileStep
<1>6. ASSUME NEW m \in Nodes, NEW c \in Containers, ContainerStops(m, c) \/ ContainerExits(m, c)
      PROVE  Goal
  BY <1>6 DEF ContainerStops, ContainerExits
<1>7. ASSUME NEW m \in Nodes, NodeLeaves(m) PROVE Goal
  BY <1>1, <1>7 DEF NodeLeaves, NodeDies
<1>8. CASE UNCHANGED vars
  BY <1>8 DEF vars
<1> QED
  BY <1>3, <1>4, <1>5, <1>6, <1>7, <1>8 DEF Next

(* A node program ends by its page or by a teardown. *)
LEMMA NodeChanges ==
    ASSUME [Next]_vars, node' # node
    PROVE  \/ \E n \in Nodes : NodeLeaves(n)
           \/ \E p \in Reconcilers, c \in Containers :
                 TeardownPanics(p, c) \/ (TeardownErrs(p, c) /\ ~ proc[p].pod.deleted)
<1> USE GoroutineSets
<1>1. ASSUME NEW p \in Procs, UpdateCheck(p) \/ UpdateSet(p) \/ UpdateFails(p) PROVE FALSE
  BY <1>1 DEF UpdateCheck, UpdateSet, UpdateFails
<1>2. ASSUME NEW u \in Users, UserStep(u) PROVE FALSE
  BY <1>1, <1>2
     DEF UserStep, Create, Migrate, Delete, DeleteMarks, DeleteReturns, Cleanup, CleanupClears
<1>3. ASSUME NEW h \in Holders, HolderStep(h) PROVE FALSE
  BY <1>1, <1>3
     DEF HolderStep, Tick, DealRemove, DealDeleting, DealSchedule, DealRest, DealHandover,
         DealReconcile, DealTimeout
<1>4. ASSUME NEW p \in Reconcilers, ReconcileStep(p)
      PROVE  \E c \in Containers :
                 TeardownPanics(p, c) \/ (TeardownErrs(p, c) /\ ~ proc[p].pod.deleted)
  BY <1>1, <1>4
     DEF ReconcileStep, Enter, GetFails, ReconcileElsewhere, ReconcileTerminate, ReconcileRun,
         SandboxRefused, PullImages, PullFails, StartContainer, StartFails, FindContainer, CreateFails,
         StartDone, Teardown, TeardownHangs, TeardownErrs, TeardownDone, RecordFails, UpdateInfo,
         UpdateInfoErrs, Remove, Leave
<1>5. ASSUME \/ \E n \in Nodes, c \in Containers : ContainerStops(n, c) \/ ContainerExits(n, c)
             \/ UNCHANGED vars
      PROVE  FALSE
  BY <1>5 DEF ContainerStops, ContainerExits, vars
<1> QED
  BY <1>2, <1>3, <1>4, <1>5 DEF Next

(* What a teardown leaves behind when no call fails and no container ends   *)
(* by itself: what is told to stop or has ended has lost its driver, and    *)
(* what a reconcile tears down has been started.                            *)
NoneHalfMade == \A n \in Nodes, c \in Containers : cri[n].box[c].state # "created"

TornDown ==
    /\ NoneHalfMade
    /\ \A n \in Nodes, c \in Containers : Told(n, c) => ~ HasDriver(n, c)
    /\ \A p \in Reconcilers : proc[p].pc = "teardown" =>
          \A c \in proc[p].todo : cri[NodeOf[p]].box[c].state \in {"running", "exited"}
    /\ PanicsAtSecondTeardown

LEMMA TornDownStep ==
    ASSUME MaxFaults = 0, MaxExits = 0, Coherent, TornDown, [Next]_vars
    PROVE  TornDown'
<1>1. ~ Spend("faults", MaxFaults) /\ ~ Spend("exits", MaxExits)
  BY RecordFacts DEF Spend, Counters
<1>2. NoneHalfMade'
  BY <1>1, BoxChanges DEF TornDown, NoneHalfMade
<1>3. ASSUME NEW n \in Nodes
      PROVE  /\ cri \in [Nodes -> Runtime] /\ cri[n] \in Runtime /\ nextId \in Nat
             /\ \A c \in Containers : cri[n].box[c].id \in Nat /\ cri[n].box[c].id < nextId
             /\ drivers'[n] \subseteq drivers[n] \cup {nextId}
  BY DriverChanges DEF Coherent, TypeOK, GoodRuntime, Runtime, Container
<1>4. ASSUME NEW n \in Nodes, NEW c \in Containers,
             cri'[n].box[c].id = cri[n].box[c].id, ~ HasDriver(n, c)
      PROVE  ~ HasDriver(n, c)'
  BY <1>3, <1>4 DEF HasDriver
<1>5. ASSUME NEW n \in Nodes, NEW c \in Containers, Told(n, c)'
      PROVE  ~ HasDriver(n, c)'
  <2>1. CASE Told(n, c) /\ cri'[n].box[c].id = cri[n].box[c].id
    BY <1>4, <2>1 DEF TornDown
  <2>2. ASSUME NEW p \in Reconcilers, NodeOf[p] = n, Teardown(p, c)
        PROVE  ~ HasDriver(n, c)'
    <3>1. drivers'[n] = drivers[n] \ {cri[n].box[c].id}
      BY <2>2 DEF Teardown, Coherent, TypeOK
    <3>2. cri'[n] \in {cri[n], StopContainer(cri[n], c)}
      BY <1>3, <2>2 DEF Teardown
    <3>3. StopContainer(cri[n], c).box[c].id = cri[n].box[c].id
      BY <1>3 DEF StopContainer, Runtime, Container
    <3> QED
      BY <3>1, <3>2, <3>3 DEF HasDriver
  <2> QED
    BY <1>1, <1>5, <2>1, <2>2, BoxChanges
<1>6. ASSUME NEW n \in Nodes, NEW d \in Containers, ContainerStops(n, d), NEW c \in Containers
      PROVE  /\ cri'[n].box[c].id = cri[n].box[c].id
             /\ cri'[n].box[c].state \in {cri[n].box[c].state, "exited"}
             /\ Told(n, c) => Told(n, c)'
  <2>1. cri'[n] = Finish(cri[n], d)
    BY <1>3, <1>6 DEF ContainerStops
  <2>2. /\ Finish(cri[n], d).box[c].id = cri[n].box[c].id
        /\ c = d => Finish(cri[n], d).box[c].state = "exited"
        /\ c # d => Finish(cri[n], d).box[c] = cri[n].box[c]
    BY <1>3 DEF Finish, Runtime, Container
  <2> QED
    BY <2>1, <2>2 DEF Told
<1>7. ASSUME NEW p \in Reconcilers, proc'[p].pc = "teardown", NEW c \in proc'[p].todo
      PROVE  cri'[NodeOf[p]].box[c].state \in {"running", "exited"}
  <2> DEFINE n == NodeOf[p]
  <2>1. /\ p \in Procs /\ n \in Nodes /\ proc[p] \in Process /\ proc \in [Procs -> Process]
        /\ cri \in [Nodes -> Runtime] /\ cri[n] \in Runtime
    BY GoroutineSets DEF Coherent, TypeOK
  <2>2. CASE ReconcileTerminate(p)
    <3>1. cri' = cri
      BY <2>2 DEF ReconcileTerminate, NodeUnchanged
    <3>2. proc'[p].todo = NotExited(cri[n], local[n].sandbox)
      BY <1>7, <2>1, <2>2 DEF ReconcileTerminate, Idle
    <3>3. c \in Containers /\ cri[n].box[c].state \in {"created", "running"}
      BY <1>7, <3>2 DEF NotExited
    <3> QED
      BY <2>1, <3>1, <3>3 DEF TornDown, NoneHalfMade
  <2>3. ASSUME NEW d \in Containers, Teardown(p, d)
        PROVE  cri'[n].box[c].state \in {"running", "exited"}
    <3>1. proc[p].pc = "teardown" /\ c \in proc[p].todo
      BY <1>7, <2>1, <2>3 DEF Teardown, At, Process
    <3>2. c \in Containers
      BY <2>1, <3>1 DEF Process
    <3>3. cri'[n] \in {cri[n], StopContainer(cri[n], d)}
      BY <2>1, <2>3 DEF Teardown
    <3>4. StopContainer(cri[n], d).box[c].state = cri[n].box[c].state
      BY <2>1, <3>2 DEF StopContainer, Runtime, Container
    <3> QED
      BY <3>1, <3>3, <3>4 DEF TornDown
  <2>4. CASE ~ ReconcileStep(p)
    <3>1. proc'[p] = proc[p]
      BY <1>7, <2>1, <2>4, OtherSteps, GoroutineSets DEF Idle
    <3>2. /\ c \in Containers /\ proc[p].pc = "teardown"
          /\ cri[n].box[c].state \in {"running", "exited"}
      BY <1>7, <2>1, <3>1 DEF TornDown, Process
    <3>3. CASE cri'[n] = cri[n]
      BY <3>2, <3>3
    <3>4. ASSUME NEW q \in Reconcilers, ReconcileStep(q), Busy(q), NodeOf[q] = n PROVE FALSE
      <4>1. p \in ActiveOn(n) /\ q \in ActiveOn(n)
        BY <3>2, <3>4 DEF ActiveOn, Reconciling, Busy
      <4>2. p = q
        BY <2>1, <4>1 DEF Coherent, GoodEntry
      <4> QED
        BY <2>4, <3>4, <4>2
    <3>5. ASSUME NodeLeaves(n) PROVE FALSE
      <4>1. proc'[p].pc = "idle"
        BY <2>1, <3>5 DEF NodeLeaves, NodeDies, ProgramEnds, Idle
      <4> QED
        BY <1>7, <4>1
    <3>6. CASE cri'[n] # cri[n]
      <4>1. PICK d \in Containers : ContainerStops(n, d)
        BY <1>1, <2>1, <3>4, <3>5, <3>6, RuntimeChanges DEF ContainerExits
      <4> QED
        BY <1>6, <2>1, <3>2, <4>1
    <3> QED
      BY <3>3, <3>6
  <2> QED
    BY <1>7, <2>1, <2>2, <2>3, <2>4, ReconcilerGoes DEF Busy
<1>8. PanicsAtSecondTeardown'
  <2> SUFFICES ASSUME NEW n \in Nodes, node'[n] = "panicked"
               PROVE  \E c \in Containers : ~ HasDriver(n, c)' /\ Told(n, c)'
    BY DEF PanicsAtSecondTeardown, Told, HasDriver
  <2>1. ASSUME NEW m \in Nodes, NodeLeaves(m) PROVE n # m /\ node'[n] = node[n]
    BY <2>1, RecordFacts DEF NodeLeaves, NodeDies, ProgramEnds
  <2>2. CASE node[n] = "panicked"
    <3>1. PICK c \in Containers : ~ HasDriver(n, c) /\ Told(n, c)
      BY <2>2 DEF TornDown, PanicsAtSecondTeardown, Told
    <3>2. ASSUME NEW p \in Reconcilers, ReconcileStep(p), NodeOf[p] = n PROVE FALSE
      BY <2>2, <3>2
         DEF ReconcileStep, At, Up, Enter, Gets, GetFails, ReconcileElsewhere, ReconcileTerminate,
             ReconcileRun, SandboxRefused, PullImages, PullFails, StartContainer, StartFails,
             FindContainer, CreateFails, StartDone, Teardown, TeardownHangs, TeardownPanics,
             TeardownErrs, TeardownDone, RecordFails, UpdateInfo, UpdateInfoErrs, UpdateCheck,
             UpdateSet, UpdateFails, Remove, Leave
    <3>3. CASE cri'[n] = cri[n]
      BY <1>4, <3>1, <3>3 DEF Told
    <3>4. CASE cri'[n] # cri[n]
      <4>1. PICK d \in Containers : ContainerStops(n, d)
        BY <1>1, <2>1, <3>2, <3>4, RuntimeChanges DEF ContainerExits
      <4> QED
        BY <1>4, <1>6, <3>1, <4>1
    <3> QED
      BY <3>3, <3>4
  <2>3. CASE node[n] # "panicked"
    <3>1. ASSUME NEW p \in Reconcilers, NEW c \in Containers,
                 TeardownPanics(p, c) \/ (TeardownErrs(p, c) /\ ~ proc[p].pod.deleted)
          PROVE  ~ HasDriver(n, c)' /\ Told(n, c)'
      <4>1. /\ proc[p].pc = "teardown" /\ c \in proc[p].todo
            /\ NodePanics(NodeOf[p])
        BY <3>1 DEF TeardownPanics, TeardownErrs, At
      <4>2. n = NodeOf[p] /\ cri' = cri /\ drivers' = drivers
        BY <2>3, <4>1, RecordFacts DEF NodePanics, ProgramEnds
      <4>3. cri[n].box[c].state \in {"running", "exited"}
        BY <4>1, <4>2 DEF TornDown
      <4>4. ~ HasDriver(n, c)
        <5>1. CASE TeardownPanics(p, c)
          BY <4>2, <5>1 DEF TeardownPanics
        <5>2. CASE TeardownErrs(p, c)
          BY <1>1, <4>2, <4>3, <5>2 DEF TeardownErrs, TornDown, Told, Live
        <5> QED
          BY <3>1, <5>1, <5>2
      <4>5. Told(n, c)
        BY <4>3, <4>4 DEF Coherent, GoodRuntime, HasDriver, Told, Live
      <4> QED
        BY <4>2, <4>4, <4>5 DEF HasDriver, Told
    <3> QED
      BY <2>1, <2>3, <3>1, NodeChanges
  <2> QED
    BY <2>2, <2>3
<1> QED
  BY <1>2, <1>5, <1>7, <1>8 DEF TornDown

LEMMA InitTornDown == Init => TornDown
<1> SUFFICES ASSUME Init PROVE TornDown
  OBVIOUS
<1>1. \A n \in Nodes, c \in Containers : cri[n].box[c] = NoContainer
  BY DEF Init, EmptyRuntime
<1>2. \A p \in Reconcilers : proc[p].pc = "idle"
  BY GoroutineSets DEF Init, Idle
<1>3. PanicsAtSecondTeardown
  BY DEF Init, PanicsAtSecondTeardown
<1> QED
  BY <1>1, <1>2, <1>3 DEF TornDown, NoneHalfMade, Told, NoContainer

(* However the goroutines interleave and whenever ticks come, the program   *)
(* of a node only panics over a container that an earlier reconcile has     *)
(* torn down, as long as no call fails and no container ends by itself: no  *)
(* first teardown panics.                                                   *)
THEOREM FirstTeardownsAreSafe ==
    ASSUME MaxFaults = 0, MaxExits = 0
    PROVE  Spec => []PanicsAtSecondTeardown
<1>1. Coherent /\ TornDown /\ [Next]_vars => TornDown'
  BY TornDownStep
<1>2. TornDown => PanicsAtSecondTeardown
  BY DEF TornDown
<1> QED
  BY <1>1, <1>2, InitTornDown, CoherentAlways, PTL DEF Spec
-----------------------------------------------------------------------------
(* Turns: what begins only when nothing else goes on *)

LEMMA QuietFacts ==
    ASSUME Coherent, Placed, Quiet
    PROVE  /\ msgs = {} /\ NoneBusy
           /\ \A h \in Holders : ~ AtWork(h)
           /\ \A u \in Users : proc[u].pc \notin UpdatePCs
<1>1. \A p \in Reconcilers \cup Holders : proc[p].pc \in {"idle", "stuck", "blocked"}
  BY GoroutineSets DEF Quiet, Placed, DownIsIdle
<1> QED
  BY <1>1 DEF Quiet, NoneBusy, Busy, AtWork, UpdatePCs

(* A reconcile begins with a message, a holder with a tick, and a user's    *)
(* update with its call.                                                    *)
LEMMA Begins ==
    ASSUME Coherent, [Next]_vars
    PROVE  /\ \A q \in Reconcilers : Busy(q)' => Busy(q) \/ NodeOf[q] \in msgs
           /\ \A h \in Holders : AtWork(h)' => AtWork(h) \/ Tick(h)
           /\ \A u \in Users : proc'[u].pc \in UpdatePCs =>
                 proc[u].pc \in UpdatePCs \/ DeleteMarks(u) \/ \E n \in Nodes : Migrate(u, n)
<1> USE GoroutineSets
<1>1. ASSUME NEW q \in Reconcilers, Busy(q)', ~ Busy(q)
      PROVE  NodeOf[q] \in msgs
  <2>1. ReconcileStep(q)
    BY <1>1, OtherSteps DEF Busy, Idle
  <2>2. proc[q].pc \in {"idle", "stuck", "blocked"}
    BY <1>1 DEF Busy
  <2>3. Enter(q)
    BY <2>1, <2>2
       DEF ReconcileStep, At, Gets, GetFails, ReconcileElsewhere, ReconcileTerminate, ReconcileRun,
           SandboxRefused, PullImages, PullFails, StartContainer, StartFails, FindContainer, CreateFails,
           StartDone, Teardown, TeardownHangs, TeardownPanics, TeardownErrs, TeardownDone,
           RecordFails, UpdateInfo, UpdateInfoErrs, UpdateCheck, UpdateSet, UpdateFails, Remove, Leave
  <2> QED
    BY <2>3 DEF Enter
<1>2. ASSUME NEW h \in Holders, AtWork(h)', ~ AtWork(h)
      PROVE  Tick(h)
  <2>1. HolderStep(h)
    BY <1>2, OtherSteps DEF AtWork, UpdatePCs, Idle
  <2> QED
    BY <1>2, <2>1, HolderGoes
       DEF AtWork, UpdatePCs, DealSchedule, DealHandover, DealTimeout, UpdateCheck, At
<1>3. ASSUME NEW u \in Users, proc'[u].pc \in UpdatePCs, proc[u].pc \notin UpdatePCs
      PROVE  DeleteMarks(u) \/ \E n \in Nodes : Migrate(u, n)
  <2>1. UserStep(u)
    BY <1>3, OtherSteps DEF UpdatePCs, Idle
  <2> QED
    BY <1>3, <2>1, UserGoes DEF UpdatePCs, UpdateCheck, At
<1> QED
  BY <1>1, <1>2, <1>3

(* What a goroutine is about to write stays as it is. *)
LEMMA WriterGoes ==
    ASSUME Coherent, [Next]_vars, NEW q \in Procs, proc'[q].pc \in UpdatePCs
    PROVE  \/ proc'[q] = proc[q]
           \/ /\ UpdateCheck(q) /\ kvs # NoPod /\ kvs' = kvs
              /\ proc'[q].pc = "set" /\ proc'[q].pod = proc[q].pod
           \/ q \in Users /\ (DeleteMarks(q) \/ \E n \in Nodes : Migrate(q, n))
           \/ q \in Holders /\ (DealSchedule(q) \/ DealHandover(q) \/ DealTimeout(q))
           \/ q \in Reconcilers /\ UpdateInfo(q)
<1> USE GoroutineSets
<1>1. CASE proc'[q] # proc[q]
  <2>1. \/ q \in Users /\ UserStep(q)
        \/ q \in Holders /\ HolderStep(q)
        \/ q \in Reconcilers /\ ReconcileStep(q) /\ Busy(q)'
    BY <1>1, OtherSteps DEF UpdatePCs, Idle, Busy
  <2>2. ASSUME UpdateCheck(q), proc'[q].pc = "set"
        PROVE  kvs # NoPod /\ kvs' = kvs /\ proc'[q].pod = proc[q].pod
    <3>1. kvs' = kvs /\ proc \in [Procs -> Process] /\ proc[q] \in Process
      BY <2>2 DEF UpdateCheck, Coherent, TypeOK
    <3>2. kvs # NoPod
      BY <2>2, <3>1 DEF UpdateCheck, Return, Finished, Idle
    <3>3. Goto(q, "set")
      BY <2>2, <3>2 DEF UpdateCheck
    <3> QED
      BY <3>1, <3>2, <3>3 DEF Goto, Process
  <2>3. CASE proc'[q].pc = "check"
    BY <2>1, <2>3, UserGoes, HolderGoes, ReconcilerGoes
  <2>4. CASE proc'[q].pc = "set"
    <3>1. UpdateCheck(q)
      BY <2>1, <2>4, UserGoes, HolderGoes, ReconcilerGoes
    <3> QED
      BY <2>2, <2>4, <3>1
  <2> QED
    BY <2>3, <2>4 DEF UpdatePCs
<1> QED
  BY <1>1

(* While a user updates the record nobody else deals with it. *)
UsersTurn ==
    \A u \in Users : proc[u].pc \in UpdatePCs =>
        /\ msgs = {} /\ NoneBusy
        /\ \A h \in Holders : ~ AtWork(h)
        /\ \A w \in Users : proc[w].pc \in UpdatePCs => w = u

(* A holder decides about what the record says. *)
DealsFresh == \A h \in Holders : proc[h].pc = "deal" => kvs \in {NoPod, proc[h].pod}

(* No pending write takes the pod from its node. *)
StaysScheduled ==
    \A p \in Procs :
        proc[p].pc \in UpdatePCs /\ proc[p].pod.running = NoNode
            => p \in Users /\ (kvs # NoPod => kvs.running = NoNode)

HoldersDeal == \A h \in Holders : proc[h].pc \in HasCopyPCs => AtWork(h)

InTurn == UsersTurn /\ DealsFresh /\ StaysScheduled /\ HoldersDeal

LEMMA UsersTurnStep ==
    ASSUME Timing = "turns", Coherent, Placed, UsersTurn, [Next]_vars
    PROVE  UsersTurn'
<1> USE GoroutineSets
<1> SUFFICES ASSUME NEW u \in Users, proc'[u].pc \in UpdatePCs
             PROVE  /\ msgs' = {} /\ NoneBusy'
                    /\ \A h \in Holders : ~ AtWork(h)'
                    /\ \A w \in Users : proc'[w].pc \in UpdatePCs => w = u
  BY DEF UsersTurn
<1>1. CASE proc[u].pc \notin UpdatePCs
  <2>1. DeleteMarks(u) \/ \E n \in Nodes : Migrate(u, n)
    BY <1>1, Begins
  <2>2. Quiet /\ msgs' = msgs /\ UserStep(u)
    BY <2>1 DEF DeleteMarks, Migrate, MayBegin, UserStep
  <2>3. \A q \in Procs : q # u => proc'[q] \in {proc[q], Idle}
    BY <2>2, OthersStay
  <2> QED
    BY <2>2, <2>3, QuietFacts DEF NoneBusy, Busy, AtWork, UpdatePCs, Idle
<1>2. CASE proc[u].pc \in UpdatePCs
  <2>1. /\ msgs = {} /\ NoneBusy /\ (\A h \in Holders : ~ AtWork(h))
        /\ \A w \in Users : proc[w].pc \in UpdatePCs => w = u
    BY <1>2 DEF UsersTurn
  <2>2. ~ Quiet
    BY <1>2 DEF Quiet
  <2>3. msgs' = {}
    BY <2>1, MessageChanges DEF AtWork
  <2>4. NoneBusy'
    BY <2>1, Begins DEF NoneBusy
  <2>5. \A h \in Holders : ~ AtWork(h)'
    BY <2>1, <2>2, Begins DEF Tick
  <2>6. \A w \in Users : proc'[w].pc \in UpdatePCs => w = u
    BY <2>1, <2>2, Begins DEF DeleteMarks, Migrate, MayBegin
  <2> QED
    BY <2>3, <2>4, <2>5, <2>6
<1> QED
  BY <1>1, <1>2

(* Who writes the record does so alone, but for a holder whose call has     *)
(* timed out.                                                               *)
LEMMA WriterAlone ==
    ASSUME Coherent, Placed, UsersTurn, NEW p \in Procs, proc[p].pc \in UpdatePCs
    PROVE  /\ created
           /\ \A h \in Holders : proc[h].pc # "deal"
           /\ \A u \in Users : proc[u].pc \in UpdatePCs => u = p
<1> USE GoroutineSets
<1>1. created
  BY NothingYet DEF HasCopyPCs, UpdatePCs
<1>2. ASSUME NEW h \in Holders, proc[h].pc = "deal"
      PROVE  FALSE
  <2>1. NoneBusy /\ (\A g \in Holders : AtWork(g) => g = h) /\ AtWork(h)
    BY <1>2, AloneFacts DEF AtWork
  <2>2. CASE p \in Users
    BY <2>1, <2>2 DEF UsersTurn
  <2>3. CASE p \in Holders
    BY <1>2, <2>1, <2>3 DEF AtWork, UpdatePCs
  <2>4. CASE p \in Reconcilers
    BY <2>1, <2>4 DEF NoneBusy, Busy, UpdatePCs
  <2> QED
    BY <2>2, <2>3, <2>4 DEF Procs
<1>3. ASSUME NEW u \in Users, proc[u].pc \in UpdatePCs
      PROVE  u = p
  BY <1>3 DEF UsersTurn, NoneBusy, Busy, AtWork, UpdatePCs, Procs
<1> QED
  BY <1>1, <1>2, <1>3

LEMMA DealsFreshStep ==
    ASSUME Timing # "free", Coherent, Placed, UsersTurn, DealsFresh, [Next]_vars
    PROVE  DealsFresh'
<1> USE GoroutineSets
<1> SUFFICES ASSUME NEW h \in Holders, proc'[h].pc = "deal"
             PROVE  kvs' \in {NoPod, proc'[h].pod}
  BY DEF DealsFresh
<1>1. CASE proc'[h] # proc[h]
  <2>1. Tick(h)
    BY <1>1, OtherSteps, HolderGoes DEF Idle
  <2> QED
    BY <2>1 DEF Tick, Idle, Coherent, TypeOK
<1>2. CASE proc'[h] = proc[h]
  <2>1. ASSUME NEW u \in Users, Create(u) PROVE FALSE
    BY <1>2, <2>1, NothingYet DEF Create, HasCopyPCs
  <2>2. ASSUME NEW p \in Procs, UpdateSet(p) PROVE FALSE
    BY <1>2, <2>2, WriterAlone DEF UpdateSet, At, UpdatePCs
  <2>3. CASE kvs' = kvs
    BY <1>2, <2>3 DEF DealsFresh
  <2>4. CASE kvs' = NoPod
    BY <2>4
  <2> QED
    BY <2>1, <2>2, <2>3, <2>4, RecordChanges DEF CleanupClears, DealRemove
<1> QED
  BY <1>1, <1>2

LEMMA HoldersDealStep ==
    ASSUME Coherent, HoldersDeal, [Next]_vars
    PROVE  HoldersDeal'
<1> SUFFICES ASSUME NEW h \in Holders, proc'[h].pc \in HasCopyPCs
             PROVE  AtWork(h)'
  BY DEF HoldersDeal
<1>1. CASE proc'[h] = proc[h]
  BY <1>1 DEF HoldersDeal, AtWork
<1>2. CASE proc'[h] # proc[h]
  <2>1. HolderStep(h)
    BY <1>2, OtherSteps, GoroutineSets DEF Idle, HasCopyPCs, UpdatePCs
  <2> QED
    BY <2>1, HolderGoes
<1> QED
  BY <1>1, <1>2

(* What a call of kvs.Update is to write *)
LEMMA CallUpdatePod ==
    ASSUME Coherent, NEW p \in Procs, NEW pod, NEW then, CallUpdate(p, pod, then),
           proc'[p].pc = "check"
    PROVE  proc'[p].pod = pod
<1>1. proc \in [Procs -> Process]
  BY DEF Coherent, TypeOK
<1>2. CASE Valid(pod)
  BY <1>1, <1>2 DEF CallUpdate
<1>3. CASE ~ Valid(pod)
  BY <1>1, <1>3 DEF CallUpdate, Return, Finished, Idle
<1> QED
  BY <1>2, <1>3

LEMMA StaysScheduledStep ==
    ASSUME Timing # "free", Coherent, Placed, Placed', Coherent', UsersTurn, StaysScheduled, [Next]_vars
    PROVE  StaysScheduled'
<1> USE GoroutineSets, PodRecordAssumption
<1> SUFFICES ASSUME NEW p \in Procs, proc'[p].pc \in UpdatePCs, proc'[p].pod.running = NoNode
             PROVE  p \in Users /\ (kvs' # NoPod => kvs'.running = NoNode)
  BY DEF StaysScheduled
<1>1. CASE proc'[p] = proc[p]
  <2>1. p \in Users /\ (kvs # NoPod => kvs.running = NoNode)
    BY <1>1 DEF StaysScheduled
  <2>2. ASSUME kvs' # kvs PROVE kvs' = NoPod
    <3>1. created /\ \A h \in Holders : proc[h].pc # "deal"
      BY <1>1, WriterAlone
    <3>2. ASSUME NEW q \in Procs, UpdateSet(q) PROVE FALSE
      <4>1. proc[q].pc \in UpdatePCs
        BY <3>2 DEF UpdateSet, At, UpdatePCs
      <4>2. q = p
        BY <1>1, <2>1, <4>1, WriterAlone
      <4>3. proc \in [Procs -> Process]
        BY DEF Coherent, TypeOK
      <4>4. proc'[p].pc = proc[p].then
        BY <3>2, <4>2, <4>3 DEF UpdateSet, Finished, Idle
      <4>5. proc[p].then \in Afters
        BY <4>3 DEF Process
      <4> QED
        BY <4>4, <4>5 DEF Afters, UpdatePCs
    <3> QED
      BY <2>2, <3>1, <3>2, RecordChanges DEF Create, CleanupClears, DealRemove, At
  <2> QED
    BY <2>1, <2>2
<1>2. CASE UpdateCheck(p) /\ kvs' = kvs /\ proc'[p].pod = proc[p].pod
  BY <1>2 DEF StaysScheduled, UpdateCheck, At, UpdatePCs
<1>3. CASE p \in Users /\ (DeleteMarks(p) \/ \E n \in Nodes : Migrate(p, n))
  <2>1. kvs' = kvs /\ kvs \in Pod /\ proc'[p].pc = "check"
    <3>1. kvs' = kvs /\ kvs \in Pod
      BY <1>3, RecordFacts DEF DeleteMarks, Migrate
    <3>2. UserStep(p) /\ proc[p].pc \notin UpdatePCs
      BY <1>3 DEF UserStep, DeleteMarks, Migrate, At, UpdatePCs
    <3> QED
      BY <1>3, <3>1, <3>2, UserGoes DEF UpdatePCs, UpdateCheck, At
  <2>2. CASE DeleteMarks(p)
    <3>1. proc'[p].pod = [kvs EXCEPT !.deleted = TRUE]
      BY <2>1, <2>2, CallUpdatePod DEF DeleteMarks
    <3> QED
      BY <1>3, <2>1, <3>1 DEF Pod
  <2>3. ASSUME NEW n \in Nodes, Migrate(p, n) PROVE FALSE
    <3>1. proc'[p].pod = IF kvs.running = NoNode
                         THEN [kvs EXCEPT !.target = n, !.running = n]
                         ELSE [kvs EXCEPT !.target = n]
      BY <2>1, <2>3, CallUpdatePod DEF Migrate
    <3> QED
      BY <2>1, <3>1 DEF Pod
  <2> QED
    BY <1>3, <2>2, <2>3
<1>4. CASE p \in Holders /\ (DealSchedule(p) \/ DealHandover(p) \/ DealTimeout(p))
  <2>1. proc[p].pc = "deal" /\ HolderStep(p)
    BY <1>4 DEF DealSchedule, DealHandover, DealTimeout, At, HolderStep
  <2>2. proc[p].pod \in Copies /\ proc[p].pod \in Pod
    BY <1>4, <2>1, AloneFacts
  <2>3. proc'[p].pc = "check"
    BY <1>4, <2>1, HolderGoes DEF UpdatePCs, UpdateCheck, At
  <2> DEFINE pod == proc[p].pod
  <2>4. CASE DealSchedule(p)
    <3>1. proc'[p].pod = [pod EXCEPT !.target = Creator, !.running = Creator]
      BY <2>3, <2>4, CallUpdatePod DEF DealSchedule
    <3> QED
      BY <2>2, <3>1, PodSystemAssumption DEF Pod
  <2>5. CASE DealHandover(p)
    <3>1. proc'[p].pod = Handover(pod) /\ pod.running # NoNode
      BY <2>3, <2>5, CallUpdatePod DEF DealHandover
    <3>2. Handover(pod).running = pod.target
      BY <2>2 DEF Handover, Pod
    <3> QED
      BY <2>2, <3>1, <3>2 DEF Placed, Targeted
  <2>6. CASE DealTimeout(p)
    <3>1. proc'[p].pod = MarkUnknown(pod) /\ pod.running # NoNode
      BY <2>3, <2>6, CallUpdatePod DEF DealTimeout, Reconcilable
    <3>2. MarkUnknown(pod).running = pod.running
      BY <2>2 DEF MarkUnknown, Pod
    <3> QED
      BY <3>1, <3>2
  <2> QED
    BY <1>4, <2>4, <2>5, <2>6
<1>5. CASE p \in Reconcilers
  <2>1. InPlace(NodeOf[p])'
    BY <1>5 DEF InPlace, Busy, UpdatePCs
  <2>2. proc'[p].pod \in Copies'
    BY DEF Copies, Coherent, GoodProcess, HasCopyPCs, UpdatePCs
  <2> QED
    BY <2>1, <2>2 DEF Placed, CopiesPlaced
<1> QED
  BY <1>1, <1>2, <1>3, <1>4, <1>5, WriterGoes

(* Nobody takes the record away while somebody is about to write it. *)
NotLost == \A p \in Procs : proc[p].pc = "set" => kvs # NoPod

LEMMA NotLostStep ==
    ASSUME Coherent, Placed, Kept, UsersTurn, NotLost, [Next]_vars
    PROVE  NotLost'
<1> USE GoroutineSets
<1> SUFFICES ASSUME NEW p \in Procs, proc'[p].pc = "set"
             PROVE  kvs' # NoPod
  BY DEF NotLost
<1>1. CASE proc'[p] = proc[p]
  <2>1. kvs # NoPod /\ \A h \in Holders : proc[h].pc # "deal"
    BY <1>1, WriterAlone DEF NotLost, UpdatePCs
  <2>2. ASSUME NEW u \in Users, Create(u) PROVE kvs' # NoPod
    BY <2>2, NewPodType, NoPodAssumption DEF Create
  <2>3. ASSUME NEW q \in Procs, UpdateSet(q) PROVE kvs' # NoPod
    BY <2>3, UpdateSetGood, NoPodAssumption
  <2> QED
    BY <2>1, <2>2, <2>3, RecordChanges DEF CleanupClears, DealRemove, At, Kept
<1>2. CASE proc'[p] # proc[p]
  <2>1. \/ p \in Users /\ UserStep(p)
        \/ p \in Holders /\ HolderStep(p)
        \/ p \in Reconcilers /\ ReconcileStep(p) /\ Busy(p)'
    BY <1>2, OtherSteps DEF Idle, Busy
  <2>2. UpdateCheck(p)
    BY <2>1, UserGoes, HolderGoes, ReconcilerGoes
  <2>3. kvs # NoPod /\ kvs' = kvs
    BY <1>2, <2>2, WriterGoes
       DEF UpdatePCs, UpdateCheck, DeleteMarks, Migrate, DealSchedule, DealHandover, DealTimeout,
           UpdateInfo, At
  <2> QED
    BY <2>3
<1> QED
  BY <1>1, <1>2

Ordered == Coherent /\ Placed /\ Kept /\ InTurn /\ NotLost

LEMMA OrderedStep ==
    ASSUME Timing = "turns", MaxCleanups = 0, Ordered, [Next]_vars
    PROVE  Ordered'
<1>1. Timing # "free"
  OBVIOUS
<1>2. Coherent' /\ Placed' /\ Kept'
  BY <1>1, CoherentInductive, PlacedStep, KeptStep DEF Ordered
<1>3. UsersTurn' /\ DealsFresh' /\ StaysScheduled' /\ HoldersDeal'
  BY <1>1, <1>2, UsersTurnStep, DealsFreshStep, StaysScheduledStep, HoldersDealStep DEF Ordered, InTurn
<1>4. NotLost'
  BY NotLostStep DEF Ordered, InTurn
<1> QED
  BY <1>2, <1>3, <1>4 DEF Ordered, InTurn

LEMMA InitOrdered == Init => Ordered
<1> SUFFICES ASSUME Init PROVE Ordered
  OBVIOUS
<1>1. \A p \in Procs : proc[p].pc = "idle"
  BY DEF Init, Idle
<1>2. UsersTurn /\ DealsFresh /\ StaysScheduled /\ HoldersDeal /\ NotLost
  BY <1>1, GoroutineSets
     DEF UsersTurn, DealsFresh, StaysScheduled, HoldersDeal, NotLost, HasCopyPCs, UpdatePCs
<1> QED
  BY <1>2, InitPlaced, InitKept, CoherentInductive DEF Ordered, InTurn

LEMMA OrderedAlways ==
    ASSUME Timing = "turns", MaxCleanups = 0
    PROVE  Spec => []Ordered
<1>1. Ordered /\ [Next]_vars => Ordered'
  BY OrderedStep
<1> QED
  BY <1>1, InitOrdered, PTL DEF Spec

(* What an update does to the record while users take turns. *)
LEMMA UpdateMovesOn ==
    ASSUME Ordered, NEW p \in Procs, UpdateSet(p)
    PROVE  /\ kvs \in Copies /\ kvs \in Pod /\ kvs' \in Copies /\ kvs' \in Pod
           /\ kvs' = proc[p].pod
           /\ kvs'.running = NoNode => kvs.running = NoNode
<1>1. proc[p].pc = "set" /\ kvs' = proc[p].pod
  BY DEF UpdateSet, At
<1>2. kvs # NoPod
  BY <1>1 DEF Ordered, NotLost
<1>3. proc[p].pod \in Copies /\ proc[p].pod \in Pod
  BY <1>1, OwnCopy DEF Ordered, HasCopyPCs, UpdatePCs
<1>4. kvs'.running = NoNode => kvs.running = NoNode
  BY <1>1, <1>2 DEF Ordered, InTurn, StaysScheduled, UpdatePCs
<1> QED
  BY <1>1, <1>2, <1>3, <1>4, RecordCopy DEF Ordered

LEMMA CreatedChanges ==
    ASSUME [Next]_vars, created' # created
    PROVE  \E u \in Users : Create(u)
<1>1. ASSUME NEW p \in Procs, UpdateCheck(p) \/ UpdateSet(p) \/ UpdateFails(p) PROVE FALSE
  BY <1>1 DEF UpdateCheck, UpdateSet, UpdateFails
<1>2. ASSUME NEW u \in Users, UserStep(u) PROVE Create(u)
  BY <1>1, <1>2, GoroutineSets
     DEF UserStep, Migrate, Delete, DeleteMarks, DeleteReturns, Cleanup, CleanupClears
<1>3. ASSUME NEW h \in Holders, HolderStep(h) PROVE FALSE
  BY <1>1, <1>3, GoroutineSets
     DEF HolderStep, Tick, DealRemove, DealDeleting, DealSchedule, DealRest, DealHandover,
         DealReconcile, DealTimeout
<1>4. ASSUME NEW p \in Reconcilers, ReconcileStep(p) PROVE FALSE
  BY <1>1, <1>4, GoroutineSets
     DEF ReconcileStep, Enter, GetFails, ReconcileElsewhere, ReconcileTerminate, ReconcileRun,
         SandboxRefused, PullImages, PullFails, StartContainer, StartFails, FindContainer, CreateFails,
         StartDone, Teardown, TeardownHangs, TeardownPanics, TeardownErrs, TeardownDone, RecordFails,
         UpdateInfo, UpdateInfoErrs, Remove, Leave
<1>5. ASSUME \/ \E n \in Nodes, c \in Containers : ContainerStops(n, c) \/ ContainerExits(n, c)
             \/ \E n \in Nodes : NodeLeaves(n)
             \/ UNCHANGED vars
      PROVE  FALSE
  BY <1>5 DEF ContainerStops, ContainerExits, NodeLeaves, vars
<1> QED
  BY <1>2, <1>3, <1>4, <1>5 DEF Next

-----------------------------------------------------------------------------
(* The life of the pod *)

lives == [c \in Containers |-> LiveOn(c)]

(* A container is started where the record says the pod is, and nowhere     *)
(* else it runs.                                                            *)
LEMMA LiveChanges ==
    ASSUME Ordered, [Next]_vars, kvs' = kvs, created' = created
    PROVE  Lifecycle!PodNext \/ UNCHANGED <<placeOfPod, lives>>
<1> USE GoroutineSets
<1>1. UNCHANGED placeOfPod
  BY DEF placeOfPod
<1>2. \A n \in Nodes, c \in Containers :
          Live(cri[n], c)' => \/ Live(cri[n], c)
                              \/ \E p \in Reconcilers : NodeOf[p] = n /\ StartContainer(p, c)
  BY BoxChanges DEF Ordered, Live
<1>3. \A c \in Containers : \A m, n \in LiveOn(c) : m = n
  BY DEF LiveOn, Ordered, Placed, OnePlace, InPlace
<1>4. CASE FewerLive
  <2> DEFINE ending == {c \in Containers : LiveOn(c)' = {}}
  <2>1. \A c \in Containers : LiveOn(c)' \in {LiveOn(c), {}}
    BY <1>3, <1>4 DEF LiveOn, FewerLive
  <2>2. lives' = [c \in Containers |-> IF c \in ending THEN {} ELSE lives[c]]
    BY <2>1 DEF lives
  <2>3. ending \in SUBSET Containers
    OBVIOUS
  <2>4. Lifecycle!Ends
    <3> HIDE DEF ending
    <3> QED
      BY <1>1, <2>2, <2>3 DEF Lifecycle!Ends, lives
  <2> QED
    BY <2>4 DEF Lifecycle!PodNext
<1>5. CASE ~ FewerLive
  <2>1. PICK p \in Reconcilers, c \in Containers : StartContainer(p, c)
    BY <1>2, <1>5 DEF FewerLive
  <2> DEFINE n == NodeOf[p]
  <2>2. Busy(p) /\ n \in Nodes /\ ~ Live(cri[n], c)
    BY <2>1 DEF StartContainer, At, Busy, Exists, Live
  <2>3. /\ \A m \in Nodes : InPlace(m) => m = n
        /\ \A pod \in Copies : pod.running = n
    BY <2>2, BusyFacts DEF Ordered
  <2>4. kvs # NoPod /\ kvs.running = n
    <3>1. Held
      BY <2>2 DEF Held, InPlace
    <3> QED
      BY <2>3, <3>1, RecordCopy DEF Ordered, Kept
  <2>5. LiveOn(c) = {}
    BY <2>2, <2>3 DEF LiveOn, InPlace
  <2>6. cri' = [cri EXCEPT ![n] = CreateAndStart(cri[n], c, nextId)] /\ cri \in [Nodes -> Runtime]
    BY <2>1 DEF StartContainer, Ordered, Coherent, TypeOK
  <2>7. \A d \in Containers : Live(cri'[n], d) <=> d = c \/ Live(cri[n], d)
    <3>1. CreateAndStart(cri[n], c, nextId).box =
              [cri[n].box EXCEPT ![c] = [id |-> nextId, state |-> "running", stopping |-> FALSE]]
      BY <2>2, <2>6 DEF CreateAndStart, Runtime
    <3>2. cri'[n].box = CreateAndStart(cri[n], c, nextId).box /\ cri[n].box \in [Containers -> Container]
      BY <2>2, <2>6 DEF Runtime
    <3> QED
      BY <3>1, <3>2 DEF Live
  <2>8. \A d \in Containers : LiveOn(d)' = IF d = c THEN {n} ELSE LiveOn(d)
    <3>1. \A m \in Nodes : m # n => cri'[m] = cri[m]
      BY <2>2, <2>6
    <3> QED
      BY <2>2, <2>5, <2>7, <3>1 DEF LiveOn, Live
  <2>9. placeOfPod = n
    BY <2>4 DEF placeOfPod
  <2>10. lives' = [lives EXCEPT ![c] = {n}] /\ lives[c] = {}
    BY <2>5, <2>8 DEF lives
  <2>11. Lifecycle!Starts(c)
    BY <1>1, <2>2, <2>9, <2>10 DEF Lifecycle!Starts, lives
  <2> QED
    BY <2>11 DEF Lifecycle!PodNext
<1> QED
  BY <1>4, <1>5

LEMMA LifecycleStep ==
    ASSUME Timing = "turns", Ordered, Ordered', [Next]_vars
    PROVE  Lifecycle!PodNext \/ UNCHANGED <<placeOfPod, lives>>
<1> USE GoroutineSets
<1>1. ASSUME cri' = cri PROVE UNCHANGED lives
  BY <1>1 DEF lives, LiveOn
<1>2. ASSUME \A n \in Nodes : ~ InPlace(n) PROVE Lifecycle!NothingLive
  BY <1>2 DEF Lifecycle!NothingLive, LiveOn, InPlace
<1>3. ASSUME NEW u \in Users, Create(u) PROVE Lifecycle!Created
  <2>1. kvs' = NewPod /\ kvs' # NoPod /\ kvs'.running = NoNode /\ cri' = cri /\ ~ created
    BY <1>3, NewPodType, NoPodAssumption DEF Create, NodeUnchanged, NewPod
  <2>2. kvs = NoPod
    BY <2>1, RecordCopy DEF Ordered, Placed, NotCreated
  <2>3. placeOfPod = "new" /\ placeOfPod' = NoNode
    BY <2>1, <2>2 DEF placeOfPod
  <2> QED
    BY <1>1, <2>1, <2>3 DEF Lifecycle!Created, lives
<1>4. ASSUME NEW h \in Holders, DealRemove(h)
      PROVE  Lifecycle!Goes \/ UNCHANGED <<placeOfPod, lives>>
  <2>1. /\ kvs' = NoPod /\ cri' = cri /\ created' = created /\ created
        /\ \A n \in Nodes : ~ InPlace(n)
    BY <1>4, DealRemoveFacts DEF Ordered
  <2>2. CASE kvs = NoPod
    BY <1>1, <2>1, <2>2 DEF placeOfPod
  <2>3. CASE kvs # NoPod
    <3>1. placeOfPod \in Nodes \cup {NoNode} /\ placeOfPod' = "gone"
      BY <2>1, <2>3, RecordCopy DEF placeOfPod, Ordered, Pod
    <3> QED
      BY <1>1, <1>2, <2>1, <3>1 DEF Lifecycle!Goes, lives
  <2> QED
    BY <2>2, <2>3
<1>5. ASSUME NEW p \in Procs, UpdateSet(p)
      PROVE  Lifecycle!PodNext \/ UNCHANGED <<placeOfPod, lives>>
  <2>1. /\ kvs \in Copies /\ kvs \in Pod /\ kvs' \in Copies /\ kvs' \in Pod
        /\ kvs'.running = NoNode => kvs.running = NoNode
    BY <1>5, UpdateMovesOn DEF Ordered
  <2>2. UNCHANGED lives
    BY <1>1, <1>5 DEF UpdateSet, NodeUnchanged
  <2>3. placeOfPod = kvs.running /\ placeOfPod' = kvs'.running
    BY <2>1, NoPodAssumption DEF placeOfPod
  <2>4. CASE kvs'.running = kvs.running
    BY <2>2, <2>3, <2>4
  <2>5. CASE kvs'.running # kvs.running /\ kvs.running = NoNode
    <3>1. Lifecycle!Scheduled
      BY <2>1, <2>2, <2>3, <2>5 DEF Lifecycle!Scheduled, Pod, lives
    <3> QED
      BY <3>1 DEF Lifecycle!PodNext
  <2>6. CASE kvs'.running # kvs.running /\ kvs.running # NoNode
    <3>1. \A n \in Nodes : ~ InPlace(n)
      BY <2>1, <2>6 DEF Ordered, Placed, CopiesPlaced
    <3>2. kvs.running \in Nodes /\ kvs'.running \in Nodes \ {kvs.running}
      BY <2>1, <2>6 DEF Pod
    <3>3. Lifecycle!Moves
      BY <1>2, <2>2, <2>3, <3>1, <3>2 DEF Lifecycle!Moves, lives
    <3> QED
      BY <3>3 DEF Lifecycle!PodNext
  <2> QED
    BY <2>4, <2>5, <2>6
<1>6. ASSUME NEW u \in Users, CleanupClears(u) PROVE FALSE
  BY <1>6 DEF CleanupClears, At, Ordered, Kept
<1>7. CASE kvs' # kvs
  BY <1>3, <1>4, <1>5, <1>6, <1>7, RecordChanges DEF Lifecycle!PodNext
<1>8. ASSUME created' # created PROVE \E u \in Users : Create(u)
  BY <1>8, CreatedChanges
<1>9. CASE kvs' = kvs
  BY <1>3, <1>8, <1>9, LiveChanges DEF Lifecycle!PodNext
<1> QED
  BY <1>7, <1>9

(* When the users take turns with the holders and do not call Cleanup, the  *)
(* record, the messages and the reconciliations implement PodLifecycle: the *)
(* pod has one place at a time, its containers run only there, and it moves *)
(* or goes only after all of them have ended.                               *)
THEOREM LifecycleImplemented ==
    ASSUME Timing = "turns", MaxCleanups = 0
    PROVE  Spec => ImplementsLifecycle
<1>1. Init => Lifecycle!PodInit
  <2> SUFFICES ASSUME Init PROVE Lifecycle!PodInit
    OBVIOUS
  <2>1. \A n \in Nodes, c \in Containers : ~ Live(cri[n], c)
    BY DEF Init, Live, EmptyRuntime, NoContainer
  <2>2. [c \in Containers |-> LiveOn(c)] = [c \in Containers |-> {}]
    BY <2>1 DEF LiveOn
  <2>3. placeOfPod = "new"
    BY DEF Init, placeOfPod
  <2> QED
    BY <2>2, <2>3 DEF Lifecycle!PodInit
<1>2. Ordered /\ Ordered' /\ [Next]_vars
          => [Lifecycle!PodNext]_<<placeOfPod, [c \in Containers |-> LiveOn(c)]>>
  BY LifecycleStep DEF lives
<1> QED
  BY <1>1, <1>2, OrderedAlways, PTL DEF Spec, ImplementsLifecycle, Lifecycle!PodSpec

-----------------------------------------------------------------------------
(* Recorded ends are kept *)

(* When no call fails, who deals with the record does so alone. *)
HoldersAlone ==
    \A h \in Holders : AtWork(h) =>
        msgs = {} /\ NoneBusy /\ \A g \in Holders : AtWork(g) => g = h

(* What is to be written for the same node keeps every end that is recorded. *)
EndsKept ==
    \A p \in Procs : proc[p].pc \in HasCopyPCs /\ kvs # NoPod /\ proc[p].pod.running = kvs.running =>
        \A c \in Containers : kvs.status[c].terminated => proc[p].pod.status[c].terminated

Single == UsersTurn /\ HoldersDeal /\ HoldersAlone /\ DealsFresh

LEMMA HoldersAloneStep ==
    ASSUME Timing = "turns", MaxFaults = 0, Coherent, Placed, HoldersAlone, [Next]_vars
    PROVE  HoldersAlone'
<1> USE GoroutineSets
<1> SUFFICES ASSUME NEW h \in Holders, AtWork(h)'
             PROVE  msgs' = {} /\ NoneBusy' /\ \A g \in Holders : AtWork(g)' => g = h
  BY DEF HoldersAlone
<1>1. CASE ~ AtWork(h)
  <2>1. Tick(h) /\ HolderStep(h)
    BY <1>1, Begins DEF HolderStep
  <2>2. Quiet /\ msgs' = msgs
    BY <2>1 DEF Tick
  <2>3. \A q \in Procs : q # h => proc'[q] \in {proc[q], Idle}
    BY <2>1, OthersStay
  <2> QED
    BY <2>2, <2>3, QuietFacts DEF NoneBusy, Busy, AtWork, UpdatePCs, Idle
<1>2. CASE AtWork(h)
  <2>1. msgs = {} /\ NoneBusy /\ \A g \in Holders : AtWork(g) => g = h
    BY <1>2 DEF HoldersAlone
  <2>2. ~ Quiet
    BY <1>2, QuietFacts
  <2>3. msgs' = {}
    <3>1. ASSUME NEW g \in Holders, proc[g].pc = "deal", DealReconcile(g) \/ DealDeleting(g) PROVE FALSE
      <4>1. g = h /\ proc \in [Procs -> Process] /\ proc[h] \in Process
        BY <2>1, <3>1 DEF AtWork, Coherent, TypeOK
      <4>2. Finished(h) \/ Goto(h, "blocked")
        BY <3>1, <4>1 DEF DealReconcile, DealDeleting
      <4>3. proc'[h].pc \in {"idle", "blocked"}
        BY <4>1, <4>2 DEF Finished, Goto, Idle, Process
      <4> QED
        BY <4>3 DEF AtWork, UpdatePCs
    <3>2. ~ Spend("faults", MaxFaults)
      BY DEF Spend, Coherent, TypeOK, Counters
    <3> QED
      BY <2>1, <3>1, <3>2, MessageChanges
  <2>4. NoneBusy'
    BY <2>1, Begins DEF NoneBusy
  <2>5. \A g \in Holders : AtWork(g)' => g = h
    BY <2>1, <2>2, Begins DEF Tick
  <2> QED
    BY <2>3, <2>4, <2>5
<1> QED
  BY <1>1, <1>2

LEMMA OneCopy ==
    ASSUME Coherent, Placed, UsersTurn, HoldersDeal, HoldersAlone,
           NEW p \in Procs, proc[p].pc \in HasCopyPCs,
           NEW q \in Procs, proc[q].pc \in HasCopyPCs
    PROVE  p = q
<1> USE GoroutineSets
<1>1. \A r \in Users : proc[r].pc \in HasCopyPCs => proc[r].pc \in UpdatePCs
  BY DEF Placed, UsersUpdate
<1>2. \A r \in Holders : proc[r].pc \in HasCopyPCs => AtWork(r)
  BY DEF HoldersDeal
<1>3. \A r \in Reconcilers : proc[r].pc \in HasCopyPCs => Busy(r)
  BY DEF HasCopyPCs, UpdatePCs, Busy
<1>4. CASE p \in Users \/ q \in Users
  BY <1>1, <1>2, <1>3, <1>4 DEF UsersTurn, NoneBusy, Procs
<1>5. CASE p \in Holders \/ q \in Holders
  BY <1>1, <1>2, <1>3, <1>4, <1>5 DEF HoldersAlone, NoneBusy, Procs
<1>6. CASE p \in Reconcilers /\ q \in Reconcilers
  BY <1>3, <1>6, BusyFacts
<1> QED
  BY <1>4, <1>5, <1>6 DEF Procs

(* The copies that goroutines get have the record's ends, and those that    *)
(* they change keep them.                                                   *)
KeepsEnds(pod) ==
    pod.running = kvs.running =>
        \A c \in Containers : kvs.status[c].terminated => pod.status[c].terminated

LEMMA UserKeepsEnds ==
    ASSUME Coherent, Coherent', Placed', NEW u \in Users, UserStep(u), [Next]_vars,
           kvs \in Pod, kvs' = kvs, proc'[u] # proc[u], proc'[u].pc \in HasCopyPCs, EndsKept
    PROVE  KeepsEnds(proc'[u].pod)
<1> USE GoroutineSets
<1>1. proc'[u].pc \in UpdatePCs
  BY DEF Placed, UsersUpdate
<1>2. CASE UpdateCheck(u) /\ proc'[u].pod = proc[u].pod
  BY <1>2, NoPodAssumption DEF EndsKept, KeepsEnds, UpdateCheck, At, HasCopyPCs, UpdatePCs
<1>3. CASE DeleteMarks(u) \/ \E n \in Nodes : Migrate(u, n)
  <2>1. proc'[u].pc = "check"
    BY <1>1, <1>3, UserGoes DEF UpdatePCs, UpdateCheck, DeleteMarks, Migrate, At
  <2>2. proc'[u].pod.status = kvs.status
    <3>1. CASE DeleteMarks(u)
      <4>1. proc'[u].pod = [kvs EXCEPT !.deleted = TRUE]
        BY <2>1, <3>1, CallUpdatePod DEF DeleteMarks
      <4> QED
        BY <4>1 DEF Pod
    <3>2. ASSUME NEW n \in Nodes, Migrate(u, n) PROVE proc'[u].pod.status = kvs.status
      <4>1. proc'[u].pod = IF kvs.running = NoNode
                           THEN [kvs EXCEPT !.target = n, !.running = n]
                           ELSE [kvs EXCEPT !.target = n]
        BY <2>1, <3>2, CallUpdatePod DEF Migrate
      <4> QED
        BY <4>1 DEF Pod
    <3> QED
      BY <1>3, <3>1, <3>2
  <2> QED
    BY <2>2 DEF KeepsEnds
<1> QED
  BY <1>1, <1>2, <1>3, WriterGoes

LEMMA HolderKeepsEnds ==
    ASSUME Coherent, Placed, DealsFresh, NEW h \in Holders, HolderStep(h), [Next]_vars,
           kvs \in Pod, kvs' = kvs, proc'[h] # proc[h], proc'[h].pc \in HasCopyPCs, EndsKept
    PROVE  KeepsEnds(proc'[h].pod)
<1> USE GoroutineSets, NoPodAssumption
<1>1. CASE proc'[h].pc = "deal"
  <2>1. Tick(h)
    BY <1>1, HolderGoes
  <2>2. proc'[h].pod = kvs
    BY <2>1 DEF Tick, Idle, Coherent, TypeOK
  <2> QED
    BY <2>2 DEF KeepsEnds
<1>2. CASE UpdateCheck(h) /\ proc'[h].pod = proc[h].pod
  BY <1>2 DEF EndsKept, KeepsEnds, UpdateCheck, At, HasCopyPCs, UpdatePCs
<1>3. CASE DealSchedule(h) \/ DealHandover(h) \/ DealTimeout(h)
  <2>1. proc[h].pc = "deal" /\ proc[h].pod = kvs
    BY <1>3 DEF DealSchedule, DealHandover, DealTimeout, At, DealsFresh
  <2>2. proc'[h].pc # "deal" => proc'[h].pc = "check"
    BY <2>1, HolderGoes DEF UpdateCheck, At, AtWork, UpdatePCs
  <2>3. CASE proc'[h].pc = "check"
    <3>1. CASE DealSchedule(h)
      <4>1. proc'[h].pod = [kvs EXCEPT !.target = Creator, !.running = Creator]
        BY <2>1, <2>3, <3>1, CallUpdatePod DEF DealSchedule
      <4> QED
        BY <4>1 DEF KeepsEnds, Pod
    <3>2. CASE DealHandover(h)
      <4>1. proc'[h].pod = Handover(kvs) /\ kvs.running # kvs.target
        BY <2>1, <2>3, <3>2, CallUpdatePod DEF DealHandover, Moved
      <4>2. Handover(kvs).running = kvs.target
        BY DEF Handover, Pod
      <4> QED
        BY <4>1, <4>2 DEF KeepsEnds
    <3>3. CASE DealTimeout(h)
      <4>1. proc'[h].pod = MarkUnknown(kvs)
        BY <2>1, <2>3, <3>3, CallUpdatePod DEF DealTimeout
      <4>2. \A c \in Containers : MarkUnknown(kvs).status[c].terminated = kvs.status[c].terminated
        BY DEF MarkUnknown, Pod, ContainerStatus
      <4> QED
        BY <4>1, <4>2 DEF KeepsEnds
    <3> QED
      BY <1>3, <3>1, <3>2, <3>3
  <2> QED
    BY <1>1, <2>2, <2>3
<1> QED
  BY <1>1, <1>2, <1>3, HolderGoes, WriterGoes DEF AtWork

LEMMA ReconcilerKeepsEnds ==
    ASSUME Coherent, Coherent', Placed, NEW p \in Reconcilers, ReconcileStep(p), [Next]_vars,
           kvs \in Pod, kvs' = kvs, proc'[p] # proc[p], proc'[p].pc \in HasCopyPCs, EndsKept
    PROVE  KeepsEnds(proc'[p].pod)
<1> USE GoroutineSets, NoPodAssumption
<1>1. p \in Procs /\ proc \in [Procs -> Process] /\ proc[p] \in Process /\ Busy(p)' /\ kvs \in Copies
  BY RecordCopy DEF Coherent, TypeOK, Busy, HasCopyPCs, UpdatePCs
<1>2. ASSUME proc[p].pc \in HasCopyPCs PROVE KeepsEnds(proc[p].pod)
  BY <1>2 DEF EndsKept, KeepsEnds
<1>3. CASE ReconcileRun(p) \/ ReconcileTerminate(p)
  <2>1. proc'[p].pod = kvs
    BY <1>1, <1>3
       DEF ReconcileRun, ReconcileTerminate, Fail, Idle, HasCopyPCs, UpdatePCs
  <2> QED
    BY <2>1 DEF KeepsEnds
<1>4. CASE PullImages(p) \/ StartDone(p) \/ TeardownDone(p) \/ (UpdateCheck(p) /\ proc'[p].pc = "set")
  <2>1. proc'[p].pod = proc[p].pod /\ proc[p].pc \in HasCopyPCs
    BY <1>1, <1>4
       DEF PullImages, StartDone, TeardownDone, UpdateCheck, Return, Fail, Finished, Goto, At, Process, Idle,
           HasCopyPCs, UpdatePCs
  <2> QED
    BY <1>2, <2>1
<1>5. ASSUME NEW c \in Containers, Teardown(p, c) \/ CreateFails(p, c) PROVE KeepsEnds(proc'[p].pod)
  <2>1. proc'[p].pod = proc[p].pod /\ proc[p].pc \in HasCopyPCs
    BY <1>1, <1>5 DEF Teardown, CreateFails, At, Process, HasCopyPCs
  <2> QED
    BY <1>2, <2>1
<1>6. ASSUME NEW c \in Containers, StartContainer(p, c) \/ StartFails(p, c) \/ FindContainer(p, c)
      PROVE  KeepsEnds(proc'[p].pod)
  <2>1. proc[p].pc = "start" /\ c \in proc[p].todo /\ proc[p].pod \in Pod
    BY <1>1, <1>6, OwnCopy DEF StartContainer, StartFails, FindContainer, At, HasCopyPCs
  <2>2. PICK s : proc' = [proc EXCEPT ![p] = Noted(proc[p], c, s)]
    BY <1>6 DEF StartContainer, StartFails, FindContainer
  <2>3. ~ kvs.status[c].terminated
    BY <1>1, <2>1 DEF Placed, NoneEnded
  <2>4. /\ proc'[p].pod.running = proc[p].pod.running
        /\ \A d \in Containers : d # c => proc'[p].pod.status[d] = proc[p].pod.status[d]
    <3>1. proc'[p] = Noted(proc[p], c, s)
      BY <1>1, <2>2
    <3>2. Noted(proc[p], c, s).pod = [proc[p].pod EXCEPT !.status[c] = s]
      BY <1>1 DEF Noted, Process
    <3> QED
      BY <2>1, <3>1, <3>2 DEF Pod
  <2>5. KeepsEnds(proc[p].pod)
    BY <1>2, <2>1 DEF HasCopyPCs
  <2> QED
    BY <2>3, <2>4, <2>5 DEF KeepsEnds
<1>7. CASE UpdateInfo(p) /\ proc'[p].pc = "check"
  <2>1. proc[p].pc = "info" /\ proc[p].pod \in Pod
    BY <1>1, <1>7, OwnCopy DEF UpdateInfo, At, HasCopyPCs
  <2>2. proc'[p].pod = [proc[p].pod EXCEPT !.status = NewStatus(p)]
    <3> DEFINE x == [proc[p].pod EXCEPT !.status = NewStatus(p)]
    <3>1. \E then : CallUpdate(p, x, then)
      BY <1>7 DEF UpdateInfo
    <3> HIDE DEF x
    <3>2. proc'[p].pod = x
      BY <1>1, <1>7, <3>1, CallUpdatePod
    <3> QED
      BY <3>2 DEF x
  <2>3. \A c \in Containers : proc[p].pod.status[c].terminated => NewStatus(p)[c].terminated
    BY <2>1, NewStatusEnds
  <2>4. KeepsEnds(proc[p].pod)
    BY <1>2, <2>1 DEF HasCopyPCs
  <2>5. proc'[p].pod.running = proc[p].pod.running /\ proc'[p].pod.status = NewStatus(p)
    BY <2>1, <2>2 DEF Pod
  <2> QED
    BY <2>3, <2>4, <2>5 DEF KeepsEnds
<1> QED
  BY <1>1, <1>3, <1>4, <1>5, <1>6, <1>7, ReconcilerGoes DEF HasCopyPCs, UpdatePCs

LEMMA EndsKeptStep ==
    ASSUME Timing = "turns", MaxFaults = 0, Coherent, Coherent', Placed, Placed', Single, Single',
           EndsKept, [Next]_vars
    PROVE  EndsKept'
<1> USE GoroutineSets
<1> SUFFICES ASSUME NEW p \in Procs, proc'[p].pc \in HasCopyPCs, kvs' # NoPod,
                    proc'[p].pod.running = kvs'.running, NEW c \in Containers,
                    kvs'.status[c].terminated
             PROVE  proc'[p].pod.status[c].terminated
  BY DEF EndsKept
<1>1. CASE kvs' # kvs
  <2>1. ASSUME NEW u \in Users, Create(u) PROVE FALSE
    BY <2>1, NothingYet DEF Create
  <2>2. ASSUME NEW q \in Procs, UpdateSet(q), UserStep(q) \/ HolderStep(q) \/ ReconcileStep(q) PROVE FALSE
    <3>1. proc[q].pc \in HasCopyPCs /\ proc[q] \in Process /\ proc \in [Procs -> Process]
      BY <2>2 DEF UpdateSet, At, HasCopyPCs, UpdatePCs, Coherent, TypeOK
    <3>2. q # p
      <4>1. proc'[q].pc = proc[q].then
        BY <2>2, <3>1 DEF UpdateSet, Finished, Idle
      <4> QED
        BY <3>1, <4>1 DEF Process, Afters, HasCopyPCs, UpdatePCs
    <3>3. proc'[p] \in {proc[p], Idle}
      BY <2>2, <3>2, OthersStay
    <3>4. proc[p].pc \in HasCopyPCs
      BY <3>3 DEF Idle, HasCopyPCs, UpdatePCs
    <3> QED
      BY <3>1, <3>2, <3>4, OneCopy DEF Single
  <2> QED
    BY <1>1, <2>1, <2>2, RecordChanges DEF CleanupClears, DealRemove
<1>2. CASE kvs' = kvs /\ proc'[p] = proc[p]
  BY <1>2 DEF EndsKept
<1>3. CASE kvs' = kvs /\ proc'[p] # proc[p]
  <2>1. kvs \in Pod
    BY <1>3, RecordFacts
  <2>2. \/ p \in Users /\ UserStep(p)
        \/ p \in Holders /\ HolderStep(p)
        \/ p \in Reconcilers /\ ReconcileStep(p)
    BY <1>3, OtherSteps DEF Idle, HasCopyPCs, UpdatePCs
  <2>3. KeepsEnds(proc'[p].pod)
    BY <1>3, <2>1, <2>2, UserKeepsEnds, HolderKeepsEnds, ReconcilerKeepsEnds DEF Single
  <2> QED
    BY <1>3, <2>3 DEF KeepsEnds
<1> QED
  BY <1>1, <1>2, <1>3

LEMMA SingleStep ==
    ASSUME Timing = "turns", MaxFaults = 0, Coherent, Placed, Single, [Next]_vars
    PROVE  Single'
<1>1. Timing # "free"
  OBVIOUS
<1> QED
  BY <1>1, UsersTurnStep, HoldersDealStep, HoldersAloneStep, DealsFreshStep DEF Single

(* When the users take turns with the holders and no call fails, no update  *)
(* of the record takes back the end of a container while the pod stays on   *)
(* its node: nobody writes over what somebody else has recorded.            *)
THEOREM EndsAreKept ==
    ASSUME Timing = "turns", MaxFaults = 0
    PROVE  Spec => TerminationKept
<1> DEFINE A == \A c \in Containers :
                   kvs # NoPod /\ kvs.status[c].terminated /\ kvs' # NoPod
                   /\ kvs'.running = kvs.running => kvs'.status[c].terminated
<1>1. Timing # "free"
  OBVIOUS
<1>2. Init => Single /\ EndsKept
  <2> SUFFICES ASSUME Init PROVE Single /\ EndsKept
    OBVIOUS
  <2>1. \A p \in Procs : proc[p].pc = "idle"
    BY DEF Init, Idle
  <2> QED
    BY <2>1, GoroutineSets
       DEF Single, UsersTurn, HoldersDeal, HoldersAlone, DealsFresh, EndsKept, AtWork, HasCopyPCs, UpdatePCs
<1>3. Coherent /\ Coherent' /\ Placed /\ Placed' /\ Single /\ EndsKept /\ [Next]_vars
          => Single' /\ EndsKept'
  BY SingleStep, EndsKeptStep
<1>4. Coherent /\ Placed /\ Single /\ EndsKept /\ [Next]_vars => [A]_vars
  <2> SUFFICES ASSUME Coherent, Placed, EndsKept, [Next]_vars, NEW c \in Containers,
                      kvs # NoPod, kvs.status[c].terminated, kvs' # NoPod,
                      kvs'.running = kvs.running
               PROVE  kvs'.status[c].terminated
    OBVIOUS
  <2>1. CASE kvs' = kvs
    BY <2>1
  <2>2. ASSUME NEW p \in Procs, UpdateSet(p) PROVE kvs'.status[c].terminated
    BY <2>2 DEF UpdateSet, At, EndsKept, HasCopyPCs, UpdatePCs
  <2>3. ASSUME NEW u \in Users, Create(u) PROVE FALSE
    BY <2>3, RecordCopy DEF Create, Placed, NotCreated
  <2> QED
    BY <2>1, <2>2, <2>3, RecordChanges DEF CleanupClears, DealRemove
<1> HIDE DEF A
<1>5. Spec => [][A]_vars
  BY <1>1, <1>2, <1>3, <1>4, PlacedAlways, PTL DEF Spec
<1> QED
  BY <1>5, PTL DEF TerminationKept, A

-----------------------------------------------------------------------------
(* Handovers are kept *)

(* What is to be written knows every end on an earlier node that is recorded. *)
LastsKept ==
    \A p \in Procs : proc[p].pc \in HasCopyPCs /\ kvs # NoPod =>
        \A c \in Containers : kvs.status[c].last => proc[p].pod.status[c].last

LEMMA NewStatusLasts ==
    ASSUME Coherent, NEW p \in Reconcilers, proc[p].pc = "info", NEW c \in Containers
    PROVE  NewStatus(p)[c].last = proc[p].pod.status[c].last
<1> DEFINE s == proc[p].pod.status[c]
           k == cri[NodeOf[p]].box[c]
<1>1. s \in ContainerStatus /\ k \in Container
  BY OwnCopy, GoroutineSets DEF HasCopyPCs, Pod, Coherent, TypeOK, Runtime
<1>2. NewStatus(p)[c] \in {Observed(s, k), Missing(s)}
  BY DEF NewStatus
<1>3. Missing(s).last = s.last
  BY <1>1 DEF Missing, ContainerStatus
<1> DEFINE t == Adopted(s, k)
<1>4. t \in ContainerStatus /\ t.last = s.last
  BY <1>1 DEF Adopted, ContainerStatus, Container
<1> HIDE DEF s, k, t
<1>5. Observed(s, k).last = s.last
  BY <1>4 DEF Observed, ContainerStatus, t
<1> QED
  BY <1>2, <1>3, <1>5 DEF s, k

(* The copies that goroutines get know the ends on earlier nodes that the   *)
(* record knows, and those that they change keep them.                      *)
KeepsLasts(pod) ==
    \A c \in Containers : kvs.status[c].last => pod.status[c].last

LEMMA UserKeepsLasts ==
    ASSUME Coherent, Coherent', Placed', NEW u \in Users, UserStep(u), [Next]_vars,
           kvs \in Pod, kvs' = kvs, proc'[u] # proc[u], proc'[u].pc \in HasCopyPCs, LastsKept
    PROVE  KeepsLasts(proc'[u].pod)
<1> USE GoroutineSets
<1>1. proc'[u].pc \in UpdatePCs
  BY DEF Placed, UsersUpdate
<1>2. CASE UpdateCheck(u) /\ proc'[u].pod = proc[u].pod
  BY <1>2, NoPodAssumption DEF LastsKept, KeepsLasts, UpdateCheck, At, HasCopyPCs, UpdatePCs
<1>3. CASE DeleteMarks(u) \/ \E n \in Nodes : Migrate(u, n)
  <2>1. proc'[u].pc = "check"
    BY <1>1, <1>3, UserGoes DEF UpdatePCs, UpdateCheck, DeleteMarks, Migrate, At
  <2>2. proc'[u].pod.status = kvs.status
    <3>1. CASE DeleteMarks(u)
      <4>1. proc'[u].pod = [kvs EXCEPT !.deleted = TRUE]
        BY <2>1, <3>1, CallUpdatePod DEF DeleteMarks
      <4> QED
        BY <4>1 DEF Pod
    <3>2. ASSUME NEW n \in Nodes, Migrate(u, n) PROVE proc'[u].pod.status = kvs.status
      <4>1. proc'[u].pod = IF kvs.running = NoNode
                           THEN [kvs EXCEPT !.target = n, !.running = n]
                           ELSE [kvs EXCEPT !.target = n]
        BY <2>1, <3>2, CallUpdatePod DEF Migrate
      <4> QED
        BY <4>1 DEF Pod
    <3> QED
      BY <1>3, <3>1, <3>2
  <2> QED
    BY <2>2 DEF KeepsLasts
<1> QED
  BY <1>1, <1>2, <1>3, WriterGoes

LEMMA HolderKeepsLasts ==
    ASSUME Coherent, Placed, DealsFresh, NEW h \in Holders, HolderStep(h), [Next]_vars,
           kvs \in Pod, kvs' = kvs, proc'[h] # proc[h], proc'[h].pc \in HasCopyPCs, LastsKept
    PROVE  KeepsLasts(proc'[h].pod)
<1> USE GoroutineSets, NoPodAssumption
<1>1. CASE proc'[h].pc = "deal"
  <2>1. Tick(h)
    BY <1>1, HolderGoes
  <2>2. proc'[h].pod = kvs
    BY <2>1 DEF Tick, Idle, Coherent, TypeOK
  <2> QED
    BY <2>2 DEF KeepsLasts
<1>2. CASE UpdateCheck(h) /\ proc'[h].pod = proc[h].pod
  BY <1>2 DEF LastsKept, KeepsLasts, UpdateCheck, At, HasCopyPCs, UpdatePCs
<1>3. CASE DealSchedule(h) \/ DealHandover(h) \/ DealTimeout(h)
  <2>1. proc[h].pc = "deal" /\ proc[h].pod = kvs
    BY <1>3 DEF DealSchedule, DealHandover, DealTimeout, At, DealsFresh
  <2>2. proc'[h].pc # "deal" => proc'[h].pc = "check"
    BY <2>1, HolderGoes DEF UpdateCheck, At, AtWork, UpdatePCs
  <2>3. CASE proc'[h].pc = "check"
    <3>1. CASE DealSchedule(h)
      <4>1. proc'[h].pod = [kvs EXCEPT !.target = Creator, !.running = Creator]
        BY <2>1, <2>3, <3>1, CallUpdatePod DEF DealSchedule
      <4> QED
        BY <4>1 DEF KeepsLasts, Pod
    <3>2. CASE DealHandover(h)
      <4>1. proc'[h].pod = Handover(kvs)
        BY <2>1, <2>3, <3>2, CallUpdatePod DEF DealHandover
      <4>2. \A c \in Containers : kvs.status[c].last => Handover(kvs).status[c].last
        BY DEF Handover, ResetStatus, EmptyStatus, Pod, ContainerStatus
      <4> QED
        BY <4>1, <4>2 DEF KeepsLasts
    <3>3. CASE DealTimeout(h)
      <4>1. proc'[h].pod = MarkUnknown(kvs)
        BY <2>1, <2>3, <3>3, CallUpdatePod DEF DealTimeout
      <4>2. \A c \in Containers : MarkUnknown(kvs).status[c].last = kvs.status[c].last
        BY DEF MarkUnknown, Pod, ContainerStatus
      <4> QED
        BY <4>1, <4>2 DEF KeepsLasts
    <3> QED
      BY <1>3, <3>1, <3>2, <3>3
  <2> QED
    BY <1>1, <2>2, <2>3
<1> QED
  BY <1>1, <1>2, <1>3, HolderGoes, WriterGoes DEF AtWork

LEMMA ReconcilerKeepsLasts ==
    ASSUME Coherent, Coherent', Placed, NEW p \in Reconcilers, ReconcileStep(p), [Next]_vars,
           kvs \in Pod, kvs' = kvs, proc'[p] # proc[p], proc'[p].pc \in HasCopyPCs, LastsKept
    PROVE  KeepsLasts(proc'[p].pod)
<1> USE GoroutineSets, NoPodAssumption
<1>1. p \in Procs /\ proc \in [Procs -> Process] /\ proc[p] \in Process /\ Busy(p)' /\ kvs \in Copies
  BY RecordCopy DEF Coherent, TypeOK, Busy, HasCopyPCs, UpdatePCs
<1>2. ASSUME proc[p].pc \in HasCopyPCs PROVE KeepsLasts(proc[p].pod)
  BY <1>2 DEF LastsKept, KeepsLasts
<1>3. CASE ReconcileRun(p) \/ ReconcileTerminate(p)
  <2>1. proc'[p].pod = kvs
    BY <1>1, <1>3
       DEF ReconcileRun, ReconcileTerminate, Fail, Idle, HasCopyPCs, UpdatePCs
  <2> QED
    BY <2>1 DEF KeepsLasts
<1>4. CASE PullImages(p) \/ StartDone(p) \/ TeardownDone(p) \/ (UpdateCheck(p) /\ proc'[p].pc = "set")
  <2>1. proc'[p].pod = proc[p].pod /\ proc[p].pc \in HasCopyPCs
    BY <1>1, <1>4
       DEF PullImages, StartDone, TeardownDone, UpdateCheck, Return, Fail, Finished, Goto, At, Process, Idle,
           HasCopyPCs, UpdatePCs
  <2> QED
    BY <1>2, <2>1
<1>5. ASSUME NEW c \in Containers, Teardown(p, c) \/ CreateFails(p, c) PROVE KeepsLasts(proc'[p].pod)
  <2>1. proc'[p].pod = proc[p].pod /\ proc[p].pc \in HasCopyPCs
    BY <1>1, <1>5 DEF Teardown, CreateFails, At, Process, HasCopyPCs
  <2> QED
    BY <1>2, <2>1
<1>6. ASSUME NEW c \in Containers, StartContainer(p, c) \/ StartFails(p, c) \/ FindContainer(p, c)
      PROVE  KeepsLasts(proc'[p].pod)
  <2>1. proc[p].pc = "start" /\ c \in proc[p].todo /\ proc[p].pod \in Pod
    BY <1>1, <1>6, OwnCopy DEF StartContainer, StartFails, FindContainer, At, HasCopyPCs
  <2>2. proc[p].pod.status[c] \in ContainerStatus
    BY <2>1 DEF Pod
  <2>3. PICK s : /\ proc' = [proc EXCEPT ![p] = Noted(proc[p], c, s)]
                 /\ s.last = proc[p].pod.status[c].last
    <3>1. \A id : /\ Filled(proc[p].pod.status[c], id).last = proc[p].pod.status[c].last
                  /\ Listed(proc[p].pod.status[c], id).last = proc[p].pod.status[c].last
      BY <2>2 DEF Filled, Listed, ContainerStatus
    <3>2. \A started : Found(proc[p].pod.status[c], started).last = proc[p].pod.status[c].last
      BY <2>2, <3>1 DEF Found, ContainerStatus
    <3> QED
      BY <1>1, <1>6, <3>1, <3>2 DEF StartContainer, StartFails, FindContainer
  <2>4. \A d \in Containers : proc'[p].pod.status[d].last = proc[p].pod.status[d].last
    <3>1. proc'[p] = Noted(proc[p], c, s)
      BY <1>1, <2>3
    <3>2. Noted(proc[p], c, s).pod = [proc[p].pod EXCEPT !.status[c] = s]
      BY <1>1 DEF Noted, Process
    <3> QED
      BY <2>1, <2>3, <3>1, <3>2 DEF Pod
  <2>5. KeepsLasts(proc[p].pod)
    BY <1>2, <2>1 DEF HasCopyPCs
  <2> QED
    BY <2>4, <2>5 DEF KeepsLasts
<1>7. CASE UpdateInfo(p) /\ proc'[p].pc = "check"
  <2>1. proc[p].pc = "info" /\ proc[p].pod \in Pod
    BY <1>1, <1>7, OwnCopy DEF UpdateInfo, At, HasCopyPCs
  <2>2. proc'[p].pod = [proc[p].pod EXCEPT !.status = NewStatus(p)]
    <3> DEFINE x == [proc[p].pod EXCEPT !.status = NewStatus(p)]
    <3>1. \E then : CallUpdate(p, x, then)
      BY <1>7 DEF UpdateInfo
    <3> HIDE DEF x
    <3>2. proc'[p].pod = x
      BY <1>1, <1>7, <3>1, CallUpdatePod
    <3> QED
      BY <3>2 DEF x
  <2>3. \A c \in Containers : proc[p].pod.status[c].last => NewStatus(p)[c].last
    BY <2>1, NewStatusLasts
  <2>4. KeepsLasts(proc[p].pod)
    BY <1>2, <2>1 DEF HasCopyPCs
  <2>5. proc'[p].pod.running = proc[p].pod.running /\ proc'[p].pod.status = NewStatus(p)
    BY <2>1, <2>2 DEF Pod
  <2> QED
    BY <2>3, <2>4, <2>5 DEF KeepsLasts
<1> QED
  BY <1>1, <1>3, <1>4, <1>5, <1>6, <1>7, ReconcilerGoes DEF HasCopyPCs, UpdatePCs

LEMMA LastsKeptStep ==
    ASSUME Timing = "turns", MaxFaults = 0, Coherent, Coherent', Placed, Placed', Single, Single',
           LastsKept, [Next]_vars
    PROVE  LastsKept'
<1> USE GoroutineSets
<1> SUFFICES ASSUME NEW p \in Procs, proc'[p].pc \in HasCopyPCs, kvs' # NoPod, NEW c \in Containers,
                    kvs'.status[c].last
             PROVE  proc'[p].pod.status[c].last
  BY DEF LastsKept
<1>1. CASE kvs' # kvs
  <2>1. ASSUME NEW u \in Users, Create(u) PROVE FALSE
    BY <2>1, NothingYet DEF Create
  <2>2. ASSUME NEW q \in Procs, UpdateSet(q), UserStep(q) \/ HolderStep(q) \/ ReconcileStep(q) PROVE FALSE
    <3>1. proc[q].pc \in HasCopyPCs /\ proc[q] \in Process /\ proc \in [Procs -> Process]
      BY <2>2 DEF UpdateSet, At, HasCopyPCs, UpdatePCs, Coherent, TypeOK
    <3>2. q # p
      <4>1. proc'[q].pc = proc[q].then
        BY <2>2, <3>1 DEF UpdateSet, Finished, Idle
      <4> QED
        BY <3>1, <4>1 DEF Process, Afters, HasCopyPCs, UpdatePCs
    <3>3. proc'[p] \in {proc[p], Idle}
      BY <2>2, <3>2, OthersStay
    <3>4. proc[p].pc \in HasCopyPCs
      BY <3>3 DEF Idle, HasCopyPCs, UpdatePCs
    <3> QED
      BY <3>1, <3>2, <3>4, OneCopy DEF Single
  <2> QED
    BY <1>1, <2>1, <2>2, RecordChanges DEF CleanupClears, DealRemove
<1>2. CASE kvs' = kvs /\ proc'[p] = proc[p]
  BY <1>2 DEF LastsKept
<1>3. CASE kvs' = kvs /\ proc'[p] # proc[p]
  <2>1. kvs \in Pod
    BY <1>3, RecordFacts
  <2>2. \/ p \in Users /\ UserStep(p)
        \/ p \in Holders /\ HolderStep(p)
        \/ p \in Reconcilers /\ ReconcileStep(p)
    BY <1>3, OtherSteps DEF Idle, HasCopyPCs, UpdatePCs
  <2>3. KeepsLasts(proc'[p].pod)
    BY <1>3, <2>1, <2>2, UserKeepsLasts, HolderKeepsLasts, ReconcilerKeepsLasts DEF Single
  <2> QED
    BY <1>3, <2>3 DEF KeepsLasts
<1> QED
  BY <1>1, <1>2, <1>3

(* When the users take turns with the holders and no call fails, no update  *)
(* of the record takes back or forgets a handover: the end of a container   *)
(* on an earlier node stays recorded.                                       *)
THEOREM HandoversAreKept ==
    ASSUME Timing = "turns", MaxFaults = 0
    PROVE  Spec => HandoverKept
<1> DEFINE A == \A c \in Containers :
                   kvs # NoPod /\ kvs.status[c].last /\ kvs' # NoPod => kvs'.status[c].last
<1>1. Timing # "free"
  OBVIOUS
<1>2. Init => Single /\ LastsKept
  <2> SUFFICES ASSUME Init PROVE Single /\ LastsKept
    OBVIOUS
  <2>1. \A p \in Procs : proc[p].pc = "idle"
    BY DEF Init, Idle
  <2> QED
    BY <2>1, GoroutineSets
       DEF Single, UsersTurn, HoldersDeal, HoldersAlone, DealsFresh, LastsKept, AtWork, HasCopyPCs, UpdatePCs
<1>3. Coherent /\ Coherent' /\ Placed /\ Placed' /\ Single /\ LastsKept /\ [Next]_vars
          => Single' /\ LastsKept'
  BY SingleStep, LastsKeptStep
<1>4. Coherent /\ Placed /\ Single /\ LastsKept /\ [Next]_vars => [A]_vars
  <2> SUFFICES ASSUME Coherent, Placed, LastsKept, [Next]_vars, NEW c \in Containers,
                      kvs # NoPod, kvs.status[c].last, kvs' # NoPod
               PROVE  kvs'.status[c].last
    OBVIOUS
  <2>1. CASE kvs' = kvs
    BY <2>1
  <2>2. ASSUME NEW p \in Procs, UpdateSet(p) PROVE kvs'.status[c].last
    BY <2>2 DEF UpdateSet, At, LastsKept, HasCopyPCs, UpdatePCs
  <2>3. ASSUME NEW u \in Users, Create(u) PROVE FALSE
    BY <2>3, RecordCopy DEF Create, Placed, NotCreated
  <2> QED
    BY <2>1, <2>2, <2>3, RecordChanges DEF CleanupClears, DealRemove
<1> HIDE DEF A
<1>5. Spec => [][A]_vars
  BY <1>1, <1>2, <1>3, <1>4, PlacedAlways, PTL DEF Spec
<1> QED
  BY <1>5, PTL DEF HandoverKept, A
=============================================================================
