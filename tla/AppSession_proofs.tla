-------------------------- MODULE AppSession_proofs --------------------------
(***************************************************************************)
(* Proofs about AppSession for any set of containers and any bounds: an    *)
(* app is initialized only on the first node of its pod, and its state     *)
(* reaches the next node, as InitializedFirst and StateCarried say.        *)
(***************************************************************************)
EXTENDS AppSession, TLAPS

(* The inductive invariant *)

(* No app is being loaded, started or set up in the container. *)
Quiet(c) == ready[c].pc = "none" /\ app[c].phase \notin {"loading", "starting"}

(* The pod does not start apps any more. *)
Ending == pod = NoPod \/ MustTerminate(pod)

(* While a reconcile runs nobody else writes the record: its copy differs   *)
(* only in the containers that it has started.                              *)
CopyInv ==
    /\ rec.pc \in {"start", "teardown", "update"} =>
          /\ pod # NoPod /\ rec.copy # NoPod
          /\ rec.copy.deleted = pod.deleted /\ rec.copy.moving = pod.moving
          /\ \A c \in Containers : rec.copy.status[c].last = pod.status[c].last
    /\ rec.pc = "start" => ~ MustTerminate(pod)
    /\ rec.pc = "teardown" => rec.copy = pod
    /\ rec.pc \in {"teardown", "stuck", "panicked"} => pod # NoPod /\ MustTerminate(pod)

(* The record, or the reconcile's copy of it, has the ids of the apps. *)
KnownId(c) ==
    IF rec.pc \in {"start", "update"} THEN rec.copy.status[c].id ELSE pod.status[c].id

IdKnown(c) == pod # NoPod /\ app[c].phase # "none" => app[c].id = KnownId(c)

(* The ready handler's goroutine belongs to an app, which is set up or ends *)
(* by it.                                                                   *)
ReadyInv(c) ==
    /\ ready[c].pc # "none" => app[c].phase # "none"
    /\ app[c].phase = "serving" /\ ready[c].pc = "none" => app[c].setUp
    /\ ready[c].pc = "pod" => ready[c].initialize

NoHaste == used["hastes"] = 0

Clean == NoHaste /\ used["faults"] = 0

(* Without haste, apps are started and set up only while the pod stays, and *)
(* the goroutine has seen the record of its own app.                        *)
TimelyInv(c) ==
    /\ Ending => Quiet(c)
    /\ pod # NoPod /\ ready[c].pc \in {"record", "setup"} =>
          (ready[c].initialize <=> ~ pod.status[c].last)
    /\ ready[c].pc = "record" => ~ ready[c].initialize

(* Where the state of an app is that was torn down to move. *)
Stored(c) ==
    IF rec.pc = "teardown" THEN rec.entries[c] = kept[c]
    ELSE saved # NoRecord /\ saved[c] = kept[c]

(* Unless the pod is deleted or its reconcile has missed an app, the state  *)
(* is kept for the next app, which is not the first one and is set up with  *)
(* it.                                                                      *)
StateKept(c) ==
    kept[c] # NoData =>
        /\ pod # NoPod /\ ~ pod.deleted /\ ~ Missed => Stored(c)
        /\ pod # NoPod => pod.status[c].last \/ MustTerminate(pod)
        /\ ready[c].pc = "setup" => ready[c].record = kept[c]
        /\ app[c].setUp => app[c].data >= kept[c]

IInv ==
    /\ TypeOK /\ CopyInv
    /\ \A c \in Containers : IdKnown(c) /\ ReadyInv(c)
    /\ NoHaste => \A c \in Containers : TimelyInv(c)
    /\ Clean => \A c \in Containers : StateKept(c)

-----------------------------------------------------------------------------
(* Facts about values *)

LEMMA ConstantFacts ==
    /\ MaxData \in Nat /\ MaxMoves \in Nat /\ MaxDeletes \in Nat
    /\ MaxMishaps \in Nat /\ MaxIds \in Nat
    /\ NoData \notin Nat /\ NoPod \notin Pod /\ NoRecord \notin Entries
BY AppSessionAssumption, NoneAssumption DEF AppSessionAssumption, NoneAssumption

LEMMA ValueFacts ==
    /\ NoApp \in App /\ NotReady \in Ready /\ NoEntries \in Entries
    /\ Data \subseteq Nat /\ 0 \in Data /\ NoData \notin Data
    /\ NoApp.id = NoId /\ NoApp.phase = "none" /\ ~ NoApp.setUp
    /\ NotReady.pc = "none"
BY ConstantFacts
   DEF NoApp, NotReady, NoEntries, App, Ready, Entries, Data, Phases, NoId

LEMMA RestingFacts ==
    /\ Resting \in [pc : PCs, copy : Pod \cup {NoPod}, todo : SUBSET Containers,
                    entries : Entries]
    /\ Resting.pc = "idle" /\ Resting.copy = NoPod
BY ValueFacts DEF Resting, PCs

(* A step that counts neither hastes nor faults comes after none of them.   *)
Counts ==
    /\ used' \in [Counters -> Nat]
    /\ NoHaste' => NoHaste
    /\ Clean' => Clean

LEMMA SpendFacts ==
    ASSUME used \in [Counters -> Nat], NEW E, Spend(E)
    PROVE  /\ Counts
           /\ NoHaste' => "hastes" \notin E
           /\ Clean' => "faults" \notin E
<1>1. "hastes" \in Counters /\ "faults" \in Counters
  BY DEF Counters, Mishaps
<1>2. used' = [x \in Counters |-> IF x \in E THEN used[x] + 1 ELSE used[x]]
  BY DEF Spend
<1>3. used' \in [Counters -> Nat]
  BY <1>2
<1>4. \A x \in Counters : used'[x] = 0 => used[x] = 0 /\ x \notin E
  BY <1>2
<1> QED
  BY <1>1, <1>3, <1>4 DEF Counts, NoHaste, Clean

LEMMA UnspentFacts ==
    ASSUME used \in [Counters -> Nat], UNCHANGED used
    PROVE  Counts
BY DEF Counts, NoHaste, Clean

LEMMA HastyFacts ==
    ASSUME "hastes" \notin Hasty, NEW c \in Containers
    PROVE  Quiet(c)
BY DEF Hasty, Settled, Quiet

(* A pod has the fields of a pod. *)
LEMMA PodFacts ==
    ASSUME NEW p \in Pod \cup {NoPod}, p # NoPod
    PROVE  /\ p \in Pod /\ p.deleted \in BOOLEAN /\ p.moving \in BOOLEAN
           /\ p.status \in [Containers -> Status]
           /\ \A c \in Containers :
                 /\ p.status[c] \in Status /\ p.status[c].id \in Nat
                 /\ p.status[c].last \in BOOLEAN /\ p.status[c].terminated \in BOOLEAN
BY DEF Pod, Status

-----------------------------------------------------------------------------
(* Steps of an app *)

(* What a step of the app of c has to establish, that leaves the others and *)
(* the record alone                                                         *)
OfApp(c) ==
    /\ \E a \in App : app' = [app EXCEPT ![c] = a]
    /\ \E r \in Ready : ready' = [ready EXCEPT ![c] = r]
    /\ Counts
    /\ UNCHANGED <<pod, saved, drivers, rec, nextId, kept>>

LEMMA OthersKept ==
    ASSUME TypeOK, NEW c \in Containers, OfApp(c)
    PROVE  /\ app' \in [Containers -> App] /\ ready' \in [Containers -> Ready]
           /\ \A d \in Containers \ {c} : app'[d] = app[d] /\ ready'[d] = ready[d]
BY DEF OfApp, TypeOK

LEMMA AppKeeps ==
    ASSUME IInv, NEW c \in Containers, OfApp(c),
           app[c].phase # "none", app'[c].id = app[c].id,
           ReadyInv(c)',
           NoHaste' => TimelyInv(c)',
           Clean' => StateKept(c)'
    PROVE  IInv'
<1>1. TypeOK'
  BY OthersKept DEF IInv, TypeOK, OfApp, Counts
<1>2. CopyInv'
  BY DEF IInv, CopyInv, OfApp, MustTerminate
<1>3. ASSUME NEW d \in Containers
      PROVE  IdKnown(d)'
  <2>1. CASE d = c
    BY <2>1 DEF IInv, OfApp, IdKnown, KnownId
  <2>2. CASE d # c
    BY <2>2, OthersKept DEF IInv, OfApp, IdKnown, KnownId
  <2> QED
    BY <2>1, <2>2
<1>4. ASSUME NEW d \in Containers
      PROVE  ReadyInv(d)'
  <2>1. CASE d # c
    BY <2>1, OthersKept DEF IInv, ReadyInv
  <2> QED
    BY <2>1
<1>5. ASSUME NoHaste', NEW d \in Containers
      PROVE  TimelyInv(d)'
  <2>1. CASE d # c
    <3>1. NoHaste /\ TimelyInv(d)
      BY <1>5 DEF IInv, OfApp, Counts
    <3>2. app'[d] = app[d] /\ ready'[d] = ready[d] /\ pod' = pod
      BY <2>1, OthersKept DEF IInv, OfApp
    <3> QED
      BY <3>1, <3>2 DEF TimelyInv, Quiet, Ending, MustTerminate
  <2> QED
    BY <1>5, <2>1
<1>6. ASSUME Clean', NEW d \in Containers
      PROVE  StateKept(d)'
  <2>1. CASE d # c
    <3>1. Clean /\ StateKept(d)
      BY <1>6 DEF IInv, OfApp, Counts
    <3>2. /\ app'[d] = app[d] /\ ready'[d] = ready[d]
          /\ pod' = pod /\ rec' = rec /\ saved' = saved /\ kept' = kept
      BY <2>1, OthersKept DEF IInv, OfApp
    <3> QED
      BY <3>1, <3>2 DEF StateKept, Stored, Missed, MustTerminate
  <2> QED
    BY <1>6, <2>1
<1> QED
  BY <1>1, <1>2, <1>3, <1>4, <1>5, <1>6 DEF IInv

(* What is known of the app and the record when no call came early *)
LEMMA NotEnding ==
    ASSUME IInv, NoHaste, NEW c \in Containers,
           ready[c].pc # "none" \/ app[c].phase \in {"loading", "starting"}
    PROVE  /\ ~ Ending /\ pod # NoPod /\ ~ MustTerminate(pod) /\ ~ Missed
           /\ rec.pc # "teardown"
BY DEF IInv, TimelyInv, Quiet, Ending, CopyInv, Missed

LEMMA AppTypes ==
    ASSUME IInv, NEW c \in Containers
    PROVE  /\ app \in [Containers -> App] /\ ready \in [Containers -> Ready]
           /\ used \in [Counters -> Nat]
           /\ app[c] \in App /\ app[c].id \in Nat /\ app[c].phase \in Phases
           /\ app[c].stopping \in BOOLEAN /\ app[c].setUp \in BOOLEAN
           /\ app[c].data \in Data /\ app[c].data \in Nat
           /\ ready[c] \in Ready /\ ready[c].initialize \in BOOLEAN
           /\ ready[c].record \in Data \cup {NoData}
BY ValueFacts DEF IInv, TypeOK, App, Ready

(* Only the phase of the app changes. *)
LEMMA PhaseKeeps ==
    ASSUME IInv, NEW c \in Containers, NEW p \in Phases \ {"none"}, NEW s \in BOOLEAN,
           app[c].phase # "none",
           app' = [app EXCEPT ![c].phase = p, ![c].stopping = s],
           p = "serving" => app[c].phase = "serving",
           p \in {"loading", "starting"} => app[c].phase = "loading",
           \/ ready' = ready
           \/ ready' = [ready EXCEPT ![c] = NotReady] /\ p # "serving",
           Counts,
           UNCHANGED <<pod, saved, drivers, rec, nextId, kept>>
    PROVE  IInv'
<1> DEFINE a == [app[c] EXCEPT !.phase = p, !.stopping = s]
<1>1. /\ a \in App /\ a.id = app[c].id /\ a.phase = p /\ a.setUp = app[c].setUp
      /\ a.data = app[c].data
  BY AppTypes DEF App
<1>2. app' = [app EXCEPT ![c] = a] /\ app'[c] = a
  BY AppTypes
<1>3. PICK r \in Ready : /\ ready' = [ready EXCEPT ![c] = r] /\ ready'[c] = r
                         /\ r = ready[c] \/ (r = NotReady /\ p # "serving")
  <2>1. CASE ready' = ready
    BY <2>1, AppTypes
  <2>2. CASE ready' = [ready EXCEPT ![c] = NotReady] /\ p # "serving"
    BY <2>2, AppTypes, ValueFacts
  <2> QED
    BY <2>1, <2>2
<1> HIDE DEF a
<1>4. OfApp(c)
  BY <1>1, <1>2, <1>3 DEF OfApp
<1>5. ReadyInv(c)'
  BY <1>1, <1>2, <1>3, ValueFacts DEF IInv, ReadyInv
<1>6. ASSUME NoHaste'
      PROVE  TimelyInv(c)'
  <2>1. TimelyInv(c)
    BY <1>6 DEF IInv, Counts
  <2>2. Ending' <=> Ending
    BY DEF Ending, MustTerminate
  <2>3. Quiet(c) => Quiet(c)'
    BY <1>1, <1>2, <1>3, ValueFacts DEF Quiet
  <2> QED
    BY <2>1, <2>2, <2>3, <1>3, ValueFacts DEF TimelyInv
<1>7. ASSUME Clean'
      PROVE  StateKept(c)'
  <2>1. StateKept(c)
    BY <1>7 DEF IInv, Counts
  <2> QED
    BY <2>1, <1>1, <1>2, <1>3, ValueFacts DEF StateKept, Stored, Missed, MustTerminate
<1> QED
  BY <1>1, <1>2, <1>4, <1>5, <1>6, <1>7, AppKeeps

LEMMA LoadKeeps ==
    ASSUME IInv, NEW c \in Containers, Load(c)
    PROVE  IInv'
<1>1. app' = [app EXCEPT ![c].phase = "starting", ![c].stopping = app[c].stopping]
  BY AppTypes DEF Load, App
<1>2. Counts
  BY AppTypes, UnspentFacts DEF Load
<1>3. app[c].phase = "loading" /\ UNCHANGED <<pod, saved, ready, drivers, rec, nextId, kept>>
  BY DEF Load
<1>4. "starting" \in Phases \ {"none"} /\ app[c].stopping \in BOOLEAN
  BY AppTypes DEF Phases
<1> QED
  BY <1>1, <1>2, <1>3, <1>4, PhaseKeeps

LEMMA StopsKeeps ==
    ASSUME IInv, NEW c \in Containers, Stops(c)
    PROVE  IInv'
<1>1. app' = [app EXCEPT ![c].phase = "exited", ![c].stopping = FALSE]
  BY AppTypes DEF Stops, App
<1>2. Counts
  BY AppTypes, UnspentFacts DEF Stops
<1>3. app[c].phase # "none" /\ UNCHANGED <<pod, saved, ready, drivers, rec, nextId, kept>>
  BY DEF Stops, Live
<1>4. "exited" \in Phases \ {"none"} /\ FALSE \in BOOLEAN
  BY AppTypes DEF Phases
<1> QED
  BY <1>1, <1>2, <1>3, <1>4, PhaseKeeps

LEMMA ExitsKeeps ==
    ASSUME IInv, NEW c \in Containers, Exits(c)
    PROVE  IInv'
<1>1. app' = [app EXCEPT ![c].phase = "exited", ![c].stopping = app[c].stopping]
  BY AppTypes DEF Exits, App
<1>2. Counts
  BY AppTypes, SpendFacts DEF Exits
<1>3. app[c].phase # "none" /\ UNCHANGED <<pod, saved, ready, drivers, rec, nextId, kept>>
  BY DEF Exits, Live
<1>4. "exited" \in Phases \ {"none"} /\ app[c].stopping \in BOOLEAN
  BY AppTypes DEF Phases
<1> QED
  BY <1>1, <1>2, <1>3, <1>4, PhaseKeeps

LEMMA CleanUpKeeps ==
    ASSUME IInv, NEW c \in Containers, CleanUp(c)
    PROVE  IInv'
<1>1. app' = [app EXCEPT ![c].phase = "gone", ![c].stopping = app[c].stopping]
  BY AppTypes DEF CleanUp, App
<1>2. Counts
  BY AppTypes, UnspentFacts DEF CleanUp
<1>3. app[c].phase # "none" /\ UNCHANGED <<pod, saved, ready, drivers, rec, nextId, kept>>
  BY DEF CleanUp, Live
<1>4. "gone" \in Phases \ {"none"} /\ app[c].stopping \in BOOLEAN
  BY AppTypes DEF Phases
<1> QED
  BY <1>1, <1>2, <1>3, <1>4, PhaseKeeps

LEMMA RefusedKeeps ==
    ASSUME IInv, NEW c \in Containers, ready[c].pc # "none", Refused(c),
           Counts,
           UNCHANGED <<pod, saved, drivers, rec, nextId, kept>>
    PROVE  IInv'
<1> DEFINE p == IF Live(c) THEN "exited" ELSE app[c].phase
<1>1. app' = [app EXCEPT ![c].phase = p, ![c].stopping = app[c].stopping]
  BY AppTypes DEF Refused, App
<1>2. app[c].phase # "none"
  BY DEF IInv, ReadyInv
<1>3. p \in Phases \ {"none"} /\ p \notin {"loading", "starting", "serving"}
  BY <1>2, AppTypes DEF Live, Phases
<1> HIDE DEF p
<1> QED
  BY <1>1, <1>2, <1>3, AppTypes, PhaseKeeps DEF Refused

LEMMA RefusalsKeep ==
    ASSUME IInv, NEW c \in Containers, ReadyFails(c) \/ SetupFails(c)
    PROVE  IInv'
<1>1. Counts
  BY AppTypes, SpendFacts, UnspentFacts DEF ReadyFails, SetupFails
<1> QED
  BY <1>1, RefusedKeeps DEF ReadyFails, SetupFails

(* The goroutine of c changes, and of its app what it has been given. *)
LEMMA GoroutineKeeps ==
    ASSUME IInv, NEW c \in Containers, NEW a \in App, NEW r \in Ready,
           app[c].phase # "none",
           app' = [app EXCEPT ![c] = a], ready' = [ready EXCEPT ![c] = r],
           a.id = app[c].id, a.phase # "none",
           a.phase = "serving" /\ r.pc = "none" => a.setUp,
           r.pc = "pod" => r.initialize,
           Counts, UNCHANGED <<pod, saved, drivers, rec, nextId, kept>>,
           NoHaste' =>
              /\ ~ Ending \/ (r.pc = "none" /\ a.phase \notin {"loading", "starting"})
              /\ r.pc \in {"record", "setup"} => (r.initialize <=> ~ pod.status[c].last)
              /\ r.pc = "record" => ~ r.initialize,
           Clean' /\ kept[c] # NoData =>
              /\ r.pc = "setup" => r.record = kept[c]
              /\ a.setUp => a.data >= kept[c]
    PROVE  IInv'
<1>1. app'[c] = a /\ ready'[c] = r
  BY AppTypes
<1>2. OfApp(c)
  BY DEF OfApp
<1>3. ReadyInv(c)'
  BY <1>1 DEF ReadyInv
<1>4. ASSUME NoHaste'
      PROVE  TimelyInv(c)'
  <2>1. (Ending' <=> Ending) /\ pod' = pod
    BY DEF Ending, MustTerminate
  <2> QED
    BY <1>1, <1>4, <2>1 DEF TimelyInv, Quiet
<1>5. ASSUME Clean'
      PROVE  StateKept(c)'
  <2>1. StateKept(c)
    BY <1>5 DEF IInv, Counts
  <2> QED
    BY <2>1, <1>1, <1>5 DEF StateKept, Stored, Missed, MustTerminate
<1> QED
  BY <1>1, <1>2, <1>3, <1>4, <1>5, AppKeeps

LEMMA RunKeeps ==
    ASSUME IInv, NEW c \in Containers, Run(c)
    PROVE  IInv'
<1> DEFINE a == [app[c] EXCEPT !.phase = "serving"]
           r == [NotReady EXCEPT !.pc = "pod"]
<1>1. /\ a \in App /\ a.id = app[c].id /\ a.phase = "serving"
      /\ a.setUp = app[c].setUp /\ a.data = app[c].data
  BY AppTypes DEF App, Phases
<1>2. r \in Ready /\ r.pc = "pod" /\ r.initialize
  BY ValueFacts DEF NotReady, Ready
<1>3. app' = [app EXCEPT ![c] = a] /\ ready' = [ready EXCEPT ![c] = r]
  BY AppTypes DEF Run
<1>4. app[c].phase = "starting" /\ UNCHANGED <<pod, saved, drivers, rec, nextId, kept>>
  BY DEF Run
<1>5. Counts
  BY AppTypes, UnspentFacts DEF Run
<1>6. NoHaste' => ~ Ending
  BY <1>4, <1>5, NotEnding DEF Counts
<1>7. Clean' /\ kept[c] # NoData => (app[c].setUp => app[c].data >= kept[c])
  BY <1>5 DEF Counts, IInv, StateKept
<1> HIDE DEF a, r
<1> QED
  BY <1>1, <1>2, <1>3, <1>4, <1>5, <1>6, <1>7, GoroutineKeeps

LEMMA ReadyGetsPodKeeps ==
    ASSUME IInv, NEW c \in Containers, ReadyGetsPod(c)
    PROVE  IInv'
<1> DEFINE again == pod.status[c].id = app[c].id /\ pod.status[c].last
           r == IF again THEN [ready[c] EXCEPT !.pc = "record", !.initialize = FALSE]
                         ELSE [ready[c] EXCEPT !.pc = "setup"]
<1>1. /\ ready[c].pc = "pod" /\ pod # NoPod
      /\ UNCHANGED <<pod, saved, app, drivers, rec, nextId, kept>>
  BY DEF ReadyGetsPod
<1>2. app[c].phase # "none" /\ IdKnown(c)
  BY <1>1 DEF IInv, ReadyInv
<1>3. /\ r \in Ready
      /\ IF again THEN r.pc = "record" /\ ~ r.initialize
                  ELSE r.pc = "setup" /\ r.initialize = ready[c].initialize
  BY AppTypes DEF Ready
<1>4. ready' = [ready EXCEPT ![c] = r] /\ app' = [app EXCEPT ![c] = app[c]]
  BY <1>1, AppTypes DEF ReadyGetsPod
<1>5. Counts /\ (NoHaste' => "hastes" \notin Early)
  BY AppTypes, SpendFacts DEF ReadyGetsPod
<1>6. ASSUME NoHaste'
      PROVE  ~ Ending /\ ~ MustTerminate(pod) /\ (again <=> pod.status[c].last)
  <2>1. ~ Ending /\ ~ MustTerminate(pod)
    BY <1>1, <1>5, <1>6, NotEnding DEF Counts
  <2>2. KnownId(c) = pod.status[c].id
    BY <1>5, <1>6 DEF Early, KnownId
  <2> QED
    BY <1>1, <1>2, <2>1, <2>2 DEF IdKnown
<1>7. Clean' /\ kept[c] # NoData =>
        /\ pod.status[c].last \/ MustTerminate(pod)
        /\ app[c].setUp => app[c].data >= kept[c]
  BY <1>1, <1>5 DEF Counts, IInv, StateKept
<1>8. ready[c].initialize
  BY <1>1 DEF IInv, ReadyInv
<1>9. NoHaste' =>
        /\ ~ Ending
        /\ r.pc \in {"record", "setup"} => (r.initialize <=> ~ pod.status[c].last)
        /\ r.pc = "record" => ~ r.initialize
  BY <1>3, <1>6, <1>8
<1>10. Clean' /\ kept[c] # NoData =>
         /\ r.pc # "setup"
         /\ app[c].setUp => app[c].data >= kept[c]
  BY <1>3, <1>6, <1>7 DEF Clean
<1>11. r.pc # "none" /\ r.pc # "pod"
  BY <1>3
<1> HIDE DEF again, r
<1> QED
  BY <1>1, <1>2, <1>3, <1>4, <1>5, <1>9, <1>10, <1>11, AppTypes, GoroutineKeeps

LEMMA ReadyGetsRecordKeeps ==
    ASSUME IInv, NEW c \in Containers, ReadyGetsRecord(c)
    PROVE  IInv'
<1> DEFINE found == IF saved = NoRecord THEN NoData ELSE saved[c]
           r == [ready[c] EXCEPT !.pc = "setup", !.record = found]
<1>1. /\ ready[c].pc = "record"
      /\ UNCHANGED <<pod, saved, app, drivers, rec, nextId, kept>>
  BY DEF ReadyGetsRecord
<1>2. app[c].phase # "none"
  BY <1>1 DEF IInv, ReadyInv
<1>3. found \in Data \cup {NoData}
  BY DEF IInv, TypeOK, Entries
<1>4. /\ r \in Ready /\ r.pc = "setup" /\ r.record = found
      /\ r.initialize = ready[c].initialize
  BY <1>3, AppTypes DEF Ready
<1>5. ready' = [ready EXCEPT ![c] = r] /\ app' = [app EXCEPT ![c] = app[c]]
  BY <1>1, AppTypes DEF ReadyGetsRecord
<1>6. Counts
  BY AppTypes, UnspentFacts DEF ReadyGetsRecord
<1>7. ASSUME NoHaste'
      PROVE  ~ Ending /\ (ready[c].initialize <=> ~ pod.status[c].last)
  <2>1. NoHaste
    BY <1>6, <1>7 DEF Counts
  <2>2. ~ Ending /\ pod # NoPod
    BY <1>1, <2>1, NotEnding
  <2> QED
    BY <1>1, <2>1, <2>2 DEF IInv, TimelyInv
<1>8. ASSUME Clean', kept[c] # NoData
      PROVE  found = kept[c] /\ (app[c].setUp => app[c].data >= kept[c])
  <2>1. Clean /\ NoHaste
    BY <1>6, <1>8 DEF Counts, Clean
  <2>2. ~ MustTerminate(pod) /\ pod # NoPod /\ ~ Missed /\ rec.pc # "teardown"
    BY <1>1, <2>1, NotEnding
  <2>3. StateKept(c)
    BY <2>1 DEF IInv
  <2> QED
    BY <1>8, <2>2, <2>3 DEF StateKept, Stored, MustTerminate
<1> HIDE DEF found, r
<1> QED
  BY <1>1, <1>2, <1>4, <1>5, <1>6, <1>7, <1>8, AppTypes, GoroutineKeeps

LEMMA SetupKeeps ==
    ASSUME IInv, NEW c \in Containers, Setup(c)
    PROVE  IInv'
<1> DEFINE data == IF ready[c].record = NoData THEN 0 ELSE ready[c].record
           a == IF app[c].phase = "serving"
                THEN [app[c] EXCEPT !.setUp = TRUE, !.data = data]
                ELSE app[c]
<1>1. ready[c].pc = "setup" /\ UNCHANGED <<pod, saved, drivers, rec, nextId, kept>>
  BY DEF Setup
<1>2. app[c].phase # "none"
  BY <1>1 DEF IInv, ReadyInv
<1>3. data \in Data
  BY AppTypes, ValueFacts
<1>4. /\ a \in App /\ a.id = app[c].id /\ a.phase = app[c].phase
      /\ IF app[c].phase = "serving" THEN a.setUp /\ a.data = data ELSE a = app[c]
  BY <1>3, AppTypes DEF App
<1>5. app' = [app EXCEPT ![c] = a] /\ ready' = [ready EXCEPT ![c] = NotReady]
  <2>1. CASE app[c].phase = "serving"
    BY <2>1, AppTypes DEF Setup
  <2>2. CASE app[c].phase # "serving"
    BY <2>2, AppTypes DEF Setup
  <2> QED
    BY <2>1, <2>2
<1>6. Counts
  BY AppTypes, UnspentFacts DEF Setup
<1>7. ASSUME NoHaste'
      PROVE  ~ Ending
  BY <1>1, <1>6, <1>7, NotEnding DEF Counts
<1>8. ASSUME Clean', kept[c] # NoData
      PROVE  a.setUp => a.data >= kept[c]
  <2>1. Clean /\ StateKept(c)
    BY <1>6, <1>8 DEF Counts, IInv
  <2>2. ready[c].record = kept[c] /\ (app[c].setUp => app[c].data >= kept[c])
    BY <1>1, <1>8, <2>1 DEF StateKept
  <2>3. kept[c] \in Nat
    BY <1>8, <2>2, AppTypes, ValueFacts
  <2>4. data = kept[c]
    BY <1>8, <2>2
  <2> HIDE DEF data, a
  <2> QED
    BY <1>4, <2>2, <2>3, <2>4
<1>9. app[c].phase = "serving" => a.setUp
  BY <1>4
<1> HIDE DEF data, a
<1> QED
  BY <1>1, <1>2, <1>4, <1>5, <1>6, <1>7, <1>8, <1>9, ValueFacts, GoroutineKeeps

LEMMA WorksKeeps ==
    ASSUME IInv, NEW c \in Containers, Works(c)
    PROVE  IInv'
<1> DEFINE a == [app[c] EXCEPT !.data = @ + 1]
<1>1. app[c].phase = "serving" /\ app[c].data < MaxData
      /\ UNCHANGED <<pod, saved, ready, drivers, rec, nextId, kept>>
  BY DEF Works
<1>2. app[c].data + 1 \in Data
  BY <1>1, AppTypes, ConstantFacts DEF Data
<1>3. /\ a \in App /\ a.id = app[c].id /\ a.phase = "serving"
      /\ a.setUp = app[c].setUp /\ a.data = app[c].data + 1
  BY <1>1, <1>2, AppTypes DEF App
<1>4. app' = [app EXCEPT ![c] = a] /\ app'[c] = a /\ ready' = [ready EXCEPT ![c] = ready[c]]
  BY <1>1, AppTypes DEF Works
<1>5. Counts
  BY AppTypes, UnspentFacts DEF Works
<1> HIDE DEF a
<1>6. OfApp(c)
  BY <1>1, <1>3, <1>4, <1>5, AppTypes DEF OfApp
<1>7. ReadyInv(c)'
  BY <1>1, <1>3, <1>4 DEF IInv, ReadyInv
<1>8. ASSUME NoHaste'
      PROVE  TimelyInv(c)'
  <2>1. TimelyInv(c)
    BY <1>5, <1>8 DEF IInv, Counts
  <2> QED
    BY <1>1, <1>3, <1>4, <2>1 DEF TimelyInv, Quiet, Ending, MustTerminate
<1>9. ASSUME Clean'
      PROVE  StateKept(c)'
  <2>1. StateKept(c)
    BY <1>5, <1>9 DEF IInv, Counts
  <2>2. kept[c] # NoData => kept[c] \in Nat
    BY ValueFacts DEF IInv, TypeOK, Entries
  <2>3. kept[c] # NoData /\ a.setUp => a.data >= kept[c]
    BY <1>3, <2>1, <2>2, AppTypes DEF StateKept
  <2> QED
    BY <1>1, <1>4, <2>1, <2>3 DEF StateKept, Stored, Missed, MustTerminate
<1> QED
  BY <1>1, <1>3, <1>4, <1>6, <1>7, <1>8, <1>9, AppKeeps

LEMMA AppStepKeeps ==
    ASSUME IInv, NEW c \in Containers, AppStep(c)
    PROVE  IInv'
BY LoadKeeps, RunKeeps, ReadyGetsPodKeeps, ReadyGetsRecordKeeps, RefusalsKeep,
   SetupKeeps, WorksKeeps, StopsKeeps, ExitsKeeps, CleanUpKeeps
   DEF AppStep

-----------------------------------------------------------------------------
(* Steps of users and the holder: no reconcile is under way. *)

(* The pod is told to end: without haste, after what is under way. *)
LEMMA ToldToEnd ==
    ASSUME IInv, pod # NoPod, rec.pc = "idle", NEW E, Spend(E \cup Hasty),
           NEW p \in Pod, pod' = p, p.status = pod.status, MustTerminate(p),
           pod.deleted => p.deleted,
           UNCHANGED <<saved, app, ready, drivers, rec, nextId, kept>>
    PROVE  IInv'
<1>1. Counts /\ (NoHaste' => "hastes" \notin Hasty)
  BY SpendFacts DEF IInv, TypeOK
<1>2. TypeOK'
  BY <1>1 DEF IInv, TypeOK, Counts
<1>3. CopyInv'
  BY DEF CopyInv
<1>4. \A c \in Containers : IdKnown(c)' /\ ReadyInv(c)'
  BY DEF IInv, IdKnown, KnownId, ReadyInv
<1>5. ASSUME NoHaste', NEW c \in Containers
      PROVE  TimelyInv(c)'
  <2>1. Quiet(c) /\ TimelyInv(c)
    BY <1>1, <1>5, HastyFacts DEF IInv, Counts
  <2> QED
    BY <2>1 DEF Quiet, TimelyInv
<1>6. ASSUME Clean', NEW c \in Containers
      PROVE  StateKept(c)'
  <2>1. StateKept(c)
    BY <1>1, <1>6 DEF IInv, Counts
  <2> QED
    BY <2>1 DEF StateKept, Stored, Missed
<1> QED
  BY <1>2, <1>3, <1>4, <1>5, <1>6 DEF IInv

LEMMA MigrateKeeps ==
    ASSUME IInv, Migrate
    PROVE  IInv'
<1> DEFINE p == [pod EXCEPT !.moving = TRUE]
<1>1. pod \in Pod \cup {NoPod}
  BY DEF IInv, TypeOK
<1>2. p \in Pod /\ p.status = pod.status /\ p.deleted = pod.deleted /\ MustTerminate(p)
  BY <1>1 DEF Migrate, Pod, MustTerminate
<1> QED
  BY <1>2, ToldToEnd DEF Migrate

LEMMA DeleteKeeps ==
    ASSUME IInv, Delete
    PROVE  IInv'
<1> DEFINE p == [pod EXCEPT !.deleted = TRUE]
<1>1. pod \in Pod \cup {NoPod}
  BY DEF IInv, TypeOK
<1>2. p \in Pod /\ p.status = pod.status /\ p.deleted /\ MustTerminate(p)
  BY <1>1 DEF Delete, Pod, MustTerminate
<1> QED
  BY <1>2, ToldToEnd DEF Delete

LEMMA LeavesFacts ==
    ASSUME Leaves, NEW c \in Containers
    PROVE  /\ app' \in [Containers -> App] /\ ready' \in [Containers -> Ready]
           /\ app'[c].phase = "none" /\ ~ app'[c].setUp
           /\ ready'[c].pc = "none"
BY ValueFacts DEF Leaves

LEMMA HandoverKeeps ==
    ASSUME IInv, Handover
    PROVE  IInv'
<1>1. pod # NoPod /\ rec.pc = "idle" /\ pod.moving /\ ~ pod.deleted
  BY DEF Handover
<1>2. /\ pod' \in Pod /\ ~ pod'.deleted
      /\ \A c \in Containers : pod'.status[c].last
  <2>1. pod \in Pod
    BY <1>1 DEF IInv, TypeOK
  <2>2. pod' = [pod EXCEPT !.moving = FALSE,
           !.status = [c \in Containers |-> [id |-> NoId, last |-> TRUE, terminated |-> FALSE]]]
    BY DEF Handover
  <2> QED
    BY <1>1, <2>1, <2>2 DEF Pod, Status, NoId
<1>3. Leaves /\ drivers' = {} /\ UNCHANGED <<saved, rec, nextId, kept>>
  BY DEF Handover
<1>4. Counts
  BY SpendFacts DEF Handover, IInv, TypeOK
<1>5. TypeOK'
  <2>1. app' \in [Containers -> App] /\ ready' \in [Containers -> Ready]
    BY <1>3, ValueFacts DEF Leaves
  <2> QED
    BY <1>2, <1>3, <1>4, <2>1 DEF IInv, TypeOK, Counts
<1>6. CopyInv'
  BY <1>1, <1>3 DEF CopyInv
<1>7. ASSUME NEW c \in Containers
      PROVE  IdKnown(c)' /\ ReadyInv(c)' /\ TimelyInv(c)'
  BY <1>3, LeavesFacts DEF IdKnown, ReadyInv, TimelyInv, Quiet
<1>8. ASSUME Clean', NEW c \in Containers
      PROVE  StateKept(c)'
  <2>1. StateKept(c)
    BY <1>4, <1>8 DEF IInv, Counts
  <2> QED
    BY <1>1, <1>2, <1>3, <2>1, LeavesFacts DEF StateKept, Stored, Missed
<1> QED
  BY <1>5, <1>6, <1>7, <1>8 DEF IInv

LEMMA RemoveKeeps ==
    ASSUME IInv, Remove
    PROVE  IInv'
<1>1. /\ pod # NoPod /\ pod' = NoPod /\ rec.pc = "idle"
      /\ UNCHANGED <<saved, app, ready, drivers, rec, nextId, kept>>
  BY DEF Remove
<1>2. Counts /\ (NoHaste' => "hastes" \notin Hasty)
  BY SpendFacts DEF Remove, IInv, TypeOK
<1>3. TypeOK'
  BY <1>1, <1>2 DEF IInv, TypeOK, Counts
<1>4. CopyInv'
  BY <1>1 DEF CopyInv
<1>5. \A c \in Containers : IdKnown(c)' /\ ReadyInv(c)'
  BY <1>1 DEF IInv, IdKnown, ReadyInv
<1>6. ASSUME NoHaste', NEW c \in Containers
      PROVE  TimelyInv(c)'
  <2>1. Quiet(c)
    BY <1>2, <1>6, HastyFacts
  <2> QED
    BY <1>1, <2>1 DEF Quiet, TimelyInv
<1>7. ASSUME Clean', NEW c \in Containers
      PROVE  StateKept(c)'
  <2>1. StateKept(c)
    BY <1>2, <1>7 DEF IInv, Counts
  <2> QED
    BY <1>1, <2>1 DEF StateKept
<1> QED
  BY <1>3, <1>4, <1>5, <1>6, <1>7 DEF IInv

-----------------------------------------------------------------------------
(* Steps of a reconcile *)

Goroutine ==
    [pc : PCs, copy : Pod \cup {NoPod}, todo : SUBSET Containers, entries : Entries]

LEMMA RecTypes ==
    ASSUME IInv
    PROVE  /\ rec \in Goroutine /\ rec.pc \in PCs /\ rec.copy \in Pod \cup {NoPod}
           /\ rec.entries \in Entries /\ rec.entries # NoRecord
           /\ pod \in Pod \cup {NoPod} /\ saved \in Entries \cup {NoRecord}
           /\ used \in [Counters -> Nat]
BY ConstantFacts DEF IInv, TypeOK, Goroutine

(* Only the goroutine and the record of states change. *)
LEMMA GoroutineMoves ==
    ASSUME IInv, Counts, UNCHANGED <<pod, app, ready, drivers, nextId, kept>>,
           rec' \in Goroutine, saved' \in Entries \cup {NoRecord},
           CopyInv',
           pod # NoPod => \A c \in Containers : KnownId(c)' = KnownId(c),
           Clean' /\ ~ pod.deleted /\ ~ Missed' =>
              ~ Missed /\ \A c \in Containers : Stored(c) => Stored(c)'
    PROVE  IInv'
<1>1. TypeOK'
  BY DEF IInv, TypeOK, Counts, Goroutine
<1>2. ASSUME NEW c \in Containers
      PROVE  IdKnown(c)' /\ ReadyInv(c)'
  BY DEF IInv, IdKnown, ReadyInv
<1>3. ASSUME NoHaste', NEW c \in Containers
      PROVE  TimelyInv(c)'
  <2>1. TimelyInv(c)
    BY <1>3 DEF IInv, Counts
  <2> QED
    BY <2>1 DEF TimelyInv, Quiet, Ending, MustTerminate
<1>4. ASSUME Clean', NEW c \in Containers
      PROVE  StateKept(c)'
  <2>1. StateKept(c)
    BY <1>4 DEF IInv, Counts
  <2>2. MustTerminate(pod)' = MustTerminate(pod)
    BY DEF MustTerminate
  <2> QED
    BY <1>4, <2>1, <2>2 DEF StateKept
<1> QED
  BY <1>1, <1>2, <1>3, <1>4 DEF IInv

LEMMA BeginKeeps ==
    ASSUME IInv, Begin
    PROVE  IInv'
<1>1. /\ pod # NoPod /\ rec.pc = "idle"
      /\ UNCHANGED <<pod, saved, app, ready, drivers, nextId, kept>>
  BY DEF Begin
<1>2. Counts
  BY RecTypes, SpendFacts DEF Begin
<1>3. CASE ~ MustTerminate(pod)
  <2>1. rec' = [Resting EXCEPT !.pc = "start", !.copy = pod,
                 !.todo = {c \in Containers : pod.status[c].id = NoId}]
    BY <1>3 DEF Begin
  <2>2. rec' \in Goroutine /\ rec'.pc = "start" /\ rec'.copy = pod
    BY <2>1, RestingFacts, RecTypes DEF Goroutine, PCs
  <2>3. CopyInv'
    BY <1>1, <1>3, <2>2 DEF CopyInv, MustTerminate
  <2>4. \A c \in Containers : KnownId(c)' = KnownId(c)
    BY <1>1, <2>2 DEF KnownId
  <2>5. \A c \in Containers : Stored(c) => Stored(c)'
    BY <1>1, <2>2 DEF Stored
  <2> QED
    BY <1>1, <1>2, <2>2, <2>3, <2>4, <2>5, RecTypes, GoroutineMoves DEF Missed
<1>4. CASE MustTerminate(pod) /\ \A c \in Containers : app[c].phase = "none"
  <2>1. rec' = [Resting EXCEPT !.pc = "update", !.copy = pod]
    BY <1>4 DEF Begin
  <2>2. rec' \in Goroutine /\ rec'.pc = "update" /\ rec'.copy = pod
    BY <2>1, RestingFacts, RecTypes DEF Goroutine, PCs
  <2>3. CopyInv'
    BY <1>1, <2>2 DEF CopyInv
  <2>4. \A c \in Containers : KnownId(c)' = KnownId(c)
    BY <1>1, <2>2 DEF KnownId
  <2>5. \A c \in Containers : Stored(c) => Stored(c)'
    BY <1>1, <2>2 DEF Stored
  <2> QED
    BY <1>1, <1>2, <2>2, <2>3, <2>4, <2>5, RecTypes, GoroutineMoves DEF Missed
<1>5. CASE MustTerminate(pod) /\ ~ \A c \in Containers : app[c].phase = "none"
  <2> DEFINE e == IF pod.deleted \/ saved = NoRecord THEN NoEntries ELSE saved
  <2>1. rec' = [Resting EXCEPT !.pc = "teardown", !.copy = pod, !.todo = Listed, !.entries = e]
    BY <1>5 DEF Begin
  <2>2. e \in Entries
    BY RecTypes, ValueFacts
  <2>3. /\ rec' \in Goroutine /\ rec'.pc = "teardown" /\ rec'.copy = pod
        /\ rec'.entries = e
    <3>1. Listed \in SUBSET Containers
      BY DEF Listed
    <3> HIDE DEF e
    <3> QED
      BY <2>1, <2>2, <3>1, RestingFacts, RecTypes DEF Goroutine, PCs
  <2>4. CopyInv'
    BY <1>1, <1>5, <2>3 DEF CopyInv, MustTerminate
  <2>5. \A c \in Containers : KnownId(c)' = KnownId(c)
    BY <1>1, <2>3 DEF KnownId
  <2>6. ASSUME ~ pod.deleted, NEW c \in Containers, Stored(c)
        PROVE  Stored(c)'
    BY <1>1, <2>3, <2>6 DEF Stored
  <2> HIDE DEF e
  <2> QED
    BY <1>1, <1>2, <2>3, <2>4, <2>5, <2>6, RecTypes, GoroutineMoves DEF Missed
<1> QED
  BY <1>3, <1>4, <1>5

LEMMA BeginFailsKeeps ==
    ASSUME IInv, BeginFails
    PROVE  IInv'
<1>1. rec.pc = "idle" /\ UNCHANGED <<pod, saved, app, ready, drivers, rec, nextId, kept>>
  BY DEF BeginFails
<1>2. Counts /\ ~ Clean'
  BY RecTypes, SpendFacts DEF BeginFails
<1>3. CopyInv' /\ \A c \in Containers : KnownId(c)' = KnownId(c)
  BY <1>1 DEF CopyInv, KnownId
<1> QED
  BY <1>1, <1>2, <1>3, RecTypes, GoroutineMoves

LEMMA StartDoneKeeps ==
    ASSUME IInv, StartDone
    PROVE  IInv'
<1>1. /\ rec.pc = "start" /\ rec' = [rec EXCEPT !.pc = "update"]
      /\ UNCHANGED <<pod, saved, app, ready, drivers, nextId, used, kept>>
  BY DEF StartDone
<1>2. rec' \in Goroutine /\ rec'.pc = "update" /\ rec'.copy = rec.copy
  BY <1>1, RecTypes DEF Goroutine, PCs
<1>3. Counts
  BY <1>1, RecTypes, UnspentFacts
<1>4. CopyInv'
  BY <1>1, <1>2 DEF IInv, CopyInv
<1>5. \A c \in Containers : KnownId(c)' = KnownId(c) /\ (Stored(c) => Stored(c)')
  BY <1>1, <1>2 DEF KnownId, Stored
<1> QED
  BY <1>1, <1>2, <1>3, <1>4, <1>5, RecTypes, GoroutineMoves DEF Missed

(* A reconcile that misses an app: it waits for ever, or the program panics. *)
LEMMA MissesKeep ==
    ASSUME IInv, NEW c \in Containers, TeardownHangs(c) \/ TeardownPanics(c)
    PROVE  IInv'
<1>1. /\ rec.pc = "teardown"
      /\ \E p \in {"stuck", "panicked"} : rec' = [Resting EXCEPT !.pc = p]
      /\ UNCHANGED <<pod, saved, app, ready, drivers, nextId, used, kept>>
  BY DEF TeardownHangs, TeardownPanics, TearsDown, Panics
<1>2. rec' \in Goroutine /\ rec'.pc \in {"stuck", "panicked"}
  BY <1>1, RestingFacts DEF Goroutine, PCs
<1>3. Counts
  BY <1>1, RecTypes, UnspentFacts
<1>4. CopyInv'
  BY <1>1, <1>2 DEF IInv, CopyInv, MustTerminate
<1>5. \A d \in Containers : KnownId(d)' = KnownId(d)
  BY <1>1, <1>2 DEF KnownId
<1> QED
  BY <1>1, <1>2, <1>3, <1>4, <1>5, RecTypes, GoroutineMoves DEF Missed

(* The states have been collected. *)
LEMMA SaveKeeps ==
    ASSUME IInv, SaveRecord \/ SaveFails
    PROVE  IInv'
<1>1. /\ rec.pc = "teardown"
      /\ rec' = [rec EXCEPT !.pc = "update"] \/ rec' = Resting
      /\ UNCHANGED <<pod, app, ready, drivers, nextId, kept>>
  BY DEF SaveRecord, SaveFails
<1>2. rec.copy = pod /\ pod # NoPod
  BY <1>1 DEF IInv, CopyInv
<1>3. /\ rec' \in Goroutine
      /\ (rec'.pc = "update" /\ rec'.copy = pod) \/ rec'.pc = "idle"
  <2>1. CASE rec' = [rec EXCEPT !.pc = "update"]
    BY <2>1, <1>2, RecTypes DEF Goroutine, PCs
  <2>2. CASE rec' = Resting
    BY <2>2, RestingFacts DEF Goroutine
  <2> QED
    BY <1>1, <2>1, <2>2
<1>4. Counts /\ (SaveFails => ~ Clean')
  BY RecTypes, SpendFacts, UnspentFacts DEF SaveRecord, SaveFails
<1>5. saved' \in Entries \cup {NoRecord}
  BY RecTypes DEF SaveRecord, SaveFails
<1>6. CopyInv'
  BY <1>1, <1>2, <1>3 DEF CopyInv
<1>7. \A c \in Containers : KnownId(c)' = KnownId(c)
  BY <1>1, <1>2, <1>3 DEF KnownId
<1>8. ASSUME SaveRecord, ~ pod.deleted, NEW c \in Containers, Stored(c)
      PROVE  Stored(c)'
  BY <1>1, <1>2, <1>3, <1>8, RecTypes DEF SaveRecord, Stored
<1> QED
  BY <1>1, <1>3, <1>4, <1>5, <1>6, <1>7, <1>8, GoroutineMoves DEF Missed

LEMMA StartContainerKeeps ==
    ASSUME IInv, NEW c \in Containers, StartContainer(c)
    PROVE  IInv'
<1> DEFINE a == [NoApp EXCEPT !.id = nextId, !.phase = "loading"]
<1>1. /\ rec.pc = "start" /\ nextId <= MaxIds
      /\ UNCHANGED <<pod, saved, ready, used, kept>>
      /\ app' = [app EXCEPT ![c] = a] /\ drivers' = drivers \cup {nextId}
      /\ nextId' = nextId + 1
  BY DEF StartContainer
<1>2. /\ pod # NoPod /\ ~ MustTerminate(pod) /\ rec.copy \in Pod
      /\ rec.copy.deleted = pod.deleted /\ rec.copy.moving = pod.moving
      /\ \A d \in Containers : rec.copy.status[d].last = pod.status[d].last
  BY <1>1, RecTypes DEF IInv, CopyInv
<1>3. nextId \in 1..MaxIds /\ nextId \in Nat /\ MaxIds \in Nat
  BY <1>1, ConstantFacts DEF IInv, TypeOK
<1>4. a \in App /\ a.id = nextId /\ a.phase = "loading" /\ ~ a.setUp
  BY <1>3, ValueFacts DEF App, Phases, NoApp
<1> HIDE DEF a
<1>5. app' \in [Containers -> App] /\ app'[c] = a /\ \A d \in Containers \ {c} : app'[d] = app[d]
  BY <1>1, <1>4, AppTypes
<1>6. PICK copy \in Pod :
         /\ rec' \in Goroutine /\ rec'.pc = "start" /\ rec'.copy = copy
         /\ copy.deleted = pod.deleted /\ copy.moving = pod.moving
         /\ \A d \in Containers :
               /\ copy.status[d].last = pod.status[d].last
               /\ copy.status[d].id = IF d = c THEN nextId ELSE rec.copy.status[d].id
  <2> DEFINE q == [rec.copy EXCEPT !.status[c].id = nextId]
  <2>1. q \in Pod /\ q.deleted = rec.copy.deleted /\ q.moving = rec.copy.moving
    BY <1>2, <1>3 DEF Pod, Status
  <2>2. \A d \in Containers :
           /\ q.status[d].last = rec.copy.status[d].last
           /\ q.status[d].id = IF d = c THEN nextId ELSE rec.copy.status[d].id
    BY <1>2, <1>3 DEF Pod, Status
  <2>3. rec' = [rec EXCEPT !.todo = @ \ {c}, !.copy = q]
    BY RecTypes DEF StartContainer, Goroutine
  <2> HIDE DEF q
  <2>4. rec' \in Goroutine /\ rec'.pc = "start" /\ rec'.copy = q
    BY <1>1, <2>1, <2>3, RecTypes DEF Goroutine
  <2> QED
    BY <1>2, <2>1, <2>2, <2>4
<1>7. rec' \in Goroutine /\ rec'.pc = "start" /\ rec'.copy = copy
  BY <1>6
<1>8. Counts
  BY <1>1, RecTypes, UnspentFacts
<1>9. TypeOK'
  <2>1. drivers' \subseteq 1..MaxIds /\ nextId' \in 1..(MaxIds + 1)
    BY <1>1, <1>3 DEF IInv, TypeOK
  <2> QED
    BY <1>1, <1>5, <1>7, <1>8, <2>1 DEF IInv, TypeOK, Counts, Goroutine
<1>10. CopyInv'
  <2>1. copy # NoPod
    BY ConstantFacts
  <2> QED
    BY <1>1, <1>2, <1>6, <1>7, <2>1 DEF CopyInv, MustTerminate
<1>11. ASSUME NEW d \in Containers
       PROVE  IdKnown(d)'
  <2>1. KnownId(d)' = copy.status[d].id /\ KnownId(d) = rec.copy.status[d].id
    BY <1>1, <1>7 DEF KnownId
  <2> QED
    BY <1>1, <1>4, <1>5, <1>6, <2>1 DEF IInv, IdKnown
<1>12. ASSUME NEW d \in Containers
       PROVE  ReadyInv(d)'
  BY <1>1, <1>4, <1>5 DEF IInv, ReadyInv
<1>13. ASSUME NoHaste', NEW d \in Containers
       PROVE  TimelyInv(d)'
  <2>1. TimelyInv(d)
    BY <1>8, <1>13 DEF IInv, Counts
  <2>2. ~ Ending'
    BY <1>1, <1>2 DEF Ending, MustTerminate
  <2> QED
    BY <1>1, <2>1, <2>2 DEF TimelyInv
<1>14. ASSUME Clean', NEW d \in Containers
       PROVE  StateKept(d)'
  <2>1. StateKept(d)
    BY <1>8, <1>14 DEF IInv, Counts
  <2>2. (app'[d].setUp => app[d].setUp /\ app'[d].data = app[d].data)
    BY <1>4, <1>5
  <2>3. Stored(d) => Stored(d)'
    BY <1>1, <1>7 DEF Stored
  <2>4. MustTerminate(pod)' = MustTerminate(pod) /\ ~ Missed
    BY <1>1 DEF MustTerminate, Missed
  <2> QED
    BY <1>1, <2>1, <2>2, <2>3, <2>4 DEF StateKept
<1> QED
  BY <1>9, <1>10, <1>11, <1>12, <1>13, <1>14 DEF IInv

LEMMA TeardownKeeps ==
    ASSUME IInv, NEW c \in Containers, Teardown(c)
    PROVE  IInv'
<1> DEFINE a == [app[c] EXCEPT !.stopping = TRUE]
<1>1. /\ rec.pc = "teardown" /\ app[c].phase = "serving"
      /\ UNCHANGED <<pod, saved, ready, nextId, used>>
      /\ drivers' = drivers \ {app[c].id}
  BY DEF Teardown, TearsDown
<1>2. rec.copy = pod /\ pod # NoPod /\ MustTerminate(pod)
  BY <1>1 DEF IInv, CopyInv
<1>3. /\ a \in App /\ a.id = app[c].id /\ a.phase = "serving"
      /\ a.setUp = app[c].setUp /\ a.data = app[c].data
  BY <1>1, AppTypes DEF App
<1>4. /\ app' = [app EXCEPT ![c] = a] /\ app'[c] = a
      /\ app' \in [Containers -> App] /\ \A d \in Containers \ {c} : app'[d] = app[d]
  BY <1>3, AppTypes DEF Teardown
<1> HIDE DEF a
<1>5. /\ rec' \in Goroutine /\ rec'.pc = "teardown" /\ rec'.copy = pod
      /\ ~ pod.deleted => /\ rec'.entries[c] = app[c].data
                          /\ \A d \in Containers \ {c} : rec'.entries[d] = rec.entries[d]
  <2>1. CASE pod.deleted
    <3>1. rec' = [rec EXCEPT !.todo = @ \ {c}]
      BY <1>2, <2>1 DEF Teardown
    <3> QED
      BY <1>1, <1>2, <2>1, <3>1, RecTypes DEF Goroutine
  <2>2. CASE ~ pod.deleted
    <3> DEFINE e == [rec.entries EXCEPT ![c] = app[c].data]
    <3>1. rec' = [rec EXCEPT !.todo = @ \ {c}, !.entries = e]
      BY <1>2, <2>2, RecTypes DEF Teardown, Goroutine
    <3>2. e \in Entries /\ e[c] = app[c].data /\ \A d \in Containers \ {c} : e[d] = rec.entries[d]
      BY RecTypes, AppTypes DEF Entries
    <3> HIDE DEF e
    <3> QED
      BY <1>1, <1>2, <2>2, <3>1, <3>2, RecTypes DEF Goroutine
  <2> QED
    BY <2>1, <2>2
<1>6. /\ kept' \in Entries /\ \A d \in Containers \ {c} : kept'[d] = kept[d]
      /\ IF app[c].setUp /\ ~ pod.deleted THEN kept'[c] = app[c].data ELSE kept' = kept
  <2>1. kept \in Entries
    BY DEF IInv, TypeOK
  <2> QED
    BY <1>2, <2>1, AppTypes DEF Teardown, Entries
<1>7. Counts
  BY <1>1, RecTypes, UnspentFacts
<1>8. TypeOK'
  <2>1. drivers' \subseteq 1..MaxIds
    BY <1>1 DEF IInv, TypeOK
  <2> QED
    BY <1>1, <1>4, <1>5, <1>6, <1>7, <2>1 DEF IInv, TypeOK, Counts, Goroutine
<1>9. CopyInv'
  BY <1>1, <1>2, <1>5 DEF CopyInv, MustTerminate
<1>10. ASSUME NEW d \in Containers
       PROVE  IdKnown(d)'
  <2>1. KnownId(d)' = KnownId(d)
    BY <1>1, <1>5 DEF KnownId
  <2> QED
    BY <1>1, <1>3, <1>4, <2>1 DEF IInv, IdKnown
<1>11. ASSUME NEW d \in Containers
       PROVE  ReadyInv(d)'
  BY <1>1, <1>3, <1>4 DEF IInv, ReadyInv
<1>12. ASSUME NoHaste', NEW d \in Containers
       PROVE  TimelyInv(d)'
  <2>1. TimelyInv(d)
    BY <1>7, <1>12 DEF IInv, Counts
  <2> QED
    BY <1>1, <1>3, <1>4, <2>1 DEF TimelyInv, Quiet, Ending, MustTerminate
<1>13. ASSUME Clean', NEW d \in Containers
       PROVE  StateKept(d)'
  <2>1. StateKept(d) /\ TimelyInv(d) /\ ReadyInv(d)
    BY <1>7, <1>13 DEF IInv, Counts, Clean
  <2>2. ready[d].pc = "none"
    BY <1>2, <2>1 DEF TimelyInv, Quiet, Ending
  <2>3. MustTerminate(pod)' /\ ~ Missed /\ ~ Missed'
    BY <1>1, <1>2, <1>5 DEF MustTerminate, Missed
  <2>4. CASE d = c
    <3>1. app[c].setUp
      BY <1>1, <2>1, <2>2, <2>4 DEF ReadyInv
    <3>2. CASE pod.deleted
      BY <1>1, <1>3, <1>4, <1>6, <2>1, <2>2, <2>3, <2>4, <3>2 DEF StateKept
    <3>3. CASE ~ pod.deleted
      <4>1. Stored(c)'
        BY <1>5, <1>6, <3>1, <3>3 DEF Stored
      <4>2. app'[c].data >= kept'[c]
        BY <1>3, <1>4, <1>6, <3>1, <3>3, AppTypes
      <4> QED
        BY <1>1, <2>2, <2>3, <2>4, <4>1, <4>2 DEF StateKept
    <3> QED
      BY <3>2, <3>3
  <2>5. CASE d # c
    <3>1. ~ pod.deleted /\ Stored(d) => Stored(d)'
      BY <1>1, <1>5, <1>6, <2>5 DEF Stored
    <3>2. app'[d] = app[d] /\ kept'[d] = kept[d]
      BY <1>4, <1>6, <2>5
    <3> QED
      BY <1>1, <2>1, <2>2, <2>3, <3>1, <3>2 DEF StateKept
  <2> QED
    BY <2>4, <2>5
<1> QED
  BY <1>8, <1>9, <1>10, <1>11, <1>12, <1>13 DEF IInv

LEMMA TeardownErrsKeeps ==
    ASSUME IInv, NEW c \in Containers, TeardownErrs(c)
    PROVE  IInv'
<1>1. /\ rec.pc = "teardown" /\ UNCHANGED <<pod, saved, ready, drivers, nextId, kept>>
      /\ app[c].phase \in {"serving", "loading", "exited"}
  BY DEF TeardownErrs, TearsDown
<1>2. rec.copy = pod /\ pod # NoPod /\ MustTerminate(pod)
  BY <1>1 DEF IInv, CopyInv
<1>3. PICK a \in App :
         /\ app' = [app EXCEPT ![c] = a]
         /\ a.id = app[c].id /\ a.setUp = app[c].setUp /\ a.data = app[c].data
         /\ a.phase = app[c].phase \/ a.phase = "exited"
  <2>1. CASE app' = [app EXCEPT ![c].phase = "exited"]
    <3> DEFINE a == [app[c] EXCEPT !.phase = "exited"]
    <3>1. /\ a \in App /\ a.id = app[c].id /\ a.setUp = app[c].setUp
          /\ a.data = app[c].data /\ a.phase = "exited"
      BY AppTypes DEF App, Phases
    <3>2. app' = [app EXCEPT ![c] = a]
      BY <2>1, AppTypes
    <3> HIDE DEF a
    <3> QED
      BY <3>1, <3>2
  <2>2. CASE app' = app
    <3>1. app' = [app EXCEPT ![c] = app[c]]
      BY <2>2, AppTypes
    <3> QED
      BY <3>1, AppTypes
  <2> QED
    BY <2>1, <2>2 DEF TeardownErrs
<1>4. /\ app' \in [Containers -> App] /\ app'[c] = a
      /\ \A d \in Containers \ {c} : app'[d] = app[d]
  BY <1>3, AppTypes
<1>5. rec' \in Goroutine /\ (rec'.pc = "panicked" \/ (rec'.pc = "idle" /\ pod.deleted))
  <2>1. CASE pod.deleted /\ rec' = Resting
    BY <2>1, RestingFacts DEF Goroutine
  <2>2. CASE rec' = [Resting EXCEPT !.pc = "panicked"]
    BY <2>2, RestingFacts DEF Goroutine, PCs
  <2> QED
    BY <1>2, <2>1, <2>2 DEF TeardownErrs, Panics
<1>6. Counts
  BY RecTypes, SpendFacts, UnspentFacts DEF TeardownErrs
<1>7. TypeOK'
  BY <1>1, <1>4, <1>5, <1>6 DEF IInv, TypeOK, Counts, Goroutine
<1>8. CopyInv'
  BY <1>1, <1>2, <1>5 DEF CopyInv, MustTerminate
<1>9. ASSUME NEW d \in Containers
      PROVE  IdKnown(d)'
  <2>1. KnownId(d)' = KnownId(d)
    BY <1>1, <1>5 DEF KnownId
  <2> QED
    BY <1>1, <1>3, <1>4, <2>1 DEF IInv, IdKnown
<1>10. ASSUME NEW d \in Containers
       PROVE  ReadyInv(d)'
  BY <1>1, <1>3, <1>4 DEF IInv, ReadyInv
<1>11. ASSUME NoHaste', NEW d \in Containers
       PROVE  TimelyInv(d)'
  <2>1. TimelyInv(d)
    BY <1>6, <1>11 DEF IInv, Counts
  <2>2. Quiet(d) => Quiet(d)'
    BY <1>1, <1>3, <1>4 DEF Quiet
  <2>3. Ending' = Ending
    BY <1>1 DEF Ending, MustTerminate
  <2> QED
    BY <1>1, <2>1, <2>2, <2>3 DEF TimelyInv
<1>12. ASSUME Clean', NEW d \in Containers
       PROVE  StateKept(d)'
  <2>1. StateKept(d)
    BY <1>6, <1>12 DEF IInv, Counts
  <2>2. MustTerminate(pod)' /\ (pod.deleted \/ Missed')
    BY <1>1, <1>2, <1>5 DEF MustTerminate, Missed
  <2> QED
    BY <1>1, <1>3, <1>4, <2>1, <2>2 DEF StateKept
<1> QED
  BY <1>7, <1>8, <1>9, <1>10, <1>11, <1>12 DEF IInv

LEMMA UpdateKeeps ==
    ASSUME IInv, Update
    PROVE  IInv'
<1>1. /\ rec.pc = "update" /\ rec' = Resting /\ pod' = Observed
      /\ Leaves \/ UNCHANGED <<app, ready>>
      /\ UNCHANGED <<saved, drivers, nextId, used, kept>>
  BY DEF Update
<1>2. /\ pod # NoPod /\ rec.copy \in Pod
      /\ rec.copy.deleted = pod.deleted /\ rec.copy.moving = pod.moving
      /\ \A c \in Containers : rec.copy.status[c].last = pod.status[c].last
  BY <1>1, RecTypes DEF IInv, CopyInv
<1>3. /\ pod' \in Pod /\ pod' # NoPod
      /\ pod'.deleted = pod.deleted /\ pod'.moving = pod.moving
      /\ \A c \in Containers :
            /\ pod'.status[c].last = pod.status[c].last
            /\ pod'.status[c].id = rec.copy.status[c].id
  <2>1. Observed \in Pod
    <3> DEFINE ended(c) == rec.copy.status[c].terminated \/ app[c].phase \in {"exited", "gone"}
               s == [c \in Containers |-> [rec.copy.status[c] EXCEPT !.terminated = ended(c)]]
    <3>1. Observed = [rec.copy EXCEPT !.status = s]
      BY <1>2 DEF Observed, Pod, Status
    <3>2. \A c \in Containers : rec.copy.status[c] \in Status /\ ended(c) \in BOOLEAN
      BY <1>2 DEF Pod
    <3> HIDE DEF ended
    <3>3. s \in [Containers -> Status]
      BY <3>2 DEF Status
    <3> HIDE DEF s
    <3> QED
      BY <1>2, <3>1, <3>3 DEF Pod
  <2>2. /\ Observed.deleted = rec.copy.deleted /\ Observed.moving = rec.copy.moving
        /\ \A c \in Containers :
              /\ Observed.status[c].last = rec.copy.status[c].last
              /\ Observed.status[c].id = rec.copy.status[c].id
    BY <1>2 DEF Observed, Pod, Status
  <2> QED
    BY <1>1, <1>2, <2>1, <2>2, ConstantFacts
<1>4. Counts
  BY <1>1, RecTypes, UnspentFacts
<1>5. rec' \in Goroutine /\ rec'.pc = "idle"
  BY <1>1, RestingFacts DEF Goroutine
<1>6. TypeOK'
  <2>1. app' \in [Containers -> App] /\ ready' \in [Containers -> Ready]
    <3>1. CASE Leaves
      BY <3>1, ValueFacts DEF Leaves
    <3>2. CASE UNCHANGED <<app, ready>>
      BY <3>2 DEF IInv, TypeOK
    <3> QED
      BY <1>1, <3>1, <3>2
  <2> QED
    BY <1>1, <1>3, <1>4, <1>5, <2>1 DEF IInv, TypeOK, Counts, Goroutine
<1>7. CopyInv'
  BY <1>5 DEF CopyInv
<1>8. ASSUME NEW c \in Containers
      PROVE  \/ /\ app'[c].phase = "none" /\ ~ app'[c].setUp
                /\ ready'[c].pc = "none"
             \/ app'[c] = app[c] /\ ready'[c] = ready[c]
  BY <1>1, LeavesFacts
<1>9. ASSUME NEW c \in Containers
      PROVE  IdKnown(c)' /\ ReadyInv(c)'
  <2>1. KnownId(c)' = KnownId(c)
    BY <1>1, <1>3, <1>5 DEF KnownId
  <2> QED
    BY <1>2, <1>3, <1>8, <2>1 DEF IInv, IdKnown, ReadyInv
<1>10. ASSUME NoHaste', NEW c \in Containers
       PROVE  TimelyInv(c)'
  <2>1. TimelyInv(c)
    BY <1>4, <1>10 DEF IInv, Counts
  <2>2. Ending' => Ending
    BY <1>2, <1>3 DEF Ending, MustTerminate
  <2> QED
    BY <1>2, <1>3, <1>8, <2>1, <2>2 DEF TimelyInv, Quiet
<1>11. ASSUME Clean', NEW c \in Containers
       PROVE  StateKept(c)'
  <2>1. StateKept(c)
    BY <1>4, <1>11 DEF IInv, Counts
  <2>2. Stored(c) => Stored(c)'
    BY <1>1, <1>5 DEF Stored
  <2>3. ~ Missed /\ ~ Missed' /\ MustTerminate(pod)' = MustTerminate(pod)
    BY <1>1, <1>3, <1>5 DEF Missed, MustTerminate
  <2> QED
    BY <1>1, <1>2, <1>3, <1>8, <2>1, <2>2, <2>3 DEF StateKept
<1> QED
  BY <1>6, <1>7, <1>9, <1>10, <1>11 DEF IInv

-----------------------------------------------------------------------------

LEMMA InitHolds ==
    ASSUME Init
    PROVE  IInv
<1>1. /\ pod \in Pod /\ pod # NoPod /\ ~ MustTerminate(pod)
      /\ \A c \in Containers : ~ pod.status[c].last
  <2>1. pod = [deleted |-> FALSE, moving |-> FALSE,
               status |-> [c \in Containers |->
                             [id |-> NoId, last |-> FALSE, terminated |-> FALSE]]]
    BY DEF Init
  <2>2. pod \in Pod
    BY <2>1 DEF Pod, Status, NoId
  <2>3. ~ MustTerminate(pod) /\ \A c \in Containers : ~ pod.status[c].last
    BY <2>1 DEF MustTerminate
  <2> QED
    BY <2>2, <2>3, ConstantFacts
<1>2. \A c \in Containers : app[c] = NoApp /\ ready[c] = NotReady /\ kept[c] = NoData
  BY DEF Init, NoEntries
<1>3. rec.pc = "idle" /\ rec \in Goroutine
  BY RestingFacts DEF Init, Goroutine
<1>4. TypeOK
  <2>1. app \in [Containers -> App] /\ ready \in [Containers -> Ready] /\ kept \in Entries
    BY ValueFacts DEF Init
  <2>2. nextId \in 1..(MaxIds + 1) /\ used \in [Counters -> Nat] /\ drivers \subseteq 1..MaxIds
    BY ConstantFacts DEF Init
  <2> QED
    BY <1>1, <1>3, <2>1, <2>2 DEF Init, TypeOK, Goroutine
<1>5. CopyInv
  BY <1>3 DEF CopyInv
<1>6. \A c \in Containers : IdKnown(c) /\ ReadyInv(c) /\ TimelyInv(c) /\ StateKept(c)
  BY <1>1, <1>2, ValueFacts DEF IdKnown, ReadyInv, TimelyInv, StateKept, Ending
<1> QED
  BY <1>4, <1>5, <1>6 DEF IInv

LEMMA StutterKeeps ==
    ASSUME IInv, UNCHANGED vars
    PROVE  IInv'
BY DEF vars, IInv, TypeOK, CopyInv, MustTerminate, IdKnown, KnownId, ReadyInv, NoHaste, Clean,
       TimelyInv, Ending, Quiet, StateKept, Stored, Missed

LEMMA StepKeeps ==
    ASSUME IInv, [Next]_vars
    PROVE  IInv'
<1>1. CASE Migrate \/ Delete \/ Handover \/ Remove
  BY <1>1, MigrateKeeps, DeleteKeeps, HandoverKeeps, RemoveKeeps
<1>2. CASE ReconcileStep
  <2>1. CASE Begin \/ BeginFails \/ StartDone \/ SaveRecord \/ SaveFails \/ Update
    BY <2>1, BeginKeeps, BeginFailsKeeps, StartDoneKeeps, SaveKeeps, UpdateKeeps
  <2>2. CASE \E c \in Containers : StartContainer(c)
    BY <2>2, StartContainerKeeps
  <2>3. CASE \E c \in Containers :
                Teardown(c) \/ TeardownErrs(c) \/ TeardownHangs(c) \/ TeardownPanics(c)
    BY <2>3, TeardownKeeps, TeardownErrsKeeps, MissesKeep
  <2> QED
    BY <1>2, <2>1, <2>2, <2>3 DEF ReconcileStep
<1>3. CASE \E c \in Containers : AppStep(c)
  BY <1>3, AppStepKeeps
<1>4. CASE UNCHANGED vars
  BY <1>4, StutterKeeps
<1> QED
  BY <1>1, <1>2, <1>3, <1>4 DEF Next

(* Whatever users do, calls fail or apps exit, IInv holds: the copy of a    *)
(* reconcile agrees with the record, apps that are started in time are set  *)
(* up before their pod ends, and what they were torn down with is stored.   *)
THEOREM SessionInductive == Spec => []IInv
<1>1. Init => IInv
  BY InitHolds
<1>2. IInv /\ [Next]_vars => IInv'
  BY StepKeeps
<1> QED
  BY <1>1, <1>2, PTL DEF Spec

(* The ready handler tells an app that it is the first one of its pod       *)
(* exactly if it is, unless something came early.                           *)
THEOREM InitializedOnce == Spec => []InitializedFirst
<1>1. IInv => InitializedFirst
  BY DEF IInv, InitializedFirst, NoHaste, TimelyInv
<1> QED
  BY <1>1, SessionInductive, PTL

(* No app is set up with less than its predecessor was torn down with,      *)
(* through any number of moves, unless a call failed or something came      *)
(* early.                                                                   *)
THEOREM StatesAreCarried == Spec => []StateCarried
<1>1. IInv => StateCarried
  BY DEF IInv, StateCarried, StateGoesOn, Clean, NoHaste, StateKept
<1> QED
  BY <1>1, SessionInductive, PTL
=============================================================================
