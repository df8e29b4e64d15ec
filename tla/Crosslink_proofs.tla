---------------------------- MODULE Crosslink_proofs ----------------------------
(***************************************************************************)
(* Proofs about Crosslink for any workers and calls: that it implements     *)
(* Rpc, that calls that have their answer leave nothing behind, and that no *)
(* registered path is refused while its program runs.                       *)
(***************************************************************************)
EXTENDS Crosslink, FiniteSetTheorems, SequenceTheorems, WellFoundedInduction, TLAPS

(* The inductive invariant *)

(* What is in a queue, and that it is there once *)
Msgs(q) == {q[i] : i \in DOMAIN q}
IsQueue(q) == q \in Seq(Msgs(q)) /\ \A i, j \in DOMAIN q : q[i] = q[j] => i = j

Up(w) == Msgs(toPage[w])
Down(w) == Msgs(toWorker[w])

IsCall(m) == m.type = "call"
IsReply(m) == m.type = "reply"

(* A message is known by its type and its id.                               *)
UniqueIn(S) == \A m, n \in S : m.type = n.type /\ m.id = n.id => m = n

UpQueues ==
    /\ DOMAIN toPage = Workers
    /\ \A w \in Workers : IsQueue(toPage[w]) /\ UniqueIn(Up(w))

DownQueues ==
    /\ DOMAIN toWorker = Workers
    /\ \A w \in Workers : IsQueue(toWorker[w]) /\ UniqueIn(Down(w))

(* The tables are finite, so that there is always a fresh id.               *)
Tables ==
    /\ DOMAIN pageWaits = Workers /\ DOMAIN waits = Workers
    /\ DOMAIN cbMap = Workers /\ DOMAIN rwMap = Workers /\ DOMAIN handling = Workers
    /\ \A w \in Workers :
          /\ IsFiniteSet(DOMAIN pageWaits[w]) /\ IsFiniteSet(DOMAIN waits[w])
          /\ IsFiniteSet(DOMAIN cbMap[w]) /\ IsFiniteSet(DOMAIN rwMap[w])
          /\ IsFiniteSet(handling[w])
    /\ listed \subseteq Apps
    /\ served \in [Calls -> Nat] /\ DOMAIN result = Calls
    /\ \A c \in Calls : result[c] = "idle" => served[c] = 0

(* Waitings of a worker's own calls and for those of its Go program *)
OwnIds(w) == {i \in DOMAIN waits[w] : waits[w][i].own}
GoIds(w) == DOMAIN waits[w] \ OwnIds(w)

OwnPageIds(w) == {i \in DOMAIN pageWaits[w] : pageWaits[w][i].own}
ForwardIds(w) == DOMAIN pageWaits[w] \ OwnPageIds(w)

(* The Go program's calls are known by their ids, and wait once. *)
GoCalls(w) ==
    /\ \A k \in DOMAIN cbMap[w] :
          cbMap[w][k] \in Calls /\ From[cbMap[w][k]] = w /\ result[cbMap[w][k]] = "open"
    /\ \A k, l \in DOMAIN cbMap[w] : cbMap[w][k] = cbMap[w][l] => k = l
    /\ \A i \in GoIds(w) : waits[w][i].id \in DOMAIN cbMap[w]
    /\ \A i, j \in GoIds(w) : waits[w][i].id = waits[w][j].id => i = j

OwnCalls(w) ==
    /\ \A i \in OwnIds(w) :
          /\ waits[w][i].call \in Calls /\ From[waits[w][i].call] = w
          /\ result[waits[w][i].call] = "open"
          /\ \A k \in DOMAIN cbMap[w] : cbMap[w][k] # waits[w][i].call
    /\ \A i, j \in OwnIds(w) : waits[w][i].call = waits[w][j].call => i = j

PageCalls ==
    /\ \A w \in Workers : \A i \in OwnPageIds(w) :
          /\ pageWaits[w][i].call \in Calls /\ From[pageWaits[w][i].call] = Page
          /\ result[pageWaits[w][i].call] = "open"
    /\ \A v, w \in Workers : \A i \in OwnPageIds(v), j \in OwnPageIds(w) :
          pageWaits[v][i].call = pageWaits[w][j].call => v = w /\ i = j

(* What the page forwards is for one waiting of a worker.                   *)
Forwardings ==
    /\ \A w \in Workers : \A i \in ForwardIds(w) :
          /\ pageWaits[w][i].link \in Workers
          /\ pageWaits[w][i].id \in DOMAIN waits[pageWaits[w][i].link]
    /\ \A v, w \in Workers : \A i \in ForwardIds(v), j \in ForwardIds(w) :
          pageWaits[v][i].link = pageWaits[w][j].link /\ pageWaits[v][i].id = pageWaits[w][j].id
              => v = w /\ i = j

OpenCalls ==
    \A w \in Workers : \A c \in Calls : From[c] = w /\ result[c] = "open" => c \in CallsIn(w)

(* The call that a waiting of a worker, or of the page for a worker, is for *)
CallOf(w, i) ==
    IF waits[w][i].own THEN waits[w][i].call ELSE cbMap[w][waits[w][i].id]

PageCallOf(w, i) ==
    IF pageWaits[w][i].own THEN pageWaits[w][i].call
    ELSE CallOf(pageWaits[w][i].link, pageWaits[w][i].id)

(* An answer fits a call: its own, if it was served, or an error.           *)
Fits(c, answer) == (answer = c /\ served[c] = 1) \/ (answer = Refused /\ served[c] = 0)

(* Where the answer to a worker's waiting comes from: a download in the     *)
(* page, a call it forwarded, a reply that is on its way (if not from the   *)
(* call that is still on its way).                                          *)
Pulled(w, i) == \E p \in pulls : p.link = w /\ p.id = i
Forwarded(w, i) ==
    \E v \in Workers : \E j \in ForwardIds(v) :
        pageWaits[v][j].link = w /\ pageWaits[v][j].id = i
ToldDown(w, i) == \E m \in Down(w) : IsReply(m) /\ m.id = i

(* Where the answer to a waiting of the page comes from: a writer of the    *)
(* worker's Go program, a reply that is on its way.                         *)
Held(w, i) == \E k \in DOMAIN rwMap[w] : rwMap[w][k] = i
ToldUp(w, i) == \E m \in Up(w) : IsReply(m) /\ m.id = i

(* There is one of these for each waiting at most, and it knows the call.   *)
Upper(w, i) ==
    /\ \A m \in Up(w) : IsCall(m) /\ m.id = i =>
          /\ i \in DOMAIN waits[w] /\ m.call = CallOf(w, i) /\ served[m.call] = 0
          /\ ~ Pulled(w, i) /\ ~ Forwarded(w, i) /\ ~ ToldDown(w, i)
    /\ \A p \in pulls : p.link = w /\ p.id = i =>
          /\ i \in DOMAIN waits[w] /\ p.call = CallOf(w, i) /\ served[p.call] = 1
          /\ ~ Forwarded(w, i) /\ ~ ToldDown(w, i)
    /\ \A p, q \in pulls : p.link = w /\ p.id = i /\ q.link = w /\ q.id = i => p = q
    /\ \A m \in Down(w) : IsReply(m) /\ m.id = i =>
          i \in DOMAIN waits[w] /\ Fits(CallOf(w, i), m.answer) /\ ~ Forwarded(w, i)

Lower(w, i) ==
    /\ \A m \in Down(w) : IsCall(m) /\ m.id = i =>
          /\ i \in DOMAIN pageWaits[w] /\ m.call = PageCallOf(w, i) /\ served[m.call] = 0
          /\ ~ Held(w, i) /\ ~ ToldUp(w, i)
    /\ \A k \in DOMAIN rwMap[w] : rwMap[w][k] = i =>
          i \in DOMAIN pageWaits[w] /\ ~ ToldUp(w, i)
    /\ \A k, l \in DOMAIN rwMap[w] : rwMap[w][k] = i /\ rwMap[w][l] = i => k = l
    /\ \A h \in handling[w] : h.id \in DOMAIN rwMap[w] /\ rwMap[w][h.id] = i =>
          h.call = PageCallOf(w, i) /\ served[h.call] = IF h.answers = 0 THEN 0 ELSE 1
    /\ \A m \in Up(w) : IsReply(m) /\ m.id = i =>
          i \in DOMAIN pageWaits[w] /\ Fits(PageCallOf(w, i), m.answer)

(* A goroutine that has not answered has a writer of its own.               *)
Handlers(w) ==
    /\ \A h \in handling[w] :
          /\ h = [id |-> h.id, call |-> h.call, path |-> h.path, answers |-> h.answers]
          /\ h.answers \in Nat
          /\ h.answers = 0 => h.id \in DOMAIN rwMap[w]
    /\ \A g, h \in handling[w] : g.id = h.id => g = h

Waitings ==
    /\ \A w \in Workers : GoCalls(w) /\ OwnCalls(w)
    /\ PageCalls /\ Forwardings /\ OpenCalls

Tokens ==
    /\ \A w \in Workers :
          /\ \A m \in Up(w) : IF IsCall(m) THEN Upper(w, m.id) ELSE Lower(w, m.id)
          /\ \A m \in Down(w) : IF IsCall(m) THEN Lower(w, m.id) ELSE Upper(w, m.id)
          /\ \A k \in DOMAIN rwMap[w] : Lower(w, rwMap[w][k])
          /\ Handlers(w)
    /\ \A p \in pulls : p.link \in Workers /\ Upper(p.link, p.id)

(* Messages are known by type and id, tables lead back to open calls, and   *)
(* for each waiting one thing is on its way at most.                        *)
IInv == UpQueues /\ DownQueues /\ Tables /\ Waitings /\ Tokens

-----------------------------------------------------------------------------
(* Queues, tables and fresh ids *)

LEMMA Constants ==
    /\ Node \in Workers /\ Apps \subseteq Workers /\ Page \notin Workers
    /\ Refused \notin Calls /\ Refused # "open" /\ Refused # "idle"
    /\ "open" \notin Calls /\ "idle" \notin Calls
    /\ \A c \in Calls : From[c] = Page => To[c] \in Workers
BY CrosslinkAssumption DEF CrosslinkAssumption, Workers

LEMMA QueueEmpty == IsQueue(<<>>) /\ Msgs(<<>>) = {}
BY DEF IsQueue, Msgs

LEMMA QueueAppend ==
    ASSUME NEW q, IsQueue(q), NEW m, m \notin Msgs(q)
    PROVE  IsQueue(Append(q, m)) /\ Msgs(Append(q, m)) = Msgs(q) \cup {m}
<1> DEFINE S == Msgs(q) \cup {m}
<1>1. q \in Seq(Msgs(q)) /\ q \in Seq(S)
  BY DEF IsQueue
<1>2. /\ Append(q, m) \in Seq(S) /\ DOMAIN q = 1 .. Len(q) /\ Len(q) \in Nat
      /\ DOMAIN Append(q, m) = 1 .. Len(q) + 1
      /\ \A i \in 1 .. Len(q) : Append(q, m)[i] = q[i]
      /\ Append(q, m)[Len(q) + 1] = m
  BY <1>1
<1> HIDE DEF S
<1>3. Msgs(Append(q, m)) = Msgs(q) \cup {m}
  BY <1>2 DEF Msgs
<1>4. \A i \in 1 .. Len(q) : q[i] \in Msgs(q)
  BY <1>2 DEF Msgs
<1>5. \A i, j \in DOMAIN Append(q, m) : Append(q, m)[i] = Append(q, m)[j] => i = j
  BY <1>2, <1>4 DEF IsQueue
<1> QED
  BY <1>2, <1>3, <1>5 DEF IsQueue, S

LEMMA QueueTail ==
    ASSUME NEW q, IsQueue(q), q # <<>>
    PROVE  /\ IsQueue(Tail(q)) /\ Head(q) \in Msgs(q)
           /\ Msgs(Tail(q)) = Msgs(q) \ {Head(q)}
<1>1. q \in Seq(Msgs(q))
  BY DEF IsQueue
<1>2. /\ DOMAIN q = 1 .. Len(q) /\ Len(q) \in Nat /\ Len(q) > 0
      /\ Tail(q) \in Seq(Msgs(q)) /\ Head(q) = q[1]
      /\ DOMAIN Tail(q) = 1 .. Len(q) - 1
      /\ \A i \in 1 .. Len(q) - 1 : Tail(q)[i] = q[i + 1]
  BY <1>1
<1>3. \A i, j \in 1 .. Len(q) : q[i] = q[j] => i = j
  BY <1>2 DEF IsQueue
<1>4. Msgs(Tail(q)) = Msgs(q) \ {Head(q)}
  <2>1. ASSUME NEW m \in Msgs(Tail(q))
        PROVE  m \in Msgs(q) \ {Head(q)}
    <3>1. PICK i \in 1 .. Len(q) - 1 : m = q[i + 1]
      BY <1>2 DEF Msgs
    <3>2. i + 1 \in 1 .. Len(q) /\ i + 1 # 1 /\ 1 \in 1 .. Len(q)
      BY <1>2
    <3> QED
      BY <1>2, <1>3, <3>1, <3>2 DEF Msgs
  <2>2. ASSUME NEW m \in Msgs(q), m # Head(q)
        PROVE  m \in Msgs(Tail(q))
    <3>1. PICK i \in 1 .. Len(q) : m = q[i]
      BY <1>2 DEF Msgs
    <3>2. i # 1
      BY <1>2, <2>2, <3>1
    <3>3. i - 1 \in 1 .. Len(q) - 1 /\ (i - 1) + 1 = i
      BY <1>2, <3>2
    <3>4. Tail(q)[i - 1] = m
      BY <1>2, <3>1, <3>3
    <3> QED
      BY <1>2, <3>3, <3>4 DEF Msgs
  <2> QED
    BY <2>1, <2>2
<1>5. \A i, j \in DOMAIN Tail(q) : Tail(q)[i] = Tail(q)[j] => i = j
  <2> SUFFICES ASSUME NEW i \in 1 .. Len(q) - 1, NEW j \in 1 .. Len(q) - 1,
                      q[i + 1] = q[j + 1]
               PROVE  i = j
    BY <1>2
  <2>1. i + 1 \in 1 .. Len(q) /\ j + 1 \in 1 .. Len(q)
    BY <1>2
  <2> QED
    BY <1>3, <2>1
<1>6. Tail(q) \in Seq(Msgs(Tail(q)))
  <2>1. \A i \in 1 .. Len(q) - 1 : Tail(q)[i] \in Msgs(Tail(q))
    BY <1>2 DEF Msgs
  <2>2. Len(q) - 1 \in Nat /\ Tail(q) \in [1 .. Len(q) - 1 -> Msgs(q)]
    BY <1>1, <1>2, HeadTailProperties, LenProperties
  <2>3. Tail(q) \in [1 .. Len(q) - 1 -> Msgs(Tail(q))]
    BY <2>1, <2>2
  <2> QED
    BY <2>2, <2>3, SeqDef
<1>7. Head(q) \in Msgs(q)
  BY <1>2 DEF Msgs
<1> QED
  BY <1>4, <1>5, <1>6, <1>7 DEF IsQueue

LEMMA FreshIsFree ==
    ASSUME NEW taken, IsFiniteSet(taken)
    PROVE  FreshId(taken) \notin taken
<1> DEFINE n == Cardinality(taken)
           free == {i \in 1 .. n + 1 : i \notin taken}
<1>1. n \in Nat
  BY FS_CardinalityType
<1>2. Cardinality(1 .. n + 1) = n + 1
  BY <1>1, FS_Interval
<1>3. free # {}
  <2> SUFFICES ASSUME free = {} PROVE FALSE
    OBVIOUS
  <2>1. 1 .. n + 1 \in SUBSET taken
    OBVIOUS
  <2>2. Cardinality(1 .. n + 1) <= n
    BY <2>1, FS_Subset
  <2> QED
    BY <1>1, <1>2, <2>2
<1> DEFINE order == StrictSubsetOrdering(1 .. n + 1)
           T == {1 .. i : i \in free}
<1>4. PICK x \in T : \A y \in T : <<y, x>> \notin order
  <2>1. IsFiniteSet(1 .. n + 1)
    BY <1>1, FS_Interval
  <2>2. IsWellFoundedOn(order, FiniteSubsetsOf(1 .. n + 1))
    BY <2>1, FS_StrictSubsetOrderingWellFounded
  <2>3. T \subseteq FiniteSubsetsOf(1 .. n + 1) /\ T # {}
    <3>1. \A i \in free : 1 .. i \in SUBSET (1 .. n + 1)
      BY <1>1
    <3>2. \A i \in free : IsFiniteSet(1 .. i)
      BY <2>1, <3>1, FS_Subset
    <3> QED
      BY <1>3, <3>1, <3>2 DEF FiniteSubsetsOf
  <2> HIDE DEF order, T
  <2> QED
    BY <2>2, <2>3, WFMin
<1>5. PICK id \in free : x = 1 .. id
  OBVIOUS
<1>6. \A i \in 1 .. id - 1 : i \in taken
  <2> SUFFICES ASSUME NEW i \in 1 .. id - 1, i \notin taken PROVE FALSE
    OBVIOUS
  <2>1. i \in free /\ i < id /\ i \in Nat /\ id \in Nat /\ id \in 1 .. n + 1
    BY <1>1
  <2>2. 1 .. i \subseteq 1 .. id /\ id \in 1 .. id /\ id \notin 1 .. i
    BY <2>1
  <2>3. 1 .. i \in SUBSET (1 .. n + 1) /\ 1 .. id \in SUBSET (1 .. n + 1)
    BY <1>1, <2>1
  <2>4. <<1 .. i, 1 .. id>> \in order
    BY <2>2, <2>3 DEF StrictSubsetOrdering
  <2> QED
    BY <1>4, <1>5, <2>1, <2>4
<1>7. \E i \in 1 .. Cardinality(taken) + 1 : i \notin taken /\ \A j \in 1 .. i - 1 : j \in taken
  BY <1>5, <1>6
<1> HIDE DEF n, free
<1> QED
  BY <1>7 DEF FreshId

LEMMA PutFacts ==
    ASSUME NEW table, NEW id, NEW entry
    PROVE  /\ DOMAIN Put(table, id, entry) = DOMAIN table \cup {id}
           /\ Put(table, id, entry)[id] = entry
           /\ \A i \in DOMAIN table : i # id => Put(table, id, entry)[i] = table[i]
BY DEF Put

LEMMA WithoutFacts ==
    ASSUME NEW table, NEW id
    PROVE  /\ DOMAIN Without(table, id) = DOMAIN table \ {id}
           /\ \A i \in DOMAIN table : i # id => Without(table, id)[i] = table[i]
BY DEF Without

-----------------------------------------------------------------------------
(* What becomes of the queues *)

LEMMA QueueSend ==
    ASSUME NEW q, IsQueue(q), UniqueIn(Msgs(q)), NEW m,
           \A n \in Msgs(q) : ~ (n.type = m.type /\ n.id = m.id)
    PROVE  /\ IsQueue(Append(q, m)) /\ UniqueIn(Msgs(Append(q, m)))
           /\ Msgs(Append(q, m)) = Msgs(q) \cup {m}
<1>1. m \notin Msgs(q)
  OBVIOUS
<1>2. UniqueIn(Msgs(q) \cup {m})
  BY DEF UniqueIn
<1> QED
  BY <1>1, <1>2, QueueAppend

LEMMA QueueTake ==
    ASSUME NEW q, IsQueue(q), UniqueIn(Msgs(q)), q # <<>>
    PROVE  /\ IsQueue(Tail(q)) /\ UniqueIn(Msgs(Tail(q)))
           /\ Head(q) \in Msgs(q) /\ Msgs(Tail(q)) = Msgs(q) \ {Head(q)}
BY QueueTail DEF UniqueIn

LEMMA SendsUp ==
    ASSUME UpQueues, NEW w \in Workers, NEW m, toPage' = SentToPage(w, m),
           \A n \in Up(w) : ~ (n.type = m.type /\ n.id = m.id)
    PROVE  /\ UpQueues'
           /\ \A v \in Workers : Up(v)' = IF v = w THEN Up(v) \cup {m} ELSE Up(v)
<1>1. \A v \in Workers : toPage'[v] = IF v = w THEN Append(toPage[w], m) ELSE toPage[v]
  BY DEF UpQueues, SentToPage
<1>2. /\ IsQueue(Append(toPage[w], m)) /\ UniqueIn(Msgs(Append(toPage[w], m)))
      /\ Msgs(Append(toPage[w], m)) = Msgs(toPage[w]) \cup {m}
  BY QueueSend DEF UpQueues, Up
<1>3. DOMAIN toPage' = Workers
  BY DEF UpQueues, SentToPage
<1> QED
  BY <1>1, <1>2, <1>3 DEF UpQueues, Up

LEMMA TakesUp ==
    ASSUME UpQueues, NEW w \in Workers, Received(w)
    PROVE  /\ UpQueues' /\ Head(toPage[w]) \in Up(w)
           /\ \A v \in Workers :
                 Up(v)' = IF v = w THEN Up(v) \ {Head(toPage[w])} ELSE Up(v)
<1>1. \A v \in Workers : toPage'[v] = IF v = w THEN Tail(toPage[w]) ELSE toPage[v]
  BY DEF UpQueues, Received
<1>2. /\ IsQueue(Tail(toPage[w])) /\ UniqueIn(Msgs(Tail(toPage[w])))
      /\ Head(toPage[w]) \in Msgs(toPage[w])
      /\ Msgs(Tail(toPage[w])) = Msgs(toPage[w]) \ {Head(toPage[w])}
  BY QueueTake DEF UpQueues, Up, Received
<1>3. DOMAIN toPage' = Workers
  BY DEF UpQueues, Received
<1> QED
  BY <1>1, <1>2, <1>3 DEF UpQueues, Up

LEMMA SameUp ==
    ASSUME UpQueues, UNCHANGED toPage
    PROVE  UpQueues' /\ \A v \in Workers : Up(v)' = Up(v)
BY DEF UpQueues, Up

LEMMA AppendsDown ==
    ASSUME DownQueues, NEW w \in Workers, NEW m,
           toWorker' = [toWorker EXCEPT ![w] = Append(@, m)],
           \A n \in Down(w) : ~ (n.type = m.type /\ n.id = m.id)
    PROVE  /\ DownQueues'
           /\ \A v \in Workers : Down(v)' = IF v = w THEN Down(v) \cup {m} ELSE Down(v)
<1>1. \A v \in Workers : toWorker'[v] = IF v = w THEN Append(toWorker[w], m) ELSE toWorker[v]
  BY DEF DownQueues
<1>2. /\ IsQueue(Append(toWorker[w], m)) /\ UniqueIn(Msgs(Append(toWorker[w], m)))
      /\ Msgs(Append(toWorker[w], m)) = Msgs(toWorker[w]) \cup {m}
  BY QueueSend DEF DownQueues, Down
<1>3. DOMAIN toWorker' = Workers
  BY DEF DownQueues
<1> QED
  BY <1>1, <1>2, <1>3 DEF DownQueues, Down

LEMMA SameDown ==
    ASSUME DownQueues, UNCHANGED toWorker
    PROVE  DownQueues' /\ \A v \in Workers : Down(v)' = Down(v)
BY DEF DownQueues, Down

LEMMA PostsDown ==
    ASSUME DownQueues, NEW w \in Workers, NEW m, toWorker' = Posted(w, m),
           \A n \in Down(w) : ~ (n.type = m.type /\ n.id = m.id)
    PROVE  /\ DownQueues'
           /\ \A v \in Workers : Down(v)' \subseteq IF v = w THEN Down(v) \cup {m} ELSE Down(v)
<1>1. CASE toWorker' = toWorker
  BY <1>1, SameDown
<1>2. CASE toWorker' = [toWorker EXCEPT ![w] = Append(@, m)]
  BY <1>2, AppendsDown
<1> QED
  BY <1>1, <1>2 DEF Posted

LEMMA TakesDown ==
    ASSUME DownQueues, NEW w \in Workers, Taken(w)
    PROVE  /\ DownQueues' /\ Head(toWorker[w]) \in Down(w)
           /\ \A v \in Workers :
                 Down(v)' = IF v = w THEN Down(v) \ {Head(toWorker[w])} ELSE Down(v)
<1>1. \A v \in Workers : toWorker'[v] = IF v = w THEN Tail(toWorker[w]) ELSE toWorker[v]
  BY DEF DownQueues, Taken
<1>2. /\ IsQueue(Tail(toWorker[w])) /\ UniqueIn(Msgs(Tail(toWorker[w])))
      /\ Head(toWorker[w]) \in Msgs(toWorker[w])
      /\ Msgs(Tail(toWorker[w])) = Msgs(toWorker[w]) \ {Head(toWorker[w])}
  BY QueueTake DEF DownQueues, Down, Taken
<1>3. DOMAIN toWorker' = Workers
  BY DEF DownQueues, Taken
<1> QED
  BY <1>1, <1>2, <1>3 DEF DownQueues, Down

-----------------------------------------------------------------------------
(* Whose calls the waitings are *)

LEMMA CallOfFacts ==
    ASSUME Waitings, NEW w \in Workers, NEW i \in DOMAIN waits[w]
    PROVE  /\ CallOf(w, i) \in Calls /\ From[CallOf(w, i)] = w /\ result[CallOf(w, i)] = "open"
           /\ \A v \in Workers : \A j \in DOMAIN waits[v] :
                 CallOf(v, j) = CallOf(w, i) => v = w /\ j = i
<1>1. ASSUME NEW v \in Workers, NEW j \in DOMAIN waits[v]
      PROVE  /\ CallOf(v, j) \in Calls /\ From[CallOf(v, j)] = v
             /\ result[CallOf(v, j)] = "open"
  <2>1. CASE j \in OwnIds(v)
    BY <2>1 DEF CallOf, OwnIds, Waitings, OwnCalls
  <2>2. CASE j \in GoIds(v)
    BY <2>2 DEF CallOf, OwnIds, GoIds, Waitings, GoCalls
  <2> QED
    BY <2>1, <2>2 DEF GoIds
<1>2. ASSUME NEW j \in DOMAIN waits[w], CallOf(w, j) = CallOf(w, i)
      PROVE  j = i
  <2>1. CASE i \in OwnIds(w) /\ j \in OwnIds(w)
    BY <1>2, <2>1 DEF CallOf, OwnIds, Waitings, OwnCalls
  <2>2. CASE i \in GoIds(w) /\ j \in GoIds(w)
    <3>1. waits[w][i].id \in DOMAIN cbMap[w] /\ waits[w][j].id \in DOMAIN cbMap[w]
      BY <2>2 DEF Waitings, GoCalls
    <3>2. cbMap[w][waits[w][i].id] = cbMap[w][waits[w][j].id]
      BY <1>2, <2>2 DEF CallOf, OwnIds, GoIds
    <3>3. waits[w][i].id = waits[w][j].id
      BY <3>1, <3>2 DEF Waitings, GoCalls
    <3> QED
      BY <2>2, <3>3 DEF Waitings, GoCalls
  <2>3. CASE i \in OwnIds(w) /\ j \in GoIds(w)
    BY <1>2, <2>3 DEF CallOf, OwnIds, GoIds, Waitings, OwnCalls, GoCalls
  <2>4. CASE i \in GoIds(w) /\ j \in OwnIds(w)
    BY <1>2, <2>4 DEF CallOf, OwnIds, GoIds, Waitings, OwnCalls, GoCalls
  <2> QED
    BY <2>1, <2>2, <2>3, <2>4 DEF GoIds
<1> QED
  BY <1>1, <1>2

LEMMA PageCallOfFacts ==
    ASSUME Waitings, NEW w \in Workers, NEW i \in DOMAIN pageWaits[w]
    PROVE  /\ PageCallOf(w, i) \in Calls /\ result[PageCallOf(w, i)] = "open"
           /\ \A v \in Workers : \A j \in DOMAIN pageWaits[v] :
                 PageCallOf(v, j) = PageCallOf(w, i) => v = w /\ j = i
           /\ \A v \in Workers : \A j \in DOMAIN waits[v] :
                 CallOf(v, j) = PageCallOf(w, i) => Forwarded(v, j)
<1>1. ASSUME NEW v \in Workers, NEW j \in DOMAIN pageWaits[v]
      PROVE  /\ PageCallOf(v, j) \in Calls /\ result[PageCallOf(v, j)] = "open"
             /\ j \in OwnPageIds(v) <=> From[PageCallOf(v, j)] \notin Workers
  <2>1. CASE j \in OwnPageIds(v)
    BY <2>1, Constants DEF PageCallOf, OwnPageIds, Waitings, PageCalls
  <2>2. CASE j \in ForwardIds(v)
    <3>1. /\ pageWaits[v][j].link \in Workers
          /\ pageWaits[v][j].id \in DOMAIN waits[pageWaits[v][j].link]
      BY <2>2 DEF Waitings, Forwardings
    <3>2. PageCallOf(v, j) = CallOf(pageWaits[v][j].link, pageWaits[v][j].id)
      BY <2>2 DEF PageCallOf, OwnPageIds, ForwardIds
    <3> QED
      BY <2>2, <3>1, <3>2, CallOfFacts DEF ForwardIds
  <2> QED
    BY <2>1, <2>2 DEF ForwardIds
<1>2. ASSUME NEW v \in Workers, NEW j \in DOMAIN pageWaits[v], PageCallOf(v, j) = PageCallOf(w, i)
      PROVE  v = w /\ j = i
  <2>1. j \in OwnPageIds(v) <=> i \in OwnPageIds(w)
    BY <1>1, <1>2
  <2>2. CASE j \in OwnPageIds(v) /\ i \in OwnPageIds(w)
    BY <1>2, <2>2 DEF PageCallOf, OwnPageIds, Waitings, PageCalls
  <2>3. CASE j \in ForwardIds(v) /\ i \in ForwardIds(w)
    <3>1. /\ pageWaits[v][j].link \in Workers
          /\ pageWaits[v][j].id \in DOMAIN waits[pageWaits[v][j].link]
          /\ pageWaits[w][i].link \in Workers
          /\ pageWaits[w][i].id \in DOMAIN waits[pageWaits[w][i].link]
      BY <2>3 DEF Waitings, Forwardings
    <3>2. CallOf(pageWaits[v][j].link, pageWaits[v][j].id)
            = CallOf(pageWaits[w][i].link, pageWaits[w][i].id)
      BY <1>2, <2>3 DEF PageCallOf, OwnPageIds, ForwardIds
    <3>3. pageWaits[v][j].link = pageWaits[w][i].link /\ pageWaits[v][j].id = pageWaits[w][i].id
      BY <3>1, <3>2, CallOfFacts
    <3> QED
      BY <2>3, <3>3 DEF Waitings, Forwardings
  <2> QED
    BY <2>1, <2>2, <2>3 DEF ForwardIds
<1>3. ASSUME NEW v \in Workers, NEW j \in DOMAIN waits[v], CallOf(v, j) = PageCallOf(w, i)
      PROVE  Forwarded(v, j)
  <2>1. i \in ForwardIds(w)
    BY <1>1, <1>3, CallOfFacts DEF ForwardIds
  <2>2. /\ pageWaits[w][i].link \in Workers
        /\ pageWaits[w][i].id \in DOMAIN waits[pageWaits[w][i].link]
    BY <2>1 DEF Waitings, Forwardings
  <2>3. PageCallOf(w, i) = CallOf(pageWaits[w][i].link, pageWaits[w][i].id)
    BY <2>1 DEF PageCallOf, OwnPageIds, ForwardIds
  <2>4. v = pageWaits[w][i].link /\ j = pageWaits[w][i].id
    BY <1>3, <2>2, <2>3, CallOfFacts
  <2> QED
    BY <2>1, <2>4 DEF Forwarded
<1> QED
  BY <1>1, <1>2, <1>3


-----------------------------------------------------------------------------
(* What is on its way for one waiting *)

(* Of each id, and not only of the ids of what is there: the form to use.   *)
AllTokens ==
    /\ \A w \in Workers : \A i : Upper(w, i) /\ Lower(w, i)
    /\ \A w \in Workers : Handlers(w)
    /\ \A p \in pulls : p.link \in Workers

LEMMA TokensNow == Tokens <=> AllTokens
<1>1. ASSUME Tokens, NEW w \in Workers, NEW i
      PROVE  Upper(w, i)
  <2>1. \A m \in Up(w) : IsCall(m) /\ m.id = i => Upper(w, i)
    BY <1>1 DEF Tokens
  <2>2. \A m \in Down(w) : IsReply(m) /\ m.id = i => Upper(w, i)
    BY <1>1 DEF Tokens, IsCall, IsReply
  <2>3. \A p \in pulls : p.link = w /\ p.id = i => Upper(w, i)
    BY <1>1 DEF Tokens
  <2>4. CASE /\ \A m \in Up(w) : ~ (IsCall(m) /\ m.id = i)
             /\ \A m \in Down(w) : ~ (IsReply(m) /\ m.id = i)
             /\ \A p \in pulls : ~ (p.link = w /\ p.id = i)
    BY <2>4 DEF Upper
  <2> QED
    BY <2>1, <2>2, <2>3, <2>4
<1>2. ASSUME Tokens, NEW w \in Workers, NEW i
      PROVE  Lower(w, i)
  <2>1. \A m \in Up(w) : IsReply(m) /\ m.id = i => Lower(w, i)
    BY <1>2 DEF Tokens, IsCall, IsReply
  <2>2. \A m \in Down(w) : IsCall(m) /\ m.id = i => Lower(w, i)
    BY <1>2 DEF Tokens
  <2>3. \A k \in DOMAIN rwMap[w] : rwMap[w][k] = i => Lower(w, i)
    BY <1>2 DEF Tokens
  <2>4. CASE /\ \A m \in Up(w) : ~ (IsReply(m) /\ m.id = i)
             /\ \A m \in Down(w) : ~ (IsCall(m) /\ m.id = i)
             /\ \A k \in DOMAIN rwMap[w] : rwMap[w][k] # i
    BY <2>4 DEF Lower
  <2> QED
    BY <2>1, <2>2, <2>3, <2>4
<1> QED
  BY <1>1, <1>2 DEF Tokens, AllTokens

LEMMA TokensNext == Tokens' <=> AllTokens'
BY TokensNow, PTL

LEMMA TokensAll ==
    Tokens => /\ \A w \in Workers : \A i : Upper(w, i) /\ Lower(w, i)
              /\ \A w \in Workers : Handlers(w)
              /\ \A p \in pulls : p.link \in Workers
BY TokensNow DEF AllTokens

(* A step that leaves a waiting alone *)
KeepsUpper(w, i) ==
    /\ \A m \in Up(w)' : IsCall(m) /\ m.id = i => m \in Up(w)
    /\ \A m \in Down(w)' : IsReply(m) /\ m.id = i => m \in Down(w)
    /\ \A p \in pulls' : p.link = w /\ p.id = i => p \in pulls
    /\ i \in DOMAIN waits[w] =>
          /\ i \in DOMAIN waits'[w] /\ CallOf(w, i)' = CallOf(w, i)
          /\ Forwarded(w, i)' => Forwarded(w, i)
          /\ ~ Forwarded(w, i) => served'[CallOf(w, i)] = served[CallOf(w, i)]

KeepsLower(w, i) ==
    /\ \A m \in Down(w)' : IsCall(m) /\ m.id = i => m \in Down(w)
    /\ \A m \in Up(w)' : IsReply(m) /\ m.id = i => m \in Up(w)
    /\ \A k \in DOMAIN rwMap'[w] : rwMap'[w][k] = i => k \in DOMAIN rwMap[w] /\ rwMap[w][k] = i
    /\ \A h \in handling'[w] : h.id \in DOMAIN rwMap'[w] /\ rwMap'[w][h.id] = i
          => h \in handling[w]
    /\ i \in DOMAIN pageWaits[w] =>
          /\ i \in DOMAIN pageWaits'[w] /\ PageCallOf(w, i)' = PageCallOf(w, i)
          /\ served'[PageCallOf(w, i)] = served[PageCallOf(w, i)]

LEMMA UpperKept ==
    ASSUME NEW w, NEW i, Upper(w, i), KeepsUpper(w, i)
    PROVE  Upper(w, i)'
<1>1. ASSUME NEW m \in Up(w)', IsCall(m), m.id = i
      PROVE  /\ i \in DOMAIN waits'[w] /\ m.call = CallOf(w, i)' /\ served'[m.call] = 0
             /\ ~ Pulled(w, i)' /\ ~ Forwarded(w, i)' /\ ~ ToldDown(w, i)'
  BY <1>1 DEF Upper, KeepsUpper, Pulled, ToldDown
<1>2. ASSUME NEW p \in pulls', p.link = w, p.id = i
      PROVE  /\ i \in DOMAIN waits'[w] /\ p.call = CallOf(w, i)' /\ served'[p.call] = 1
             /\ ~ Forwarded(w, i)' /\ ~ ToldDown(w, i)'
  BY <1>2 DEF Upper, KeepsUpper, ToldDown
<1>3. \A p, q \in pulls' : p.link = w /\ p.id = i /\ q.link = w /\ q.id = i => p = q
  BY DEF Upper, KeepsUpper
<1>4. ASSUME NEW m \in Down(w)', IsReply(m), m.id = i
      PROVE  i \in DOMAIN waits'[w] /\ Fits(CallOf(w, i), m.answer)' /\ ~ Forwarded(w, i)'
  BY <1>4 DEF Upper, KeepsUpper, Fits
<1> QED
  BY <1>1, <1>2, <1>3, <1>4 DEF Upper, IsCall, IsReply

LEMMA LowerKept ==
    ASSUME NEW w, NEW i, Lower(w, i), KeepsLower(w, i)
    PROVE  Lower(w, i)'
<1>1. ASSUME NEW m \in Down(w)', IsCall(m), m.id = i
      PROVE  /\ i \in DOMAIN pageWaits'[w] /\ m.call = PageCallOf(w, i)' /\ served'[m.call] = 0
             /\ ~ Held(w, i)' /\ ~ ToldUp(w, i)'
  BY <1>1 DEF Lower, KeepsLower, Held, ToldUp
<1>2. ASSUME NEW k \in DOMAIN rwMap'[w], rwMap'[w][k] = i
      PROVE  i \in DOMAIN pageWaits'[w] /\ ~ ToldUp(w, i)'
  BY <1>2 DEF Lower, KeepsLower, ToldUp
<1>3. \A k, l \in DOMAIN rwMap'[w] : rwMap'[w][k] = i /\ rwMap'[w][l] = i => k = l
  BY DEF Lower, KeepsLower
<1>4. ASSUME NEW h \in handling'[w], h.id \in DOMAIN rwMap'[w], rwMap'[w][h.id] = i
      PROVE  /\ h.call = PageCallOf(w, i)'
             /\ served'[h.call] = IF h.answers = 0 THEN 0 ELSE 1
  BY <1>4 DEF Lower, KeepsLower
<1>5. ASSUME NEW m \in Up(w)', IsReply(m), m.id = i
      PROVE  i \in DOMAIN pageWaits'[w] /\ Fits(PageCallOf(w, i), m.answer)'
  BY <1>5 DEF Lower, KeepsLower, Fits
<1> QED
  BY <1>1, <1>2, <1>3, <1>4, <1>5 DEF Lower, IsCall, IsReply

-----------------------------------------------------------------------------
(* Steps that leave the waitings as they are *)

SameTables == UNCHANGED <<waits, cbMap, pageWaits>>

LEMMA SameCalls ==
    ASSUME SameTables
    PROVE  /\ \A v \in Workers : \A j : CallOf(v, j)' = CallOf(v, j)
           /\ \A v \in Workers : \A j : Forwarded(v, j)' <=> Forwarded(v, j)
           /\ \A v \in Workers : \A j \in DOMAIN pageWaits[v] :
                 PageCallOf(v, j)' = PageCallOf(v, j)
           /\ \A v \in Workers : DOMAIN waits'[v] = DOMAIN waits[v]
           /\ \A v \in Workers : DOMAIN pageWaits'[v] = DOMAIN pageWaits[v]
<1>1. waits' = waits /\ cbMap' = cbMap /\ pageWaits' = pageWaits
  BY DEF SameTables
<1>2. \A v \in Workers : \A j : CallOf(v, j)' = CallOf(v, j)
  BY <1>1 DEF CallOf
<1>3. \A v \in Workers : ForwardIds(v)' = ForwardIds(v)
  BY <1>1 DEF ForwardIds, OwnPageIds
<1>4. \A v \in Workers : \A j : Forwarded(v, j)' <=> Forwarded(v, j)
  BY <1>1, <1>3 DEF Forwarded
<1>5. \A v \in Workers : \A j \in DOMAIN pageWaits[v] : PageCallOf(v, j)' = PageCallOf(v, j)
  BY <1>1 DEF PageCallOf, CallOf
<1> QED
  BY <1>1, <1>2, <1>4, <1>5

LEMMA SameWaitings ==
    ASSUME SameTables, UNCHANGED result, Waitings
    PROVE  Waitings'
<1>1. waits' = waits /\ cbMap' = cbMap /\ pageWaits' = pageWaits /\ result' = result
  BY DEF SameTables
<1>2. \A v \in Workers : /\ OwnIds(v)' = OwnIds(v) /\ GoIds(v)' = GoIds(v)
                         /\ OwnPageIds(v)' = OwnPageIds(v) /\ ForwardIds(v)' = ForwardIds(v)
                         /\ CallsIn(v)' = CallsIn(v)
  BY <1>1 DEF OwnIds, GoIds, OwnPageIds, ForwardIds, CallsIn
<1>3. \A v \in Workers : GoCalls(v)' /\ OwnCalls(v)'
  BY <1>1, <1>2 DEF Waitings, GoCalls, OwnCalls
<1>4. PageCalls' /\ Forwardings'
  BY <1>1, <1>2 DEF Waitings, PageCalls, Forwardings
<1>5. OpenCalls'
  BY <1>1, <1>2 DEF Waitings, OpenCalls
<1> QED
  BY <1>3, <1>4, <1>5 DEF Waitings

(* Nothing new is on its way, and nobody has been served.                   *)
FewerTokens ==
    /\ \A v \in Workers : Up(v)' \subseteq Up(v) /\ Down(v)' \subseteq Down(v)
    /\ \A v \in Workers : \A h \in handling'[v] : h.id \in DOMAIN rwMap[v] => h \in handling[v]
    /\ UNCHANGED <<pulls, rwMap, served>>

LEMMA TokensFewer ==
    ASSUME Tokens, SameTables, FewerTokens, \A v \in Workers : Handlers(v)'
    PROVE  Tokens'
<1>1. ASSUME NEW v \in Workers, NEW j
      PROVE  Upper(v, j)'
  <2>1. Upper(v, j)
    BY TokensAll
  <2>2. KeepsUpper(v, j)
    BY SameCalls DEF KeepsUpper, FewerTokens
  <2> QED
    BY <2>1, <2>2, UpperKept
<1>2. ASSUME NEW v \in Workers, NEW j
      PROVE  Lower(v, j)'
  <2>1. Lower(v, j)
    BY TokensAll
  <2>2. KeepsLower(v, j)
    BY SameCalls DEF KeepsLower, FewerTokens
  <2> QED
    BY <2>1, <2>2, LowerKept
<1>3. \A p \in pulls' : p.link \in Workers
  BY TokensAll DEF FewerTokens
<1> QED
  BY <1>1, <1>2, <1>3, TokensNext DEF AllTokens

(* The page takes a call, or a download, and posts the answer, if at all.   *)
ServedAt(c) == \A d \in Calls : d # c => served'[d] = served[d]

PageDeals(w, i, answer) ==
    /\ i \in DOMAIN waits[w] /\ ~ Forwarded(w, i) /\ ~ ToldDown(w, i)
    /\ \A v \in Workers : Up(v)' \subseteq Up(v)
    /\ \A m \in Up(w)' : ~ (IsCall(m) /\ m.id = i)
    /\ \A v \in Workers :
          Down(v)' \subseteq IF v = w THEN Down(v) \cup {Reply(i, answer)} ELSE Down(v)
    /\ \A p \in pulls' : p \in pulls /\ ~ (p.link = w /\ p.id = i)
    /\ UNCHANGED <<rwMap, handling>>
    /\ ServedAt(CallOf(w, i)) /\ Fits(CallOf(w, i), answer)'

LEMMA TokensPageDeals ==
    ASSUME Tokens, Waitings, SameTables,
           NEW w \in Workers, NEW i, NEW answer, PageDeals(w, i, answer)
    PROVE  Tokens'
<1> DEFINE c == CallOf(w, i)
           r == Reply(i, answer)
<1>1. IsReply(r) /\ ~ IsCall(r) /\ r.id = i /\ r.answer = answer
  BY DEF IsReply, IsCall, Reply
<1>2. c \in Calls
  BY CallOfFacts DEF PageDeals
<1>3. \A v \in Workers : \A j \in DOMAIN waits[v] :
          CallOf(v, j) \in Calls /\ (~ (v = w /\ j = i) => CallOf(v, j) # c)
  BY CallOfFacts DEF PageDeals
<1>4. \A v \in Workers : \A j \in DOMAIN pageWaits[v] :
          PageCallOf(v, j) \in Calls /\ PageCallOf(v, j) # c
  BY PageCallOfFacts DEF PageDeals
<1>5. c' = c
  BY SameCalls
<1> HIDE DEF c, r
<1>6. ASSUME NEW v \in Workers, NEW j, ~ (v = w /\ j = i)
      PROVE  Upper(v, j)'
  <2>1. Upper(v, j)
    BY TokensAll
  <2>2. j \in DOMAIN waits[v] => served'[CallOf(v, j)] = served[CallOf(v, j)]
    BY <1>3, <1>6 DEF PageDeals, ServedAt, c
  <2>3. \A m \in Down(v)' : m \in Down(v) \/ (v = w /\ m = r)
    BY DEF PageDeals, r
  <2>4. KeepsUpper(v, j)
    BY <1>1, <1>6, <2>2, <2>3, SameCalls DEF KeepsUpper, PageDeals
  <2> QED
    BY <2>1, <2>4, UpperKept
<1>7. Upper(w, i)'
  <2>1. \A m \in Up(w)' : ~ (IsCall(m) /\ m.id = i)
    BY DEF PageDeals
  <2>2. \A p \in pulls' : ~ (p.link = w /\ p.id = i)
    BY DEF PageDeals
  <2>3. \A m \in Down(w)' : IsReply(m) /\ m.id = i => m = r
    BY DEF PageDeals, ToldDown, r
  <2>4. i \in DOMAIN waits'[w] /\ ~ Forwarded(w, i)'
    BY SameCalls DEF PageDeals
  <2>5. Fits(CallOf(w, i), answer)'
    BY DEF PageDeals
  <2>6. \A m \in Down(w)' : IsReply(m) /\ m.id = i =>
            i \in DOMAIN waits'[w] /\ Fits(CallOf(w, i), m.answer)' /\ ~ Forwarded(w, i)'
    BY <1>1, <2>3, <2>4, <2>5
  <2> QED
    BY <2>1, <2>2, <2>6 DEF Upper, IsReply, IsCall
<1>8. ASSUME NEW v \in Workers, NEW j
      PROVE  Lower(v, j)'
  <2>1. Lower(v, j)
    BY TokensAll
  <2>2. j \in DOMAIN pageWaits[v] => served'[PageCallOf(v, j)] = served[PageCallOf(v, j)]
    BY <1>4 DEF PageDeals, ServedAt, c
  <2>3. \A m \in Down(v)' : m \in Down(v) \/ m = r
    BY DEF PageDeals, r
  <2>4. KeepsLower(v, j)
    BY <1>1, <2>2, <2>3, SameCalls DEF KeepsLower, PageDeals
  <2> QED
    BY <2>1, <2>4, LowerKept
<1>9. \A v \in Workers : Handlers(v)'
  BY TokensAll DEF PageDeals, Handlers
<1>10. \A p \in pulls' : p.link \in Workers
  BY TokensAll DEF PageDeals
<1> QED
  BY <1>6, <1>7, <1>8, <1>9, <1>10, TokensNext DEF AllTokens

(* The page begins a download for a worker.                                 *)
PageBegins(w, i, p) ==
    /\ i \in DOMAIN waits[w] /\ ~ Forwarded(w, i) /\ ~ ToldDown(w, i) /\ ~ Pulled(w, i)
    /\ \A v \in Workers : Up(v)' \subseteq Up(v) /\ Down(v)' \subseteq Down(v)
    /\ \A m \in Up(w)' : ~ (IsCall(m) /\ m.id = i)
    /\ p.link = w /\ p.id = i /\ p.call = CallOf(w, i)
    /\ pulls' = pulls \cup {p}
    /\ UNCHANGED <<rwMap, handling>>
    /\ ServedAt(p.call) /\ served'[p.call] = 1

LEMMA TokensPageBegins ==
    ASSUME Tokens, Waitings, SameTables,
           NEW w \in Workers, NEW i, NEW p, PageBegins(w, i, p)
    PROVE  Tokens'
<1> DEFINE c == CallOf(w, i)
<1>1. c \in Calls /\ p.call = c
  BY CallOfFacts DEF PageBegins
<1>2. \A v \in Workers : \A j \in DOMAIN waits[v] :
          CallOf(v, j) \in Calls /\ (~ (v = w /\ j = i) => CallOf(v, j) # c)
  BY CallOfFacts DEF PageBegins
<1>3. \A v \in Workers : \A j \in DOMAIN pageWaits[v] :
          PageCallOf(v, j) \in Calls /\ PageCallOf(v, j) # c
  BY PageCallOfFacts DEF PageBegins
<1>4. c' = c
  BY SameCalls
<1> HIDE DEF c
<1>5. ASSUME NEW v \in Workers, NEW j, ~ (v = w /\ j = i)
      PROVE  Upper(v, j)'
  <2>1. Upper(v, j)
    BY TokensAll
  <2>2. j \in DOMAIN waits[v] => served'[CallOf(v, j)] = served[CallOf(v, j)]
    BY <1>1, <1>2, <1>5 DEF PageBegins, ServedAt
  <2>3. \A q \in pulls' : q.link = v /\ q.id = j => q \in pulls
    BY <1>5 DEF PageBegins
  <2>4. KeepsUpper(v, j)
    BY <2>2, <2>3, SameCalls DEF KeepsUpper, PageBegins
  <2> QED
    BY <2>1, <2>4, UpperKept
<1>6. Upper(w, i)'
  <2>1. \A m \in Up(w)' : ~ (IsCall(m) /\ m.id = i)
    BY DEF PageBegins
  <2>2. \A q \in pulls' : q.link = w /\ q.id = i => q = p
    BY DEF PageBegins, Pulled
  <2>3. \A m \in Down(w)' : ~ (IsReply(m) /\ m.id = i)
    BY DEF PageBegins, ToldDown
  <2>4. i \in DOMAIN waits'[w] /\ ~ Forwarded(w, i)' /\ CallOf(w, i)' = p.call
    BY <1>1, <1>4, SameCalls DEF PageBegins, c
  <2>5. ~ ToldDown(w, i)'
    BY <2>3 DEF ToldDown, IsReply
  <2>6. served'[p.call] = 1
    BY DEF PageBegins
  <2> QED
    BY <2>1, <2>2, <2>3, <2>4, <2>5, <2>6 DEF Upper, IsReply, IsCall
<1>7. ASSUME NEW v \in Workers, NEW j
      PROVE  Lower(v, j)'
  <2>1. Lower(v, j)
    BY TokensAll
  <2>2. j \in DOMAIN pageWaits[v] => served'[PageCallOf(v, j)] = served[PageCallOf(v, j)]
    BY <1>1, <1>3 DEF PageBegins, ServedAt
  <2>3. KeepsLower(v, j)
    BY <2>2, SameCalls DEF KeepsLower, PageBegins
  <2> QED
    BY <2>1, <2>3, LowerKept
<1>8. \A v \in Workers : Handlers(v)'
  BY TokensAll DEF PageBegins, Handlers
<1>9. \A q \in pulls' : q.link \in Workers
  BY TokensAll DEF PageBegins
<1> QED
  BY <1>5, <1>6, <1>7, <1>8, <1>9, TokensNext DEF AllTokens

(* What a worker does with one call of the page: the others are not touched. *)
OthersKept(w, i) ==
    /\ \A v \in Workers : \A m \in Up(v)' : IsCall(m) => m \in Up(v)
    /\ \A v \in Workers : Down(v)' \subseteq Down(v)
    /\ \A v \in Workers : \A m \in Up(v)' :
          IsReply(m) => m \in Up(v) \/ (v = w /\ m.id = i)
    /\ \A v \in Workers : \A k \in DOMAIN rwMap'[v] :
          \/ k \in DOMAIN rwMap[v] /\ rwMap'[v][k] = rwMap[v][k]
          \/ v = w /\ rwMap'[v][k] = i
    /\ \A v \in Workers : \A h \in handling'[v] : h.id \in DOMAIN rwMap'[v] =>
          h \in handling[v] \/ (v = w /\ rwMap'[v][h.id] = i)
    /\ UNCHANGED pulls
    /\ i \in DOMAIN pageWaits[w] => ServedAt(PageCallOf(w, i))
    /\ i \notin DOMAIN pageWaits[w] => UNCHANGED served

LEMMA TokensWorkerDeals ==
    ASSUME Tokens, Waitings, SameTables, NEW w \in Workers, NEW i,
           OthersKept(w, i), Lower(w, i)', \A v \in Workers : Handlers(v)'
    PROVE  Tokens'
<1>1. ASSUME NEW v \in Workers, NEW j
      PROVE  Upper(v, j)'
  <2>1. Upper(v, j)
    BY TokensAll
  <2>2. j \in DOMAIN waits[v] /\ ~ Forwarded(v, j) => served'[CallOf(v, j)] = served[CallOf(v, j)]
    <3>1. CASE i \in DOMAIN pageWaits[w]
      BY <3>1, CallOfFacts, PageCallOfFacts DEF OthersKept, ServedAt
    <3>2. CASE i \notin DOMAIN pageWaits[w]
      BY <3>2 DEF OthersKept
    <3> QED
      BY <3>1, <3>2
  <2>3. KeepsUpper(v, j)
    BY <2>2, SameCalls DEF KeepsUpper, OthersKept
  <2> QED
    BY <2>1, <2>3, UpperKept
<1>2. ASSUME NEW v \in Workers, NEW j, ~ (v = w /\ j = i)
      PROVE  Lower(v, j)'
  <2>1. Lower(v, j)
    BY TokensAll
  <2>2. j \in DOMAIN pageWaits[v] => served'[PageCallOf(v, j)] = served[PageCallOf(v, j)]
    <3>1. CASE i \in DOMAIN pageWaits[w]
      BY <1>2, <3>1, PageCallOfFacts DEF OthersKept, ServedAt
    <3>2. CASE i \notin DOMAIN pageWaits[w]
      BY <3>2 DEF OthersKept
    <3> QED
      BY <3>1, <3>2
  <2>3. KeepsLower(v, j)
    BY <1>2, <2>2, SameCalls DEF KeepsLower, OthersKept
  <2> QED
    BY <2>1, <2>3, LowerKept
<1>3. \A p \in pulls' : p.link \in Workers
  BY TokensAll DEF OthersKept
<1> QED
  BY <1>1, <1>2, <1>3, TokensNext DEF AllTokens

-----------------------------------------------------------------------------
(* The actions, one by one: messages that reach the page *)

RStep == R!RpcNext \/ UNCHANGED <<served, result>>

(* The parts of the invariant that speak of the tables and results alone *)
LEMMA Served ==
    ASSUME Tables, NEW c \in Calls, result[c] = "open", served[c] = 0,
           served' = [served EXCEPT ![c] = @ + 1], UNCHANGED result
    PROVE  /\ RStep /\ ServedAt(c) /\ served'[c] = 1
           /\ served' \in [Calls -> Nat]
           /\ \A d \in Calls : result'[d] = "idle" => served'[d] = 0
<1>1. served \in [Calls -> Nat] /\ served[c] + 1 = 1
  BY DEF Tables
<1>2. served' = [served EXCEPT ![c] = 1]
  BY <1>1
<1>3. R!Serve(c)
  BY <1>2 DEF R!Serve
<1>4. \A d \in Calls : served'[d] = IF d = c THEN 1 ELSE served[d]
  BY <1>1, <1>2
<1>5. served' \in [Calls -> Nat]
  BY <1>1, <1>2
<1>6. \A d \in Calls : result'[d] = "idle" => served'[d] = 0
  BY <1>4 DEF Tables
<1> QED
  BY <1>3, <1>4, <1>5, <1>6 DEF RStep, R!RpcNext, ServedAt

(* A call that reaches the page is all there is of it.                      *)
LEMMA PageTakesCall ==
    ASSUME IInv, NEW w \in Workers, Received(w), Head(toPage[w]).type = "call"
    PROVE  LET m == Head(toPage[w]) IN
           /\ UpQueues' /\ \A v \in Workers : Up(v)' \subseteq Up(v)
           /\ m.id \in DOMAIN waits[w] /\ m.call = CallOf(w, m.id)
           /\ m.call \in Calls /\ From[m.call] = w /\ result[m.call] = "open"
           /\ served[m.call] = 0
           /\ ~ Pulled(w, m.id) /\ ~ Forwarded(w, m.id) /\ ~ ToldDown(w, m.id)
           /\ \A n \in Up(w)' : ~ (IsCall(n) /\ n.id = m.id)
<1> DEFINE m == Head(toPage[w])
<1>1. UpQueues' /\ m \in Up(w) /\ \A v \in Workers : Up(v)' = IF v = w THEN Up(v) \ {m} ELSE Up(v)
  BY TakesUp DEF IInv
<1>2. IsCall(m)
  BY DEF IsCall
<1> HIDE DEF m
<1>3. Upper(w, m.id)
  BY TokensAll DEF IInv
<1>4. /\ m.id \in DOMAIN waits[w] /\ m.call = CallOf(w, m.id) /\ served[m.call] = 0
      /\ ~ Pulled(w, m.id) /\ ~ Forwarded(w, m.id) /\ ~ ToldDown(w, m.id)
  BY <1>1, <1>2, <1>3 DEF Upper
<1>5. m.call \in Calls /\ From[m.call] = w /\ result[m.call] = "open"
  BY <1>4, CallOfFacts DEF IInv
<1>6. ASSUME NEW n \in Up(w)', IsCall(n), n.id = m.id
      PROVE  FALSE
  <2>1. n \in Up(w) /\ n # m
    BY <1>1, <1>6
  <2>2. n.type = m.type
    BY <1>2, <1>6 DEF IsCall
  <2>3. UniqueIn(Up(w))
    BY DEF IInv, UpQueues
  <2> QED
    BY <1>1, <1>6, <2>1, <2>2, <2>3 DEF UniqueIn
<1>7. \A v \in Workers : Up(v)' \subseteq Up(v)
  BY <1>1
<1> QED
  BY <1>1, <1>4, <1>5, <1>6, <1>7 DEF m

(* What is posted for a waiting that nothing is on its way for *)
LEMMA PostsReply ==
    ASSUME DownQueues, NEW w \in Workers, NEW i, NEW answer, ~ ToldDown(w, i),
           toWorker' = Posted(w, Reply(i, answer))
    PROVE  /\ DownQueues'
           /\ \A v \in Workers :
                 Down(v)' \subseteq IF v = w THEN Down(v) \cup {Reply(i, answer)} ELSE Down(v)
<1> DEFINE r == Reply(i, answer)
<1>1. r.type = "reply" /\ r.id = i
  BY DEF Reply
<1>2. \A n \in Down(w) : ~ (n.type = r.type /\ n.id = r.id)
  BY <1>1 DEF ToldDown, IsReply
<1> HIDE DEF r
<1>3. toWorker' = Posted(w, r)
  BY DEF r
<1>4. /\ DownQueues'
      /\ \A v \in Workers : Down(v)' \subseteq IF v = w THEN Down(v) \cup {r} ELSE Down(v)
  BY <1>2, <1>3, PostsDown
<1> QED
  BY <1>4 DEF r

LEMMA PageServesStep ==
    ASSUME IInv, NEW w \in Workers, PageServes(w)
    PROVE  IInv' /\ RStep
<1>m. PICK m, i, p : /\ m = Head(toPage[w]) /\ i = m.id
                     /\ p = [link |-> w, id |-> i, call |-> m.call]
  OBVIOUS
<1>1. /\ Received(w) /\ m.type = "call" /\ SameTables /\ UNCHANGED <<rwMap, handling, listed, result>>
      /\ served' = [served EXCEPT ![m.call] = @ + 1]
      /\ \/ pulls' = pulls \cup {p} /\ UNCHANGED toWorker
         \/ toWorker' = Posted(w, Reply(i, m.call)) /\ UNCHANGED pulls
  BY <1>m DEF PageServes, SameTables
<1>2. /\ UpQueues' /\ \A v \in Workers : Up(v)' \subseteq Up(v)
      /\ i \in DOMAIN waits[w] /\ m.call = CallOf(w, i)
      /\ m.call \in Calls /\ result[m.call] = "open" /\ served[m.call] = 0
      /\ ~ Pulled(w, i) /\ ~ Forwarded(w, i) /\ ~ ToldDown(w, i)
      /\ \A n \in Up(w)' : ~ (IsCall(n) /\ n.id = i)
  BY <1>m, <1>1, PageTakesCall
<1>3. p.link = w /\ p.id = i /\ p.call = m.call
  BY <1>m
<1>4. /\ RStep /\ ServedAt(m.call) /\ served'[m.call] = 1
      /\ served' \in [Calls -> Nat]
      /\ \A d \in Calls : result'[d] = "idle" => served'[d] = 0
  BY <1>1, <1>2, Served DEF IInv
<1>5. Tables' /\ Waitings'
  <2>1. Tables'
    BY <1>1, <1>4 DEF IInv, Tables, SameTables
  <2> QED
    BY <1>1, <2>1, SameWaitings DEF IInv
<1>6. CASE pulls' = pulls \cup {p} /\ UNCHANGED toWorker
  <2>1. DownQueues' /\ \A v \in Workers : Down(v)' = Down(v)
    BY <1>6, SameDown DEF IInv
  <2>2. PageBegins(w, i, p)
    BY <1>1, <1>2, <1>3, <1>4, <1>6, <2>1 DEF PageBegins
  <2>3. Tokens'
    BY <1>1, <2>2, TokensPageBegins DEF IInv
  <2> QED
    BY <1>2, <1>4, <1>5, <2>1, <2>3 DEF IInv
<1>7. CASE toWorker' = Posted(w, Reply(i, m.call)) /\ UNCHANGED pulls
  <2>1. /\ DownQueues'
        /\ \A v \in Workers :
              Down(v)' \subseteq IF v = w THEN Down(v) \cup {Reply(i, m.call)} ELSE Down(v)
    BY <1>2, <1>7, PostsReply DEF IInv
  <2>2. Fits(CallOf(w, i), m.call)'
    <3>1. CallOf(w, i)' = m.call
      BY <1>1, <1>2, SameCalls
    <3> QED
      BY <3>1, <1>4 DEF Fits
  <2>3. PageDeals(w, i, m.call)
    BY <1>1, <1>2, <1>4, <1>7, <2>1, <2>2 DEF PageDeals, Pulled
  <2>4. Tokens'
    BY <1>1, <2>3, TokensPageDeals DEF IInv
  <2> QED
    BY <1>2, <1>4, <1>5, <2>1, <2>4 DEF IInv
<1> QED
  BY <1>1, <1>6, <1>7

LEMMA PageEndsCall ==
    ASSUME IInv, NEW w \in Workers, Received(w), Head(toPage[w]).type = "call",
           \/ toWorker' = Posted(w, Reply(Head(toPage[w]).id, Refused))
           \/ UNCHANGED toWorker,
           UNCHANGED <<listed, pageWaits, waits, cbMap, rwMap, handling, pulls, served, result>>
    PROVE  IInv' /\ RStep
<1>m. PICK m, i : m = Head(toPage[w]) /\ i = m.id
  OBVIOUS
<1>1. /\ UpQueues' /\ \A v \in Workers : Up(v)' \subseteq Up(v)
      /\ i \in DOMAIN waits[w] /\ m.call = CallOf(w, i)
      /\ m.call \in Calls /\ result[m.call] = "open" /\ served[m.call] = 0
      /\ ~ Pulled(w, i) /\ ~ Forwarded(w, i) /\ ~ ToldDown(w, i)
      /\ \A n \in Up(w)' : ~ (IsCall(n) /\ n.id = i)
  BY <1>m, PageTakesCall
<1>2. SameTables /\ RStep /\ UNCHANGED <<rwMap, handling, served, result, pulls, listed>>
  BY DEF SameTables, RStep
<1>3. Tables' /\ Waitings'
  <2>1. Tables'
    BY DEF IInv, Tables
  <2> QED
    BY <1>2, <2>1, SameWaitings DEF IInv
<1>4. /\ DownQueues'
      /\ \A v \in Workers :
            Down(v)' \subseteq IF v = w THEN Down(v) \cup {Reply(i, Refused)} ELSE Down(v)
  <2>1. CASE UNCHANGED toWorker
    BY <2>1, SameDown DEF IInv
  <2>2. CASE toWorker' = Posted(w, Reply(i, Refused))
    BY <1>1, <2>2, PostsReply DEF IInv
  <2> QED
    BY <1>m, <2>1, <2>2
<1>5. Fits(CallOf(w, i), Refused)'
  <2>1. CallOf(w, i)' = m.call
    BY <1>1, <1>2, SameCalls
  <2> QED
    BY <1>1, <1>2, <2>1 DEF Fits
<1>6. PageDeals(w, i, Refused)
  <2>1. ServedAt(CallOf(w, i))
    BY <1>2 DEF ServedAt
  <2> QED
    BY <1>1, <1>2, <1>4, <1>5, <2>1 DEF PageDeals, Pulled
<1>7. Tokens'
  BY <1>2, <1>6, TokensPageDeals DEF IInv
<1> QED
  BY <1>1, <1>2, <1>3, <1>4, <1>7 DEF IInv

LEMMA PageRefusesStep ==
    ASSUME IInv, NEW w \in Workers, PageRefuses(w)
    PROVE  IInv' /\ RStep
BY PageEndsCall DEF PageRefuses

LEMMA PullAnsweredStep ==
    ASSUME IInv, PullAnswered
    PROVE  IInv' /\ RStep
<1>1. PICK p \in pulls :
          /\ pulls' = pulls \ {p}
          /\ toWorker' = Posted(p.link, Reply(p.id, p.call))
          /\ UNCHANGED <<phase, listed, toPage, pageWaits, waits, cbMap, rwMap, handling,
                         served, result>>
  BY DEF PullAnswered
<1>m. PICK w, i, c : w = p.link /\ i = p.id /\ c = p.call
  OBVIOUS
<1>2. w \in Workers /\ Upper(w, i)
  BY <1>m, TokensAll DEF IInv
<1>3. /\ i \in DOMAIN waits[w] /\ c = CallOf(w, i) /\ served[c] = 1
      /\ ~ Forwarded(w, i) /\ ~ ToldDown(w, i)
      /\ \A m \in Up(w) : ~ (IsCall(m) /\ m.id = i)
      /\ \A q \in pulls : q.link = w /\ q.id = i => q = p
  BY <1>m, <1>2 DEF Upper, Pulled
<1>4. SameTables /\ RStep /\ UNCHANGED <<rwMap, handling, served, result, listed, toPage>>
  BY <1>1 DEF SameTables, RStep
<1>5. Tables' /\ Waitings' /\ UpQueues' /\ \A v \in Workers : Up(v)' = Up(v)
  <2>1. Tables'
    BY <1>1 DEF IInv, Tables
  <2> QED
    BY <1>4, <2>1, SameWaitings, SameUp DEF IInv
<1>6. /\ DownQueues'
      /\ \A v \in Workers :
            Down(v)' \subseteq IF v = w THEN Down(v) \cup {Reply(i, c)} ELSE Down(v)
  BY <1>m, <1>1, <1>2, <1>3, PostsReply DEF IInv
<1>7. Fits(CallOf(w, i), c)'
  <2>1. CallOf(w, i)' = c
    BY <1>2, <1>3, <1>4, SameCalls
  <2> QED
    BY <1>3, <1>4, <2>1 DEF Fits
<1>8. PageDeals(w, i, c)
  <2>1. ServedAt(CallOf(w, i))
    BY <1>4 DEF ServedAt
  <2> QED
    BY <1>1, <1>2, <1>3, <1>4, <1>5, <1>6, <1>7, <2>1 DEF PageDeals
<1>9. Tokens'
  BY <1>2, <1>4, <1>8, TokensPageDeals DEF IInv
<1> QED
  BY <1>4, <1>5, <1>6, <1>9 DEF IInv

-----------------------------------------------------------------------------
(* Messages that reach a worker, and what its Go program does with them *)

LEMMA WorkerTakesCall ==
    ASSUME IInv, NEW w \in Workers, Taken(w), Head(toWorker[w]).type = "call"
    PROVE  LET m == Head(toWorker[w]) IN
           /\ DownQueues' /\ \A v \in Workers : Down(v)' \subseteq Down(v)
           /\ m.id \in DOMAIN pageWaits[w] /\ m.call = PageCallOf(w, m.id)
           /\ m.call \in Calls /\ result[m.call] = "open" /\ served[m.call] = 0
           /\ ~ Held(w, m.id) /\ ~ ToldUp(w, m.id)
           /\ \A n \in Down(w)' : ~ (IsCall(n) /\ n.id = m.id)
<1> DEFINE m == Head(toWorker[w])
<1>1. /\ DownQueues' /\ m \in Down(w)
      /\ \A v \in Workers : Down(v)' = IF v = w THEN Down(v) \ {m} ELSE Down(v)
  BY TakesDown DEF IInv
<1>2. IsCall(m)
  BY DEF IsCall
<1> HIDE DEF m
<1>3. Lower(w, m.id)
  BY TokensAll DEF IInv
<1>4. /\ m.id \in DOMAIN pageWaits[w] /\ m.call = PageCallOf(w, m.id) /\ served[m.call] = 0
      /\ ~ Held(w, m.id) /\ ~ ToldUp(w, m.id)
  BY <1>1, <1>2, <1>3 DEF Lower
<1>5. m.call \in Calls /\ result[m.call] = "open"
  BY <1>4, PageCallOfFacts DEF IInv
<1>6. ASSUME NEW n \in Down(w)', IsCall(n), n.id = m.id
      PROVE  FALSE
  <2>1. n \in Down(w) /\ n # m
    BY <1>1, <1>6
  <2>2. n.type = m.type
    BY <1>2, <1>6 DEF IsCall
  <2>3. UniqueIn(Down(w))
    BY DEF IInv, DownQueues
  <2> QED
    BY <1>1, <1>6, <2>1, <2>2, <2>3 DEF UniqueIn
<1>7. \A v \in Workers : Down(v)' \subseteq Down(v)
  BY <1>1
<1> QED
  BY <1>1, <1>4, <1>5, <1>6, <1>7 DEF m

LEMMA SendsReply ==
    ASSUME UpQueues, NEW w \in Workers, NEW i, NEW answer, ~ ToldUp(w, i),
           toPage' = SentToPage(w, Reply(i, answer))
    PROVE  /\ UpQueues'
           /\ \A v \in Workers :
                 Up(v)' = IF v = w THEN Up(v) \cup {Reply(i, answer)} ELSE Up(v)
<1> DEFINE r == Reply(i, answer)
<1>1. r.type = "reply" /\ r.id = i
  BY DEF Reply
<1>2. \A n \in Up(w) : ~ (n.type = r.type /\ n.id = r.id)
  BY <1>1 DEF ToldUp, IsReply
<1> HIDE DEF r
<1>3. toPage' = SentToPage(w, r)
  BY DEF r
<1>4. UpQueues' /\ \A v \in Workers : Up(v)' = IF v = w THEN Up(v) \cup {r} ELSE Up(v)
  BY <1>2, <1>3, SendsUp
<1> QED
  BY <1>4 DEF r

(* A worker, or its program, replies to the call of a waiting of the page.  *)
WorkerReplies(w, i, answer) ==
    /\ i \in DOMAIN pageWaits[w] /\ ~ ToldUp(w, i)
    /\ \A v \in Workers : Down(v)' \subseteq Down(v)
    /\ \A m \in Down(w)' : ~ (IsCall(m) /\ m.id = i)
    /\ toPage' = SentToPage(w, Reply(i, answer))
    /\ \A v \in Workers : \A k \in DOMAIN rwMap'[v] :
          k \in DOMAIN rwMap[v] /\ rwMap'[v][k] = rwMap[v][k] /\ ~ (v = w /\ rwMap[v][k] = i)
    /\ \A v \in Workers : \A h \in handling'[v] : h.id \in DOMAIN rwMap'[v] => h \in handling[v]
    /\ UNCHANGED pulls
    /\ ServedAt(PageCallOf(w, i)) /\ Fits(PageCallOf(w, i), answer)'

LEMMA TokensWorkerReplies ==
    ASSUME UpQueues, Tokens, Waitings, SameTables,
           NEW w \in Workers, NEW i, NEW answer, WorkerReplies(w, i, answer),
           \A v \in Workers : Handlers(v)'
    PROVE  Tokens' /\ UpQueues'
<1> DEFINE r == Reply(i, answer)
<1>1. IsReply(r) /\ ~ IsCall(r) /\ r.id = i /\ r.answer = answer
  BY DEF IsReply, IsCall, Reply
<1>2. UpQueues' /\ \A v \in Workers : Up(v)' = IF v = w THEN Up(v) \cup {r} ELSE Up(v)
  BY SendsReply DEF WorkerReplies
<1> HIDE DEF r
<1>3. \A m \in Up(w)' : IsReply(m) /\ m.id = i => m = r
  BY <1>2 DEF WorkerReplies, ToldUp
<1>4. OthersKept(w, i)
  BY <1>1, <1>2 DEF OthersKept, WorkerReplies
<1>5. Lower(w, i)'
  <2>1. \A m \in Down(w)' : ~ (IsCall(m) /\ m.id = i)
    BY DEF WorkerReplies
  <2>2. \A k \in DOMAIN rwMap'[w] : rwMap'[w][k] # i
    BY DEF WorkerReplies
  <2>3. i \in DOMAIN pageWaits'[w] /\ Fits(PageCallOf(w, i), answer)'
    BY SameCalls DEF WorkerReplies
  <2>4. \A m \in Up(w)' : IsReply(m) /\ m.id = i =>
            i \in DOMAIN pageWaits'[w] /\ Fits(PageCallOf(w, i), m.answer)'
    BY <1>1, <1>3, <2>3
  <2> QED
    BY <2>1, <2>2, <2>4 DEF Lower, IsReply, IsCall
<1>6. Tokens'
  BY <1>4, <1>5, TokensWorkerDeals
<1> QED
  BY <1>2, <1>6

LEMMA WorkerServesStep ==
    ASSUME IInv, NEW w \in Workers, WorkerServes(w)
    PROVE  IInv' /\ RStep
<1>m. PICK m, i : m = Head(toWorker[w]) /\ i = m.id
  OBVIOUS
<1>1. /\ Taken(w) /\ m.type = "call" /\ SameTables
      /\ UNCHANGED <<rwMap, handling, listed, result, pulls>>
      /\ served' = [served EXCEPT ![m.call] = @ + 1]
      /\ toPage' = SentToPage(w, Reply(i, m.call))
  BY <1>m DEF WorkerServes, SameTables
<1>2. /\ DownQueues' /\ \A v \in Workers : Down(v)' \subseteq Down(v)
      /\ i \in DOMAIN pageWaits[w] /\ m.call = PageCallOf(w, i)
      /\ m.call \in Calls /\ result[m.call] = "open" /\ served[m.call] = 0
      /\ ~ Held(w, i) /\ ~ ToldUp(w, i)
      /\ \A n \in Down(w)' : ~ (IsCall(n) /\ n.id = i)
  BY <1>m, <1>1, WorkerTakesCall
<1>3. /\ RStep /\ ServedAt(m.call) /\ served'[m.call] = 1
      /\ served' \in [Calls -> Nat]
      /\ \A d \in Calls : result'[d] = "idle" => served'[d] = 0
  BY <1>1, <1>2, Served DEF IInv
<1>4. Tables' /\ Waitings'
  <2>1. Tables'
    BY <1>1, <1>3 DEF IInv, Tables, SameTables
  <2> QED
    BY <1>1, <2>1, SameWaitings DEF IInv
<1>5. Fits(PageCallOf(w, i), m.call)'
  <2>1. PageCallOf(w, i)' = m.call
    BY <1>1, <1>2, SameCalls
  <2> QED
    BY <2>1, <1>3 DEF Fits
<1>6. WorkerReplies(w, i, m.call)
  BY <1>1, <1>2, <1>3, <1>5 DEF WorkerReplies, Held
<1>7. \A v \in Workers : Handlers(v)'
  BY <1>1, TokensAll DEF IInv, Handlers
<1>8. Tokens' /\ UpQueues'
  BY <1>1, <1>6, <1>7, TokensWorkerReplies DEF IInv
<1> QED
  BY <1>2, <1>3, <1>4, <1>8 DEF IInv

LEMMA HandlersFinite ==
    ASSUME NEW S, IsFiniteSet(S)
    PROVE  IsFiniteSet({h.id : h \in S})
<1> DEFINE T == {h.id : h \in S}
           f == [h \in S |-> h.id]
<1>1. f \in Surjection(S, T)
  BY DEF Surjection
<1> QED
  BY <1>1, FS_Surjection

LEMMA PassesToGoStep ==
    ASSUME IInv, NEW w \in Workers, NEW m, NEW i, NEW id,
           m = Head(toWorker[w]), i = m.id,
           Taken(w), m.type = "call", SameTables,
           UNCHANGED <<listed, pulls, served, result, toPage>>,
           id \notin DOMAIN rwMap[w], \A h \in handling[w] : h.id # id,
           rwMap' = [rwMap EXCEPT ![w] = Put(@, id, i)],
           \/ handling' = handling
           \/ handling' = [handling EXCEPT ![w] = @ \cup
                {[id |-> id, call |-> m.call, path |-> GoLeaf(m), answers |-> 0]}]
    PROVE  IInv' /\ RStep
<1> PICK g : g = [id |-> id, call |-> m.call, path |-> GoLeaf(m), answers |-> 0]
  OBVIOUS
<1>1. /\ DownQueues' /\ \A v \in Workers : Down(v)' \subseteq Down(v)
      /\ i \in DOMAIN pageWaits[w] /\ m.call = PageCallOf(w, i)
      /\ m.call \in Calls /\ result[m.call] = "open" /\ served[m.call] = 0
      /\ ~ Held(w, i) /\ ~ ToldUp(w, i)
      /\ \A n \in Down(w)' : ~ (IsCall(n) /\ n.id = i)
  BY WorkerTakesCall
<1>2. id \notin DOMAIN rwMap[w] /\ \A h \in handling[w] : h.id # id
  OBVIOUS
<1>3. /\ DOMAIN rwMap' = Workers /\ DOMAIN handling' = Workers
      /\ \A v \in Workers : v # w => rwMap'[v] = rwMap[v] /\ handling'[v] = handling[v]
      /\ rwMap'[w] = Put(rwMap[w], id, i)
      /\ \/ handling'[w] = handling[w]
         \/ handling'[w] = handling[w] \cup {g}
  BY DEF IInv, Tables
<1>4. /\ DOMAIN rwMap'[w] = DOMAIN rwMap[w] \cup {id} /\ rwMap'[w][id] = i
      /\ \A k \in DOMAIN rwMap[w] : rwMap'[w][k] = rwMap[w][k]
  BY <1>2, <1>3 DEF Put
<1>5. /\ g.id = id /\ g.call = m.call /\ g.answers = 0
      /\ g = [id |-> g.id, call |-> g.call, path |-> g.path, answers |-> g.answers]
  OBVIOUS
<1>6. Tables'
  <2>1. IsFiniteSet(DOMAIN rwMap[w]) /\ IsFiniteSet(handling[w])
    BY DEF IInv, Tables
  <2>2. IsFiniteSet(DOMAIN rwMap[w] \cup {id}) /\ IsFiniteSet(handling[w] \cup {g})
    BY <2>1, FS_AddElement
  <2>3. IsFiniteSet(DOMAIN rwMap'[w]) /\ IsFiniteSet(handling'[w])
    BY <1>3, <1>4, <2>1, <2>2
  <2> QED
    BY <1>3, <2>3 DEF IInv, Tables, SameTables
<1>7. Waitings' /\ UpQueues' /\ \A v \in Workers : Up(v)' = Up(v)
  BY SameWaitings, SameUp DEF IInv
<1>8. OthersKept(w, i)
  <2>1. UNCHANGED <<pulls, served>>
    OBVIOUS
  <2>2. \A v \in Workers : \A k \in DOMAIN rwMap'[v] :
          \/ k \in DOMAIN rwMap[v] /\ rwMap'[v][k] = rwMap[v][k]
          \/ v = w /\ rwMap'[v][k] = i
    BY <1>3, <1>4
  <2>3. \A v \in Workers : \A h \in handling'[v] : h.id \in DOMAIN rwMap'[v] =>
          h \in handling[v] \/ (v = w /\ rwMap'[v][h.id] = i)
    BY <1>3, <1>4, <1>5
  <2> QED
    BY <1>1, <1>7, <2>1, <2>2, <2>3 DEF OthersKept, ServedAt
<1>9. Lower(w, i)'
  <2>1. \A n \in Down(w)' : ~ (IsCall(n) /\ n.id = i)
    BY <1>1
  <2>2. i \in DOMAIN pageWaits'[w] /\ ~ ToldUp(w, i)'
    BY <1>1, <1>7 DEF ToldUp, SameTables
  <2>3. \A k \in DOMAIN rwMap'[w] : rwMap'[w][k] = i => k = id
    BY <1>1, <1>4 DEF Held
  <2>4. \A h \in handling'[w] : h.id = id => h = g
    BY <1>2, <1>3
  <2>5. g.call = PageCallOf(w, i)' /\ served'[g.call] = 0
    BY <1>1, <1>5, SameCalls
  <2>6. \A h \in handling'[w] : h.id \in DOMAIN rwMap'[w] /\ rwMap'[w][h.id] = i =>
            h.call = PageCallOf(w, i)' /\ served'[h.call] = IF h.answers = 0 THEN 0 ELSE 1
    BY <1>5, <2>3, <2>4, <2>5
  <2>7. \A n \in Up(w)' : ~ (IsReply(n) /\ n.id = i)
    BY <1>1, <1>7 DEF ToldUp
  <2> QED
    BY <2>1, <2>2, <2>3, <2>6, <2>7 DEF Lower, IsReply, IsCall
<1>10. \A v \in Workers : Handlers(v)'
  <2>1. \A v \in Workers : Handlers(v)
    BY TokensAll DEF IInv
  <2>2. ASSUME NEW v \in Workers, v # w
        PROVE  Handlers(v)'
    BY <1>3, <2>1, <2>2 DEF Handlers
  <2>3. Handlers(w)'
    <3>1. ASSUME NEW h \in handling'[w]
          PROVE  /\ h = [id |-> h.id, call |-> h.call, path |-> h.path, answers |-> h.answers]
                 /\ h.answers \in Nat
                 /\ h.answers = 0 => h.id \in DOMAIN rwMap'[w]
      BY <1>3, <1>4, <1>5, <2>1, <3>1 DEF Handlers
    <3>2. \A a, b \in handling'[w] : a.id = b.id => a = b
      BY <1>2, <1>3, <1>5, <2>1 DEF Handlers
    <3> QED
      BY <3>1, <3>2 DEF Handlers
  <2> QED
    BY <2>2, <2>3
<1>11. Tokens'
  BY <1>8, <1>9, <1>10, TokensWorkerDeals DEF IInv
<1> QED
  BY <1>1, <1>6, <1>7, <1>11 DEF IInv, RStep

LEMMA WorkerPassesToGoStep ==
    ASSUME IInv, NEW w \in Workers, WorkerPassesToGo(w)
    PROVE  IInv' /\ RStep
<1>m. PICK m, i, id : /\ m = Head(toWorker[w]) /\ i = m.id
                      /\ id = FreshId(DOMAIN rwMap[w] \cup {h.id : h \in handling[w]})
  OBVIOUS
<1>1. /\ Taken(w) /\ m.type = "call" /\ SameTables /\ UNCHANGED <<listed, pulls, served, result>>
  BY <1>m DEF WorkerPassesToGo, SameTables
<1>2. CASE toPage' = SentToPage(w, Reply(i, Refused)) /\ UNCHANGED <<rwMap, handling>>
  <2>1. /\ DownQueues' /\ \A v \in Workers : Down(v)' \subseteq Down(v)
        /\ i \in DOMAIN pageWaits[w] /\ m.call = PageCallOf(w, i)
        /\ served[m.call] = 0
        /\ ~ Held(w, i) /\ ~ ToldUp(w, i)
        /\ \A n \in Down(w)' : ~ (IsCall(n) /\ n.id = i)
    BY <1>m, <1>1, WorkerTakesCall
  <2>2. Tables' /\ Waitings'
    <3>1. Tables'
      BY <1>1, <1>2 DEF IInv, Tables, SameTables
    <3> QED
      BY <1>1, <3>1, SameWaitings DEF IInv
  <2>3. Fits(PageCallOf(w, i), Refused)'
    <3>1. PageCallOf(w, i)' = m.call /\ served'[m.call] = 0
      BY <1>1, <2>1, SameCalls
    <3> QED
      BY <3>1 DEF Fits
  <2>4. WorkerReplies(w, i, Refused)
    BY <1>1, <1>2, <2>1, <2>3 DEF WorkerReplies, Held, ServedAt
  <2>5. \A v \in Workers : Handlers(v)'
    BY <1>2, TokensAll DEF IInv, Handlers
  <2>6. Tokens' /\ UpQueues'
    BY <1>1, <2>4, <2>5, TokensWorkerReplies DEF IInv
  <2> QED
    BY <1>1, <2>1, <2>2, <2>6 DEF IInv, RStep
<1>3. CASE /\ rwMap' = [rwMap EXCEPT ![w] = Put(@, id, i)]
           /\ \/ handling' = handling
              \/ handling' = [handling EXCEPT ![w] = @ \cup
                   {[id |-> id, call |-> m.call, path |-> GoLeaf(m), answers |-> 0]}]
           /\ UNCHANGED toPage
  <2>1. id \notin DOMAIN rwMap[w] /\ \A h \in handling[w] : h.id # id
    <3>1. IsFiniteSet(DOMAIN rwMap[w]) /\ IsFiniteSet(handling[w])
      BY DEF IInv, Tables
    <3>2. IsFiniteSet(DOMAIN rwMap[w] \cup {h.id : h \in handling[w]})
      BY <3>1, HandlersFinite, FS_Union
    <3> QED
      BY <1>m, <3>2, FreshIsFree
  <2> QED
    BY <1>m, <1>1, <1>3, <2>1, PassesToGoStep
<1> QED
  BY <1>m, <1>2, <1>3 DEF WorkerPassesToGo

(* A goroutine answers, with what fits its call if there is still a writer. *)
LEMMA GoRepliesStep ==
    ASSUME IInv, NEW w \in Workers, NEW h \in handling[w], NEW answer, NEW rest,
           GoReplies(w, h, answer),
           \/ h.answers = 0 /\ answer = Refused
           \/ h.answers # 0 /\ answer = h.call,
           handling' = [handling EXCEPT ![w] = (@ \ {h}) \cup rest],
           IsFiniteSet(rest),
           \A g \in rest :
              /\ rest = {g} /\ g.id = h.id /\ g.answers \in Nat /\ g.answers # 0
              /\ g = [id |-> g.id, call |-> g.call, path |-> g.path, answers |-> g.answers],
           SameTables, UNCHANGED <<listed, toWorker, pulls, served, result>>
    PROVE  IInv' /\ RStep
<1>1. Handlers(w) /\ \A v \in Workers : Handlers(v)
  BY TokensAll DEF IInv
<1>2. /\ DOMAIN handling' = Workers
      /\ \A v \in Workers : v # w => handling'[v] = handling[v]
      /\ handling'[w] = (handling[w] \ {h}) \cup rest
  BY DEF IInv, Tables
<1>3. \A g \in handling'[w] : g.id = h.id => g \in rest
  BY <1>1, <1>2 DEF Handlers
<1>4. IsFiniteSet(handling'[w])
  <2>1. IsFiniteSet(handling[w] \ {h})
    BY FS_RemoveElement DEF IInv, Tables
  <2>2. IsFiniteSet((handling[w] \ {h}) \cup rest)
    BY <2>1, FS_Union
  <2> QED
    BY <1>2, <2>2
<1>5. Waitings' /\ DownQueues' /\ \A v \in Workers : Down(v)' = Down(v)
  BY SameWaitings, SameDown DEF IInv
<1>6. \A a, b \in handling'[w] : a.id = b.id => a = b
  <2>1. ASSUME NEW a \in handling'[w], NEW b \in handling'[w], a.id = b.id
        PROVE  a = b
    <3>1. CASE a \in rest
      <4>1. b \in rest
        BY <1>3, <2>1, <3>1
      <4> QED
        BY <3>1, <4>1
    <3>2. CASE a \notin rest
      <4>1. a \in handling[w] /\ b \notin rest
        BY <1>2, <1>3, <2>1, <3>2
      <4>2. b \in handling[w]
        BY <1>2, <4>1
      <4> QED
        BY <1>1, <2>1, <4>1, <4>2 DEF Handlers
    <3> QED
      BY <3>1, <3>2
  <2> QED
    BY <2>1
<1>7. ASSUME NEW g \in handling'[w]
      PROVE  /\ g = [id |-> g.id, call |-> g.call, path |-> g.path, answers |-> g.answers]
             /\ g.answers \in Nat
             /\ g.answers = 0 => g.id \in DOMAIN rwMap[w] /\ g.id # h.id
  <2>1. CASE g \in rest
    BY <2>1
  <2>2. CASE g \notin rest
    <3>1. g \in handling[w] /\ g.id # h.id
      BY <1>2, <1>3, <2>2
    <3> QED
      BY <1>1, <3>1 DEF Handlers
  <2> QED
    BY <2>1, <2>2
<1>8. CASE h.id \notin DOMAIN rwMap[w]
  <2>1. UNCHANGED <<toPage, rwMap>>
    BY <1>8 DEF GoReplies
  <2>2. Tables'
    BY <1>2, <1>4, <2>1 DEF IInv, Tables, SameTables
  <2>3. UpQueues' /\ \A v \in Workers : Up(v)' = Up(v)
    BY <2>1, SameUp DEF IInv
  <2>4. FewerTokens
    <3>1. \A v \in Workers : \A g \in handling'[v] :
              g.id \in DOMAIN rwMap[v] => g \in handling[v]
      BY <1>2, <1>8
    <3> QED
      BY <1>5, <2>1, <2>3, <3>1 DEF FewerTokens
  <2>5. \A v \in Workers : Handlers(v)'
    <3>1. Handlers(w)'
      BY <1>6, <1>7, <2>1 DEF Handlers
    <3>2. \A v \in Workers : v # w => Handlers(v)'
      BY <1>1, <1>2, <2>1 DEF Handlers
    <3> QED
      BY <3>1, <3>2
  <2>6. Tokens'
    BY <2>4, <2>5, TokensFewer DEF IInv
  <2> QED
    BY <1>5, <2>2, <2>3, <2>6 DEF IInv, RStep
<1>9. CASE h.id \in DOMAIN rwMap[w]
  <2>m. PICK i : i = rwMap[w][h.id]
    OBVIOUS
  <2>1. toPage' = SentToPage(w, Reply(i, answer)) /\ rwMap' = [rwMap EXCEPT ![w] = Without(@, h.id)]
    BY <1>9, <2>m DEF GoReplies
  <2>2. /\ DOMAIN rwMap' = Workers
        /\ \A v \in Workers : v # w => rwMap'[v] = rwMap[v]
        /\ DOMAIN rwMap'[w] = DOMAIN rwMap[w] \ {h.id}
        /\ \A k \in DOMAIN rwMap[w] \ {h.id} : rwMap'[w][k] = rwMap[w][k]
    BY <2>1 DEF IInv, Tables, Without
  <2>3. Lower(w, i)
    BY TokensAll DEF IInv
  <2>4. /\ i \in DOMAIN pageWaits[w] /\ ~ ToldUp(w, i)
        /\ \A k \in DOMAIN rwMap[w] : rwMap[w][k] = i => k = h.id
        /\ h.call = PageCallOf(w, i) /\ served[h.call] = IF h.answers = 0 THEN 0 ELSE 1
        /\ \A m \in Down(w) : ~ (IsCall(m) /\ m.id = i)
    BY <1>9, <2>m, <2>3 DEF Lower, Held
  <2>5. Tables'
    <3>1. IsFiniteSet(DOMAIN rwMap'[w])
      <4>1. IsFiniteSet(DOMAIN rwMap[w])
        BY DEF IInv, Tables
      <4> QED
        BY <2>2, <4>1, FS_RemoveElement
    <3> QED
      BY <1>2, <1>4, <2>2, <3>1 DEF IInv, Tables, SameTables
  <2>6. Fits(PageCallOf(w, i), answer)'
    <3>1. PageCallOf(w, i)' = h.call
      BY <2>4, SameCalls
    <3> QED
      BY <2>4, <3>1 DEF Fits
  <2>7. WorkerReplies(w, i, answer)
    <3>1. \A v \in Workers : \A k \in DOMAIN rwMap'[v] :
              k \in DOMAIN rwMap[v] /\ rwMap'[v][k] = rwMap[v][k] /\ ~ (v = w /\ rwMap[v][k] = i)
      BY <2>2, <2>4
    <3>2. \A v \in Workers : \A g \in handling'[v] : g.id \in DOMAIN rwMap'[v] => g \in handling[v]
      BY <1>2, <2>2
    <3>3. UNCHANGED pulls /\ ServedAt(PageCallOf(w, i))
      BY DEF ServedAt
    <3> QED
      BY <1>5, <2>1, <2>4, <2>6, <3>1, <3>2, <3>3 DEF WorkerReplies
  <2>8. \A v \in Workers : Handlers(v)'
    <3>1. Handlers(w)'
      BY <1>6, <1>7, <2>2 DEF Handlers
    <3>2. \A v \in Workers : v # w => Handlers(v)'
      BY <1>1, <1>2, <2>2 DEF Handlers
    <3> QED
      BY <3>1, <3>2
  <2>9. Tokens' /\ UpQueues'
    BY <2>7, <2>8, TokensWorkerReplies DEF IInv
  <2> QED
    BY <1>5, <2>5, <2>9 DEF IInv, RStep
<1> QED
  BY <1>8, <1>9

LEMMA GoAnswersStep ==
    ASSUME IInv, NEW w \in Workers, NEW h \in handling[w], GoAnswers(w, h)
    PROVE  IInv' /\ RStep
<1>m. PICK rest : rest = IF h.answers = 1 THEN {} ELSE {[h EXCEPT !.answers = @ - 1]}
  OBVIOUS
<1>1. /\ GoReplies(w, h, h.call) /\ h.answers > 0
      /\ handling' = [handling EXCEPT ![w] = (@ \ {h}) \cup rest]
      /\ SameTables /\ UNCHANGED <<listed, toWorker, pulls, served, result>>
  BY <1>m DEF GoAnswers, SameTables
<1>2. /\ h = [id |-> h.id, call |-> h.call, path |-> h.path, answers |-> h.answers]
      /\ h.answers \in Nat
  BY TokensAll DEF IInv, Handlers
<1>3. IsFiniteSet(rest)
  BY <1>m, FS_EmptySet, FS_Singleton
<1>4. ASSUME NEW g \in rest
      PROVE  /\ rest = {g} /\ g.id = h.id /\ g.answers \in Nat /\ g.answers # 0
             /\ g = [id |-> g.id, call |-> g.call, path |-> g.path, answers |-> g.answers]
  <2>1. h.answers # 1 /\ rest = {g} /\ g = [h EXCEPT !.answers = h.answers - 1]
    BY <1>m
  <2>2. g = [id |-> h.id, call |-> h.call, path |-> h.path, answers |-> h.answers - 1]
    BY <1>2, <2>1
  <2> QED
    BY <1>1, <1>2, <2>1, <2>2
<1>5. h.answers # 0
  BY <1>1, <1>2
<1> QED
  BY <1>1, <1>3, <1>4, <1>5, GoRepliesStep

LEMMA GoRunsStep ==
    ASSUME IInv, NEW w \in Workers, NEW h \in handling[w], NEW n \in Nat, n # 0, NEW g,
           h.answers = 0, g = [h EXCEPT !.answers = n],
           served' = [served EXCEPT ![h.call] = @ + 1],
           handling' = [handling EXCEPT ![w] = (@ \ {h}) \cup {g}],
           SameTables, UNCHANGED <<listed, toPage, toWorker, rwMap, pulls, result>>
    PROVE  IInv' /\ RStep
<1>1. \A v \in Workers : Handlers(v)
  BY TokensAll DEF IInv
<1>2. /\ h = [id |-> h.id, call |-> h.call, path |-> h.path, answers |-> h.answers]
      /\ h.id \in DOMAIN rwMap[w] /\ \A a \in handling[w] : a.id = h.id => a = h
  BY <1>1 DEF Handlers
<1>3. g = [id |-> h.id, call |-> h.call, path |-> h.path, answers |-> n]
  BY <1>2
<1>4. /\ g.id = h.id /\ g.call = h.call /\ g.answers = n
      /\ g = [id |-> g.id, call |-> g.call, path |-> g.path, answers |-> g.answers]
  BY <1>3
<1>m. PICK i : i = rwMap[w][h.id]
  OBVIOUS
<1>5. Lower(w, i)
  BY TokensAll DEF IInv
<1>6. /\ i \in DOMAIN pageWaits[w] /\ ~ ToldUp(w, i)
      /\ \A k \in DOMAIN rwMap[w] : rwMap[w][k] = i => k = h.id
      /\ h.call = PageCallOf(w, i) /\ served[h.call] = 0
      /\ \A m \in Down(w) : ~ (IsCall(m) /\ m.id = i)
  BY <1>m, <1>2, <1>5 DEF Lower, Held
<1>7. h.call \in Calls /\ result[h.call] = "open"
  BY <1>6, PageCallOfFacts DEF IInv
<1>8. /\ RStep /\ ServedAt(h.call) /\ served'[h.call] = 1
      /\ served' \in [Calls -> Nat]
      /\ \A d \in Calls : result'[d] = "idle" => served'[d] = 0
  BY <1>6, <1>7, Served DEF IInv
<1>9. /\ DOMAIN handling' = Workers
      /\ \A v \in Workers : v # w => handling'[v] = handling[v]
      /\ handling'[w] = (handling[w] \ {h}) \cup {g}
  BY DEF IInv, Tables
<1>10. Tables'
  <2>1. IsFiniteSet((handling[w] \ {h}) \cup {g})
    BY FS_RemoveElement, FS_AddElement DEF IInv, Tables
  <2> QED
    BY <1>8, <1>9, <2>1 DEF IInv, Tables, SameTables
<1>11. /\ Waitings' /\ UpQueues' /\ DownQueues'
       /\ \A v \in Workers : Up(v)' = Up(v) /\ Down(v)' = Down(v)
  BY SameWaitings, SameUp, SameDown DEF IInv
<1>12. \A a \in handling'[w] : a.id = h.id => a = g
  BY <1>2, <1>9
<1>13. OthersKept(w, i)
  <2>1. \A v \in Workers : \A a \in handling'[v] : a.id \in DOMAIN rwMap'[v] =>
            a \in handling[v] \/ (v = w /\ rwMap'[v][a.id] = i)
    BY <1>m, <1>4, <1>9
  <2>2. UNCHANGED <<rwMap, pulls>>
    OBVIOUS
  <2> QED
    BY <1>6, <1>8, <1>11, <2>1, <2>2 DEF OthersKept
<1>14. Lower(w, i)'
  <2>1. PageCallOf(w, i)' = h.call /\ i \in DOMAIN pageWaits'[w]
    BY <1>6, SameCalls
  <2>2. /\ \A m \in Down(w)' : ~ (IsCall(m) /\ m.id = i)
        /\ \A m \in Up(w)' : ~ (IsReply(m) /\ m.id = i)
        /\ ~ ToldUp(w, i)'
    BY <1>6, <1>11 DEF ToldUp
  <2>3. \A k \in DOMAIN rwMap'[w] : rwMap'[w][k] = i => k = h.id
    BY <1>6
  <2>4. \A a \in handling'[w] : a.id \in DOMAIN rwMap'[w] /\ rwMap'[w][a.id] = i =>
            a.call = PageCallOf(w, i)' /\ served'[a.call] = IF a.answers = 0 THEN 0 ELSE 1
    BY <1>4, <1>8, <1>12, <2>1, <2>3
  <2> QED
    BY <2>1, <2>2, <2>3, <2>4 DEF Lower, IsReply, IsCall
<1>15. \A v \in Workers : Handlers(v)'
  <2>1. Handlers(w)'
    <3>1. ASSUME NEW a \in handling'[w]
          PROVE  /\ a = [id |-> a.id, call |-> a.call, path |-> a.path, answers |-> a.answers]
                 /\ a.answers \in Nat
                 /\ a.answers = 0 => a.id \in DOMAIN rwMap'[w]
      BY <1>1, <1>4, <1>9 DEF Handlers
    <3>2. \A a, b \in handling'[w] : a.id = b.id => a = b
      BY <1>1, <1>4, <1>9, <1>12 DEF Handlers
    <3> QED
      BY <3>1, <3>2 DEF Handlers
  <2>2. \A v \in Workers : v # w => Handlers(v)'
    BY <1>1, <1>9 DEF Handlers
  <2> QED
    BY <2>1, <2>2
<1>16. Tokens'
  BY <1>13, <1>14, <1>15, TokensWorkerDeals DEF IInv
<1> QED
  BY <1>8, <1>10, <1>11, <1>16 DEF IInv

LEMMA GoServesStep ==
    ASSUME IInv, NEW w \in Workers, NEW h \in handling[w], GoServes(w, h)
    PROVE  IInv' /\ RStep
<1>1. /\ h.answers = 0 /\ SameTables /\ UNCHANGED <<listed, toWorker, pulls, result>>
  BY DEF GoServes, SameTables
<1>2. CASE h.path \in GoFuncs(w)
  <2>1. PICK n \in 1 .. (IF h.path[Len(h.path)] = "listNode" THEN 2 ELSE 1) :
          handling' = [handling EXCEPT ![w] = (@ \ {h}) \cup {[h EXCEPT !.answers = n]}]
    BY <1>2 DEF GoServes
  <2>2. n \in Nat /\ n # 0
    OBVIOUS
  <2>m. PICK g : g = [h EXCEPT !.answers = n]
    OBVIOUS
  <2>3. served' = [served EXCEPT ![h.call] = @ + 1] /\ UNCHANGED <<toPage, rwMap>>
    BY <1>2 DEF GoServes
  <2> QED
    BY <1>1, <2>1, <2>2, <2>m, <2>3, GoRunsStep
<1>3. CASE h.path \notin GoFuncs(w)
  <2>1. /\ GoReplies(w, h, Refused) /\ UNCHANGED served
        /\ handling' = [handling EXCEPT ![w] = @ \ {h}]
    BY <1>3 DEF GoServes
  <2>2. handling' = [handling EXCEPT ![w] = (@ \ {h}) \cup {}]
    BY <2>1
  <2> QED
    BY <1>1, <2>1, <2>2, FS_EmptySet, GoRepliesStep
<1> QED
  BY <1>2, <1>3

-----------------------------------------------------------------------------
(* Programs that start and exit, workers that go *)

LEMMA LossStep ==
    ASSUME IInv, SameTables, UNCHANGED <<rwMap, pulls, served, result>>,
           listed' \subseteq listed,
           DOMAIN handling' = Workers, DOMAIN toPage' = Workers, DOMAIN toWorker' = Workers,
           \A v \in Workers : handling'[v] \in {handling[v], {}},
           \A v \in Workers : toPage'[v] \in {toPage[v], <<>>},
           \A v \in Workers : toWorker'[v] \in {toWorker[v], <<>>}
    PROVE  IInv' /\ RStep
<1>1. UpQueues' /\ \A v \in Workers : Up(v)' \subseteq Up(v)
  BY QueueEmpty DEF IInv, UpQueues, Up, UniqueIn
<1>2. DownQueues' /\ \A v \in Workers : Down(v)' \subseteq Down(v)
  BY QueueEmpty DEF IInv, DownQueues, Down, UniqueIn
<1>3. Tables'
  BY FS_EmptySet DEF IInv, Tables, SameTables
<1>4. Waitings'
  BY SameWaitings DEF IInv
<1>5. FewerTokens
  BY <1>1, <1>2 DEF FewerTokens
<1>6. \A v \in Workers : Handlers(v)'
  BY TokensAll DEF IInv, Handlers
<1>7. Tokens'
  BY <1>5, <1>6, TokensFewer DEF IInv
<1> QED
  BY <1>1, <1>2, <1>3, <1>4, <1>7 DEF IInv, RStep

LEMMA GoExitsStep ==
    ASSUME IInv, NEW w \in Workers, GoExits(w)
    PROVE  IInv' /\ RStep
BY LossStep DEF GoExits, SameTables, IInv, Tables, UpQueues, DownQueues

LEMMA GoStartsStep ==
    ASSUME IInv, NEW a \in Apps, GoStarts(a)
    PROVE  IInv' /\ RStep
BY LossStep DEF GoStarts, SameTables, IInv, Tables, UpQueues, DownQueues

LEMMA TerminatedStep ==
    ASSUME IInv, NEW a \in Apps, Terminated(a), listed' \subseteq listed
    PROVE  IInv' /\ RStep
BY LossStep DEF Terminated, SameTables, IInv, Tables, UpQueues, DownQueues

-----------------------------------------------------------------------------
(* Calls begin *)

LEMMA Opened ==
    ASSUME Tables, NEW c \in Calls, result[c] = "idle", UNCHANGED served,
           result' = Answered(c, "open")
    PROVE  /\ RStep /\ DOMAIN result' = Calls
           /\ \A d \in Calls : result'[d] = IF d = c THEN "open" ELSE result[d]
           /\ \A d \in Calls : result'[d] = "idle" => served'[d] = 0
<1>1. result' = [result EXCEPT ![c] = "open"] /\ DOMAIN result = Calls
  BY DEF Answered, Tables
<1>2. R!Open(c)
  BY <1>1 DEF R!Open
<1>3. \A d \in Calls : result'[d] = IF d = c THEN "open" ELSE result[d]
  BY <1>1
<1> QED
  BY <1>1, <1>2, <1>3 DEF RStep, R!RpcNext, Tables

(* A worker, or its program (by an id k of its own), makes a call.          *)
CallsUp(w, c, id, k, leaf) ==
    /\ id \notin DOMAIN waits[w] /\ From[c] = w /\ result[c] = "idle"
    /\ \/ waits' = [waits EXCEPT ![w] = Put(@, id, Own(c))] /\ UNCHANGED cbMap
       \/ /\ waits' = [waits EXCEPT ![w] = Put(@, id, GoCaller(k))]
          /\ k \notin DOMAIN cbMap[w]
          /\ cbMap' = [cbMap EXCEPT ![w] = Put(@, k, c)]
    /\ toPage' = SentToPage(w, CallMessage(c, id, leaf))
    /\ result' = Answered(c, "open")
    /\ UNCHANGED <<listed, toWorker, pageWaits, rwMap, handling, pulls, served>>

LEMMA CallsUpTables ==
    ASSUME IInv, NEW w \in Workers, NEW c \in Calls, NEW id, NEW k, NEW leaf,
           CallsUp(w, c, id, k, leaf)
    PROVE  /\ DOMAIN waits' = Workers /\ DOMAIN cbMap' = Workers
           /\ \A v \in Workers : v # w => waits'[v] = waits[v] /\ cbMap'[v] = cbMap[v]
           /\ DOMAIN waits'[w] = DOMAIN waits[w] \cup {id}
           /\ \A j \in DOMAIN waits[w] : waits'[w][j] = waits[w][j]
           /\ \A l \in DOMAIN cbMap[w] : l \in DOMAIN cbMap'[w] /\ cbMap'[w][l] = cbMap[w][l]
           /\ \/ /\ waits'[w][id] = Own(c) /\ cbMap'[w] = cbMap[w]
              \/ /\ waits'[w][id] = GoCaller(k) /\ k \notin DOMAIN cbMap[w]
                 /\ DOMAIN cbMap'[w] = DOMAIN cbMap[w] \cup {k} /\ cbMap'[w][k] = c
<1>1. DOMAIN waits = Workers /\ DOMAIN cbMap = Workers
  BY DEF IInv, Tables
<1>2. CASE waits' = [waits EXCEPT ![w] = Put(@, id, Own(c))] /\ UNCHANGED cbMap
  BY <1>1, <1>2 DEF CallsUp, Put
<1>3. CASE /\ waits' = [waits EXCEPT ![w] = Put(@, id, GoCaller(k))]
           /\ k \notin DOMAIN cbMap[w]
           /\ cbMap' = [cbMap EXCEPT ![w] = Put(@, k, c)]
  BY <1>1, <1>3 DEF CallsUp, Put
<1> QED
  BY <1>2, <1>3 DEF CallsUp

LEMMA CallsUpWaitings ==
    ASSUME IInv, NEW w \in Workers, NEW c \in Calls, NEW id, NEW k, NEW leaf,
           CallsUp(w, c, id, k, leaf)
    PROVE  Waitings'
<1> DEFINE T ==
      /\ DOMAIN waits' = Workers /\ DOMAIN cbMap' = Workers
      /\ \A v \in Workers : v # w => waits'[v] = waits[v] /\ cbMap'[v] = cbMap[v]
      /\ DOMAIN waits'[w] = DOMAIN waits[w] \cup {id}
      /\ \A j \in DOMAIN waits[w] : waits'[w][j] = waits[w][j]
      /\ \A l \in DOMAIN cbMap[w] : l \in DOMAIN cbMap'[w] /\ cbMap'[w][l] = cbMap[w][l]
<1>1. T
  BY CallsUpTables
<1>2. \/ waits'[w][id] = Own(c) /\ cbMap'[w] = cbMap[w]
      \/ /\ waits'[w][id] = GoCaller(k) /\ k \notin DOMAIN cbMap[w]
         /\ DOMAIN cbMap'[w] = DOMAIN cbMap[w] \cup {k} /\ cbMap'[w][k] = c
  BY CallsUpTables
<1>3. /\ id \notin DOMAIN waits[w] /\ From[c] = w /\ result[c] = "idle"
      /\ pageWaits' = pageWaits
      /\ \A d \in Calls : result'[d] = IF d = c THEN "open" ELSE result[d]
  BY Opened DEF CallsUp, IInv
<1>4. Waitings
  BY DEF IInv
<1>5. /\ waits'[w][id] = Own(c) => waits'[w][id].own /\ waits'[w][id].call = c
      /\ waits'[w][id] = GoCaller(k) => ~ waits'[w][id].own /\ waits'[w][id].id = k
  BY DEF Own, GoCaller
<1>6. \A v \in Workers : v # w => /\ OwnIds(v)' = OwnIds(v) /\ GoIds(v)' = GoIds(v)
                                  /\ CallsIn(v)' = CallsIn(v)
  BY <1>1 DEF OwnIds, GoIds, CallsIn
<1>7. \A j \in DOMAIN waits[w] : (j \in OwnIds(w)' <=> j \in OwnIds(w))
                                 /\ (j \in GoIds(w)' <=> j \in GoIds(w))
  BY <1>1 DEF OwnIds, GoIds
<1>8. ASSUME NEW v \in Workers
      PROVE  GoCalls(v)' /\ OwnCalls(v)'
  <2>1. CASE v # w
    <3>1. waits'[v] = waits[v] /\ cbMap'[v] = cbMap[v] /\ GoCalls(v) /\ OwnCalls(v)
      BY <1>1, <1>4, <2>1 DEF Waitings
    <3>2. \A d \in Calls : result[d] = "open" => result'[d] = "open"
      BY <1>3
    <3> QED
      BY <1>6, <2>1, <3>1, <3>2 DEF GoCalls, OwnCalls
  <2>2. CASE v = w
    <3>1. GoCalls(w) /\ OwnCalls(w)
      BY <1>4 DEF Waitings
    <3>2. \A j \in OwnIds(w)' : j \in OwnIds(w) \/ (j = id /\ waits'[w][id].own)
      BY <1>1, <1>7 DEF OwnIds
    <3>3. \A j \in GoIds(w)' : j \in GoIds(w) \/ (j = id /\ ~ waits'[w][id].own)
      BY <1>1, <1>7 DEF OwnIds, GoIds
    <3>4. \A d \in Calls : result[d] = "open" => result'[d] = "open" /\ d # c
      BY <1>3
    <3>5. CASE waits'[w][id] = Own(c) /\ cbMap'[w] = cbMap[w]
      <4>1. GoCalls(w)'
        <5>1. \A j \in GoIds(w) : waits'[w][j] = waits[w][j]
          BY <1>1 DEF GoIds
        <5>2. \A j \in GoIds(w)' : j \in GoIds(w)
          BY <1>5, <3>3, <3>5
        <5> QED
          BY <3>1, <3>4, <3>5, <5>1, <5>2 DEF GoCalls
      <4>2. OwnCalls(w)'
        <5>1. \A j \in OwnIds(w) : waits'[w][j] = waits[w][j]
          BY <1>1 DEF OwnIds
        <5> QED
          BY <1>3, <1>5, <3>1, <3>2, <3>4, <3>5, <5>1 DEF OwnCalls, GoCalls
      <4> QED
        BY <2>2, <4>1, <4>2
    <3>6. CASE /\ waits'[w][id] = GoCaller(k) /\ k \notin DOMAIN cbMap[w]
               /\ DOMAIN cbMap'[w] = DOMAIN cbMap[w] \cup {k} /\ cbMap'[w][k] = c
      <4>1. \A l \in DOMAIN cbMap'[w] : l = k \/ (l \in DOMAIN cbMap[w] /\ l # k)
        BY <3>6
      <4>2. \A l \in DOMAIN cbMap[w] : cbMap'[w][l] = cbMap[w][l]
        BY <1>1
      <4>3. \A j \in GoIds(w) : waits'[w][j] = waits[w][j]
        BY <1>1 DEF GoIds
      <4>4. \A j \in OwnIds(w) : waits'[w][j] = waits[w][j]
        BY <1>1 DEF OwnIds
      <4>5. GoCalls(w)'
        <5>1. \A l \in DOMAIN cbMap'[w] :
                /\ cbMap'[w][l] \in Calls /\ From[cbMap'[w][l]] = w
                /\ result'[cbMap'[w][l]] = "open"
                /\ l # k => cbMap'[w][l] # c
          BY <1>3, <3>1, <3>4, <3>6, <4>1, <4>2 DEF GoCalls
        <5>2. \A l, n \in DOMAIN cbMap'[w] : cbMap'[w][l] = cbMap'[w][n] => l = n
          BY <3>1, <3>6, <4>1, <4>2, <5>1 DEF GoCalls
        <5>3. \A j \in GoIds(w) : waits'[w][j].id \in DOMAIN cbMap[w] /\ waits'[w][j].id # k
          BY <3>1, <3>6, <4>3 DEF GoCalls
        <5>4. \A j \in GoIds(w)' : j \in GoIds(w) \/ (j = id /\ waits'[w][j].id = k)
          BY <1>5, <3>3, <3>6
        <5>5. \A j \in GoIds(w)' : waits'[w][j].id \in DOMAIN cbMap'[w]
          BY <3>6, <5>3, <5>4
        <5>6. \A i, j \in GoIds(w)' : waits'[w][i].id = waits'[w][j].id => i = j
          BY <3>1, <4>3, <5>3, <5>4 DEF GoCalls
        <5> QED
          BY <5>1, <5>2, <5>5, <5>6 DEF GoCalls
      <4>6. OwnCalls(w)'
        BY <1>3, <1>5, <3>1, <3>2, <3>4, <3>6, <4>1, <4>2, <4>4 DEF OwnCalls
      <4> QED
        BY <2>2, <4>5, <4>6
    <3> QED
      BY <1>2, <2>2, <3>5, <3>6
  <2> QED
    BY <2>1, <2>2
<1>9. PageCalls' /\ Forwardings'
  <2>1. \A v \in Workers : OwnPageIds(v)' = OwnPageIds(v) /\ ForwardIds(v)' = ForwardIds(v)
    BY <1>3 DEF OwnPageIds, ForwardIds
  <2>2. PageCalls'
    BY <1>3, <1>4, <2>1 DEF Waitings, PageCalls
  <2>3. \A v \in Workers : DOMAIN waits[v] \subseteq DOMAIN waits'[v]
    BY <1>1
  <2>4. Forwardings'
    BY <1>3, <1>4, <2>1, <2>3 DEF Waitings, Forwardings
  <2> QED
    BY <2>2, <2>4
<1>10. OpenCalls'
  <2>1. c \in CallsIn(w)'
    BY <1>1, <1>2, <1>5 DEF CallsIn
  <2>2. CallsIn(w) \subseteq CallsIn(w)'
    BY <1>1 DEF CallsIn
  <2> QED
    BY <1>3, <1>4, <1>6, <2>1, <2>2 DEF Waitings, OpenCalls
<1> QED
  BY <1>8, <1>9, <1>10 DEF Waitings

LEMMA CallsUpStep ==
    ASSUME IInv, NEW w \in Workers, NEW c \in Calls, NEW id, NEW k, NEW leaf,
           CallsUp(w, c, id, k, leaf)
    PROVE  IInv' /\ RStep
<1>m. PICK m : m = CallMessage(c, id, leaf)
  OBVIOUS
<1>1. /\ m.type = "call" /\ IsCall(m) /\ ~ IsReply(m) /\ m.id = id /\ m.call = c
  BY <1>m DEF CallMessage, IsCall, IsReply
<1>2. /\ DOMAIN waits' = Workers /\ DOMAIN cbMap' = Workers
      /\ \A v \in Workers : v # w => waits'[v] = waits[v] /\ cbMap'[v] = cbMap[v]
      /\ DOMAIN waits'[w] = DOMAIN waits[w] \cup {id}
      /\ \A j \in DOMAIN waits[w] : waits'[w][j] = waits[w][j]
      /\ \A l \in DOMAIN cbMap[w] : l \in DOMAIN cbMap'[w] /\ cbMap'[w][l] = cbMap[w][l]
  BY CallsUpTables
<1>3. \/ waits'[w][id] = Own(c) /\ cbMap'[w] = cbMap[w]
      \/ /\ waits'[w][id] = GoCaller(k) /\ k \notin DOMAIN cbMap[w]
         /\ DOMAIN cbMap'[w] = DOMAIN cbMap[w] \cup {k} /\ cbMap'[w][k] = c
  BY CallsUpTables
<1>4. /\ id \notin DOMAIN waits[w] /\ result[c] = "idle"
      /\ UNCHANGED <<listed, toWorker, pageWaits, rwMap, handling, pulls, served>>
      /\ toPage' = SentToPage(w, m)
  BY <1>m DEF CallsUp
<1>5. /\ RStep /\ DOMAIN result' = Calls
      /\ \A d \in Calls : result'[d] = "idle" => served'[d] = 0
  BY Opened DEF CallsUp, IInv
<1>6. Waitings'
  BY CallsUpWaitings
<1>7. Tables'
  <2>1. IsFiniteSet(DOMAIN waits[w]) /\ IsFiniteSet(DOMAIN cbMap[w])
    BY DEF IInv, Tables
  <2>2. IsFiniteSet(DOMAIN waits'[w])
    BY <1>2, <2>1, FS_AddElement
  <2>3. IsFiniteSet(DOMAIN cbMap'[w])
    BY <1>3, <2>1, FS_AddElement
  <2> QED
    BY <1>2, <1>4, <1>5, <2>2, <2>3 DEF IInv, Tables
<1>8. ASSUME NEW v \in Workers, NEW j \in DOMAIN waits[v]
      PROVE  j \in DOMAIN waits'[v] /\ CallOf(v, j)' = CallOf(v, j)
  <2>1. CASE v # w
    BY <1>2, <2>1 DEF CallOf
  <2>2. CASE v = w
    <3>1. ~ waits[w][j].own => waits[w][j].id \in DOMAIN cbMap[w]
      BY <2>2 DEF IInv, Waitings, GoCalls, GoIds, OwnIds
    <3> QED
      BY <1>2, <2>2, <3>1 DEF CallOf
  <2> QED
    BY <2>1, <2>2
<1>9. \A v \in Workers : \A j : Forwarded(v, j)' <=> Forwarded(v, j)
  <2>1. \A v \in Workers : ForwardIds(v)' = ForwardIds(v)
    BY <1>4 DEF ForwardIds, OwnPageIds
  <2> QED
    BY <1>4, <2>1 DEF Forwarded
<1>10. ASSUME NEW v \in Workers, NEW j \in DOMAIN pageWaits[v]
       PROVE  PageCallOf(v, j)' = PageCallOf(v, j)
  <2>1. CASE pageWaits[v][j].own
    BY <1>4, <2>1 DEF PageCallOf
  <2>2. CASE ~ pageWaits[v][j].own
    <3>1. /\ pageWaits[v][j].link \in Workers
          /\ pageWaits[v][j].id \in DOMAIN waits[pageWaits[v][j].link]
      BY <2>2 DEF IInv, Waitings, Forwardings, ForwardIds, OwnPageIds
    <3>m. PICK x, y : x = pageWaits[v][j].link /\ y = pageWaits[v][j].id
      OBVIOUS
    <3>2. CallOf(x, y)' = CallOf(x, y)
      BY <1>8, <3>1, <3>m
    <3>3. PageCallOf(v, j) = CallOf(x, y)
      BY <2>2, <3>m DEF PageCallOf
    <3>4. PageCallOf(v, j)' = CallOf(x, y)'
      BY <1>4, <2>2, <3>m DEF PageCallOf, CallOf
    <3> QED
      BY <3>2, <3>3, <3>4
  <2> QED
    BY <2>1, <2>2
<1>11. Upper(w, id) /\ Tokens
  BY TokensAll DEF IInv
<1>12. /\ \A n \in Up(w) : ~ (IsCall(n) /\ n.id = id)
       /\ \A n \in Down(w) : ~ (IsReply(n) /\ n.id = id)
       /\ \A p \in pulls : ~ (p.link = w /\ p.id = id)
  BY <1>4, <1>11 DEF Upper
<1>13. /\ UpQueues' /\ DownQueues'
       /\ \A v \in Workers : Up(v)' = IF v = w THEN Up(v) \cup {m} ELSE Up(v)
       /\ \A v \in Workers : Down(v)' = Down(v)
  <2>1. \A n \in Up(w) : ~ (n.type = m.type /\ n.id = m.id)
    BY <1>1, <1>12 DEF IsCall
  <2> QED
    BY <1>4, <2>1, SendsUp, SameDown DEF IInv
<1>14. CallOf(w, id)' = c
  BY <1>3 DEF CallOf, Own, GoCaller
<1>15. Upper(w, id)'
  <2>1. ~ Forwarded(w, id)'
    <3>1. ~ Forwarded(w, id)
      BY <1>4 DEF Forwarded, IInv, Waitings, Forwardings
    <3> QED
      BY <1>9, <3>1
  <2>2. ~ Pulled(w, id)' /\ ~ ToldDown(w, id)'
    BY <1>4, <1>12, <1>13 DEF Pulled, ToldDown
  <2>3. served'[c] = 0
    BY <1>4 DEF IInv, Tables
  <2>4. \A n \in Up(w)' : IsCall(n) /\ n.id = id => n = m
    BY <1>12, <1>13
  <2>5. \A n \in Down(w)' : ~ (IsReply(n) /\ n.id = id)
    BY <1>12, <1>13
  <2>6. \A p \in pulls' : ~ (p.link = w /\ p.id = id)
    BY <1>4, <1>12
  <2>7. id \in DOMAIN waits'[w]
    BY <1>2
  <2> QED
    BY <1>1, <1>14, <2>1, <2>2, <2>3, <2>4, <2>5, <2>6, <2>7 DEF Upper, IsCall, IsReply
<1>16. ASSUME NEW v \in Workers, NEW j, ~ (v = w /\ j = id)
       PROVE  Upper(v, j)'
  <2>1. Upper(v, j)
    BY <1>11, TokensAll
  <2>2. KeepsUpper(v, j)
    BY <1>1, <1>4, <1>8, <1>9, <1>13, <1>16 DEF KeepsUpper
  <2> QED
    BY <2>1, <2>2, UpperKept
<1>17. ASSUME NEW v \in Workers, NEW j
       PROVE  Lower(v, j)'
  <2>1. Lower(v, j)
    BY <1>11, TokensAll
  <2>2. KeepsLower(v, j)
    BY <1>1, <1>4, <1>10, <1>13 DEF KeepsLower
  <2> QED
    BY <2>1, <2>2, LowerKept
<1>18. \A v \in Workers : Handlers(v)'
  BY <1>4, <1>11, TokensAll DEF Handlers
<1>19. \A p \in pulls' : p.link \in Workers
  BY <1>4, <1>11, TokensAll
<1>20. Tokens'
  BY <1>15, <1>16, <1>17, <1>18, <1>19, TokensNext DEF AllTokens
<1> QED
  BY <1>5, <1>6, <1>7, <1>13, <1>20 DEF IInv

LEMMA GoCallStep ==
    ASSUME IInv, NEW w \in Workers, NEW c \in Calls, GoCall(w, c)
    PROVE  IInv' /\ RStep
<1>m. PICK id, k, leaf : /\ id = FreshId(DOMAIN waits[w]) /\ k = FreshId(DOMAIN cbMap[w])
                         /\ leaf = Path[c]
  OBVIOUS
<1>1. id \notin DOMAIN waits[w] /\ k \notin DOMAIN cbMap[w]
  BY <1>m, FreshIsFree DEF IInv, Tables
<1>2. CallsUp(w, c, id, k, leaf)
  BY <1>m, <1>1 DEF GoCall, CallsUp, Ready
<1> QED
  BY <1>2, CallsUpStep

LEMMA WorkerCallStep ==
    ASSUME IInv, NEW a \in Apps, NEW c \in Calls, WorkerCall(a, c)
    PROVE  IInv' /\ RStep
<1>m. PICK id, leaf : id = FreshId(DOMAIN waits[a]) /\ leaf = Path[c]
  OBVIOUS
<1>1. a \in Workers
  BY Constants
<1>2. id \notin DOMAIN waits[a]
  BY <1>m, <1>1, FreshIsFree DEF IInv, Tables
<1>3. CallsUp(a, c, id, id, leaf)
  BY <1>m, <1>2 DEF WorkerCall, CallsUp
<1> QED
  BY <1>1, <1>3, CallsUpStep

-----------------------------------------------------------------------------
(* The page calls a worker, for itself or for a call that it forwards *)

PageAsks(to, c, id, entry, leaf) ==
    /\ id \notin DOMAIN pageWaits[to]
    /\ pageWaits' = [pageWaits EXCEPT ![to] = Put(@, id, entry)]
    /\ toWorker' = Posted(to, CallMessage(c, id, leaf))
    /\ UNCHANGED <<listed, waits, cbMap, rwMap, handling, pulls, served>>

ForItself(c, entry) ==
    /\ entry = Own(c) /\ From[c] = Page /\ result[c] = "idle"
    /\ result' = Answered(c, "open") /\ UNCHANGED toPage

(* The call of w's waiting i is taken from its queue.                       *)
ForWorker(w, i, c, entry) ==
    /\ entry = Forwarder(w, i) /\ i \in DOMAIN waits[w] /\ c = CallOf(w, i) /\ served[c] = 0
    /\ ~ Pulled(w, i) /\ ~ Forwarded(w, i) /\ ~ ToldDown(w, i)
    /\ UpQueues' /\ \A v \in Workers : Up(v)' \subseteq Up(v)
    /\ \A m \in Up(w)' : ~ (IsCall(m) /\ m.id = i)
    /\ UNCHANGED result

LEMMA AsksTables ==
    ASSUME IInv, NEW to \in Workers, NEW c, NEW id, NEW entry, NEW leaf,
           PageAsks(to, c, id, entry, leaf)
    PROVE  /\ DOMAIN pageWaits' = Workers
           /\ \A v \in Workers : v # to => pageWaits'[v] = pageWaits[v]
           /\ DOMAIN pageWaits'[to] = DOMAIN pageWaits[to] \cup {id}
           /\ pageWaits'[to][id] = entry
           /\ \A v \in Workers : \A j \in DOMAIN pageWaits[v] :
                 j \in DOMAIN pageWaits'[v] /\ pageWaits'[v][j] = pageWaits[v][j]
           /\ \A v \in Workers : \A j \in DOMAIN pageWaits'[v] :
                 j \in DOMAIN pageWaits[v] \/ (v = to /\ j = id)
           /\ \A v \in Workers : \A j : CallOf(v, j)' = CallOf(v, j)
           /\ \A v \in Workers : \A j \in DOMAIN pageWaits[v] :
                 PageCallOf(v, j)' = PageCallOf(v, j)
<1>1. DOMAIN pageWaits = Workers
  BY DEF IInv, Tables
<1>2. /\ DOMAIN pageWaits' = Workers
      /\ \A v \in Workers : v # to => pageWaits'[v] = pageWaits[v]
      /\ pageWaits'[to] = Put(pageWaits[to], id, entry)
      /\ id \notin DOMAIN pageWaits[to]
  BY <1>1 DEF PageAsks
<1>3. /\ DOMAIN pageWaits'[to] = DOMAIN pageWaits[to] \cup {id}
      /\ pageWaits'[to][id] = entry
      /\ \A j \in DOMAIN pageWaits[to] : pageWaits'[to][j] = pageWaits[to][j]
  BY <1>2 DEF Put
<1>4. \A v \in Workers : \A j \in DOMAIN pageWaits[v] :
          j \in DOMAIN pageWaits'[v] /\ pageWaits'[v][j] = pageWaits[v][j]
  BY <1>2, <1>3
<1>5. \A v \in Workers : \A j \in DOMAIN pageWaits'[v] :
          j \in DOMAIN pageWaits[v] \/ (v = to /\ j = id)
  BY <1>2, <1>3
<1>6. waits' = waits /\ cbMap' = cbMap
  BY DEF PageAsks
<1>7. \A v \in Workers : \A j : CallOf(v, j)' = CallOf(v, j)
  BY <1>6 DEF CallOf
<1>8. \A v \in Workers : \A j \in DOMAIN pageWaits[v] : PageCallOf(v, j)' = PageCallOf(v, j)
  BY <1>4, <1>6 DEF PageCallOf, CallOf
<1> QED
  BY <1>2, <1>3, <1>4, <1>5, <1>7, <1>8

LEMMA AsksWaitings ==
    ASSUME IInv, NEW to \in Workers, NEW c \in Calls, NEW id, NEW entry, NEW leaf,
           NEW w \in Workers, NEW i,
           PageAsks(to, c, id, entry, leaf),
           ForItself(c, entry) \/ ForWorker(w, i, c, entry)
    PROVE  Waitings'
<1>1. /\ \A v \in Workers : \A j \in DOMAIN pageWaits[v] : pageWaits'[v][j] = pageWaits[v][j]
      /\ \A v \in Workers : \A j \in DOMAIN pageWaits'[v] :
            j \in DOMAIN pageWaits[v] \/ (v = to /\ j = id)
      /\ pageWaits'[to][id] = entry
  BY AsksTables
<1>2. waits' = waits /\ cbMap' = cbMap /\ id \notin DOMAIN pageWaits[to]
  BY DEF PageAsks
<1>3. Waitings
  BY DEF IInv
<1>4. \A v \in Workers : OwnIds(v)' = OwnIds(v) /\ GoIds(v)' = GoIds(v) /\ CallsIn(v)' = CallsIn(v)
  BY <1>2 DEF OwnIds, GoIds, CallsIn
<1>5. /\ \A d \in Calls : result[d] = "open" => result'[d] = "open"
      /\ \A d \in Calls : From[d] \in Workers /\ result'[d] = "open" => result[d] = "open"
  <2>1. CASE ForItself(c, entry)
    <3>1. \A d \in Calls : result'[d] = IF d = c THEN "open" ELSE result[d]
      BY <2>1, Opened DEF ForItself, PageAsks, IInv
    <3> QED
      BY <2>1, <3>1, Constants DEF ForItself
  <2>2. CASE ForWorker(w, i, c, entry)
    BY <2>2 DEF ForWorker
  <2> QED
    BY <2>1, <2>2
<1>6. \A v \in Workers : GoCalls(v)' /\ OwnCalls(v)'
  BY <1>2, <1>3, <1>4, <1>5 DEF Waitings, GoCalls, OwnCalls
<1>7. OpenCalls'
  BY <1>3, <1>4, <1>5 DEF Waitings, OpenCalls
<1>8. /\ \A v \in Workers : \A j \in OwnPageIds(v)' :
            j \in OwnPageIds(v) \/ (v = to /\ j = id /\ entry.own)
      /\ \A v \in Workers : \A j \in ForwardIds(v)' :
            j \in ForwardIds(v) \/ (v = to /\ j = id /\ ~ entry.own)
      /\ \A v \in Workers : \A j \in OwnPageIds(v) : pageWaits'[v][j] = pageWaits[v][j]
      /\ \A v \in Workers : \A j \in ForwardIds(v) : pageWaits'[v][j] = pageWaits[v][j]
  BY <1>1 DEF OwnPageIds, ForwardIds
<1>9. CASE ForItself(c, entry)
  <2>1. /\ entry.own /\ entry.call = c /\ From[c] = Page /\ result[c] = "idle"
        /\ result'[c] = "open"
    BY <1>9, Opened DEF ForItself, Own, IInv, PageAsks
  <2>2. \A v \in Workers : \A j \in OwnPageIds(v) : pageWaits[v][j].call # c
    BY <1>3, <2>1 DEF Waitings, PageCalls
  <2>3. PageCalls'
    BY <1>1, <1>3, <1>5, <1>8, <2>1, <2>2 DEF Waitings, PageCalls
  <2>4. \A v \in Workers : \A j \in ForwardIds(v)' : j \in ForwardIds(v)
    BY <1>8, <2>1
  <2>5. Forwardings'
    BY <1>2, <1>3, <1>8, <2>4 DEF Waitings, Forwardings
  <2> QED
    BY <1>6, <1>7, <2>3, <2>5 DEF Waitings
<1>10. CASE ForWorker(w, i, c, entry)
  <2>1. /\ ~ entry.own /\ entry.link = w /\ entry.id = i
        /\ i \in DOMAIN waits[w] /\ ~ Forwarded(w, i)
    BY <1>10 DEF ForWorker, Forwarder
  <2>2. \A v \in Workers : \A j \in OwnPageIds(v)' : j \in OwnPageIds(v)
    BY <1>8, <2>1
  <2>3. PageCalls'
    BY <1>3, <1>5, <1>8, <2>2 DEF Waitings, PageCalls
  <2>4. \A v \in Workers : \A j \in ForwardIds(v) :
            ~ (pageWaits[v][j].link = w /\ pageWaits[v][j].id = i)
    BY <2>1 DEF Forwarded
  <2>5. Forwardings'
    BY <1>1, <1>2, <1>3, <1>8, <2>1, <2>4 DEF Waitings, Forwardings
  <2> QED
    BY <1>6, <1>7, <2>3, <2>5 DEF Waitings
<1> QED
  BY <1>9, <1>10

LEMMA AsksStep ==
    ASSUME IInv, NEW to \in Workers, NEW c \in Calls, NEW id, NEW entry, NEW leaf,
           NEW w \in Workers, NEW i,
           PageAsks(to, c, id, entry, leaf),
           ForItself(c, entry) \/ ForWorker(w, i, c, entry)
    PROVE  IInv' /\ RStep
<1>m. PICK m : m = CallMessage(c, id, leaf)
  OBVIOUS
<1>1. /\ m.type = "call" /\ IsCall(m) /\ ~ IsReply(m) /\ m.id = id /\ m.call = c
  BY <1>m DEF CallMessage, IsCall, IsReply
<1>2. /\ DOMAIN pageWaits' = Workers
      /\ \A v \in Workers : v # to => pageWaits'[v] = pageWaits[v]
      /\ DOMAIN pageWaits'[to] = DOMAIN pageWaits[to] \cup {id}
      /\ pageWaits'[to][id] = entry
      /\ \A v \in Workers : \A j \in DOMAIN pageWaits[v] :
            j \in DOMAIN pageWaits'[v] /\ pageWaits'[v][j] = pageWaits[v][j]
      /\ \A v \in Workers : \A j \in DOMAIN pageWaits'[v] :
            j \in DOMAIN pageWaits[v] \/ (v = to /\ j = id)
  BY AsksTables
<1>3. /\ \A v \in Workers : \A j : CallOf(v, j)' = CallOf(v, j)
      /\ \A v \in Workers : \A j \in DOMAIN pageWaits[v] : PageCallOf(v, j)' = PageCallOf(v, j)
  BY AsksTables
<1>4. /\ id \notin DOMAIN pageWaits[to] /\ toWorker' = Posted(to, m)
      /\ UNCHANGED <<listed, waits, cbMap, rwMap, handling, pulls, served>>
  BY <1>m DEF PageAsks
<1>5. Waitings'
  BY AsksWaitings
<1>6. /\ RStep /\ DOMAIN result' = Calls /\ served[c] = 0
      /\ \A d \in Calls : result'[d] = "idle" => served'[d] = 0
  <2>1. CASE ForItself(c, entry)
    BY <1>4, <2>1, Opened DEF ForItself, IInv, Tables
  <2>2. CASE ForWorker(w, i, c, entry)
    BY <1>4, <2>2 DEF ForWorker, IInv, Tables, RStep
  <2> QED
    BY <2>1, <2>2
<1>7. Tables'
  <2>1. IsFiniteSet(DOMAIN pageWaits[to])
    BY DEF IInv, Tables
  <2>2. IsFiniteSet(DOMAIN pageWaits'[to])
    BY <1>2, <2>1, FS_AddElement
  <2> QED
    BY <1>2, <1>4, <1>6, <2>2 DEF IInv, Tables
<1>8. UpQueues' /\ \A v \in Workers : Up(v)' \subseteq Up(v)
  <2>1. CASE ForItself(c, entry)
    BY <2>1, SameUp DEF ForItself, IInv
  <2>2. CASE ForWorker(w, i, c, entry)
    BY <2>2 DEF ForWorker
  <2> QED
    BY <2>1, <2>2
<1>9. Lower(to, id) /\ Tokens
  BY TokensAll DEF IInv
<1>10. /\ \A n \in Down(to) : ~ (IsCall(n) /\ n.id = id)
       /\ \A n \in Up(to) : ~ (IsReply(n) /\ n.id = id)
       /\ \A k \in DOMAIN rwMap[to] : rwMap[to][k] # id
  BY <1>4, <1>9 DEF Lower
<1>11. /\ DownQueues'
       /\ \A v \in Workers : Down(v)' \subseteq IF v = to THEN Down(v) \cup {m} ELSE Down(v)
  <2>1. \A n \in Down(to) : ~ (n.type = m.type /\ n.id = m.id)
    BY <1>1, <1>10 DEF IsCall
  <2> QED
    BY <1>4, <2>1, PostsDown DEF IInv
<1>12. PageCallOf(to, id)' = c
  <2>1. CASE ForItself(c, entry)
    BY <1>2, <2>1 DEF ForItself, Own, PageCallOf
  <2>2. CASE ForWorker(w, i, c, entry)
    <3>1. ~ entry.own /\ entry.link = w /\ entry.id = i /\ c = CallOf(w, i)
      BY <2>2 DEF ForWorker, Forwarder
    <3>2. PageCallOf(to, id)' = CallOf(w, i)'
      BY <1>2, <3>1 DEF PageCallOf, CallOf
    <3> QED
      BY <1>3, <3>1, <3>2
  <2> QED
    BY <2>1, <2>2
<1>13. Lower(to, id)'
  <2>1. ~ Held(to, id)' /\ ~ ToldUp(to, id)'
    BY <1>4, <1>8, <1>10 DEF Held, ToldUp
  <2>2. \A n \in Down(to)' : IsCall(n) /\ n.id = id => n = m
    BY <1>10, <1>11
  <2>3. \A n \in Up(to)' : ~ (IsReply(n) /\ n.id = id)
    BY <1>8, <1>10
  <2>4. \A k \in DOMAIN rwMap'[to] : rwMap'[to][k] # id
    BY <1>4, <1>10
  <2>5. id \in DOMAIN pageWaits'[to] /\ served'[c] = 0
    BY <1>2, <1>4, <1>6
  <2> QED
    BY <1>1, <1>12, <2>1, <2>2, <2>3, <2>4, <2>5 DEF Lower, IsCall, IsReply
<1>14. ASSUME NEW v \in Workers, NEW j, ~ (v = to /\ j = id)
       PROVE  Lower(v, j)'
  <2>1. Lower(v, j)
    BY <1>9, TokensAll
  <2>2. KeepsLower(v, j)
    BY <1>1, <1>2, <1>3, <1>4, <1>8, <1>11, <1>14 DEF KeepsLower
  <2> QED
    BY <2>1, <2>2, LowerKept
<1>15. \A v \in Workers : \A j \in ForwardIds(v)' :
           \/ j \in ForwardIds(v) /\ pageWaits'[v][j] = pageWaits[v][j]
           \/ v = to /\ j = id /\ ~ entry.own
  BY <1>2 DEF ForwardIds, OwnPageIds
<1>16. \A v \in Workers : \A n \in Down(v)' : IsReply(n) => n \in Down(v)
  BY <1>1, <1>11
<1>17. ASSUME NEW v \in Workers, NEW j
       PROVE  Upper(v, j)'
  <2>1. Upper(v, j)
    BY <1>9, TokensAll
  <2>2. CASE Forwarded(v, j)' => Forwarded(v, j)
    <3>1. KeepsUpper(v, j)
      BY <1>3, <1>4, <1>8, <1>16, <2>2 DEF KeepsUpper
    <3> QED
      BY <2>1, <3>1, UpperKept
  <2>3. CASE Forwarded(v, j)' /\ ~ Forwarded(v, j)
    <3>1. PICK u \in Workers : \E k \in ForwardIds(u)' :
              pageWaits'[u][k].link = v /\ pageWaits'[u][k].id = j
      BY <2>3 DEF Forwarded
    <3>k. PICK k \in ForwardIds(u)' : pageWaits'[u][k].link = v /\ pageWaits'[u][k].id = j
      BY <3>1
    <3>2. u = to /\ k = id /\ ~ entry.own
      BY <1>15, <2>3, <3>k DEF Forwarded
    <3>3. ForWorker(w, i, c, entry)
      BY <3>2 DEF ForItself, Own
    <3>4. v = w /\ j = i
      BY <1>2, <3>k, <3>2, <3>3 DEF ForWorker, Forwarder
    <3>5. /\ \A n \in Up(v)' : ~ (IsCall(n) /\ n.id = j)
          /\ \A n \in Down(v)' : ~ (IsReply(n) /\ n.id = j)
          /\ \A p \in pulls' : ~ (p.link = v /\ p.id = j)
      BY <1>4, <1>16, <3>3, <3>4 DEF ForWorker, ToldDown, Pulled
    <3> QED
      BY <3>5 DEF Upper, IsCall, IsReply
  <2> QED
    BY <2>2, <2>3
<1>18. \A v \in Workers : Handlers(v)'
  BY <1>4, <1>9, TokensAll DEF Handlers
<1>19. \A p \in pulls' : p.link \in Workers
  BY <1>4, <1>9, TokensAll
<1>20. Tokens'
  BY <1>13, <1>14, <1>17, <1>18, <1>19, TokensNext DEF AllTokens
<1> QED
  BY <1>5, <1>6, <1>7, <1>8, <1>11, <1>20 DEF IInv

LEMMA PageCallStep ==
    ASSUME IInv, NEW c \in Calls, PageCall(c)
    PROVE  IInv' /\ RStep
<1>m. PICK to, id, leaf, entry : /\ to = To[c] /\ id = FreshId(DOMAIN pageWaits[to])
                                 /\ leaf = Path[c] /\ entry = Own(c)
  OBVIOUS
<1>1. From[c] = Page /\ result[c] = "idle" /\ to \in Workers
  BY <1>m, Constants DEF PageCall, Ready
<1>2. id \notin DOMAIN pageWaits[to]
  BY <1>m, <1>1, FreshIsFree DEF IInv, Tables
<1>3. PageAsks(to, c, id, entry, leaf)
  BY <1>m, <1>2 DEF PageCall, PageAsks
<1>4. ForItself(c, entry)
  BY <1>m, <1>1 DEF PageCall, ForItself
<1> QED
  BY <1>1, <1>3, <1>4, AsksStep

LEMMA ForwardsStep ==
    ASSUME IInv, NEW w \in Workers, NEW to \in Workers, NEW leaf, NEW m,
           m = Head(toPage[w]), Received(w), m.type = "call", Forwards(w, to, m, leaf),
           UNCHANGED <<listed, waits, cbMap, rwMap, handling, pulls, served, result>>
    PROVE  IInv' /\ RStep
<1>m. PICK i, c, id, entry : /\ i = m.id /\ c = m.call
                             /\ id = FreshId(DOMAIN pageWaits[to]) /\ entry = Forwarder(w, i)
  OBVIOUS
<1>1. /\ UpQueues' /\ \A v \in Workers : Up(v)' \subseteq Up(v)
      /\ i \in DOMAIN waits[w] /\ c = CallOf(w, i)
      /\ c \in Calls /\ served[c] = 0
      /\ ~ Pulled(w, i) /\ ~ Forwarded(w, i) /\ ~ ToldDown(w, i)
      /\ \A n \in Up(w)' : ~ (IsCall(n) /\ n.id = i)
  BY <1>m, PageTakesCall
<1>2. id \notin DOMAIN pageWaits[to]
  BY <1>m, FreshIsFree DEF IInv, Tables
<1>3. PageAsks(to, c, id, entry, leaf)
  BY <1>m, <1>2 DEF Forwards, PageAsks
<1>4. ForWorker(w, i, c, entry)
  BY <1>m, <1>1 DEF ForWorker
<1> QED
  BY <1>1, <1>3, <1>4, AsksStep

LEMMA PageForwardsToAppStep ==
    ASSUME IInv, NEW w \in Workers, PageForwardsToApp(w)
    PROVE  IInv' /\ RStep
<1>m. PICK m, a, leaf : /\ m = Head(toPage[w]) /\ a = To[m.call]
                        /\ leaf = Rest(m.leaf, <<"application">>)
  OBVIOUS
<1>1. /\ Received(w) /\ m.type = "call"
      /\ UNCHANGED <<listed, waits, cbMap, rwMap, handling, pulls, served, result>>
  BY <1>m DEF PageForwardsToApp
<1>2. \/ toWorker' = Posted(w, Reply(m.id, Refused)) /\ UNCHANGED pageWaits
      \/ UNCHANGED <<toWorker, pageWaits>>
      \/ a \in listed /\ Forwards(w, a, m, leaf)
  BY <1>m DEF PageForwardsToApp
<1>3. CASE \/ toWorker' = Posted(w, Reply(m.id, Refused)) /\ UNCHANGED pageWaits
           \/ UNCHANGED <<toWorker, pageWaits>>
  BY <1>m, <1>1, <1>3, PageEndsCall
<1>4. CASE a \in listed /\ Forwards(w, a, m, leaf)
  <2>1. a \in Workers
    BY <1>4, Constants DEF IInv, Tables
  <2> QED
    BY <1>m, <1>1, <1>4, <2>1, ForwardsStep
<1> QED
  BY <1>2, <1>3, <1>4

LEMMA PageForwardsToNodeStep ==
    ASSUME IInv, NEW w \in Workers, PageForwardsToNode(w)
    PROVE  IInv' /\ RStep
<1>m. PICK m, leaf : m = Head(toPage[w]) /\ leaf = Rest(m.leaf, <<"node", "api">>)
  OBVIOUS
<1>1. /\ Received(w) /\ m.type = "call" /\ Forwards(w, Node, m, leaf)
      /\ UNCHANGED <<listed, waits, cbMap, rwMap, handling, pulls, served, result>>
  BY <1>m DEF PageForwardsToNode
<1> QED
  BY <1>m, <1>1, Constants, ForwardsStep

-----------------------------------------------------------------------------
(* Replies reach the page *)

LEMMA AnsweredFits ==
    ASSUME Tables, NEW c \in Calls, result[c] = "open", NEW answer, Fits(c, answer),
           UNCHANGED served, result' = Answered(c, answer)
    PROVE  /\ RStep /\ DOMAIN result' = Calls
           /\ \A d \in Calls : result'[d] = IF d = c THEN answer ELSE result[d]
           /\ answer # "open"
           /\ \A d \in Calls : result'[d] = "idle" => served'[d] = 0
<1>1. result' = [result EXCEPT ![c] = answer] /\ DOMAIN result = Calls
  BY DEF Answered, Tables
<1>2. R!Answer(c) \/ R!Refuse(c)
  BY <1>1 DEF Fits, R!Answer, R!Refuse
<1>3. \A d \in Calls : result'[d] = IF d = c THEN answer ELSE result[d]
  BY <1>1
<1>4. answer # "open" /\ answer # "idle"
  BY Constants DEF Fits
<1> QED
  BY <1>1, <1>2, <1>3, <1>4 DEF RStep, R!RpcNext, Tables

(* A reply that reaches the page is for one of its waitings, and alone.     *)
LEMMA PageTakesReply ==
    ASSUME IInv, NEW w \in Workers, Received(w), Head(toPage[w]).type = "reply"
    PROVE  LET m == Head(toPage[w]) IN
           /\ UpQueues' /\ \A v \in Workers : Up(v)' \subseteq Up(v)
           /\ m.id \in DOMAIN pageWaits[w] /\ Fits(PageCallOf(w, m.id), m.answer)
           /\ PageCallOf(w, m.id) \in Calls /\ result[PageCallOf(w, m.id)] = "open"
           /\ \A n \in Down(w) : ~ (IsCall(n) /\ n.id = m.id)
           /\ \A k \in DOMAIN rwMap[w] : rwMap[w][k] # m.id
           /\ \A n \in Up(w)' : ~ (IsReply(n) /\ n.id = m.id)
<1> DEFINE m == Head(toPage[w])
<1>1. UpQueues' /\ m \in Up(w) /\ \A v \in Workers : Up(v)' = IF v = w THEN Up(v) \ {m} ELSE Up(v)
  BY TakesUp DEF IInv
<1>2. IsReply(m)
  BY DEF IsReply
<1> HIDE DEF m
<1>3. Lower(w, m.id)
  BY TokensAll DEF IInv
<1>4. ToldUp(w, m.id)
  BY <1>1, <1>2 DEF ToldUp
<1>5. /\ m.id \in DOMAIN pageWaits[w] /\ Fits(PageCallOf(w, m.id), m.answer)
      /\ \A n \in Down(w) : ~ (IsCall(n) /\ n.id = m.id)
      /\ \A k \in DOMAIN rwMap[w] : rwMap[w][k] # m.id
  BY <1>1, <1>2, <1>3, <1>4 DEF Lower
<1>6. PageCallOf(w, m.id) \in Calls /\ result[PageCallOf(w, m.id)] = "open"
  BY <1>5, PageCallOfFacts DEF IInv
<1>7. ASSUME NEW n \in Up(w)', IsReply(n), n.id = m.id
      PROVE  FALSE
  <2>1. n \in Up(w) /\ n # m
    BY <1>1, <1>7
  <2>2. n.type = m.type
    BY <1>2, <1>7 DEF IsReply
  <2>3. UniqueIn(Up(w))
    BY DEF IInv, UpQueues
  <2> QED
    BY <1>1, <1>7, <2>1, <2>2, <2>3 DEF UniqueIn
<1>8. \A v \in Workers : Up(v)' \subseteq Up(v)
  BY <1>1
<1> QED
  BY <1>1, <1>5, <1>6, <1>7, <1>8 DEF m

(* The waiting i of w, for call c, goes: c has its answer, or the worker it *)
(* was forwarded for is told.                                               *)
PageForgets(w, i, c, answer, entry) ==
    /\ i \in DOMAIN pageWaits[w] /\ entry = pageWaits[w][i] /\ c = PageCallOf(w, i)
    /\ pageWaits' = [pageWaits EXCEPT ![w] = Without(@, i)]
    /\ \/ entry.own /\ result' = Answered(c, answer) /\ UNCHANGED toWorker
       \/ /\ ~ entry.own
          /\ toWorker' = Posted(entry.link, Reply(entry.id, answer)) /\ UNCHANGED result
    /\ UNCHANGED <<listed, waits, cbMap, rwMap, handling, pulls, served>>

LEMMA ForgetsTables ==
    ASSUME IInv, NEW w \in Workers, NEW i, NEW c \in Calls, NEW answer, NEW entry,
           PageForgets(w, i, c, answer, entry)
    PROVE  /\ DOMAIN pageWaits' = Workers
           /\ \A v \in Workers : v # w => pageWaits'[v] = pageWaits[v]
           /\ DOMAIN pageWaits'[w] = DOMAIN pageWaits[w] \ {i}
           /\ \A v \in Workers : \A j \in DOMAIN pageWaits'[v] :
                 /\ j \in DOMAIN pageWaits[v] /\ pageWaits'[v][j] = pageWaits[v][j]
                 /\ ~ (v = w /\ j = i)
           /\ \A v \in Workers : \A j \in DOMAIN pageWaits[v] :
                 j \in DOMAIN pageWaits'[v] \/ (v = w /\ j = i)
<1>1. DOMAIN pageWaits = Workers
  BY DEF IInv, Tables
<1>2. /\ DOMAIN pageWaits' = Workers
      /\ \A v \in Workers : v # w => pageWaits'[v] = pageWaits[v]
      /\ pageWaits'[w] = Without(pageWaits[w], i)
  BY <1>1 DEF PageForgets
<1>3. /\ DOMAIN pageWaits'[w] = DOMAIN pageWaits[w] \ {i}
      /\ \A j \in DOMAIN pageWaits[w] \ {i} : pageWaits'[w][j] = pageWaits[w][j]
  BY <1>2 DEF Without
<1> QED
  BY <1>2, <1>3

LEMMA ForgetsResult ==
    ASSUME IInv, NEW w \in Workers, NEW i, NEW c \in Calls, NEW answer, NEW entry,
           PageForgets(w, i, c, answer, entry), Fits(c, answer), result[c] = "open"
    PROVE  /\ RStep /\ DOMAIN result' = Calls /\ answer # "open"
           /\ \A d \in Calls : result'[d] = "idle" => served'[d] = 0
           /\ \/ /\ From[c] = Page
                 /\ \A d \in Calls : result'[d] = IF d = c THEN answer ELSE result[d]
              \/ UNCHANGED result
<1>1. CASE entry.own /\ result' = Answered(c, answer)
  <2>1. From[c] = Page
    BY <1>1 DEF PageForgets, PageCallOf, IInv, Waitings, PageCalls, OwnPageIds
  <2>2. Tables /\ UNCHANGED served
    BY DEF PageForgets, IInv
  <2>3. /\ RStep /\ DOMAIN result' = Calls
        /\ \A d \in Calls : result'[d] = IF d = c THEN answer ELSE result[d]
        /\ answer # "open"
        /\ \A d \in Calls : result'[d] = "idle" => served'[d] = 0
    BY <1>1, <2>2, AnsweredFits
  <2> QED
    BY <2>1, <2>3
<1>2. CASE UNCHANGED result
  <2>1. answer # "open"
    BY Constants DEF Fits
  <2>2. DOMAIN result' = Calls /\ \A d \in Calls : result'[d] = "idle" => served'[d] = 0
    BY <1>2 DEF PageForgets, IInv, Tables
  <2>3. RStep
    BY <1>2 DEF PageForgets, RStep
  <2> QED
    BY <1>2, <2>1, <2>2, <2>3
<1> QED
  BY <1>1, <1>2 DEF PageForgets

LEMMA ForgetsWaitings ==
    ASSUME IInv, NEW w \in Workers, NEW i, NEW c \in Calls, NEW answer, NEW entry,
           PageForgets(w, i, c, answer, entry), Fits(c, answer), result[c] = "open"
    PROVE  Waitings'
<1>1. \A v \in Workers : \A j \in DOMAIN pageWaits'[v] :
          /\ j \in DOMAIN pageWaits[v] /\ pageWaits'[v][j] = pageWaits[v][j]
          /\ ~ (v = w /\ j = i)
  <2>1. /\ \A v \in Workers : v # w => pageWaits'[v] = pageWaits[v]
        /\ DOMAIN pageWaits'[w] = DOMAIN pageWaits[w] \ {i}
    BY ForgetsTables
  <2>2. pageWaits'[w] = Without(pageWaits[w], i)
    BY DEF PageForgets, IInv, Tables
  <2>3. \A j \in DOMAIN pageWaits'[w] : pageWaits'[w][j] = pageWaits[w][j]
    BY <2>1, <2>2 DEF Without
  <2> QED
    BY <2>1, <2>3
<1>2. \/ /\ From[c] = Page
         /\ \A d \in Calls : result'[d] = IF d = c THEN answer ELSE result[d]
      \/ UNCHANGED result
  BY ForgetsResult
<1>3. waits' = waits /\ cbMap' = cbMap /\ answer # "open"
  BY ForgetsResult DEF PageForgets
<1>4. Waitings
  BY DEF IInv
<1>5. \A v \in Workers : OwnIds(v)' = OwnIds(v) /\ GoIds(v)' = GoIds(v) /\ CallsIn(v)' = CallsIn(v)
  BY <1>3 DEF OwnIds, GoIds, CallsIn
<1>6. \A d \in Calls : From[d] \in Workers => result'[d] = result[d]
  BY <1>2, Constants
<1>7. \A v \in Workers : GoCalls(v)' /\ OwnCalls(v)'
  BY <1>3, <1>4, <1>5, <1>6 DEF Waitings, GoCalls, OwnCalls
<1>8. OpenCalls'
  BY <1>4, <1>5, <1>6 DEF Waitings, OpenCalls
<1>9. /\ \A v \in Workers : \A j \in OwnPageIds(v)' :
            /\ j \in OwnPageIds(v) /\ pageWaits'[v][j] = pageWaits[v][j]
            /\ ~ (v = w /\ j = i)
      /\ \A v \in Workers : \A j \in ForwardIds(v)' :
            j \in ForwardIds(v) /\ pageWaits'[v][j] = pageWaits[v][j]
  BY <1>1 DEF OwnPageIds, ForwardIds
<1>10. \A v \in Workers : \A j \in OwnPageIds(v)' : pageWaits[v][j].call # c
  <2>1. \A v \in Workers : \A j \in OwnPageIds(v) : PageCallOf(v, j) = pageWaits[v][j].call
    BY DEF PageCallOf, OwnPageIds
  <2>2. \A v \in Workers : \A j \in OwnPageIds(v) : j \in DOMAIN pageWaits[v]
    BY DEF OwnPageIds
  <2>3. \A v \in Workers : \A j \in DOMAIN pageWaits[v] :
            PageCallOf(v, j) = c => v = w /\ j = i
    BY <1>4, PageCallOfFacts DEF PageForgets
  <2> QED
    BY <1>9, <2>1, <2>2, <2>3
<1>11. PageCalls'
  <2>1. \A v \in Workers : \A j \in OwnPageIds(v)' :
            /\ pageWaits'[v][j].call \in Calls /\ From[pageWaits'[v][j].call] = Page
            /\ result'[pageWaits'[v][j].call] = "open"
    BY <1>2, <1>4, <1>9, <1>10 DEF Waitings, PageCalls
  <2> QED
    BY <1>4, <1>9, <2>1 DEF Waitings, PageCalls
<1>12. Forwardings'
  BY <1>3, <1>4, <1>9 DEF Waitings, Forwardings
<1> QED
  BY <1>7, <1>8, <1>11, <1>12 DEF Waitings

LEMMA PageForgetsStep ==
    ASSUME IInv, NEW w \in Workers, NEW m, NEW i, NEW c \in Calls, NEW answer, NEW entry,
           m = Head(toPage[w]), i = m.id, answer = m.answer, Received(w), m.type = "reply",
           PageForgets(w, i, c, answer, entry)
    PROVE  IInv' /\ RStep
<1>1. /\ UpQueues' /\ \A v \in Workers : Up(v)' \subseteq Up(v)
      /\ i \in DOMAIN pageWaits[w] /\ Fits(PageCallOf(w, i), answer)
      /\ result[PageCallOf(w, i)] = "open"
      /\ \A n \in Down(w) : ~ (IsCall(n) /\ n.id = i)
      /\ \A k \in DOMAIN rwMap[w] : rwMap[w][k] # i
      /\ \A n \in Up(w)' : ~ (IsReply(n) /\ n.id = i)
  BY PageTakesReply
<1>2. /\ c = PageCallOf(w, i) /\ entry = pageWaits[w][i]
      /\ UNCHANGED <<listed, waits, cbMap, rwMap, handling, pulls, served>>
      /\ \/ entry.own /\ UNCHANGED toWorker
         \/ ~ entry.own /\ toWorker' = Posted(entry.link, Reply(entry.id, answer))
  BY DEF PageForgets
<1>3. Fits(c, answer) /\ result[c] = "open"
  BY <1>1, <1>2
<1>4. /\ DOMAIN pageWaits' = Workers
      /\ \A v \in Workers : v # w => pageWaits'[v] = pageWaits[v]
      /\ DOMAIN pageWaits'[w] = DOMAIN pageWaits[w] \ {i}
      /\ \A v \in Workers : \A j \in DOMAIN pageWaits[v] :
            j \in DOMAIN pageWaits'[v] \/ (v = w /\ j = i)
  BY ForgetsTables
<1>5. \A v \in Workers : \A j \in DOMAIN pageWaits'[v] : pageWaits'[v][j] = pageWaits[v][j]
  BY ForgetsTables
<1>6. /\ RStep /\ DOMAIN result' = Calls
      /\ \A d \in Calls : result'[d] = "idle" => served'[d] = 0
  BY <1>3, ForgetsResult
<1>7. Waitings' /\ Waitings /\ Tokens
  BY <1>3, ForgetsWaitings DEF IInv
<1>8. Tables'
  <2>1. IsFiniteSet(DOMAIN pageWaits'[w])
    <3>1. IsFiniteSet(DOMAIN pageWaits[w])
      BY DEF IInv, Tables
    <3> QED
      BY <1>4, <3>1, FS_RemoveElement
  <2> QED
    BY <1>2, <1>4, <1>6, <2>1 DEF IInv, Tables
<1>9. /\ \A v \in Workers : \A j : CallOf(v, j)' = CallOf(v, j)
      /\ \A v \in Workers : \A j \in DOMAIN pageWaits'[v] :
            PageCallOf(v, j)' = PageCallOf(v, j)
  <2>1. waits' = waits /\ cbMap' = cbMap
    BY <1>2
  <2>2. \A v \in Workers : \A j : CallOf(v, j)' = CallOf(v, j)
    BY <2>1 DEF CallOf
  <2>3. \A v \in Workers : \A j \in DOMAIN pageWaits'[v] : PageCallOf(v, j)' = PageCallOf(v, j)
    BY <1>5, <2>1 DEF PageCallOf, CallOf
  <2> QED
    BY <2>2, <2>3
<1>10. \A v \in Workers : \A j \in ForwardIds(v)' :
           j \in ForwardIds(v) /\ pageWaits'[v][j] = pageWaits[v][j] /\ ~ (v = w /\ j = i)
  BY <1>4, <1>5 DEF ForwardIds, OwnPageIds
<1>11. \A v \in Workers : \A j : Forwarded(v, j)' => Forwarded(v, j)
  BY <1>10 DEF Forwarded
<1>12. ASSUME NEW v \in Workers, NEW j, ~ (v = w /\ j = i), \A n \in Down(v)' : IsCall(n) => n \in Down(v)
       PROVE  Lower(v, j)'
  <2>1. Lower(v, j)
    BY <1>7, TokensAll
  <2>2. j \in DOMAIN pageWaits[v] =>
            j \in DOMAIN pageWaits'[v] /\ PageCallOf(v, j)' = PageCallOf(v, j)
    BY <1>4, <1>9, <1>12
  <2>3. KeepsLower(v, j)
    BY <1>1, <1>2, <1>12, <2>2 DEF KeepsLower
  <2> QED
    BY <2>1, <2>3, LowerKept
<1>13. ASSUME \A n \in Down(w)' : IsCall(n) => n \in Down(w)
       PROVE  Lower(w, i)'
  <2>1. \A n \in Down(w)' : ~ (IsCall(n) /\ n.id = i)
    BY <1>1, <1>13
  <2>2. \A k \in DOMAIN rwMap'[w] : rwMap'[w][k] # i
    BY <1>1, <1>2
  <2>3. \A n \in Up(w)' : ~ (IsReply(n) /\ n.id = i)
    BY <1>1
  <2> QED
    BY <2>1, <2>2, <2>3 DEF Lower, IsCall, IsReply
<1>14. \A v \in Workers : Handlers(v)'
  BY <1>2, <1>7, TokensAll DEF Handlers
<1>15. \A p \in pulls' : p.link \in Workers
  BY <1>2, <1>7, TokensAll
<1>16. CASE entry.own /\ UNCHANGED toWorker
  <2>1. DownQueues' /\ \A v \in Workers : Down(v)' = Down(v)
    BY <1>16, SameDown DEF IInv
  <2>2. ASSUME NEW v \in Workers, NEW j
        PROVE  Upper(v, j)'
    <3>1. Upper(v, j)
      BY <1>7, TokensAll
    <3>2. KeepsUpper(v, j)
      BY <1>1, <1>2, <1>9, <1>11, <2>1 DEF KeepsUpper
    <3> QED
      BY <3>1, <3>2, UpperKept
  <2>3. \A v \in Workers : \A j : Lower(v, j)'
    BY <1>12, <1>13, <2>1
  <2>4. Tokens'
    BY <1>14, <1>15, <2>2, <2>3, TokensNext DEF AllTokens
  <2> QED
    BY <1>1, <1>6, <1>7, <1>8, <2>1, <2>4 DEF IInv
<1>17. CASE ~ entry.own /\ toWorker' = Posted(entry.link, Reply(entry.id, answer))
  <2>m. PICK x, y, r : x = entry.link /\ y = entry.id /\ r = Reply(y, answer)
    OBVIOUS
  <2>1. /\ i \in ForwardIds(w) /\ x \in Workers /\ y \in DOMAIN waits[x]
        /\ Forwarded(x, y) /\ c = CallOf(x, y)
    <3>1. i \in ForwardIds(w)
      BY <1>1, <1>2, <1>17 DEF ForwardIds, OwnPageIds
    <3>2. x \in Workers /\ y \in DOMAIN waits[x]
      BY <1>2, <1>7, <2>m, <3>1 DEF Waitings, Forwardings
    <3>3. Forwarded(x, y)
      BY <1>2, <2>m, <3>1 DEF Forwarded
    <3>4. c = CallOf(x, y)
      BY <1>2, <1>17, <2>m DEF PageCallOf
    <3> QED
      BY <3>1, <3>2, <3>3, <3>4
  <2>2. Upper(x, y)
    BY <1>7, <2>1, TokensAll
  <2>3. /\ \A n \in Up(x) : ~ (IsCall(n) /\ n.id = y)
        /\ \A p \in pulls : ~ (p.link = x /\ p.id = y)
        /\ \A n \in Down(x) : ~ (IsReply(n) /\ n.id = y)
    BY <2>1, <2>2 DEF Upper
  <2>4. ~ ToldDown(x, y) /\ toWorker' = Posted(x, Reply(y, answer))
    BY <1>17, <2>m, <2>3 DEF ToldDown
  <2>5. /\ DownQueues'
        /\ \A v \in Workers : Down(v)' \subseteq IF v = x THEN Down(v) \cup {r} ELSE Down(v)
    BY <2>m, <2>1, <2>4, PostsReply DEF IInv
  <2>6. IsReply(r) /\ ~ IsCall(r) /\ r.id = y /\ r.answer = answer
    BY <2>m DEF Reply, IsCall, IsReply
  <2>7. \A v \in Workers : \A n \in Down(v)' : IsCall(n) => n \in Down(v)
    BY <2>5, <2>6
  <2>8. ASSUME NEW v \in Workers, NEW j, ~ (v = x /\ j = y)
        PROVE  Upper(v, j)'
    <3>1. Upper(v, j)
      BY <1>7, TokensAll
    <3>2. KeepsUpper(v, j)
      BY <1>1, <1>2, <1>9, <1>11, <2>5, <2>6, <2>8 DEF KeepsUpper
    <3> QED
      BY <3>1, <3>2, UpperKept
  <2>9. Upper(x, y)'
    <3>1. ~ Forwarded(x, y)'
      <4>1. \A v \in Workers : \A j \in ForwardIds(v) :
                pageWaits[v][j].link = x /\ pageWaits[v][j].id = y => v = w /\ j = i
        <5>1. pageWaits[w][i].link = x /\ pageWaits[w][i].id = y /\ Forwardings
          BY <1>2, <1>7, <2>m DEF Waitings
        <5> QED
          BY <2>1, <5>1 DEF Forwardings
      <4>2. \A v \in Workers : \A j \in ForwardIds(v)' :
                ~ (pageWaits'[v][j].link = x /\ pageWaits'[v][j].id = y)
        BY <1>10, <4>1
      <4> QED
        BY <4>2 DEF Forwarded
    <3>2. y \in DOMAIN waits'[x] /\ Fits(CallOf(x, y), answer)'
      <4>1. CallOf(x, y)' = c
        BY <1>9, <2>1
      <4> QED
        BY <1>2, <1>3, <2>1, <4>1 DEF Fits
    <3>3. \A n \in Down(x)' : IsReply(n) /\ n.id = y => n = r
      BY <2>1, <2>3, <2>5
    <3>4. \A n \in Down(x)' : IsReply(n) /\ n.id = y =>
              y \in DOMAIN waits'[x] /\ Fits(CallOf(x, y), n.answer)' /\ ~ Forwarded(x, y)'
      BY <2>6, <3>1, <3>2, <3>3
    <3>5. \A n \in Up(x)' : ~ (IsCall(n) /\ n.id = y)
      BY <1>1, <2>1, <2>3
    <3>6. \A p \in pulls' : ~ (p.link = x /\ p.id = y)
      BY <1>2, <2>3
    <3> QED
      BY <3>4, <3>5, <3>6 DEF Upper, IsCall, IsReply
  <2>10. \A v \in Workers : \A j : Lower(v, j)'
    BY <1>12, <1>13, <2>7
  <2>11. \A v \in Workers : \A j : Upper(v, j)'
    BY <2>8, <2>9
  <2>12. Tokens'
    BY <1>14, <1>15, <2>10, <2>11, TokensNext DEF AllTokens
  <2> QED
    BY <1>1, <1>6, <1>7, <1>8, <2>5, <2>12 DEF IInv
<1> QED
  BY <1>2, <1>16, <1>17

LEMMA PageGetsReplyStep ==
    ASSUME IInv, NEW w \in Workers, PageGetsReply(w)
    PROVE  IInv' /\ RStep
<1>m. PICK m, i, c, answer, entry :
          /\ m = Head(toPage[w]) /\ i = m.id /\ c = PageCallOf(w, i)
          /\ answer = m.answer /\ entry = pageWaits[w][i]
  OBVIOUS
<1>1. Received(w) /\ m.type = "reply"
  BY <1>m DEF PageGetsReply
<1>2. i \in DOMAIN pageWaits[w] /\ c \in Calls
  BY <1>m, <1>1, PageTakesReply
<1>3. entry.own => entry.call = c
  BY <1>m DEF PageCallOf
<1>4. PageForgets(w, i, c, answer, entry)
  BY <1>m, <1>2, <1>3 DEF PageGetsReply, PageForgets, PassedOn
<1> QED
  BY <1>m, <1>1, <1>2, <1>4, PageForgetsStep

-----------------------------------------------------------------------------
(* Replies reach a worker *)

(* A reply that reaches a worker is for one of its waitings, and alone.     *)
LEMMA WorkerTakesReply ==
    ASSUME IInv, NEW w \in Workers, Taken(w), Head(toWorker[w]).type = "reply"
    PROVE  LET m == Head(toWorker[w]) IN
           /\ DownQueues' /\ \A v \in Workers : Down(v)' \subseteq Down(v)
           /\ m.id \in DOMAIN waits[w] /\ Fits(CallOf(w, m.id), m.answer)
           /\ CallOf(w, m.id) \in Calls /\ result[CallOf(w, m.id)] = "open"
           /\ From[CallOf(w, m.id)] = w /\ ~ Forwarded(w, m.id)
           /\ \A n \in Up(w) : ~ (IsCall(n) /\ n.id = m.id)
           /\ \A p \in pulls : ~ (p.link = w /\ p.id = m.id)
           /\ \A n \in Down(w)' : ~ (IsReply(n) /\ n.id = m.id)
<1> DEFINE m == Head(toWorker[w])
<1>1. /\ DownQueues' /\ m \in Down(w)
      /\ \A v \in Workers : Down(v)' = IF v = w THEN Down(v) \ {m} ELSE Down(v)
  BY TakesDown DEF IInv
<1>2. IsReply(m)
  BY DEF IsReply
<1> HIDE DEF m
<1>3. Upper(w, m.id)
  BY TokensAll DEF IInv
<1>4. ToldDown(w, m.id)
  BY <1>1, <1>2 DEF ToldDown
<1>5. /\ m.id \in DOMAIN waits[w] /\ Fits(CallOf(w, m.id), m.answer) /\ ~ Forwarded(w, m.id)
      /\ \A n \in Up(w) : ~ (IsCall(n) /\ n.id = m.id)
      /\ \A p \in pulls : ~ (p.link = w /\ p.id = m.id)
  BY <1>1, <1>2, <1>3, <1>4 DEF Upper
<1>6. CallOf(w, m.id) \in Calls /\ From[CallOf(w, m.id)] = w /\ result[CallOf(w, m.id)] = "open"
  BY <1>5, CallOfFacts DEF IInv
<1>7. ASSUME NEW n \in Down(w)', IsReply(n), n.id = m.id
      PROVE  FALSE
  <2>1. n \in Down(w) /\ n # m
    BY <1>1, <1>7
  <2>2. n.type = m.type
    BY <1>2, <1>7 DEF IsReply
  <2>3. UniqueIn(Down(w))
    BY DEF IInv, DownQueues
  <2> QED
    BY <1>1, <1>7, <2>1, <2>2, <2>3 DEF UniqueIn
<1>8. \A v \in Workers : Down(v)' \subseteq Down(v)
  BY <1>1
<1> QED
  BY <1>1, <1>5, <1>6, <1>7, <1>8 DEF m

(* The waiting i of w, for call c, goes: c has its answer, if it is not one *)
(* of a program that does not run any more.                                 *)
WorkerForgets(w, i, c, answer, entry) ==
    /\ i \in DOMAIN waits[w] /\ entry = waits[w][i] /\ c = CallOf(w, i) /\ ~ Forwarded(w, i)
    /\ waits' = [waits EXCEPT ![w] = Without(@, i)]
    /\ \/ entry.own /\ result' = Answered(c, answer) /\ UNCHANGED cbMap
       \/ ~ entry.own /\ UNCHANGED <<cbMap, result>>
       \/ /\ ~ entry.own /\ result' = Answered(c, answer)
          /\ cbMap' = [cbMap EXCEPT ![w] = Without(@, entry.id)]
    /\ UNCHANGED <<listed, pageWaits, rwMap, handling, pulls, served>>

LEMMA WaitsForgotten ==
    ASSUME IInv, NEW w \in Workers, NEW i, NEW c, NEW answer, NEW entry,
           WorkerForgets(w, i, c, answer, entry)
    PROVE  /\ DOMAIN waits' = Workers /\ DOMAIN cbMap' = Workers
           /\ \A v \in Workers : v # w => waits'[v] = waits[v] /\ cbMap'[v] = cbMap[v]
           /\ DOMAIN waits'[w] = DOMAIN waits[w] \ {i}
           /\ \A j \in DOMAIN waits[w] \ {i} : waits'[w][j] = waits[w][j]
           /\ \A l \in DOMAIN cbMap'[w] : l \in DOMAIN cbMap[w] /\ cbMap'[w][l] = cbMap[w][l]
           /\ \/ cbMap'[w] = cbMap[w]
              \/ ~ entry.own /\ DOMAIN cbMap'[w] = DOMAIN cbMap[w] \ {entry.id}
<1>1. DOMAIN waits = Workers /\ DOMAIN cbMap = Workers
  BY DEF IInv, Tables
<1>2. /\ DOMAIN waits' = Workers /\ waits'[w] = Without(waits[w], i)
      /\ \A v \in Workers : v # w => waits'[v] = waits[v]
  BY <1>1 DEF WorkerForgets
<1>3. /\ DOMAIN waits'[w] = DOMAIN waits[w] \ {i}
      /\ \A j \in DOMAIN waits[w] \ {i} : waits'[w][j] = waits[w][j]
  BY <1>2 DEF Without
<1>4. CASE UNCHANGED cbMap
  BY <1>1, <1>2, <1>3, <1>4
<1>5. CASE ~ entry.own /\ cbMap' = [cbMap EXCEPT ![w] = Without(@, entry.id)]
  BY <1>1, <1>2, <1>3, <1>5 DEF Without
<1> QED
  BY <1>4, <1>5 DEF WorkerForgets

LEMMA WorkerForgetsWaitings ==
    ASSUME IInv, NEW w \in Workers, NEW i, NEW c \in Calls, NEW answer, NEW entry,
           WorkerForgets(w, i, c, answer, entry), Fits(c, answer), result[c] = "open"
    PROVE  Waitings'
<1>1. /\ \A v \in Workers : v # w => waits'[v] = waits[v] /\ cbMap'[v] = cbMap[v]
      /\ DOMAIN waits'[w] = DOMAIN waits[w] \ {i}
      /\ \A j \in DOMAIN waits[w] \ {i} : waits'[w][j] = waits[w][j]
      /\ \A l \in DOMAIN cbMap'[w] : l \in DOMAIN cbMap[w] /\ cbMap'[w][l] = cbMap[w][l]
  BY WaitsForgotten
<1>2. \/ cbMap'[w] = cbMap[w]
      \/ ~ entry.own /\ DOMAIN cbMap'[w] = DOMAIN cbMap[w] \ {entry.id}
  BY WaitsForgotten
<1>3. /\ i \in DOMAIN waits[w] /\ entry = waits[w][i] /\ c = CallOf(w, i) /\ ~ Forwarded(w, i)
      /\ pageWaits' = pageWaits /\ Waitings /\ GoCalls(w) /\ OwnCalls(w)
  BY DEF WorkerForgets, IInv, Waitings
<1>4. /\ From[c] = w
      /\ \A v \in Workers : \A j \in DOMAIN waits[v] : CallOf(v, j) = c => v = w /\ j = i
  BY <1>3, CallOfFacts
<1>5. \/ UNCHANGED result
      \/ \A d \in Calls : result'[d] = IF d = c THEN answer ELSE result[d]
  BY AnsweredFits DEF WorkerForgets, IInv
<1>6. answer # "open" /\ \A d \in Calls : d # c => result'[d] = result[d]
  BY <1>5, Constants DEF Fits
<1>7. /\ \A v \in Workers : \A j \in OwnIds(v)' :
            j \in OwnIds(v) /\ waits'[v][j] = waits[v][j] /\ waits[v][j].call # c
      /\ \A v \in Workers : \A j \in GoIds(v)' :
            j \in GoIds(v) /\ waits'[v][j] = waits[v][j] /\ ~ (v = w /\ j = i)
  <2>1. \A v \in Workers : \A j \in DOMAIN waits'[v] :
            j \in DOMAIN waits[v] /\ waits'[v][j] = waits[v][j] /\ ~ (v = w /\ j = i)
    BY <1>1
  <2>2. \A v \in Workers : \A j \in OwnIds(v) :
            j \in DOMAIN waits[v] /\ CallOf(v, j) = waits[v][j].call
    BY DEF OwnIds, CallOf
  <2>3. /\ \A v \in Workers : \A j \in OwnIds(v)' :
              j \in OwnIds(v) /\ waits'[v][j] = waits[v][j] /\ ~ (v = w /\ j = i)
        /\ \A v \in Workers : \A j \in GoIds(v)' :
              j \in GoIds(v) /\ waits'[v][j] = waits[v][j] /\ ~ (v = w /\ j = i)
    BY <2>1 DEF OwnIds, GoIds
  <2> QED
    BY <1>4, <2>2, <2>3
<1>8. ASSUME NEW v \in Workers, v # w
      PROVE  GoCalls(v)' /\ OwnCalls(v)'
  <2>1. waits'[v] = waits[v] /\ cbMap'[v] = cbMap[v] /\ GoCalls(v) /\ OwnCalls(v)
    BY <1>1, <1>3, <1>8 DEF Waitings
  <2>2. \A d \in Calls : From[d] = v => result'[d] = result[d]
    BY <1>4, <1>6, <1>8
  <2>3. OwnIds(v)' = OwnIds(v) /\ GoIds(v)' = GoIds(v)
    BY <2>1 DEF OwnIds, GoIds
  <2> QED
    BY <2>1, <2>2, <2>3 DEF GoCalls, OwnCalls
<1>9. /\ \A d \in CallsIn(w) : \/ \E k \in DOMAIN cbMap[w] : d = cbMap[w][k]
                              \/ \E j \in OwnIds(w) : d = waits[w][j].call
      /\ \A k \in DOMAIN cbMap'[w] : cbMap[w][k] \in CallsIn(w)'
      /\ \A j \in OwnIds(w) \ {i} : waits[w][j].call \in CallsIn(w)'
  <2>1. \A d \in CallsIn(w) : \/ \E k \in DOMAIN cbMap[w] : d = cbMap[w][k]
                              \/ \E j \in OwnIds(w) : d = waits[w][j].call
    BY DEF CallsIn, OwnIds
  <2>2. \A k \in DOMAIN cbMap'[w] : cbMap[w][k] \in CallsIn(w)'
    BY <1>1 DEF CallsIn
  <2>3. \A j \in OwnIds(w) \ {i} : j \in OwnIds(w)' /\ waits'[w][j] = waits[w][j]
    BY <1>1 DEF OwnIds
  <2>4. \A j \in OwnIds(w)' : waits'[w][j].call \in CallsIn(w)'
    BY DEF CallsIn, OwnIds
  <2>5. \A j \in OwnIds(w) \ {i} : waits[w][j].call \in CallsIn(w)'
    BY <2>3, <2>4
  <2> QED
    BY <2>1, <2>2, <2>5
<1> DEFINE Still ==
      /\ GoCalls(w)' /\ OwnCalls(w)'
      /\ \A d \in CallsIn(w) : d \in CallsIn(w)' \/ (d = c /\ result'[c] # "open")
<1>10. ASSUME entry.own /\ result' = Answered(c, answer) /\ cbMap'[w] = cbMap[w]
       PROVE  Still
  <2>1. c = waits[w][i].call /\ i \in OwnIds(w)
    BY <1>3, <1>10 DEF CallOf, OwnIds
  <2>2. \A k \in DOMAIN cbMap[w] : cbMap[w][k] # c
    BY <1>3, <2>1 DEF OwnCalls
  <2>3. GoCalls(w)'
    BY <1>3, <1>6, <1>7, <1>10, <2>2 DEF GoCalls
  <2>4. OwnCalls(w)'
    BY <1>3, <1>6, <1>7, <1>10 DEF OwnCalls
  <2>5. result'[c] # "open"
    BY <1>6, <1>10, AnsweredFits DEF WorkerForgets, IInv
  <2>6. \A d \in CallsIn(w) \ {c} : d \in CallsIn(w)'
    BY <1>9, <1>10, <2>1
  <2> QED
    BY <2>3, <2>4, <2>5, <2>6
<1>11. ASSUME ~ entry.own /\ UNCHANGED result /\ cbMap'[w] = cbMap[w]
       PROVE  Still
  <2>1. i \notin OwnIds(w)
    BY <1>3, <1>11 DEF OwnIds
  <2>2. GoCalls(w)'
    BY <1>3, <1>7, <1>11 DEF GoCalls
  <2>3. OwnCalls(w)'
    BY <1>3, <1>7, <1>11 DEF OwnCalls
  <2>4. \A d \in CallsIn(w) : d \in CallsIn(w)'
    BY <1>9, <1>11, <2>1
  <2> QED
    BY <1>11, <2>2, <2>3, <2>4
<1>12. ASSUME /\ ~ entry.own /\ result' = Answered(c, answer)
              /\ DOMAIN cbMap'[w] = DOMAIN cbMap[w] \ {entry.id}
       PROVE  Still
  <2>1. /\ i \in GoIds(w) /\ i \notin OwnIds(w) /\ c = cbMap[w][entry.id]
        /\ entry.id \in DOMAIN cbMap[w]
    BY <1>3, <1>12 DEF OwnIds, GoIds, CallOf, GoCalls
  <2>2. \A k \in DOMAIN cbMap'[w] : /\ k \in DOMAIN cbMap[w] /\ cbMap'[w][k] = cbMap[w][k]
                                    /\ cbMap[w][k] # c
    BY <1>1, <1>3, <1>12, <2>1 DEF GoCalls
  <2>3. \A j \in GoIds(w)' : waits[w][j].id # entry.id
    BY <1>3, <1>7, <2>1 DEF GoCalls
  <2>4. GoCalls(w)'
    BY <1>3, <1>6, <1>7, <1>12, <2>2, <2>3 DEF GoCalls
  <2>5. OwnCalls(w)'
    BY <1>3, <1>6, <1>7, <2>2 DEF OwnCalls
  <2>6. result'[c] # "open"
    BY <1>6, <1>12, AnsweredFits DEF WorkerForgets, IInv
  <2>7. \A d \in CallsIn(w) \ {c} : d \in CallsIn(w)'
    BY <1>9, <1>12, <2>1
  <2> QED
    BY <2>4, <2>5, <2>6, <2>7
<1> HIDE DEF Still
<1>13. Still
  <2>1. DOMAIN cbMap = Workers
    BY DEF IInv, Tables
  <2>2. \/ entry.own /\ result' = Answered(c, answer) /\ UNCHANGED cbMap
        \/ ~ entry.own /\ UNCHANGED <<cbMap, result>>
        \/ /\ ~ entry.own /\ result' = Answered(c, answer)
           /\ cbMap' = [cbMap EXCEPT ![w] = Without(@, entry.id)]
    BY DEF WorkerForgets
  <2>3. CASE \/ entry.own /\ result' = Answered(c, answer) /\ UNCHANGED cbMap
             \/ ~ entry.own /\ UNCHANGED <<cbMap, result>>
    BY <1>10, <1>11, <2>2, <2>3
  <2>4. CASE /\ ~ entry.own /\ result' = Answered(c, answer)
             /\ cbMap' = [cbMap EXCEPT ![w] = Without(@, entry.id)]
    <3>1. DOMAIN cbMap'[w] = DOMAIN cbMap[w] \ {entry.id}
      BY <2>1, <2>4 DEF Without
    <3> QED
      BY <1>12, <2>4, <3>1
  <2> QED
    BY <2>2, <2>3, <2>4
<1>14. PageCalls' /\ Forwardings'
  <2>1. \A v \in Workers : OwnPageIds(v)' = OwnPageIds(v) /\ ForwardIds(v)' = ForwardIds(v)
    BY <1>3 DEF OwnPageIds, ForwardIds
  <2>2. \A v \in Workers : \A j \in OwnPageIds(v) : pageWaits[v][j].call # c
    BY <1>3, <1>4, Constants DEF Waitings, PageCalls
  <2>3. PageCalls'
    BY <1>3, <1>6, <2>1, <2>2 DEF Waitings, PageCalls
  <2>4. \A v \in Workers : \A j \in DOMAIN waits[v] : j \in DOMAIN waits'[v] \/ (v = w /\ j = i)
    BY <1>1
  <2>5. \A v \in Workers : \A j \in ForwardIds(v) :
            ~ (pageWaits[v][j].link = w /\ pageWaits[v][j].id = i)
    BY <1>3 DEF Forwarded
  <2>6. Forwardings'
    BY <1>3, <2>1, <2>4, <2>5 DEF Waitings, Forwardings
  <2> QED
    BY <2>3, <2>6
<1>15. OpenCalls'
  <2> SUFFICES ASSUME NEW v \in Workers, NEW d \in Calls, From[d] = v, result'[d] = "open"
               PROVE  d \in CallsIn(v)'
    BY DEF OpenCalls
  <2>1. d # c \/ result'[c] = "open"
    OBVIOUS
  <2>2. result[d] = "open"
    BY <1>5, <1>6
  <2>3. d \in CallsIn(v)
    BY <1>3, <2>2 DEF Waitings, OpenCalls
  <2>4. CASE v = w
    BY <1>13, <2>1, <2>3, <2>4 DEF Still
  <2>5. CASE v # w
    <3>1. CallsIn(v)' = CallsIn(v)
      BY <1>1, <2>5 DEF CallsIn
    <3> QED
      BY <2>3, <3>1
  <2> QED
    BY <2>4, <2>5
<1> QED
  BY <1>8, <1>13, <1>14, <1>15 DEF Waitings, Still

LEMMA WorkerForgetsStep ==
    ASSUME IInv, NEW w \in Workers, NEW m, NEW i, NEW c \in Calls, NEW answer, NEW entry,
           m = Head(toWorker[w]), i = m.id, answer = m.answer, Taken(w), m.type = "reply",
           WorkerForgets(w, i, c, answer, entry), UNCHANGED toPage
    PROVE  IInv' /\ RStep
<1>1. /\ DownQueues' /\ \A v \in Workers : Down(v)' \subseteq Down(v)
      /\ i \in DOMAIN waits[w] /\ Fits(CallOf(w, i), answer)
      /\ result[CallOf(w, i)] = "open" /\ ~ Forwarded(w, i)
      /\ \A n \in Up(w) : ~ (IsCall(n) /\ n.id = i)
      /\ \A p \in pulls : ~ (p.link = w /\ p.id = i)
      /\ \A n \in Down(w)' : ~ (IsReply(n) /\ n.id = i)
  BY WorkerTakesReply
<1>2. /\ c = CallOf(w, i) /\ entry = waits[w][i]
      /\ UNCHANGED <<listed, pageWaits, rwMap, handling, pulls, served>>
      /\ result' = Answered(c, answer) \/ UNCHANGED result
  BY DEF WorkerForgets
<1>3. Fits(c, answer) /\ result[c] = "open"
  BY <1>1, <1>2
<1>4. /\ DOMAIN waits' = Workers /\ DOMAIN cbMap' = Workers
      /\ \A v \in Workers : v # w => waits'[v] = waits[v] /\ cbMap'[v] = cbMap[v]
      /\ DOMAIN waits'[w] = DOMAIN waits[w] \ {i}
      /\ \A j \in DOMAIN waits[w] \ {i} : waits'[w][j] = waits[w][j]
      /\ \A l \in DOMAIN cbMap'[w] : l \in DOMAIN cbMap[w] /\ cbMap'[w][l] = cbMap[w][l]
  BY WaitsForgotten
<1>5. \/ cbMap'[w] = cbMap[w]
      \/ ~ entry.own /\ DOMAIN cbMap'[w] = DOMAIN cbMap[w] \ {entry.id}
  BY WaitsForgotten
<1>6. /\ RStep /\ DOMAIN result' = Calls
      /\ \A d \in Calls : result'[d] = "idle" => served'[d] = 0
  <2>1. CASE result' = Answered(c, answer)
    BY <1>2, <1>3, <2>1, AnsweredFits DEF IInv
  <2>2. CASE UNCHANGED result
    BY <1>2, <2>2 DEF IInv, Tables, RStep
  <2> QED
    BY <1>2, <2>1, <2>2
<1>7. Waitings' /\ Waitings /\ Tokens
  BY <1>3, WorkerForgetsWaitings DEF IInv
<1>8. Tables'
  <2>1. IsFiniteSet(DOMAIN waits[w]) /\ IsFiniteSet(DOMAIN cbMap[w])
    BY DEF IInv, Tables
  <2>2. IsFiniteSet(DOMAIN waits'[w])
    BY <1>4, <2>1, FS_RemoveElement
  <2>3. IsFiniteSet(DOMAIN cbMap'[w])
    BY <1>5, <2>1, FS_RemoveElement
  <2> QED
    BY <1>2, <1>4, <1>6, <2>2, <2>3 DEF IInv, Tables
<1>9. UpQueues' /\ \A v \in Workers : Up(v)' = Up(v)
  BY SameUp DEF IInv
<1>10. ASSUME NEW v \in Workers, NEW j \in DOMAIN waits[v], ~ (v = w /\ j = i)
       PROVE  j \in DOMAIN waits'[v] /\ CallOf(v, j)' = CallOf(v, j)
  <2>1. CASE v # w
    BY <1>4, <2>1 DEF CallOf
  <2>2. CASE v = w
    <3>1. j \in DOMAIN waits'[w] /\ waits'[w][j] = waits[w][j]
      BY <1>4, <1>10, <2>2
    <3>2. CASE waits[w][j].own
      BY <2>2, <3>1, <3>2 DEF CallOf
    <3>3. CASE ~ waits[w][j].own
      <4>1. GoCalls(w)
        BY <1>7 DEF Waitings
      <4>2. waits[w][j].id \in DOMAIN cbMap[w] /\ j \in GoIds(w)
        BY <2>2, <3>3, <4>1 DEF GoCalls, GoIds, OwnIds
      <4>3. ~ entry.own => waits[w][j].id # entry.id
        BY <1>1, <1>2, <1>10, <2>2, <4>1, <4>2 DEF GoCalls, GoIds, OwnIds
      <4>4. waits[w][j].id \in DOMAIN cbMap'[w]
        BY <1>5, <4>2, <4>3
      <4> QED
        BY <1>4, <2>2, <3>1, <3>3, <4>4 DEF CallOf
    <3> QED
      BY <3>2, <3>3
  <2> QED
    BY <2>1, <2>2
<1>11. \A v \in Workers : \A j : Forwarded(v, j)' <=> Forwarded(v, j)
  <2>1. \A v \in Workers : ForwardIds(v)' = ForwardIds(v)
    BY <1>2 DEF ForwardIds, OwnPageIds
  <2> QED
    BY <1>2, <2>1 DEF Forwarded
<1>12. ASSUME NEW v \in Workers, NEW j \in DOMAIN pageWaits[v]
       PROVE  PageCallOf(v, j)' = PageCallOf(v, j)
  <2>1. CASE pageWaits[v][j].own
    BY <1>2, <2>1 DEF PageCallOf
  <2>2. CASE ~ pageWaits[v][j].own
    <3>m. PICK x, y : x = pageWaits[v][j].link /\ y = pageWaits[v][j].id
      OBVIOUS
    <3>1. x \in Workers /\ y \in DOMAIN waits[x] /\ j \in ForwardIds(v)
      BY <1>7, <2>2, <3>m DEF Waitings, Forwardings, ForwardIds, OwnPageIds
    <3>2. ~ (x = w /\ y = i)
      BY <1>1, <3>m, <3>1 DEF Forwarded
    <3>3. CallOf(x, y)' = CallOf(x, y)
      BY <1>10, <3>1, <3>2
    <3>4. PageCallOf(v, j) = CallOf(x, y)
      BY <2>2, <3>m DEF PageCallOf
    <3>5. PageCallOf(v, j)' = CallOf(x, y)'
      BY <1>2, <2>2, <3>m DEF PageCallOf, CallOf
    <3> QED
      BY <3>3, <3>4, <3>5
  <2> QED
    BY <2>1, <2>2
<1>13. ASSUME NEW v \in Workers, NEW j, ~ (v = w /\ j = i)
       PROVE  Upper(v, j)'
  <2>1. Upper(v, j)
    BY <1>7, TokensAll
  <2>2. KeepsUpper(v, j)
    BY <1>1, <1>2, <1>9, <1>10, <1>11, <1>13 DEF KeepsUpper
  <2> QED
    BY <2>1, <2>2, UpperKept
<1>14. Upper(w, i)'
  <2>1. \A n \in Up(w)' : ~ (IsCall(n) /\ n.id = i)
    BY <1>1, <1>9
  <2>2. \A p \in pulls' : ~ (p.link = w /\ p.id = i)
    BY <1>1, <1>2
  <2>3. \A n \in Down(w)' : ~ (IsReply(n) /\ n.id = i)
    BY <1>1
  <2> QED
    BY <2>1, <2>2, <2>3 DEF Upper, IsCall, IsReply
<1>15. ASSUME NEW v \in Workers, NEW j
       PROVE  Lower(v, j)'
  <2>1. Lower(v, j)
    BY <1>7, TokensAll
  <2>2. KeepsLower(v, j)
    BY <1>1, <1>2, <1>9, <1>12 DEF KeepsLower
  <2> QED
    BY <2>1, <2>2, LowerKept
<1>16. \A v \in Workers : Handlers(v)'
  BY <1>2, <1>7, TokensAll DEF Handlers
<1>17. \A p \in pulls' : p.link \in Workers
  BY <1>2, <1>7, TokensAll
<1>18. Tokens'
  BY <1>13, <1>14, <1>15, <1>16, <1>17, TokensNext DEF AllTokens
<1> QED
  BY <1>1, <1>6, <1>7, <1>8, <1>9, <1>18 DEF IInv

LEMMA WorkerGetsReplyStep ==
    ASSUME IInv, NEW w \in Workers, WorkerGetsReply(w)
    PROVE  IInv' /\ RStep
<1>m. PICK m, i, c, answer, entry :
          /\ m = Head(toWorker[w]) /\ i = m.id /\ c = CallOf(w, i)
          /\ answer = m.answer /\ entry = waits[w][i]
  OBVIOUS
<1>1. Taken(w) /\ m.type = "reply" /\ UNCHANGED toPage
  BY <1>m DEF WorkerGetsReply
<1>2. i \in DOMAIN waits[w] /\ c \in Calls /\ ~ Forwarded(w, i)
  BY <1>m, <1>1, WorkerTakesReply
<1>3. /\ entry.own => c = entry.call
      /\ ~ entry.own => c = cbMap[w][entry.id]
  BY <1>m DEF CallOf
<1>4. WorkerForgets(w, i, c, answer, entry)
  BY <1>m, <1>2, <1>3 DEF WorkerGetsReply, WorkerForgets
<1> QED
  BY <1>m, <1>1, <1>2, <1>4, WorkerForgetsStep

-----------------------------------------------------------------------------
(* The theorems *)

LEMMA InitInv == Init => IInv
<1> SUFFICES ASSUME Init PROVE IInv
  OBVIOUS
<1>1. UpQueues /\ DownQueues
  BY QueueEmpty DEF Init, UpQueues, DownQueues, Up, Down, UniqueIn
<1>2. Tables
  BY FS_EmptySet DEF Init, Tables
<1>3. Waitings
  BY DEF Init, Waitings, GoCalls, OwnCalls, PageCalls, Forwardings, OpenCalls, OwnIds, GoIds,
         OwnPageIds, ForwardIds
<1>4. Tokens
  BY QueueEmpty DEF Init, Tokens, Up, Down, Handlers
<1> QED
  BY <1>1, <1>2, <1>3, <1>4 DEF IInv

LEMMA StutterInv == IInv /\ UNCHANGED vars => IInv' /\ RStep
<1> SUFFICES ASSUME IInv, UNCHANGED vars PROVE IInv' /\ RStep
  OBVIOUS
<1>1. /\ SameTables /\ UNCHANGED <<rwMap, pulls, served, result, listed, handling, toPage, toWorker>>
  BY DEF vars, SameTables
<1>2. DOMAIN handling = Workers /\ DOMAIN toPage = Workers /\ DOMAIN toWorker = Workers
  BY DEF IInv, Tables, UpQueues, DownQueues
<1> QED
  BY <1>1, <1>2, LossStep

LEMMA NextStep == IInv /\ [Next]_vars => IInv' /\ RStep
<1> SUFFICES ASSUME IInv, [Next]_vars PROVE IInv' /\ RStep
  OBVIOUS
<1>1. ASSUME NEW w \in Workers, NEW c \in Calls, GoCall(w, c) PROVE IInv' /\ RStep
  BY <1>1, GoCallStep
<1>2. ASSUME NEW w \in Workers, Receives(w) PROVE IInv' /\ RStep
  BY <1>2, PageServesStep, PageForwardsToAppStep, PageForwardsToNodeStep, PageRefusesStep,
     PageGetsReplyStep, WorkerServesStep, WorkerPassesToGoStep, WorkerGetsReplyStep
     DEF Receives
<1>3. ASSUME NEW w \in Workers, GoHandles(w) PROVE IInv' /\ RStep
  BY <1>3, GoServesStep, GoAnswersStep DEF GoHandles
<1>4. ASSUME NEW w \in Workers, GoExits(w) PROVE IInv' /\ RStep
  BY <1>4, GoExitsStep
<1>5. ASSUME NEW c \in Calls, PageCall(c) PROVE IInv' /\ RStep
  BY <1>5, PageCallStep
<1>6. ASSUME PullAnswered PROVE IInv' /\ RStep
  BY <1>6, PullAnsweredStep
<1>7. ASSUME NEW a \in Apps, NEW c \in Calls, WorkerCall(a, c) PROVE IInv' /\ RStep
  BY <1>7, WorkerCallStep
<1>8. ASSUME NEW a \in Apps, GoStarts(a) PROVE IInv' /\ RStep
  BY <1>8, GoStartsStep
<1>9. ASSUME NEW a \in Apps, CleanUp(a) \/ RemoveContainer(a) PROVE IInv' /\ RStep
  BY <1>9, TerminatedStep DEF CleanUp, RemoveContainer
<1>10. ASSUME UNCHANGED vars PROVE IInv' /\ RStep
  BY <1>10, StutterInv
<1> QED
  BY <1>1, <1>2, <1>3, <1>4, <1>5, <1>6, <1>7, <1>8, <1>9, <1>10 DEF Next

(* What is on its way, and the tables it is answered through, stay as the   *)
(* invariant says (src/crosslink.ts, src/crosslink/crosslink.go).           *)
THEOREM CallsInductive == Spec => []IInv
<1>1. IInv /\ [Next]_vars => IInv'
  BY NextStep
<1> QED
  BY <1>1, InitInv, PTL DEF Spec

(* Every caller gets the answer to its own call and gets it once, and a     *)
(* handler is called once for it.                                           *)
THEOREM AnswersItsOwn == Spec => ImplementsRpc
<1>1. Init => R!RpcInit
  BY DEF Init, R!RpcInit
<1>2. IInv /\ [Next]_vars => [R!RpcNext]_<<served, result>>
  BY NextStep DEF RStep
<1> QED
  BY <1>1, <1>2, CallsInductive, PTL DEF Spec, ImplementsRpc, R!RpcSpec

(* A call that has its answer leaves nothing behind in the tables.          *)
THEOREM NothingIsLeft == Spec => []NoLeftovers
<1>1. ASSUME Waitings PROVE NoLeftovers
  <2>1. ASSUME NEW w \in Workers, NEW c \in Calls, From[c] = w
        PROVE  result[c] = "open" <=> c \in CallsIn(w)
    BY <1>1, <2>1 DEF Waitings, OpenCalls, CallsIn, GoCalls, OwnCalls, OwnIds
  <2>2. ASSUME NEW w \in Workers, NEW id \in DOMAIN waits[w], ~ waits[w][id].own
        PROVE  waits[w][id].id \in DOMAIN cbMap[w]
    BY <1>1, <2>2 DEF Waitings, GoCalls, GoIds, OwnIds
  <2>3. ASSUME NEW w \in Workers, NEW id \in DOMAIN pageWaits[w], pageWaits[w][id].own
        PROVE  result[pageWaits[w][id].call] = "open"
    BY <1>1, <2>3 DEF Waitings, PageCalls, OwnPageIds
  <2>4. ASSUME NEW w \in Workers, NEW id \in DOMAIN pageWaits[w], ~ pageWaits[w][id].own
        PROVE  pageWaits[w][id].id \in DOMAIN waits[pageWaits[w][id].link]
    BY <1>1, <2>4 DEF Waitings, Forwardings, ForwardIds, OwnPageIds
  <2> QED
    BY <2>1, <2>2, <2>3, <2>4 DEF NoLeftovers
<1>2. IInv => NoLeftovers
  BY <1>1 DEF IInv
<1> QED
  BY <1>2, CallsInductive, PTL

-----------------------------------------------------------------------------
(* Who is refused *)

(* How far programs are, by the calls that have been made *)
Begun ==
    /\ phase \in [Workers -> Phases] /\ phase[Node] \in {"serving", "exited"}
    /\ \A a \in Apps : a \notin listed => phase[a] = "gone"
    /\ \A a \in Apps : result[Boot[a]] \in {"idle", "open"} => phase[a] \in {"loading", "gone"}
    /\ \A c \in Calls, a \in Apps :
          From[c] = a /\ c \notin {Boot[a], Closing[a]} /\ result[c] # "idle"
              => phase[a] \in {"serving", "exited", "gone"}
    /\ \A c \in Calls : From[c] \notin Apps /\ result[c] # "idle" =>
          \A d \in After[c] : result[d] # "idle"

(* A refusal is for a program that has stopped, or for a call that cannot   *)
(* reach one; and what is on its way is so where it was meant to be.        *)
Over(c) == Reachable(c) /\ Timely(c) => Stopped(To[c])

UpFine(w, m) ==
    /\ IsCall(m) => m.leaf = Path[m.call]
    /\ IsReply(m) /\ m.answer = Refused => Over(PageCallOf(w, m.id))

DownFine(w, m) ==
    /\ IsCall(m) /\ Reachable(m.call) =>
          To[m.call] = w /\ (m.leaf \in WorkerFuncs(w) \/ Path[m.call] \in GoFuncs(w))
    /\ IsReply(m) /\ m.answer = Refused => Over(CallOf(w, m.id))

HandlerFine(w, h) == Reachable(h.call) => To[h.call] = w /\ h.path \in GoFuncs(w)

Routed ==
    /\ \A w \in Workers :
          /\ \A m \in Up(w) : UpFine(w, m)
          /\ \A m \in Down(w) : DownFine(w, m)
          /\ \A h \in handling[w] : HandlerFine(w, h)
    /\ \A c \in Calls : result[c] = Refused => Over(c)

-----------------------------------------------------------------------------
(* The phases *)

LEMMA BootFacts ==
    /\ \A a \in Apps : Boot[a] \in Calls /\ From[Boot[a]] = a /\ a \in Workers /\ a # Node
    /\ \A a \in Apps, c \in Calls : From[c] = a => From[c] # Page
    /\ After \in [Calls -> SUBSET Calls]
    /\ From \in [Calls -> Workers \cup {Page}] /\ To \in [Calls -> Workers \cup {Page}]
BY CrosslinkAssumption DEF CrosslinkAssumption, Workers

(* What a worker takes a reply for *)
LEMMA WorkerHears ==
    ASSUME IInv, NEW w \in Workers, WorkerGetsReply(w), Head(toWorker[w]).id \in DOMAIN waits[w]
    PROVE  \E c \in Calls :
              LET m == Head(toWorker[w]) IN
              /\ m \in Down(w) /\ IsReply(m) /\ c = CallOf(w, m.id)
              /\ From[c] = w /\ phase[w] # "gone"
              /\ result[c] = "open" /\ m.answer \in {c, Refused}
              /\ \/ result' = Answered(c, m.answer) /\ phase' = PhaseAfter(c)
                 \/ result' = Answered(c, m.answer) /\ phase' = phase
                 \/ result' = result /\ phase' = phase
<1> DEFINE m == Head(toWorker[w])
           c == CallOf(w, m.id)
<1>1. m \in Down(w) /\ m.type = "reply" /\ IsReply(m) /\ ~ IsCall(m)
  BY TakesDown DEF WorkerGetsReply, IInv, IsReply, IsCall
<1>2. m.id \in DOMAIN waits[w]
  OBVIOUS
<1>3. c \in Calls /\ From[c] = w /\ result[c] = "open"
  BY <1>2, CallOfFacts DEF IInv
<1>4. Upper(w, m.id)
  BY <1>1 DEF IInv, Tokens
<1>5. m.answer \in {c, Refused}
  BY <1>1, <1>4 DEF Upper, Fits
<1>6. \/ result' = Answered(c, m.answer) /\ phase' = PhaseAfter(c)
      \/ result' = Answered(c, m.answer) /\ phase' = phase
      \/ result' = result /\ phase' = phase
  BY <1>2 DEF WorkerGetsReply, CallOf
<1>7. phase[w] # "gone"
  BY DEF WorkerGetsReply, Taken
<1> QED
  BY <1>1, <1>3, <1>5, <1>6, <1>7

(* What the page takes a reply for *)
LEMMA PageHears ==
    ASSUME IInv, NEW w \in Workers, PageGetsReply(w), Head(toPage[w]).id \in DOMAIN pageWaits[w]
    PROVE  LET m == Head(toPage[w])
               c == PageCallOf(w, m.id)
           IN  /\ m \in Up(w) /\ IsReply(m)
               /\ c \in Calls /\ result[c] = "open" /\ m.answer \in {c, Refused}
               /\ \/ /\ pageWaits[w][m.id].own /\ From[c] = Page
                     /\ result' = Answered(c, m.answer)
                  \/ ~ pageWaits[w][m.id].own /\ result' = result
<1> DEFINE m == Head(toPage[w])
           c == PageCallOf(w, m.id)
<1>1. m \in Up(w) /\ m.type = "reply" /\ IsReply(m) /\ ~ IsCall(m)
  BY TakesUp DEF PageGetsReply, IInv, IsReply, IsCall
<1>2. m.id \in DOMAIN pageWaits[w]
  OBVIOUS
<1>3. c \in Calls /\ result[c] = "open"
  BY <1>2, PageCallOfFacts DEF IInv
<1>4. Lower(w, m.id)
  BY <1>1 DEF IInv, Tokens
<1>5. m.answer \in {c, Refused}
  BY <1>1, <1>4 DEF Lower, Fits
<1>6. pageWaits[w][m.id].own => From[c] = Page
  BY <1>2 DEF PageCallOf, IInv, Waitings, PageCalls, OwnPageIds
<1>7. \/ pageWaits[w][m.id].own /\ result' = Answered(c, m.answer)
      \/ ~ pageWaits[w][m.id].own /\ result' = result
  BY <1>2 DEF PageGetsReply, PageCallOf
<1> QED
  BY <1>1, <1>3, <1>5, <1>6, <1>7

(* How a result and the phases may change *)
Opens(c) ==
    /\ result[c] = "idle" /\ result' = Answered(c, "open") /\ phase' = phase
    /\ \/ /\ From[c] \in Workers /\ Running(From[c]) /\ Ready(c)
       \/ \E a \in Apps : From[c] = a /\ \/ c = Boot[a] /\ phase[a] = "loading"
                                         \/ c = Closing[a] /\ phase[a] = "exited"
       \/ From[c] = Page /\ Ready(c)

Closes(c) ==
    \E answer \in {c, Refused} :
        /\ result[c] = "open" /\ result' = Answered(c, answer)
        /\ phase' = phase \/ (phase' = PhaseAfter(c) /\ phase[From[c]] # "gone")

GoesOn(w) ==
    /\ result' = result
    /\ \/ w \in Apps /\ phase[w] = "bound" /\ phase' = [phase EXCEPT ![w] = "serving"]
       \/ Running(w) /\ phase' = [phase EXCEPT ![w] = "exited"]
       \/ w \in Apps /\ phase' = [phase EXCEPT ![w] = "gone"]

LEMMA Progress ==
    ASSUME IInv, [Next]_vars
    PROVE  \/ \E c \in Calls : Opens(c) \/ Closes(c)
           \/ \E w \in Workers : GoesOn(w)
           \/ UNCHANGED <<result, phase>>
<1> DEFINE Goal == \/ \E c \in Calls : Opens(c) \/ Closes(c)
                   \/ \E w \in Workers : GoesOn(w)
                   \/ UNCHANGED <<result, phase>>
<1> USE Constants
<1>1. ASSUME NEW w \in Workers, NEW c \in Calls, GoCall(w, c) PROVE Goal
  <2>1. Opens(c)
    BY <1>1 DEF GoCall, Opens, Ready
  <2> QED
    BY <2>1
<1>2. ASSUME NEW c \in Calls, PageCall(c) PROVE Goal
  <2>1. Opens(c)
    BY <1>2 DEF PageCall, Opens, Ready
  <2> QED
    BY <2>1
<1>3. ASSUME NEW a \in Apps, NEW c \in Calls, WorkerCall(a, c) PROVE Goal
  <2>1. Opens(c)
    BY <1>3 DEF WorkerCall, Opens
  <2> QED
    BY <2>1
<1>4. ASSUME NEW w \in Workers, WorkerGetsReply(w) PROVE Goal
  <2>1. CASE Head(toWorker[w]).id \in DOMAIN waits[w]
    <3>1. PICK c \in Calls :
            /\ From[c] = w /\ phase[w] # "gone"
            /\ result[c] = "open" /\ Head(toWorker[w]).answer \in {c, Refused}
            /\ \/ result' = Answered(c, Head(toWorker[w]).answer) /\ phase' = PhaseAfter(c)
               \/ result' = Answered(c, Head(toWorker[w]).answer) /\ phase' = phase
               \/ result' = result /\ phase' = phase
      BY <1>4, <2>1, WorkerHears
    <3>2. Closes(c) \/ UNCHANGED <<result, phase>>
      BY <3>1 DEF Closes
    <3> QED
      BY <3>2
  <2>2. CASE Head(toWorker[w]).id \notin DOMAIN waits[w]
    BY <1>4, <2>2 DEF WorkerGetsReply
  <2> QED
    BY <2>1, <2>2
<1>5. ASSUME NEW w \in Workers, PageGetsReply(w) PROVE Goal
  <2>1. phase' = phase
    BY <1>5 DEF PageGetsReply
  <2>2. CASE Head(toPage[w]).id \in DOMAIN pageWaits[w]
    <3>1. PICK c \in Calls :
            /\ result[c] = "open" /\ Head(toPage[w]).answer \in {c, Refused}
            /\ result' = Answered(c, Head(toPage[w]).answer) \/ result' = result
      BY <1>5, <2>2, PageHears
    <3>2. Closes(c) \/ UNCHANGED <<result, phase>>
      BY <2>1, <3>1 DEF Closes
    <3> QED
      BY <3>2
  <2>3. CASE Head(toPage[w]).id \notin DOMAIN pageWaits[w]
    BY <1>5, <2>3 DEF PageGetsReply
  <2> QED
    BY <2>2, <2>3
<1>6. ASSUME NEW w \in Workers, GoExits(w) PROVE Goal
  <2>1. GoesOn(w)
    BY <1>6 DEF GoExits, GoesOn
  <2> QED
    BY <2>1
<1>7. ASSUME NEW a \in Apps, GoStarts(a) \/ CleanUp(a) \/ RemoveContainer(a) PROVE Goal
  <2>1. a \in Workers /\ GoesOn(a)
    BY <1>7 DEF GoStarts, CleanUp, RemoveContainer, Terminated, GoesOn
  <2> QED
    BY <2>1
<1>8. ASSUME NEW w \in Workers,
             PageServes(w) \/ PageForwardsToApp(w) \/ PageForwardsToNode(w) \/ PageRefuses(w)
             \/ WorkerServes(w) \/ WorkerPassesToGo(w) \/ GoHandles(w) \/ PullAnswered
             \/ UNCHANGED vars
      PROVE  Goal
  BY <1>8 DEF PageServes, PageForwardsToApp, PageForwardsToNode, PageRefuses, WorkerServes,
             WorkerPassesToGo, GoHandles, GoServes, GoAnswers, PullAnswered, vars
<1> HIDE DEF Goal
<1>9. Goal
  BY <1>1, <1>2, <1>3, <1>4, <1>5, <1>6, <1>7, <1>8 DEF Next, Receives
<1> QED
  BY <1>9 DEF Goal

(* A program that has stopped does not run again, and one that has served   *)
(* is not loaded again.                                                     *)
LEMMA PhasesGoOn ==
    ASSUME IInv, Begun, [Next]_vars, NEW w \in Workers
    PROVE  /\ phase'[w] \in Phases
           /\ phase[w] \in {"exited", "gone"} => phase'[w] \in {"exited", "gone"}
           /\ phase[w] \in {"serving", "exited", "gone"} => phase'[w] \in {"serving", "exited", "gone"}
           /\ phase[w] \in {"loading", "gone"} =>
                 phase'[w] \in {"loading", "gone"} \/ \E c \in Calls : Closes(c) /\ c = Boot[w]
           /\ phase' \in [Workers -> Phases]
<1> USE BootFacts DEF Begun, Phases
<1>1. CASE \E c \in Calls : Closes(c)
  <2> PICK c \in Calls : Closes(c)
    BY <1>1
  <2>1. CASE phase' = phase
    BY <2>1
  <2>2. CASE /\ phase[From[c]] # "gone"
              /\ \E a \in Apps : c = Boot[a] /\ phase' = [phase EXCEPT ![From[c]] = "bound"]
    <3>1. PICK a \in Apps : c = Boot[a] /\ phase' = [phase EXCEPT ![From[c]] = "bound"]
      BY <2>2
    <3>2. From[c] = a /\ result[c] = "open"
      BY <3>1 DEF Closes
    <3>3. phase[a] = "loading" /\ a \in Workers /\ phase \in [Workers -> Phases]
      BY <2>2, <3>1, <3>2
    <3>4. \A v \in Workers : phase'[v] = IF v = a THEN "bound" ELSE phase[v]
      BY <3>1, <3>2, <3>3
    <3>5. phase' \in [Workers -> Phases]
      BY <3>1, <3>2, <3>3
    <3> QED
      BY <3>1, <3>3, <3>4, <3>5
  <2> QED
    BY <2>1, <2>2 DEF Closes, PhaseAfter
<1>2. CASE \E v \in Workers : GoesOn(v)
  BY <1>2 DEF GoesOn, Running
<1>3. CASE phase' = phase
  BY <1>3
<1> QED
  BY <1>1, <1>2, <1>3, Progress DEF Opens

(* A call that has been made has been made. *)
LEMMA ResultsGoOn ==
    ASSUME IInv, [Next]_vars, NEW c \in Calls
    PROVE  /\ result'[c] \in {"idle", "open"} => result'[c] = result[c] \/ Opens(c)
           /\ result[c] # "idle" => result'[c] # "idle"
           /\ result'[c] = Refused => result[c] = Refused \/ Closes(c)
           /\ result'[c] # "idle" => result[c] # "idle" \/ Opens(c)
           /\ Closes(c) => result'[c] \notin {"idle", "open"}
<1> USE Constants
<1>1. \A d \in Calls : \A v : result' = Answered(d, v) =>
          result'[c] = IF c = d THEN v ELSE result[c]
  BY DEF Answered, IInv, Tables
<1>2. ASSUME NEW d \in Calls, Opens(d) PROVE result'[c] = IF c = d THEN "open" ELSE result[c]
  BY <1>1, <1>2 DEF Opens
<1>3. ASSUME NEW d \in Calls, Closes(d)
      PROVE  IF c = d THEN result'[c] \in Calls \cup {Refused} ELSE result'[c] = result[c]
  BY <1>1, <1>3 DEF Closes
<1>4. \/ \E d \in Calls : Opens(d) \/ Closes(d)
      \/ result' = result
  BY Progress DEF GoesOn
<1>5. \A d \in Calls : (Opens(d) => result[d] = "idle") /\ (Closes(d) => result[d] = "open")
  BY DEF Opens, Closes
<1>6. CASE \E d \in Calls : Opens(d)
  <2> PICK d \in Calls : Opens(d)
    BY <1>6
  <2> QED
    BY <1>2, <1>3, <1>5
<1>7. CASE \E d \in Calls : Closes(d)
  <2> PICK d \in Calls : Closes(d)
    BY <1>7
  <2> QED
    BY <1>2, <1>3, <1>5
<1>8. CASE result' = result
  BY <1>3, <1>8
<1> QED
  BY <1>4, <1>6, <1>7, <1>8

(* Only RemoveContainer takes an app off the list of the page. *)
LEMMA ListedStays ==
    ASSUME [Next]_vars
    PROVE  listed' = listed \/ \E a \in Apps : RemoveContainer(a)
<1>1. ASSUME NEW w \in Workers, Receives(w) PROVE listed' = listed
  <2>1. CASE PageServes(w) \/ PageForwardsToApp(w) \/ PageForwardsToNode(w)
    BY <2>1 DEF PageServes, PageForwardsToApp, PageForwardsToNode
  <2>2. CASE PageRefuses(w) \/ PageGetsReply(w)
    BY <2>2 DEF PageRefuses, PageGetsReply
  <2>3. CASE WorkerServes(w) \/ WorkerPassesToGo(w) \/ WorkerGetsReply(w)
    BY <2>3 DEF WorkerServes, WorkerPassesToGo, WorkerGetsReply
  <2> QED
    BY <1>1, <2>1, <2>2, <2>3 DEF Receives
<1>2. ASSUME NEW w \in Workers, GoHandles(w) PROVE listed' = listed
  BY <1>2 DEF GoHandles, GoServes, GoAnswers
<1>3. ASSUME NEW w \in Workers, GoExits(w) PROVE listed' = listed
  BY <1>3 DEF GoExits
<1>4. ASSUME NEW c \in Calls, NEW w, GoCall(w, c) \/ PageCall(c) \/ WorkerCall(w, c)
      PROVE  listed' = listed
  BY <1>4 DEF GoCall, PageCall, WorkerCall
<1>5. ASSUME NEW a \in Apps, GoStarts(a) \/ CleanUp(a) PROVE listed' = listed
  BY <1>5 DEF GoStarts, CleanUp
<1>6. PullAnswered => listed' = listed
  BY DEF PullAnswered
<1>7. UNCHANGED vars => listed' = listed
  BY DEF vars
<1>8. QED BY <1>1, <1>2, <1>3, <1>4, <1>5, <1>6, <1>7 DEF Next

LEMMA BegunStep ==
    ASSUME IInv, Begun, [Next]_vars
    PROVE  Begun'
<1> USE BootFacts, Constants
<1>1. phase' \in [Workers -> Phases] /\ phase'[Node] \in {"serving", "exited"}
  <2>1. phase' \in [Workers -> Phases] /\ phase'[Node] \in {"serving", "exited", "gone"}
    BY PhasesGoOn DEF Begun
  <2>2. ASSUME NEW v \in Workers, GoesOn(v) PROVE phase'[Node] # "gone"
    BY <2>2 DEF GoesOn, Begun, Phases
  <2>3. ASSUME NEW c \in Calls, Opens(c) \/ Closes(c) PROVE phase'[Node] # "gone"
    BY <2>3 DEF Opens, Closes, PhaseAfter, Begun, Phases
  <2> QED
    BY <2>1, <2>2, <2>3, Progress DEF Begun
<1>2. ASSUME NEW a \in Apps, a \notin listed' PROVE phase'[a] = "gone"
  <2>1. CASE a \in listed
    <3>1. \E b \in Apps : RemoveContainer(b)
      BY <1>2, <2>1, ListedStays
    <3> QED
      BY <1>2, <2>1, <3>1 DEF RemoveContainer, Terminated, Begun
  <2>2. CASE a \notin listed
    <3>1. phase[a] = "gone"
      BY <2>2 DEF Begun
    <3>2. ASSUME NEW v \in Workers, GoesOn(v) PROVE phase'[a] = "gone"
      BY <3>1, <3>2 DEF GoesOn, Begun, Running
    <3>3. ASSUME NEW c \in Calls, Opens(c) \/ Closes(c) PROVE phase'[a] = "gone"
      BY <3>1, <3>3 DEF Opens, Closes, PhaseAfter, Begun
    <3> QED
      BY <3>1, <3>2, <3>3, Progress
  <2> QED
    BY <2>1, <2>2
<1>3. ASSUME NEW a \in Apps, result'[Boot[a]] \in {"idle", "open"}
      PROVE  phase'[a] \in {"loading", "gone"}
  <2>1. result[Boot[a]] \in {"idle", "open"}
    BY <1>3, ResultsGoOn DEF Opens
  <2>2. ~ Closes(Boot[a])
    BY <1>3, ResultsGoOn
  <2>3. phase[a] \in {"loading", "gone"}
    BY <2>1 DEF Begun
  <2> QED
    BY <2>2, <2>3, PhasesGoOn
<1>4. ASSUME NEW c \in Calls, NEW a \in Apps,
             From[c] = a, c \notin {Boot[a], Closing[a]}, result'[c] # "idle"
      PROVE  phase'[a] \in {"serving", "exited", "gone"}
  <2>1. phase[a] \in {"serving", "exited", "gone"}
    <3>1. CASE Opens(c)
      BY <1>4, <3>1 DEF Opens, Running
    <3>2. CASE result[c] # "idle"
      BY <1>4, <3>2 DEF Begun
    <3> QED
      BY <1>4, <3>1, <3>2, ResultsGoOn
  <2> QED
    BY <2>1, PhasesGoOn
<1>5. ASSUME NEW c \in Calls, From[c] \notin Apps, result'[c] # "idle", NEW d \in After[c]
      PROVE  result'[d] # "idle"
  <2>1. d \in Calls
    OBVIOUS
  <2>2. result[d] # "idle"
    <3>1. CASE Opens(c)
      <4>1. result[d] = d \/ served[d] > 0
        BY <1>5, <3>1 DEF Opens, Ready
      <4> QED
        BY <2>1, <4>1 DEF IInv, Tables
    <3>2. CASE result[c] # "idle"
      BY <1>5, <3>2 DEF Begun
    <3> QED
      BY <1>5, <3>1, <3>2, ResultsGoOn
  <2> QED
    BY <2>1, <2>2, ResultsGoOn
<1> QED
  BY <1>1, <1>2, <1>3, <1>4, <1>5 DEF Begun

LEMMA OverStays ==
    ASSUME IInv, Begun, [Next]_vars, NEW c \in Calls, Over(c)
    PROVE  Over(c)'
<1>1. To[c] \in Workers \cup {Page}
  BY BootFacts
<1> QED
  BY <1>1, PhasesGoOn DEF Over, Stopped

-----------------------------------------------------------------------------
(* What leads from a message to its call *)

SameEntries(old, new) == \A i \in DOMAIN old : i \in DOMAIN new => new[i] = old[i]

LEMMA EntriesStay ==
    ASSUME NEW old, NEW i
    PROVE  /\ SameEntries(old, old) /\ SameEntries(old, Without(old, i))
           /\ \A entry : i \notin DOMAIN old => SameEntries(old, Put(old, i, entry))
BY DEF SameEntries, Put, Without

LEMMA EntriesStayAt ==
    ASSUME NEW tables, NEW v \in DOMAIN tables, NEW new, SameEntries(tables[v], new),
           NEW w \in DOMAIN tables
    PROVE  SameEntries(tables[w], [tables EXCEPT ![v] = new][w])
BY DEF SameEntries

(* An entry that stays in its table is the same. *)
LEMMA TablesGoOn ==
    ASSUME IInv, [Next]_vars, NEW w \in Workers
    PROVE  /\ SameEntries(waits[w], waits'[w]) /\ SameEntries(cbMap[w], cbMap'[w])
           /\ SameEntries(pageWaits[w], pageWaits'[w])
<1> DEFINE Goal == /\ SameEntries(waits[w], waits'[w]) /\ SameEntries(cbMap[w], cbMap'[w])
                   /\ SameEntries(pageWaits[w], pageWaits'[w])
<1> USE Constants, EntriesStay, EntriesStayAt DEF IInv, Tables
<1>1. ASSUME NEW v \in Workers, NEW c \in Calls, GoCall(v, c) PROVE Goal
  <2>1. FreshId(DOMAIN cbMap[v]) \notin DOMAIN cbMap[v] /\ FreshId(DOMAIN waits[v]) \notin DOMAIN waits[v]
    BY FreshIsFree
  <2> QED
    BY <1>1, <2>1 DEF GoCall
<1>2. ASSUME NEW a \in Apps, NEW c \in Calls, WorkerCall(a, c) PROVE Goal
  <2>1. FreshId(DOMAIN waits[a]) \notin DOMAIN waits[a]
    BY FreshIsFree
  <2> QED
    BY <1>2, <2>1 DEF WorkerCall
<1>3. ASSUME NEW v \in Workers, NEW i, NEW entry, i \notin DOMAIN pageWaits[v],
             pageWaits' = [pageWaits EXCEPT ![v] = Put(@, i, entry)], UNCHANGED <<waits, cbMap>>
      PROVE  Goal
  BY <1>3
<1>4. ASSUME NEW v \in Workers, FreshId(DOMAIN pageWaits[v]) \in DOMAIN pageWaits[v] PROVE FALSE
  BY <1>4, FreshIsFree
<1>5. ASSUME NEW c \in Calls, PageCall(c) PROVE Goal
  <2>1. To[c] \in Workers
    BY <1>5 DEF PageCall
  <2> QED
    BY <1>3, <1>4, <1>5, <2>1 DEF PageCall
<1>6. ASSUME NEW v \in Workers, PageForwardsToApp(v), pageWaits' # pageWaits PROVE Goal
  <2>1. To[Head(toPage[v]).call] \in Workers
    BY <1>6 DEF PageForwardsToApp
  <2> QED
    BY <1>3, <1>4, <1>6, <2>1 DEF PageForwardsToApp, Forwards
<1>7. ASSUME NEW v \in Workers, PageForwardsToNode(v) PROVE Goal
  BY <1>3, <1>4, <1>7 DEF PageForwardsToNode, Forwards
<1>8. ASSUME NEW v \in Workers, PageGetsReply(v) PROVE Goal
  <2>1. ASSUME NEW i, pageWaits' = pageWaits \/ pageWaits' = [pageWaits EXCEPT ![v] = Without(@, i)]
        PROVE  SameEntries(pageWaits[w], pageWaits'[w])
    BY <2>1
  <2>2. /\ \E i : pageWaits' = pageWaits \/ pageWaits' = [pageWaits EXCEPT ![v] = Without(@, i)]
        /\ UNCHANGED <<waits, cbMap>>
    BY <1>8 DEF PageGetsReply
  <2> QED
    BY <2>1, <2>2
<1>9. ASSUME NEW v \in Workers, WorkerGetsReply(v) PROVE Goal
  <2>1. ASSUME NEW i, waits' = waits \/ waits' = [waits EXCEPT ![v] = Without(@, i)]
        PROVE  SameEntries(waits[w], waits'[w])
    BY <2>1
  <2>2. ASSUME NEW i, cbMap' = cbMap \/ cbMap' = [cbMap EXCEPT ![v] = Without(@, i)]
        PROVE  SameEntries(cbMap[w], cbMap'[w])
    BY <2>2
  <2>3. /\ \E i : waits' = waits \/ waits' = [waits EXCEPT ![v] = Without(@, i)]
        /\ \E i : cbMap' = cbMap \/ cbMap' = [cbMap EXCEPT ![v] = Without(@, i)]
        /\ pageWaits' = pageWaits
    BY <1>9 DEF WorkerGetsReply
  <2> QED
    BY <2>1, <2>2, <2>3
<1>10. ASSUME UNCHANGED <<waits, cbMap, pageWaits>> PROVE Goal
  BY <1>10
<1> HIDE DEF Goal
<1>11. Goal
  <2>1. ASSUME NEW v \in Workers, Receives(v) PROVE Goal
    BY <2>1, <1>6, <1>7, <1>8, <1>9, <1>10
       DEF Receives, PageServes, PageForwardsToApp, PageRefuses, WorkerServes, WorkerPassesToGo
  <2>2. ASSUME NEW v \in Workers, GoHandles(v) \/ GoExits(v) PROVE Goal
    BY <2>2, <1>10 DEF GoHandles, GoServes, GoAnswers, GoExits
  <2>3. ASSUME NEW a \in Apps, GoStarts(a) \/ CleanUp(a) \/ RemoveContainer(a) PROVE Goal
    BY <2>3, <1>10 DEF GoStarts, CleanUp, RemoveContainer, Terminated
  <2>4. ASSUME PullAnswered \/ UNCHANGED vars PROVE Goal
    BY <2>4, <1>10 DEF PullAnswered, vars
  <2> QED
    BY <1>1, <1>2, <1>5, <2>1, <2>2, <2>3, <2>4 DEF Next
<1> QED
  BY <1>11 DEF Goal

LEMMA CallsGoOn ==
    ASSUME IInv, IInv', [Next]_vars, NEW w \in Workers
    PROVE  /\ \A i \in DOMAIN waits[w] : i \in DOMAIN waits'[w] => CallOf(w, i)' = CallOf(w, i)
           /\ \A i \in DOMAIN pageWaits[w] : i \in DOMAIN pageWaits'[w] =>
                 PageCallOf(w, i)' = PageCallOf(w, i)
<1>1. ASSUME NEW v \in Workers, NEW i \in DOMAIN waits[v], i \in DOMAIN waits'[v]
      PROVE  CallOf(v, i)' = CallOf(v, i)
  <2>1. waits'[v][i] = waits[v][i]
    BY <1>1, TablesGoOn DEF SameEntries
  <2>2. CASE waits[v][i].own
    BY <2>1, <2>2 DEF CallOf
  <2>3. CASE ~ waits[v][i].own
    <3>1. waits[v][i].id \in DOMAIN cbMap[v] /\ waits[v][i].id \in DOMAIN cbMap'[v]
      BY <1>1, <2>1, <2>3 DEF IInv, Waitings, GoCalls, GoIds, OwnIds
    <3> QED
      BY <2>1, <2>3, <3>1, TablesGoOn DEF SameEntries, CallOf
  <2> QED
    BY <2>2, <2>3
<1>2. ASSUME NEW i \in DOMAIN pageWaits[w], i \in DOMAIN pageWaits'[w]
      PROVE  PageCallOf(w, i)' = PageCallOf(w, i)
  <2>1. pageWaits'[w][i] = pageWaits[w][i]
    BY <1>2, TablesGoOn DEF SameEntries
  <2>2. CASE pageWaits[w][i].own
    BY <2>1, <2>2 DEF PageCallOf
  <2>3. CASE ~ pageWaits[w][i].own
    <3> PICK v, j : v = pageWaits[w][i].link /\ j = pageWaits[w][i].id
      OBVIOUS
    <3>1. v \in Workers /\ j \in DOMAIN waits[v]
      BY <2>3 DEF IInv, Waitings, Forwardings, ForwardIds, OwnPageIds
    <3>2. j \in DOMAIN waits'[v]
      BY <1>2, <2>1, <2>3 DEF IInv, Waitings, Forwardings, ForwardIds, OwnPageIds
    <3>3. CallOf(v, j)' = CallOf(v, j)
      BY <1>1, <3>1, <3>2
    <3> QED
      BY <2>1, <2>3, <3>3 DEF PageCallOf
  <2> QED
    BY <2>2, <2>3
<1> QED
  BY <1>1, <1>2

-----------------------------------------------------------------------------
(* What is new on its way *)

LEMMA AppendAdds ==
    ASSUME NEW q, IsQueue(q), NEW m
    PROVE  Msgs(Append(q, m)) \subseteq Msgs(q) \cup {m}
<1> DEFINE S == Msgs(q) \cup {m}
<1>1. q \in Seq(S)
  BY DEF IsQueue
<1>2. /\ DOMAIN q = 1 .. Len(q) /\ Len(q) \in Nat
      /\ DOMAIN Append(q, m) = 1 .. Len(q) + 1
      /\ \A i \in 1 .. Len(q) : Append(q, m)[i] = q[i]
      /\ Append(q, m)[Len(q) + 1] = m
  BY <1>1
<1> QED
  BY <1>2 DEF Msgs

(* A message to w is all that the page, or a worker, may get. *)
UpOnly(w, m) == \A v \in Workers : \A n \in Up(v)' : n \in Up(v) \/ (v = w /\ n = m)
DownOnly(w, m) == \A v \in Workers : \A n \in Down(v)' : n \in Down(v) \/ (v = w /\ n = m)

NoneUp == \A v \in Workers : Up(v)' \subseteq Up(v)
NoneDown == \A v \in Workers : Down(v)' \subseteq Down(v)

LEMMA OnTheWay ==
    ASSUME IInv, NEW w \in Workers, NEW m
    PROVE  /\ toPage' = SentToPage(w, m) => UpOnly(w, m)
           /\ toWorker' = Posted(w, m) => DownOnly(w, m)
           /\ toPage' = toPage \/ Received(w) => NoneUp
           /\ toWorker' = toWorker \/ Taken(w) => NoneDown
<1>1. ASSUME toPage' = SentToPage(w, m) PROVE UpOnly(w, m)
  BY <1>1, AppendAdds DEF UpOnly, Up, SentToPage, IInv, UpQueues
<1>2. ASSUME toWorker' = Posted(w, m) PROVE DownOnly(w, m)
  BY <1>2, AppendAdds DEF DownOnly, Down, Posted, IInv, DownQueues
<1>3. toPage' = toPage \/ Received(w) => NoneUp
  BY TakesUp DEF NoneUp, Up, IInv
<1>4. toWorker' = toWorker \/ Taken(w) => NoneDown
  BY TakesDown DEF NoneDown, Down, IInv
<1> QED
  BY <1>1, <1>2, <1>3, <1>4

LEMMA RoutedBy ==
    ASSUME IInv, IInv', Begun, Routed, [Next]_vars,
           \A w \in Workers : \A m \in Up(w)' : m \in Up(w) \/ UpFine(w, m)',
           \A w \in Workers : \A m \in Down(w)' : m \in Down(w) \/ DownFine(w, m)',
           \A w \in Workers : \A h \in handling'[w] : h \in handling[w] \/ HandlerFine(w, h),
           \A c \in Calls : result'[c] = Refused => result[c] = Refused \/ Over(c)
    PROVE  Routed'
<1>1. ASSUME NEW w \in Workers, NEW m \in Up(w)', m \in Up(w) PROVE UpFine(w, m)'
  <2>1. UpFine(w, m)
    BY <1>1 DEF Routed
  <2>2. ASSUME IsReply(m), m.answer = Refused PROVE Over(PageCallOf(w, m.id))'
    <3>1. m.id \in DOMAIN pageWaits[w] /\ m.id \in DOMAIN pageWaits'[w]
      <4>1. Lower(w, m.id) /\ Lower(w, m.id)'
        BY <1>1, <2>2 DEF IInv, Tokens, IsReply, IsCall
      <4> QED
        BY <1>1, <2>2, <4>1 DEF Lower
    <3>2. PICK c \in Calls : c = PageCallOf(w, m.id)
      BY <3>1, PageCallOfFacts DEF IInv
    <3>3. Over(c)' /\ PageCallOf(w, m.id)' = c
      BY <2>1, <2>2, <3>1, <3>2, OverStays, CallsGoOn DEF UpFine
    <3> QED
      BY <3>3 DEF Over
  <2> QED
    BY <2>1, <2>2 DEF UpFine
<1>2. ASSUME NEW w \in Workers, NEW m \in Down(w)', m \in Down(w) PROVE DownFine(w, m)'
  <2>1. DownFine(w, m)
    BY <1>2 DEF Routed
  <2>2. ASSUME IsReply(m), m.answer = Refused PROVE Over(CallOf(w, m.id))'
    <3>1. m.id \in DOMAIN waits[w] /\ m.id \in DOMAIN waits'[w]
      <4>1. Upper(w, m.id) /\ Upper(w, m.id)'
        BY <1>2, <2>2 DEF IInv, Tokens, IsReply, IsCall
      <4> QED
        BY <1>2, <2>2, <4>1 DEF Upper
    <3>2. PICK c \in Calls : c = CallOf(w, m.id)
      BY <3>1, CallOfFacts DEF IInv
    <3>3. Over(c)' /\ CallOf(w, m.id)' = c
      BY <2>1, <2>2, <3>1, <3>2, OverStays, CallsGoOn DEF DownFine
    <3> QED
      BY <3>3 DEF Over
  <2> QED
    BY <2>1, <2>2 DEF DownFine
<1>3. ASSUME NEW c \in Calls, result'[c] = Refused PROVE Over(c)'
  BY <1>3, OverStays DEF Routed
<1> QED
  BY <1>1, <1>2, <1>3 DEF Routed, HandlerFine

-----------------------------------------------------------------------------
(* Where paths lead *)

LEMMA FirstPart ==
    ASSUME NEW leaf, NEW prefix, Len(prefix) \in Nat \ {0}, StartsWith(leaf, prefix)
    PROVE  leaf[1] = prefix[1]
<1> DEFINE n == Len(prefix)
           S == {leaf[i] : i \in 1 .. n}
<1>1. 1 \in Int /\ n \in Int /\ 1 \in 1 .. n - 1 + 1 /\ \A i \in 1 .. n : leaf[i] \in S
  OBVIOUS
<1> HIDE DEF S
<1>2. SubSeq(leaf, 1, n)[1] = leaf[1 + 1 - 1]
  BY <1>1, SubSeqProperties
<1> QED
  BY <1>2 DEF StartsWith

LEMMA Heads ==
    ASSUME NEW leaf
    PROVE  /\ StartsWith(leaf, <<"application">>) =>
                 leaf \notin PageFuncs(Node) /\ leaf # <<"container", "term">>
           /\ StartsWith(leaf, <<"node", "api">>) =>
                 leaf \notin WorkerFuncs(Node) /\ \A a \in Apps : leaf \notin PageFuncs(a)
<1>1. ASSUME NEW x, NEW y, NEW z, x # "application"
      PROVE  /\ ~ StartsWith(<<x, y>>, <<"application">>)
             /\ ~ StartsWith(<<x, y, z>>, <<"application">>)
  <2>1. Len(<<"application">>) \in Nat \ {0}
    OBVIOUS
  <2>2. <<x, y>>[1] = x /\ <<x, y, z>>[1] = x /\ <<"application">>[1] = "application"
    OBVIOUS
  <2> QED
    BY <1>1, <2>1, <2>2, FirstPart
<1>2. ASSUME NEW x, NEW y, NEW z, x # "node"
      PROVE  /\ ~ StartsWith(<<x, y>>, <<"node", "api">>)
             /\ ~ StartsWith(<<x, y, z>>, <<"node", "api">>)
  <2>1. Len(<<"node", "api">>) \in Nat \ {0}
    OBVIOUS
  <2>2. <<x, y>>[1] = x /\ <<x, y, z>>[1] = x /\ <<"node", "api">>[1] = "node"
    OBVIOUS
  <2> QED
    BY <1>2, <2>1, <2>2, FirstPart
<1>3. ~ StartsWith(<<"run">>, <<"node", "api">>)
  <2>1. Len(<<"run">>) = 1 /\ Len(<<"node", "api">>) = 2
    OBVIOUS
  <2> QED
    BY <2>1 DEF StartsWith
<1>4. leaf \in PageFuncs(Node) =>
          \E x, y, z : x # "application" /\ (leaf = <<x, y>> \/ leaf = <<x, y, z>>)
  <2>2. ASSUME leaf \in PageFuncs(Node)
        PROVE  \E x \in {"cri", "frontend"} : \E y, z : leaf = <<x, y>> \/ leaf = <<x, y, z>>
    BY <2>2 DEF PageFuncs
  <2> QED
    BY <2>2
<1>5. ASSUME NEW a \in Apps, leaf \in PageFuncs(a)
      PROVE  leaf \in {<<"cri", "container", "ready">>, <<"cri", "container", "finished">>}
  BY <1>5, CrosslinkAssumption DEF PageFuncs, CrosslinkAssumption
<1>6. /\ ~ StartsWith(<<"cri", "container", "ready">>, <<"node", "api">>)
      /\ ~ StartsWith(<<"cri", "container", "finished">>, <<"node", "api">>)
      /\ ~ StartsWith(<<"container", "term">>, <<"application">>)
  BY <1>1, <1>2
<1>7. StartsWith(leaf, <<"application">>) => leaf \notin PageFuncs(Node) /\ leaf # <<"container", "term">>
  BY <1>1, <1>4, <1>6
<1>8. StartsWith(leaf, <<"node", "api">>) => leaf \notin WorkerFuncs(Node)
  <2>1. leaf \in WorkerFuncs(Node) => leaf = <<"run">> \/ \E y : leaf = <<"webrtc", y>>
    BY DEF WorkerFuncs
  <2> QED
    BY <1>2, <1>3, <2>1
<1>9. ASSUME StartsWith(leaf, <<"node", "api">>), NEW a \in Apps PROVE leaf \notin PageFuncs(a)
  BY <1>5, <1>6, <1>9
<1> QED
  BY <1>7, <1>8, <1>9

(* A call of a worker that can reach its program is passed on to it. *)
LEMMA Routes ==
    ASSUME NEW c \in Calls, NEW w \in Workers, From[c] = w, Reachable(c)
    PROVE  /\ To[c] = Page => Path[c] \in PageFuncs(w)
           /\ To[c] \in Workers => ToApplication(w, Path[c]) \/ ToNode(w, Path[c])
           /\ ToApplication(w, Path[c]) => To[c] \in Apps /\ Path[c] \in GoFuncs(To[c])
           /\ ToNode(w, Path[c]) => To[c] = Node /\ Path[c] \in GoFuncs(Node)
<1> USE BootFacts, Constants
<1>1. To[c] \in Apps \cup {Node, Page} /\ Node \notin Apps /\ Page # Node
  BY CrosslinkAssumption DEF CrosslinkAssumption, Workers
<1>2. To[c] = Page => Path[c] \in PageFuncs(w)
  BY DEF Reachable, Registered
<1>3. To[c] \in Apps => ToApplication(w, Path[c])
  BY DEF Reachable
<1>4. To[c] = Node => ToNode(w, Path[c])
  BY DEF Reachable
<1>5. ASSUME ToApplication(w, Path[c]) PROVE To[c] \in Apps /\ Path[c] \in GoFuncs(To[c])
  <2>1. w = Node /\ Path[c] \notin PageFuncs(w) /\ Path[c] # <<"container", "term">>
    BY <1>5, Heads DEF ToApplication
  <2>2. To[c] \in Apps
    BY <1>1, <1>2, <1>4, <2>1 DEF ToNode
  <2> QED
    BY <1>1, <2>1, <2>2 DEF Reachable, Registered, WorkerFuncs
<1>6. ASSUME ToNode(w, Path[c]) PROVE To[c] = Node /\ Path[c] \in GoFuncs(Node)
  <2>1. w \in Apps /\ Path[c] \notin PageFuncs(w) /\ Path[c] \notin WorkerFuncs(Node)
    BY <1>6, Heads DEF ToNode
  <2>2. To[c] = Node
    BY <1>1, <1>2, <1>3, <2>1 DEF ToApplication
  <2> QED
    BY <1>1, <2>1, <2>2 DEF Reachable, Registered, WorkerFuncs
<1> QED
  BY <1>1, <1>2, <1>3, <1>4, <1>5, <1>6 DEF Workers

(* What an app's worker answers itself is not its program's. *)
LEMMA WorkerOnly == \A a \in Apps : GoFuncs(a) \cap WorkerFuncs(a) = {}
<1>1. ASSUME NEW n PROVE Append(<<"application", "api", "core">>, n) # <<"container", "term">>
  <2>1. Len(Append(<<"application", "api", "core">>, n)) = 4 /\ Len(<<"container", "term">>) = 2
    OBVIOUS
  <2> QED
    BY <2>1
<1> QED
  BY <1>1, CrosslinkAssumption DEF GoFuncs, WorkerFuncs, AppFuncs, Under, CrosslinkAssumption

-----------------------------------------------------------------------------
(* Each step *)

(* A call in a queue is the one its waiting is for. *)
LEMMA CallsKnown ==
    ASSUME IInv, NEW w \in Workers
    PROVE  /\ \A m \in Up(w) : IsCall(m) =>
                 /\ m.id \in DOMAIN waits[w] /\ m.call = CallOf(w, m.id)
                 /\ m.call \in Calls /\ From[m.call] = w
           /\ \A m \in Down(w) : IsCall(m) =>
                 /\ m.id \in DOMAIN pageWaits[w] /\ m.call = PageCallOf(w, m.id)
                 /\ m.call \in Calls /\ result[m.call] = "open"
<1>1. ASSUME NEW m \in Up(w), IsCall(m) PROVE Upper(w, m.id)
  BY <1>1 DEF IInv, Tokens
<1>2. ASSUME NEW m \in Down(w), IsCall(m) PROVE Lower(w, m.id)
  BY <1>2 DEF IInv, Tokens
<1> QED
  BY <1>1, <1>2, CallOfFacts, PageCallOfFacts DEF IInv, Upper, Lower

LEMMA NewMessages ==
    ASSUME NEW c, NEW id, NEW leaf, NEW answer
    PROVE  /\ IsCall(CallMessage(c, id, leaf)) /\ ~ IsReply(CallMessage(c, id, leaf))
           /\ CallMessage(c, id, leaf).call = c /\ CallMessage(c, id, leaf).leaf = leaf
           /\ IsReply(Reply(id, answer)) /\ ~ IsCall(Reply(id, answer))
           /\ Reply(id, answer).id = id /\ Reply(id, answer).answer = answer
BY DEF CallMessage, Reply, IsCall, IsReply

LEMMA SameTargets ==
    ASSUME UNCHANGED <<waits, cbMap, phase>>, NEW w, NEW m
    PROVE  /\ DownFine(w, m)' <=> DownFine(w, m)
           /\ pageWaits' = pageWaits => (UpFine(w, m)' <=> UpFine(w, m))
BY DEF DownFine, UpFine, CallOf, PageCallOf, Over, Stopped

LEMMA NewUp ==
    ASSUME IInv, UNCHANGED <<waits, cbMap, pageWaits, phase>>, NEW w \in Workers, NEW m,
           toPage' = SentToPage(w, m), UpFine(w, m)
    PROVE  \A v \in Workers : \A n \in Up(v)' : n \in Up(v) \/ UpFine(v, n)'
<1>1. UpOnly(w, m)
  BY OnTheWay
<1>2. UpFine(w, m)'
  BY SameTargets
<1> QED
  BY <1>1, <1>2 DEF UpOnly

LEMMA RoutedCalls ==
    ASSUME IInv, IInv', Begun, Routed, [Next]_vars, NEW c \in Calls,
           (\E w \in Workers : GoCall(w, c) \/ WorkerCall(w, c)) \/ PageCall(c)
    PROVE  Routed'
<1> USE Constants, NewMessages
<1>1. ASSUME NEW w \in Workers, GoCall(w, c) \/ WorkerCall(w, c) PROVE Routed'
  <2>1. PICK id : toPage' = SentToPage(w, CallMessage(c, id, Path[c]))
    BY <1>1 DEF GoCall, WorkerCall
  <2>2. UNCHANGED <<toWorker, handling>> /\ result' = Answered(c, "open")
    BY <1>1 DEF GoCall, WorkerCall
  <2>3. UpOnly(w, CallMessage(c, id, Path[c])) /\ NoneDown
    BY <2>1, <2>2, OnTheWay
  <2>4. UpFine(w, CallMessage(c, id, Path[c]))'
    BY DEF UpFine
  <2>5. \A d \in Calls : result'[d] = Refused => result[d] = Refused
    BY <2>2 DEF Answered, IInv, Tables
  <2> QED
    BY <2>2, <2>3, <2>4, <2>5, RoutedBy DEF UpOnly, NoneDown
<1>2. ASSUME PageCall(c) PROVE Routed'
  <2> DEFINE w == To[c]
  <2>1. w \in Workers /\ From[c] = Page
    BY <1>2 DEF PageCall
  <2>2. PICK id : toWorker' = Posted(w, CallMessage(c, id, Path[c]))
    BY <1>2 DEF PageCall
  <2>3. UNCHANGED <<toPage, handling>> /\ result' = Answered(c, "open")
    BY <1>2 DEF PageCall
  <2>4. DownOnly(w, CallMessage(c, id, Path[c])) /\ NoneUp
    BY <2>1, <2>2, <2>3, OnTheWay
  <2>5. Reachable(c) => Path[c] \in GoFuncs(w) \cup WorkerFuncs(w)
    BY <2>1 DEF Reachable, Registered
  <2>6. DownFine(w, CallMessage(c, id, Path[c]))'
    BY <2>5 DEF DownFine
  <2>7. \A d \in Calls : result'[d] = Refused => result[d] = Refused
    BY <2>3 DEF Answered, IInv, Tables
  <2> QED
    BY <2>3, <2>4, <2>6, <2>7, RoutedBy DEF DownOnly, NoneUp
<1> QED
  BY <1>1, <1>2

LEMMA RoutedPage ==
    ASSUME IInv, IInv', Begun, Routed, [Next]_vars, NEW w \in Workers,
           \/ PageServes(w) \/ PageForwardsToApp(w) \/ PageForwardsToNode(w) \/ PageRefuses(w)
           \/ PageGetsReply(w)
    PROVE  Routed'
<1> DEFINE m == Head(toPage[w])
           c == m.call
<1> USE Constants, NewMessages
<1>1. m \in Up(w) /\ NoneUp /\ Received(w)
  BY TakesUp, OnTheWay DEF PageServes, PageForwardsToApp, PageForwardsToNode, PageRefuses,
     PageGetsReply, IInv
<1>2. UpFine(w, m)
  BY <1>1 DEF Routed
<1>3. /\ IsCall(m) => c \in Calls /\ From[c] = w /\ c = CallOf(w, m.id) /\ m.leaf = Path[c]
      /\ IsCall(m) <=> m.type = "call"
      /\ IsReply(m) <=> m.type = "reply"
  BY <1>1, <1>2, CallsKnown DEF UpFine, IsCall, IsReply
<1>4. UNCHANGED <<waits, cbMap, phase, handling>>
  BY DEF PageServes, PageForwardsToApp, PageForwardsToNode, PageRefuses, PageGetsReply
<1>5. ASSUME NEW v \in Workers, NEW n, toWorker' = Posted(v, n), result' = result, DownFine(v, n)
      PROVE  Routed'
  <2>1. DownFine(v, n)'
    BY <1>4, <1>5, SameTargets
  <2>2. DownOnly(v, n)
    BY <1>5, OnTheWay
  <2> QED
    BY <1>1, <1>4, <1>5, <2>1, <2>2, RoutedBy DEF DownOnly, NoneUp
<1>6. ASSUME toWorker' = toWorker,
             \A d \in Calls : result'[d] = Refused => result[d] = Refused \/ Over(d)
      PROVE  Routed'
  <2>1. NoneDown
    BY <1>6, OnTheWay
  <2> QED
    BY <1>1, <1>4, <1>6, <2>1, RoutedBy DEF NoneDown, NoneUp
<1>7. CASE PageServes(w)
  <2>1. DownFine(w, Reply(m.id, c))
    BY <1>3, <1>7 DEF PageServes, DownFine
  <2>2. result' = result /\ (toWorker' = toWorker \/ toWorker' = Posted(w, Reply(m.id, c)))
    BY <1>7 DEF PageServes
  <2> QED
    BY <1>5, <1>6, <2>1, <2>2
<1>8. CASE PageForwardsToApp(w)
  <2>1. IsCall(m) /\ ToApplication(w, Path[c]) /\ result' = result
    BY <1>3, <1>8 DEF PageForwardsToApp
  <2>2. Reachable(c) => To[c] \in Apps /\ Path[c] \in GoFuncs(To[c])
    BY <1>3, <2>1, Routes
  <2>3. ASSUME To[c] \notin listed PROVE DownFine(w, Reply(m.id, Refused))
    BY <1>3, <2>1, <2>2, <2>3 DEF DownFine, Over, Stopped, Begun
  <2>4. ASSUME NEW id, NEW leaf, To[c] \in listed PROVE DownFine(To[c], CallMessage(c, id, leaf))
    BY <2>2 DEF DownFine
  <2>5. CASE To[c] \notin listed /\ toWorker' = Posted(w, Reply(m.id, Refused))
    BY <1>5, <2>1, <2>3, <2>5
  <2>6. CASE toWorker' = toWorker
    BY <1>6, <2>1, <2>6
  <2>7. CASE To[c] \in listed /\ \E id, leaf : toWorker' = Posted(To[c], CallMessage(c, id, leaf))
    <3>1. To[c] \in Workers
      BY <2>7 DEF IInv, Tables
    <3> QED
      BY <1>5, <2>1, <2>4, <2>7, <3>1
  <2> QED
    <3>1. \/ To[c] \notin listed /\ toWorker' = Posted(w, Reply(m.id, Refused))
          \/ toWorker' = toWorker
          \/ To[c] \in listed /\ \E id, leaf : toWorker' = Posted(To[c], CallMessage(c, id, leaf))
      BY <1>8 DEF PageForwardsToApp, Forwards
    <3> QED
      BY <3>1, <2>5, <2>6, <2>7
<1>9. CASE PageForwardsToNode(w)
  <2>1. IsCall(m) /\ ToNode(w, Path[c]) /\ result' = result
    BY <1>3, <1>9 DEF PageForwardsToNode
  <2>2. Reachable(c) => To[c] = Node /\ Path[c] \in GoFuncs(Node)
    BY <1>3, <2>1, Routes
  <2>3. \A id, leaf : DownFine(Node, CallMessage(c, id, leaf))
    BY <2>2 DEF DownFine
  <2>4. \E id, leaf : toWorker' = Posted(Node, CallMessage(c, id, leaf))
    BY <1>9 DEF PageForwardsToNode, Forwards
  <2> QED
    BY <1>5, <2>1, <2>3, <2>4
<1>10. CASE PageRefuses(w)
  <2>1. /\ IsCall(m) /\ result' = result /\ toWorker' = Posted(w, Reply(m.id, Refused))
        /\ Path[c] \notin PageFuncs(w) /\ ~ ToApplication(w, Path[c]) /\ ~ ToNode(w, Path[c])
    BY <1>3, <1>10 DEF PageRefuses
  <2>2. ~ Reachable(c)
    BY <1>3, <2>1, Routes, BootFacts
  <2>3. DownFine(w, Reply(m.id, Refused))
    BY <1>3, <2>1, <2>2 DEF DownFine, Over
  <2> QED
    BY <1>5, <2>1, <2>3
<1>11. CASE PageGetsReply(w)
  <2>1. CASE m.id \notin DOMAIN pageWaits[w]
    BY <1>6, <1>11, <2>1 DEF PageGetsReply
  <2>2. CASE m.id \in DOMAIN pageWaits[w]
    <3> PICK entry : entry = pageWaits[w][m.id]
      OBVIOUS
    <3>1. IsReply(m) /\ (m.answer = Refused => Over(PageCallOf(w, m.id)))
      BY <1>2, <1>3, <1>11 DEF PageGetsReply, UpFine
    <3>2. CASE entry.own
      <4>1. toWorker' = toWorker /\ result' = Answered(entry.call, m.answer)
        BY <1>11, <2>2, <3>2 DEF PageGetsReply
      <4>2. m.answer = Refused => Over(entry.call)
        BY <3>1, <3>2 DEF PageCallOf
      <4> QED
        BY <1>6, <4>1, <4>2 DEF Answered, IInv, Tables
    <3>3. CASE ~ entry.own
      <4>1. result' = result /\ toWorker' = Posted(entry.link, Reply(entry.id, m.answer))
        BY <1>11, <2>2, <3>3 DEF PageGetsReply, PassedOn
      <4>2. entry.link \in Workers
        BY <2>2, <3>3 DEF IInv, Waitings, Forwardings, ForwardIds, OwnPageIds
      <4>3. DownFine(entry.link, Reply(entry.id, m.answer))
        BY <3>1, <3>3 DEF PageCallOf, DownFine
      <4> QED
        BY <1>5, <4>1, <4>2, <4>3
    <3> QED
      BY <3>2, <3>3
  <2> QED
    BY <2>1, <2>2
<1> QED
  BY <1>7, <1>8, <1>9, <1>10, <1>11

LEMMA RoutedWorker ==
    ASSUME IInv, IInv', Begun, Routed, [Next]_vars, NEW w \in Workers,
           WorkerServes(w) \/ WorkerPassesToGo(w) \/ WorkerGetsReply(w)
    PROVE  Routed'
<1> DEFINE m == Head(toWorker[w])
           c == m.call
<1> USE Constants, NewMessages
<1>1. m \in Down(w) /\ NoneDown /\ Taken(w)
  BY TakesDown, OnTheWay DEF WorkerServes, WorkerPassesToGo, WorkerGetsReply, IInv
<1>2. DownFine(w, m)
  BY <1>1 DEF Routed
<1>3. /\ IsCall(m) => c \in Calls /\ result[c] = "open" /\ c = PageCallOf(w, m.id)
      /\ IsCall(m) <=> m.type = "call"
      /\ IsReply(m) <=> m.type = "reply"
  BY <1>1, CallsKnown DEF IsCall, IsReply
<1>4. CASE WorkerServes(w)
  <2>1. /\ IsCall(m) /\ toPage' = SentToPage(w, Reply(m.id, c))
        /\ UNCHANGED <<waits, cbMap, pageWaits, phase, handling, result>>
    BY <1>3, <1>4 DEF WorkerServes
  <2>2. UpFine(w, Reply(m.id, c))
    BY <1>3, <2>1 DEF UpFine
  <2>3. \A v \in Workers : \A n \in Up(v)' : n \in Up(v) \/ UpFine(v, n)'
    BY <2>1, <2>2, NewUp
  <2> QED
    BY <1>1, <2>1, <2>3, RoutedBy DEF NoneDown
<1>5. CASE WorkerPassesToGo(w)
  <2>1. /\ IsCall(m) /\ m.leaf \notin WorkerFuncs(w)
        /\ UNCHANGED <<waits, cbMap, pageWaits, phase, result>>
    BY <1>3, <1>5 DEF WorkerPassesToGo
  <2>2. Reachable(c) => To[c] = w /\ Path[c] \in GoFuncs(w)
    BY <1>2, <2>1 DEF DownFine
  <2>3. CASE /\ phase[w] \in {"loading", "exited"} /\ toPage' = SentToPage(w, Reply(m.id, Refused))
             /\ handling' = handling
    <3>1. ASSUME Reachable(c), Timely(c) PROVE phase[w] # "loading"
      <4>1. CASE w = Node
        BY <4>1 DEF Begun
      <4>2. CASE w \in Apps
        <5>1. PICK d \in After[c] : From[d] = w /\ d \notin {Boot[w], Closing[w]}
          BY <2>2, <3>1, <4>2, WorkerOnly DEF Timely
        <5>2. From[c] \notin Apps
          BY <1>3, <2>1, <2>2, <3>1, <4>2, CrosslinkAssumption
             DEF Reachable, ToApplication, Workers, CrosslinkAssumption
        <5>3. d \in Calls /\ result[d] # "idle"
          BY <1>3, <2>1, <5>1, <5>2, BootFacts DEF Begun
        <5> QED
          BY <4>2, <5>1, <5>3 DEF Begun
      <4> QED
        BY <4>1, <4>2 DEF Workers
    <3>2. Over(c)
      BY <2>2, <2>3, <3>1 DEF Over, Stopped
    <3>3. UpFine(w, Reply(m.id, Refused))
      BY <1>3, <2>1, <3>2 DEF UpFine
    <3>4. \A v \in Workers : \A n \in Up(v)' : n \in Up(v) \/ UpFine(v, n)'
      BY <2>1, <2>3, <3>3, NewUp
    <3> QED
      BY <1>1, <2>1, <2>3, <3>4, RoutedBy DEF NoneDown
  <2>4. CASE toPage' = toPage
    <3> DEFINE Entry(id) == [id |-> id, call |-> c, path |-> Path[c], answers |-> 0]
    <3>1. ASSUME NEW id, handling' = [handling EXCEPT ![w] = @ \cup {Entry(id)}]
          PROVE  \A v \in Workers : \A h \in handling'[v] : h \in handling[v] \/ HandlerFine(v, h)
      <4>1. HandlerFine(w, Entry(id))
        BY <2>2 DEF HandlerFine
      <4> HIDE DEF Entry
      <4>2. \A v \in Workers : handling'[v] \subseteq
                IF v = w THEN handling[v] \cup {Entry(id)} ELSE handling[v]
        BY <3>1 DEF IInv, Tables
      <4> QED
        BY <4>1, <4>2
    <3>2. \/ handling' = handling
          \/ \E id : handling' = [handling EXCEPT ![w] = @ \cup {Entry(id)}]
      BY <1>5 DEF WorkerPassesToGo, GoLeaf
    <3> HIDE DEF Entry
    <3>3. \A v \in Workers : \A h \in handling'[v] : h \in handling[v] \/ HandlerFine(v, h)
      BY <3>1, <3>2
    <3>4. NoneUp
      BY <2>4, OnTheWay
    <3> QED
      BY <1>1, <2>1, <3>3, <3>4, RoutedBy DEF NoneUp, NoneDown
  <2> QED
    BY <1>5, <2>3, <2>4 DEF WorkerPassesToGo
<1>6. CASE WorkerGetsReply(w)
  <2>1. NoneUp /\ handling' = handling
    BY <1>6, OnTheWay DEF WorkerGetsReply
  <2>2. \A d \in Calls : result'[d] = Refused => result[d] = Refused \/ Over(d)
    <3>1. CASE m.id \notin DOMAIN waits[w]
      BY <1>6, <3>1 DEF WorkerGetsReply
    <3>2. CASE m.id \in DOMAIN waits[w]
      <4>1. PICK d \in Calls :
              /\ IsReply(m) /\ d = CallOf(w, m.id)
              /\ result' = Answered(d, m.answer) \/ result' = result
        BY <1>6, <3>2, WorkerHears
      <4>2. m.answer = Refused => Over(d)
        BY <1>2, <4>1 DEF DownFine
      <4> QED
        BY <4>1, <4>2 DEF Answered, IInv, Tables
    <3> QED
      BY <3>1, <3>2
  <2> QED
    BY <1>1, <2>1, <2>2, RoutedBy DEF NoneUp, NoneDown
<1> QED
  BY <1>4, <1>5, <1>6

LEMMA RoutedGo ==
    ASSUME IInv, IInv', Begun, Routed, [Next]_vars, NEW w \in Workers, NEW h \in handling[w],
           GoServes(w, h) \/ GoAnswers(w, h)
    PROVE  Routed'
<1> USE Constants, NewMessages
<1>1. UNCHANGED <<waits, cbMap, pageWaits, phase, result, toWorker>>
  BY DEF GoServes, GoAnswers
<1>2. NoneDown
  BY <1>1, OnTheWay
<1>3. HandlerFine(w, h)
  BY DEF Routed
<1>4. ASSUME h.id \in DOMAIN rwMap[w]
      PROVE  h.call \in Calls /\ h.call = PageCallOf(w, rwMap[w][h.id])
  <2>1. Lower(w, rwMap[w][h.id])
    BY <1>4 DEF IInv, Tokens
  <2>2. rwMap[w][h.id] \in DOMAIN pageWaits[w] /\ h.call = PageCallOf(w, rwMap[w][h.id])
    BY <1>4, <2>1 DEF Lower
  <2> QED
    BY <2>2, PageCallOfFacts DEF IInv
<1>5. \A v \in Workers : \A g \in handling'[v] : g \in handling[v] \/ HandlerFine(v, g)
  <2>1. PICK S : /\ handling' = [handling EXCEPT ![w] = (@ \ {h}) \cup S]
                 /\ \A g \in S : \E n : g = [h EXCEPT !.answers = n]
    <3> DEFINE Goes(S) == /\ handling' = [handling EXCEPT ![w] = (@ \ {h}) \cup S]
                          /\ \A g \in S : \E n : g = [h EXCEPT !.answers = n]
    <3>1. ASSUME NEW n, handling' = [handling EXCEPT ![w] = (@ \ {h}) \cup {[h EXCEPT !.answers = n]}]
          PROVE  \E S : Goes(S)
      <4>1. Goes({[h EXCEPT !.answers = n]})
        BY <3>1
      <4> HIDE DEF Goes
      <4> QED
        BY <4>1
    <3>2. ASSUME \/ handling' = [handling EXCEPT ![w] = @ \ {h}]
                 \/ handling' = [handling EXCEPT ![w] = (@ \ {h}) \cup {}]
          PROVE  \E S : Goes(S)
      <4>1. Goes({})
        BY <3>2
      <4> HIDE DEF Goes
      <4> QED
        BY <4>1
    <3>3. \/ \E n : handling' = [handling EXCEPT ![w] = (@ \ {h}) \cup {[h EXCEPT !.answers = n]}]
          \/ handling' = [handling EXCEPT ![w] = @ \ {h}]
          \/ handling' = [handling EXCEPT ![w] = (@ \ {h}) \cup {}]
      BY DEF GoServes, GoAnswers
    <3> HIDE DEF Goes
    <3>4. \E S : Goes(S)
      BY <3>1, <3>2, <3>3
    <3> QED
      BY <3>4 DEF Goes
  <2>2. h = [id |-> h.id, call |-> h.call, path |-> h.path, answers |-> h.answers]
    BY DEF IInv, Tokens, Handlers
  <2>3. \A g \in S : g.call = h.call /\ g.path = h.path
    BY <2>1, <2>2
  <2>4. \A g \in S : HandlerFine(w, g)
    BY <1>3, <2>3 DEF HandlerFine
  <2> QED
    BY <2>1, <2>4 DEF IInv, Tables
<1>6. \A v \in Workers : \A m \in Up(v)' : m \in Up(v) \/ UpFine(v, m)'
  <2>1. CASE toPage' = toPage
    BY <2>1, OnTheWay DEF NoneUp
  <2>2. ASSUME NEW answer, toPage' # toPage, GoReplies(w, h, answer),
               answer = h.call \/ (answer = Refused /\ h.path \notin GoFuncs(w))
        PROVE  \A v \in Workers : \A m \in Up(v)' : m \in Up(v) \/ UpFine(v, m)'
    <3>1. h.id \in DOMAIN rwMap[w] /\ toPage' = SentToPage(w, Reply(rwMap[w][h.id], answer))
      BY <2>2 DEF GoReplies
    <3>2. answer = Refused => Over(h.call)
      BY <1>3, <1>4, <2>2, <3>1 DEF HandlerFine, Over
    <3>3. UpFine(w, Reply(rwMap[w][h.id], answer))
      BY <1>4, <3>1, <3>2 DEF UpFine
    <3> QED
      BY <1>1, <3>1, <3>3, NewUp
  <2> QED
    BY <2>1, <2>2 DEF GoServes, GoAnswers
<1> QED
  BY <1>1, <1>2, <1>5, <1>6, RoutedBy DEF NoneDown

LEMMA RoutedOthers ==
    ASSUME IInv, IInv', Begun, Routed, [Next]_vars,
           \/ PullAnswered \/ UNCHANGED vars
           \/ \E w \in Workers : GoExits(w)
           \/ \E a \in Apps : GoStarts(a) \/ CleanUp(a) \/ RemoveContainer(a)
    PROVE  Routed'
<1> USE Constants, NewMessages
<1>1. CASE PullAnswered
  <2>1. PICK p \in pulls : toWorker' = Posted(p.link, Reply(p.id, p.call))
    BY <1>1 DEF PullAnswered
  <2>2. UNCHANGED <<toPage, handling, result>>
    BY <1>1 DEF PullAnswered
  <2>3. p.link \in Workers /\ p.call \in Calls
    <3>1. p.link \in Workers /\ Upper(p.link, p.id)
      BY DEF IInv, Tokens
    <3>2. p.id \in DOMAIN waits[p.link] /\ p.call = CallOf(p.link, p.id)
      BY <3>1 DEF Upper
    <3> QED
      BY <3>1, <3>2, CallOfFacts DEF IInv
  <2>4. DownFine(p.link, Reply(p.id, p.call))'
    BY <2>3 DEF DownFine
  <2>5. DownOnly(p.link, Reply(p.id, p.call)) /\ NoneUp
    BY <2>1, <2>2, <2>3, OnTheWay
  <2> QED
    BY <2>2, <2>4, <2>5, RoutedBy DEF DownOnly, NoneUp
<1>2. CASE UNCHANGED <<toPage, toWorker, result>> /\
           (handling' = handling \/ \E w \in Workers : handling' = [handling EXCEPT ![w] = {}])
  <2>1. NoneUp /\ NoneDown
    BY <1>2, OnTheWay
  <2>2. \A w \in Workers : handling'[w] \subseteq handling[w]
    BY <1>2 DEF IInv, Tables
  <2> QED
    BY <1>2, <2>1, <2>2, RoutedBy DEF NoneUp, NoneDown
<1>3. ASSUME NEW a \in Apps, Terminated(a) PROVE Routed'
  <2>1. \A w \in Workers :
          /\ toPage'[w] = IF w = a THEN <<>> ELSE toPage[w]
          /\ toWorker'[w] = IF w = a THEN <<>> ELSE toWorker[w]
          /\ handling'[w] \subseteq handling[w]
    BY <1>3 DEF Terminated, IInv, UpQueues, DownQueues, Tables
  <2>2. NoneUp /\ NoneDown
    BY <2>1, QueueEmpty DEF NoneUp, NoneDown, Up, Down
  <2>3. result' = result
    BY <1>3 DEF Terminated
  <2> QED
    BY <2>1, <2>2, <2>3, RoutedBy DEF NoneUp, NoneDown
<1> QED
  BY <1>1, <1>2, <1>3 DEF GoExits, GoStarts, CleanUp, RemoveContainer, vars

LEMMA RoutedStep ==
    ASSUME IInv, IInv', Begun, Routed, [Next]_vars
    PROVE  Routed'
<1>1. ASSUME NEW w \in Workers, Receives(w) \/ GoHandles(w) PROVE Routed'
  BY <1>1, RoutedPage, RoutedWorker, RoutedGo DEF Receives, GoHandles
<1>2. ASSUME NEW c \in Calls, NEW w \in Workers, GoCall(w, c) \/ WorkerCall(w, c) PROVE Routed'
  BY <1>2, RoutedCalls
<1>3. ASSUME NEW c \in Calls, PageCall(c) PROVE Routed'
  BY <1>3, RoutedCalls
<1> QED
  BY <1>1, <1>2, <1>3, RoutedOthers, Constants DEF Next

LEMMA RoutedInit == Init => Begun /\ Routed
<1> SUFFICES ASSUME Init PROVE Begun /\ Routed
  OBVIOUS
<1> USE Constants, BootFacts
<1>1. Begun
  BY CrosslinkAssumption DEF Init, Begun, Phases, CrosslinkAssumption
<1>2. Routed
  BY QueueEmpty DEF Init, Routed, Up, Down
<1> QED
  BY <1>1, <1>2

(* A call to a registered path reaches its handler, whatever passes it on:  *)
(* an error says that there is none, or that its program does not run any   *)
(* more (src/cri.ts, src/crosslink.ts, src/crosslink/crosslink.go).         *)
THEOREM RefusalsAreRight == Spec => []RightRefusals
<1>1. (IInv /\ Begun /\ Routed) /\ [Next]_vars => (IInv /\ Begun /\ Routed)'
  BY NextStep, BegunStep, RoutedStep
<1>2. Routed => RightRefusals
  BY DEF Routed, RightRefusals, Over
<1> QED
  BY <1>1, <1>2, InitInv, RoutedInit, PTL DEF Spec
================================================================================
