------------------------------- MODULE Crosslink -------------------------------
(***************************************************************************)
(* Calls between the programs of a page: the page itself, the worker of the *)
(* node and the workers of the apps, each with a TypeScript side and a Go   *)
(* program.  Two Crosslinks (src/crosslink.ts) share the messages of one    *)
(* worker; behind that of the worker GoInterfaceHandler and lib/crosslink   *)
(* take the calls to Go and back.  The page passes calls from one worker on *)
(* to another (ForwardToApplication, ForwardToNode of src/cri.ts).          *)
(*                                                                          *)
(* A call is known by its request: what its handler answers is the call     *)
(* itself.  The channel jsChan is left out: what it holds is taken in order *)
(* by a goroutine that only starts others.  Ids are drawn at random in the    *)
(* code; here the least free one is, which is in use again the soonest. One  *)
(* that listNode may answer for a second time is taken not to be drawn.     *)
(***************************************************************************)
EXTENDS Naturals, Sequences, FiniteSets

CONSTANTS
    Apps, Node,    \* workers
    Page,
    Calls,         \* the calls of a run, each made once
    From, To,      \* the program that makes each call, the one it is meant for
    Path,          \* its path, as the sequence of its parts
    After,         \* the calls whose answer makes the caller make it
    Boot,          \* per app: the call its worker begins with
    Closing,       \* per app: the call its worker ends with
    Refused

Workers == Apps \cup {Node}

ASSUME CrosslinkAssumption ==
    /\ Node \notin Apps /\ Page \notin Workers
    /\ From \in [Calls -> Workers \cup {Page}] /\ To \in [Calls -> Workers \cup {Page}]
    /\ After \in [Calls -> SUBSET Calls]
    /\ \A c \in Calls : From[c] = Page => To[c] \in Workers
    /\ Boot \in [Apps -> Calls] /\ Closing \in [Apps -> Calls]
    /\ \A a \in Apps : From[Boot[a]] = a /\ From[Closing[a]] = a
    /\ Refused \notin Calls \cup {"idle", "open"} /\ Calls \cap {"idle", "open"} = {}

VARIABLES
    phase,      \* per worker: how far its Go program is
    listed,     \* the apps the page has in containers
    toPage,     \* per worker: the messages posted to the page
    toWorker,   \* per worker: those posted to it
    pageWaits,  \* per worker: waitings of the page's Crosslink
    waits,      \* per worker: waitings of its own
    cbMap,      \* per worker: the calls of its Go program
    rwMap,      \* per worker: the writers its Go program has to answer
    handling,   \* per worker: the goroutines that serve calls
    pulls,      \* the writers that wait in the page for a pullImage
    served,     \* per call: how often a handler has run
    result      \* per call: what its caller knows

vars == <<phase, listed, toPage, toWorker, pageWaits, waits, cbMap, rwMap,
          handling, pulls, served, result>>

(* A worker begins to load its program, then has GoInterfaceHandler, then   *)
(* a Go program with a crosslink; the program exits; the worker is          *)
(* terminated.                                                              *)
Phases == {"loading", "bound", "serving", "exited", "gone"}

Running(w) == phase[w] = "serving"

Init ==
    /\ phase = [w \in Workers |-> IF w = Node THEN "serving" ELSE "loading"]
    /\ listed = Apps
    /\ toPage = [w \in Workers |-> <<>>] /\ toWorker = [w \in Workers |-> <<>>]
    /\ pageWaits = [w \in Workers |-> <<>>] /\ waits = [w \in Workers |-> <<>>]
    /\ cbMap = [w \in Workers |-> <<>>] /\ rwMap = [w \in Workers |-> <<>>]
    /\ handling = [w \in Workers |-> {}]
    /\ pulls = {}
    /\ served = [c \in Calls |-> 0]
    /\ result = [c \in Calls |-> "idle"]

-----------------------------------------------------------------------------
(* Tables of what waits for an answer: waitings, cbMap and rwMap *)

(* Defect: an id is drawn without a look at the table. *)
AnyId(taken) == 1

(* assignId: an id that is not taken. *)
FreshId(taken) ==
    CHOOSE id \in 1 .. Cardinality(taken) + 1 :
        id \notin taken /\ \A i \in 1 .. id - 1 : i \in taken

Put(table, id, entry) == [i \in DOMAIN table \cup {id} |-> IF i = id THEN entry ELSE table[i]]

(* Defect: the entry is left when its answer has come. *)
Kept(table, id) == table

Without(table, id) == [i \in DOMAIN table \ {id} |-> table[i]]

(* The continuation of a call: the program that made it, or the writer of   *)
(* the call that is passed on.                                              *)
Own(c) == [own |-> TRUE, call |-> c]
GoCaller(id) == [own |-> FALSE, id |-> id]
Forwarder(w, id) == [own |-> FALSE, link |-> w, id |-> id]

CallMessage(c, id, leaf) == [type |-> "call", call |-> c, id |-> id, leaf |-> leaf]
Reply(id, answer) == [type |-> "reply", id |-> id, answer |-> answer]

(* What is posted to a worker that has been terminated is lost. *)
Posted(w, m) ==
    IF phase[w] = "gone" THEN toWorker ELSE [toWorker EXCEPT ![w] = Append(@, m)]

SentToPage(w, m) == [toPage EXCEPT ![w] = Append(@, m)]

Answered(c, answer) == [result EXCEPT ![c] = answer]

-----------------------------------------------------------------------------
(* Paths. A multiplexer looks at the first part of the leaf tag, or of the  *)
(* path if there is none, and leaves the rest as leaf to its handler.       *)

CriCalls ==
    {"runPodSandbox", "stopPodSandbox", "removePodSandbox", "podSandboxStatus",
     "listPodSandbox", "createContainer", "startContainer", "stopContainer",
     "removeContainer", "listContainers", "containerStatus", "listImages",
     "pullImage", "removeImage"}

FrontendCalls == {"nodeReady", "applyObjects", "deleteObjects"}

(* WebRTC links are made in the page for the colonio of the node's worker,  *)
(* which is told of what happens to them.                                   *)
WebrtcCalls ==
    {"contextInitialize", "contextAddIceServer", "linkInitialize", "linkFinalize",
     "linkDisconnect", "linkGetLocalSdp", "linkSend", "linkSetRemoteSdp", "linkUpdateIce"}

WebrtcEvents ==
    {"onDcoError", "onDcoMessage", "onDcoOpen", "onDcoClosing", "onDcoClose", "onPcoError",
     "onPcoIceCandidate", "onPcoStateChange", "onCsdSuccess", "onCsdFailure"}

PageFuncs(w) ==
    IF w = Node
    THEN ({"cri"} \X CriCalls) \cup ({"frontend"} \X FrontendCalls)
         \cup ({"frontend"} \X {"webrtc"} \X WebrtcCalls)
    ELSE {<<"cri", "container", "ready">>, <<"cri", "container", "finished">>}

Under(names, prefix) == {Append(prefix, n) : n \in names}

NodeFuncs ==
    Under({"info", "connect", "disconnect", "config"}, <<"node", "system">>)
    \cup Under({"setNodePosition", "setNodePublicity", "listNode", "createPod", "listPod",
                "migratePod", "deletePod"}, <<"node", "resource">>)
    \cup Under({"ready", "output"}, <<"node", "api", "core">>)
    \cup Under({"createObject", "updateObject", "getObject", "deleteObject"},
               <<"node", "api", "three">>)

AppFuncs == Under({"setup", "marshal", "teardown"}, <<"application", "api", "core">>)

GoFuncs(w) == IF w = Node THEN NodeFuncs ELSE AppFuncs

(* The TypeScript side of a worker: run is called before anything else, the *)
(* rest is left to the Go program, once there is a handler for it.          *)
WorkerFuncs(w) ==
    IF w = Node THEN {<<"run">>} \cup ({"webrtc"} \X WebrtcEvents)
    ELSE {<<"container", "term">>}

StartsWith(leaf, prefix) ==
    Len(leaf) >= Len(prefix) /\ SubSeq(leaf, 1, Len(prefix)) = prefix

Rest(leaf, prefix) == SubSeq(leaf, Len(prefix) + 1, Len(leaf))

(* Nobody calls a path that goes on behind a function of a Go program: that *)
(* ends the program with log.Fatalln, where the page and the TypeScript of  *)
(* a worker answer with an error.                                           *)
ASSUME PathAssumption ==
    \A c \in Calls, w \in Workers : \A f \in GoFuncs(w) :
        StartsWith(Path[c], f) => Path[c] = f

(* Where a call on w's link goes in the page. *)
ToApplication(w, leaf) == w = Node /\ StartsWith(leaf, <<"application">>)
ToNode(w, leaf) == w \in Apps /\ StartsWith(leaf, <<"node", "api">>)

(* Defect: the leaf of the multiplexers before is left in the tags. *)
LeafKept(m) == m.leaf

(* GoInterfaceHandler takes the leaf out of the tags, and Go routes the path. *)
GoLeaf(m) == Path[m.call]

Registered(c) ==
    CASE To[c] = Page -> Path[c] \in PageFuncs(From[c])
      [] To[c] # Page -> Path[c] \in GoFuncs(To[c]) \cup WorkerFuncs(To[c])

Reachable(c) ==
    /\ Registered(c)
    /\ From[c] \in Workers /\ To[c] \in Apps => ToApplication(From[c], Path[c])
    /\ From[c] \in Workers /\ To[c] = Node => ToNode(From[c], Path[c])

-----------------------------------------------------------------------------
(* Calls *)

(* What a program does makes the next call: the one it served or made. *)
Ready(c) ==
    /\ result[c] = "idle"
    /\ \A d \in After[c] : result[d] = d \/ (served[d] > 0 /\ To[d] = From[c])

(* Crosslink.Call of a Go program and callFromGo. *)
GoCall(w, c) ==
    /\ Running(w) /\ From[c] = w /\ Ready(c)
    /\ LET id == FreshId(DOMAIN cbMap[w])
           jsId == FreshId(DOMAIN waits[w])
       IN  /\ cbMap' = [cbMap EXCEPT ![w] = Put(@, id, c)]
           /\ waits' = [waits EXCEPT ![w] = Put(@, jsId, GoCaller(id))]
           /\ toPage' = SentToPage(w, CallMessage(c, jsId, Path[c]))
    /\ result' = Answered(c, "open")
    /\ UNCHANGED <<phase, listed, toWorker, pageWaits, rwMap, handling, pulls, served>>

(* Crosslink.call of the TypeScript of an app's worker: when it begins, and *)
(* when its program has exited.                                             *)
WorkerCall(a, c) ==
    /\ From[c] = a /\ result[c] = "idle"
    /\ \/ c = Boot[a] /\ phase[a] = "loading"
       \/ c = Closing[a] /\ phase[a] = "exited"
    /\ LET id == FreshId(DOMAIN waits[a]) IN
        /\ waits' = [waits EXCEPT ![a] = Put(@, id, Own(c))]
        /\ toPage' = SentToPage(a, CallMessage(c, id, Path[c]))
    /\ result' = Answered(c, "open")
    /\ UNCHANGED <<phase, listed, toWorker, pageWaits, cbMap, rwMap, handling, pulls, served>>

(* Crosslink.call of the page's own modules (command.ts, and stop() of a    *)
(* container).                                                              *)
PageCall(c) ==
    LET w == To[c]
        id == FreshId(DOMAIN pageWaits[w])
    IN  /\ From[c] = Page /\ Ready(c) /\ phase[w] # "gone"
        /\ pageWaits' = [pageWaits EXCEPT ![w] = Put(@, id, Own(c))]
        /\ toWorker' = Posted(w, CallMessage(c, id, Path[c]))
        /\ result' = Answered(c, "open")
        /\ UNCHANGED <<phase, listed, toPage, waits, cbMap, rwMap, handling, pulls, served>>

-----------------------------------------------------------------------------
(* Messages that reach the page *)

Received(w) ==
    /\ toPage[w] # <<>>
    /\ toPage' = [toPage EXCEPT ![w] = Tail(@)]

(* A handler of the page answers at once, but pullImage. *)
PageServes(w) ==
    LET m == Head(toPage[w]) IN
        /\ Received(w) /\ m.type = "call" /\ m.leaf \in PageFuncs(w)
        /\ served' = [served EXCEPT ![m.call] = @ + 1]
        /\ IF m.leaf = <<"cri", "pullImage">>
           THEN /\ pulls' = pulls \cup {[link |-> w, id |-> m.id, call |-> m.call]}
                /\ UNCHANGED toWorker
           ELSE /\ toWorker' = Posted(w, Reply(m.id, m.call))
                /\ UNCHANGED pulls
        /\ UNCHANGED <<phase, listed, pageWaits, waits, cbMap, rwMap, handling, result>>

PullAnswered ==
    \E writer \in pulls :
        /\ pulls' = pulls \ {writer}
        /\ toWorker' = Posted(writer.link, Reply(writer.id, writer.call))
        /\ UNCHANGED <<phase, listed, toPage, pageWaits, waits, cbMap, rwMap, handling,
                       served, result>>

(* The page calls another worker for the caller, with the tags it was       *)
(* given, the leaf among them.                                              *)
Forwards(w, to, m, leaf) ==
    LET id == FreshId(DOMAIN pageWaits[to]) IN
        /\ pageWaits' = [pageWaits EXCEPT ![to] = Put(@, id, Forwarder(w, m.id))]
        /\ toWorker' = Posted(to, CallMessage(m.call, id, leaf))

(* ForwardToApplication; a container that is listed but cleaned up has no   *)
(* link, and nobody answers.                                                *)
PageForwardsToApp(w) ==
    LET m == Head(toPage[w])
        a == To[m.call]
    IN  /\ Received(w) /\ m.type = "call" /\ ToApplication(w, m.leaf)
        /\ \/ /\ a \notin listed
              /\ toWorker' = Posted(w, Reply(m.id, Refused)) /\ UNCHANGED pageWaits
           \/ /\ a \in listed /\ phase[a] = "gone"
              /\ UNCHANGED <<toWorker, pageWaits>>
           \/ /\ a \in listed /\ phase[a] # "gone"
              /\ Forwards(w, a, m, Rest(m.leaf, <<"application">>))
        /\ UNCHANGED <<phase, listed, waits, cbMap, rwMap, handling, pulls, served, result>>

PageForwardsToNode(w) ==
    LET m == Head(toPage[w]) IN
        /\ Received(w) /\ m.type = "call" /\ ToNode(w, m.leaf)
        /\ Forwards(w, Node, m, Rest(m.leaf, <<"node", "api">>))
        /\ UNCHANGED <<phase, listed, waits, cbMap, rwMap, handling, pulls, served, result>>

(* Defect: what no handler is found for is dropped. *)
PageDrops(w) ==
    LET m == Head(toPage[w]) IN
        /\ Received(w) /\ m.type = "call"
        /\ m.leaf \notin PageFuncs(w) /\ ~ ToApplication(w, m.leaf) /\ ~ ToNode(w, m.leaf)
        /\ UNCHANGED <<phase, listed, toWorker, pageWaits, waits, cbMap, rwMap, handling,
                       pulls, served, result>>

(* The default handler of MultiPlexer, and setHandlerFunc with a rest. *)
PageRefuses(w) ==
    LET m == Head(toPage[w]) IN
        /\ Received(w) /\ m.type = "call"
        /\ m.leaf \notin PageFuncs(w) /\ ~ ToApplication(w, m.leaf) /\ ~ ToNode(w, m.leaf)
        /\ toWorker' = Posted(w, Reply(m.id, Refused))
        /\ UNCHANGED <<phase, listed, pageWaits, waits, cbMap, rwMap, handling, pulls,
                       served, result>>

(* The writer of the call that was forwarded. *)
PassedOn(entry, m) == Posted(entry.link, Reply(entry.id, m.answer))

(* receiveResponse, receiveError: to the module that called, or by the      *)
(* writer back to the worker that did.                                      *)
PageGetsReply(w) ==
    LET m == Head(toPage[w])
        entry == pageWaits[w][m.id]
    IN  /\ Received(w) /\ m.type = "reply"
        /\ IF m.id \notin DOMAIN pageWaits[w]
           THEN UNCHANGED <<pageWaits, toWorker, result>>
           ELSE /\ pageWaits' = [pageWaits EXCEPT ![w] = Without(@, m.id)]
                /\ IF entry.own
                   THEN result' = Answered(entry.call, m.answer) /\ UNCHANGED toWorker
                   ELSE toWorker' = PassedOn(entry, m) /\ UNCHANGED result
        /\ UNCHANGED <<phase, listed, waits, cbMap, rwMap, handling, pulls, served>>

-----------------------------------------------------------------------------
(* Messages that reach a worker *)

Taken(w) ==
    /\ toWorker[w] # <<>> /\ phase[w] # "gone"
    /\ toWorker' = [toWorker EXCEPT ![w] = Tail(@)]

(* The TypeScript of an app's worker answers for a program that cannot.     *)
WorkerServes(w) ==
    LET m == Head(toWorker[w]) IN
        /\ Taken(w) /\ m.type = "call" /\ m.leaf \in WorkerFuncs(w)
        /\ served' = [served EXCEPT ![m.call] = @ + 1]
        /\ toPage' = SentToPage(w, Reply(m.id, m.call))
        /\ UNCHANGED <<phase, listed, pageWaits, waits, cbMap, rwMap, handling, pulls, result>>

(* The default handler: an error while there is no GoInterfaceHandler, and  *)
(* once the program has exited (an exception). Before the program has a     *)
(* crosslink, the writer is kept and no one answers.                        *)
WorkerPassesToGo(w) ==
    LET m == Head(toWorker[w]) IN
        /\ Taken(w) /\ m.type = "call" /\ m.leaf \notin WorkerFuncs(w)
        /\ \/ /\ phase[w] \in {"loading", "exited"}
              /\ toPage' = SentToPage(w, Reply(m.id, Refused))
              /\ UNCHANGED <<rwMap, handling>>
           \/ /\ phase[w] \in {"bound", "serving"}
              /\ LET id == FreshId(DOMAIN rwMap[w] \cup {h.id : h \in handling[w]}) IN
                  /\ rwMap' = [rwMap EXCEPT ![w] = Put(@, id, m.id)]
                  /\ handling' = IF Running(w)
                        THEN [handling EXCEPT ![w] = @ \cup
                                {[id |-> id, call |-> m.call, path |-> GoLeaf(m), answers |-> 0]}]
                        ELSE handling
              /\ UNCHANGED toPage
        /\ UNCHANGED <<phase, listed, pageWaits, waits, cbMap, pulls, served, result>>

(* The worker has its program: GoInterfaceHandler is bound, if the app is   *)
(* one of the runtime "core:dev1", as here.                                 *)
PhaseAfter(c) ==
    IF \E a \in Apps : c = Boot[a] THEN [phase EXCEPT ![From[c]] = "bound"] ELSE phase

WorkerGetsReply(w) ==
    LET m == Head(toWorker[w])
        entry == waits[w][m.id]
    IN  /\ Taken(w) /\ m.type = "reply"
        /\ IF m.id \notin DOMAIN waits[w] THEN UNCHANGED <<waits, cbMap, phase, result>>
           ELSE /\ waits' = [waits EXCEPT ![w] = Without(@, m.id)]
                /\ IF entry.own
                   THEN /\ result' = Answered(entry.call, m.answer)
                        /\ phase' = PhaseAfter(entry.call)
                        /\ UNCHANGED cbMap
                   ELSE IF ~ Running(w) THEN UNCHANGED <<cbMap, phase, result>>
                   ELSE /\ result' = Answered(cbMap[w][entry.id], m.answer)
                        /\ cbMap' = [cbMap EXCEPT ![w] = Without(@, entry.id)]
                        /\ UNCHANGED phase
        /\ UNCHANGED <<listed, toPage, pageWaits, rwMap, handling, pulls, served>>

(* ReplySuccess and ReplyError of a Go handler, and replyFromGo: only the   *)
(* first one finds a writer.                                                *)
GoReplies(w, h, answer) ==
    IF h.id \in DOMAIN rwMap[w]
    THEN /\ toPage' = SentToPage(w, Reply(rwMap[w][h.id], answer))
         /\ rwMap' = [rwMap EXCEPT ![w] = Without(@, h.id)]
    ELSE UNCHANGED <<toPage, rwMap>>

(* A goroutine begins to serve: the handler of its path, or the default of  *)
(* the multiplexer.                                                         *)
GoServes(w, h) ==
    /\ Running(w) /\ h \in handling[w] /\ h.answers = 0
    /\ \/ /\ h.path \in GoFuncs(w)
          /\ served' = [served EXCEPT ![h.call] = @ + 1]
          /\ \E answers \in 1 .. (IF h.path[Len(h.path)] = "listNode" THEN 2 ELSE 1) :
                handling' = [handling EXCEPT ![w] =
                    (@ \ {h}) \cup {[h EXCEPT !.answers = answers]}]
          /\ UNCHANGED <<toPage, rwMap>>
       \/ /\ h.path \notin GoFuncs(w)
          /\ GoReplies(w, h, Refused)
          /\ handling' = [handling EXCEPT ![w] = @ \ {h}]
          /\ UNCHANGED served
    /\ UNCHANGED <<phase, listed, toWorker, pageWaits, waits, cbMap, pulls, result>>

(* listNode answers with an error and goes on to answer again.              *)
GoAnswers(w, h) ==
    /\ Running(w) /\ h \in handling[w] /\ h.answers > 0
    /\ GoReplies(w, h, h.call)
    /\ handling' = [handling EXCEPT ![w] =
          (@ \ {h}) \cup (IF h.answers = 1 THEN {} ELSE {[h EXCEPT !.answers = @ - 1]})]
    /\ UNCHANGED <<phase, listed, toWorker, pageWaits, waits, cbMap, pulls, served, result>>

-----------------------------------------------------------------------------
(* Programs *)

(* The program has made its multiplexers and its crosslink. *)
GoStarts(a) ==
    /\ phase[a] = "bound"
    /\ phase' = [phase EXCEPT ![a] = "serving"]
    /\ UNCHANGED <<listed, toPage, toWorker, pageWaits, waits, cbMap, rwMap, handling,
                   pulls, served, result>>

(* The Go program of a worker exits, by itself or by log.Fatal or a panic:  *)
(* its goroutines end with it, the TypeScript goes on.                      *)
GoExits(w) ==
    /\ Running(w)
    /\ phase' = [phase EXCEPT ![w] = "exited"]
    /\ handling' = [handling EXCEPT ![w] = {}]
    /\ UNCHANGED <<listed, toPage, toWorker, pageWaits, waits, cbMap, rwMap, pulls,
                   served, result>>

(* The worker of an app is terminated, and messages on their way are lost:  *)
(* by a timer of its container, which stays listed, or when that is removed. *)
Terminated(a) ==
    /\ phase' = [phase EXCEPT ![a] = "gone"]
    /\ handling' = [handling EXCEPT ![a] = {}]
    /\ toPage' = [toPage EXCEPT ![a] = <<>>] /\ toWorker' = [toWorker EXCEPT ![a] = <<>>]
    /\ UNCHANGED <<pageWaits, waits, cbMap, rwMap, pulls, served, result>>

CleanUp(a) == phase[a] # "gone" /\ Terminated(a) /\ UNCHANGED listed

RemoveContainer(a) == a \in listed /\ Terminated(a) /\ listed' = listed \ {a}

-----------------------------------------------------------------------------
Receives(w) ==
    \/ PageServes(w) \/ PageForwardsToApp(w) \/ PageForwardsToNode(w)
    \/ PageRefuses(w) \/ PageGetsReply(w)
    \/ WorkerServes(w) \/ WorkerPassesToGo(w) \/ WorkerGetsReply(w)

GoHandles(w) == \E h \in handling[w] : GoServes(w, h) \/ GoAnswers(w, h)

Next ==
    \/ \E w \in Workers : (\E c \in Calls : GoCall(w, c)) \/ Receives(w) \/ GoHandles(w)
                          \/ GoExits(w)
    \/ \E c \in Calls : PageCall(c)
    \/ PullAnswered
    \/ \E a \in Apps : (\E c \in Calls : WorkerCall(a, c)) \/ GoStarts(a)
                       \/ CleanUp(a) \/ RemoveContainer(a)

Spec == Init /\ [][Next]_vars

(* Event loops deliver messages, the Go scheduler runs the goroutines, and  *)
(* handlers and downloads end (the latter: PullEnds of Cri).                *)
Fairness ==
    /\ \A w \in Workers :
          /\ WF_vars(PageServes(w) \/ PageForwardsToApp(w) \/ PageForwardsToNode(w)
                     \/ PageRefuses(w) \/ PageGetsReply(w))
          /\ WF_vars(WorkerServes(w) \/ WorkerPassesToGo(w) \/ WorkerGetsReply(w))
          /\ WF_vars(GoHandles(w))
    /\ WF_vars(PullAnswered)

FairSpec == Spec /\ Fairness

-----------------------------------------------------------------------------
(* Properties *)

TypeOK ==
    /\ phase \in [Workers -> Phases] /\ listed \subseteq Apps
    /\ \A w \in Workers :
          DOMAIN pageWaits[w] \cup DOMAIN waits[w] \cup DOMAIN cbMap[w] \cup DOMAIN rwMap[w]
              \subseteq Nat \ {0}
    /\ served \in [Calls -> Nat]
    /\ result \in [Calls -> {"idle", "open", Refused} \cup Calls]

(* Every caller gets the answer to its own call and gets it once, and a     *)
(* handler is called once for it: through two tables of ids in each worker  *)
(* and a third one in the page, though ids are drawn again, listNode        *)
(* answers twice and programs exit and workers go in between.               *)
R == INSTANCE Rpc

ImplementsRpc == R!RpcSpec

(* What the entries of a worker's tables are for: the calls that would be   *)
(* answered through them.                                                   *)
CallsIn(w) ==
    {cbMap[w][id] : id \in DOMAIN cbMap[w]}
    \cup {waits[w][id].call : id \in {i \in DOMAIN waits[w] : waits[w][i].own}}

(* A call that has its answer leaves nothing behind: for each open call of  *)
(* a running program there is one entry and for no other, and what the      *)
(* TypeScript holds for Go leads back to one of them.                       *)
NoLeftovers ==
    /\ \A w \in Workers : Running(w) =>
        /\ \A c \in Calls :
              From[c] = w => (result[c] = "open" <=> c \in CallsIn(w))
        /\ \A id \in DOMAIN waits[w] :
              ~ waits[w][id].own => waits[w][id].id \in DOMAIN cbMap[w]
    /\ \A w \in Workers : \A id \in DOMAIN pageWaits[w] :
        pageWaits[w][id].own
            => result[pageWaits[w][id].call] = "open"
    /\ \A w \in Workers : \A id \in DOMAIN pageWaits[w] :
        ~ pageWaits[w][id].own
            => phase[pageWaits[w][id].link] = "gone"
               \/ pageWaits[w][id].id \in DOMAIN waits[pageWaits[w][id].link]

Stopped(w) == w # Page /\ phase[w] \in {"exited", "gone"}

(* A call to an app's program is made after one that the program has made.  *)
Timely(c) ==
    To[c] \in Apps =>
        \/ Path[c] \in WorkerFuncs(To[c])
        \/ \E d \in After[c] : From[d] = To[c] /\ d \notin {Boot[To[c]], Closing[To[c]]}

(* A call to a registered path, whatever multiplexers of whichever worker   *)
(* have left in its tags, reaches its handler: an error says that there is  *)
(* none, or that its program does not run any more.                         *)
RightRefusals ==
    \A c \in Calls : result[c] = Refused /\ Reachable(c) /\ Timely(c) => Stopped(To[c])

(* Every call is answered, if its two programs live: in the end none is     *)
(* open but for one that has stopped.                                       *)
CallsAnswered ==
    <>[](\A c \in Calls : result[c] = "open" => Stopped(From[c]) \/ Stopped(To[c]))
==============================================================================
