---------------------------------- MODULE Cri ----------------------------------
(***************************************************************************)
(* The container runtime of a node: the sandboxes, containers and images    *)
(* src/cri.ts keeps in the page, the workers the apps run in, and the       *)
(* timers, downloads and messages that change them behind the back of the   *)
(* calls.  Its clients are the reconciles of the node's pods, one at a time *)
(* for a pod (node/controller/container.go), which share the images.        *)
(*                                                                          *)
(* Ids are drawn at random and taken to be fresh; the code looks for a      *)
(* container's id among those of its own sandbox only.                      *)
(***************************************************************************)
EXTENDS Naturals, FiniteSets

CONSTANTS
    Pods,        \* the pods of the node, by uid
    PodName,     \* Meta.Name of each; two owners may choose the same
    Names,       \* container names
    ImageOf,     \* the image of each container of each pod
    Urls,
    Runnable,    \* the pairs <<pod, name>> with one of runtimeRequired
    MaxIds,      \* sandboxes and containers made in a run
    MaxImages,   \* image objects made in a run
    MaxFailures, \* downloads that fail in a run
    MaxRemovals  \* calls of RemoveImage, which the controllers never make

ASSUME CriAssumption ==
    /\ ImageOf \in [Pods \X Names -> Urls]
    /\ Runnable \subseteq Pods \X Names
    /\ {MaxIds, MaxImages, MaxFailures, MaxRemovals} \subseteq Nat

VARIABLES
    sandboxes,   \* ids of the map sandboxes
    sandbox,     \* per id: SandboxImpl
    containers,  \* ids of the map containers
    container,   \* per id: ContainerImpl
    images,      \* the map images: per url the image object, or none
    image,       \* per image object: ImageImpl
    client,      \* per pod: the reconcile that makes the calls
    nextId, nextImage,
    used         \* how much of the bounds on failures and removals is used

vars == <<sandboxes, sandbox, containers, container, images, image, client,
          nextId, nextImage, used>>

Ids == 1..MaxIds
NoId == 0
Objects == 1..MaxImages
NoImage == 0

Sandbox == [pod : Pods, containers : SUBSET Ids]

(* The worker is loaded, asks for its program, runs it, posts that it has    *)
(* finished, and idles once that is known; "none" is ContainerImpl.worker    *)
(* undefined. The timers are the two setTimeouts of containerStopTimeout.    *)
Workers == {"none", "loading", "running", "finishing", "idle"}

Container ==
    [sandbox : Ids, name : Names, image : Objects,
     state : {"created", "running", "exited"},
     exit : {"none", "program", "killed", "refused"},
     worker : Workers, killTimer : BOOLEAN, cleanupTimer : BOOLEAN]

(* fetches counts the downloads that have not settled yet. *)
Image == [url : Urls, state : {"downloading", "downloaded", "error"}, fetches : Nat]

Blank == [blank |-> TRUE]

Client ==
    [pc : {"idle", "pull", "make", "start", "remove", "ended"}, sandbox : Ids \cup {NoId},
     todo : SUBSET Names, need : SUBSET Urls, polls : Objects \cup {NoImage},
     made : Ids \cup {NoId}]

NewClient == [pc |-> "idle", sandbox |-> NoId, todo |-> {}, need |-> {},
              polls |-> NoImage, made |-> NoId]

TypeOK ==
    /\ sandboxes \subseteq Ids
    /\ sandbox \in [Ids -> Sandbox \cup {Blank}]
    /\ containers \subseteq Ids
    /\ container \in [Ids -> Container \cup {Blank}]
    /\ images \in [Urls -> Objects \cup {NoImage}]
    /\ image \in [Objects -> Image \cup {Blank}]
    /\ client \in [Pods -> Client]
    /\ nextId \in Nat \ {0} /\ nextImage \in Nat \ {0}
    /\ used \in [{"failures", "removals"} -> Nat]

Init ==
    /\ sandboxes = {} /\ sandbox = [i \in Ids |-> Blank]
    /\ containers = {} /\ container = [i \in Ids |-> Blank]
    /\ images = [u \in Urls |-> NoImage] /\ image = [o \in Objects |-> Blank]
    /\ client = [p \in Pods |-> NewClient]
    /\ nextId = 1 /\ nextImage = 1
    /\ used = [x \in {"failures", "removals"} |-> 0]

SandboxesUnchanged == UNCHANGED <<sandboxes, sandbox>>
ContainersUnchanged == UNCHANGED <<containers, container>>
ImagesUnchanged == UNCHANGED <<images, image, nextImage>>

Spend(counter, bound) ==
    /\ used[counter] < bound
    /\ used' = [used EXCEPT ![counter] = @ + 1]

-----------------------------------------------------------------------------
(* Images *)

Downloading(u) == [url |-> u, state |-> "downloading", fetches |-> 1]

Pulled(o) == [image EXCEPT ![o].state = "downloading", ![o].fetches = @ + 1]

(* Defect: every caller that finds the image missing downloads it. *)
NotDownloaded(o) == image[o].state # "downloaded"

(* Nobody is downloading the image, and it is not there. *)
HasFailed(o) == image[o].state = "error"

(* pullImage: a new image, or one whose download has failed, is downloaded; *)
(* unless it is there already the answer waits for the object found.        *)
PullImage(p, u) ==
    LET o == images[u] IN
        /\ client[p].pc = "pull" /\ client[p].polls = NoImage /\ u \in client[p].need
        /\ IF o = NoImage
           THEN /\ nextImage \in Objects
                /\ images' = [images EXCEPT ![u] = nextImage]
                /\ image' = [image EXCEPT ![nextImage] = Downloading(u)]
                /\ nextImage' = nextImage + 1
                /\ client' = [client EXCEPT ![p].polls = nextImage]
           ELSE /\ image' = IF HasFailed(o) THEN Pulled(o) ELSE image
                /\ client' = [client EXCEPT ![p] =
                      IF image[o].state = "downloaded" THEN [@ EXCEPT !.need = client[p].need \ {u}]
                      ELSE [@ EXCEPT !.polls = o]]
                /\ UNCHANGED <<images, nextImage>>
        /\ SandboxesUnchanged /\ ContainersUnchanged /\ UNCHANGED <<nextId, used>>

Returned(c) == [NewClient EXCEPT !.sandbox = c.sandbox]

(* Defect: an error is taken for a download that goes on. *)
PullAnsweredOnly(p) ==
    LET o == client[p].polls IN
        /\ o # NoImage
        /\ image[o].state = "downloaded"
        /\ client' = [client EXCEPT ![p].polls = NoImage, ![p].need = @ \ {image[o].url}]
        /\ SandboxesUnchanged /\ ContainersUnchanged /\ ImagesUnchanged
        /\ UNCHANGED <<nextId, used>>

(* The interval of pullImage looks at its object once a second. An error    *)
(* ends the reconcile.                                                      *)
PullAnswered(p) ==
    LET o == client[p].polls IN
        /\ o # NoImage
        /\ image[o].state # "downloading"
        /\ client' = [client EXCEPT ![p] =
              IF HasFailed(o) THEN Returned(@)
              ELSE [@ EXCEPT !.polls = NoImage, !.need = client[p].need \ {image[o].url}]]
        /\ SandboxesUnchanged /\ ContainersUnchanged /\ ImagesUnchanged
        /\ UNCHANGED <<nextId, used>>

(* A fetch settles. *)
FetchEnds(o) ==
    /\ image[o] # Blank /\ image[o].fetches > 0
    /\ \/ /\ image' = [image EXCEPT ![o].state = "downloaded", ![o].fetches = @ - 1]
          /\ UNCHANGED used
       \/ /\ Spend("failures", MaxFailures)
          /\ image' = [image EXCEPT ![o].state = "error", ![o].fetches = @ - 1]
    /\ SandboxesUnchanged /\ ContainersUnchanged
    /\ UNCHANGED <<images, client, nextId, nextImage>>

(* removeImage: those who have got hold of the object keep it. *)
RemoveImage(u) ==
    /\ images[u] # NoImage
    /\ image[images[u]].state \in {"downloaded", "error"}
    /\ Spend("removals", MaxRemovals)
    /\ images' = [images EXCEPT ![u] = NoImage]
    /\ SandboxesUnchanged /\ ContainersUnchanged
    /\ UNCHANGED <<image, client, nextId, nextImage>>

-----------------------------------------------------------------------------
(* Sandboxes *)

(* runPodSandbox refuses a second sandbox for a name or a uid. *)
Duplicate(p) ==
    \E i \in sandboxes :
        PodName[sandbox[i].pod] = PodName[p] \/ sandbox[i].pod = p

RunPodSandbox(p) ==
    /\ client[p].pc = "idle" /\ client[p].sandbox = NoId
    /\ ~ Duplicate(p)
    /\ nextId \in Ids
    /\ sandboxes' = sandboxes \cup {nextId}
    /\ sandbox' = [sandbox EXCEPT ![nextId] =
                      [pod |-> p, containers |-> {}]]
    /\ client' = [client EXCEPT ![p].sandbox = nextId]
    /\ nextId' = nextId + 1
    /\ ContainersUnchanged /\ ImagesUnchanged /\ UNCHANGED used

ContainersOf(i) == sandbox[i].containers

(* Defect: the name of a container that has exited may be used again. *)
NamesAliveIn(i) == {container[k].name : k \in {l \in ContainersOf(i) : container[l].state # "exited"}}

(* Names for which createContainer finds a duplicate. *)
NamesIn(i) == {container[k].name : k \in ContainersOf(i)}

(* Defect: images are listed before they are downloaded. *)
ListedEarly == {u \in Urls : images[u] # NoImage}

(* listImages *)
Listed == {u \in Urls : images[u] # NoImage /\ image[images[u]].state = "downloaded"}

(* letRunning: PodSandboxStatus tells the containers that are missing, and  *)
(* ListImages which of their images are not downloaded.                     *)
LetRunning(p) ==
    LET i == client[p].sandbox
        missing == Names \ NamesIn(i)
        urls == {ImageOf[<<p, c>>] : c \in missing}
    IN  /\ client[p].pc = "idle" /\ i \in sandboxes
        /\ missing # {}
        /\ client' = [client EXCEPT ![p] =
                        [@ EXCEPT !.pc = "pull", !.todo = missing, !.need = urls \ Listed]]
        /\ SandboxesUnchanged /\ ContainersUnchanged /\ ImagesUnchanged
        /\ UNCHANGED <<nextId, used>>

PullsDone(p) ==
    /\ client[p].pc = "pull" /\ client[p].polls = NoImage /\ client[p].need = {}
    /\ client' = [client EXCEPT ![p].pc = "make"]
    /\ SandboxesUnchanged /\ ContainersUnchanged /\ ImagesUnchanged
    /\ UNCHANGED <<nextId, used>>

-----------------------------------------------------------------------------
(* Containers *)

NewContainer(i, c, o) ==
    [sandbox |-> i, name |-> c, image |-> o, state |-> "created", exit |-> "none",
     worker |-> "none", killTimer |-> FALSE, cleanupTimer |-> FALSE]

(* createContainer takes the image as it is, downloaded or not. When it is  *)
(* not found the controller logs the error and goes on.                     *)
CreateContainer(p, c) ==
    LET i == client[p].sandbox
        o == images[ImageOf[<<p, c>>]]
    IN  /\ client[p].pc = "make" /\ c \in client[p].todo
        /\ i \in sandboxes
        /\ c \notin NamesIn(i)
        /\ IF o = NoImage
           THEN /\ client' = [client EXCEPT ![p].todo = @ \ {c}]
                /\ SandboxesUnchanged /\ ContainersUnchanged /\ UNCHANGED nextId
           ELSE /\ nextId \in Ids
                /\ containers' = containers \cup {nextId}
                /\ container' = [container EXCEPT ![nextId] = NewContainer(i, c, o)]
                /\ sandbox' = [sandbox EXCEPT ![i].containers = @ \cup {nextId}]
                /\ client' = [client EXCEPT ![p] =
                      [@ EXCEPT !.pc = "start", !.todo = client[p].todo \ {c}, !.made = nextId]]
                /\ nextId' = nextId + 1
                /\ UNCHANGED sandboxes
        /\ ImagesUnchanged /\ UNCHANGED used

(* ContainerImpl._check *)
CanStart(p, k) ==
    /\ image[k.image].state = "downloaded"
    /\ <<p, k.name>> \in Runnable

(* startContainer: a worker, or at once the exit code -1. *)
StartContainer(p) ==
    LET k == client[p].made IN
        /\ client[p].pc = "start" /\ k \in containers
        /\ container' = [container EXCEPT ![k] =
              IF CanStart(p, @) THEN [@ EXCEPT !.state = "running", !.worker = "loading"]
              ELSE [@ EXCEPT !.state = "exited", !.exit = "refused"]]
        /\ client' = [client EXCEPT ![p] = [@ EXCEPT !.pc = "make", !.made = NoId]]
        /\ SandboxesUnchanged /\ ImagesUnchanged /\ UNCHANGED <<containers, nextId, used>>

LetRunningReturns(p) ==
    /\ client[p].pc = "make" /\ client[p].todo = {}
    /\ client' = [client EXCEPT ![p] = Returned(@)]
    /\ SandboxesUnchanged /\ ContainersUnchanged /\ ImagesUnchanged
    /\ UNCHANGED <<nextId, used>>

(* ContainerImpl.stop: the app is told and a timer started, if it has one.  *)
Stopped(k) == IF k.worker = "none" THEN k ELSE [k EXCEPT !.killTimer = TRUE]

(* ContainerImpl.cleanup *)
CleanedUp(k) == [k EXCEPT !.worker = "none"]

(* stop() and cleanup() of a container that is no longer listed: without a  *)
(* worker its timers have no effect, and nobody reads it again.             *)
Dropped(k) ==
    LET ended == CleanedUp(Stopped(k)) IN IF ended.worker = "none" THEN Blank ELSE ended

(* stopContainer, called by letTerminate for what has not exited. *)
StopContainer(p, k) ==
    /\ client[p].pc = "idle"
    /\ client[p].sandbox \in sandboxes /\ k \in ContainersOf(client[p].sandbox)
    /\ container[k].state # "exited"
    /\ container' = [container EXCEPT ![k] = Stopped(@)]
    /\ SandboxesUnchanged /\ ImagesUnchanged /\ UNCHANGED <<containers, client, nextId, used>>

(* stopPodSandbox; only the tests of the runtime call it. SandboxNotReady,   *)
(* which it sets, is only looked at by an assertion.                        *)
StopPodSandbox(p) ==
    LET i == client[p].sandbox IN
        /\ client[p].pc = "idle" /\ i \in sandboxes
        /\ container' = [k \in Ids |->
              IF k \in ContainersOf(i) THEN Stopped(container[k]) ELSE container[k]]
        /\ SandboxesUnchanged /\ ImagesUnchanged
        /\ UNCHANGED <<containers, client, nextId, used>>

(* removeSandbox of the container controller begins. *)
LetRemove(p) ==
    /\ client[p].pc = "idle" /\ client[p].sandbox \in sandboxes
    /\ client' = [client EXCEPT ![p].pc = "remove"]
    /\ SandboxesUnchanged /\ ContainersUnchanged /\ ImagesUnchanged
    /\ UNCHANGED <<nextId, used>>

(* removeContainer, for each container it has listed: it is stopped and its *)
(* worker terminated, so what the app has sent is lost.                     *)
RemoveContainer(p, k) ==
    LET i == client[p].sandbox IN
        /\ client[p].pc = "remove" /\ k \in ContainersOf(i)
        /\ container' = [container EXCEPT ![k] = Dropped(@)]
        /\ containers' = containers \ {k}
        /\ sandbox' = [sandbox EXCEPT ![i].containers = @ \ {k}]
        /\ ImagesUnchanged /\ UNCHANGED <<sandboxes, client, nextId, used>>

(* Defect: the containers of the sandbox are stopped but not removed. *)
RemovePodSandboxOnly(p) ==
    LET i == client[p].sandbox IN
        /\ client[p].pc = "remove"
        /\ container' = [k \in Ids |->
              IF k \in ContainersOf(i) THEN Stopped(container[k]) ELSE container[k]]
        /\ sandboxes' = sandboxes \ {i}
        /\ client' = [client EXCEPT ![p] = NewClient]
        /\ ImagesUnchanged /\ UNCHANGED <<sandbox, containers, nextId, used>>

(* removePodSandbox: with the containers that are left in it (the controller *)
(* only logs an error of RemoveContainer).                                  *)
RemovePodSandbox(p) ==
    LET i == client[p].sandbox IN
        /\ client[p].pc = "remove"
        /\ container' = [k \in Ids |->
              IF k \in ContainersOf(i) THEN Dropped(container[k]) ELSE container[k]]
        /\ containers' = containers \ ContainersOf(i)
        /\ sandboxes' = sandboxes \ {i}
        /\ sandbox' = [sandbox EXCEPT ![i].containers = {}]
        /\ client' = [client EXCEPT ![p] = NewClient]
        /\ ImagesUnchanged /\ UNCHANGED <<nextId, used>>

-----------------------------------------------------------------------------
(* Workers and timers *)

(* _onReady: the worker gets its program. *)
OnReady(k) ==
    /\ container[k] # Blank /\ container[k].worker = "loading"
    /\ container' = [container EXCEPT ![k].worker = "running"]
    /\ SandboxesUnchanged /\ ImagesUnchanged /\ UNCHANGED <<containers, client, nextId, used>>

(* The program ends, and its worker posts the exit code. *)
ProgramExits(k) ==
    /\ container[k] # Blank /\ container[k].worker = "running"
    /\ container' = [container EXCEPT ![k].worker = "finishing"]
    /\ SandboxesUnchanged /\ ImagesUnchanged /\ UNCHANGED <<containers, client, nextId, used>>

(* _onFinished: whatever the state was, this is its exit. *)
OnFinished(k) ==
    /\ container[k] # Blank /\ container[k].worker = "finishing"
    /\ container' = [container EXCEPT ![k] =
          [@ EXCEPT !.worker = "idle", !.state = "exited", !.exit = "program",
                    !.cleanupTimer = TRUE]]
    /\ SandboxesUnchanged /\ ImagesUnchanged /\ UNCHANGED <<containers, client, nextId, used>>

(* Defect: the exit code is overwritten. *)
KilledAgain(k) == [k EXCEPT !.state = "exited", !.exit = "killed"]

(* What has not finished by itself has been killed. *)
Killed(k) ==
    IF k.state = "exited" THEN k ELSE [k EXCEPT !.state = "exited", !.exit = "killed"]

(* The timer of stop(). *)
KillTimer(k) ==
    /\ container[k] # Blank /\ container[k].killTimer
    /\ container' = [container EXCEPT ![k] =
          [CleanedUp(Killed(@)) EXCEPT !.killTimer = FALSE]]
    /\ SandboxesUnchanged /\ ImagesUnchanged /\ UNCHANGED <<containers, client, nextId, used>>

(* The timer of _onFinished. *)
CleanupTimer(k) ==
    /\ container[k] # Blank /\ container[k].cleanupTimer
    /\ container' = [container EXCEPT ![k] = [CleanedUp(@) EXCEPT !.cleanupTimer = FALSE]]
    /\ SandboxesUnchanged /\ ImagesUnchanged /\ UNCHANGED <<containers, client, nextId, used>>

(* A newer version of the site: main.ts ends the node program, and          *)
(* terminate() everything the runtime holds. Timers and downloads go on.    *)
Terminate ==
    /\ \E p \in Pods : client[p].pc # "ended"
    /\ client' = [p \in Pods |-> [NewClient EXCEPT !.pc = "ended"]]
    /\ container' = [k \in Ids |->
          IF k \in containers THEN Dropped(container[k]) ELSE container[k]]
    /\ containers' = {}
    /\ sandboxes' = {}
    /\ images' = [u \in Urls |-> NoImage]
    /\ UNCHANGED <<sandbox, image, nextId, nextImage, used>>

-----------------------------------------------------------------------------
ClientStep(p) ==
    \/ RunPodSandbox(p) \/ LetRunning(p)
    \/ \E u \in Urls : PullImage(p, u)
    \/ PullAnswered(p) \/ PullsDone(p)
    \/ \E c \in Names : CreateContainer(p, c)
    \/ StartContainer(p) \/ LetRunningReturns(p)
    \/ \E k \in Ids : StopContainer(p, k) \/ RemoveContainer(p, k)
    \/ StopPodSandbox(p) \/ LetRemove(p) \/ RemovePodSandbox(p)

Next ==
    \/ \E p \in Pods : ClientStep(p)
    \/ \E o \in Objects : FetchEnds(o)
    \/ \E u \in Urls : RemoveImage(u)
    \/ \E k \in Ids : OnReady(k) \/ ProgramExits(k) \/ OnFinished(k)
                      \/ KillTimer(k) \/ CleanupTimer(k)
    \/ Terminate

Spec == Init /\ [][Next]_vars

(* The browser settles every download and fires the interval of a pull.     *)
Fairness ==
    /\ \A o \in Objects : WF_vars(FetchEnds(o))
    /\ \A p \in Pods : WF_vars(PullAnswered(p))

FairSpec == Spec /\ Fairness

-----------------------------------------------------------------------------
(* Properties *)

(* Nothing runs that nobody could find: a worker's container is listed, and *)
(* the containers listed are those of the sandboxes, each in its own, of    *)
(* different names. So removing a pod's sandbox ends all its apps.          *)
NoOrphans ==
    /\ \A k \in Ids : container[k] # Blank /\ container[k].worker # "none" => k \in containers
    /\ containers = UNION {ContainersOf(i) : i \in sandboxes}
    /\ \A i \in sandboxes, k \in containers :
          k \in ContainersOf(i) <=> container[k].sandbox = i
    /\ \A k, l \in containers :
          container[k].sandbox = container[l].sandbox /\ container[k].name = container[l].name
              => k = l

(* Of an image one download at a time is under way, whoever asks for it     *)
(* while it is downloaded, has failed, or has been removed ("duplicate      *)
(* download" is what ImageImpl.pull asserts not to happen).                 *)
OneDownload ==
    \A o, q \in Objects :
        image[o] # Blank /\ image[q] # Blank /\ image[o].url = image[q].url
        /\ image[o].fetches > 0 /\ image[q].fetches > 0
            => o = q /\ image[o].fetches = 1

(* A container that may run is never refused for want of its image, though  *)
(* the image may have been asked for, or failed, for another pod: unless    *)
(* images were removed.                                                     *)
NeverWithoutImage ==
    used["removals"] = 0 =>
        \A k \in Ids :
            container[k] # Blank /\ container[k].exit = "refused"
                => <<sandbox[container[k].sandbox].pod, container[k].name>> \notin Runnable

(* The exit code of a container stays until it is removed: neither the      *)
(* timer of a stop that came too late nor a late message of its app takes   *)
(* it back.                                                                 *)
ExitIsFinal ==
    [][\A k \in Ids :
          container[k] # Blank /\ container[k].exit # "none" /\ container'[k] # Blank
          => container'[k].state = "exited" /\ container'[k].exit = container[k].exit]_vars

(* Who waits for an image gets an answer, though others start its download  *)
(* anew while it waits, or remove the image.                                *)
PullEnds == \A p \in Pods : client[p].polls # NoImage ~> client[p].polls = NoImage

-----------------------------------------------------------------------------
(* The runtime as one pod sees it. *)

R == INSTANCE ContainerRuntime WITH
        Containers <- Names, Nodes <- {}, NoNode <- NoId, NoPod <- NoId

SandboxesOf(p) == {i \in sandboxes : sandbox[i].pod = p}

ViewOf(p) ==
    IF SandboxesOf(p) = {} THEN R!EmptyRuntime
    ELSE LET i == CHOOSE s \in SandboxesOf(p) : TRUE
             named(c) == {k \in ContainersOf(i) : container[k].name = c}
         IN  [sandbox |-> i,
              box |-> [c \in Names |->
                  IF named(c) = {} THEN R!NoContainer
                  ELSE LET k == CHOOSE l \in named(c) : \A m \in named(c) : m <= l IN
                       [id |-> k, state |-> container[k].state,
                        stopping |-> container[k].killTimer
                                     /\ container[k].state # "exited"]]]

(* The steps ContainerRuntime has for one pod. *)
RuntimeStep(rt, new) ==
    \/ rt.sandbox = NoId /\ new = R!RunPodSandbox(rt, new.sandbox)
    \/ \E c \in Names :
        LET started == R!CreateAndStart(rt, c, new.box[c].id) IN
            \/ ~ R!Exists(rt, c) /\ new = R!CreateContainer(rt, c, new.box[c].id)
            \/ /\ rt.box[c].state = "created" /\ rt.box[c].id = new.box[c].id
               /\ new \in {started, R!Finish(started, c)}
            \/ R!Live(rt, c) /\ new = R!Finish(rt, c)
            \/ new = [rt EXCEPT !.box[c] = R!NoContainer]
    \/ \E stopped \in SUBSET {c \in Names : R!Live(rt, c)} :
          new = [rt EXCEPT !.box = [c \in Names |->
                    IF c \in stopped THEN R!StopContainer(rt, c).box[c] ELSE rt.box[c]]]
    \/ new = R!RemoveSandbox(rt, rt.sandbox)

(* Whatever the other pods do, and whenever timers fire, a pod's sandbox    *)
(* and containers only ever change by the steps ContainerRuntime gives them *)
(* (its CreateAndStart being a creation and a start here).                  *)
FollowsRuntime ==
    [][\A p \in Pods : ViewOf(p)' = ViewOf(p) \/ RuntimeStep(ViewOf(p), ViewOf(p)')]_vars
==============================================================================
