------------------------------- MODULE Cri_proofs -------------------------------
(***************************************************************************)
(* Proofs about Cri for any number of pods, names, images and ids: nothing  *)
(* runs that nobody could find, exits are final, an image is downloaded     *)
(* once at a time, no container is refused for want of its image, and what  *)
(* a pod sees of the runtime changes by the steps of ContainerRuntime.      *)
(***************************************************************************)
EXTENDS Cri, TLAPS

LEMMA Constants ==
    /\ MaxIds \in Nat /\ MaxImages \in Nat /\ MaxFailures \in Nat /\ MaxRemovals \in Nat
    /\ \A p \in Pods, c \in Names : ImageOf[<<p, c>>] \in Urls
BY CriAssumption DEF CriAssumption

USE Constants

-----------------------------------------------------------------------------
(* The invariant *)

(* The containers of an id: those that are not listed are blank. *)
Fresh ==
    /\ \A i \in sandboxes : i < nextId /\ sandbox[i] \in Sandbox
    /\ \A k \in containers : k < nextId /\ container[k] \in Container
    /\ \A k \in Ids \ containers : container[k] = Blank

(* Sandboxes and containers name each other. *)
Linked ==
    /\ \A i \in sandboxes : ContainersOf(i) \subseteq containers
    /\ \A i \in sandboxes : \A k \in ContainersOf(i) : container[k].sandbox = i
    /\ \A k \in containers : /\ container[k].sandbox \in sandboxes
                             /\ k \in ContainersOf(container[k].sandbox)
    /\ \A k, l \in containers :
          container[k].sandbox = container[l].sandbox /\ container[k].name = container[l].name
              => k = l

(* The life of a container: what has an exit code has exited and does       *)
(* nothing more, what has not been started has no worker and no timer.      *)
GoodLife(k) ==
    /\ k.exit # "none" => k.state = "exited" /\ k.worker \in {"none", "idle"}
    /\ k.state = "created" => k.worker = "none" /\ ~ k.killTimer /\ k.exit = "none"

Lives == \A k \in containers : GoodLife(container[k])

(* A reconcile works on the sandbox of its own pod; the container it starts *)
(* is one it has made.                                                      *)
OwnSandbox ==
    \A p \in Pods :
        /\ client[p].sandbox # NoId =>
              client[p].sandbox \in sandboxes /\ sandbox[client[p].sandbox].pod = p
        /\ client[p].pc \in {"pull", "make", "start", "remove"} => client[p].sandbox # NoId
        /\ client[p].pc = "start" =>
              /\ client[p].made \in ContainersOf(client[p].sandbox)
              /\ container[client[p].made].state = "created"

BoxInv == Fresh /\ Linked /\ Lives /\ OwnSandbox

(* The end of the node program is the end of all its reconciles. *)
EndTogether == \A p, q \in Pods : client[p].pc = "ended" => client[q].pc = "ended"

AllEnded == \A p \in Pods : client[p].pc = "ended"

Downloads(o) == image[o] # Blank /\ image[o].state = "downloading"

(* A listed image is the object of its url; one that is being downloaded is *)
(* listed as long as the program runs, by a single download.                *)
ImageInv ==
    /\ \A u \in Urls : images[u] # NoImage =>
          image[images[u]] \in Image /\ image[images[u]].url = u
    /\ \A o \in Objects : image[o] # Blank => o < nextImage /\ image[o] \in Image
    /\ \A o \in Objects : image[o] # Blank =>
          /\ image[o].state = "downloading" => image[o].fetches = 1
          /\ image[o].state # "downloading" => image[o].fetches = 0
          /\ image[o].state = "downloading" => AllEnded \/ images[image[o].url] = o
    /\ \A o, q \in Objects :
          Downloads(o) /\ Downloads(q) /\ image[o].url = image[q].url => o = q
    /\ \A p \in Pods : client[p].polls # NoImage =>
          image[client[p].polls] \in Image /\ client[p].pc = "pull"
    /\ EndTogether

Here(u) == images[u] # NoImage /\ image[images[u]].state = "downloaded"

(* While no image is removed, what a reconcile has still to make has an     *)
(* image that is there or that it waits for.                                *)
Supplied(p) ==
    /\ client[p].polls # NoImage => images[image[client[p].polls].url] = client[p].polls
    /\ client[p].pc = "pull" =>
          \A c \in client[p].todo : ImageOf[<<p, c>>] \in client[p].need \/ Here(ImageOf[<<p, c>>])
    /\ client[p].pc \in {"make", "start"} => \A c \in client[p].todo : Here(ImageOf[<<p, c>>])
    /\ client[p].pc = "start" =>
          LET o == container[client[p].made].image IN
              image[o] \in Image /\ image[o].state = "downloaded"

SupplyInv == used["removals"] = 0 => \A p \in Pods : Supplied(p)

IInv == TypeOK /\ BoxInv /\ ImageInv /\ SupplyInv /\ NeverWithoutImage

LEMMA ContainersNotBlank == \A r \in Container : r # Blank
<1> SUFFICES ASSUME NEW r \in Container PROVE r # Blank
  OBVIOUS
<1>1. "state" \in DOMAIN r
  BY DEF Container
<1>2. "state" \notin DOMAIN Blank
  BY DEF Blank
<1> QED
  BY <1>1, <1>2

LEMMA ImagesNotBlank == \A r \in Image : r # Blank
<1> SUFFICES ASSUME NEW r \in Image PROVE r # Blank
  OBVIOUS
<1>1. "state" \in DOMAIN r
  BY DEF Image
<1>2. "state" \notin DOMAIN Blank
  BY DEF Blank
<1> QED
  BY <1>1, <1>2

-----------------------------------------------------------------------------
(* What a step that makes no sandbox and no container, and removes none,    *)
(* must see to.                                                             *)
LEMMA BoxFrame ==
    ASSUME IInv, UNCHANGED <<sandboxes, sandbox, containers, nextId>>,
           \A k \in containers : /\ container'[k] \in Container /\ GoodLife(container'[k])
                                 /\ container'[k].sandbox = container[k].sandbox
                                 /\ container'[k].name = container[k].name,
           \A k \in Ids \ containers : container'[k] = Blank,
           \A p \in Pods :
               /\ client'[p].sandbox = client[p].sandbox
               /\ client'[p].pc \in {"pull", "make", "remove"} => client[p].sandbox # NoId
               /\ client'[p].pc = "start" =>
                     client'[p] = client[p] /\ container'[client[p].made].state = "created"
    PROVE  BoxInv'
<1> USE DEF IInv, BoxInv
<1>1. Fresh'
  BY DEF Fresh
<1>2. Linked'
  <2>1. \A i \in sandboxes : ContainersOf(i)' = ContainersOf(i) /\ ContainersOf(i) \subseteq containers
    BY DEF Linked, ContainersOf
  <2> QED
    BY <2>1 DEF Linked
<1>3. Lives'
  BY DEF Lives
<1>4. OwnSandbox'
  BY DEF OwnSandbox, ContainersOf
<1> QED
  BY <1>1, <1>2, <1>3, <1>4

(* Steps that change no container. *)
LEMMA BoxesKept ==
    ASSUME IInv, SandboxesUnchanged, ContainersUnchanged, UNCHANGED nextId,
           \A p \in Pods :
               /\ client'[p].sandbox = client[p].sandbox
               /\ client'[p].pc \in {"pull", "make", "remove"} => client[p].sandbox # NoId
               /\ client'[p].pc = "start" => client'[p] = client[p]
    PROVE  BoxInv'
<1>1. \A k \in containers : container[k] \in Container /\ GoodLife(container[k])
  BY DEF IInv, BoxInv, Fresh, Lives
<1>2. \A k \in Ids \ containers : container[k] = Blank
  BY DEF IInv, BoxInv, Fresh
<1>3. \A p \in Pods : client'[p].pc = "start" => container[client[p].made].state = "created"
  BY DEF IInv, BoxInv, OwnSandbox
<1> QED
  BY <1>1, <1>2, <1>3, BoxFrame DEF SandboxesUnchanged, ContainersUnchanged

(* Steps that change one container and no reconcile. *)
LEMMA OneChanged ==
    ASSUME IInv, SandboxesUnchanged, UNCHANGED <<containers, client, nextId>>,
           NEW k \in containers, NEW r \in Container, GoodLife(r),
           container' = [container EXCEPT ![k] = r],
           r.sandbox = container[k].sandbox, r.name = container[k].name,
           container[k].state = "created" => r.state = "created"
    PROVE  BoxInv'
<1> USE DEF IInv, BoxInv, TypeOK
<1>1. \A l \in containers : /\ container'[l] \in Container /\ GoodLife(container'[l])
                            /\ container'[l].sandbox = container[l].sandbox
                            /\ container'[l].name = container[l].name
                            /\ container[l].state = "created" => container'[l].state = "created"
  BY DEF Fresh, Lives
<1>2. \A l \in Ids \ containers : container'[l] = Blank
  BY DEF Fresh
<1>3. \A p \in Pods : client[p].pc = "start" =>
          client[p].made \in containers /\ container[client[p].made].state = "created"
  BY DEF OwnSandbox, Linked
<1>4. \A p \in Pods : client[p].pc \in {"pull", "make", "remove"} => client[p].sandbox # NoId
  BY DEF OwnSandbox
<1> QED
  BY <1>1, <1>2, <1>3, <1>4, BoxFrame DEF SandboxesUnchanged

(* Steps that leave the images alone, though they may end waiting for one.  *)
LEMMA ImagesKept ==
    ASSUME IInv, ImagesUnchanged,
           \A p \in Pods : /\ client'[p].polls \in {client[p].polls, NoImage}
                           /\ client'[p].polls # NoImage => client'[p].pc = "pull"
                           /\ client'[p].pc = "ended" <=> client[p].pc = "ended"
    PROVE  ImageInv'
BY DEF IInv, ImageInv, ImagesUnchanged, EndTogether, AllEnded, Downloads

(* Steps of one reconcile that leave the images alone: its own is looked at. *)
LEMMA SupplyKept ==
    ASSUME IInv, ImagesUnchanged, UNCHANGED used,
           \A k \in containers : container'[k] # Blank => container'[k].image = container[k].image,
           \A p \in Pods : client'[p].pc = "start" /\ client'[p] = client[p] =>
               container'[client[p].made] # Blank,
           \A p \in Pods : client'[p] = client[p] \/ Supplied(p)'
    PROVE  SupplyInv'
<1> SUFFICES ASSUME used["removals"] = 0, NEW p \in Pods, client'[p] = client[p]
             PROVE  Supplied(p)'
  BY DEF SupplyInv
<1>1. Supplied(p)
  BY DEF IInv, SupplyInv
<1>2. client[p].pc = "start" => container'[client[p].made].image = container[client[p].made].image
  <2>1. client[p].pc = "start" => client[p].made \in containers
    BY DEF IInv, BoxInv, OwnSandbox, Linked
  <2> QED
    BY <2>1
<1> QED
  BY <1>1, <1>2 DEF Supplied, Here, ImagesUnchanged

(* Steps that refuse no container. *)
LEMMA NoneRefused ==
    ASSUME IInv, used'["removals"] = 0 => used["removals"] = 0,
           \A k \in Ids : container'[k] # Blank /\ container'[k].exit = "refused" =>
               /\ k \in containers /\ container[k].exit = "refused"
               /\ container'[k].sandbox = container[k].sandbox
               /\ container'[k].name = container[k].name,
           \A i \in sandboxes : sandbox'[i].pod = sandbox[i].pod
    PROVE  NeverWithoutImage'
<1> SUFFICES ASSUME used["removals"] = 0, NEW k \in Ids, container'[k] # Blank,
                    container'[k].exit = "refused"
             PROVE  <<sandbox'[container'[k].sandbox].pod, container'[k].name>> \notin Runnable
  BY DEF NeverWithoutImage
<1>1. k \in containers /\ container[k] \in Container /\ container[k].sandbox \in sandboxes
  BY DEF IInv, BoxInv, Fresh, Linked
<1>2. container[k] # Blank
  BY <1>1, ContainersNotBlank
<1> QED
  BY <1>1, <1>2 DEF IInv, NeverWithoutImage

-----------------------------------------------------------------------------
(* Steps of a reconcile that change nothing but itself. *)
LEMMA ClientKeeps ==
    ASSUME IInv, NEW p \in Pods, NEW c \in Client, client' = [client EXCEPT ![p] = c],
           SandboxesUnchanged, ContainersUnchanged, ImagesUnchanged, UNCHANGED <<nextId, used>>,
           c.sandbox = client[p].sandbox, client[p].pc # "ended",
           c.pc \in {"idle", "pull", "make", "remove"}, c.pc # "idle" => c.sandbox # NoId,
           c.polls \in {client[p].polls, NoImage}, c.polls # NoImage => c.pc = "pull",
           used["removals"] = 0 => Supplied(p)'
    PROVE  IInv'
<1>1. TypeOK'
  BY DEF IInv, TypeOK, SandboxesUnchanged, ContainersUnchanged, ImagesUnchanged
<1>2. client'[p] = c /\ \A q \in Pods : q # p => client'[q] = client[q]
  BY DEF IInv, TypeOK
<1>3. BoxInv'
  <2>1. \A q \in Pods : client[q].pc \in {"pull", "make", "remove"} => client[q].sandbox # NoId
    BY DEF IInv, BoxInv, OwnSandbox
  <2> QED
    BY <1>2, <2>1, BoxesKept
<1>4. ImageInv'
  BY <1>2, ImagesKept DEF IInv, ImageInv
<1>5. SupplyInv'
  <2>1. \A k \in containers : container'[k] # Blank => container'[k].image = container[k].image
    BY DEF ContainersUnchanged
  <2>2. \A q \in Pods : client[q].pc = "start" => container[client[q].made] # Blank
    BY ContainersNotBlank DEF IInv, BoxInv, OwnSandbox, Linked, Fresh
  <2>3. \A q \in Pods : client'[q].pc = "start" /\ client'[q] = client[q] =>
            container'[client[q].made] # Blank
    BY <2>2 DEF ContainersUnchanged
  <2>4. CASE used["removals"] # 0
    BY <2>4 DEF SupplyInv
  <2>5. CASE used["removals"] = 0
    BY <1>2, <2>1, <2>3, <2>5, SupplyKept
  <2> QED
    BY <2>4, <2>5
<1>6. NeverWithoutImage'
  BY NoneRefused DEF SandboxesUnchanged, ContainersUnchanged, IInv, BoxInv, Fresh
<1> QED
  BY <1>1, <1>3, <1>4, <1>5, <1>6 DEF IInv

(* The images of what is missing are there, or asked for. *)
LEMMA LetRunningKeeps ==
    ASSUME IInv, NEW p \in Pods, LetRunning(p)
    PROVE  IInv'
<1> DEFINE missing == Names \ NamesIn(client[p].sandbox)
           need == {ImageOf[<<p, n>>] : n \in missing} \ Listed
           c == [client[p] EXCEPT !.pc = "pull", !.todo = missing, !.need = need]
<1>1. client[p] \in Client /\ client[p].pc = "idle"
  BY DEF LetRunning, IInv, TypeOK
<1>2. need \subseteq Urls /\ missing \subseteq Names
  OBVIOUS
<1>3. /\ c \in Client /\ c.pc = "pull" /\ c.todo = missing /\ c.need = need
      /\ c.sandbox = client[p].sandbox /\ c.polls = client[p].polls
  BY <1>1, <1>2 DEF Client
<1>4. client' = [client EXCEPT ![p] = c]
  BY DEF LetRunning
<1>5. c.sandbox # NoId
  BY <1>3 DEF LetRunning, IInv, TypeOK, NoId, Ids
<1>6. \A n \in missing : ImageOf[<<p, n>>] \in need \/ Here(ImageOf[<<p, n>>])
  BY DEF Listed, Here
<1> HIDE DEF c, need, missing
<1>7. used["removals"] = 0 => Supplied(p)'
  <2>1. client'[p] = c
    BY <1>4 DEF IInv, TypeOK
  <2> QED
    BY <1>3, <1>6, <2>1 DEF Supplied, Here, LetRunning, ImagesUnchanged, IInv, SupplyInv
<1> QED
  BY <1>1, <1>3, <1>4, <1>5, <1>7, ClientKeeps DEF LetRunning

LEMMA PullsDoneKeeps ==
    ASSUME IInv, NEW p \in Pods, PullsDone(p)
    PROVE  IInv'
<1> DEFINE c == [client[p] EXCEPT !.pc = "make"]
<1>1. /\ client[p] \in Client /\ client[p].pc = "pull" /\ client[p].polls = NoImage
      /\ client[p].need = {}
  BY DEF PullsDone, IInv, TypeOK
<1>2. /\ c \in Client /\ c.pc = "make" /\ c.todo = client[p].todo
      /\ c.sandbox = client[p].sandbox /\ c.polls = NoImage
  BY <1>1 DEF Client
<1>3. client' = [client EXCEPT ![p] = c]
  BY DEF PullsDone
<1>4. c.sandbox # NoId
  BY <1>1, <1>2 DEF IInv, BoxInv, OwnSandbox
<1> HIDE DEF c
<1>5. used["removals"] = 0 => Supplied(p)'
  <2>1. client'[p] = c
    BY <1>3 DEF IInv, TypeOK
  <2> QED
    BY <1>1, <1>2, <2>1 DEF Supplied, Here, PullsDone, ImagesUnchanged, IInv, SupplyInv
<1> QED
  BY <1>1, <1>2, <1>3, <1>4, <1>5, ClientKeeps DEF PullsDone

(* A reconcile that returns keeps nothing but its sandbox. *)
LEMMA ReturnsKeeps ==
    ASSUME IInv, NEW p \in Pods, client' = [client EXCEPT ![p] = Returned(@)],
           SandboxesUnchanged, ContainersUnchanged, ImagesUnchanged, UNCHANGED <<nextId, used>>,
           client[p].pc # "ended"
    PROVE  IInv'
<1> DEFINE c == Returned(client[p])
<1>1. /\ c \in Client /\ c.pc = "idle" /\ c.sandbox = client[p].sandbox /\ c.polls = NoImage
  BY DEF IInv, TypeOK, Client, Returned, NewClient
<1> HIDE DEF c
<1>2. client' = [client EXCEPT ![p] = c]
  BY DEF c
<1>3. used["removals"] = 0 => Supplied(p)'
  BY <1>1, <1>2 DEF Supplied, IInv, TypeOK
<1> QED
  BY <1>1, <1>2, <1>3, ClientKeeps

(* The object of a url that is waited for is the one listed. *)
LEMMA PullAnsweredKeeps ==
    ASSUME IInv, NEW p \in Pods, PullAnswered(p)
    PROVE  IInv'
<1> DEFINE o == client[p].polls
           c == [client[p] EXCEPT !.polls = NoImage, !.need = @ \ {image[o].url}]
<1>1. /\ client[p] \in Client /\ client[p].pc = "pull" /\ image[o] \in Image
      /\ client[p].sandbox # NoId
  BY DEF PullAnswered, IInv, TypeOK, ImageInv, BoxInv, OwnSandbox
<1>2. CASE HasFailed(o)
  BY <1>1, <1>2, ReturnsKeeps DEF PullAnswered
<1>3. CASE ~ HasFailed(o)
  <2>1. client' = [client EXCEPT ![p] = c]
    BY <1>3 DEF PullAnswered, HasFailed
  <2>2. image[o].state = "downloaded"
    BY <1>1, <1>3 DEF PullAnswered, HasFailed, Image
  <2>3. /\ c \in Client /\ c.pc = "pull" /\ c.polls = NoImage /\ c.todo = client[p].todo
        /\ c.sandbox = client[p].sandbox /\ c.need = client[p].need \ {image[o].url}
    BY <1>1 DEF Client
  <2> HIDE DEF c
  <2>4. used["removals"] = 0 => Supplied(p)'
    <3>1. client'[p] = c
      BY <2>1 DEF IInv, TypeOK
    <3>2. used["removals"] = 0 => Here(image[o].url)
      BY <2>2 DEF Here, IInv, SupplyInv, Supplied, PullAnswered
    <3>3. used["removals"] = 0 => \A n \in c.todo : ImageOf[<<p, n>>] \in c.need \/ Here(ImageOf[<<p, n>>])
      BY <1>1, <2>3, <3>2 DEF IInv, SupplyInv, Supplied
    <3> QED
      BY <2>3, <3>1, <3>3 DEF Supplied, Here, PullAnswered, ImagesUnchanged
  <2> QED
    BY <1>1, <2>1, <2>3, <2>4, ClientKeeps DEF PullAnswered
<1> QED
  BY <1>2, <1>3

LEMMA LetRunningReturnsKeeps ==
    ASSUME IInv, NEW p \in Pods, LetRunningReturns(p)
    PROVE  IInv'
BY ReturnsKeeps DEF LetRunningReturns

LEMMA LetRemoveKeeps ==
    ASSUME IInv, NEW p \in Pods, LetRemove(p)
    PROVE  IInv'
<1> DEFINE c == [client[p] EXCEPT !.pc = "remove"]
<1>1. client[p] \in Client /\ client[p].pc = "idle" /\ client[p].polls = NoImage
  BY DEF LetRemove, IInv, TypeOK, ImageInv
<1>2. /\ c \in Client /\ c.pc = "remove" /\ c.sandbox = client[p].sandbox /\ c.polls = NoImage
  BY <1>1 DEF Client
<1>3. client' = [client EXCEPT ![p] = c]
  BY DEF LetRemove
<1>4. c.sandbox # NoId
  BY <1>2 DEF LetRemove, IInv, TypeOK, NoId, Ids
<1> HIDE DEF c
<1>5. used["removals"] = 0 => Supplied(p)'
  BY <1>2, <1>3 DEF Supplied, IInv, TypeOK
<1> QED
  BY <1>1, <1>2, <1>3, <1>4, <1>5, ClientKeeps DEF LetRemove


-----------------------------------------------------------------------------
(* Steps that change images. *)
LEMMA NextImageBlank ==
    ASSUME IInv, nextImage \in Objects
    PROVE  image[nextImage] = Blank
BY DEF IInv, ImageInv, TypeOK

(* Nothing that is there goes, and no listed image is replaced. *)
LEMMA SupplyGrows ==
    ASSUME IInv, UNCHANGED container, used'["removals"] = 0 => used["removals"] = 0,
           \A o \in Objects : image[o] \in Image =>
               /\ image'[o] \in Image /\ image'[o].url = image[o].url
               /\ image[o].state = "downloaded" => image'[o].state = "downloaded",
           \A u \in Urls : images[u] # NoImage => images'[u] = images[u],
           \A p \in Pods : client'[p] = client[p] \/ Supplied(p)'
    PROVE  SupplyInv'
<1> SUFFICES ASSUME used["removals"] = 0, NEW p \in Pods, client'[p] = client[p]
             PROVE  Supplied(p)'
  BY DEF SupplyInv
<1>1. Supplied(p) /\ client[p] \in Client
  BY DEF IInv, SupplyInv, TypeOK
<1>2. \A u \in Urls : Here(u) => Here(u)'
  BY DEF Here, IInv, ImageInv, TypeOK
<1>3. client[p].pc = "start" => container[client[p].made].image \in Objects
  BY DEF IInv, BoxInv, OwnSandbox, Linked, Fresh, Container
<1>4. client[p].polls # NoImage => client[p].polls \in Objects /\ image[client[p].polls] \in Image
  BY <1>1 DEF IInv, ImageInv, Client
<1>5. \A n \in client[p].todo : ImageOf[<<p, n>>] \in Urls
  BY <1>1 DEF Client
<1>6. (client[p].polls # NoImage => images[image[client[p].polls].url] = client[p].polls)'
  BY <1>1, <1>4 DEF Supplied, Image
<1> QED
  BY <1>1, <1>2, <1>3, <1>5, <1>6 DEF Supplied

LEMMA ImageStepsKeepBoxes ==
    ASSUME IInv, NEW p \in Pods, NEW c \in Client, client' = [client EXCEPT ![p] = c],
           c.pc = client[p].pc, c.pc = "pull", c.sandbox = client[p].sandbox,
           SandboxesUnchanged, ContainersUnchanged, UNCHANGED <<nextId, used>>
    PROVE  BoxInv' /\ NeverWithoutImage'
<1>1. client'[p] = c /\ \A q \in Pods : q # p => client'[q] = client[q]
  BY DEF IInv, TypeOK
<1>2. \A q \in Pods : client[q].pc \in {"pull", "make", "remove"} => client[q].sandbox # NoId
  BY DEF IInv, BoxInv, OwnSandbox
<1>3. BoxInv'
  BY <1>1, <1>2, BoxesKept
<1>4. NeverWithoutImage'
  BY NoneRefused DEF SandboxesUnchanged, ContainersUnchanged, IInv, BoxInv, Fresh
<1> QED
  BY <1>3, <1>4

(* A pull lists a new image, or downloads a failed one anew, or waits, or   *)
(* is answered.                                                             *)
LEMMA PullImageKeeps ==
    ASSUME IInv, NEW p \in Pods, NEW u \in Urls, PullImage(p, u)
    PROVE  IInv'
<1> DEFINE o == images[u]
<1>1. /\ client[p] \in Client /\ client[p].pc = "pull" /\ client[p].polls = NoImage
      /\ client[p].sandbox # NoId /\ ~ AllEnded
  BY DEF PullImage, IInv, TypeOK, BoxInv, OwnSandbox, AllEnded
<1>2. CASE o = NoImage
  <2> DEFINE c == [client[p] EXCEPT !.polls = nextImage]
  <2>1. /\ nextImage \in Objects /\ images' = [images EXCEPT ![u] = nextImage]
        /\ image' = [image EXCEPT ![nextImage] = Downloading(u)]
        /\ nextImage' = nextImage + 1 /\ client' = [client EXCEPT ![p] = c]
        /\ SandboxesUnchanged /\ ContainersUnchanged /\ UNCHANGED <<nextId, used>>
    BY <1>2 DEF PullImage
  <2>2. /\ c \in Client /\ c.pc = "pull" /\ c.polls = nextImage /\ c.todo = client[p].todo
        /\ c.sandbox = client[p].sandbox /\ c.need = client[p].need
    BY <1>1, <2>1 DEF Client
  <2> HIDE DEF c
  <2>3. client'[p] = c /\ \A q \in Pods : q # p => client'[q] = client[q]
    BY <2>1 DEF IInv, TypeOK
  <2>4. /\ Downloading(u) \in Image /\ Downloading(u).url = u
        /\ Downloading(u).state = "downloading" /\ Downloading(u).fetches = 1
    BY DEF Downloading, Image
  <2>5. image[nextImage] = Blank /\ Blank \notin Image /\ nextImage # NoImage
    BY <2>1, NextImageBlank, ImagesNotBlank DEF NoImage, Objects
  <2>6. /\ image'[nextImage] = Downloading(u)
        /\ \A q \in Objects : q # nextImage => image'[q] = image[q]
        /\ images'[u] = nextImage /\ \A v \in Urls : v # u => images'[v] = images[v]
    BY <2>1 DEF IInv, TypeOK
  <2>7. TypeOK'
    BY <2>1, <2>2, <2>4 DEF IInv, TypeOK, SandboxesUnchanged, ContainersUnchanged
  <2>8. ImageInv'
    <3>1. \A v \in Urls : images'[v] # NoImage =>
              image'[images'[v]] \in Image /\ image'[images'[v]].url = v
      BY <2>4, <2>5, <2>6 DEF IInv, ImageInv, TypeOK
    <3>2. \A q \in Objects : image'[q] # Blank =>
              /\ q < nextImage' /\ image'[q] \in Image
              /\ image'[q].state = "downloading" => image'[q].fetches = 1
              /\ image'[q].state # "downloading" => image'[q].fetches = 0
      BY <2>1, <2>4, <2>6 DEF IInv, ImageInv, TypeOK, Objects
    <3>3. \A q \in Objects : image'[q] # Blank /\ image'[q].state = "downloading" =>
              images'[image'[q].url] = q
      <4> SUFFICES ASSUME NEW q \in Objects, image'[q] # Blank,
                          image'[q].state = "downloading", q # nextImage
                   PROVE  images'[image'[q].url] = q
        BY <2>4, <2>6
      <4>1. images[image[q].url] = q /\ image[q].url \in Urls /\ q # NoImage
        BY <1>1, <2>6 DEF IInv, ImageInv, Image, Objects, NoImage
      <4> QED
        BY <1>2, <2>6, <4>1
    <3>4. \A q \in Pods : client'[q].polls # NoImage =>
              image'[client'[q].polls] \in Image /\ client'[q].pc = "pull"
      BY <2>2, <2>3, <2>4, <2>5, <2>6 DEF IInv, ImageInv, TypeOK, Client
    <3>5. EndTogether'
      BY <1>1, <2>2, <2>3 DEF IInv, ImageInv, EndTogether
    <3>6. \A q \in Objects : Downloads(q)' => images'[image'[q].url] = q
      BY <3>3 DEF Downloads
    <3> QED
      BY <3>1, <3>2, <3>3, <3>4, <3>5, <3>6 DEF ImageInv
  <2>9. SupplyInv'
    <3>1. \A q \in Objects : image[q] \in Image => image'[q] = image[q]
      BY <2>5, <2>6
    <3>2. \A v \in Urls : images[v] # NoImage => images'[v] = images[v]
      BY <1>2, <2>6
    <3>3. ASSUME used["removals"] = 0, NEW n \in client[p].todo
          PROVE  ImageOf[<<p, n>>] \in c.need \/ Here(ImageOf[<<p, n>>])'
      <4>1. ImageOf[<<p, n>>] \in client[p].need \/ Here(ImageOf[<<p, n>>])
        BY <1>1, <3>3 DEF IInv, SupplyInv, Supplied
      <4>2. ImageOf[<<p, n>>] \in Urls
        BY <1>1 DEF Client
      <4> QED
        BY <2>2, <3>1, <3>2, <4>1, <4>2 DEF Here, IInv, ImageInv, TypeOK
    <3>4. used["removals"] = 0 => Supplied(p)'
      BY <2>2, <2>3, <2>4, <2>6, <3>3 DEF Supplied
    <3>5. CASE used["removals"] = 0
      BY <2>1, <2>3, <3>1, <3>2, <3>4, <3>5, SupplyGrows DEF ContainersUnchanged
    <3>6. CASE used["removals"] # 0
      BY <2>1, <3>6 DEF SupplyInv
    <3> QED
      BY <3>5, <3>6
  <2> QED
    BY <1>1, <2>1, <2>2, <2>7, <2>8, <2>9, ImageStepsKeepBoxes DEF IInv
<1>3. CASE o # NoImage
  <2> DEFINE c == IF image[o].state = "downloaded"
                  THEN [client[p] EXCEPT !.need = client[p].need \ {u}]
                  ELSE [client[p] EXCEPT !.polls = o]
  <2>1. /\ image' = IF HasFailed(o) THEN Pulled(o) ELSE image
        /\ client' = [client EXCEPT ![p] = c]
        /\ UNCHANGED <<images, nextImage, nextId, used>>
        /\ SandboxesUnchanged /\ ContainersUnchanged
    BY <1>3 DEF PullImage
  <2>2. o \in Objects /\ image[o] \in Image /\ image[o].url = u /\ image[o] # Blank
    BY <1>3, ImagesNotBlank DEF IInv, ImageInv, TypeOK
  <2>3. /\ c \in Client /\ c.pc = "pull" /\ c.todo = client[p].todo
        /\ c.sandbox = client[p].sandbox
        /\ \/ image[o].state = "downloaded" /\ c.polls = NoImage /\ c.need = client[p].need \ {u}
           \/ image[o].state # "downloaded" /\ c.polls = o /\ c.need = client[p].need
    BY <1>1, <2>2 DEF Client
  <2> HIDE DEF c
  <2>4. client'[p] = c /\ \A q \in Pods : q # p => client'[q] = client[q]
    BY <2>1 DEF IInv, TypeOK
  <2>5. \A q \in Objects : q # o => image'[q] = image[q]
    BY <2>1 DEF Pulled, IInv, TypeOK
  <2>6. \/ image'[o] = image[o]
        \/ /\ image[o].state = "error" /\ image[o].fetches = 0
           /\ image'[o] \in Image /\ image'[o].url = u /\ image'[o].state = "downloading"
           /\ image'[o].fetches = 1
    <3>1. CASE HasFailed(o)
      <4> DEFINE a == [image[o] EXCEPT !.state = "downloading"]
                 b == [a EXCEPT !.fetches = @ + 1]
      <4>1. a \in Image /\ a.url = u /\ a.state = "downloading" /\ a.fetches = image[o].fetches
        BY <2>2 DEF Image
      <4>2. image[o].state = "error" /\ image[o].fetches = 0
        BY <2>2, <3>1 DEF HasFailed, IInv, ImageInv
      <4>3. image'[o] = b
        BY <2>1, <2>2, <3>1 DEF Pulled, IInv, TypeOK
      <4> HIDE DEF a
      <4>4. b \in Image /\ b.url = u /\ b.state = "downloading" /\ b.fetches = 1
        BY <4>1, <4>2 DEF Image
      <4> QED
        BY <4>2, <4>3, <4>4
    <3>2. CASE ~ HasFailed(o)
      BY <2>1, <3>2
    <3> QED
      BY <3>1, <3>2
  <2>7. TypeOK'
    <3>1. image' \in [Objects -> Image \cup {Blank}]
      <4>1. DOMAIN image' = Objects /\ image' = [q \in Objects |-> image'[q]]
        BY <2>1 DEF Pulled, IInv, TypeOK
      <4>2. \A q \in Objects : image'[q] \in Image \cup {Blank}
        BY <2>2, <2>5, <2>6 DEF IInv, TypeOK
      <4> QED
        BY <4>1, <4>2
    <3> QED
      BY <2>1, <2>3, <3>1 DEF IInv, TypeOK, SandboxesUnchanged, ContainersUnchanged
  <2>8. ImageInv'
    <3>1. \A v \in Urls : images[v] # NoImage =>
              image'[images[v]] \in Image /\ image'[images[v]].url = v
      BY <2>2, <2>5, <2>6 DEF IInv, ImageInv, TypeOK
    <3>2. \A q \in Objects : image'[q] # Blank =>
              /\ q < nextImage /\ image'[q] \in Image
              /\ image'[q].state = "downloading" => image'[q].fetches = 1
              /\ image'[q].state # "downloading" => image'[q].fetches = 0
              /\ image'[q].state = "downloading" => images[image'[q].url] = q
      BY <1>1, <2>2, <2>5, <2>6 DEF IInv, ImageInv
    <3>3. \A q \in Pods : client'[q].polls # NoImage =>
              image'[client'[q].polls] \in Image /\ client'[q].pc = "pull"
      BY <2>2, <2>3, <2>4, <2>5, <2>6 DEF IInv, ImageInv, TypeOK, Client
    <3>4. EndTogether'
      BY <1>1, <2>3, <2>4 DEF IInv, ImageInv, EndTogether
    <3>5. \A q \in Objects : Downloads(q)' => images'[image'[q].url] = q
      BY <2>1, <3>2 DEF Downloads
    <3> QED
      BY <2>1, <3>1, <3>2, <3>3, <3>4, <3>5 DEF ImageInv
  <2>9. SupplyInv'
    <3>1. \A q \in Objects : image[q] \in Image =>
              /\ image'[q] \in Image /\ image'[q].url = image[q].url
              /\ image[q].state = "downloaded" => image'[q].state = "downloaded"
      BY <2>2, <2>5, <2>6
    <3>2. ASSUME used["removals"] = 0, NEW n \in client[p].todo
          PROVE  ImageOf[<<p, n>>] \in c.need \/ Here(ImageOf[<<p, n>>])'
      <4>1. ImageOf[<<p, n>>] \in client[p].need \/ Here(ImageOf[<<p, n>>])
        BY <1>1, <3>2 DEF IInv, SupplyInv, Supplied
      <4>2. ImageOf[<<p, n>>] \in Urls
        BY <1>1 DEF Client
      <4>3. ImageOf[<<p, n>>] \in c.need \/ Here(ImageOf[<<p, n>>])
        BY <1>3, <2>3, <4>1 DEF Here
      <4> QED
        BY <2>1, <3>1, <4>2, <4>3 DEF Here, IInv, ImageInv, TypeOK
    <3>3. c.polls # NoImage => images'[image'[c.polls].url] = c.polls
      BY <2>1, <2>2, <2>3, <3>1
    <3>4. used["removals"] = 0 => Supplied(p)'
      BY <2>3, <2>4, <3>2, <3>3 DEF Supplied
    <3>5. CASE used["removals"] = 0
      BY <2>1, <2>4, <3>1, <3>4, <3>5, SupplyGrows DEF ContainersUnchanged
    <3>6. CASE used["removals"] # 0
      BY <2>1, <3>6 DEF SupplyInv
    <3> QED
      BY <3>5, <3>6
  <2> QED
    BY <1>1, <2>1, <2>3, <2>7, <2>8, <2>9, ImageStepsKeepBoxes DEF IInv
<1> QED
  BY <1>2, <1>3


(* A fetch settles: the object's only one. *)
LEMMA FetchEndsKeeps ==
    ASSUME IInv, NEW o \in Objects, FetchEnds(o)
    PROVE  IInv'
<1> USE DEF FetchEnds
<1>1. /\ image[o] \in Image /\ image[o].state = "downloading" /\ image[o].fetches = 1
      /\ image[o] # Blank
  BY DEF IInv, ImageInv
<1>2. /\ image'[o] \in Image /\ image'[o].url = image[o].url
      /\ image'[o].state \in {"downloaded", "error"} /\ image'[o].fetches = 0
  <2>1. PICK s \in {"downloaded", "error"} :
            image' = [image EXCEPT ![o].state = s, ![o].fetches = @ - 1]
    OBVIOUS
  <2> DEFINE a == [image[o] EXCEPT !.state = s]
             b == [a EXCEPT !.fetches = @ - 1]
  <2>2. a \in Image /\ a.url = image[o].url /\ a.state = s /\ a.fetches = 1
    BY <1>1 DEF Image
  <2>3. image'[o] = b
    BY <1>1, <2>1 DEF IInv, TypeOK
  <2> HIDE DEF a
  <2>4. b \in Image /\ b.url = image[o].url /\ b.state = s /\ b.fetches = 0
    BY <2>2 DEF Image
  <2> QED
    BY <2>3, <2>4
<1>3. \A q \in Objects : q # o => image'[q] = image[q]
  BY DEF IInv, TypeOK
<1>4. used' \in [{"failures", "removals"} -> Nat] /\ used'["removals"] = used["removals"]
  BY DEF IInv, TypeOK, Spend
<1>5. TypeOK'
  <2>1. image' = [q \in Objects |-> image'[q]]
    BY DEF IInv, TypeOK
  <2>2. \A q \in Objects : image'[q] \in Image \cup {Blank}
    BY <1>2, <1>3 DEF IInv, TypeOK
  <2>3. image' \in [Objects -> Image \cup {Blank}]
    BY <2>1, <2>2
  <2> QED
    BY <1>4, <2>3 DEF IInv, TypeOK, SandboxesUnchanged, ContainersUnchanged
<1>6. BoxInv'
  BY BoxesKept DEF IInv, BoxInv, OwnSandbox
<1>7. ImageInv'
  <2>1. \A u \in Urls : images[u] # NoImage =>
            image'[images[u]] \in Image /\ image'[images[u]].url = u
    BY <1>2, <1>3 DEF IInv, ImageInv, TypeOK
  <2>2. \A q \in Objects : image'[q] # Blank =>
            /\ q < nextImage /\ image'[q] \in Image
            /\ image'[q].state = "downloading" => image'[q].fetches = 1
            /\ image'[q].state # "downloading" => image'[q].fetches = 0
            /\ image'[q].state = "downloading" => AllEnded \/ images[image'[q].url] = q
    BY <1>1, <1>2, <1>3 DEF IInv, ImageInv
  <2>3. \A p \in Pods : client[p].polls # NoImage =>
            image'[client[p].polls] \in Image /\ client[p].pc = "pull"
    BY <1>2, <1>3 DEF IInv, ImageInv, TypeOK, Client
  <2>4. \A q \in Objects : Downloads(q)' => q # o /\ Downloads(q) /\ image'[q].url = image[q].url
    BY <1>2, <1>3 DEF Downloads
  <2> QED
    BY <2>1, <2>2, <2>3, <2>4 DEF IInv, ImageInv, EndTogether, AllEnded
<1>8. SupplyInv'
  BY <1>1, <1>2, <1>3, <1>4, SupplyGrows DEF ContainersUnchanged
<1>9. NeverWithoutImage'
  BY <1>4, NoneRefused DEF SandboxesUnchanged, ContainersUnchanged, IInv, BoxInv, Fresh
<1> QED
  BY <1>5, <1>6, <1>7, <1>8, <1>9 DEF IInv

(* An image that is removed is not being downloaded. *)
LEMMA RemoveImageKeeps ==
    ASSUME IInv, NEW u \in Urls, RemoveImage(u)
    PROVE  IInv'
<1> USE DEF RemoveImage
<1>1. used' \in [{"failures", "removals"} -> Nat] /\ used'["removals"] # 0
  BY DEF IInv, TypeOK, Spend
<1>2. TypeOK'
  BY <1>1 DEF IInv, TypeOK, SandboxesUnchanged, ContainersUnchanged
<1>3. BoxInv'
  BY BoxesKept DEF IInv, BoxInv, OwnSandbox
<1>4. images'[u] = NoImage /\ \A v \in Urls : v # u => images'[v] = images[v]
  BY DEF IInv, TypeOK
<1>5. ImageInv'
  BY <1>4 DEF IInv, ImageInv, TypeOK, EndTogether, AllEnded, Image, Downloads
<1> QED
  BY <1>1, <1>2, <1>3, <1>5 DEF IInv, SupplyInv, NeverWithoutImage


-----------------------------------------------------------------------------
(* Workers and timers *)

(* What a step of one container's life must see to. *)
LEMMA WorkerKeeps ==
    ASSUME IInv, NEW k \in Ids, container[k] # Blank, NEW r \in Container, GoodLife(r),
           container' = [container EXCEPT ![k] = r],
           SandboxesUnchanged, ImagesUnchanged, UNCHANGED <<containers, client, nextId, used>>,
           r.sandbox = container[k].sandbox, r.name = container[k].name,
           r.image = container[k].image,
           r.exit = "refused" => container[k].exit = "refused",
           container[k].state = "created" => r.state = "created"
    PROVE  IInv'
<1>1. k \in containers
  BY DEF IInv, BoxInv, Fresh
<1>2. container'[k] = r /\ \A l \in Ids : l # k => container'[l] = container[l]
  BY DEF IInv, TypeOK
<1>3. TypeOK'
  BY DEF IInv, TypeOK, SandboxesUnchanged, ImagesUnchanged
<1>4. BoxInv'
  BY <1>1, OneChanged
<1>5. ImageInv'
  BY ImagesKept DEF IInv, ImageInv
<1>6. SupplyInv'
  <2>1. \A l \in containers : container'[l] # Blank /\ container'[l].image = container[l].image
    BY <1>2, ContainersNotBlank DEF IInv, BoxInv, Fresh, TypeOK
  <2>2. \A p \in Pods : client[p].pc = "start" => client[p].made \in containers
    BY DEF IInv, BoxInv, OwnSandbox, Linked
  <2> QED
    BY <2>1, <2>2, SupplyKept
<1>7. NeverWithoutImage'
  BY <1>1, <1>2, NoneRefused DEF SandboxesUnchanged, IInv, BoxInv, Fresh
<1> QED
  BY <1>3, <1>4, <1>5, <1>6, <1>7 DEF IInv

LEMMA Living ==
    ASSUME IInv, NEW k \in Ids, container[k] # Blank
    PROVE  k \in containers /\ container[k] \in Container /\ GoodLife(container[k])
BY DEF IInv, BoxInv, Fresh, Lives

LEMMA OnReadyKeeps ==
    ASSUME IInv, NEW k \in Ids, OnReady(k) \/ ProgramExits(k)
    PROVE  IInv'
<1>1. PICK w \in {"running", "finishing"} :
         container' = [container EXCEPT ![k] = [container[k] EXCEPT !.worker = w]]
  BY DEF OnReady, ProgramExits
<1> DEFINE r == [container[k] EXCEPT !.worker = w]
<1>2. /\ container[k] # Blank /\ container[k].worker \in {"loading", "running"}
      /\ SandboxesUnchanged /\ ImagesUnchanged /\ UNCHANGED <<containers, client, nextId, used>>
  BY DEF OnReady, ProgramExits
<1>3. container[k] \in Container /\ GoodLife(container[k])
  BY <1>2, Living
<1>4. /\ r \in Container /\ r.worker = w /\ r.state = container[k].state
      /\ r.exit = container[k].exit /\ r.killTimer = container[k].killTimer
      /\ r.sandbox = container[k].sandbox /\ r.name = container[k].name
      /\ r.image = container[k].image
  BY <1>3 DEF Container, Workers
<1> HIDE DEF r
<1>5. GoodLife(r)
  BY <1>2, <1>3, <1>4 DEF GoodLife
<1> QED
  BY <1>1, <1>2, <1>4, <1>5, WorkerKeeps DEF r

LEMMA OnFinishedKeeps ==
    ASSUME IInv, NEW k \in Ids, OnFinished(k)
    PROVE  IInv'
<1> DEFINE r == [container[k] EXCEPT !.worker = "idle", !.state = "exited",
                                     !.exit = "program", !.cleanupTimer = TRUE]
<1>1. container' = [container EXCEPT ![k] = r]
  BY DEF OnFinished
<1>2. container[k] \in Container /\ GoodLife(container[k]) /\ container[k].worker = "finishing"
  BY Living DEF OnFinished
<1>3. /\ r \in Container /\ r.worker = "idle" /\ r.state = "exited" /\ r.exit = "program"
      /\ r.sandbox = container[k].sandbox /\ r.name = container[k].name
      /\ r.image = container[k].image
  BY <1>2 DEF Container, Workers
<1> HIDE DEF r
<1>4. GoodLife(r) /\ container[k].state # "created"
  BY <1>2, <1>3 DEF GoodLife
<1> QED
  BY <1>1, <1>3, <1>4, WorkerKeeps DEF OnFinished

(* A kill gives an exit code only to what has none. *)
LEMMA KillTimerKeeps ==
    ASSUME IInv, NEW k \in Ids, KillTimer(k)
    PROVE  IInv'
<1> DEFINE a == Killed(container[k])
           b == CleanedUp(a)
           r == [b EXCEPT !.killTimer = FALSE]
<1>1. container' = [container EXCEPT ![k] = r]
  BY DEF KillTimer
<1>2. /\ container[k] # Blank /\ container[k] \in Container /\ GoodLife(container[k])
      /\ container[k].killTimer
  BY Living DEF KillTimer
<1>3. /\ a \in Container /\ a.state = "exited"
      /\ a.exit \in {container[k].exit, "killed"}
      /\ a.sandbox = container[k].sandbox /\ a.name = container[k].name
      /\ a.image = container[k].image
  BY <1>2 DEF Container, Killed
<1> HIDE DEF a
<1>4. /\ b \in Container /\ b.state = "exited" /\ b.exit = a.exit /\ b.worker = "none"
      /\ b.sandbox = a.sandbox /\ b.name = a.name /\ b.image = a.image
  BY <1>3 DEF CleanedUp, Container, Workers
<1> HIDE DEF b
<1>5. /\ r \in Container /\ r.state = "exited" /\ r.exit = b.exit /\ r.worker = "none"
      /\ r.sandbox = b.sandbox /\ r.name = b.name /\ r.image = b.image
  BY <1>4 DEF Container
<1> HIDE DEF r
<1>6. GoodLife(r) /\ container[k].state # "created"
  BY <1>2, <1>5 DEF GoodLife
<1>7. /\ r.sandbox = container[k].sandbox /\ r.name = container[k].name
      /\ r.image = container[k].image
      /\ r.exit = "refused" => container[k].exit = "refused"
  BY <1>3, <1>4, <1>5
<1> QED
  BY <1>1, <1>2, <1>5, <1>6, <1>7, WorkerKeeps DEF KillTimer

LEMMA CleanupTimerKeeps ==
    ASSUME IInv, NEW k \in Ids, CleanupTimer(k)
    PROVE  IInv'
<1> DEFINE b == CleanedUp(container[k])
           r == [b EXCEPT !.cleanupTimer = FALSE]
<1>1. container' = [container EXCEPT ![k] = r]
  BY DEF CleanupTimer
<1>2. container[k] # Blank /\ container[k] \in Container /\ GoodLife(container[k])
  BY Living DEF CleanupTimer
<1>3. /\ b \in Container /\ b.state = container[k].state /\ b.exit = container[k].exit
      /\ b.worker = "none" /\ b.killTimer = container[k].killTimer
      /\ b.sandbox = container[k].sandbox /\ b.name = container[k].name
      /\ b.image = container[k].image
  BY <1>2 DEF CleanedUp, Container, Workers
<1> HIDE DEF b
<1>4. /\ r \in Container /\ r.state = b.state /\ r.exit = b.exit
      /\ r.worker = "none" /\ r.killTimer = b.killTimer
      /\ r.sandbox = b.sandbox /\ r.name = b.name /\ r.image = b.image
  BY <1>3 DEF Container
<1> HIDE DEF r
<1>5. GoodLife(r)
  BY <1>2, <1>3, <1>4 DEF GoodLife
<1> QED
  BY <1>1, <1>2, <1>3, <1>4, <1>5, WorkerKeeps DEF CleanupTimer

(* Only a container with a worker gets a timer. *)
LEMMA StoppedLives ==
    ASSUME NEW k \in Container, GoodLife(k)
    PROVE  /\ Stopped(k) \in Container /\ GoodLife(Stopped(k))
           /\ Stopped(k).sandbox = k.sandbox /\ Stopped(k).name = k.name
           /\ Stopped(k).image = k.image /\ Stopped(k).exit = k.exit
           /\ Stopped(k).state = k.state
<1> DEFINE r == [k EXCEPT !.killTimer = TRUE]
<1>1. /\ r \in Container /\ r.state = k.state /\ r.exit = k.exit /\ r.worker = k.worker
      /\ r.sandbox = k.sandbox /\ r.name = k.name /\ r.image = k.image
  BY DEF Container
<1> HIDE DEF r
<1>2. k.worker # "none" => GoodLife(r)
  BY <1>1 DEF GoodLife
<1>3. Stopped(k) = IF k.worker = "none" THEN k ELSE r
  BY DEF Stopped, r
<1> QED
  BY <1>1, <1>2, <1>3

LEMMA StopContainerKeeps ==
    ASSUME IInv, NEW p \in Pods, NEW k \in Ids, StopContainer(p, k)
    PROVE  IInv'
<1>1. k \in containers
  BY DEF StopContainer, IInv, BoxInv, Linked
<1>2. container[k] \in Container /\ container[k] # Blank /\ GoodLife(container[k])
  BY <1>1, ContainersNotBlank DEF IInv, BoxInv, Fresh, Lives
<1>3. container' = [container EXCEPT ![k] = Stopped(container[k])]
  BY DEF StopContainer
<1> QED
  BY <1>2, <1>3, StoppedLives, WorkerKeeps DEF StopContainer

LEMMA StopPodSandboxKeeps ==
    ASSUME IInv, NEW p \in Pods, StopPodSandbox(p)
    PROVE  IInv'
<1> DEFINE i == client[p].sandbox
<1>1. /\ SandboxesUnchanged /\ ImagesUnchanged /\ UNCHANGED <<containers, client, nextId, used>>
      /\ container' = [k \in Ids |-> IF k \in ContainersOf(i) THEN Stopped(container[k])
                                     ELSE container[k]]
      /\ ContainersOf(i) \subseteq containers /\ containers \subseteq Ids
  BY DEF StopPodSandbox, IInv, BoxInv, Linked, TypeOK
<1>2. \A k \in containers : container[k] \in Container /\ GoodLife(container[k])
  BY DEF IInv, BoxInv, Fresh, Lives
<1>3. \A k \in containers : /\ container'[k] \in Container /\ GoodLife(container'[k])
                            /\ container'[k].sandbox = container[k].sandbox
                            /\ container'[k].name = container[k].name
                            /\ container'[k].image = container[k].image
                            /\ container'[k].exit = container[k].exit
                            /\ container'[k].state = container[k].state
  <2> SUFFICES ASSUME NEW k \in containers
               PROVE  /\ container'[k] \in Container /\ GoodLife(container'[k])
                      /\ container'[k].sandbox = container[k].sandbox
                      /\ container'[k].name = container[k].name
                      /\ container'[k].image = container[k].image
                      /\ container'[k].exit = container[k].exit
                      /\ container'[k].state = container[k].state
    OBVIOUS
  <2>1. container'[k] \in {container[k], Stopped(container[k])}
    BY <1>1
  <2> QED
    BY <1>2, <2>1, StoppedLives
<1>4. \A k \in Ids \ containers : container'[k] = Blank /\ container[k] = Blank
  BY <1>1 DEF IInv, BoxInv, Fresh
<1>5. \A q \in Pods : client[q].pc = "start" =>
          client[q].made \in containers /\ container'[client[q].made].state = "created"
  BY <1>3 DEF IInv, BoxInv, OwnSandbox, Linked
<1>6. TypeOK'
  <2>1. container' \in [Ids -> Container \cup {Blank}]
    BY <1>1, <1>3, <1>4
  <2> QED
    BY <1>1, <2>1 DEF IInv, TypeOK, SandboxesUnchanged, ImagesUnchanged
<1>7. BoxInv'
  <2>1. \A q \in Pods : client[q].pc \in {"pull", "make", "remove"} => client[q].sandbox # NoId
    BY DEF IInv, BoxInv, OwnSandbox
  <2> QED
    BY <1>1, <1>3, <1>4, <1>5, <2>1, BoxFrame DEF SandboxesUnchanged
<1>8. ImageInv'
  BY <1>1, ImagesKept DEF IInv, ImageInv
<1>9. SupplyInv'
  BY <1>1, <1>3, <1>5, SupplyKept, ContainersNotBlank
<1>10. NeverWithoutImage'
  BY <1>1, <1>3, <1>4, NoneRefused DEF SandboxesUnchanged
<1> QED
  BY <1>6, <1>7, <1>8, <1>9, <1>10 DEF IInv


-----------------------------------------------------------------------------
(* Sandboxes and containers that come and go *)

(* A new sandbox has an id nothing refers to. *)
LEMMA RunPodSandboxKeeps ==
    ASSUME IInv, NEW p \in Pods, RunPodSandbox(p)
    PROVE  IInv'
<1> DEFINE c == [client[p] EXCEPT !.sandbox = nextId]
           new == [pod |-> p, containers |-> {}]
<1>1. /\ client[p] \in Client /\ client[p].pc = "idle" /\ client[p].sandbox = NoId
      /\ client[p].polls = NoImage /\ nextId \in Ids
      /\ sandboxes' = sandboxes \cup {nextId} /\ nextId' = nextId + 1
      /\ sandbox' = [sandbox EXCEPT ![nextId] = new]
      /\ client' = [client EXCEPT ![p] = c]
      /\ ContainersUnchanged /\ ImagesUnchanged /\ UNCHANGED used
  BY DEF RunPodSandbox, IInv, TypeOK, ImageInv
<1>2. /\ c \in Client /\ c.pc = "idle" /\ c.sandbox = nextId /\ c.polls = NoImage
  BY <1>1 DEF Client
<1> HIDE DEF c
<1>3. client'[p] = c /\ \A q \in Pods : q # p => client'[q] = client[q]
  BY <1>1 DEF IInv, TypeOK
<1>4. new \in Sandbox /\ new.pod = p /\ new.containers = {}
  BY DEF Sandbox
<1> HIDE DEF new
<1>5. /\ nextId \notin sandboxes /\ sandbox'[nextId] = new
      /\ \A i \in sandboxes : sandbox'[i] = sandbox[i]
  BY <1>1 DEF IInv, TypeOK, BoxInv, Fresh
<1>6. TypeOK'
  BY <1>1, <1>2, <1>4 DEF IInv, TypeOK, ContainersUnchanged, ImagesUnchanged
<1>7. BoxInv'
  <2>1. Fresh'
    BY <1>1, <1>4, <1>5 DEF IInv, BoxInv, Fresh, ContainersUnchanged, TypeOK, Ids
  <2>2. sandbox'[nextId].containers = {} /\ \A i \in sandboxes : sandbox'[i].containers = ContainersOf(i)
    BY <1>4, <1>5 DEF ContainersOf
  <2>3. Linked'
    BY <1>1, <2>2 DEF IInv, BoxInv, Linked, ContainersUnchanged, ContainersOf
  <2>4. Lives'
    BY <1>1 DEF IInv, BoxInv, Lives, ContainersUnchanged
  <2>5. OwnSandbox'
    <3> SUFFICES ASSUME NEW q \in Pods
                 PROVE  /\ client'[q].sandbox # NoId => /\ client'[q].sandbox \in sandboxes'
                                                        /\ sandbox'[client'[q].sandbox].pod = q
                        /\ client'[q].pc \in {"pull", "make", "start", "remove"} =>
                              client'[q].sandbox # NoId
                        /\ client'[q].pc = "start" =>
                              /\ client'[q].made \in sandbox'[client'[q].sandbox].containers
                              /\ container'[client'[q].made].state = "created"
      BY DEF OwnSandbox, ContainersOf
    <3>1. CASE q = p
      BY <1>1, <1>2, <1>3, <1>4, <1>5, <3>1
    <3>2. CASE q # p
      BY <1>1, <1>3, <1>5, <2>2, <3>2 DEF IInv, BoxInv, OwnSandbox, ContainersUnchanged, ContainersOf
    <3> QED
      BY <3>1, <3>2
  <2> QED
    BY <2>1, <2>3, <2>4, <2>5 DEF BoxInv
<1>8. ImageInv'
  BY <1>1, <1>2, <1>3, ImagesKept DEF IInv, ImageInv
<1>9. SupplyInv'
  <2>1. Supplied(p)'
    BY <1>2, <1>3 DEF Supplied
  <2>2. \A k \in containers : container'[k].image = container[k].image
    BY <1>1 DEF ContainersUnchanged
  <2>3. \A q \in Pods : client[q].pc = "start" => container'[client[q].made] # Blank
    BY <1>1, ContainersNotBlank
       DEF IInv, BoxInv, OwnSandbox, Linked, Fresh, ContainersUnchanged
  <2> QED
    BY <1>1, <1>3, <2>1, <2>2, <2>3, SupplyKept
<1>10. NeverWithoutImage'
  BY <1>1, <1>5, NoneRefused DEF ContainersUnchanged, IInv, BoxInv, Fresh
<1> QED
  BY <1>6, <1>7, <1>8, <1>9, <1>10 DEF IInv

(* A new container has the image listed then, and a name of its own.        *)
LEMMA CreateContainerKeeps ==
    ASSUME IInv, NEW p \in Pods, NEW n \in Names, CreateContainer(p, n)
    PROVE  IInv'
<1> DEFINE i == client[p].sandbox
           o == images[ImageOf[<<p, n>>]]
           left == client[p].todo \ {n}
<1>1. /\ client[p] \in Client /\ client[p].pc = "make" /\ n \in client[p].todo
      /\ i \in sandboxes /\ n \notin NamesIn(i) /\ client[p].polls = NoImage
      /\ i # NoId /\ left \subseteq Names /\ left \subseteq client[p].todo
  BY DEF CreateContainer, IInv, TypeOK, ImageInv, BoxInv, OwnSandbox, Client
<1>2. CASE o = NoImage
  <2> DEFINE c == [client[p] EXCEPT !.todo = left]
  <2>1. /\ client' = [client EXCEPT ![p] = c]
        /\ SandboxesUnchanged /\ ContainersUnchanged /\ ImagesUnchanged
        /\ UNCHANGED <<nextId, used>>
    BY <1>2 DEF CreateContainer
  <2>2. /\ c \in Client /\ c.pc = "make" /\ c.sandbox = i /\ c.polls = NoImage /\ c.todo = left
    BY <1>1 DEF Client
  <2> HIDE DEF c
  <2>3. used["removals"] = 0 => Supplied(p)'
    <3>1. client'[p] = c
      BY <2>1 DEF IInv, TypeOK
    <3> QED
      BY <1>1, <2>1, <2>2, <3>1 DEF Supplied, Here, ImagesUnchanged, IInv, SupplyInv
  <2> QED
    BY <1>1, <2>1, <2>2, <2>3, ClientKeeps
<1>3. CASE o # NoImage
  <2> DEFINE c == [client[p] EXCEPT !.pc = "start", !.todo = left, !.made = nextId]
             new == NewContainer(i, n, o)
             box == [sandbox[i] EXCEPT !.containers = @ \cup {nextId}]
  <2>1. /\ nextId \in Ids /\ containers' = containers \cup {nextId} /\ nextId' = nextId + 1
        /\ container' = [container EXCEPT ![nextId] = new]
        /\ sandbox' = [sandbox EXCEPT ![i] = box] /\ UNCHANGED <<sandboxes, used>>
        /\ client' = [client EXCEPT ![p] = c] /\ ImagesUnchanged
    BY <1>3 DEF CreateContainer
  <2>2. /\ c \in Client /\ c.pc = "start" /\ c.sandbox = i /\ c.polls = NoImage
        /\ c.todo = left /\ c.made = nextId
    BY <1>1, <2>1 DEF Client
  <2>3. client'[p] = c /\ \A q \in Pods : q # p => client'[q] = client[q]
    BY <2>1 DEF IInv, TypeOK
  <2>4. ImageOf[<<p, n>>] \in Urls /\ o \in Objects /\ i \in Ids
    BY <1>1, <1>3 DEF IInv, TypeOK
  <2>5. /\ new \in Container /\ new.sandbox = i /\ new.name = n /\ new.image = o
        /\ new.state = "created" /\ new.exit = "none" /\ new.worker = "none"
        /\ new.killTimer = FALSE
    BY <2>4 DEF NewContainer, Container, Workers
  <2>6. /\ sandbox[i] \in Sandbox /\ box \in Sandbox /\ box.pod = sandbox[i].pod
        /\ box.containers = ContainersOf(i) \cup {nextId}
    BY <1>1, <2>1 DEF IInv, BoxInv, Fresh, Sandbox, ContainersOf
  <2> HIDE DEF c, new, box
  <2>7. /\ nextId \notin containers
        /\ container'[nextId] = new /\ \A k \in Ids : k # nextId => container'[k] = container[k]
        /\ sandbox'[i] = box /\ \A j \in Ids : j # i => sandbox'[j] = sandbox[j]
    BY <2>1, <2>4 DEF IInv, TypeOK, BoxInv, Fresh
  <2>8. TypeOK'
    <3>1. sandbox' \in [Ids -> Sandbox \cup {Blank}]
      BY <2>1, <2>6 DEF IInv, TypeOK
    <3>2. container' \in [Ids -> Container \cup {Blank}] /\ containers' \subseteq Ids
      BY <2>1, <2>5 DEF IInv, TypeOK
    <3>3. client' \in [Pods -> Client] /\ nextId' \in Nat \ {0}
      BY <2>1, <2>2 DEF IInv, TypeOK
    <3> QED
      BY <2>1, <3>1, <3>2, <3>3 DEF IInv, TypeOK, ImagesUnchanged
  <2>9. /\ sandbox'[i].containers = ContainersOf(i) \cup {nextId}
        /\ \A j \in sandboxes : j # i => sandbox'[j].containers = ContainersOf(j)
    BY <2>6, <2>7 DEF ContainersOf, IInv, TypeOK
  <2>10. \A k \in containers : container'[k] = container[k]
    BY <2>7 DEF IInv, TypeOK
  <2>11. BoxInv'
    <3>1. Fresh'
      <4>1. \A j \in sandboxes : j < nextId' /\ sandbox'[j] \in Sandbox
        BY <2>1, <2>6, <2>7 DEF IInv, BoxInv, Fresh, TypeOK, Ids
      <4>2. \A k \in containers' : k < nextId' /\ container'[k] \in Container
        BY <2>1, <2>5, <2>7, <2>10 DEF IInv, BoxInv, Fresh, TypeOK, Ids
      <4>3. \A k \in Ids \ containers' : container'[k] = Blank
        BY <2>1, <2>7 DEF IInv, BoxInv, Fresh
      <4> QED
        BY <2>1, <4>1, <4>2, <4>3 DEF Fresh
    <3>2. Linked'
      <4>1. \A j \in sandboxes : sandbox'[j].containers \subseteq containers'
        BY <2>1, <2>9 DEF IInv, BoxInv, Linked
      <4>2. \A j \in sandboxes : \A k \in sandbox'[j].containers : container'[k].sandbox = j
        BY <2>5, <2>7, <2>9, <2>10 DEF IInv, BoxInv, Linked
      <4>3. \A k \in containers' : /\ container'[k].sandbox \in sandboxes
                                   /\ k \in sandbox'[container'[k].sandbox].containers
        BY <1>1, <2>1, <2>5, <2>7, <2>9, <2>10 DEF IInv, BoxInv, Linked, ContainersOf
      <4>4. \A k \in containers : container[k].sandbox = i => container[k].name # n
        BY <1>1 DEF NamesIn, IInv, BoxInv, Linked
      <4>5. \A k, l \in containers' :
                container'[k].sandbox = container'[l].sandbox
                /\ container'[k].name = container'[l].name => k = l
        BY <2>1, <2>5, <2>7, <2>10, <4>4 DEF IInv, BoxInv, Linked
      <4> QED
        BY <2>1, <4>1, <4>2, <4>3, <4>5 DEF Linked, ContainersOf
    <3>3. Lives'
      BY <2>1, <2>5, <2>7, <2>10 DEF IInv, BoxInv, Lives, GoodLife
    <3>4. OwnSandbox'
      <4> SUFFICES ASSUME NEW q \in Pods
                   PROVE  /\ client'[q].sandbox # NoId => /\ client'[q].sandbox \in sandboxes'
                                                          /\ sandbox'[client'[q].sandbox].pod = q
                          /\ client'[q].pc \in {"pull", "make", "start", "remove"} =>
                                client'[q].sandbox # NoId
                          /\ client'[q].pc = "start" =>
                                /\ client'[q].made \in sandbox'[client'[q].sandbox].containers
                                /\ container'[client'[q].made].state = "created"
        BY DEF OwnSandbox, ContainersOf
      <4>1. CASE q = p
        BY <1>1, <2>1, <2>2, <2>3, <2>5, <2>6, <2>7, <2>9, <4>1
           DEF IInv, BoxInv, OwnSandbox, ContainersOf
      <4>2. CASE q # p
        <5>1. client'[q] = client[q]
          BY <2>3, <4>2
        <5>2. client[q].sandbox # NoId =>
                 /\ client[q].sandbox \in sandboxes /\ client[q].sandbox \in Ids
                 /\ sandbox[client[q].sandbox].pod = q /\ client[q].sandbox # i
          BY <1>1, <4>2 DEF IInv, BoxInv, OwnSandbox, TypeOK
        <5>3. client[q].pc = "start" =>
                 /\ client[q].sandbox # NoId /\ client[q].made \in containers
                 /\ client[q].made \in ContainersOf(client[q].sandbox)
                 /\ container[client[q].made].state = "created"
          BY DEF IInv, BoxInv, OwnSandbox, Linked
        <5>4. client[q].pc \in {"pull", "make", "start", "remove"} => client[q].sandbox # NoId
          BY DEF IInv, BoxInv, OwnSandbox
        <5> QED
          BY <2>1, <2>7, <2>9, <2>10, <5>1, <5>2, <5>3, <5>4 DEF ContainersOf
      <4> QED
        BY <4>1, <4>2
    <3> QED
      BY <3>1, <3>2, <3>3, <3>4 DEF BoxInv
  <2>12. ImageInv'
    BY <1>1, <2>1, <2>2, <2>3, ImagesKept DEF IInv, ImageInv
  <2>13. SupplyInv'
    <3>1. CASE used["removals"] # 0
      BY <2>1, <3>1 DEF SupplyInv
    <3>2. CASE used["removals"] = 0
      <4>1. Here(ImageOf[<<p, n>>]) /\ \A m \in left : Here(ImageOf[<<p, m>>])
        BY <1>1, <3>2 DEF IInv, SupplyInv, Supplied
      <4>2. image[o] \in Image /\ image[o].state = "downloaded"
        BY <1>3, <2>4, <4>1 DEF Here, IInv, ImageInv
      <4>3. Supplied(p)'
        BY <2>1, <2>2, <2>3, <2>5, <2>7, <4>1, <4>2 DEF Supplied, Here, ImagesUnchanged
      <4>4. \A q \in Pods : client[q].pc = "start" =>
                client[q].made \in containers /\ container'[client[q].made] # Blank
        BY <2>10, ContainersNotBlank DEF IInv, BoxInv, OwnSandbox, Linked, Fresh
      <4> QED
        BY <2>1, <2>3, <2>10, <4>3, <4>4, SupplyKept
    <3> QED
      BY <3>1, <3>2
  <2>14. NeverWithoutImage'
    <3>1. \A k \in Ids : container'[k] # Blank /\ container'[k].exit = "refused" =>
              k \in containers /\ container'[k] = container[k]
      BY <2>5, <2>7 DEF IInv, BoxInv, Fresh
    <3>2. \A j \in sandboxes : sandbox'[j].pod = sandbox[j].pod
      BY <2>6, <2>7 DEF IInv, TypeOK
    <3> QED
      BY <2>1, <3>1, <3>2, NoneRefused
  <2> QED
    BY <2>8, <2>11, <2>12, <2>13, <2>14 DEF IInv
<1> QED
  BY <1>2, <1>3


(* A container that may run and whose image is there is not refused. *)
LEMMA StartContainerKeeps ==
    ASSUME IInv, NEW p \in Pods, StartContainer(p)
    PROVE  IInv'
<1> DEFINE k == client[p].made
           box == container[k]
           r == IF CanStart(p, box) THEN [box EXCEPT !.state = "running", !.worker = "loading"]
                ELSE [box EXCEPT !.state = "exited", !.exit = "refused"]
           c == [client[p] EXCEPT !.pc = "make", !.made = NoId]
<1>1. /\ client[p] \in Client /\ client[p].pc = "start" /\ k \in containers /\ k \in Ids
      /\ client[p].polls = NoImage /\ client[p].sandbox # NoId
      /\ client[p].sandbox \in sandboxes /\ sandbox[client[p].sandbox].pod = p
      /\ box \in Container /\ GoodLife(box) /\ box.state = "created"
      /\ box.sandbox = client[p].sandbox
  BY DEF StartContainer, IInv, TypeOK, ImageInv, BoxInv, OwnSandbox, Linked, Fresh, Lives
<1>2. /\ container' = [container EXCEPT ![k] = r] /\ client' = [client EXCEPT ![p] = c]
      /\ SandboxesUnchanged /\ ImagesUnchanged /\ UNCHANGED <<containers, nextId, used>>
  BY DEF StartContainer
<1>3. /\ c \in Client /\ c.pc = "make" /\ c.todo = client[p].todo
      /\ c.sandbox = client[p].sandbox /\ c.polls = NoImage
  BY <1>1 DEF Client, NoId
<1>4. /\ r \in Container /\ r.sandbox = box.sandbox /\ r.name = box.name /\ r.image = box.image
      /\ \/ r.state = "running" /\ r.exit = "none"
         \/ r.state = "exited" /\ r.exit = "refused" /\ r.worker = "none" /\ ~ CanStart(p, box)
  <2>1. CASE CanStart(p, box)
    BY <1>1, <2>1 DEF Container, Workers, GoodLife
  <2>2. CASE ~ CanStart(p, box)
    BY <1>1, <2>2 DEF Container, GoodLife
  <2> QED
    BY <2>1, <2>2
<1> HIDE DEF r, c
<1>5. /\ client'[p] = c /\ \A q \in Pods : q # p => client'[q] = client[q]
      /\ container'[k] = r /\ \A l \in Ids : l # k => container'[l] = container[l]
  BY <1>1, <1>2 DEF IInv, TypeOK
<1>6. TypeOK'
  BY <1>2, <1>3, <1>4 DEF IInv, TypeOK, SandboxesUnchanged, ImagesUnchanged
<1>7. \A l \in containers : /\ container'[l] \in Container /\ GoodLife(container'[l])
                            /\ container'[l].sandbox = container[l].sandbox
                            /\ container'[l].name = container[l].name
                            /\ container'[l].image = container[l].image
                            /\ container'[l] # Blank
  BY <1>4, <1>5, ContainersNotBlank DEF GoodLife, IInv, TypeOK, BoxInv, Fresh, Lives
<1>8. ASSUME NEW q \in Pods, client[q].pc = "start", q # p
      PROVE  client[q].made \in containers /\ client[q].made # k
             /\ container[client[q].made].state = "created"
  BY <1>1, <1>8 DEF IInv, BoxInv, OwnSandbox, Linked
<1>9. BoxInv'
  <2>1. \A l \in Ids \ containers : container'[l] = Blank
    BY <1>1, <1>5 DEF IInv, BoxInv, Fresh
  <2>2. \A q \in Pods :
           /\ client'[q].sandbox = client[q].sandbox
           /\ client'[q].pc \in {"pull", "make", "remove"} => client[q].sandbox # NoId
           /\ client'[q].pc = "start" =>
                 client'[q] = client[q] /\ container'[client[q].made].state = "created"
    BY <1>1, <1>3, <1>5, <1>8 DEF IInv, BoxInv, OwnSandbox, TypeOK
  <2> QED
    BY <1>2, <1>7, <2>1, <2>2, BoxFrame DEF SandboxesUnchanged
<1>10. ImageInv'
  BY <1>1, <1>2, <1>3, <1>5, ImagesKept DEF IInv, ImageInv
<1>11. SupplyInv'
  <2>1. CASE used["removals"] # 0
    BY <1>2, <2>1 DEF SupplyInv
  <2>2. CASE used["removals"] = 0
    <3>1. Supplied(p)'
      BY <1>1, <1>2, <1>3, <1>5, <2>2 DEF IInv, SupplyInv, Supplied, Here, ImagesUnchanged
    <3>2. \A q \in Pods : client'[q].pc = "start" /\ client'[q] = client[q] =>
              container'[client[q].made] # Blank
      BY <1>3, <1>5, <1>7, <1>8
    <3> QED
      BY <1>2, <1>5, <1>7, <3>1, <3>2, SupplyKept
  <2> QED
    BY <2>1, <2>2
<1>12. NeverWithoutImage'
  <2> SUFFICES ASSUME used["removals"] = 0, NEW l \in Ids, container'[l] # Blank,
                      container'[l].exit = "refused"
               PROVE  <<sandbox[container'[l].sandbox].pod, container'[l].name>> \notin Runnable
    BY <1>2 DEF NeverWithoutImage, SandboxesUnchanged
  <2>1. CASE l # k
    BY <1>5, <2>1 DEF IInv, NeverWithoutImage
  <2>2. CASE l = k
    <3>1. ~ CanStart(p, box)
      BY <1>4, <1>5, <2>2
    <3>2. image[box.image].state = "downloaded"
      BY <1>1 DEF IInv, SupplyInv, Supplied
    <3>3. <<p, box.name>> \notin Runnable
      BY <3>1, <3>2 DEF CanStart
    <3> QED
      BY <1>1, <1>4, <1>5, <2>2, <3>3
  <2> QED
    BY <2>1, <2>2
<1> QED
  BY <1>6, <1>9, <1>10, <1>11, <1>12 DEF IInv

(* A container that is not listed any more has no worker. *)
LEMMA DroppedBlank == \A k \in Container : Dropped(k) = Blank
<1> SUFFICES ASSUME NEW k \in Container PROVE Dropped(k) = Blank
  OBVIOUS
<1>1. "worker" \in DOMAIN Stopped(k)
  BY DEF Stopped, Container
<1>2. CleanedUp(Stopped(k)).worker = "none"
  BY <1>1 DEF CleanedUp
<1> QED
  BY <1>2 DEF Dropped

(* Who starts a container has it in its own sandbox. *)
LEMMA StartsInOwn ==
    ASSUME IInv, NEW p \in Pods, client[p].sandbox # NoId, NEW q \in Pods, q # p,
           client[q].pc = "start"
    PROVE  /\ client[q].sandbox \in sandboxes /\ client[q].sandbox # client[p].sandbox
           /\ client[q].made \in containers
           /\ client[q].made \in ContainersOf(client[q].sandbox)
           /\ client[q].made \notin ContainersOf(client[p].sandbox)
           /\ container[client[q].made].state = "created"
BY DEF IInv, BoxInv, OwnSandbox, Linked

LEMMA RemoveContainerKeeps ==
    ASSUME IInv, NEW p \in Pods, NEW k \in Ids, RemoveContainer(p, k)
    PROVE  IInv'
<1> DEFINE i == client[p].sandbox
           box == [sandbox[i] EXCEPT !.containers = @ \ {k}]
<1>1. /\ client[p].pc = "remove" /\ i # NoId /\ i \in sandboxes /\ i \in Ids
      /\ sandbox[i] \in Sandbox /\ k \in ContainersOf(i) /\ k \in containers
      /\ container[k] \in Container
  BY DEF RemoveContainer, IInv, BoxInv, OwnSandbox, Linked, Fresh, TypeOK
<1>2. /\ container' = [container EXCEPT ![k] = Blank] /\ containers' = containers \ {k}
      /\ sandbox' = [sandbox EXCEPT ![i] = box]
      /\ ImagesUnchanged /\ UNCHANGED <<sandboxes, client, nextId, used>>
  BY <1>1, DroppedBlank DEF RemoveContainer
<1>3. box \in Sandbox /\ box.pod = sandbox[i].pod /\ box.containers = ContainersOf(i) \ {k}
  BY <1>1 DEF Sandbox, ContainersOf
<1> HIDE DEF box
<1>4. /\ container'[k] = Blank /\ \A l \in Ids : l # k => container'[l] = container[l]
      /\ sandbox'[i] = box /\ \A j \in Ids : j # i => sandbox'[j] = sandbox[j]
  BY <1>1, <1>2 DEF IInv, TypeOK
<1>5. TypeOK'
  <2>1. sandbox' \in [Ids -> Sandbox \cup {Blank}]
    BY <1>2, <1>3 DEF IInv, TypeOK
  <2>2. container' \in [Ids -> Container \cup {Blank}] /\ containers' \subseteq Ids
    BY <1>2 DEF IInv, TypeOK
  <2> QED
    BY <1>2, <2>1, <2>2 DEF IInv, TypeOK, ImagesUnchanged
<1>6. /\ \A l \in containers' : l # k /\ l \in containers /\ l \in Ids /\ container'[l] = container[l]
      /\ \A j \in sandboxes : j \in Ids /\ sandbox'[j].pod = sandbox[j].pod
                              /\ sandbox'[j].containers = ContainersOf(j) \ {k}
  <2>1. \A j \in sandboxes : j # i => k \notin ContainersOf(j)
    BY <1>1 DEF IInv, BoxInv, Linked
  <2> QED
    BY <1>1, <1>2, <1>3, <1>4, <2>1 DEF IInv, TypeOK, ContainersOf
<1>7. BoxInv'
  <2>1. Fresh'
    BY <1>1, <1>2, <1>3, <1>4, <1>6 DEF IInv, BoxInv, Fresh
  <2>2. Linked'
    <3>1. \A j \in sandboxes : ContainersOf(j) \subseteq containers
      BY DEF IInv, BoxInv, Linked
    <3>2. \A j \in sandboxes : sandbox'[j].containers \subseteq containers'
      BY <1>2, <1>6, <3>1
    <3>3. \A j \in sandboxes : \A l \in sandbox'[j].containers : container'[l].sandbox = j
      BY <1>6, <3>2 DEF IInv, BoxInv, Linked
    <3>4. \A l \in containers' : /\ container'[l].sandbox \in sandboxes
                                 /\ l \in sandbox'[container'[l].sandbox].containers
      BY <1>6 DEF IInv, BoxInv, Linked
    <3>5. \A l, m \in containers' :
              container'[l].sandbox = container'[m].sandbox
              /\ container'[l].name = container'[m].name => l = m
      BY <1>6 DEF IInv, BoxInv, Linked
    <3> QED
      BY <1>2, <3>2, <3>3, <3>4, <3>5 DEF Linked, ContainersOf
  <2>3. Lives'
    BY <1>6 DEF IInv, BoxInv, Lives
  <2>4. ASSUME NEW q \in Pods, client[q].pc = "start"
        PROVE  /\ client[q].made \in sandbox'[client[q].sandbox].containers
               /\ container'[client[q].made].state = "created"
    <3>1. /\ client[q].sandbox \in sandboxes /\ client[q].made \in containers
          /\ client[q].made # k /\ client[q].made \in ContainersOf(client[q].sandbox)
          /\ container[client[q].made].state = "created"
      BY <1>1, <2>4, StartsInOwn
    <3> QED
      BY <1>2, <1>6, <3>1
  <2>5. OwnSandbox'
    BY <1>2, <1>6, <2>4 DEF IInv, BoxInv, OwnSandbox, ContainersOf
  <2> QED
    BY <2>1, <2>2, <2>3, <2>5 DEF BoxInv
<1>8. ImageInv'
  BY <1>2, ImagesKept DEF IInv, ImageInv
<1>9. SupplyInv'
  <2>1. \A q \in Pods : client[q].pc = "start" => container'[client[q].made] # Blank
    <3> SUFFICES ASSUME NEW q \in Pods, client[q].pc = "start"
                 PROVE  container'[client[q].made] # Blank
      OBVIOUS
    <3>1. client[q].made \in containers /\ client[q].made # k
      BY <1>1, StartsInOwn
    <3> QED
      BY <1>2, <1>6, <3>1, ContainersNotBlank DEF IInv, BoxInv, Fresh
  <2>2. \A l \in containers : container'[l] # Blank => container'[l].image = container[l].image
    BY <1>2, <1>4, <1>6
  <2> QED
    BY <1>2, <2>1, <2>2, SupplyKept
<1>10. NeverWithoutImage'
  BY <1>2, <1>4, <1>6, NoneRefused DEF IInv, BoxInv, Fresh
<1> QED
  BY <1>5, <1>7, <1>8, <1>9, <1>10 DEF IInv


(* With a sandbox go its containers, and those of no other pod. *)
LEMMA RemovePodSandboxKeeps ==
    ASSUME IInv, NEW p \in Pods, RemovePodSandbox(p)
    PROVE  IInv'
<1> DEFINE i == client[p].sandbox
           box == [sandbox[i] EXCEPT !.containers = {}]
<1>1. /\ client[p].pc = "remove" /\ i # NoId /\ i \in sandboxes /\ i \in Ids
      /\ sandbox[i] \in Sandbox /\ ContainersOf(i) \subseteq containers
  BY DEF RemovePodSandbox, IInv, BoxInv, OwnSandbox, Linked, Fresh, TypeOK
<1>2. /\ container' = [k \in Ids |-> IF k \in ContainersOf(i) THEN Dropped(container[k])
                                     ELSE container[k]]
      /\ containers' = containers \ ContainersOf(i) /\ sandboxes' = sandboxes \ {i}
      /\ sandbox' = [sandbox EXCEPT ![i] = box]
      /\ client' = [client EXCEPT ![p] = NewClient]
      /\ ImagesUnchanged /\ UNCHANGED <<nextId, used>>
  BY DEF RemovePodSandbox
<1>3. box \in Sandbox /\ NewClient \in Client
  BY <1>1 DEF Sandbox, NewClient, Client
<1> HIDE DEF box
<1>4. /\ \A k \in ContainersOf(i) : container'[k] = Blank
      /\ \A k \in Ids \ ContainersOf(i) : container'[k] = container[k]
      /\ \A j \in sandboxes' : j \in Ids /\ sandbox'[j] = sandbox[j]
  <2>1. \A k \in ContainersOf(i) : k \in Ids /\ container[k] \in Container
    BY <1>1 DEF IInv, TypeOK, BoxInv, Fresh
  <2> QED
    BY <1>2, <2>1, DroppedBlank DEF IInv, TypeOK
<1>5. client'[p] = NewClient /\ \A q \in Pods : q # p => client'[q] = client[q]
  BY <1>2 DEF IInv, TypeOK
<1>6. TypeOK'
  <2>1. sandbox' \in [Ids -> Sandbox \cup {Blank}]
    BY <1>2, <1>3 DEF IInv, TypeOK
  <2>2. containers' \subseteq Ids /\ sandboxes' \subseteq Ids
    BY <1>2 DEF IInv, TypeOK
  <2>3. container' \in [Ids -> Container \cup {Blank}]
    <3> SUFFICES ASSUME NEW k \in Ids PROVE container'[k] \in Container \cup {Blank}
      BY <1>2
    <3>1. CASE k \in ContainersOf(i)
      BY <1>4, <3>1
    <3>2. CASE k \notin ContainersOf(i)
      BY <1>4, <3>2 DEF IInv, TypeOK
    <3> QED
      BY <3>1, <3>2
  <2> QED
    BY <1>2, <1>3, <2>1, <2>2, <2>3 DEF IInv, TypeOK, ImagesUnchanged
<1>7. \A k \in containers' : k \in containers /\ k \in Ids /\ container'[k] = container[k]
                             /\ container[k].sandbox # i
  BY <1>1, <1>2, <1>4 DEF IInv, TypeOK, BoxInv, Linked
<1>8. ASSUME NEW q \in Pods, client[q].pc = "start", q # p
      PROVE  /\ client[q].sandbox \in sandboxes' /\ client[q].made \in containers'
             /\ client[q].made \in ContainersOf(client[q].sandbox)
             /\ container[client[q].made].state = "created"
  BY <1>1, <1>2, <1>8, StartsInOwn
<1>9. BoxInv'
  <2>1. Fresh'
    BY <1>2, <1>4, <1>7 DEF IInv, BoxInv, Fresh
  <2>2. Linked'
    <3>1. \A j \in sandboxes' : sandbox'[j].containers = ContainersOf(j) /\ j \in sandboxes /\ j # i
      BY <1>2, <1>4 DEF ContainersOf
    <3>2. \A j \in sandboxes' : sandbox'[j].containers \subseteq containers'
      BY <1>1, <1>2, <3>1 DEF IInv, BoxInv, Linked
    <3>3. \A j \in sandboxes' : \A k \in sandbox'[j].containers : container'[k].sandbox = j
      BY <1>7, <3>1, <3>2 DEF IInv, BoxInv, Linked
    <3>4. \A k \in containers' : /\ container'[k].sandbox \in sandboxes'
                                 /\ k \in sandbox'[container'[k].sandbox].containers
      BY <1>2, <1>7, <3>1 DEF IInv, BoxInv, Linked
    <3>5. \A k, l \in containers' :
              container'[k].sandbox = container'[l].sandbox
              /\ container'[k].name = container'[l].name => k = l
      BY <1>7 DEF IInv, BoxInv, Linked
    <3> QED
      BY <3>2, <3>3, <3>4, <3>5 DEF Linked, ContainersOf
  <2>3. Lives'
    BY <1>7 DEF IInv, BoxInv, Lives
  <2>4. OwnSandbox'
    <3> SUFFICES ASSUME NEW q \in Pods
                 PROVE  /\ client'[q].sandbox # NoId => /\ client'[q].sandbox \in sandboxes'
                                                        /\ sandbox'[client'[q].sandbox].pod = q
                        /\ client'[q].pc \in {"pull", "make", "start", "remove"} =>
                              client'[q].sandbox # NoId
                        /\ client'[q].pc = "start" =>
                              /\ client'[q].made \in sandbox'[client'[q].sandbox].containers
                              /\ container'[client'[q].made].state = "created"
      BY DEF OwnSandbox, ContainersOf
    <3>1. CASE q = p
      BY <1>5, <3>1 DEF NewClient
    <3>2. CASE q # p
      <4>1. client[q].sandbox # NoId => client[q].sandbox \in sandboxes'
                                        /\ sandbox[client[q].sandbox].pod = q
        BY <1>1, <1>2, <3>2 DEF IInv, BoxInv, OwnSandbox
      <4>2. client[q].pc \in {"pull", "make", "start", "remove"} => client[q].sandbox # NoId
        BY DEF IInv, BoxInv, OwnSandbox
      <4> QED
        BY <1>4, <1>5, <1>7, <1>8, <3>2, <4>1, <4>2 DEF ContainersOf
    <3> QED
      BY <3>1, <3>2
  <2> QED
    BY <2>1, <2>2, <2>3, <2>4 DEF BoxInv
<1>10. ImageInv'
  BY <1>1, <1>2, <1>5, ImagesKept DEF IInv, ImageInv, NewClient
<1>11. SupplyInv'
  <2>1. \A q \in Pods : client'[q].pc = "start" /\ client'[q] = client[q] =>
            container'[client[q].made] # Blank
    BY <1>1, <1>7, <1>8, ContainersNotBlank DEF IInv, BoxInv, Fresh
  <2>2. \A k \in containers : container'[k] # Blank => container'[k].image = container[k].image
    BY <1>2, <1>4, <1>7
  <2>3. Supplied(p)'
    BY <1>5 DEF Supplied, NewClient
  <2> QED
    BY <1>2, <1>5, <2>1, <2>2, <2>3, SupplyKept
<1>12. NeverWithoutImage'
  <2> SUFFICES ASSUME used["removals"] = 0, NEW k \in Ids, container'[k] # Blank,
                      container'[k].exit = "refused"
               PROVE  <<sandbox'[container'[k].sandbox].pod, container'[k].name>> \notin Runnable
    BY <1>2 DEF NeverWithoutImage
  <2>1. k \in containers' /\ container[k].sandbox \in sandboxes'
    BY <1>2, <1>4, <1>7 DEF IInv, BoxInv, Fresh, Linked
  <2> QED
    BY <1>4, <1>7, <2>1 DEF IInv, NeverWithoutImage
<1> QED
  BY <1>6, <1>9, <1>10, <1>11, <1>12 DEF IInv

(* After the end of the program nothing is listed, and nothing has a worker. *)
LEMMA TerminateKeeps ==
    ASSUME IInv, Terminate
    PROVE  IInv'
<1> DEFINE c == [NewClient EXCEPT !.pc = "ended"]
<1>1. /\ client' = [p \in Pods |-> c] /\ containers' = {} /\ sandboxes' = {}
      /\ images' = [u \in Urls |-> NoImage]
      /\ UNCHANGED <<sandbox, image, nextId, nextImage, used>>
  BY DEF Terminate
<1>2. c \in Client /\ c.pc = "ended" /\ c.sandbox = NoId /\ c.polls = NoImage
  BY DEF NewClient, Client
<1> HIDE DEF c
<1>3. container' = [k \in Ids |-> Blank]
  <2>1. \A k \in containers : Dropped(container[k]) = Blank
    BY DroppedBlank DEF IInv, BoxInv, Fresh
  <2>2. \A k \in Ids \ containers : container[k] = Blank
    BY DEF IInv, BoxInv, Fresh
  <2> QED
    BY <2>1, <2>2 DEF Terminate
<1>4. TypeOK'
  BY <1>1, <1>2, <1>3 DEF IInv, TypeOK
<1>5. BoxInv'
  BY <1>1, <1>2, <1>3 DEF BoxInv, Fresh, Linked, Lives, OwnSandbox
<1>6. ImageInv'
  BY <1>1, <1>2 DEF IInv, ImageInv, EndTogether, AllEnded, Downloads
<1>7. SupplyInv'
  BY <1>1, <1>2 DEF SupplyInv, Supplied
<1>8. NeverWithoutImage'
  BY <1>3 DEF NeverWithoutImage
<1> QED
  BY <1>4, <1>5, <1>6, <1>7, <1>8 DEF IInv

-----------------------------------------------------------------------------
(* The theorems *)

LEMMA NextKeeps ==
    ASSUME IInv, [Next]_vars
    PROVE  IInv'
<1>1. ASSUME NEW p \in Pods, ClientStep(p) PROVE IInv'
  BY <1>1, RunPodSandboxKeeps, LetRunningKeeps, PullImageKeeps, PullAnsweredKeeps, PullsDoneKeeps,
     CreateContainerKeeps, StartContainerKeeps, LetRunningReturnsKeeps, StopContainerKeeps,
     RemoveContainerKeeps, StopPodSandboxKeeps, LetRemoveKeeps, RemovePodSandboxKeeps
     DEF ClientStep
<1>2. ASSUME NEW o \in Objects, FetchEnds(o) PROVE IInv'
  BY <1>2, FetchEndsKeeps
<1>3. ASSUME NEW u \in Urls, RemoveImage(u) PROVE IInv'
  BY <1>3, RemoveImageKeeps
<1>4. ASSUME NEW k \in Ids,
             OnReady(k) \/ ProgramExits(k) \/ OnFinished(k) \/ KillTimer(k) \/ CleanupTimer(k)
      PROVE  IInv'
  BY <1>4, OnReadyKeeps, OnFinishedKeeps, KillTimerKeeps, CleanupTimerKeeps
<1>5. CASE Terminate
  BY <1>5, TerminateKeeps
<1>6. CASE UNCHANGED vars
  BY <1>6 DEF vars, IInv, TypeOK, BoxInv, Fresh, Linked, ContainersOf, Lives, OwnSandbox,
              ImageInv, EndTogether, AllEnded, Downloads, SupplyInv, Supplied, Here, NeverWithoutImage
<1> QED
  BY <1>1, <1>2, <1>3, <1>4, <1>5, <1>6 DEF Next

(* Types, sandboxes and containers that name each other, images that are    *)
(* downloaded once, and reconciles that are supplied: the invariant behind  *)
(* the properties below.                                                    *)
THEOREM RuntimeInductive == Spec => []IInv
<1>1. Init => IInv
  <2> SUFFICES ASSUME Init PROVE IInv
    OBVIOUS
  <2>1. NewClient \in Client /\ NewClient.pc = "idle" /\ NewClient.sandbox = NoId
        /\ NewClient.polls = NoImage
    BY DEF NewClient, Client
  <2>2. TypeOK
    BY <2>1 DEF Init, TypeOK
  <2>3. BoxInv /\ NeverWithoutImage
    BY <2>1 DEF Init, BoxInv, Fresh, Linked, Lives, OwnSandbox, NeverWithoutImage
  <2>4. ImageInv /\ SupplyInv
    BY <2>1 DEF Init, ImageInv, EndTogether, Downloads, SupplyInv, Supplied
  <2> QED
    BY <2>2, <2>3, <2>4 DEF IInv
<1> QED
  BY <1>1, NextKeeps, PTL DEF Spec

(* Nothing runs in the page that nobody could find, whatever pods start and *)
(* remove at a time, and a removed sandbox has ended all its apps.          *)
THEOREM NothingIsOrphaned == Spec => []NoOrphans
<1>1. IInv => NoOrphans
  <2> SUFFICES ASSUME IInv PROVE NoOrphans
    OBVIOUS
  <2>1. \A k \in Ids : container[k] # Blank => k \in containers
    BY DEF IInv, BoxInv, Fresh
  <2>2. containers = UNION {ContainersOf(i) : i \in sandboxes}
    BY DEF IInv, BoxInv, Linked
  <2>3. \A i \in sandboxes, k \in containers : k \in ContainersOf(i) <=> container[k].sandbox = i
    BY DEF IInv, BoxInv, Linked
  <2>4. \A k, l \in containers :
            container[k].sandbox = container[l].sandbox /\ container[k].name = container[l].name
                => k = l
    BY DEF IInv, BoxInv, Linked
  <2> QED
    BY <2>1, <2>2, <2>3, <2>4 DEF NoOrphans
<1> QED
  BY <1>1, RuntimeInductive, PTL

(* No two downloads of a url are under way at a time, in any order of pulls, *)
(* answers, failures and removals.                                          *)
THEOREM DownloadsAreSingle == Spec => []OneDownload
<1>1. IInv => OneDownload
  <2> SUFFICES ASSUME IInv, NEW o \in Objects, NEW q \in Objects,
                      image[o] # Blank, image[q] # Blank, image[o].url = image[q].url,
                      image[o].fetches > 0, image[q].fetches > 0
               PROVE  o = q /\ image[o].fetches = 1
    BY DEF OneDownload
  <2>1. Downloads(o) /\ Downloads(q) /\ image[o].fetches = 1
    BY DEF IInv, ImageInv, Downloads
  <2> QED
    BY <2>1 DEF IInv, ImageInv
<1> QED
  BY <1>1, RuntimeInductive, PTL

(* No container that may run is refused for want of its image, in any order *)
(* of pulls, failures and reconciles, as long as nobody removes images.     *)
THEOREM ImagesAreSupplied == Spec => []NeverWithoutImage
<1>1. IInv => NeverWithoutImage
  BY DEF IInv
<1> QED
  BY <1>1, RuntimeInductive, PTL

(* A container keeps the exit code it has first got: later kills, late      *)
(* messages and cleanups do not change it.                                  *)
THEOREM ExitsAreFinal == Spec => ExitIsFinal
<1> DEFINE Final == \A k \in Ids :
                       container[k] # Blank /\ container[k].exit # "none" /\ container'[k] # Blank
                       => container'[k].state = "exited" /\ container'[k].exit = container[k].exit
<1>1. IInv /\ [Next]_vars => [Final]_vars
  <2> SUFFICES ASSUME IInv, Next, NEW k \in Ids, container[k] # Blank,
                      container[k].exit # "none", container'[k] # Blank
               PROVE  container'[k].state = "exited" /\ container'[k].exit = container[k].exit
    BY DEF vars
  <2>1. /\ container[k] \in Container /\ k \in containers /\ k < nextId
        /\ container[k].state = "exited" /\ container[k].worker \in {"none", "idle"}
    BY Living DEF GoodLife, IInv, BoxInv, Fresh
  <2>2. ASSUME container'[k] = container[k]
        PROVE  container'[k].state = "exited" /\ container'[k].exit = container[k].exit
    BY <2>1, <2>2
  <2>3. ASSUME NEW p \in Pods, ClientStep(p)
        PROVE  container'[k].state = "exited" /\ container'[k].exit = container[k].exit
    <3>1. CASE \/ RunPodSandbox(p) \/ LetRunning(p) \/ (\E u \in Urls : PullImage(p, u))
               \/ PullAnswered(p) \/ PullsDone(p) \/ LetRunningReturns(p) \/ LetRemove(p)
      BY <2>2, <3>1 DEF RunPodSandbox, LetRunning, PullImage, PullAnswered, PullsDone,
                        LetRunningReturns, LetRemove, ContainersUnchanged
    <3>2. ASSUME NEW n \in Names, CreateContainer(p, n)
          PROVE  container'[k] = container[k]
      BY <2>1, <3>2 DEF CreateContainer, ContainersUnchanged, IInv, TypeOK
    <3>3. CASE StartContainer(p)
      <4>1. client[p].made # k
        BY <2>1, <3>3 DEF StartContainer, IInv, BoxInv, OwnSandbox
      <4> QED
        BY <2>2, <3>3, <4>1 DEF StartContainer, IInv, TypeOK
    <3>4. container'[k] = Stopped(container[k]) =>
             container'[k].state = "exited" /\ container'[k].exit = container[k].exit
      BY <2>1, StoppedLives, Living
    <3>5. ASSUME NEW l \in Ids, StopContainer(p, l)
          PROVE  container'[k] \in {container[k], Stopped(container[k])}
      BY <3>5 DEF StopContainer, IInv, TypeOK
    <3>6. CASE StopPodSandbox(p)
      BY <2>2, <3>4, <3>6 DEF StopPodSandbox
    <3>7. ASSUME NEW l \in Ids, RemoveContainer(p, l)
          PROVE  container'[k] \in {container[k], Dropped(container[k])}
      BY <3>7 DEF RemoveContainer, IInv, TypeOK
    <3>8. CASE RemovePodSandbox(p)
      BY <2>1, <2>2, <3>8, DroppedBlank DEF RemovePodSandbox
    <3> QED
      BY <2>1, <2>2, <2>3, <3>1, <3>2, <3>3, <3>4, <3>5, <3>6, <3>7, <3>8, DroppedBlank
         DEF ClientStep
  <2>4. ASSUME NEW l \in Ids, OnReady(l) \/ ProgramExits(l) \/ OnFinished(l)
        PROVE  container'[k] = container[k]
    BY <2>1, <2>4 DEF OnReady, ProgramExits, OnFinished, IInv, TypeOK
  <2>5. ASSUME NEW l \in Ids, KillTimer(l) \/ CleanupTimer(l)
        PROVE  container'[k].state = "exited" /\ container'[k].exit = container[k].exit
    <3>1. CASE l # k
      BY <2>2, <2>5, <3>1 DEF KillTimer, CleanupTimer, IInv, TypeOK
    <3>2. CASE l = k
      <4> DEFINE a == CleanedUp(container[k])
                 b == [a EXCEPT !.killTimer = FALSE]
                 c == [a EXCEPT !.cleanupTimer = FALSE]
      <4>1. a \in Container /\ a.state = "exited" /\ a.exit = container[k].exit
        BY <2>1 DEF CleanedUp, Container, Workers
      <4>2. container'[k] \in {b, c}
        BY <2>1, <2>5, <3>2 DEF KillTimer, CleanupTimer, Killed, IInv, TypeOK
      <4> HIDE DEF a
      <4> QED
        BY <4>1, <4>2 DEF Container
    <3> QED
      BY <3>1, <3>2
  <2>6. CASE (\E o \in Objects : FetchEnds(o)) \/ (\E u \in Urls : RemoveImage(u))
    BY <2>2, <2>6 DEF FetchEnds, RemoveImage, ContainersUnchanged
  <2>7. CASE Terminate
    BY <2>1, <2>7, DroppedBlank DEF Terminate
  <2> QED
    BY <2>2, <2>3, <2>4, <2>5, <2>6, <2>7 DEF Next
<1> QED
  BY <1>1, RuntimeInductive, PTL DEF Spec, ExitIsFinal

-----------------------------------------------------------------------------
(* The runtime as one pod sees it *)

(* A pod has one sandbox: runPodSandbox looks for a duplicate.              *)
OneEach == \A i, j \in sandboxes : sandbox[i].pod = sandbox[j].pod => i = j

LEMMA OneEachKept ==
    ASSUME IInv, OneEach, [Next]_vars
    PROVE  OneEach'
<1>1. ASSUME NEW p \in Pods, RunPodSandbox(p)
      PROVE  OneEach'
  <2>1. /\ sandboxes' = sandboxes \cup {nextId} /\ nextId \notin sandboxes /\ nextId \in Ids
        /\ sandbox'[nextId].pod = p
        /\ \A i \in sandboxes : sandbox'[i] = sandbox[i] /\ sandbox[i].pod # p
    BY <1>1 DEF RunPodSandbox, Duplicate, IInv, BoxInv, Fresh, TypeOK
  <2> QED
    BY <2>1 DEF OneEach
<1>2. ASSUME \A i \in sandboxes' : i \in sandboxes /\ sandbox'[i].pod = sandbox[i].pod
      PROVE  OneEach'
  BY <1>2 DEF OneEach
<1>3. \A i \in sandboxes : i \in Ids /\ sandbox[i] \in Sandbox
  BY DEF IInv, BoxInv, Fresh, TypeOK
<1>4. ASSUME NEW p \in Pods, NEW c \in Names, CreateContainer(p, c)
      PROVE  OneEach'
  <2>1. \A i \in sandboxes : sandbox'[i].pod = sandbox[i].pod
    BY <1>3, <1>4 DEF CreateContainer, SandboxesUnchanged, Sandbox, IInv, TypeOK
  <2>2. sandboxes' = sandboxes
    BY <1>4 DEF CreateContainer, SandboxesUnchanged
  <2> QED
    BY <1>2, <2>1, <2>2
<1>5. ASSUME NEW p \in Pods, NEW k \in Ids, RemoveContainer(p, k)
      PROVE  OneEach'
  <2>1. \A i \in sandboxes : sandbox'[i].pod = sandbox[i].pod
    BY <1>3, <1>5 DEF RemoveContainer, Sandbox, IInv, TypeOK
  <2> QED
    BY <1>2, <1>5, <2>1 DEF RemoveContainer
<1>6. ASSUME NEW p \in Pods, RemovePodSandbox(p)
      PROVE  OneEach'
  <2>1. \A i \in sandboxes : sandbox'[i].pod = sandbox[i].pod
    BY <1>3, <1>6 DEF RemovePodSandbox, Sandbox, IInv, TypeOK
  <2> QED
    BY <1>2, <1>6, <2>1 DEF RemovePodSandbox
<1>7. ASSUME NEW p \in Pods,
             \/ LetRunning(p) \/ (\E u \in Urls : PullImage(p, u)) \/ PullAnswered(p)
             \/ PullsDone(p) \/ StartContainer(p) \/ LetRunningReturns(p)
             \/ (\E k \in Ids : StopContainer(p, k)) \/ StopPodSandbox(p) \/ LetRemove(p)
      PROVE  OneEach'
  <2>1. SandboxesUnchanged
    BY <1>7 DEF LetRunning, PullImage, PullAnswered, PullsDone, StartContainer,
                LetRunningReturns, StopContainer, StopPodSandbox, LetRemove
  <2> QED
    BY <1>2, <2>1 DEF SandboxesUnchanged
<1>8. CASE \/ \E o \in Objects : FetchEnds(o)
           \/ \E u \in Urls : RemoveImage(u)
           \/ \E k \in Ids : OnReady(k) \/ ProgramExits(k) \/ OnFinished(k)
                             \/ KillTimer(k) \/ CleanupTimer(k)
           \/ UNCHANGED vars
  <2>1. SandboxesUnchanged
    BY <1>8 DEF FetchEnds, RemoveImage, OnReady, ProgramExits, OnFinished, KillTimer,
                CleanupTimer, SandboxesUnchanged, vars
  <2> QED
    BY <1>2, <2>1 DEF SandboxesUnchanged
<1>9. CASE Terminate
  BY <1>9 DEF Terminate, OneEach
<1> QED
  BY <1>1, <1>4, <1>5, <1>6, <1>7, <1>8, <1>9 DEF Next, ClientStep

(* What a pod sees of its container k.                                      *)
Seen(k, r) ==
    [id |-> k, state |-> r.state, stopping |-> r.killTimer /\ r.state # "exited"]

(* Its view when its sandbox i holds the containers ks. *)
ViewFrom(i, ks, con) ==
    [sandbox |-> i,
     box |-> [c \in Names |->
         IF \E k \in ks : con[k].name = c
         THEN LET k == CHOOSE l \in ks : con[l].name = c IN Seen(k, con[k])
         ELSE R!NoContainer]]

Unique(ks, con) == \A k, l \in ks : con[k].name = con[l].name => k = l

LEMMA ViewNone ==
    ASSUME NEW p \in Pods
    PROVE  SandboxesOf(p) = {} => ViewOf(p) = R!EmptyRuntime
BY DEF ViewOf

LEMMA ViewNonePrimed ==
    ASSUME NEW p \in Pods
    PROVE  (SandboxesOf(p) = {})' => (ViewOf(p) = R!EmptyRuntime)'
<1>1. (SandboxesOf(p) = {}) => (ViewOf(p) = R!EmptyRuntime)
  BY ViewNone
<1> QED
  BY <1>1, PTL

Sees(p, i) == IInv /\ OneEach /\ i \in sandboxes /\ sandbox[i].pod = p

LEMMA SandboxKnown ==
    ASSUME NEW p \in Pods, NEW i \in Ids, Sees(p, i)
    PROVE  /\ SandboxesOf(p) = {i} /\ ContainersOf(i) \subseteq containers
           /\ ContainersOf(i) \subseteq Ids /\ Unique(ContainersOf(i), container)
           /\ \A k \in ContainersOf(i) : container[k] \in Container /\ GoodLife(container[k])
<1>1. SandboxesOf(p) = {i}
  BY DEF Sees, OneEach, SandboxesOf
<1>2. ContainersOf(i) \subseteq containers
  BY DEF Sees, IInv, BoxInv, Linked
<1> QED
  BY <1>1, <1>2 DEF Unique, Sees, IInv, TypeOK, BoxInv, Fresh, Linked, Lives

LEMMA ViewIs ==
    ASSUME NEW p \in Pods, NEW i \in Ids
    PROVE  Sees(p, i) => ViewOf(p) = ViewFrom(i, ContainersOf(i), container)
<1> SUFFICES ASSUME Sees(p, i)
             PROVE  ViewOf(p) = ViewFrom(i, ContainersOf(i), container)
  OBVIOUS
<1>1. /\ SandboxesOf(p) = {i} /\ Unique(ContainersOf(i), container)
      /\ ContainersOf(i) \subseteq Nat
  BY SandboxKnown DEF Ids
<1> DEFINE named(c) == {k \in ContainersOf(i) : container[k].name = c}
<1>2. (CHOOSE s \in SandboxesOf(p) : TRUE) = i
  BY <1>1
<1> DEFINE BoxOf(c) ==
             IF named(c) = {} THEN R!NoContainer
             ELSE LET k == CHOOSE l \in named(c) : \A m \in named(c) : m <= l IN
                  [id |-> k, state |-> container[k].state,
                   stopping |-> container[k].killTimer /\ container[k].state # "exited"]
           BoxFrom(c) ==
             IF \E k \in ContainersOf(i) : container[k].name = c
             THEN LET k == CHOOSE l \in ContainersOf(i) : container[l].name = c
                  IN  Seen(k, container[k])
             ELSE R!NoContainer
<1>3. ASSUME NEW c \in Names
      PROVE  BoxOf(c) = BoxFrom(c)
  <2>1. CASE \A k \in ContainersOf(i) : container[k].name # c
    <3>1. named(c) = {}
      BY <2>1
    <3> HIDE DEF named
    <3> QED
      BY <2>1, <3>1
  <2>2. ASSUME NEW k \in ContainersOf(i), container[k].name = c
        PROVE  /\ named(c) = {k}
               /\ (CHOOSE l \in ContainersOf(i) : container[l].name = c) = k
               /\ (CHOOSE l \in named(c) : \A m \in named(c) : m <= l) = k
    <3>1. named(c) = {k}
      BY <1>1, <2>2 DEF Unique
    <3>2. (CHOOSE l \in ContainersOf(i) : container[l].name = c) = k
      BY <1>1, <2>2 DEF Unique
    <3> HIDE DEF named
    <3>3. (CHOOSE l \in named(c) : \A m \in named(c) : m <= l) \in named(c)
      <4>1. \A m \in named(c) : m <= k
        BY <1>1, <3>1
      <4> QED
        BY <3>1, <4>1
    <3> QED
      BY <3>1, <3>2, <3>3
  <2>3. CASE \E k \in ContainersOf(i) : container[k].name = c
    <3>1. PICK k \in ContainersOf(i) : container[k].name = c
      BY <2>3
    <3>2. named(c) = {k} /\ named(c) # {}
      BY <2>2, <3>1
    <3>3. (CHOOSE l \in ContainersOf(i) : container[l].name = c) = k
      BY <2>2, <3>1
    <3>4. (CHOOSE l \in named(c) : \A m \in named(c) : m <= l) = k
      BY <2>2, <3>1
    <3> HIDE DEF named
    <3> QED
      BY <2>3, <3>2, <3>3, <3>4 DEF Seen
  <2> QED
    BY <2>1, <2>3
<1>4. ViewOf(p) = [sandbox |-> i, box |-> [c \in Names |-> BoxOf(c)]]
  <2>1. SandboxesOf(p) # {}
    BY <1>1
  <2> QED
    BY <1>2, <2>1, Zenon DEF ViewOf
<1>5. ViewFrom(i, ContainersOf(i), container) = [sandbox |-> i, box |-> [c \in Names |-> BoxFrom(c)]]
  BY Zenon DEF ViewFrom
<1> HIDE DEF BoxOf, BoxFrom
<1> QED
  BY <1>3, <1>4, <1>5

LEMMA ViewIsPrimed ==
    ASSUME NEW p \in Pods, NEW i \in Ids
    PROVE  Sees(p, i)' => (ViewOf(p) = ViewFrom(i, ContainersOf(i), container))'
<1>1. Sees(p, i) => (ViewOf(p) = ViewFrom(i, ContainersOf(i), container))
  BY ViewIs
<1> QED
  BY <1>1, PTL
LEMMA ViewBox ==
    ASSUME NEW i, NEW ks, NEW con, Unique(ks, con), NEW k \in ks, con[k].name \in Names
    PROVE  ViewFrom(i, ks, con).box[con[k].name] = Seen(k, con[k])
<1>1. (CHOOSE l \in ks : con[l].name = con[k].name) = k
  BY DEF Unique
<1>2. \E l \in ks : con[l].name = con[k].name
  OBVIOUS
<1> QED
  BY <1>1, <1>2 DEF ViewFrom

LEMMA ViewEmpty ==
    ASSUME NEW i, NEW ks, NEW con, NEW c \in Names, \A k \in ks : con[k].name # c
    PROVE  ViewFrom(i, ks, con).box[c] = R!NoContainer
BY DEF ViewFrom

(* A view, and a view that differs in the container of one name. *)
IsView(v) == v = [sandbox |-> v.sandbox, box |-> v.box] /\ v.box = [n \in Names |-> v.box[n]]

With(v, c, b) == [sandbox |-> v.sandbox, box |-> [v.box EXCEPT ![c] = b]]

(* The containers of other names than c are the same, and look the same.    *)
SameBut(c, ks, con, ls, new) ==
    /\ \A k \in ks : con[k].name # c =>
          k \in ls /\ new[k].name = con[k].name /\ Seen(k, new[k]) = Seen(k, con[k])
    /\ \A k \in ls : new[k].name # c => k \in ks /\ con[k].name = new[k].name

(* Then the two views are equal but for the name c. *)
LEMMA ViewChanged ==
    ASSUME NEW i, NEW ks, NEW con, NEW ls, NEW new, NEW c \in Names,
           Unique(ks, con), Unique(ls, new), SameBut(c, ks, con, ls, new)
    PROVE  ViewFrom(i, ls, new) = With(ViewFrom(i, ks, con), c, ViewFrom(i, ls, new).box[c])
<1> DEFINE v == ViewFrom(i, ks, con)
           w == ViewFrom(i, ls, new)
<1>1. ASSUME NEW n \in Names, n # c
      PROVE  w.box[n] = v.box[n]
  <2>1. CASE \E k \in ks : con[k].name = n
    <3>1. PICK k \in ks : con[k].name = n
      BY <2>1
    <3>2. k \in ls /\ new[k].name = n /\ Seen(k, new[k]) = Seen(k, con[k])
      BY <1>1, <3>1 DEF SameBut
    <3>3. v.box[n] = Seen(k, con[k])
      BY <3>1, ViewBox
    <3>4. w.box[n] = Seen(k, new[k])
      BY <3>2, ViewBox
    <3> HIDE DEF v, w
    <3> QED
      BY <3>2, <3>3, <3>4
  <2>2. CASE \A k \in ks : con[k].name # n
    <3>1. \A k \in ls : new[k].name # n
      BY <1>1, <2>2 DEF SameBut
    <3> QED
      BY <2>2, <3>1, ViewEmpty
  <2> QED
    BY <2>1, <2>2
<1>2. /\ w = [sandbox |-> i, box |-> w.box] /\ DOMAIN w.box = Names
      /\ w.box = [n \in Names |-> w.box[n]]
      /\ v = [sandbox |-> i, box |-> v.box] /\ DOMAIN v.box = Names
      /\ v.box = [n \in Names |-> v.box[n]]
  BY DEF ViewFrom
<1> HIDE DEF v, w
<1>3. w.box = [v.box EXCEPT ![c] = w.box[c]]
  BY <1>1, <1>2
<1> QED
  BY <1>2, <1>3 DEF v, w, With

LEMMA ViewShape ==
    ASSUME NEW i, NEW ks, NEW con
    PROVE  IsView(ViewFrom(i, ks, con)) /\ ViewFrom(i, ks, con).sandbox = i
BY DEF ViewFrom, IsView

LEMMA ViewSame ==
    ASSUME NEW i, NEW ks, NEW con, NEW new, Unique(ks, con),
           \A k \in ks : new[k].name = con[k].name /\ Seen(k, new[k]) = Seen(k, con[k])
    PROVE  ViewFrom(i, ks, new) = ViewFrom(i, ks, con)
<1> DEFINE v == ViewFrom(i, ks, con)
           w == ViewFrom(i, ks, new)
<1>1. ASSUME NEW n \in Names
      PROVE  w.box[n] = v.box[n]
  <2>1. CASE \E k \in ks : con[k].name = n
    <3>1. PICK k \in ks : con[k].name = n
      BY <2>1
    <3>2. Unique(ks, new)
      BY DEF Unique
    <3>3. v.box[n] = Seen(k, con[k])
      BY <3>1, ViewBox
    <3>4. w.box[n] = Seen(k, new[k])
      BY <3>1, <3>2, ViewBox
    <3> HIDE DEF v, w
    <3> QED
      BY <3>3, <3>4
  <2>2. CASE \A k \in ks : con[k].name # n
    BY <2>2, ViewEmpty
  <2> QED
    BY <2>1, <2>2
<1>2. v = [sandbox |-> i, box |-> v.box] /\ v.box = [n \in Names |-> v.box[n]]
  BY ViewShape DEF IsView
<1>3. w = [sandbox |-> i, box |-> w.box] /\ w.box = [n \in Names |-> w.box[n]]
  BY ViewShape DEF IsView
<1> HIDE DEF v, w
<1>4. w.box = v.box
  BY <1>1, <1>2, <1>3
<1> QED
  BY <1>2, <1>3, <1>4 DEF v, w

-----------------------------------------------------------------------------
(* The steps of one name: b is what becomes of its container. *)

No == FALSE

Shown(id, state) == [id |-> id, state |-> state, stopping |-> No]

LEMMA WithIs ==
    ASSUME NEW v, IsView(v), NEW c \in Names, NEW b
    PROVE  /\ With(v, c, b) = [v EXCEPT !.box[c] = b] /\ With(v, c, b).box[c] = b
           /\ \A a : With(With(v, c, a), c, b) = With(v, c, b)
           /\ IsView(With(v, c, b))
BY DEF With, IsView

Become(r, s) == [r EXCEPT !.state = s]

Ended(r) == [r EXCEPT !.state = "exited", !.stopping = FALSE]

LEMMA WithFinish ==
    ASSUME NEW v, IsView(v), NEW c \in Names
    PROVE  R!Finish(v, c) = With(v, c, Ended(v.box[c]))
BY DEF With, IsView, R!Finish, Ended

LEMMA ShownEnded ==
    ASSUME NEW id, NEW a, NEW b, NEW r, r = [id |-> id, state |-> a, stopping |-> b]
    PROVE  Ended(r) = Shown(id, "exited")
<1> DEFINE q == Become(r, "exited")
<1>1. Ended(r) = [r EXCEPT !.state = "exited", !.stopping = No]
  BY Zenon DEF No, Ended
<1>2. Ended(r) = [q EXCEPT !.stopping = No]
  BY <1>1 DEF Become
<1>3. q = [id |-> id, state |-> "exited", stopping |-> b]
  BY DEF Become
<1> HIDE DEF q
<1>4. [q EXCEPT !.stopping = No] = Shown(id, "exited")
  BY <1>3 DEF Shown
<1> QED
  BY <1>2, <1>4, Zenon

LEMMA Started ==
    ASSUME NEW v, IsView(v), NEW c \in Names, NEW id,
           NEW u, u = With(v, c, Shown(id, "running"))
    PROVE  /\ R!CreateAndStart(v, c, id) = u
           /\ R!CreateContainer(v, c, id) = With(v, c, Shown(id, "created"))
           /\ R!Finish(u, c) = With(v, c, Shown(id, "exited"))
<1>1. u = [v EXCEPT !.box[c] = Shown(id, "running")]
  BY WithIs
<1>2. R!CreateAndStart(v, c, id) = u
  BY <1>1, Zenon DEF R!CreateAndStart, Shown, No
<1>3. IsView(u) /\ u.box[c] = Shown(id, "running")
  BY WithIs
<1>4. \A b : With(u, c, b) = With(v, c, b)
  BY WithIs
<1>5. [v EXCEPT !.box[c] = Shown(id, "created")] = With(v, c, Shown(id, "created"))
  BY WithIs
<1>6. Ended(u.box[c]) = Shown(id, "exited")
  BY <1>3, ShownEnded DEF Shown
<1>7. R!CreateContainer(v, c, id) = With(v, c, Shown(id, "created"))
  BY <1>5, Zenon DEF R!CreateContainer, Shown, No
<1>8. R!Finish(u, c) = With(u, c, Ended(u.box[c]))
  BY <1>3, WithFinish
<1> QED
  BY <1>2, <1>4, <1>6, <1>7, <1>8

LEMMA CreationStep ==
    ASSUME NEW v, IsView(v), NEW c \in Names, NEW id, v.box[c] = R!NoContainer
    PROVE  RuntimeStep(v, With(v, c, Shown(id, "created")))
<1> DEFINE new == With(v, c, Shown(id, "created"))
<1>1. new.box[c].id = id
  BY WithIs DEF Shown
<1>2. ~ R!Exists(v, c)
  BY DEF R!Exists, R!NoContainer
<1>3. R!CreateContainer(v, c, id) = new
  BY Started
<1> HIDE DEF new
<1> QED
  BY <1>1, <1>2, <1>3 DEF RuntimeStep, new

LEMMA StartStep ==
    ASSUME NEW v, IsView(v), NEW c \in Names, NEW id, v.box[c] = Shown(id, "created"),
           NEW s \in {"running", "exited"}
    PROVE  RuntimeStep(v, With(v, c, Shown(id, s)))
<1> DEFINE new == With(v, c, Shown(id, s))
           started == R!CreateAndStart(v, c, new.box[c].id)
<1>1. new.box[c].id = id /\ v.box[c].id = id /\ v.box[c].state = "created"
  BY WithIs DEF Shown
<1>2. started = With(v, c, Shown(id, "running"))
  BY <1>1, Started
<1> HIDE DEF new
<1>3. new \in {started, R!Finish(started, c)}
  <2> HIDE DEF started
  <2> QED
    BY <1>2, Started DEF new
<1> QED
  BY <1>1, <1>3 DEF RuntimeStep, new

LEMMA FinishStep ==
    ASSUME NEW v, IsView(v), NEW c \in Names, NEW id, NEW stopping,
           v.box[c] = [id |-> id, state |-> "running", stopping |-> stopping]
    PROVE  RuntimeStep(v, With(v, c, Shown(id, "exited")))
<1> DEFINE new == With(v, c, Shown(id, "exited"))
<1>1. new = R!Finish(v, c)
  BY WithFinish, ShownEnded
<1>2. R!Live(v, c)
  BY DEF R!Live
<1> HIDE DEF new
<1> QED
  BY <1>1, <1>2 DEF RuntimeStep, new

LEMMA RemovalStep ==
    ASSUME NEW v, IsView(v), NEW c \in Names
    PROVE  RuntimeStep(v, With(v, c, R!NoContainer))
<1>1. With(v, c, R!NoContainer) = [v EXCEPT !.box[c] = R!NoContainer]
  BY WithIs
<1> QED
  BY <1>1 DEF RuntimeStep

LEMMA StopStep ==
    ASSUME NEW v, IsView(v), NEW w, IsView(w), w.sandbox = v.sandbox,
           \A c \in Names : \/ w.box[c] = v.box[c]
                            \/ /\ R!Live(v, c)
                               /\ w.box[c] = [v.box[c] EXCEPT !.stopping = TRUE]
    PROVE  RuntimeStep(v, w)
<1> DEFINE stopped == {c \in Names : R!Live(v, c) /\ w.box[c] = [v.box[c] EXCEPT !.stopping = TRUE]}
           f == [c \in Names |-> IF c \in stopped THEN R!StopContainer(v, c).box[c] ELSE v.box[c]]
<1>1. \A c \in Names : R!StopContainer(v, c).box[c] = [v.box[c] EXCEPT !.stopping = TRUE]
  BY DEF R!StopContainer, IsView
<1>2. w.box = f
  BY <1>1 DEF IsView
<1>3. w = [v EXCEPT !.box = f]
  BY <1>2 DEF IsView
<1>4. stopped \in SUBSET {c \in Names : R!Live(v, c)}
  OBVIOUS
<1> HIDE DEF stopped
<1> QED
  BY <1>3, <1>4 DEF RuntimeStep

LEMMA EmptyStep == \A v : RuntimeStep(v, R!EmptyRuntime)
BY DEF RuntimeStep, R!RemoveSandbox

LEMMA SeenShown ==
    ASSUME NEW k, NEW r, ~ r.killTimer \/ r.state = "exited"
    PROVE  Seen(k, r) = Shown(k, r.state)
<1>1. (r.killTimer /\ r.state # "exited") = FALSE
  OBVIOUS
<1> QED
  BY <1>1, Zenon DEF Seen, Shown, No

Yes == TRUE

Stopping(r) == [r EXCEPT !.stopping = TRUE]

LEMMA StoppingIs ==
    ASSUME NEW id, NEW s, NEW z, NEW r, r = [id |-> id, state |-> s, stopping |-> z]
    PROVE  Stopping(r) = [id |-> id, state |-> s, stopping |-> TRUE]
<1>1. [r EXCEPT !.stopping = Yes] = [id |-> id, state |-> s, stopping |-> Yes]
  OBVIOUS
<1> QED
  BY <1>1, Zenon DEF Yes, Stopping

LEMMA SeenStopped ==
    ASSUME NEW k, NEW r \in Container, GoodLife(r)
    PROVE  \/ Seen(k, Stopped(r)) = Seen(k, r)
           \/ /\ r.state = "running"
              /\ Seen(k, Stopped(r)) = Stopping(Seen(k, r))
<1>1. CASE r.worker = "none"
  BY <1>1 DEF Stopped
<1>2. CASE r.worker # "none"
  <2> DEFINE s == Stopped(r)
  <2>1. s.state = r.state /\ s.killTimer = TRUE
    BY <1>2 DEF Stopped, Container
  <2>2. r.state \in {"running", "exited"}
    BY <1>2 DEF GoodLife, Container
  <2> HIDE DEF s
  <2>3. CASE r.state = "exited"
    BY <2>1, <2>3, SeenShown DEF s
  <2>4. CASE r.state = "running"
    <3>1. (s.killTimer /\ s.state # "exited") = TRUE
      BY <2>1, <2>4
    <3>2. Seen(k, s) = [id |-> k, state |-> r.state, stopping |-> TRUE]
      BY <2>1, <3>1, Zenon DEF Seen
    <3>3. Stopping(Seen(k, r)) = [id |-> k, state |-> r.state, stopping |-> TRUE]
      BY StoppingIs, Zenon DEF Seen
    <3> QED
      BY <2>4, <3>2, <3>3 DEF s
  <2> QED
    BY <2>2, <2>3, <2>4
<1> QED
  BY <1>1, <1>2

-----------------------------------------------------------------------------
(* What a step does to the view of a pod. *)

Changes(p) == ViewOf(p)' = ViewOf(p) \/ RuntimeStep(ViewOf(p), ViewOf(p)')

LEMMA ViewUnchanged ==
    ASSUME IInv, OneEach, IInv', OneEach', NEW p \in Pods,
           \A i \in Ids : (i \in sandboxes /\ sandbox[i].pod = p)
                          <=> (i \in sandboxes' /\ sandbox'[i].pod = p),
           \A i \in sandboxes : sandbox[i].pod = p =>
               /\ sandbox'[i].containers = ContainersOf(i)
               /\ \A k \in ContainersOf(i) : /\ container'[k].name = container[k].name
                                             /\ Seen(k, container'[k]) = Seen(k, container[k])
    PROVE  Changes(p)
<1>1. CASE SandboxesOf(p) = {}
  <2>1. sandboxes' \subseteq Ids
    BY DEF IInv, TypeOK
  <2>2. (SandboxesOf(p) = {})'
    BY <1>1, <2>1 DEF SandboxesOf
  <2>3. ViewOf(p) = R!EmptyRuntime
    BY <1>1, ViewNone
  <2>4. (ViewOf(p) = R!EmptyRuntime)'
    BY <2>2, ViewNonePrimed
  <2> QED
    BY <2>3, <2>4 DEF Changes
<1>2. ASSUME NEW i \in Ids, i \in sandboxes, sandbox[i].pod = p
      PROVE  Changes(p)
  <2>1. Sees(p, i)
    BY <1>2 DEF Sees
  <2>2. Sees(p, i)'
    BY <1>2 DEF Sees
  <2>3. ViewOf(p) = ViewFrom(i, ContainersOf(i), container)
    BY <2>1, ViewIs
  <2>4. (ViewOf(p) = ViewFrom(i, ContainersOf(i), container))'
    BY <2>2, ViewIsPrimed
  <2>5. ViewOf(p)' = ViewFrom(i, ContainersOf(i), container')
    BY <1>2, <2>4 DEF ContainersOf
  <2>6. Unique(ContainersOf(i), container)
    BY <2>1, SandboxKnown
  <2>7. ViewFrom(i, ContainersOf(i), container') = ViewFrom(i, ContainersOf(i), container)
    BY <1>2, <2>6, ViewSame
  <2> QED
    BY <2>3, <2>5, <2>7 DEF Changes
<1> QED
  BY <1>1, <1>2 DEF SandboxesOf, IInv, TypeOK

LEMMA UniquePrimed ==
    ASSUME NEW p \in Pods, NEW i \in Ids
    PROVE  Sees(p, i)' => Unique(ContainersOf(i), container)'
<1>1. Sees(p, i) => Unique(ContainersOf(i), container)
  BY SandboxKnown
<1> QED
  BY <1>1, PTL

(* The view of the pod whose sandbox is i, before and after a step. *)
LEMMA ViewPair ==
    ASSUME IInv, OneEach, IInv', OneEach', NEW p \in Pods, NEW i \in Ids,
           i \in sandboxes, sandbox[i].pod = p, i \in sandboxes', sandbox'[i].pod = p
    PROVE  /\ ViewOf(p) = ViewFrom(i, ContainersOf(i), container)
           /\ ViewOf(p)' = ViewFrom(i, sandbox'[i].containers, container')
           /\ Unique(ContainersOf(i), container)
           /\ Unique(sandbox'[i].containers, container')
<1>1. Sees(p, i)
  BY DEF Sees
<1>2. Sees(p, i)'
  BY DEF Sees
<1>3. ViewOf(p) = ViewFrom(i, ContainersOf(i), container)
  BY <1>1, ViewIs
<1>4. (ViewOf(p) = ViewFrom(i, ContainersOf(i), container))'
  BY <1>2, ViewIsPrimed
<1>5. Unique(ContainersOf(i), container)
  BY <1>1, SandboxKnown
<1>6. Unique(ContainersOf(i), container)'
  BY <1>2, UniquePrimed
<1> QED
  BY <1>3, <1>4, <1>5, <1>6 DEF ContainersOf

(* Steps that change one container. *)
LEMMA OneSeen ==
    ASSUME IInv, OneEach, IInv', OneEach', NEW p \in Pods, NEW k \in Ids, k \in containers,
           SandboxesUnchanged, \A l \in Ids : l # k => container'[l] = container[l],
           container'[k].name = container[k].name
    PROVE  \/ Changes(p)
           \/ /\ IsView(ViewOf(p)) /\ container[k].name \in Names
              /\ ViewOf(p).box[container[k].name] = Seen(k, container[k])
              /\ ViewOf(p)' = With(ViewOf(p), container[k].name, Seen(k, container'[k]))
<1>1. PICK j \in Ids : j = container[k].sandbox
  BY DEF IInv, BoxInv, Fresh, Container
<1>2. /\ j \in sandboxes /\ k \in ContainersOf(j) /\ container[k].name \in Names
      /\ \A i \in sandboxes : k \in ContainersOf(i) => i = j
      /\ \A i \in sandboxes : ContainersOf(i) \subseteq Ids
  BY <1>1 DEF IInv, TypeOK, BoxInv, Linked, Fresh, Container
<1>3. CASE sandbox[j].pod # p
  <2>1. \A i \in sandboxes : sandbox[i].pod = p =>
            \A l \in ContainersOf(i) : l \in Ids /\ l # k
    BY <1>2, <1>3
  <2> QED
    BY <2>1, ViewUnchanged DEF SandboxesUnchanged, ContainersOf
<1>4. CASE sandbox[j].pod = p
  <2> DEFINE ks == ContainersOf(j)
             c == container[k].name
             v == ViewFrom(j, ks, container)
             w == ViewFrom(j, ks, container')
  <2>1. /\ ViewOf(p) = v /\ ViewOf(p)' = w
        /\ Unique(ks, container) /\ Unique(ks, container')
    BY <1>2, <1>4, ViewPair DEF SandboxesUnchanged, ContainersOf
  <2>2. w = With(v, c, w.box[c])
    <3>1. \A l \in ks : container'[l].name = container[l].name
      BY <1>2
    <3>2. \A l \in ks : container[l].name # c =>
              l \in ks /\ container'[l].name = container[l].name
              /\ Seen(l, container'[l]) = Seen(l, container[l])
      BY <1>2
    <3>3. \A l \in ks : container'[l].name # c => l \in ks /\ container[l].name = container'[l].name
      BY <3>1
    <3> HIDE DEF ks, c
    <3>4. c \in Names
      BY <1>2 DEF c
    <3>5. SameBut(c, ks, container, ks, container')
      BY <3>2, <3>3 DEF SameBut
    <3> QED
      BY <2>1, <3>4, <3>5, ViewChanged
  <2>3. v.box[c] = Seen(k, container[k]) /\ w.box[c] = Seen(k, container'[k])
    BY <1>2, <2>1, ViewBox
  <2>4. IsView(v)
    BY ViewShape
  <2> HIDE DEF v, w
  <2>5. w = With(v, c, Seen(k, container'[k]))
    BY <2>2, <2>3
  <2> QED
    BY <1>2, <2>1, <2>3, <2>4, <2>5
<1> QED
  BY <1>3, <1>4

(* Steps that stop some containers. *)
LEMMA SomeStopped ==
    ASSUME IInv, OneEach, IInv', OneEach', NEW p \in Pods, SandboxesUnchanged,
           \A k \in containers : container'[k] \in {container[k], Stopped(container[k])}
    PROVE  Changes(p)
<1>1. CASE \A i \in sandboxes : sandbox[i].pod # p
  BY <1>1, ViewUnchanged DEF SandboxesUnchanged
<1>2. ASSUME NEW i \in Ids, i \in sandboxes, sandbox[i].pod = p
      PROVE  Changes(p)
  <2> DEFINE ks == ContainersOf(i)
             v == ViewFrom(i, ks, container)
             w == ViewFrom(i, ks, container')
  <2>1. /\ ViewOf(p) = v /\ ViewOf(p)' = w
        /\ Unique(ks, container) /\ Unique(ks, container')
    BY <1>2, ViewPair DEF SandboxesUnchanged, ContainersOf
  <2>2. \A k \in ks : /\ k \in containers /\ container[k] \in Container /\ GoodLife(container[k])
                      /\ container[k].name \in Names
    BY <1>2 DEF IInv, BoxInv, Linked, Fresh, Lives, Container
  <2>3. \A k \in ks : container'[k].name = container[k].name
    BY <2>2, StoppedLives
  <2>4. ASSUME NEW c \in Names
        PROVE  \/ w.box[c] = v.box[c]
               \/ /\ R!Live(v, c)
                  /\ w.box[c] = Stopping(v.box[c])
    <3>1. CASE \A k \in ks : container[k].name # c
      BY <2>3, <3>1, ViewEmpty
    <3>2. ASSUME NEW k \in ks, container[k].name = c
          PROVE  \/ w.box[c] = v.box[c]
                 \/ /\ R!Live(v, c)
                    /\ w.box[c] = Stopping(v.box[c])
      <4>1. v.box[c] = Seen(k, container[k])
        BY <2>1, <3>2, ViewBox
      <4>2. w.box[c] = Seen(k, container'[k])
        BY <2>1, <2>3, <3>2, ViewBox
      <4> HIDE DEF v, w, ks
      <4>3. CASE container'[k] = container[k]
        BY <4>1, <4>2, <4>3
      <4>4. CASE container'[k] = Stopped(container[k])
        <5>1. Seen(k, container[k]).state = container[k].state
          BY DEF Seen
        <5>2. \/ Seen(k, Stopped(container[k])) = Seen(k, container[k])
              \/ /\ container[k].state = "running"
                 /\ Seen(k, Stopped(container[k])) = Stopping(Seen(k, container[k]))
          BY <2>2, <3>2, SeenStopped
        <5> QED
          BY <4>1, <4>2, <4>4, <5>1, <5>2 DEF R!Live
      <4> QED
        BY <2>2, <4>3, <4>4
    <3> QED
      BY <3>1, <3>2
  <2>5. IsView(v) /\ IsView(w) /\ w.sandbox = v.sandbox
    BY ViewShape
  <2> HIDE DEF v, w
  <2> QED
    BY <2>1, <2>4, <2>5, StopStep DEF Changes, Stopping
<1> QED
  BY <1>1, <1>2 DEF IInv, TypeOK

-----------------------------------------------------------------------------
(* The steps *)

(* Steps of timers and workers. *)
LEMMA QuietStep ==
    ASSUME IInv, OneEach, IInv', OneEach', NEW p \in Pods, NEW k \in Ids,
           OnReady(k) \/ ProgramExits(k) \/ CleanupTimer(k)
    PROVE  Changes(p)
<1>1. container[k] \in Container /\ SandboxesUnchanged
  BY Living DEF OnReady, ProgramExits, CleanupTimer
<1>2. \A l \in Ids : l # k => container'[l] = container[l]
  BY DEF OnReady, ProgramExits, CleanupTimer, IInv, TypeOK
<1>3. /\ container'[k].name = container[k].name /\ container'[k].state = container[k].state
      /\ container'[k].killTimer = container[k].killTimer
  <2> DEFINE r(w) == [container[k] EXCEPT !.worker = w]
             c(w) == [r(w) EXCEPT !.cleanupTimer = FALSE]
  <2>1. \E w \in Workers : container'[k] \in {r(w), c(w)}
    BY DEF OnReady, ProgramExits, CleanupTimer, CleanedUp, Workers, IInv, TypeOK
  <2>2. PICK w \in Workers : container'[k] \in {r(w), c(w)}
    BY <2>1
  <2>3. r(w) \in Container /\ r(w).name = container[k].name /\ r(w).state = container[k].state
        /\ r(w).killTimer = container[k].killTimer
    BY <1>1 DEF Container
  <2> HIDE DEF r
  <2>4. c(w).name = r(w).name /\ c(w).state = r(w).state /\ c(w).killTimer = r(w).killTimer
    BY <2>3 DEF Container
  <2> HIDE DEF c
  <2> QED
    BY <2>2, <2>3, <2>4
<1>4. Seen(k, container'[k]) = Seen(k, container[k])
  BY <1>3, Zenon DEF Seen
<1>5. \A i \in sandboxes : ContainersOf(i) \subseteq Ids
  BY DEF IInv, TypeOK, BoxInv, Linked
<1>6. \A l \in Ids : container'[l].name = container[l].name
                     /\ Seen(l, container'[l]) = Seen(l, container[l])
  BY <1>2, <1>3, <1>4
<1> QED
  BY <1>1, <1>5, <1>6, ViewUnchanged DEF SandboxesUnchanged, ContainersOf

LEMMA ExitStep ==
    ASSUME IInv, OneEach, IInv', OneEach', NEW p \in Pods, NEW k \in Ids,
           OnFinished(k) \/ KillTimer(k)
    PROVE  Changes(p)
<1>1. /\ k \in containers /\ container[k] \in Container /\ GoodLife(container[k])
      /\ SandboxesUnchanged
  BY Living DEF OnFinished, KillTimer
<1>2. \A l \in Ids : l # k => container'[l] = container[l]
  BY DEF OnFinished, KillTimer, IInv, TypeOK
<1>3. container'[k].name = container[k].name /\ container'[k].state = "exited"
  <2>1. CASE OnFinished(k)
    BY <1>1, <2>1 DEF OnFinished, Container, IInv, TypeOK
  <2>2. CASE KillTimer(k)
    <3>1. /\ Killed(container[k]) \in Container /\ Killed(container[k]).state = "exited"
          /\ Killed(container[k]).name = container[k].name
      BY <1>1 DEF Killed, Container
    <3>2. container'[k] = [CleanedUp(Killed(container[k])) EXCEPT !.killTimer = FALSE]
      BY <2>2 DEF KillTimer, IInv, TypeOK
    <3> QED
      BY <3>1, <3>2 DEF CleanedUp, Container
  <2> QED
    BY <2>1, <2>2
<1>4. container[k].state \in {"running", "exited"}
  BY <1>1 DEF OnFinished, KillTimer, GoodLife, Container
<1>5. Seen(k, container'[k]) = Shown(k, "exited")
  BY <1>3, SeenShown
<1>6. CASE container[k].state = "exited"
  <2>1. Seen(k, container[k]) = Shown(k, "exited")
    BY <1>6, SeenShown
  <2>2. \A i \in sandboxes : ContainersOf(i) \subseteq Ids
    BY DEF IInv, TypeOK, BoxInv, Linked
  <2>3. \A l \in Ids : container'[l].name = container[l].name
                       /\ Seen(l, container'[l]) = Seen(l, container[l])
    BY <1>2, <1>3, <1>5, <2>1
  <2> QED
    BY <1>1, <2>2, <2>3, ViewUnchanged DEF SandboxesUnchanged, ContainersOf
<1>7. CASE container[k].state = "running"
  <2>1. PICK s : Seen(k, container[k]) = [id |-> k, state |-> "running", stopping |-> s]
    BY <1>7, Zenon DEF Seen
  <2>2. CASE /\ IsView(ViewOf(p)) /\ container[k].name \in Names
             /\ ViewOf(p).box[container[k].name] = Seen(k, container[k])
             /\ ViewOf(p)' = With(ViewOf(p), container[k].name, Seen(k, container'[k]))
    BY <1>5, <2>1, <2>2, FinishStep DEF Changes
  <2> QED
    BY <1>1, <1>2, <1>3, <2>2, OneSeen
<1> QED
  BY <1>4, <1>6, <1>7

LEMMA StartingStep ==
    ASSUME IInv, OneEach, IInv', OneEach', NEW p \in Pods, NEW q \in Pods, StartContainer(q)
    PROVE  Changes(p)
<1>1. PICK k \in Ids : k = client[q].made
  BY DEF StartContainer, IInv, TypeOK
<1>2. /\ k \in containers /\ container[k] \in Container /\ container[k].state = "created"
      /\ GoodLife(container[k]) /\ SandboxesUnchanged
  BY <1>1 DEF StartContainer, IInv, BoxInv, OwnSandbox, Fresh, Lives
<1>3. PICK r : /\ container' = [container EXCEPT ![k] = r]
               /\ r \in {[container[k] EXCEPT !.state = "running", !.worker = "loading"],
                         [container[k] EXCEPT !.state = "exited", !.exit = "refused"]}
  <2>1. container' = [container EXCEPT ![k] =
              IF CanStart(q, @) THEN [@ EXCEPT !.state = "running", !.worker = "loading"]
              ELSE [@ EXCEPT !.state = "exited", !.exit = "refused"]]
    BY <1>1 DEF StartContainer
  <2> QED
    BY <2>1
<1>4. /\ r.name = container[k].name /\ r.state \in {"running", "exited"}
      /\ r.killTimer = container[k].killTimer
  BY <1>2, <1>3 DEF Container
<1>5. container'[k] = r /\ \A l \in Ids : l # k => container'[l] = container[l]
  BY <1>3 DEF IInv, TypeOK
<1>6. ~ container[k].killTimer
  BY <1>2 DEF GoodLife
<1>7. Seen(k, container[k]) = Shown(k, "created") /\ Seen(k, r) = Shown(k, r.state)
  BY <1>2, <1>4, <1>6, SeenShown
<1>8. CASE /\ IsView(ViewOf(p)) /\ container[k].name \in Names
           /\ ViewOf(p).box[container[k].name] = Seen(k, container[k])
           /\ ViewOf(p)' = With(ViewOf(p), container[k].name, Seen(k, container'[k]))
  BY <1>4, <1>5, <1>7, <1>8, StartStep DEF Changes
<1> QED
  BY <1>2, <1>4, <1>5, <1>8, OneSeen

LEMMA StoppingStep ==
    ASSUME IInv, OneEach, IInv', OneEach', NEW p \in Pods, NEW q \in Pods,
           StopPodSandbox(q) \/ \E k \in Ids : StopContainer(q, k)
    PROVE  Changes(p)
<1>1. SandboxesUnchanged /\ containers \subseteq Ids
  BY DEF StopPodSandbox, StopContainer, IInv, TypeOK
<1>2. \A k \in containers : container'[k] \in {container[k], Stopped(container[k])}
  <2>1. CASE StopPodSandbox(q)
    BY <1>1, <2>1 DEF StopPodSandbox
  <2>2. ASSUME NEW k \in Ids, StopContainer(q, k)
        PROVE  \A l \in containers : container'[l] \in {container[l], Stopped(container[l])}
    BY <1>1, <2>2 DEF StopContainer, IInv, TypeOK
  <2> QED
    BY <2>1, <2>2
<1> QED
  BY <1>1, <1>2, SomeStopped

LEMMA SandboxStep ==
    ASSUME IInv, OneEach, IInv', OneEach', NEW p \in Pods, NEW q \in Pods, RunPodSandbox(q)
    PROVE  Changes(p)
<1>1. PICK i \in Ids : i = nextId
  BY DEF RunPodSandbox
<1>2. /\ sandboxes' = sandboxes \cup {i} /\ i \notin sandboxes
      /\ sandbox' = [sandbox EXCEPT ![i] = [pod |-> q, containers |-> {}]]
      /\ \A j \in sandboxes : sandbox[j].pod # q
      /\ UNCHANGED container /\ sandboxes \subseteq Ids
  BY <1>1 DEF RunPodSandbox, Duplicate, ContainersUnchanged, IInv, BoxInv, Fresh, TypeOK
<1>3. /\ \A j \in sandboxes : sandbox'[j] = sandbox[j]
      /\ sandbox'[i] = [pod |-> q, containers |-> {}]
  BY <1>2 DEF IInv, TypeOK
<1>4. CASE p # q
  <2>1. \A j \in Ids : (j \in sandboxes /\ sandbox[j].pod = p)
                       <=> (j \in sandboxes' /\ sandbox'[j].pod = p)
    BY <1>2, <1>3, <1>4
  <2> QED
    BY <1>2, <1>3, <2>1, ViewUnchanged DEF ContainersOf
<1>5. CASE p = q
  <2>1. SandboxesOf(p) = {}
    BY <1>2, <1>5 DEF SandboxesOf
  <2>2. ViewOf(p) = R!EmptyRuntime
    BY <2>1, ViewNone
  <2>3. Sees(p, i)'
    BY <1>2, <1>3, <1>5 DEF Sees
  <2>4. (ViewOf(p) = ViewFrom(i, ContainersOf(i), container))'
    BY <2>3, ViewIsPrimed
  <2>5. ViewOf(p)' = ViewFrom(i, {}, container)
    BY <1>2, <1>3, <2>4 DEF ContainersOf
  <2>6. ViewFrom(i, {}, container) = [sandbox |-> i, box |-> [c \in Names |-> R!NoContainer]]
    BY DEF ViewFrom
  <2>7. R!RunPodSandbox(R!EmptyRuntime, i) =
            [sandbox |-> i, box |-> [c \in Names |-> R!NoContainer]]
    BY DEF R!RunPodSandbox, R!EmptyRuntime
  <2> DEFINE w == [sandbox |-> i, box |-> [c \in Names |-> R!NoContainer]]
  <2>8. w.sandbox = i
    OBVIOUS
  <2>9. ViewOf(p)' = w
    BY <2>5, <2>6
  <2>10. R!EmptyRuntime.sandbox = NoId
    BY DEF R!EmptyRuntime, NoId, R!NoId
  <2> HIDE DEF w
  <2>11. RuntimeStep(R!EmptyRuntime, w)
    BY <2>7, <2>8, <2>10 DEF RuntimeStep, w
  <2> QED
    BY <2>2, <2>9, <2>11 DEF Changes
<1> QED
  BY <1>4, <1>5

LEMMA CreatingStep ==
    ASSUME IInv, OneEach, IInv', OneEach', NEW p \in Pods, NEW q \in Pods,
           NEW c \in Names, CreateContainer(q, c)
    PROVE  Changes(p)
<1>1. PICK i \in Ids : i = client[q].sandbox
  BY DEF CreateContainer, IInv, TypeOK
<1>2. /\ i \in sandboxes /\ sandbox[i].pod = q /\ sandbox[i] \in Sandbox
      /\ sandboxes \subseteq Ids /\ c \notin NamesIn(i) /\ sandboxes' = sandboxes
  BY <1>1 DEF CreateContainer, SandboxesUnchanged, IInv, TypeOK, BoxInv, OwnSandbox, Fresh, NoId, Ids
<1>3. CASE SandboxesUnchanged /\ ContainersUnchanged
  BY <1>3, ViewUnchanged DEF SandboxesUnchanged, ContainersUnchanged, ContainersOf
<1>4. CASE ~ (SandboxesUnchanged /\ ContainersUnchanged)
  <2> DEFINE o == images[ImageOf[<<q, c>>]]
  <2>1. PICK k \in Ids :
            /\ k = nextId
            /\ container' = [container EXCEPT ![k] = NewContainer(i, c, o)]
            /\ sandbox' = [sandbox EXCEPT ![i].containers = @ \cup {k}]
    BY <1>1, <1>4 DEF CreateContainer
  <2>2. /\ k \notin containers /\ container'[k] = NewContainer(i, c, o)
        /\ \A l \in Ids : l # k => container'[l] = container[l]
        /\ \A j \in sandboxes : ContainersOf(j) \subseteq containers /\ ContainersOf(j) \subseteq Ids
    BY <2>1 DEF IInv, TypeOK, BoxInv, Fresh, Linked
  <2>3. /\ \A j \in sandboxes : j # i => sandbox'[j] = sandbox[j]
        /\ sandbox'[i].pod = q /\ sandbox'[i].containers = ContainersOf(i) \cup {k}
    BY <1>2, <2>1 DEF IInv, TypeOK, Sandbox, ContainersOf
  <2>4. NewContainer(i, c, o).name = c /\ NewContainer(i, c, o).state = "created"
        /\ NewContainer(i, c, o).killTimer = FALSE
    BY DEF NewContainer
  <2>5. CASE p # q
    <3>1. \A j \in Ids : (j \in sandboxes /\ sandbox[j].pod = p)
                         <=> (j \in sandboxes' /\ sandbox'[j].pod = p)
      BY <1>2, <2>3, <2>5
    <3>2. \A j \in sandboxes : sandbox[j].pod = p =>
              sandbox'[j].containers = ContainersOf(j)
              /\ \A l \in ContainersOf(j) : container'[l] = container[l]
      BY <1>2, <2>2, <2>3, <2>5 DEF ContainersOf
    <3> QED
      BY <3>1, <3>2, ViewUnchanged
  <2>6. CASE p = q
    <3> DEFINE ks == ContainersOf(i)
               ls == ks \cup {k}
               v == ViewFrom(i, ks, container)
               w == ViewFrom(i, ls, container')
    <3>1. /\ ViewOf(p) = v /\ ViewOf(p)' = w
          /\ Unique(ks, container) /\ Unique(ls, container')
      BY <1>2, <2>3, <2>6, ViewPair
    <3>2. \A l \in ks : l # k /\ container'[l] = container[l] /\ container[l].name # c
      BY <1>2, <2>2 DEF NamesIn
    <3>3. container'[k].name = c /\ k \in ls
      BY <2>2, <2>4
    <3>4. \A l \in ks : container[l].name # c =>
              l \in ls /\ container'[l].name = container[l].name
              /\ Seen(l, container'[l]) = Seen(l, container[l])
      BY <3>2
    <3>5. \A l \in ls : container'[l].name # c => l \in ks /\ container[l].name = container'[l].name
      BY <3>2, <3>3
    <3> HIDE DEF ls, ks
    <3>6. w = With(v, c, w.box[c])
      <4>1. SameBut(c, ks, container, ls, container')
        BY <3>4, <3>5 DEF SameBut
      <4> QED
        BY <3>1, <4>1, ViewChanged
    <3>7. v.box[c] = R!NoContainer
      BY <3>2, ViewEmpty
    <3>8. w.box[c] = Seen(k, container'[k])
      BY <3>1, <3>3, ViewBox
    <3>9. Seen(k, container'[k]) = Shown(k, "created")
      BY <2>2, <2>4, SeenShown
    <3>10. IsView(v)
      BY ViewShape
    <3> HIDE DEF v, w
    <3> QED
      BY <3>1, <3>6, <3>7, <3>8, <3>9, <3>10, CreationStep DEF Changes
  <2> QED
    BY <2>5, <2>6
<1> QED
  BY <1>3, <1>4

LEMMA RemovingStep ==
    ASSUME IInv, OneEach, IInv', OneEach', NEW p \in Pods, NEW q \in Pods,
           NEW k \in Ids, RemoveContainer(q, k)
    PROVE  Changes(p)
<1>1. PICK i \in Ids : i = client[q].sandbox
  BY DEF RemoveContainer, IInv, TypeOK, BoxInv, OwnSandbox
<1>2. /\ i \in sandboxes /\ sandbox[i].pod = q /\ sandbox[i] \in Sandbox
      /\ sandboxes \subseteq Ids /\ k \in ContainersOf(i) /\ sandboxes' = sandboxes
  BY <1>1 DEF RemoveContainer, IInv, TypeOK, BoxInv, OwnSandbox, Fresh
<1>3. /\ container' = [container EXCEPT ![k] = Dropped(@)]
      /\ sandbox' = [sandbox EXCEPT ![i].containers = @ \ {k}]
  BY <1>1 DEF RemoveContainer
<1>4. /\ \A l \in Ids : l # k => container'[l] = container[l]
      /\ \A j \in sandboxes : ContainersOf(j) \subseteq Ids
      /\ \A j \in sandboxes : k \in ContainersOf(j) => j = i
      /\ container[k].name \in Names
  BY <1>2, <1>3 DEF IInv, TypeOK, BoxInv, Fresh, Linked, Container
<1>5. /\ \A j \in sandboxes : j # i => sandbox'[j] = sandbox[j]
      /\ sandbox'[i].pod = q /\ sandbox'[i].containers = ContainersOf(i) \ {k}
  BY <1>2, <1>3 DEF IInv, TypeOK, Sandbox, ContainersOf
<1>6. CASE p # q
  <2>1. \A j \in Ids : (j \in sandboxes /\ sandbox[j].pod = p)
                       <=> (j \in sandboxes' /\ sandbox'[j].pod = p)
    BY <1>2, <1>5, <1>6
  <2>2. \A j \in sandboxes : sandbox[j].pod = p =>
            sandbox'[j].containers = ContainersOf(j)
            /\ \A l \in ContainersOf(j) : container'[l] = container[l]
    BY <1>2, <1>4, <1>5, <1>6 DEF ContainersOf
  <2> QED
    BY <2>1, <2>2, ViewUnchanged
<1>7. CASE p = q
  <2> DEFINE ks == ContainersOf(i)
             ls == ks \ {k}
             c == container[k].name
             v == ViewFrom(i, ks, container)
             w == ViewFrom(i, ls, container')
  <2>1. /\ ViewOf(p) = v /\ ViewOf(p)' = w
        /\ Unique(ks, container) /\ Unique(ls, container')
    BY <1>2, <1>5, <1>7, ViewPair
  <2>2. \A l \in ls : l \in ks /\ container'[l] = container[l] /\ container[l].name # c
    BY <1>2, <1>4, <2>1 DEF Unique
  <2>3. \A l \in ks : container[l].name # c =>
            l \in ls /\ container'[l].name = container[l].name
            /\ Seen(l, container'[l]) = Seen(l, container[l])
    BY <2>2
  <2>4. \A l \in ls : container'[l].name # c
    BY <2>2
  <2>5. \A l \in ls : container'[l].name # c => l \in ks /\ container[l].name = container'[l].name
    BY <2>2
  <2>6. c \in Names
    BY <1>4
  <2> HIDE DEF ls, ks, c
  <2>7. w = With(v, c, w.box[c])
    <3>1. SameBut(c, ks, container, ls, container')
      BY <2>3, <2>5 DEF SameBut
    <3> QED
      BY <2>1, <2>6, <3>1, ViewChanged
  <2>8. w.box[c] = R!NoContainer
    BY <2>4, <2>6, ViewEmpty
  <2>9. IsView(v)
    BY ViewShape
  <2> HIDE DEF v, w
  <2> QED
    BY <2>1, <2>6, <2>7, <2>8, <2>9, RemovalStep DEF Changes
<1> QED
  BY <1>6, <1>7

LEMMA GoneStep ==
    ASSUME IInv, OneEach, IInv', OneEach', NEW p \in Pods,
           Terminate \/ \E q \in Pods : RemovePodSandbox(q)
    PROVE  Changes(p)
<1>1. ASSUME (SandboxesOf(p) = {})'
      PROVE  Changes(p)
  <2>1. (ViewOf(p) = R!EmptyRuntime)'
    BY <1>1, ViewNonePrimed
  <2>2. ViewOf(p)' = R!EmptyRuntime
    BY <2>1
  <2> QED
    BY <2>2, EmptyStep DEF Changes
<1>2. CASE Terminate
  BY <1>1, <1>2 DEF Terminate, SandboxesOf
<1>3. ASSUME NEW q \in Pods, RemovePodSandbox(q)
      PROVE  Changes(p)
  <2>1. PICK i \in Ids : i = client[q].sandbox
    BY <1>3 DEF RemovePodSandbox, IInv, TypeOK, BoxInv, OwnSandbox
  <2>2. /\ i \in sandboxes /\ sandbox[i].pod = q /\ sandboxes' = sandboxes \ {i}
        /\ sandbox' = [sandbox EXCEPT ![i].containers = {}]
        /\ container' = [k \in Ids |->
              IF k \in ContainersOf(i) THEN Dropped(container[k]) ELSE container[k]]
    <3>1. i \in sandboxes /\ sandbox[i].pod = q
      BY <1>3, <2>1 DEF RemovePodSandbox, IInv, BoxInv, OwnSandbox
    <3> QED
      BY <1>3, <2>1, <3>1 DEF RemovePodSandbox
  <2>3. \A j \in sandboxes : j # i => sandbox'[j] = sandbox[j] /\ sandbox[j].pod # q
    BY <2>2 DEF OneEach, IInv, TypeOK
  <2>4. CASE p = q
    <3>1. (SandboxesOf(p) = {})'
      BY <2>2, <2>3, <2>4 DEF SandboxesOf
    <3> QED
      BY <1>1, <3>1
  <2>5. CASE p # q
    <3>1. \A j \in Ids : (j \in sandboxes /\ sandbox[j].pod = p)
                         <=> (j \in sandboxes' /\ sandbox'[j].pod = p)
      BY <2>2, <2>3, <2>5
    <3>2. \A j \in sandboxes, k \in Ids : j # i /\ k \in ContainersOf(j) => k \notin ContainersOf(i)
      BY <2>2 DEF IInv, BoxInv, Linked
    <3>3. \A j \in sandboxes : ContainersOf(j) \subseteq Ids
      BY DEF IInv, TypeOK, BoxInv, Linked
    <3>4. \A j \in sandboxes : sandbox[j].pod = p =>
              sandbox'[j].containers = ContainersOf(j)
              /\ \A k \in ContainersOf(j) : container'[k] = container[k]
      BY <2>2, <2>3, <2>5, <3>2, <3>3 DEF ContainersOf
    <3> QED
      BY <3>1, <3>4, ViewUnchanged
  <2> QED
    BY <2>4, <2>5
<1> QED
  BY <1>2, <1>3

(* Whatever other pods, workers and timers do at a time, a pod's sandbox    *)
(* and containers only change by the steps of ContainerRuntime, on which    *)
(* the pod system is built.                                                 *)
THEOREM RuntimeIsFollowed == Spec => FollowsRuntime
<1>1. Init => OneEach
  BY DEF Init, OneEach
<1>2. Spec => []OneEach
  BY <1>1, OneEachKept, RuntimeInductive, PTL DEF Spec
<1>3. ASSUME IInv, OneEach, IInv', OneEach', Next, NEW p \in Pods
      PROVE  Changes(p)
  <2>1. ASSUME SandboxesUnchanged, ContainersUnchanged
        PROVE  Changes(p)
    BY <1>3, <2>1, ViewUnchanged DEF SandboxesUnchanged, ContainersUnchanged, ContainersOf
  <2>2. ASSUME NEW q \in Pods, ClientStep(q)
        PROVE  Changes(p)
    <3>1. CASE \/ LetRunning(q) \/ (\E u \in Urls : PullImage(q, u)) \/ PullAnswered(q)
               \/ PullsDone(q) \/ LetRunningReturns(q) \/ LetRemove(q)
      BY <2>1, <3>1 DEF LetRunning, PullImage, PullAnswered, PullsDone, LetRunningReturns, LetRemove
    <3> QED
      BY <1>3, <2>2, <3>1, SandboxStep, CreatingStep, StartingStep, StoppingStep, RemovingStep,
         GoneStep DEF ClientStep
  <2>3. ASSUME NEW k \in Ids,
               OnReady(k) \/ ProgramExits(k) \/ OnFinished(k) \/ KillTimer(k) \/ CleanupTimer(k)
        PROVE  Changes(p)
    BY <1>3, <2>3, QuietStep, ExitStep
  <2>4. CASE (\E o \in Objects : FetchEnds(o)) \/ (\E u \in Urls : RemoveImage(u))
    BY <2>1, <2>4 DEF FetchEnds, RemoveImage
  <2>5. CASE Terminate
    BY <1>3, <2>5, GoneStep
  <2> QED
    BY <1>3, <2>2, <2>3, <2>4, <2>5 DEF Next
<1> DEFINE Follows == \A p \in Pods : ViewOf(p)' = ViewOf(p) \/ RuntimeStep(ViewOf(p), ViewOf(p)')
<1>4. IInv /\ OneEach /\ IInv' /\ OneEach' /\ [Next]_vars => [Follows]_vars
  BY <1>3 DEF Changes
<1> QED
  BY <1>2, <1>4, RuntimeInductive, PTL DEF Spec, FollowsRuntime
==============================================================================
