----------------------------- MODULE ImageCells -----------------------------
(***************************************************************************)
(* The pictures of the tiles: sd_setImage of SDWebImage on image views     *)
(* that UIKit reuses.                                                      *)
(*                                                                         *)
(* A view is told to show one URL after another.  Each time it gives up    *)
(* the load it was waiting for and starts a new one: memory cache, then    *)
(* disk cache (on the ioQueue), then a download, shared by all loads of    *)
(* the same URL.  Downloads end on queues of their own and post their      *)
(* answers to the main queue, where views are reused in between.           *)
(*                                                                         *)
(* Abstractions.  An image is its URL.  A load (SDWebImageCombinedOper-    *)
(* ation) that was cancelled or answered is Over: its identity may be used *)
(* again once no queue or download mentions it.  The stores that the loads *)
(* answered by one block ask for are one store.  A call on the main queue  *)
(* from the main queue is immediate (dispatch_main_async_safe).            *)
(***************************************************************************)
EXTENDS Naturals, Sequences

CONSTANTS
    Views,      \* image views: the cells of the screens, and Speak's imgV
    URLs,       \* addresses of pictures
    Loads,      \* identities of loads; bounds those alive at a time
    Downloads,  \* identities of download operations; bounds them likewise
    MaxAsks,    \* bound: how often the app gives a view a picture or drops it
    None        \* no URL, no load, no download, no view

ASSUME NoneIsNothing == None \notin Views \cup URLs \cup Loads \cup Downloads
ASSUME BoundIsNat == MaxAsks \in Nat

VARIABLES
    wanted,         \* wanted[v]: sd_imageURL
    shown,          \* shown[v]: the image it holds
    current,        \* current[v]: its load in sd_operationDictionary
    loads,          \* loads[l]: the view and URL of a load, or Over
    io,             \* jobs of the serial ioQueue of the image cache
    main,           \* blocks posted to the main queue
    downloads,      \* downloads[d]: an SDWebImageDownloaderOperation
    URLOperations,  \* URLOperations[u]: the download others may join
    memory,         \* images the memory cache finds
    disk,           \* images in the disk cache
    failedURLs,     \* blacklist, until the next launch
    asks            \* how often it did so

views == <<wanted, shown, current, asks>>
caches == <<memory, disk, failedURLs>>
network == <<downloads, URLOperations>>
vars == <<views, loads, io, main, network, caches>>

Over == [view |-> None, url |-> None]
Live(l) == loads[l] # Over
NoDownload == [url |-> None, state |-> "none", handlers |-> {}]

\* Neither finished nor cancelled.
Joinable == {"queued", "running", "delivered"}

Query(l) == [kind |-> "query", load |-> l]
Store(u) == [kind |-> "store", url |-> u]
Queried(l, hit) == [kind |-> "queried", load |-> l, hit |-> hit]
Answer(u, waiting, outcome) ==
    [kind |-> "answer", url |-> u, loads |-> waiting, outcome |-> outcome]
Outcomes == {"image", "bogus", "unreachable"}

Asked(l) == \E i \in 1..Len(io) : io[i] = Query(l)
Posted(l) == \E i \in 1..Len(main) :
                \/ main[i].kind = "queried" /\ main[i].load = l
                \/ main[i].kind = "answer" /\ l \in main[i].loads
Attached(l) == \E d \in Downloads : l \in downloads[d].handlers

\* Some queue or download still mentions it.
Mentioned(l) == Asked(l) \/ Posted(l) \/ Attached(l)
Unused(l) == ~Live(l) /\ ~Mentioned(l)

\* The identity of the next load: which one does not matter.
NextLoad == CHOOSE l \in Loads : Unused(l)
NextDownload == CHOOSE d \in Downloads : downloads[d] = NoDownload

Init ==
    /\ wanted = [v \in Views |-> None]
    /\ shown = [v \in Views |-> None]
    /\ current = [v \in Views |-> None]
    /\ loads = [l \in Loads |-> Over]
    /\ io = <<>>
    /\ main = <<>>
    /\ downloads = [d \in Downloads |-> NoDownload]
    /\ URLOperations = [u \in URLs |-> None]
    /\ memory = {}
    /\ disk = {}
    /\ failedURLs = {}
    /\ asks = 0

-----------------------------------------------------------------------------
(* Giving up a load.                                                       *)

\* Its last handler is gone: a running download ends here, a queued one when
\* the queue comes to start it.
Cancelled(download) ==
    [download EXCEPT !.state = IF @ = "queued" THEN "cancelled" ELSE "finished",
                     !.handlers = {}]

\* Mutant: the download is cancelled though other views wait for it.
CancelSharedToken(l) ==
    downloads' = [d \in Downloads |->
        IF l \in downloads[d].handlers THEN Cancelled(downloads[d]) ELSE downloads[d]]

\* cancel: of the load's token, if it has one.
CancelToken(l) ==
    downloads' = [d \in Downloads |->
        IF downloads[d].handlers = {l} THEN Cancelled(downloads[d])
        ELSE [downloads[d] EXCEPT !.handlers = @ \ {l}]]

\* Mutant: the view forgets its load without cancelling it.
ForgetLoad(v) == UNCHANGED <<loads, downloads>>

CancelLoad(v) ==
    /\ loads' = [l \in Loads |-> IF l = current[v] THEN Over ELSE loads[l]]
    /\ CancelToken(current[v])

-----------------------------------------------------------------------------
(* What the app asks of a view.                                            *)

Ask(v, u) ==
    /\ asks < MaxAsks
    /\ asks' = asks + 1
    /\ wanted' = [wanted EXCEPT ![v] = u]

\* No address, or one that has failed: the view stays empty.
ShowNothing(v, u) ==
    /\ u = None \/ u \in failedURLs
    /\ Ask(v, u)
    /\ CancelLoad(v)
    /\ shown' = [shown EXCEPT ![v] = None]
    /\ current' = [current EXCEPT ![v] = None]
    /\ UNCHANGED <<io, main, URLOperations, caches>>

ShowCached(v, u) ==
    /\ u \in memory \ failedURLs
    /\ Ask(v, u)
    /\ CancelLoad(v)
    /\ shown' = [shown EXCEPT ![v] = u]
    /\ current' = [current EXCEPT ![v] = None]
    /\ UNCHANGED <<io, main, URLOperations, caches>>

StartLoad(v, u, l) ==
    /\ u \notin memory \cup failedURLs \cup {None}
    /\ Unused(l) /\ l = NextLoad
    /\ Ask(v, u)
    /\ CancelToken(current[v])
    /\ loads' = [k \in Loads |-> IF k = l THEN [view |-> v, url |-> u]
                                 ELSE IF k = current[v] THEN Over ELSE loads[k]]
    /\ shown' = [shown EXCEPT ![v] = None]
    /\ current' = [current EXCEPT ![v] = l]
    /\ io' = Append(io, Query(l))
    /\ UNCHANGED <<main, URLOperations, caches>>

\* The screen goes away with its views; their loads go on without them.
ViewGone(v) ==
    /\ Ask(v, None)
    /\ shown' = [shown EXCEPT ![v] = None]
    /\ current' = [current EXCEPT ![v] = None]
    /\ loads' = [l \in Loads |-> IF l = current[v] THEN [loads[l] EXCEPT !.view = None]
                                                   ELSE loads[l]]
    /\ UNCHANGED <<io, main, network, caches>>

-----------------------------------------------------------------------------
(* The ioQueue of the image cache.                                         *)

QueryDisk(l) ==
    /\ IF Live(l) THEN main' = Append(main, Queried(l, loads[l].url \in disk))
                  ELSE main' = main
    /\ memory' = memory \cup (disk \cap {loads[l].url})
    /\ UNCHANGED disk

WriteDisk(u) ==
    /\ disk' = disk \cup {u}
    /\ UNCHANGED <<main, memory>>

IoStep ==
    /\ io # <<>>
    /\ io' = Tail(io)
    /\ \/ Head(io).kind = "query" /\ QueryDisk(Head(io).load)
       \/ Head(io).kind = "store" /\ WriteDisk(Head(io).url)
    /\ UNCHANGED <<views, loads, network, failedURLs>>

-----------------------------------------------------------------------------
(* The main queue.                                                         *)

\* The completion of these loads: the views that wait for them show the image.
Complete(finished, image) ==
    /\ shown' = [v \in Views |->
          IF image # None /\ \E l \in finished : loads[l].view = v THEN image ELSE shown[v]]
    /\ current' = [v \in Views |-> IF current[v] \in finished THEN None ELSE current[v]]
    /\ loads' = [l \in Loads |-> IF l \in finished THEN Over ELSE loads[l]]

\* Mutant: a download that was cancelled or has finished is joined.
DownloadJoiningAny(l) ==
    LET u == loads[l].url
        d == URLOperations[u]
    IN  \/ /\ d # None
           /\ downloads' = [downloads EXCEPT ![d].handlers = @ \cup {l}]
           /\ UNCHANGED URLOperations
        \/ /\ d = None
           /\ \E new \in Downloads :
                /\ downloads[new] = NoDownload /\ new = NextDownload
                /\ downloads' = [downloads EXCEPT ![new] =
                        [url |-> u, state |-> "queued", handlers |-> {l}]]
                /\ URLOperations' = [URLOperations EXCEPT ![u] = new]

\* Joins the registered download of the URL, or starts one.
Download(l) ==
    LET u == loads[l].url
        d == URLOperations[u]
        joins == d # None /\ downloads[d].state \in Joinable
    IN  \/ /\ joins
           /\ downloads' = [downloads EXCEPT ![d].handlers = @ \cup {l}]
           /\ UNCHANGED URLOperations
        \/ /\ ~joins
           /\ \E new \in Downloads :
                /\ downloads[new] = NoDownload /\ new = NextDownload
                /\ downloads' = [downloads EXCEPT ![new] =
                        [url |-> u, state |-> "queued", handlers |-> {l}]]
                /\ URLOperations' = [URLOperations EXCEPT ![u] = new]

TakeQueried(l, hit) ==
    /\ \/ ~Live(l) /\ UNCHANGED <<shown, current, loads, network>>
       \/ Live(l) /\ hit /\ Complete({l}, loads[l].url) /\ UNCHANGED network
       \/ Live(l) /\ ~hit /\ Download(l) /\ UNCHANGED <<shown, current, loads>>
    /\ UNCHANGED <<io, memory, failedURLs>>

\* The handlers that were captured when the download ended, each checking
\* whether its load was cancelled since.
TakeAnswer(u, waiting, outcome) ==
    LET alive == {l \in waiting : Live(l)} IN
    /\ Complete(alive, IF outcome = "image" THEN u ELSE None)
    /\ \/ /\ alive # {} /\ outcome = "image"
          /\ memory' = memory \cup {u}
          /\ io' = Append(io, Store(u))
          /\ UNCHANGED failedURLs
       \/ /\ alive # {} /\ outcome = "bogus"
          /\ failedURLs' = failedURLs \cup {u}
          /\ UNCHANGED <<io, memory>>
       \/ /\ alive = {} \/ outcome = "unreachable"
          /\ UNCHANGED <<io, memory, failedURLs>>
    /\ UNCHANGED network

MainStep ==
    /\ main # <<>>
    /\ main' = Tail(main)
    /\ LET block == Head(main) IN
       \/ block.kind = "queried" /\ TakeQueried(block.load, block.hit)
       \/ block.kind = "answer" /\ TakeAnswer(block.url, block.loads, block.outcome)
    /\ UNCHANGED <<wanted, asks, disk>>

-----------------------------------------------------------------------------
(* A download operation.                                                   *)

Becomes(d, from, to) ==
    /\ downloads[d].state = from
    /\ downloads' = [downloads EXCEPT ![d].state = to]

Start(d) ==
    /\ Becomes(d, "queued", "running") \/ Becomes(d, "cancelled", "finished")
    /\ UNCHANGED <<views, loads, io, main, URLOperations, caches>>

\* The transfer ended and the data was decoded: the handlers of this moment are
\* posted to the main queue.
Deliver(d, outcome) ==
    /\ Becomes(d, "running", "delivered")
    /\ main' = Append(main, Answer(downloads[d].url, downloads[d].handlers, outcome))
    /\ UNCHANGED <<views, loads, io, URLOperations, caches>>

\* done: whoever joined since is dropped with the handlers.
Done(d) ==
    /\ downloads[d].state = "delivered"
    /\ downloads' = [downloads EXCEPT ![d].state = "finished", ![d].handlers = {}]
    /\ UNCHANGED <<views, loads, io, main, URLOperations, caches>>

\* completionBlock: unregisters the URL, whichever download is registered.
Completion(d) ==
    /\ downloads[d].state = "finished"
    /\ downloads' = [downloads EXCEPT ![d] = NoDownload]
    /\ URLOperations' = [URLOperations EXCEPT ![downloads[d].url] = None]
    /\ UNCHANGED <<views, loads, io, main, caches>>

-----------------------------------------------------------------------------
(* The system.                                                             *)

Carried(u) ==
    \/ \E v \in Views : shown[v] = u
    \/ \E i \in 1..Len(main) : \/ /\ main[i].kind = "queried"
                                  /\ loads[main[i].load].url = u
                               \/ main[i].kind = "answer" /\ main[i].url = u

\* The memory cache lets go of an image; while one is in use elsewhere, its
\* table of weak references still finds it.
Evict(u) ==
    /\ u \in memory /\ ~Carried(u)
    /\ memory' = memory \ {u}
    /\ UNCHANGED <<views, loads, io, main, network, disk, failedURLs>>

\* The process is launched again; old files of the disk cache may be expired.
Relaunch ==
    /\ wanted' = [v \in Views |-> None]
    /\ shown' = [v \in Views |-> None]
    /\ current' = [v \in Views |-> None]
    /\ loads' = [l \in Loads |-> Over]
    /\ io' = <<>>
    /\ main' = <<>>
    /\ downloads' = [d \in Downloads |-> NoDownload]
    /\ URLOperations' = [u \in URLs |-> None]
    /\ memory' = {}
    /\ disk' \in SUBSET disk
    /\ failedURLs' = {}
    /\ UNCHANGED asks

DownloadStep(d) ==
    \/ Start(d) \/ Done(d) \/ Completion(d)
    \/ \E outcome \in Outcomes : Deliver(d, outcome)

Next ==
    \/ \E v \in Views, u \in URLs \cup {None} :
          ShowNothing(v, u) \/ ShowCached(v, u) \/ \E l \in Loads : StartLoad(v, u, l)
    \/ \E v \in Views : ViewGone(v)
    \/ IoStep \/ MainStep
    \/ \E d \in Downloads : DownloadStep(d)
    \/ \E u \in URLs : Evict(u)
    \/ Relaunch

(* Both queues run what they hold, and a download comes to its end, at the *)
(* latest by its timeout of 15 seconds.                                    *)
Spec ==
    /\ Init /\ [][Next]_vars
    /\ WF_vars(IoStep) /\ WF_vars(MainStep)
    /\ \A d \in Downloads : WF_vars(DownloadStep(d))

-----------------------------------------------------------------------------
(* Correctness.                                                            *)

LoadsType == [view : Views \cup {None}, url : URLs] \cup {Over}
Jobs == [kind : {"query"}, load : Loads] \cup [kind : {"store"}, url : URLs]
Blocks ==
    [kind : {"queried"}, load : Loads, hit : BOOLEAN]
        \cup [kind : {"answer"}, url : URLs, loads : SUBSET Loads, outcome : Outcomes]
DownloadsType ==
    [url : URLs, state : {"queued", "cancelled", "running", "delivered", "finished"},
     handlers : SUBSET Loads]
        \cup {NoDownload}

\* Every variable holds a value of its kind, and a download has handlers exactly
\* until it is cancelled or done: none runs for nobody, none is joined in vain.
TypeOK ==
    /\ wanted \in [Views -> URLs \cup {None}]
    /\ shown \in [Views -> URLs \cup {None}]
    /\ current \in [Views -> Loads \cup {None}]
    /\ loads \in [Loads -> LoadsType]
    /\ io \in Seq(Jobs)
    /\ main \in Seq(Blocks)
    /\ downloads \in [Downloads -> DownloadsType]
    /\ \A d \in Downloads :
          downloads[d].handlers # {} <=> downloads[d].state \in Joinable
    /\ URLOperations \in [URLs -> Downloads \cup {None}]
    /\ memory \subseteq URLs /\ disk \subseteq URLs /\ failedURLs \subseteq URLs
    /\ asks \in 0..MaxAsks

\* A view that was given to another word never shows the picture of the word it
\* showed before, however late that picture arrives from the disk or the net.
ShownIsWanted == \A v \in Views : shown[v] \in {wanted[v], None}

\* This load joined a download whose answer had already been posted.
JoinedLate(l) ==
    /\ ~Posted(l)
    /\ \E d \in Downloads : downloads[d].state = "delivered" /\ l \in downloads[d].handlers

\* Every load ends, with the picture or with an error, though the download it
\* shares is given up by the view that started it; only a load that joined the
\* download too late may wait for ever.
EveryLoadEnds ==
    \A l \in Loads : Live(l) /\ Mentioned(l) ~> ~Live(l) \/ JoinedLate(l)

\* SDWebImageDownloader.h: the completedBlock is "called once the download is
\* completed": a load that is not over has its answer still to come.  (Not so:
\* see the run lost_picture.)
CompletedBlockIsCalled == \A l \in Loads : Live(l) => Mentioned(l)

=============================================================================
