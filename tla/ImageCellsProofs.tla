-------------------------- MODULE ImageCellsProofs --------------------------
(***************************************************************************)
(* The pictures of ImageCells are those of the words, for any number of    *)
(* views, addresses, loads and downloads.                                  *)
(*                                                                         *)
(* A late answer can only show a wrong picture if the load it answers is   *)
(* still live for the view, or if it answers loads of another address.     *)
(* The invariant says why neither happens: a live load is its view's       *)
(* current one and of the address the view wants; the loads a download or  *)
(* a posted answer mentions are of its address, or over; and a registered  *)
(* download is one of the address it is registered under.                  *)
(***************************************************************************)
EXTENDS ImageCells, SequenceTheorems, TLAPS

LoadsAreCurrent ==
    \A l \in Loads, v \in Views :
        loads[l].view = v => current[v] = l /\ loads[l].url = wanted[v]

HandlersMatch ==
    \A d \in Downloads : \A l \in downloads[d].handlers :
        Live(l) => loads[l].url = downloads[d].url

AnswersMatch ==
    \A i \in 1..Len(main) : main[i].kind = "answer" =>
        \A l \in main[i].loads : Live(l) => loads[l].url = main[i].url

RegisteredMatch ==
    \A u \in URLs : URLOperations[u] # None => downloads[URLOperations[u]].url = u

IInv ==
    /\ LoadsAreCurrent /\ HandlersMatch /\ AnswersMatch /\ RegisteredMatch
    /\ ShownIsWanted

-----------------------------------------------------------------------------
(* Facts about the data.                                                   *)

LEMMA LoadFacts ==
    ASSUME TypeOK, NEW l \in Loads
    PROVE  /\ Over.view = None /\ Over.url = None /\ Over \in LoadsType
           /\ \/ loads[l] = Over
              \/ /\ loads[l] = [view |-> loads[l].view, url |-> loads[l].url]
                 /\ loads[l].view \in Views \cup {None}
                 /\ loads[l].url \in URLs
BY DEF TypeOK, LoadsType, Over

\* A load that some view waits for is live.
LEMMA SeenIsLive ==
    ASSUME TypeOK, NEW l \in Loads, NEW v \in Views, loads[l].view = v
    PROVE  Live(l)
BY LoadFacts, NoneIsNothing DEF Live

DownloadRecords ==
    [url : URLs \cup {None}, handlers : SUBSET Loads,
     state : {"none", "queued", "cancelled", "running", "delivered", "finished"}]

LEMMA DownloadFacts ==
    ASSUME TypeOK, NEW d \in Downloads
    PROVE  /\ downloads[d] \in DownloadRecords
           /\ downloads[d].handlers \subseteq Loads
           /\ downloads[d].url \in URLs \cup {None}
           /\ downloads[d].url = None => downloads[d] = NoDownload
           /\ downloads[d] \in DownloadsType
           /\ downloads[d].handlers # {} <=> downloads[d].state \in Joinable
BY NoneIsNothing DEF TypeOK, DownloadsType, DownloadRecords, NoDownload

LEMMA IoFacts ==
    ASSUME TypeOK, io # <<>>
    PROVE  Head(io) \in Jobs /\ Tail(io) \in Seq(Jobs)
BY HeadTailProperties DEF TypeOK

LEMMA MainFacts ==
    ASSUME TypeOK, main # <<>>
    PROVE  /\ Head(main) \in Blocks /\ Tail(main) \in Seq(Blocks)
           /\ Head(main) = main[1] /\ 1 \in 1..Len(main)
           /\ \A i \in 1..Len(Tail(main)) :
                 Tail(main)[i] = main[i + 1] /\ i + 1 \in 1..Len(main)
<1>1. Len(main) \in Nat \ {0}
  BY EmptySeq DEF TypeOK
<1>2. /\ Head(main) \in Blocks /\ Tail(main) \in Seq(Blocks)
      /\ Head(main) = main[1] /\ Len(Tail(main)) = Len(main) - 1
      /\ \A i \in 1..Len(Tail(main)) : Tail(main)[i] = main[i + 1]
  BY HeadTailProperties DEF TypeOK
<1> QED BY <1>1, <1>2

LEMMA PostFacts ==
    ASSUME TypeOK, NEW block \in Blocks, main' = Append(main, block)
    PROVE  /\ main' \in Seq(Blocks)
           /\ \A i \in 1..Len(main') :
                 \/ i \in 1..Len(main) /\ main'[i] = main[i]
                 \/ main'[i] = block
<1>1. main \in Seq(Blocks) /\ Len(main) \in Nat
  BY LenProperties DEF TypeOK
<1>2. /\ main' \in Seq(Blocks) /\ Len(main') = Len(main) + 1
      /\ \A i \in 1..Len(main) : main'[i] = main[i]
      /\ main'[Len(main) + 1] = block
  BY <1>1, AppendProperties
<1> QED BY <1>1, <1>2

LEMMA BlockFacts ==
    ASSUME NEW block \in Blocks
    PROVE  /\ block.kind = "queried" => block.load \in Loads
           /\ block.kind = "answer" =>
                 block.url \in URLs /\ block.loads \subseteq Loads
           /\ block.kind \in {"queried", "answer"}
BY DEF Blocks

\* Giving up a load takes at most that handler from each download.
LEMMA CancelFacts ==
    ASSUME TypeOK, NEW l \in Loads \cup {None}, CancelToken(l)
    PROVE  /\ downloads' \in [Downloads -> DownloadsType]
           /\ \A d \in Downloads :
                 /\ downloads'[d].url = downloads[d].url
                 /\ downloads'[d].handlers \subseteq downloads[d].handlers
                 /\ downloads'[d].handlers # {} <=> downloads'[d].state \in Joinable
<1>1. ASSUME NEW d \in Downloads
      PROVE  /\ downloads'[d] \in DownloadsType
             /\ downloads'[d].url = downloads[d].url
             /\ downloads'[d].handlers \subseteq downloads[d].handlers
             /\ downloads'[d].handlers # {} <=> downloads'[d].state \in Joinable
  <2>0. /\ downloads[d] \in DownloadRecords /\ downloads[d] \in DownloadsType
        /\ downloads[d].url = None => downloads[d] = NoDownload
        /\ downloads[d].handlers # {} <=> downloads[d].state \in Joinable
    BY DownloadFacts
  <2>1. CASE downloads[d].handlers = {l}
    <3>1. downloads'[d] = [url |-> downloads[d].url, handlers |-> {},
                           state |-> IF downloads[d].state = "queued"
                                     THEN "cancelled" ELSE "finished"]
      BY <2>0, <2>1 DEF CancelToken, Cancelled, DownloadRecords
    <3>2. downloads[d].url \in URLs
      BY <2>0, <2>1 DEF NoDownload, DownloadRecords
    <3> QED BY <3>1, <3>2 DEF DownloadsType, Joinable
  <2>2. CASE downloads[d].handlers # {l}
    <3>1. /\ downloads'[d] = [downloads[d] EXCEPT !.handlers = @ \ {l}]
          /\ downloads[d].handlers \ {l} = {} <=> downloads[d].handlers = {}
      BY <2>2 DEF CancelToken
    <3>2. downloads'[d] \in DownloadsType
      BY <2>0, <3>1 DEF DownloadsType, NoDownload
    <3> QED BY <2>0, <3>1, <3>2 DEF DownloadRecords
  <2> QED BY <2>1, <2>2
<1> QED BY <1>1 DEF CancelToken

-----------------------------------------------------------------------------
(* Type correctness.                                                       *)

ViewsTyped ==
    /\ wanted \in [Views -> URLs \cup {None}]
    /\ shown \in [Views -> URLs \cup {None}]
    /\ current \in [Views -> Loads \cup {None}]
    /\ loads \in [Loads -> LoadsType]
    /\ asks \in 0..MaxAsks
QueuesTyped == io \in Seq(Jobs) /\ main \in Seq(Blocks)
NetworkTyped ==
    /\ downloads \in [Downloads -> DownloadsType]
    /\ \A d \in Downloads :
          downloads[d].handlers # {} <=> downloads[d].state \in Joinable
    /\ URLOperations \in [URLs -> Downloads \cup {None}]
CachesTyped == memory \subseteq URLs /\ disk \subseteq URLs /\ failedURLs \subseteq URLs

LEMMA PartsPrimed ==
    ASSUME ViewsTyped', QueuesTyped', NetworkTyped', CachesTyped'
    PROVE  TypeOK'
BY DEF TypeOK, ViewsTyped, QueuesTyped, NetworkTyped, CachesTyped

\* What a step leaves alone stays well typed.
LEMMA PartsKept ==
    ASSUME TypeOK
    PROVE  /\ UNCHANGED <<views, loads>> => ViewsTyped'
           /\ UNCHANGED <<io, main>> => QueuesTyped'
           /\ UNCHANGED network => NetworkTyped'
           /\ UNCHANGED caches => CachesTyped'
<1>1. ASSUME UNCHANGED <<views, loads>> PROVE ViewsTyped'
  BY <1>1 DEF TypeOK, ViewsTyped, views
<1>2. ASSUME UNCHANGED <<io, main>> PROVE QueuesTyped'
  BY <1>2 DEF TypeOK, QueuesTyped
<1>3. ASSUME UNCHANGED network PROVE NetworkTyped'
  BY <1>3 DEF TypeOK, NetworkTyped, network
<1>4. ASSUME UNCHANGED caches PROVE CachesTyped'
  BY <1>4 DEF TypeOK, CachesTyped, caches
<1> QED BY <1>1, <1>2, <1>3, <1>4

LEMMA TypeInit == Init => TypeOK
<1> SUFFICES ASSUME Init PROVE TypeOK
  OBVIOUS
<1>1. ViewsTyped
  BY BoundIsNat DEF Init, ViewsTyped, LoadsType
<1>2. QueuesTyped
  BY EmptySeq DEF Init, QueuesTyped
<1>3. NetworkTyped
  BY DEF Init, NetworkTyped, DownloadsType, NoDownload, Joinable
<1>4. CachesTyped
  BY DEF Init, CachesTyped
<1> QED BY <1>1, <1>2, <1>3, <1>4
       DEF TypeOK, ViewsTyped, QueuesTyped, NetworkTyped, CachesTyped

LEMMA AskTypes ==
    ASSUME TypeOK, NEW v \in Views, NEW u \in URLs \cup {None}, Ask(v, u)
    PROVE  wanted' \in [Views -> URLs \cup {None}] /\ asks' \in 0..MaxAsks
BY BoundIsNat DEF TypeOK, Ask

LEMMA CompleteTypes ==
    ASSUME TypeOK, NEW finished, NEW image \in URLs \cup {None},
           Complete(finished, image), UNCHANGED <<wanted, asks>>
    PROVE  ViewsTyped'
BY LoadFacts DEF TypeOK, ViewsTyped, Complete, LoadsType

LEMMA DownloadTypes ==
    ASSUME TypeOK, NEW l \in Loads, Live(l), Download(l)
    PROVE  NetworkTyped'
<1> DEFINE u == loads[l].url
<1>1. u \in URLs
  BY LoadFacts DEF Live
<1>2. CASE /\ URLOperations[u] # None
           /\ downloads[URLOperations[u]].state \in Joinable
           /\ downloads' = [downloads EXCEPT ![URLOperations[u]].handlers = @ \cup {l}]
           /\ UNCHANGED URLOperations
  <2>1. URLOperations[u] \in Downloads
    BY <1>1, <1>2 DEF TypeOK
  <2>2. /\ downloads[URLOperations[u]] \in DownloadsType
        /\ downloads[URLOperations[u]].state \in Joinable
    BY <1>2, <2>1 DEF TypeOK
  <2>3. downloads'[URLOperations[u]] =
          [downloads[URLOperations[u]] EXCEPT !.handlers = @ \cup {l}]
    BY <1>2, <2>1 DEF TypeOK
  <2>4. /\ downloads'[URLOperations[u]] \in DownloadsType
        /\ downloads'[URLOperations[u]].handlers # {}
        /\ downloads'[URLOperations[u]].state \in Joinable
    <3>1. "none" \notin Joinable
      BY DEF Joinable
    <3>2. downloads[URLOperations[u]] # NoDownload
      BY <2>2, <3>1 DEF NoDownload
    <3>3. downloads[URLOperations[u]] \in
            [url : URLs, state : {"queued", "cancelled", "running", "delivered", "finished"},
             handlers : SUBSET Loads]
      BY <2>2, <3>2 DEF DownloadsType
    <3>4. /\ downloads'[URLOperations[u]] \in
                [url : URLs, handlers : SUBSET Loads,
                 state : {"queued", "cancelled", "running", "delivered", "finished"}]
          /\ l \in downloads'[URLOperations[u]].handlers
          /\ downloads'[URLOperations[u]].state = downloads[URLOperations[u]].state
      BY <2>3, <3>3
    <3> QED BY <2>2, <3>4 DEF DownloadsType
  <2>5. /\ downloads' \in [Downloads -> DownloadsType]
        /\ \A d \in Downloads \ {URLOperations[u]} : downloads'[d] = downloads[d]
    BY <1>2, <2>1, <2>4 DEF TypeOK
  <2>6. \A d \in Downloads :
           downloads'[d].handlers # {} <=> downloads'[d].state \in Joinable
    BY <2>1, <2>4, <2>5 DEF TypeOK
  <2>7. URLOperations' \in [URLs -> Downloads \cup {None}]
    BY <1>2 DEF TypeOK
  <2> QED BY <2>5, <2>6, <2>7 DEF NetworkTyped
<1>3. ASSUME NEW new \in Downloads,
             downloads' = [downloads EXCEPT ![new] =
                              [url |-> u, state |-> "queued", handlers |-> {l}]],
             URLOperations' = [URLOperations EXCEPT ![u] = new]
      PROVE  NetworkTyped'
  <2>1. [url |-> u, state |-> "queued", handlers |-> {l}] \in DownloadsType
    BY <1>1 DEF DownloadsType
  <2> QED BY <1>1, <1>3, <2>1 DEF TypeOK, NetworkTyped, Joinable
<1> QED BY <1>2, <1>3 DEF Download

\* The main queue runs one block.
LEMMA MainTypes == ASSUME TypeOK, MainStep PROVE TypeOK'
<1> DEFINE block == Head(main)
<1>1. block \in Blocks /\ Tail(main) \in Seq(Blocks)
  BY MainFacts DEF MainStep
<1>2. CASE block.kind = "queried" /\ TakeQueried(block.load, block.hit)
  <2>1. block.load \in Loads
    BY <1>1, <1>2, BlockFacts
  <2>2. ViewsTyped' /\ NetworkTyped'
    <3>1. CASE UNCHANGED <<shown, current, loads, network>>
      BY <3>1 DEF MainStep, TypeOK, ViewsTyped, NetworkTyped, network
    <3>2. CASE /\ Live(block.load) /\ Complete({block.load}, loads[block.load].url)
               /\ UNCHANGED network
      <4>1. loads[block.load].url \in URLs
        BY <2>1, <3>2, LoadFacts DEF Live
      <4>2. ViewsTyped'
        BY <3>2, <4>1, CompleteTypes DEF MainStep
      <4> QED BY <3>2, <4>2 DEF TypeOK, NetworkTyped, network
    <3>3. CASE /\ Live(block.load) /\ Download(block.load)
               /\ UNCHANGED <<shown, current, loads>>
      <4>1. NetworkTyped'
        BY <2>1, <3>3, DownloadTypes
      <4> QED BY <3>3, <4>1 DEF MainStep, TypeOK, ViewsTyped
    <3> QED BY <1>2, <3>1, <3>2, <3>3 DEF TakeQueried
  <2>3. QueuesTyped'
    BY <1>1, <1>2 DEF MainStep, TakeQueried, TypeOK, QueuesTyped
  <2>4. CachesTyped'
    BY <1>2 DEF MainStep, TakeQueried, TypeOK, CachesTyped
  <2> QED BY <2>2, <2>3, <2>4, PartsPrimed
<1>3. CASE block.kind = "answer" /\ TakeAnswer(block.url, block.loads, block.outcome)
  <2>1. block.url \in URLs
    BY <1>1, <1>3, BlockFacts
  <2>2. ViewsTyped'
    BY <1>3, <2>1, CompleteTypes DEF MainStep, TakeAnswer
  <2>3. Store(block.url) \in Jobs /\ Append(io, Store(block.url)) \in Seq(Jobs)
    <3>1. Store(block.url) \in Jobs
      BY <2>1 DEF Store, Jobs
    <3> QED BY <3>1, AppendProperties DEF TypeOK
  <2>4. QueuesTyped'
    BY <1>1, <1>3, <2>3 DEF MainStep, TakeAnswer, TypeOK, QueuesTyped
  <2>5. CachesTyped' /\ NetworkTyped'
    BY <1>3, <2>1 DEF MainStep, TakeAnswer, TypeOK, CachesTyped, NetworkTyped, network
  <2> QED BY <2>2, <2>4, <2>5, PartsPrimed
<1> QED BY <1>2, <1>3 DEF MainStep

\* The ioQueue runs one job.
LEMMA IoTypes == ASSUME TypeOK, IoStep PROVE TypeOK'
<1> DEFINE job == Head(io)
<1>1. job \in Jobs /\ Tail(io) \in Seq(Jobs)
  BY IoFacts DEF IoStep
<1>2. ViewsTyped' /\ NetworkTyped'
  BY PartsKept DEF IoStep
<1>3. CASE job.kind = "query" /\ QueryDisk(job.load)
  <2>1. job.load \in Loads
    BY <1>1, <1>3 DEF Jobs
  <2>2. Queried(job.load, loads[job.load].url \in disk) \in Blocks
    BY <2>1 DEF Queried, Blocks
  <2>3. main' \in Seq(Blocks)
    <3>1. CASE main' = Append(main, Queried(job.load, loads[job.load].url \in disk))
      BY <2>2, <3>1, PostFacts
    <3>2. CASE main' = main
      BY <3>2 DEF TypeOK
    <3> QED BY <1>3, <3>1, <3>2 DEF QueryDisk
  <2>4. CachesTyped'
    BY <1>3 DEF IoStep, QueryDisk, TypeOK, CachesTyped
  <2>5. QueuesTyped'
    BY <1>1, <2>3 DEF IoStep, QueuesTyped
  <2> QED BY <1>2, <2>4, <2>5, PartsPrimed
<1>4. CASE job.kind = "store" /\ WriteDisk(job.url)
  <2>1. job.url \in URLs
    BY <1>1, <1>4 DEF Jobs
  <2>2. CachesTyped'
    BY <1>4, <2>1 DEF IoStep, WriteDisk, TypeOK, CachesTyped
  <2>3. QueuesTyped'
    BY <1>1, <1>4 DEF IoStep, WriteDisk, TypeOK, QueuesTyped
  <2> QED BY <1>2, <2>2, <2>3, PartsPrimed
<1> QED BY <1>3, <1>4 DEF IoStep

\* A download changes its state.
LEMMA BecomesTypes ==
    ASSUME TypeOK, NEW d \in Downloads, NEW from, NEW to, Becomes(d, from, to),
           \/ from = "queued" /\ to = "running"
           \/ from = "cancelled" /\ to = "finished"
           \/ from = "running" /\ to = "delivered"
    PROVE  /\ downloads' \in [Downloads -> DownloadsType]
           /\ \A e \in Downloads :
                 /\ downloads'[e].handlers # {} <=> downloads'[e].state \in Joinable
                 /\ downloads'[e].url = downloads[e].url
                 /\ downloads'[e].handlers = downloads[e].handlers
<1>1. /\ downloads[d] \in DownloadsType /\ downloads[d].state = from
      /\ downloads[d].handlers # {} <=> downloads[d].state \in Joinable
  BY DownloadFacts DEF Becomes
<1>2. downloads'[d] = [downloads[d] EXCEPT !.state = to]
  BY DEF Becomes, TypeOK
<1>3. /\ downloads'[d] \in DownloadsType
      /\ downloads'[d].handlers # {} <=> downloads'[d].state \in Joinable
      /\ downloads'[d].url = downloads[d].url
      /\ downloads'[d].handlers = downloads[d].handlers
  BY <1>1, <1>2 DEF DownloadsType, NoDownload, Joinable
<1> QED BY <1>3 DEF Becomes, TypeOK

LEMMA DownloadStepTypes ==
    ASSUME TypeOK, NEW d \in Downloads, DownloadStep(d)
    PROVE  TypeOK'
<1>1. CASE Start(d)
  <2>1. NetworkTyped'
    BY <1>1, BecomesTypes DEF Start, TypeOK, NetworkTyped
  <2> QED BY <1>1, <2>1, PartsKept, PartsPrimed DEF Start
<1>2. ASSUME NEW outcome \in Outcomes, Deliver(d, outcome)
      PROVE  TypeOK'
  <2>1. NetworkTyped'
    BY <1>2, BecomesTypes DEF Deliver, TypeOK, NetworkTyped
  <2>2. downloads[d].url \in URLs /\ downloads[d].handlers \subseteq Loads
    BY <1>2, DownloadFacts DEF Deliver, Becomes, NoDownload
  <2>3. Answer(downloads[d].url, downloads[d].handlers, outcome) \in Blocks
    BY <2>2 DEF Answer, Blocks
  <2>4. main' \in Seq(Blocks)
    BY <1>2, <2>3, PostFacts DEF Deliver
  <2>5. QueuesTyped'
    BY <1>2, <2>4 DEF Deliver, TypeOK, QueuesTyped
  <2> QED BY <1>2, <2>1, <2>5, PartsKept, PartsPrimed DEF Deliver
<1>3. CASE Done(d)
  <2>1. downloads[d] \in DownloadsType /\ downloads[d].url \in URLs
    BY <1>3, DownloadFacts DEF Done, NoDownload
  <2>2. downloads'[d] = [downloads[d] EXCEPT !.state = "finished", !.handlers = {}]
    BY <1>3 DEF Done, TypeOK
  <2>3. /\ downloads'[d] \in DownloadsType
        /\ downloads'[d].handlers # {} <=> downloads'[d].state \in Joinable
    BY <2>1, <2>2, NoneIsNothing DEF DownloadsType, NoDownload, Joinable
  <2>4. NetworkTyped'
    BY <1>3, <2>3 DEF Done, TypeOK, NetworkTyped
  <2> QED BY <1>3, <2>4, PartsKept, PartsPrimed DEF Done
<1>4. CASE Completion(d)
  <2>1. NetworkTyped'
    BY <1>4 DEF Completion, TypeOK, NetworkTyped, DownloadsType, NoDownload, Joinable
  <2> QED BY <1>4, <2>1, PartsKept, PartsPrimed DEF Completion
<1> QED BY <1>1, <1>2, <1>3, <1>4 DEF DownloadStep

\* The app asks a view for a picture, or drops the view.
LEMMA ViewTypes ==
    ASSUME TypeOK, NEW v \in Views, NEW u \in URLs \cup {None},
           \/ ShowNothing(v, u) \/ ShowCached(v, u) \/ ViewGone(v)
           \/ \E l \in Loads : StartLoad(v, u, l)
    PROVE  TypeOK'
<1>1. current[v] \in Loads \cup {None}
  BY DEF TypeOK
<1>2. CASE ShowNothing(v, u) \/ ShowCached(v, u)
  <2>1. NetworkTyped'
    BY <1>1, <1>2, CancelFacts DEF ShowNothing, ShowCached, CancelLoad, TypeOK, NetworkTyped
  <2>2. wanted' \in [Views -> URLs \cup {None}] /\ asks' \in 0..MaxAsks
    BY <1>2, AskTypes DEF ShowNothing, ShowCached
  <2>3. ViewsTyped'
    <3>1. loads' \in [Loads -> LoadsType]
      BY <1>2 DEF ShowNothing, ShowCached, CancelLoad, TypeOK, LoadsType
    <3>2. current' \in [Views -> Loads \cup {None}]
      BY <1>2 DEF ShowNothing, ShowCached, TypeOK
    <3>3. shown' \in [Views -> URLs \cup {None}]
      BY <1>2 DEF ShowNothing, ShowCached, TypeOK
    <3> QED BY <2>2, <3>1, <3>2, <3>3 DEF ViewsTyped
  <2> QED BY <1>2, <2>1, <2>3, PartsKept, PartsPrimed DEF ShowNothing, ShowCached
<1>3. ASSUME NEW l \in Loads, StartLoad(v, u, l)
      PROVE  TypeOK'
  <2>1. NetworkTyped'
    BY <1>1, <1>3, CancelFacts DEF StartLoad, TypeOK, NetworkTyped
  <2>2. wanted' \in [Views -> URLs \cup {None}] /\ asks' \in 0..MaxAsks
    BY <1>3, AskTypes DEF StartLoad
  <2>3. ViewsTyped'
    BY <1>3, <2>2 DEF StartLoad, TypeOK, ViewsTyped, LoadsType
  <2>4. Query(l) \in Jobs
    BY DEF Query, Jobs
  <2>5. io' \in Seq(Jobs)
    BY <1>3, <2>4, AppendProperties DEF StartLoad, TypeOK
  <2>6. QueuesTyped'
    BY <1>3, <2>5 DEF StartLoad, TypeOK, QueuesTyped
  <2> QED BY <1>3, <2>1, <2>3, <2>6, PartsKept, PartsPrimed DEF StartLoad
<1>4. CASE ViewGone(v)
  <2>1. wanted' \in [Views -> URLs \cup {None}] /\ asks' \in 0..MaxAsks
    BY <1>4, AskTypes DEF ViewGone
  <2>2. ASSUME NEW l \in Loads PROVE [loads[l] EXCEPT !.view = None] \in LoadsType
    BY LoadFacts DEF LoadsType, Over, TypeOK
  <2>3. ViewsTyped'
    BY <1>4, <2>1, <2>2 DEF ViewGone, TypeOK, ViewsTyped
  <2> QED BY <1>4, <2>3, PartsKept, PartsPrimed DEF ViewGone
<1> QED BY <1>2, <1>3, <1>4

LEMMA RelaunchTypes == ASSUME TypeOK, Relaunch PROVE TypeOK'
<1>1. ViewsTyped'
  BY DEF Relaunch, ViewsTyped, LoadsType, TypeOK
<1>2. QueuesTyped'
  BY EmptySeq DEF Relaunch, QueuesTyped
<1>3. NetworkTyped'
  BY DEF Relaunch, NetworkTyped, DownloadsType, NoDownload, Joinable
<1>4. CachesTyped'
  BY DEF Relaunch, CachesTyped, TypeOK
<1> QED BY <1>1, <1>2, <1>3, <1>4, PartsPrimed

LEMMA TypeStep == TypeOK /\ [Next]_vars => TypeOK'
<1> SUFFICES ASSUME TypeOK, [Next]_vars PROVE TypeOK'
  OBVIOUS
<1>1. ASSUME NEW v \in Views, NEW u \in URLs \cup {None},
             ShowNothing(v, u) \/ ShowCached(v, u) \/ \E l \in Loads : StartLoad(v, u, l)
      PROVE  TypeOK'
  BY <1>1, ViewTypes
<1>2. ASSUME NEW v \in Views, ViewGone(v) PROVE TypeOK'
  BY <1>2, ViewTypes
<1>3. ASSUME NEW u \in URLs, Evict(u) PROVE TypeOK'
  BY <1>3 DEF Evict, TypeOK, views, network
<1>4. CASE UNCHANGED vars
  BY <1>4 DEF vars, TypeOK, views, network, caches
<1> QED BY <1>1, <1>2, <1>3, <1>4, IoTypes, MainTypes, DownloadStepTypes, RelaunchTypes
        DEF Next

\* Every reachable state is well typed, and no download runs for nobody.
THEOREM ImagesTyped == Spec => []TypeOK
BY TypeInit, TypeStep, PTL DEF Spec

-----------------------------------------------------------------------------
(* The pictures.                                                           *)

LEMMA PicturesInit == Init => IInv
<1> SUFFICES ASSUME Init PROVE IInv
  OBVIOUS
<1>1. LoadsAreCurrent
  BY NoneIsNothing DEF Init, LoadsAreCurrent, Over
<1>2. HandlersMatch /\ RegisteredMatch
  BY DEF Init, HandlersMatch, RegisteredMatch, NoDownload
<1>3. AnswersMatch
  BY EmptySeq DEF Init, AnswersMatch
<1>4. ShownIsWanted
  BY DEF Init, ShownIsWanted
<1> QED BY <1>1, <1>2, <1>3, <1>4 DEF IInv

\* Of all loads but k, some may end or lose their view.
OthersEnd(k) ==
    \A l \in Loads \ {k} : loads'[l] = Over \/ (Live(l) /\ loads'[l].url = loads[l].url)

\* Nobody joins a download.
FewerHandlers ==
    \A d \in Downloads : /\ downloads'[d].url = downloads[d].url
                         /\ downloads'[d].handlers \subseteq downloads[d].handlers

\* No answer is posted.
FewerAnswers ==
    \A i \in 1..Len(main') : main'[i].kind = "answer" =>
        \E j \in 1..Len(main) : main'[i] = main[j]

LEMMA HandlersStay ==
    ASSUME TypeOK, HandlersMatch, NEW k, OthersEnd(k), FewerHandlers, ~Attached(k)
    PROVE  HandlersMatch'
<1> SUFFICES ASSUME NEW d \in Downloads, NEW l \in downloads'[d].handlers, Live(l)'
             PROVE  loads'[l].url = downloads'[d].url
  BY DEF HandlersMatch
<1>1. l \in downloads[d].handlers /\ downloads'[d].url = downloads[d].url
  BY DEF FewerHandlers
<1>2. l \in Loads \ {k}
  BY <1>1, DownloadFacts DEF Attached
<1>3. Live(l) /\ loads'[l].url = loads[l].url
  BY <1>2 DEF OthersEnd, Live
<1> QED BY <1>1, <1>3 DEF HandlersMatch

LEMMA AnswersStay ==
    ASSUME TypeOK, AnswersMatch, NEW k, OthersEnd(k), FewerAnswers, ~Posted(k)
    PROVE  AnswersMatch'
<1> SUFFICES ASSUME NEW i \in 1..Len(main'), main'[i].kind = "answer",
                    NEW l \in main'[i].loads, Live(l)'
             PROVE  loads'[l].url = main'[i].url
  BY DEF AnswersMatch
<1>1. PICK j \in 1..Len(main) : main'[i] = main[j]
  BY DEF FewerAnswers
<1>2. main[j] \in Blocks
  BY ElementOfSeq DEF TypeOK
<1>3. l \in Loads \ {k}
  BY <1>1, <1>2, BlockFacts DEF Posted
<1>4. Live(l) /\ loads'[l].url = loads[l].url
  BY <1>3 DEF OthersEnd, Live
<1> QED BY <1>1, <1>4 DEF AnswersMatch

LEMMA NoneUnmentioned ==
    ASSUME TypeOK
    PROVE  ~Attached(None) /\ ~Posted(None)
<1>1. ~Attached(None)
  BY DownloadFacts, NoneIsNothing DEF Attached
<1>2. \A i \in 1..Len(main) : main[i] \in Blocks
  BY ElementOfSeq DEF TypeOK
<1>3. ~Posted(None)
  BY <1>2, BlockFacts, NoneIsNothing DEF Posted
<1> QED BY <1>1, <1>3

LEMMA RegistersStay ==
    ASSUME TypeOK, RegisteredMatch, FewerHandlers, UNCHANGED URLOperations
    PROVE  RegisteredMatch'
BY DEF TypeOK, RegisteredMatch, FewerHandlers

\* A load that joins or starts a download is one of its address.
LEMMA DownloadMatches ==
    ASSUME TypeOK, IInv, NEW l \in Loads, Live(l), Download(l), UNCHANGED loads
    PROVE  HandlersMatch' /\ RegisteredMatch'
<1> DEFINE u == loads[l].url
<1>1. u \in URLs
  BY LoadFacts DEF Live
<1>2. CASE /\ URLOperations[u] # None
           /\ downloads' = [downloads EXCEPT ![URLOperations[u]].handlers = @ \cup {l}]
           /\ UNCHANGED URLOperations
  <2>1. URLOperations[u] \in Downloads /\ downloads[URLOperations[u]].url = u
    BY <1>1, <1>2 DEF TypeOK, IInv, RegisteredMatch
  <2>2. ASSUME NEW d \in Downloads
        PROVE  /\ downloads'[d].url = downloads[d].url
               /\ \A k \in downloads'[d].handlers :
                     k \in downloads[d].handlers \/ (k = l /\ downloads[d].url = u)
    <3>1. downloads[d] \in DownloadRecords
      BY DownloadFacts
    <3>2. CASE d = URLOperations[u]
      <4>1. downloads'[d] = [downloads[d] EXCEPT !.handlers = @ \cup {l}]
        BY <1>2, <2>1, <3>2 DEF TypeOK
      <4>2. /\ downloads'[d].url = downloads[d].url
            /\ downloads'[d].handlers = downloads[d].handlers \cup {l}
        BY <3>1, <4>1 DEF DownloadRecords
      <4> QED BY <2>1, <3>2, <4>2
    <3>3. CASE d # URLOperations[u]
      BY <1>2, <2>1, <3>3 DEF TypeOK
    <3> QED BY <3>2, <3>3
  <2>3. HandlersMatch'
    BY <2>2 DEF IInv, HandlersMatch, Live
  <2>4. RegisteredMatch'
    BY <1>2, <2>2 DEF TypeOK, IInv, RegisteredMatch
  <2> QED BY <2>3, <2>4
<1>3. ASSUME NEW new \in Downloads, downloads[new] = NoDownload,
             downloads' = [downloads EXCEPT ![new] =
                              [url |-> u, state |-> "queued", handlers |-> {l}]],
             URLOperations' = [URLOperations EXCEPT ![u] = new]
      PROVE  HandlersMatch' /\ RegisteredMatch'
  <2>1. \A d \in Downloads : IF d = new THEN downloads'[d].url = u /\ downloads'[d].handlers = {l}
                                        ELSE downloads'[d] = downloads[d]
    BY <1>3 DEF TypeOK
  <2>2. HandlersMatch'
    BY <2>1 DEF IInv, HandlersMatch, Live
  <2>3. ASSUME NEW w \in URLs, URLOperations'[w] # None
        PROVE  downloads'[URLOperations'[w]].url = w
    <3>1. CASE w = u
      BY <1>3, <2>1, <3>1 DEF TypeOK
    <3>2. CASE w # u
      <4>1. /\ URLOperations'[w] = URLOperations[w] /\ URLOperations[w] \in Downloads
            /\ downloads[URLOperations[w]].url = w
        BY <1>3, <2>3, <3>2 DEF TypeOK, IInv, RegisteredMatch
      <4>2. URLOperations[w] # new
        BY <1>3, <4>1, NoneIsNothing DEF NoDownload
      <4> QED BY <2>1, <4>1, <4>2
    <3> QED BY <3>1, <3>2
  <2> QED BY <2>2, <2>3 DEF RegisteredMatch
<1> QED BY <1>2, <1>3 DEF Download

\* Loads of this image that end leave the views with the pictures they want.
LEMMA CompleteMatches ==
    ASSUME TypeOK, IInv, NEW finished \in SUBSET Loads, NEW image,
           \A l \in finished : Live(l) /\ (image = None \/ image = loads[l].url),
           Complete(finished, image), UNCHANGED wanted
    PROVE  LoadsAreCurrent' /\ ShownIsWanted' /\ OthersEnd(None)
<1>1. ASSUME NEW l \in Loads, NEW v \in Views, loads'[l].view = v
      PROVE  current'[v] = l /\ loads'[l].url = wanted'[v]
  <2>1. l \notin finished /\ loads'[l] = loads[l]
    BY <1>1, NoneIsNothing DEF Complete, Over
  <2>2. current[v] = l /\ loads[l].url = wanted[v]
    BY <1>1, <2>1 DEF IInv, LoadsAreCurrent
  <2> QED BY <2>1, <2>2 DEF Complete
<1>2. ASSUME NEW v \in Views
      PROVE  shown'[v] \in {wanted'[v], None}
  <2>1. CASE shown'[v] = shown[v]
    BY <2>1 DEF IInv, ShownIsWanted
  <2>2. CASE shown'[v] # shown[v]
    <3>1. PICK l \in finished : loads[l].view = v /\ shown'[v] = image /\ image # None
      BY <2>2 DEF Complete
    <3>2. image = loads[l].url /\ loads[l].url = wanted[v]
      BY <3>1 DEF IInv, LoadsAreCurrent
    <3> QED BY <3>1, <3>2
  <2> QED BY <2>1, <2>2
<1>3. ASSUME NEW l \in Loads
      PROVE  loads'[l] = Over \/ (Live(l) /\ loads'[l].url = loads[l].url)
  <2>1. loads'[l] = Over \/ loads'[l] = loads[l]
    BY DEF Complete
  <2> QED BY <2>1 DEF Live
<1> QED BY <1>1, <1>2, <1>3 DEF LoadsAreCurrent, ShownIsWanted, OthersEnd

\* A view gives up its load, for nothing, a cached picture or another load.
LEMMA ViewMatches ==
    ASSUME TypeOK, IInv, NEW v \in Views, NEW u \in URLs \cup {None},
           \/ ShowNothing(v, u) \/ ShowCached(v, u) \/ ViewGone(v)
           \/ \E l \in Loads : StartLoad(v, u, l)
    PROVE  IInv'
<1>0. current[v] \in Loads \cup {None} /\ ~Attached(None) /\ ~Posted(None)
  BY NoneUnmentioned DEF TypeOK
<1>1. CASE ShowNothing(v, u) \/ ShowCached(v, u)
  <2>1. /\ wanted' = [wanted EXCEPT ![v] = u] /\ current' = [current EXCEPT ![v] = None]
        /\ loads' = [l \in Loads |-> IF l = current[v] THEN Over ELSE loads[l]]
        /\ CancelToken(current[v]) /\ UNCHANGED <<main, URLOperations>>
        /\ shown' = [shown EXCEPT ![v] = None] \/ shown' = [shown EXCEPT ![v] = u]
    BY <1>1 DEF ShowNothing, ShowCached, Ask, CancelLoad
  <2>2. LoadsAreCurrent'
    <3> SUFFICES ASSUME NEW l \in Loads, NEW w \in Views, loads'[l].view = w
                 PROVE  current'[w] = l /\ loads'[l].url = wanted'[w]
      BY DEF LoadsAreCurrent
    <3>1. l # current[v] /\ loads'[l] = loads[l]
      BY <2>1, NoneIsNothing DEF Over
    <3>2. current[w] = l /\ loads[l].url = wanted[w] /\ w # v
      BY <3>1 DEF IInv, LoadsAreCurrent
    <3> QED BY <2>1, <3>1, <3>2 DEF TypeOK
  <2>3. ShownIsWanted'
    BY <2>1 DEF TypeOK, IInv, ShownIsWanted
  <2>4. OthersEnd(None)
    BY <2>1 DEF OthersEnd, Live
  <2>5. FewerHandlers /\ FewerAnswers
    BY <1>0, <2>1, CancelFacts DEF FewerHandlers, FewerAnswers
  <2> QED BY <1>0, <2>1, <2>2, <2>3, <2>4, <2>5, HandlersStay, AnswersStay, RegistersStay
          DEF IInv
<1>2. ASSUME NEW k \in Loads, StartLoad(v, u, k)
      PROVE  IInv'
  <2>1. /\ wanted' = [wanted EXCEPT ![v] = u] /\ current' = [current EXCEPT ![v] = k]
        /\ loads' = [l \in Loads |-> IF l = k THEN [view |-> v, url |-> u]
                                     ELSE IF l = current[v] THEN Over ELSE loads[l]]
        /\ CancelToken(current[v]) /\ UNCHANGED <<main, URLOperations>>
        /\ shown' = [shown EXCEPT ![v] = None]
        /\ ~Attached(k) /\ ~Posted(k) /\ ~Live(k)
    BY <1>2 DEF StartLoad, Ask, Unused, Mentioned
  <2>2. LoadsAreCurrent'
    <3> SUFFICES ASSUME NEW l \in Loads, NEW w \in Views, loads'[l].view = w
                 PROVE  current'[w] = l /\ loads'[l].url = wanted'[w]
      BY DEF LoadsAreCurrent
    <3>1. CASE l = k
      BY <2>1, <3>1 DEF TypeOK
    <3>2. CASE l # k
      <4>1. l # current[v] /\ loads'[l] = loads[l]
        BY <2>1, <3>2, NoneIsNothing DEF Over
      <4>2. current[w] = l /\ loads[l].url = wanted[w] /\ w # v
        BY <4>1 DEF IInv, LoadsAreCurrent
      <4> QED BY <2>1, <4>1, <4>2 DEF TypeOK
    <3> QED BY <3>1, <3>2
  <2>3. ShownIsWanted'
    BY <2>1 DEF TypeOK, IInv, ShownIsWanted
  <2>4. OthersEnd(k)
    BY <2>1 DEF OthersEnd, Live
  <2>5. FewerHandlers /\ FewerAnswers
    BY <1>0, <2>1, CancelFacts DEF FewerHandlers, FewerAnswers
  <2> QED BY <2>1, <2>2, <2>3, <2>4, <2>5, HandlersStay, AnswersStay, RegistersStay
          DEF IInv
<1>3. CASE ViewGone(v)
  <2>1. /\ wanted' = [wanted EXCEPT ![v] = None] /\ current' = [current EXCEPT ![v] = None]
        /\ loads' = [l \in Loads |-> IF l = current[v] THEN [loads[l] EXCEPT !.view = None]
                                                       ELSE loads[l]]
        /\ shown' = [shown EXCEPT ![v] = None]
        /\ UNCHANGED <<main, URLOperations, downloads>>
    BY <1>3 DEF ViewGone, Ask, network
  <2>2. LoadsAreCurrent'
    <3> SUFFICES ASSUME NEW l \in Loads, NEW w \in Views, loads'[l].view = w
                 PROVE  current'[w] = l /\ loads'[l].url = wanted'[w]
      BY DEF LoadsAreCurrent
    <3>1. l # current[v]
      <4>1. CASE loads[l] = Over
        BY <2>1, <4>1, NoneIsNothing DEF Over
      <4>2. CASE loads[l] = [view |-> loads[l].view, url |-> loads[l].url]
        BY <2>1, <4>2, NoneIsNothing
      <4> QED BY <4>1, <4>2, LoadFacts
    <3>2. loads'[l] = loads[l]
      BY <2>1, <3>1
    <3>3. current[w] = l /\ loads[l].url = wanted[w] /\ w # v
      BY <3>1, <3>2 DEF IInv, LoadsAreCurrent
    <3> QED BY <2>1, <3>2, <3>3 DEF TypeOK
  <2>3. ShownIsWanted'
    BY <2>1 DEF TypeOK, IInv, ShownIsWanted
  <2>4. ASSUME NEW l \in Loads
        PROVE  loads'[l] = Over \/ (Live(l) /\ loads'[l].url = loads[l].url)
    <3>1. CASE loads[l] = Over
      BY <2>1, <3>1 DEF Over
    <3>2. CASE loads[l] # Over
      <4>1. loads[l] = [view |-> loads[l].view, url |-> loads[l].url]
        BY <3>2, LoadFacts
      <4> QED BY <2>1, <3>2, <4>1 DEF Live
    <3> QED BY <3>1, <3>2
  <2>5. OthersEnd(None) /\ FewerHandlers /\ FewerAnswers
    BY <2>1, <2>4 DEF OthersEnd, FewerHandlers, FewerAnswers
  <2> QED BY <1>0, <2>1, <2>2, <2>3, <2>5, HandlersStay, AnswersStay, RegistersStay
          DEF IInv
<1> QED BY <1>1, <1>2, <1>3

\* The main queue tells views of images and loads of misses.
LEMMA MainMatches == ASSUME TypeOK, IInv, MainStep PROVE IInv'
<1> DEFINE block == Head(main)
<1>1. /\ block \in Blocks /\ main # <<>> /\ main' = Tail(main)
      /\ UNCHANGED wanted
  BY MainFacts DEF MainStep
<1>2. FewerAnswers
  BY <1>1, MainFacts DEF FewerAnswers
<1>3. ~Attached(None) /\ ~Posted(None)
  BY NoneUnmentioned
\* Loads that end change nothing else.
<1>4. ASSUME LoadsAreCurrent', ShownIsWanted', OthersEnd(None), UNCHANGED network
      PROVE  IInv'
  <2>1. FewerHandlers
    BY <1>4 DEF FewerHandlers, network
  <2> QED BY <1>2, <1>3, <1>4, <2>1, HandlersStay, AnswersStay, RegistersStay
          DEF IInv, network
<1>5. CASE UNCHANGED <<shown, current, loads>>
  <2>1. LoadsAreCurrent' /\ ShownIsWanted'
    BY <1>1, <1>5 DEF IInv, LoadsAreCurrent, ShownIsWanted
  <2>2. OthersEnd(None)
    BY <1>5 DEF OthersEnd, Live
  <2>3. AnswersMatch'
    BY <1>2, <1>3, <2>2, AnswersStay DEF IInv
  <2>4. CASE UNCHANGED network
    BY <1>4, <2>1, <2>2, <2>4
  <2>5. ASSUME NEW l \in Loads, Live(l), Download(l)
        PROVE  IInv'
    BY <1>5, <2>1, <2>3, <2>5, DownloadMatches DEF IInv
  <2>6. block.kind = "answer" => UNCHANGED network
    BY DEF MainStep, TakeAnswer
  <2>7. block.kind = "queried" =>
            block.load \in Loads /\ (UNCHANGED network \/ (Live(block.load) /\ Download(block.load)))
    BY <1>1, BlockFacts DEF MainStep, TakeQueried
  <2> QED BY <1>1, <2>4, <2>5, <2>6, <2>7, BlockFacts
<1>6. ASSUME block.kind = "queried", Live(block.load),
             Complete({block.load}, loads[block.load].url), UNCHANGED network
      PROVE  IInv'
  <2>1. block.load \in Loads
    BY <1>1, <1>6, BlockFacts
  <2>2. LoadsAreCurrent' /\ ShownIsWanted' /\ OthersEnd(None)
    BY <1>1, <1>6, <2>1, CompleteMatches
  <2> QED BY <1>4, <1>6, <2>2
<1>7. ASSUME block.kind = "answer", TakeAnswer(block.url, block.loads, block.outcome)
      PROVE  IInv'
  <2> DEFINE alive == {l \in block.loads : Live(l)}
             image == IF block.outcome = "image" THEN block.url ELSE None
  <2>1. alive \in SUBSET Loads
    BY <1>1, <1>7, BlockFacts
  <2>2. \A l \in alive : Live(l) /\ loads[l].url = block.url
    BY <1>1, <1>7, MainFacts DEF IInv, AnswersMatch
  <2>3. Complete(alive, image) /\ UNCHANGED network
    BY <1>7 DEF TakeAnswer
  <2>4. LoadsAreCurrent' /\ ShownIsWanted' /\ OthersEnd(None)
    BY <1>1, <2>1, <2>2, <2>3, CompleteMatches
  <2> QED BY <1>4, <2>3, <2>4
<1> QED BY <1>5, <1>6, <1>7 DEF MainStep, TakeQueried

\* What neither views nor loads notice.
LEMMA ViewsMatch ==
    ASSUME TypeOK, IInv, UNCHANGED <<views, loads>>
    PROVE  LoadsAreCurrent' /\ ShownIsWanted' /\ OthersEnd(None)
<1>1. LoadsAreCurrent' /\ ShownIsWanted'
  BY DEF IInv, LoadsAreCurrent, ShownIsWanted, views
<1>2. OthersEnd(None)
  BY DEF OthersEnd, Live
<1> QED BY <1>1, <1>2

LEMMA IoMatches == ASSUME TypeOK, IInv, IoStep PROVE IInv'
<1>1. LoadsAreCurrent' /\ ShownIsWanted' /\ OthersEnd(None)
  BY ViewsMatch DEF IoStep
<1>2. FewerHandlers /\ UNCHANGED <<downloads, URLOperations>>
  BY DEF IoStep, FewerHandlers, network
<1>3. FewerAnswers
  <2>1. CASE main' = main
    BY <2>1 DEF FewerAnswers
  <2>2. ASSUME NEW l, NEW hit \in BOOLEAN, l \in Loads, main' = Append(main, Queried(l, hit))
        PROVE  FewerAnswers
    <3>1. Queried(l, hit) \in Blocks /\ Queried(l, hit).kind # "answer"
      BY <2>2 DEF Queried, Blocks
    <3> QED BY <2>2, <3>1, PostFacts DEF FewerAnswers
  <2>3. Head(io).kind = "query" => Head(io).load \in Loads
    BY IoFacts DEF IoStep, Jobs
  <2> DEFINE hit == loads[Head(io).load].url \in disk
  <2>4. \/ main' = main
        \/ Head(io).kind = "query" /\ main' = Append(main, Queried(Head(io).load, hit))
    BY DEF IoStep, QueryDisk, WriteDisk
  <2>5. hit \in BOOLEAN
    OBVIOUS
  <2> HIDE DEF hit
  <2> QED BY <2>1, <2>2, <2>3, <2>4, <2>5
<1> QED BY <1>1, <1>2, <1>3, NoneUnmentioned, HandlersStay, AnswersStay, RegistersStay
        DEF IInv

LEMMA DownloadStepMatches ==
    ASSUME TypeOK, IInv, NEW d \in Downloads, DownloadStep(d)
    PROVE  IInv'
<1>0. LoadsAreCurrent' /\ ShownIsWanted' /\ OthersEnd(None)
  BY ViewsMatch DEF DownloadStep, Start, Done, Completion, Deliver
<1>1. CASE Start(d)
  <2>1. FewerHandlers /\ FewerAnswers
    BY <1>1, BecomesTypes DEF Start, FewerHandlers, FewerAnswers
  <2> QED BY <1>0, <1>1, <2>1, NoneUnmentioned, HandlersStay, AnswersStay, RegistersStay
          DEF IInv, Start
\* The posted answer is for loads of the download's address.
<1>2. ASSUME NEW outcome \in Outcomes, Deliver(d, outcome)
      PROVE  IInv'
  <2> DEFINE answer == Answer(downloads[d].url, downloads[d].handlers, outcome)
  <2>1. FewerHandlers
    BY <1>2, BecomesTypes DEF Deliver, FewerHandlers
  <2>2. downloads[d].url \in URLs /\ downloads[d].handlers \subseteq Loads
    BY <1>2, DownloadFacts DEF Deliver, Becomes, NoDownload
  <2>3. answer \in Blocks
    BY <2>2 DEF Answer, Blocks
  <2>4. \A i \in 1..Len(main') : main'[i] = answer \/ (i \in 1..Len(main) /\ main'[i] = main[i])
    BY <1>2, <2>3, PostFacts DEF Deliver
  <2>5. \A l \in answer.loads : Live(l) => loads[l].url = answer.url
    BY DEF IInv, HandlersMatch, Answer
  <2>6. AnswersMatch'
    BY <1>2, <2>4, <2>5 DEF Deliver, IInv, AnswersMatch, Live
  <2> QED BY <1>0, <1>2, <2>1, <2>6, NoneUnmentioned, HandlersStay, RegistersStay
          DEF IInv, Deliver
<1>3. CASE Done(d)
  <2>1. downloads[d] \in DownloadRecords
    BY DownloadFacts
  <2>2. FewerHandlers /\ FewerAnswers
    BY <1>3, <2>1 DEF Done, FewerHandlers, FewerAnswers, TypeOK, DownloadRecords
  <2> QED BY <1>0, <1>3, <2>2, NoneUnmentioned, HandlersStay, AnswersStay, RegistersStay
          DEF IInv, Done
<1>4. CASE Completion(d)
  <2>1. \A e \in Downloads : IF e = d THEN downloads'[e].handlers = {}
                                      ELSE downloads'[e] = downloads[e]
    BY <1>4 DEF Completion, TypeOK, NoDownload
  <2>2. HandlersMatch'
    BY <1>4, <2>1 DEF Completion, IInv, HandlersMatch, Live
  <2>3. FewerAnswers
    BY <1>4 DEF Completion, FewerAnswers
  <2>4. ASSUME NEW u \in URLs, URLOperations'[u] # None
        PROVE  downloads'[URLOperations'[u]].url = u
    <3>1. u # downloads[d].url /\ URLOperations'[u] = URLOperations[u]
      BY <1>4, <2>4 DEF Completion, TypeOK
    <3>2. /\ URLOperations[u] \in Downloads /\ URLOperations[u] # d
          /\ downloads[URLOperations[u]].url = u
      BY <2>4, <3>1 DEF TypeOK, IInv, RegisteredMatch
    <3> QED BY <2>1, <3>1, <3>2
  <2> QED BY <1>0, <2>2, <2>3, <2>4, NoneUnmentioned, AnswersStay DEF IInv, RegisteredMatch
<1> QED BY <1>1, <1>2, <1>3, <1>4 DEF DownloadStep

LEMMA RelaunchMatches == ASSUME TypeOK, Relaunch PROVE IInv'
<1>1. LoadsAreCurrent'
  BY NoneIsNothing DEF Relaunch, LoadsAreCurrent, Over
<1>2. HandlersMatch' /\ RegisteredMatch'
  BY DEF Relaunch, HandlersMatch, RegisteredMatch, NoDownload
<1>3. AnswersMatch'
  BY EmptySeq DEF Relaunch, AnswersMatch
<1>4. ShownIsWanted'
  BY DEF Relaunch, ShownIsWanted
<1> QED BY <1>1, <1>2, <1>3, <1>4 DEF IInv

LEMMA PicturesStep == TypeOK /\ IInv /\ [Next]_vars => IInv'
<1> SUFFICES ASSUME TypeOK, IInv, [Next]_vars PROVE IInv'
  OBVIOUS
<1>1. ASSUME NEW v \in Views, NEW u \in URLs \cup {None},
             ShowNothing(v, u) \/ ShowCached(v, u) \/ \E l \in Loads : StartLoad(v, u, l)
      PROVE  IInv'
  BY <1>1, ViewMatches
<1>2. ASSUME NEW v \in Views, ViewGone(v) PROVE IInv'
  BY <1>2, ViewMatches
<1>3. CASE UNCHANGED <<views, loads, main, network>>
  <2>1. LoadsAreCurrent' /\ ShownIsWanted' /\ OthersEnd(None)
    BY <1>3, ViewsMatch
  <2>2. FewerHandlers /\ FewerAnswers
    BY <1>3 DEF FewerHandlers, FewerAnswers, network
  <2> QED BY <1>3, <2>1, <2>2, NoneUnmentioned, HandlersStay, AnswersStay, RegistersStay
          DEF IInv, network
<1>4. ASSUME NEW u \in URLs, Evict(u) PROVE IInv'
  BY <1>3, <1>4 DEF Evict
<1>5. CASE UNCHANGED vars
  BY <1>3, <1>5 DEF vars
<1> QED BY <1>1, <1>2, <1>4, <1>5, IoMatches, MainMatches, DownloadStepMatches,
           RelaunchMatches DEF Next

\* No view shows the picture of another word than the one it was given, with any
\* number of views, pictures, loads and downloads.
THEOREM PicturesAreWanted == Spec => []ShownIsWanted
<1>1. Spec => []IInv
  BY ImagesTyped, PicturesInit, PicturesStep, PTL DEF Spec
<1> QED BY <1>1, PTL DEF IInv

=============================================================================
