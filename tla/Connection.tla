----------------------------- MODULE Connection -----------------------------
(***************************************************************************)
(* The connection of one phone to the Realtime Database, as the vendored   *)
(* FirebaseDatabase keeps it: FPersistentConnection, with the FConnection  *)
(* it opens and the FIRRetryHelper that opens it again.                    *)
(*                                                                         *)
(* Every write the app makes (signing up, logging in through Facebook) and *)
(* every list of accounts it sees goes through this code.  A write is kept *)
(* until the server answered it and is sent again on every new connection; *)
(* a listen likewise.  All handlers run on one serial queue, so one action *)
(* is one handler.                                                         *)
(*                                                                         *)
(* Abstractions.  This build links no FirebaseAuth: the token provider     *)
(* answers nil at once, so the states GettingToken and Authenticating are  *)
(* passed within one handler or never entered.  Delays are left out, only  *)
(* whether a retry is scheduled matters.  A closed FConnection is released *)
(* and can no longer call back (its delegates are weak), so a callback in  *)
(* requestCBHash waits exactly for a request or an answer that is still on *)
(* the wire, and an answer carries its request instead of a number.        *)
(***************************************************************************)
EXTENDS Integers, Sequences, FiniteSets

CONSTANTS
    Queries,            \* the locations the app observes
    MaxPuts,            \* bound: writes issued; they are numbered from 1
    Rules,              \* what the rules of the database may refuse
    MaxListens,         \* bound: listens made
    MaxRemovals,        \* bound: listens given up by the app or revoked
    MaxDrops,           \* bound: sockets that fail or are reset
    MaxInterrupts,      \* bound: interruptions for a reason
    MaxOthers           \* bound: writes of other phones

Puts == 1..MaxPuts

ASSUME BoundsAreNat ==
    /\ {MaxPuts, MaxListens, MaxRemovals, MaxDrops, MaxInterrupts, MaxOthers}
            \subseteq Nat
    /\ IsFiniteSet(Queries)
    /\ Rules \subseteq [puts : SUBSET Puts, queries : SUBSET Queries]

VARIABLES
    connectionState,    \* of FPersistentConnection
    realtime,           \* state of the FConnection in `realtime', or "none"
    interruptReasons,   \* why no connection may be opened
    scheduledRetry,     \* the retry helper has a task to open one
    listens,            \* listens[q]: number of the FOutstandingQuery, or 0
    outstandingPuts,    \* writes without an answer, in the order of their keys
    unackedListensCount,\* listens sent and not answered on this connection
    putsToAck,          \* answered writes whose callback waits for the listens
    completed,          \* history: callbacks of writes that were called
    putCounter,         \* writes issued
    toServer,           \* requests on the wire
    fromServer,         \* messages on the wire
    serving,            \* server: locations it watches for this connection
    applied,            \* server: every write applied, in order (0: not ours)
    rules,              \* server: the writes and locations it refuses
    spent               \* the bounded events that happened

client == <<connectionState, realtime, interruptReasons, scheduledRetry>>
requests == <<listens, outstandingPuts, unackedListensCount, putsToAck,
              completed, putCounter>>
wire == <<toServer, fromServer>>
server == <<serving, applied, rules>>
vars == <<client, requests, wire, server, spent>>

\* interruptForReason: is called with one of these.
Reasons == {"waiting_for_open", "repo_interrupt", "server_kill"}
Events == {"listen", "removal", "drop", "interrupt", "other"}
Spend(event, bound) ==
    /\ spent[event] < bound
    /\ spent' = [spent EXCEPT ![event] = @ + 1]

-----------------------------------------------------------------------------
(* Messages.                                                               *)

PutRequest(p) == [kind |-> "put", put |-> p]
ListenRequest(q, n) == [kind |-> "listen", query |-> q, number |-> n]
UnlistenRequest(q) == [kind |-> "unlisten", query |-> q]

Requests ==
    [kind : {"put"}, put : Puts]
        \cup [kind : {"listen"}, query : Queries, number : 1..MaxListens]
        \cup [kind : {"unlisten"}, query : Queries]

Statuses == {"ok", "denied", "canceled"}
Completion(p, status) == [put |-> p, status |-> status]
Completions == [put : Puts, status : Statuses]

Answer(r, status) == [kind |-> "answer", to |-> r, status |-> status]
Data(q, value) == [kind |-> "data", query |-> q, value |-> value]
Revoked(q) == [kind |-> "revoked", query |-> q]

Values == SUBSET (0..MaxPuts)
Messages ==
    [kind : {"answer"}, to : Requests, status : Statuses]
        \cup [kind : {"data"}, query : Queries, value : Values]
        \cup [kind : {"revoked"}, query : Queries]

Elements(s) == {s[i] : i \in 1..Len(s)}
Drop(s, i) == SubSeq(s, 1, i - 1) \o SubSeq(s, i + 1, Len(s))
Stored == Elements(applied)

TypeOK ==
    /\ connectionState \in {"disconnected", "connecting", "connected"}
    /\ realtime \in {"none", "connecting", "connected"}
    /\ interruptReasons \subseteq Reasons
    /\ scheduledRetry \in BOOLEAN
    /\ listens \in [Queries -> 0..MaxListens]
    /\ outstandingPuts \in Seq(Puts)
    /\ unackedListensCount \in Int
    /\ putsToAck \in Seq(Completions)
    /\ completed \in Seq(Completions)
    /\ putCounter \in 0..MaxPuts
    /\ toServer \in Seq(Requests)
    /\ fromServer \in Seq(Messages)
    /\ serving \subseteq Queries
    /\ applied \in Seq(0..MaxPuts)
    /\ rules \in Rules
    /\ spent \in [Events -> Nat]

\* Made by FRepo, which observes nothing and has not opened it yet.
Init ==
    /\ connectionState = "disconnected"
    /\ realtime = "none"
    /\ interruptReasons = {"waiting_for_open"}
    /\ scheduledRetry = FALSE
    /\ listens = [q \in Queries |-> 0]
    /\ outstandingPuts = <<>>
    /\ unackedListensCount = 0
    /\ putsToAck = <<>>
    /\ completed = <<>>
    /\ putCounter = 0
    /\ toServer = <<>>
    /\ fromServer = <<>>
    /\ serving = {}
    /\ applied = <<>>
    /\ rules \in Rules
    /\ spent = [e \in Events |-> 0]

-----------------------------------------------------------------------------
(* Opening and losing a connection.                                        *)

CanSend == connectionState = "connected"
Listening == {q \in Queries : listens[q] # 0}

\* Every enumeration of a set: a dictionary promises no order.
Orders(S) ==
    {s \in [1..Cardinality(S) -> S] : \A i, j \in DOMAIN s : s[i] = s[j] => i = j}

\* Mutant: the keys of outstandingPuts are not sorted.
RestoreStateUnsorted(order) ==
    LET reads == [i \in 1..Len(order) |-> ListenRequest(order[i], listens[order[i]])]
    IN  /\ \E keys \in Orders(Elements(outstandingPuts)) :
              toServer' = reads \o [i \in DOMAIN keys |-> PutRequest(keys[i])]
        /\ unackedListensCount' = unackedListensCount + Len(order)

\* Mutant: only the listens are sent again.
RestoreListens(order) ==
    /\ toServer' = [i \in 1..Len(order) |-> ListenRequest(order[i], listens[order[i]])]
    /\ unackedListensCount' = unackedListensCount + Len(order)

\* Mutant: only the writes are sent again.
RestorePuts(order) ==
    /\ toServer' = [i \in 1..Len(outstandingPuts) |-> PutRequest(outstandingPuts[i])]
    /\ UNCHANGED unackedListensCount

\* Everything not yet answered is sent again, listens before writes.
RestoreState(order) ==
    LET reads == [i \in 1..Len(order) |-> ListenRequest(order[i], listens[order[i]])]
        puts == [i \in 1..Len(outstandingPuts) |-> PutRequest(outstandingPuts[i])]
    IN  /\ toServer' = reads \o puts
        /\ unackedListensCount' = unackedListensCount + Len(order)

\* The task of the retry helper: the token is nil, the socket is opened.
RetryFires ==
    /\ scheduledRetry
    /\ scheduledRetry' = FALSE
    /\ connectionState' = "connecting"
    /\ realtime' = "connecting"
    /\ UNCHANGED <<interruptReasons, requests, wire, server, spent>>

\* The server says hello on a socket that is connecting.
Handshake ==
    /\ realtime = "connecting"
    /\ realtime' = "connected"
    /\ connectionState' = "connected"
    /\ \E order \in Orders(Listening) : RestoreState(order)
    /\ UNCHANGED <<interruptReasons, scheduledRetry, listens, outstandingPuts,
                   putsToAck, completed, putCounter, fromServer, server, spent>>

\* Mutant: a new connection starts with the old count.
OnDisconnectKeepsCount(reasons) ==
    /\ connectionState' = "disconnected"
    /\ realtime' = "none"
    /\ scheduledRetry' = (reasons = {})
    /\ toServer' = <<>>
    /\ fromServer' = <<>>
    /\ serving' = {}
    /\ UNCHANGED <<applied, rules, listens, outstandingPuts, unackedListensCount, putsToAck,
                   completed, putCounter>>

\* onDisconnect: of FPersistentConnection: the socket is gone with what was
\* on it, requests the server never saw and answers it gave, and another is
\* scheduled unless there is a reason not to.
OnDisconnect(reasons) ==
    /\ connectionState' = "disconnected"
    /\ realtime' = "none"
    /\ unackedListensCount' = 0
    /\ scheduledRetry' = (reasons = {})
    /\ toServer' = <<>>
    /\ fromServer' = <<>>
    /\ serving' = {}
    /\ UNCHANGED <<applied, rules, listens, outstandingPuts, putsToAck, completed, putCounter>>

\* The socket fails, times out while connecting, or the server resets it.
ConnectionLost ==
    /\ realtime # "none"
    /\ OnDisconnect(interruptReasons)
    /\ Spend("drop", MaxDrops)
    /\ UNCHANGED interruptReasons

\* Mutant: a scheduled retry survives the interruption.
InterruptKeepsRetry(reason) ==
    /\ interruptReasons' = interruptReasons \cup {reason}
    /\ \/ realtime # "none" /\ OnDisconnect(interruptReasons')
       \/ /\ realtime = "none"
          /\ connectionState' = "disconnected"
          /\ UNCHANGED <<realtime, scheduledRetry, requests, wire, server>>

\* Any interruption: an open socket is closed, else the retry is canceled.
InterruptForReason(reason) ==
    /\ interruptReasons' = interruptReasons \cup {reason}
    /\ \/ realtime # "none" /\ OnDisconnect(interruptReasons')
       \/ /\ realtime = "none"
          /\ scheduledRetry' = FALSE
          /\ connectionState' = "disconnected"
          /\ UNCHANGED <<realtime, requests, wire, server>>

\* goOffline, from the app.
Interrupt ==
    /\ Spend("interrupt", MaxInterrupts)
    /\ InterruptForReason("repo_interrupt")

\* The server shuts this client down, for good.
OnKill ==
    /\ realtime # "none"
    /\ Spend("interrupt", MaxInterrupts)
    /\ InterruptForReason("server_kill")

TryScheduleReconnect(reasons) == scheduledRetry' = (scheduledRetry \/ reasons = {})

\* open, when FRepo is ready, and goOnline.
ResumeForReason(reason) ==
    /\ interruptReasons' = interruptReasons \ {reason}
    /\ IF interruptReasons' = {} /\ connectionState = "disconnected"
       THEN TryScheduleReconnect({})
       ELSE UNCHANGED scheduledRetry
    /\ UNCHANGED <<connectionState, realtime, requests, wire, server, spent>>

Resume ==
    \E reason \in {"waiting_for_open", "repo_interrupt"} : ResumeForReason(reason)

\* The network became reachable, or the app entered the foreground.
Reachable ==
    /\ connectionState = "disconnected"
    /\ TryScheduleReconnect(interruptReasons)
    /\ UNCHANGED <<connectionState, realtime, interruptReasons, requests, wire,
                   server, spent>>

-----------------------------------------------------------------------------
(* What FRepo asks for.                                                    *)

Send(r) == toServer' = IF CanSend THEN Append(toServer, r) ELSE toServer

\* Mutant: the number of an outstanding query is taken twice.
ListenNumberedTwice(q) ==
    /\ listens[q] = 0
    /\ Spend("listen", MaxListens)
    /\ listens' = [listens EXCEPT ![q] = spent["listen"] + 2]
    /\ Send(ListenRequest(q, listens'[q]))
    /\ unackedListensCount' = unackedListensCount + (IF CanSend THEN 1 ELSE 0)
    /\ UNCHANGED <<client, outstandingPuts, putsToAck, completed, putCounter,
                   fromServer, server>>

Listen(q) ==
    /\ listens[q] = 0
    /\ Spend("listen", MaxListens)
    /\ listens' = [listens EXCEPT ![q] = spent["listen"] + 1]
    /\ Send(ListenRequest(q, listens'[q]))
    /\ unackedListensCount' = unackedListensCount + (IF CanSend THEN 1 ELSE 0)
    /\ UNCHANGED <<client, outstandingPuts, putsToAck, completed, putCounter,
                   fromServer, server>>

Unlisten(q) ==
    /\ listens[q] # 0
    /\ Spend("removal", MaxRemovals)
    /\ listens' = [listens EXCEPT ![q] = 0]
    /\ Send(UnlistenRequest(q))
    /\ UNCHANGED <<client, outstandingPuts, unackedListensCount, putsToAck,
                   completed, putCounter, fromServer, server>>

Put ==
    /\ putCounter < MaxPuts
    /\ putCounter' = putCounter + 1
    /\ outstandingPuts' = Append(outstandingPuts, putCounter')
    /\ Send(PutRequest(putCounter'))
    /\ UNCHANGED <<client, listens, unackedListensCount, putsToAck, completed,
                   fromServer, server, spent>>

Canceled(puts) == [i \in 1..Len(puts) |-> Completion(puts[i], "canceled")]

\* purgeOutstandingWrites: what was answered is reported, what was not is
\* canceled, though its request may still be on the wire.
Purge ==
    /\ completed' = completed \o putsToAck \o Canceled(outstandingPuts)
    /\ putsToAck' = <<>>
    /\ outstandingPuts' = <<>>
    /\ UNCHANGED <<client, listens, unackedListensCount, putCounter, wire,
                   server, spent>>

-----------------------------------------------------------------------------
(* What the server says.                                                   *)

Hears(kind) ==
    /\ fromServer # <<>>
    /\ Head(fromServer).kind = kind
    /\ fromServer' = Tail(fromServer)

HearsAnswer(kind) == Hears("answer") /\ Head(fromServer).to.kind = kind

\* Mutant: an answered write is always reported at once.
ReportAtOnce(c) ==
    /\ completed' = Append(completed, c)
    /\ UNCHANGED putsToAck

\* While a listen is unanswered, the data it will bring may lack the write.
Report(c) ==
    IF unackedListensCount = 0
    THEN completed' = Append(completed, c) /\ UNCHANGED putsToAck
    ELSE putsToAck' = Append(putsToAck, c) /\ UNCHANGED completed

\* Mutant: a late answer is reported for a purged write.
PutAnsweredAnyway ==
    /\ HearsAnswer("put")
    /\ outstandingPuts' = SelectSeq(outstandingPuts,
                                    LAMBDA p : p # Head(fromServer).to.put)
    /\ Report(Completion(Head(fromServer).to.put, Head(fromServer).status))
    /\ UNCHANGED <<client, listens, unackedListensCount, putCounter, toServer,
                   server, spent>>

\* The answer to a write, unless it was purged meanwhile.
PutAnswered ==
    /\ HearsAnswer("put")
    /\ LET p == Head(fromServer).to.put IN
       \/ \E i \in 1..Len(outstandingPuts) :
             /\ outstandingPuts[i] = p
             /\ outstandingPuts' = Drop(outstandingPuts, i)
             /\ Report(Completion(p, Head(fromServer).status))
       \/ /\ p \notin Elements(outstandingPuts)
          /\ UNCHANGED <<outstandingPuts, putsToAck, completed>>
    /\ UNCHANGED <<client, listens, unackedListensCount, putCounter, toServer,
                   server, spent>>

\* The answer to a listen; the last one due lets the writes be reported.
ListenAnswered ==
    /\ HearsAnswer("listen")
    /\ LET m == Head(fromServer) IN
       listens' = [listens EXCEPT ![m.to.query] =
           IF @ = m.to.number /\ m.status # "ok" THEN 0 ELSE @]
    /\ unackedListensCount' = unackedListensCount - 1
    /\ IF unackedListensCount' = 0
       THEN completed' = completed \o putsToAck /\ putsToAck' = <<>>
       ELSE UNCHANGED <<completed, putsToAck>>
    /\ UNCHANGED <<client, outstandingPuts, putCounter, toServer, server, spent>>

\* onDataUpdate: is passed on; see Database.
DataReceived ==
    /\ Hears("data")
    /\ UNCHANGED <<client, requests, toServer, server, spent>>

OnListenRevoked ==
    /\ Hears("revoked")
    /\ listens' = [listens EXCEPT ![Head(fromServer).query] = 0]
    /\ UNCHANGED <<client, outstandingPuts, unackedListensCount, putsToAck,
                   completed, putCounter, toServer, server, spent>>

-----------------------------------------------------------------------------
(* The server, as this code relies on it: writes are applied in the order  *)
(* of their requests, each before its answer, and a location that is being *)
(* watched is told of a write before the writer is answered.  A listen may *)
(* be served later than requests that came after it.                       *)

Topic(r) == IF r.kind = "put" THEN "puts" ELSE r.query

Pushes(value) ==
    {s \in [1..Cardinality(serving) -> [kind : {"data"}, query : serving, value : {value}]] :
        \A i, j \in DOMAIN s : s[i] = s[j] => i = j}

ServePut(p) ==
    \/ /\ p \in rules.puts
       /\ fromServer' = Append(fromServer, Answer(PutRequest(p), "denied"))
       /\ UNCHANGED server
    \/ /\ p \notin rules.puts
       /\ applied' = Append(applied, p)
       /\ \E pushes \in Pushes(Stored \cup {p}) :
             fromServer' = fromServer \o pushes \o <<Answer(PutRequest(p), "ok")>>
       /\ UNCHANGED <<serving, rules>>

ServeListen(r) ==
    \/ /\ r.query \in rules.queries
       /\ fromServer' = Append(fromServer, Answer(r, "denied"))
       /\ UNCHANGED server
    \/ /\ r.query \notin rules.queries
       /\ serving' = serving \cup {r.query}
       /\ fromServer' = fromServer \o <<Data(r.query, Stored), Answer(r, "ok")>>
       /\ UNCHANGED <<applied, rules>>

ServeUnlisten(q) ==
    /\ serving' = serving \ {q}
    /\ UNCHANGED <<fromServer, applied, rules>>

Serve ==
    /\ \E i \in 1..Len(toServer) :
        LET r == toServer[i] IN
        /\ \A j \in 1..(i - 1) : Topic(toServer[j]) # Topic(r)
        /\ toServer' = Drop(toServer, i)
        /\ \/ r.kind = "put" /\ ServePut(r.put)
           \/ r.kind = "listen" /\ ServeListen(r)
           \/ r.kind = "unlisten" /\ ServeUnlisten(r.query)
    /\ UNCHANGED <<client, requests, spent>>

OtherPhoneWrites ==
    /\ Spend("other", MaxOthers)
    /\ applied' = Append(applied, 0)
    /\ \E pushes \in Pushes(Stored \cup {0}) : fromServer' = fromServer \o pushes
    /\ UNCHANGED <<client, requests, toServer, serving, rules>>

\* The rules change while a location is being watched.
Revoke(q) ==
    /\ q \in serving
    /\ Spend("removal", MaxRemovals)
    /\ serving' = serving \ {q}
    /\ fromServer' = Append(fromServer, Revoked(q))
    /\ UNCHANGED <<client, requests, toServer, applied, rules>>

-----------------------------------------------------------------------------
(* Properties.                                                             *)

InStep ==
    realtime = IF connectionState = "disconnected" THEN "none" ELSE connectionState

\* The two state machines never disagree (NSAsserts of restoreState and sendData:),
\* whatever interrupts, kills and failures do in between; and a connection
\* attempt is scheduled exactly when there is no connection and no reason against
\* one: the task that fires finds the state disconnected (NSAssert of
\* tryScheduleReconnect), and the client is never stranded without a task.
RetryExactlyWhenIdle ==
    /\ InStep
    /\ scheduledRetry <=> connectionState = "disconnected" /\ interruptReasons = {}

ListensOnWire ==
    Cardinality({i \in 1..Len(toServer) : toServer[i].kind = "listen"})
        + Cardinality({i \in 1..Len(fromServer) :
              fromServer[i].kind = "answer" /\ fromServer[i].to.kind = "listen"})

\* The count of unanswered listens is exactly that, so it is never negative
\* (NSAssert of sendListen) and never stays above zero without an answer due.
ListensCounted == unackedListensCount = ListensOnWire

\* Every write issued is in exactly one place, waiting for its answer, for the
\* listens, or reported: no callback is lost or called twice, over retries,
\* purges and answers to writes that were purged.
EachWriteOnce ==
    LET places == outstandingPuts
                      \o [i \in 1..Len(putsToAck) |-> putsToAck[i].put]
                      \o [i \in 1..Len(completed) |-> completed[i].put]
    IN  Len(places) = putCounter /\ Elements(places) = 1..putCounter

\* A write reported as done has been committed to the server.
DoneMeansCommitted ==
    \A c \in Elements(completed) : c.status = "ok" => c.put \in Stored

\* The server sees the writes of this phone in the order of issue: whenever it
\* applies one, all earlier ones were applied unless refused or canceled.
IssueOrder ==
    \A i \in 1..Len(applied) : \A p \in 1..(applied[i] - 1) :
        \/ \E j \in 1..i : applied[j] = p
        \/ p \in rules.puts
        \/ Completion(p, "canceled") \in Elements(completed)

-----------------------------------------------------------------------------
Next ==
    \/ RetryFires \/ Handshake \/ ConnectionLost \/ Interrupt \/ OnKill
    \/ Resume \/ Reachable
    \/ \E q \in Queries : Listen(q) \/ Unlisten(q) \/ Revoke(q)
    \/ Put \/ Purge
    \/ PutAnswered \/ ListenAnswered \/ DataReceived \/ OnListenRevoked
    \/ Serve \/ OtherPhoneWrites

Spec == Init /\ [][Next]_vars

=============================================================================
