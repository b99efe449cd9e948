------------------------------ MODULE Database ------------------------------
(***************************************************************************)
(* What the app sees of the Realtime Database: FRepo and its FSyncTree on  *)
(* top of the connection.                                                  *)
(*                                                                         *)
(* An observed location has a view: the server's data as far as it is      *)
(* known, under the writes of this phone that are not yet acknowledged.    *)
(* The app is told of every change of a view that is complete.  A write is *)
(* therefore seen at once, must stay while it travels, and must give way   *)
(* when it is refused.  Here each step of Connection is joined with what   *)
(* FRepo does in the same handler.                                         *)
(*                                                                         *)
(* Abstractions.  The app only adds children with keys of their own        *)
(* (childByAutoId), so a value is the set of the writes in it, no write    *)
(* shadows another, and every observed location sees every write.  The     *)
(* app's queue of events keeps their order and is left out.                *)
(***************************************************************************)
EXTENDS Connection

VARIABLES
    complete,           \* locations whose view is fully initialized
    serverCache,        \* serverCache[q]: what the server last said of q
    allWrites,          \* FWriteTree: pending writes, by writeId
    crashed             \* a write to remove was not there (NSAssert, exception)

syncTree == <<complete, serverCache, allWrites, crashed>>
dbVars == <<vars, syncTree>>

DBTypeOK ==
    /\ TypeOK
    /\ complete \subseteq Queries
    /\ serverCache \in [Queries -> Values]
    /\ allWrites \subseteq Puts
    /\ crashed \in BOOLEAN

DBInit ==
    /\ Init
    /\ complete = {}
    /\ serverCache = [q \in Queries |-> {}]
    /\ allWrites = {}
    /\ crashed = FALSE

\* The value event the app was last given for q, if its view is complete.
Shown(q) == serverCache[q] \cup allWrites

\* The view of q is gone, or starts without data.
ForgetViews(queries) ==
    /\ complete' = complete \ queries
    /\ serverCache' = [q \in Queries |-> IF q \in queries THEN {} ELSE serverCache[q]]

-----------------------------------------------------------------------------
\* The handlers of the connection that tell FRepo nothing about writes or data.
ConnectionOnly ==
    /\ \/ RetryFires \/ Handshake \/ ConnectionLost \/ Interrupt \/ OnKill
       \/ Resume \/ Reachable \/ Serve \/ OtherPhoneWrites
       \/ \E q \in Queries : Revoke(q)
    /\ UNCHANGED syncTree

\* The first observer of a location makes a view without data and listens.
Observe(q) ==
    /\ Listen(q)
    /\ UNCHANGED syncTree

\* The last observer takes the view with it.
Unobserve(q) ==
    /\ Unlisten(q)
    /\ ForgetViews({q})
    /\ UNCHANGED <<allWrites, crashed>>

\* Mutant: the local view waits for the server.
SetLater ==
    /\ Put
    /\ UNCHANGED syncTree

\* set: the write is seen at once, then sent.
Set ==
    /\ Put
    /\ allWrites' = allWrites \cup {putCounter'}
    /\ UNCHANGED <<complete, serverCache, crashed>>

\* Callbacks called in this step.
Reported == SubSeq(completed', Len(completed) + 1, Len(completed'))

\* ackWrite: for each of them; a canceled write was removed before.
AckWrites ==
    LET acked == {c.put : c \in {d \in Elements(Reported) : d.status # "canceled"}}
    IN  /\ allWrites' = allWrites \ acked
        /\ crashed' = (~ acked \subseteq allWrites)

WriteAnswered ==
    /\ PutAnswered
    /\ AckWrites
    /\ UNCHANGED <<complete, serverCache>>

\* A refused listen removes the view; then the waiting writes are acknowledged.
ObserveAnswered ==
    /\ ListenAnswered
    /\ ForgetViews({q \in Queries : listens'[q] # listens[q]})
    /\ AckWrites

\* onDataUpdate: overwrites what is known of a location that has a view.
DataUpdate ==
    /\ DataReceived
    /\ LET m == Head(fromServer) IN
       IF m.query \in Listening
       THEN /\ complete' = complete \cup {m.query}
            /\ serverCache' = [serverCache EXCEPT ![m.query] = m.value]
       ELSE UNCHANGED <<complete, serverCache>>
    /\ UNCHANGED <<allWrites, crashed>>

ObserveRevoked ==
    /\ OnListenRevoked
    /\ ForgetViews({Head(fromServer).query})
    /\ UNCHANGED <<allWrites, crashed>>

\* purgeOutstandingWrites: the tree forgets every write, and only then does the
\* connection report those that were answered.
PurgeOutstandingWrites ==
    /\ Purge
    /\ UNCHANGED <<complete, serverCache>>
    /\ allWrites' = {}
    /\ crashed' = (putsToAck # <<>>)

DBNext ==
    /\ ~crashed
    /\ \/ ConnectionOnly
       \/ \E q \in Queries : Observe(q) \/ Unobserve(q)
       \/ Set \/ PurgeOutstandingWrites
       \/ WriteAnswered \/ ObserveAnswered \/ DataUpdate \/ ObserveRevoked

(* A scheduled retry fires, a socket that was opened gets its hello or     *)
(* fails, the server serves what reaches it, and what is on the wire       *)
(* arrives unless the socket is lost.  Nothing is assumed of the app.      *)
DBSpec ==
    /\ DBInit
    /\ [][DBNext]_dbVars
    /\ WF_dbVars(~crashed /\ RetryFires /\ UNCHANGED syncTree)
    /\ WF_dbVars(~crashed /\ (Handshake \/ Serve) /\ UNCHANGED syncTree)
    /\ WF_dbVars(~crashed /\ (WriteAnswered \/ ObserveAnswered
                                 \/ DataUpdate \/ ObserveRevoked))

-----------------------------------------------------------------------------
(* Properties.                                                             *)

\* A write that was shown never disappears while it travels: not between its
\* acknowledgement and the server's data, not over a lost connection.  Only a
\* refusal or a purge takes it back.
ShownStaysShown ==
    [][~crashed' => \A q \in complete \cap complete' :
          \A p \in Shown(q) \ Shown(q)' :
              \E status \in {"denied", "canceled"} :
                  Completion(p, status) \in Elements(completed')]_dbVars

Interrupted == interruptReasons # {} \/ crashed

\* Every write gets its answer from the server, however often the connection is
\* lost: a client that is not interrupted again and again has no write waiting.
WritesAreAnswered == []<>(Interrupted \/ outstandingPuts = <<>>)

\* And every observed location comes to show exactly what the server has.
ViewsConverge ==
    []<>(Interrupted \/ \A q \in Listening : q \in complete /\ Shown(q) = Stored)

\* FIRDatabaseReference.h: the block of setValue is called after the write was
\* committed.
WritesAreReported ==
    \A p \in Puts : p \in Stored ~>
        \/ \E c \in Elements(completed) : c.put = p
        \/ Interrupted

-----------------------------------------------------------------------------
(* The abstract specification that the client implements.                  *)

\* The writes of this phone in the view the app has of q.
Own(q) == IF q \in complete THEN Shown(q) \cap Puts ELSE {}

Promise == INSTANCE OwnWrites WITH
    issued <- putCounter,
    answers <- Elements(completed),
    stored <- Stored \cap Puts,
    refused <- rules.puts,
    open <- complete,
    shown <- [q \in Queries |-> Own(q)],
    broken <- crashed

\* Whatever is lost, sent again, refused, purged or listened to anew, the app
\* reads its own writes: each is shown while it waits and after it succeeded, is
\* answered once, after the server decided, and is committed in the order of issue.
ImplementsOwnWrites == Promise!Spec

=============================================================================
