---------------------------- MODULE DatabaseProofs ----------------------------
(***************************************************************************)
(* What Connection and Database promise about writes, for any number of    *)
(* writes, locations, lost connections and interruptions.                  *)
(*                                                                         *)
(* Every handler of FRepo is a handler of the connection, so DBSpec        *)
(* implements Spec and the invariants of the connection are proved there.  *)
(* A write that is reported as done was committed because every "ok" that  *)
(* is on the wire, waits in putsToAck or was reported is of a stored       *)
(* write, and the server forgets none.  Writes are applied in the order of *)
(* issue because outstandingPuts stays sorted, a connected client has sent *)
(* whatever is neither settled nor on the wire, and no request of a write  *)
(* overtakes another.  Every listen that is counted has its request or its  *)
(* answer on the wire, once: a wire that is lost takes both away.          *)
(***************************************************************************)
EXTENDS Database, SequenceTheorems, FiniteSetTheorems, FunctionTheorems, TLAPS

(* Facts about sequences.                                                  *)

LEMMA FunctionIsSeq ==
    ASSUME NEW S, NEW n \in Nat, NEW f \in [1..n -> S]
    PROVE  f \in Seq(S) /\ Len(f) = n
BY SeqDef

LEMMA ElementsOf ==
    ASSUME NEW S, NEW s \in Seq(S)
    PROVE  /\ Elements(s) \subseteq S
           /\ \A x : x \in Elements(s) <=> \E i \in 1..Len(s) : s[i] = x
BY ElementOfSeq DEF Elements

LEMMA ElementsConcat ==
    ASSUME NEW S, NEW s \in Seq(S), NEW t \in Seq(S)
    PROVE  /\ s \o t \in Seq(S) /\ Len(s \o t) = Len(s) + Len(t)
           /\ Elements(s \o t) = Elements(s) \cup Elements(t)
<1>1. /\ s \o t \in Seq(S) /\ Len(s \o t) = Len(s) + Len(t)
      /\ \A i \in 1..(Len(s) + Len(t)) :
            (s \o t)[i] = IF i <= Len(s) THEN s[i] ELSE t[i - Len(s)]
      /\ Len(s) \in Nat /\ Len(t) \in Nat
  BY ConcatProperties, LenProperties
<1>2. \A i \in 1..Len(s) : i \in 1..Len(s \o t) /\ (s \o t)[i] = s[i]
  BY <1>1
<1>3. ASSUME NEW i \in 1..Len(t)
      PROVE  i + Len(s) \in 1..Len(s \o t) /\ (s \o t)[i + Len(s)] = t[i]
  BY <1>1
<1>4. ASSUME NEW i \in 1..Len(s \o t)
      PROVE  (s \o t)[i] \in Elements(s) \cup Elements(t)
  <2>1. CASE i <= Len(s)
    BY <1>1, <2>1 DEF Elements
  <2>2. CASE i > Len(s)
    <3>1. i - Len(s) \in 1..Len(t) /\ (s \o t)[i] = t[i - Len(s)]
      BY <1>1, <2>2
    <3> QED BY <3>1 DEF Elements
  <2> QED BY <1>1, <2>1, <2>2
<1>5. Elements(s) \subseteq Elements(s \o t)
  BY <1>2 DEF Elements
<1>6. Elements(t) \subseteq Elements(s \o t)
  BY <1>3 DEF Elements
<1>7. Elements(s \o t) \subseteq Elements(s) \cup Elements(t)
  BY <1>4 DEF Elements
<1> QED BY <1>1, <1>5, <1>6, <1>7

LEMMA ElementsAppend ==
    ASSUME NEW S, NEW s \in Seq(S), NEW x \in S
    PROVE  /\ Append(s, x) \in Seq(S) /\ Len(Append(s, x)) = Len(s) + 1
           /\ \A i \in 1..Len(s) : Append(s, x)[i] = s[i]
           /\ Append(s, x)[Len(s) + 1] = x
           /\ Elements(Append(s, x)) = Elements(s) \cup {x}
<1>1. /\ Append(s, x) \in Seq(S) /\ Len(Append(s, x)) = Len(s) + 1
      /\ \A i \in 1..Len(s) : Append(s, x)[i] = s[i]
      /\ Append(s, x)[Len(s) + 1] = x /\ Len(s) \in Nat
  BY AppendProperties, LenProperties
<1>2. Elements(s) \cup {x} \subseteq Elements(Append(s, x))
  BY <1>1 DEF Elements
<1>3. Elements(Append(s, x)) \subseteq Elements(s) \cup {x}
  BY <1>1 DEF Elements
<1> QED BY <1>1, <1>2, <1>3

LEMMA ElementsTail ==
    ASSUME NEW S, NEW s \in Seq(S), s # <<>>
    PROVE  /\ Head(s) \in Elements(s) /\ Head(s) \in S /\ Head(s) = s[1]
           /\ Tail(s) \in Seq(S) /\ Elements(Tail(s)) \subseteq Elements(s)
<1>1. /\ Head(s) \in S /\ Head(s) = s[1] /\ Tail(s) \in Seq(S)
      /\ Len(Tail(s)) = Len(s) - 1 /\ Len(s) \in Nat \ {0}
      /\ \A i \in 1..Len(Tail(s)) : Tail(s)[i] = s[i + 1]
  BY HeadTailProperties, EmptySeq
<1>2. \A i \in 1..Len(Tail(s)) : i + 1 \in 1..Len(s)
  BY <1>1
<1> QED BY <1>1, <1>2 DEF Elements

\* Drop takes one element out and keeps the order of the others.
LEMMA DropFacts ==
    ASSUME NEW S, NEW s \in Seq(S), NEW i \in 1..Len(s)
    PROVE  /\ Drop(s, i) \in Seq(S) /\ Len(Drop(s, i)) = Len(s) - 1
           /\ \A k \in 1..(Len(s) - 1) :
                 Drop(s, i)[k] = IF k < i THEN s[k] ELSE s[k + 1]
<1> DEFINE a == SubSeq(s, 1, i - 1)
           b == SubSeq(s, i + 1, Len(s))
<1> HIDE DEF a, b
<1>0. Len(s) \in Nat /\ i \in Int /\ \A k \in 1..Len(s) : s[k] \in S
  BY LenProperties, ElementOfSeq
<1>1. /\ a \in Seq(S) /\ Len(a) = i - 1
      /\ \A k \in 1..(i - 1) : a[k] = s[k]
  <2>1. \A k \in 1..(i - 1) : s[k] \in S
    BY <1>0
  <2>2. /\ a \in Seq(S)
        /\ Len(a) = IF 1 <= i - 1 THEN (i - 1) - 1 + 1 ELSE 0
        /\ \A k \in 1..((i - 1) - 1 + 1) : a[k] = s[1 + k - 1]
    BY <1>0, <2>1, SubSeqProperties DEF a
  <2> QED BY <1>0, <2>2
<1>2. /\ b \in Seq(S) /\ Len(b) = Len(s) - i
      /\ \A k \in 1..(Len(s) - i) : b[k] = s[i + k]
  <2>1. \A k \in (i + 1)..Len(s) : s[k] \in S
    BY <1>0
  <2>2. /\ b \in Seq(S)
        /\ Len(b) = IF i + 1 <= Len(s) THEN Len(s) - (i + 1) + 1 ELSE 0
        /\ \A k \in 1..(Len(s) - (i + 1) + 1) : b[k] = s[(i + 1) + k - 1]
    BY <1>0, <2>1, SubSeqProperties DEF b
  <2> QED BY <1>0, <2>2
<1>3. /\ a \o b \in Seq(S) /\ Len(a \o b) = Len(a) + Len(b)
      /\ \A k \in 1..(Len(a) + Len(b)) :
            (a \o b)[k] = IF k <= Len(a) THEN a[k] ELSE b[k - Len(a)]
  BY <1>1, <1>2, ConcatProperties
<1>4. Drop(s, i) = a \o b
  BY DEF Drop, a, b
<1>5. ASSUME NEW k \in 1..(Len(s) - 1)
      PROVE  (a \o b)[k] = IF k < i THEN s[k] ELSE s[k + 1]
  <2>1. CASE k < i
    BY <1>0, <1>1, <1>2, <1>3, <2>1
  <2>2. CASE ~(k < i)
    <3>1. /\ k - Len(a) \in 1..(Len(s) - i) /\ i + (k - Len(a)) = k + 1
          /\ k \in 1..(Len(a) + Len(b)) /\ ~(k <= Len(a))
      BY <1>0, <1>1, <1>2, <2>2
    <3>2. (a \o b)[k] = b[k - Len(a)] /\ b[k - Len(a)] = s[i + (k - Len(a))]
      BY <1>2, <1>3, <3>1
    <3> QED BY <2>2, <3>1, <3>2
  <2> QED BY <2>1, <2>2
<1>6. Drop(s, i) \in Seq(S) /\ Len(Drop(s, i)) = Len(s) - 1
  <2>1. Len(a) + Len(b) = Len(s) - 1
    BY <1>0, <1>1, <1>2
  <2> QED BY <1>3, <1>4, <2>1
<1> QED BY <1>4, <1>5, <1>6

LEMMA ElementsDrop ==
    ASSUME NEW S, NEW s \in Seq(S), NEW i \in 1..Len(s)
    PROVE  Elements(s) = Elements(Drop(s, i)) \cup {s[i]}
<1>0. Len(s) \in Nat
  BY LenProperties
<1>1. ASSUME NEW k \in 1..Len(s), k # i
      PROVE  s[k] \in Elements(Drop(s, i))
  <2>1. CASE k < i
    <3>1. k \in 1..(Len(s) - 1)
      BY <1>0, <2>1
    <3>2. Drop(s, i)[k] = s[k] /\ k \in 1..Len(Drop(s, i))
      BY <2>1, <3>1, DropFacts
    <3> QED BY <3>2 DEF Elements
  <2>2. CASE k > i
    <3>1. k - 1 \in 1..(Len(s) - 1) /\ ~(k - 1 < i) /\ (k - 1) + 1 = k
      BY <1>0, <2>2
    <3>2. Drop(s, i)[k - 1] = s[k] /\ k - 1 \in 1..Len(Drop(s, i))
      BY <3>1, DropFacts
    <3> QED BY <3>2 DEF Elements
  <2> QED BY <1>0, <1>1, <2>1, <2>2
<1>2. ASSUME NEW k \in 1..Len(Drop(s, i))
      PROVE  Drop(s, i)[k] \in Elements(s)
  <2>1. k \in 1..(Len(s) - 1) /\ k \in 1..Len(s) /\ k + 1 \in 1..Len(s)
    BY <1>0, DropFacts
  <2> QED BY <2>1, DropFacts DEF Elements
<1>3. Elements(s) \subseteq Elements(Drop(s, i)) \cup {s[i]}
  BY <1>1 DEF Elements
<1>4. Elements(Drop(s, i)) \subseteq Elements(s)
  BY <1>2 DEF Elements
<1> QED BY <1>3, <1>4 DEF Elements

-----------------------------------------------------------------------------
(* What travels.                                                           *)

LEMMA RequestFacts ==
    /\ \A p \in Puts : /\ PutRequest(p) \in Requests
                       /\ PutRequest(p).kind = "put" /\ PutRequest(p).put = p
    /\ \A q \in Queries, n \in 1..MaxListens :
          /\ ListenRequest(q, n) \in Requests
          /\ ListenRequest(q, n).kind = "listen"
          /\ ListenRequest(q, n).query = q /\ ListenRequest(q, n).number = n
    /\ \A q \in Queries : /\ UnlistenRequest(q) \in Requests
                          /\ UnlistenRequest(q).kind = "unlisten"
                          /\ UnlistenRequest(q).query = q
BY DEF PutRequest, ListenRequest, UnlistenRequest, Requests

LEMMA RequestKinds ==
    ASSUME NEW r \in Requests
    PROVE  /\ r.kind \in {"put", "listen", "unlisten"}
           /\ r.kind = "put" => r.put \in Puts /\ r = PutRequest(r.put)
           /\ r.kind = "listen" => r.query \in Queries /\ r.number \in 1..MaxListens
           /\ r.kind = "unlisten" => r.query \in Queries
BY DEF PutRequest, Requests

LEMMA MessageFacts ==
    /\ \A r \in Requests, status \in Statuses :
          /\ Answer(r, status) \in Messages /\ Answer(r, status).kind = "answer"
          /\ Answer(r, status).to = r /\ Answer(r, status).status = status
    /\ \A q \in Queries, value \in Values :
          Data(q, value) \in Messages /\ Data(q, value).kind = "data"
    /\ \A q \in Queries : Revoked(q) \in Messages /\ Revoked(q).kind = "revoked"
BY DEF Answer, Data, Revoked, Messages

LEMMA MessageKinds ==
    ASSUME NEW m \in Messages
    PROVE  /\ m.kind \in {"answer", "data", "revoked"}
           /\ m.kind = "answer" => m.to \in Requests /\ m.status \in Statuses
           /\ m.kind = "data" => m.query \in Queries /\ m.value \in Values
           /\ m.kind = "revoked" => m.query \in Queries
BY DEF Messages

LEMMA CompletionFacts ==
    /\ \A p \in Puts, status \in Statuses :
          /\ Completion(p, status) \in Completions
          /\ Completion(p, status).put = p /\ Completion(p, status).status = status
    /\ \A c \in Completions : /\ c.put \in Puts /\ c.status \in Statuses
                              /\ c = Completion(c.put, c.status)
BY DEF Completion, Completions

LEMMA CountsAreNat ==
    ASSUME TypeOK
    PROVE  Cardinality(Listening) \in Nat /\ Cardinality(serving) \in Nat
BY FS_Subset, FS_CardinalityType, BoundsAreNat DEF TypeOK, Listening

LEMMA StoredTyped ==
    ASSUME TypeOK
    PROVE  /\ Stored \in Values /\ Stored \cup {0} \in Values
           /\ \A p \in Puts : Stored \cup {p} \in Values
<1>1. Stored \subseteq 0..MaxPuts
  BY ElementsOf DEF TypeOK, Stored
<1>2. MaxPuts \in Nat
  BY BoundsAreNat
<1> QED BY <1>1, <1>2 DEF Values, Puts

\* Pushes are data and nothing else.
LEMMA PushesFacts ==
    ASSUME TypeOK, NEW value \in Values, NEW pushes \in Pushes(value)
    PROVE  /\ pushes \in Seq(Messages)
           /\ \A m \in Elements(pushes) : m.kind = "data"
<1> DEFINE D == [kind : {"data"}, query : serving, value : {value}]
<1>1. pushes \in [1..Cardinality(serving) -> D]
  BY DEF Pushes
<1>2. D \subseteq Messages /\ \A m \in D : m.kind = "data"
  BY DEF TypeOK, Messages
<1> HIDE DEF D
<1>3. pushes \in Seq(D)
  BY <1>1, CountsAreNat, FunctionIsSeq
<1>4. pushes \in Seq(Messages)
  BY <1>2, <1>3, SeqMonotonic
<1>5. Elements(pushes) \subseteq D
  BY <1>3, ElementsOf
<1> QED BY <1>2, <1>4, <1>5

\* A new connection carries the listens, then the writes in their order.
LEMMA RestoreFacts ==
    ASSUME TypeOK, NEW order \in Orders(Listening), RestoreState(order)
    PROVE  /\ toServer' \in Seq(Requests) /\ unackedListensCount' \in Int
           /\ \E n \in Nat :
                 /\ unackedListensCount' = unackedListensCount + n
                 /\ Len(toServer') = n + Len(outstandingPuts)
                 /\ \A i \in 1..n : toServer'[i].kind = "listen"
                 /\ \A i \in 1..Len(outstandingPuts) :
                       toServer'[n + i] = PutRequest(outstandingPuts[i])
<1> DEFINE n == Cardinality(Listening)
           reads == [i \in 1..Len(order) |-> ListenRequest(order[i], listens[order[i]])]
           puts == [i \in 1..Len(outstandingPuts) |-> PutRequest(outstandingPuts[i])]
<1>1. n \in Nat /\ order \in [1..n -> Listening]
  BY CountsAreNat DEF Orders
<1>2. Len(order) = n
  BY <1>1, FunctionIsSeq
<1>3. reads \in [1..n -> Requests] /\ \A i \in 1..n : reads[i].kind = "listen"
  <2>1. ASSUME NEW i \in 1..n
        PROVE  order[i] \in Queries /\ listens[order[i]] \in 1..MaxListens
    BY <1>1, BoundsAreNat DEF TypeOK, Listening
  <2> QED BY <1>2, <2>1, RequestFacts
<1>4. Len(outstandingPuts) \in Nat
      /\ \A i \in 1..Len(outstandingPuts) : outstandingPuts[i] \in Puts
  BY LenProperties, ElementOfSeq DEF TypeOK
<1>5. /\ puts \in [1..Len(outstandingPuts) -> Requests]
      /\ \A i \in 1..Len(outstandingPuts) : puts[i] = PutRequest(outstandingPuts[i])
  BY <1>4, RequestFacts
<1>6. toServer' = reads \o puts /\ unackedListensCount' = unackedListensCount + Len(order)
  BY DEF RestoreState
<1> HIDE DEF n, reads, puts
<1>7. /\ reads \in Seq(Requests) /\ Len(reads) = n
      /\ puts \in Seq(Requests) /\ Len(puts) = Len(outstandingPuts)
  BY <1>1, <1>3, <1>4, <1>5, FunctionIsSeq
<1>8. /\ reads \o puts \in Seq(Requests)
      /\ Len(reads \o puts) = n + Len(outstandingPuts)
      /\ \A i \in 1..(n + Len(outstandingPuts)) :
            (reads \o puts)[i] = IF i <= n THEN reads[i] ELSE puts[i - n]
  BY <1>7, ConcatProperties
<1>9. \A i \in 1..n : toServer'[i].kind = "listen"
  BY <1>1, <1>3, <1>4, <1>6, <1>8
<1>10. ASSUME NEW i \in 1..Len(outstandingPuts)
       PROVE  toServer'[n + i] = PutRequest(outstandingPuts[i])
  <2>1. n + i \in 1..(n + Len(outstandingPuts)) /\ ~(n + i <= n) /\ (n + i) - n = i
    BY <1>1, <1>4
  <2> QED BY <1>5, <1>6, <1>8, <2>1
<1>11. unackedListensCount' \in Int
  BY <1>1, <1>2, <1>6 DEF TypeOK
<1> QED BY <1>1, <1>2, <1>6, <1>8, <1>9, <1>10, <1>11

LEMMA SendFacts ==
    ASSUME TypeOK, NEW r \in Requests, Send(r)
    PROVE  toServer' \in Seq(Requests)
BY ElementsAppend DEF TypeOK, Send

-----------------------------------------------------------------------------
(* Type correctness.                                                       *)

RequestsTyped ==
    /\ listens \in [Queries -> 0..MaxListens]
    /\ outstandingPuts \in Seq(Puts)
    /\ unackedListensCount \in Int
    /\ putsToAck \in Seq(Completions)
    /\ completed \in Seq(Completions)
    /\ putCounter \in 0..MaxPuts

ClientTyped ==
    /\ connectionState \in {"disconnected", "connecting", "connected"}
    /\ realtime \in {"none", "connecting", "connected"}
    /\ interruptReasons \subseteq Reasons
    /\ scheduledRetry \in BOOLEAN

WireTyped == toServer \in Seq(Requests) /\ fromServer \in Seq(Messages)
ServerTyped == serving \subseteq Queries /\ applied \in Seq(0..MaxPuts) /\ rules \in Rules
SpentTyped == spent \in [Events -> Nat]

LEMMA Parts ==
    /\ TypeOK <=> /\ ClientTyped /\ RequestsTyped /\ WireTyped
                  /\ ServerTyped /\ SpentTyped
    /\ TypeOK' <=> /\ ClientTyped' /\ RequestsTyped' /\ WireTyped'
                   /\ ServerTyped' /\ SpentTyped'
<1>1. TypeOK <=> /\ ClientTyped /\ RequestsTyped /\ WireTyped
                 /\ ServerTyped /\ SpentTyped
  BY Zenon DEF TypeOK, ClientTyped, RequestsTyped, WireTyped, ServerTyped, SpentTyped
<1>2. TypeOK' <=> /\ ClientTyped' /\ RequestsTyped' /\ WireTyped'
                  /\ ServerTyped' /\ SpentTyped'
  BY Zenon DEF TypeOK, ClientTyped, RequestsTyped, WireTyped, ServerTyped, SpentTyped
<1> QED BY <1>1, <1>2

LEMMA PartsKept ==
    /\ ClientTyped /\ UNCHANGED client => ClientTyped'
    /\ RequestsTyped /\ UNCHANGED requests => RequestsTyped'
    /\ WireTyped /\ UNCHANGED wire => WireTyped'
    /\ ServerTyped /\ UNCHANGED server => ServerTyped'
    /\ SpentTyped /\ UNCHANGED spent => SpentTyped'
    /\ SpentTyped /\ (\E e \in Events, b \in Nat : Spend(e, b)) => SpentTyped'
BY DEF ClientTyped, RequestsTyped, WireTyped, ServerTyped, SpentTyped, client,
       requests, wire, server, Spend

LEMMA EventsAre == /\ {"listen", "removal", "drop", "interrupt", "other"} \subseteq Events
                   /\ {MaxListens, MaxRemovals, MaxDrops, MaxInterrupts, MaxOthers}
                        \subseteq Nat
BY BoundsAreNat DEF Events

LEMMA InitTyped == Init => TypeOK
<1> SUFFICES ASSUME Init PROVE TypeOK
  OBVIOUS
<1>1. ClientTyped /\ SpentTyped
  BY DEF Init, ClientTyped, SpentTyped, Reasons
<1>2. RequestsTyped /\ WireTyped /\ ServerTyped
  BY EmptySeq, BoundsAreNat DEF Init, RequestsTyped, WireTyped, ServerTyped
<1> QED BY <1>1, <1>2, Parts

\* What the loss of a connection leaves.
LEMMA DisconnectTyped ==
    ASSUME TypeOK, NEW reasons, OnDisconnect(reasons)
    PROVE  /\ RequestsTyped' /\ WireTyped' /\ ServerTyped'
           /\ connectionState' = "disconnected" /\ realtime' = "none"
           /\ scheduledRetry' \in BOOLEAN
<1>1. RequestsTyped' /\ ServerTyped'
  BY Parts DEF OnDisconnect, RequestsTyped, ServerTyped
<1>2. WireTyped'
  BY EmptySeq DEF OnDisconnect, WireTyped
<1> QED BY <1>1, <1>2 DEF OnDisconnect

LEMMA ConnectTyped ==
    ASSUME TypeOK, \/ RetryFires \/ Handshake \/ ConnectionLost \/ Interrupt \/ OnKill
                   \/ Resume \/ Reachable
    PROVE  TypeOK'
<1>0. ClientTyped /\ RequestsTyped /\ WireTyped /\ ServerTyped /\ SpentTyped
  BY Parts
<1>1. CASE RetryFires
  <2>1. ClientTyped'
    BY <1>0, <1>1 DEF RetryFires, ClientTyped
  <2> QED BY <1>0, <1>1, <2>1, Parts, PartsKept DEF RetryFires
<1>2. CASE Handshake
  <2>1. ClientTyped'
    BY <1>0, <1>2 DEF Handshake, ClientTyped
  <2>2. PICK order \in Orders(Listening) : RestoreState(order)
    BY <1>2 DEF Handshake
  <2>3. RequestsTyped' /\ WireTyped'
    BY <1>0, <1>2, <2>2, RestoreFacts DEF Handshake, RequestsTyped, WireTyped
  <2> QED BY <1>0, <1>2, <2>1, <2>3, Parts, PartsKept DEF Handshake
<1>3. CASE ConnectionLost
  <2>1. RequestsTyped' /\ WireTyped' /\ ServerTyped'
    BY <1>3, DisconnectTyped DEF ConnectionLost
  <2>2. ClientTyped'
    BY <1>0, <1>3, DisconnectTyped DEF ConnectionLost, ClientTyped
  <2>3. SpentTyped'
    BY <1>0, <1>3, PartsKept, EventsAre DEF ConnectionLost
  <2> QED BY <2>1, <2>2, <2>3, Parts
<1>4. CASE Interrupt \/ OnKill
  <2>1. PICK reason \in Reasons : InterruptForReason(reason)
    BY <1>4 DEF Interrupt, OnKill, Reasons
  <2>2. SpentTyped'
    BY <1>0, <1>4, PartsKept, EventsAre DEF Interrupt, OnKill
  <2>3. interruptReasons' \subseteq Reasons
    BY <1>0, <2>1 DEF InterruptForReason, ClientTyped
  <2>4. CASE OnDisconnect(interruptReasons')
    BY <2>2, <2>3, <2>4, DisconnectTyped, Parts DEF ClientTyped
  <2>5. CASE /\ scheduledRetry' = FALSE
             /\ connectionState' = "disconnected"
             /\ UNCHANGED <<realtime, requests, wire, server>>
    <3>1. ClientTyped'
      BY <1>0, <2>3, <2>5 DEF ClientTyped
    <3> QED BY <1>0, <2>2, <2>5, <3>1, Parts, PartsKept
  <2> QED BY <2>1, <2>4, <2>5 DEF InterruptForReason
<1>5. CASE Resume
  <2>1. ClientTyped'
    BY <1>0, <1>5 DEF Resume, ResumeForReason, TryScheduleReconnect, ClientTyped
  <2> QED BY <1>0, <1>5, <2>1, Parts, PartsKept DEF Resume, ResumeForReason
<1>6. CASE Reachable
  <2>1. ClientTyped'
    BY <1>0, <1>6 DEF Reachable, TryScheduleReconnect, ClientTyped
  <2> QED BY <1>0, <1>6, <2>1, Parts, PartsKept DEF Reachable
<1> QED BY <1>1, <1>2, <1>3, <1>4, <1>5, <1>6

\* The number of a new listen is within the bound.
LEMMA ListenNumber ==
    ASSUME TypeOK, NEW q \in Queries, Listen(q)
    PROVE  /\ spent["listen"] + 1 \in 1..MaxListens
           /\ listens'[q] = spent["listen"] + 1
           /\ listens'[q] \in 1..MaxListens
           /\ listens' \in [Queries -> 0..MaxListens]
<1>1. spent["listen"] \in Nat
  BY EventsAre DEF TypeOK
<1>2. spent["listen"] < MaxListens
  BY DEF Listen, Spend
<1>3. spent["listen"] + 1 \in 1..MaxListens
  BY <1>1, <1>2, BoundsAreNat
<1>4. listens \in [Queries -> 0..MaxListens]
  BY DEF TypeOK
<1>5. listens' = [listens EXCEPT ![q] = spent["listen"] + 1]
  BY DEF Listen
<1> QED BY <1>3, <1>4, <1>5

LEMMA AskTyped ==
    ASSUME TypeOK, (\E q \in Queries : Listen(q) \/ Unlisten(q)) \/ Put \/ Purge
    PROVE  TypeOK'
<1>0. ClientTyped /\ RequestsTyped /\ WireTyped /\ ServerTyped /\ SpentTyped
  BY Parts
<1>1. ASSUME NEW q \in Queries, Listen(q) PROVE TypeOK'
  <2>1. SpentTyped'
    BY <1>0, <1>1, PartsKept, EventsAre DEF Listen
  <2>2. listens' \in [Queries -> 0..MaxListens] /\ listens'[q] \in 1..MaxListens
    BY <1>1, ListenNumber
  <2>3. RequestsTyped'
    BY <1>0, <1>1, <2>2 DEF Listen, RequestsTyped
  <2>4. WireTyped'
    BY <1>0, <1>1, <2>2, RequestFacts, SendFacts DEF Listen, WireTyped
  <2> QED BY <1>0, <1>1, <2>1, <2>3, <2>4, Parts, PartsKept DEF Listen
<1>2. ASSUME NEW q \in Queries, Unlisten(q) PROVE TypeOK'
  <2>1. RequestsTyped'
    BY <1>0, <1>2, BoundsAreNat DEF Unlisten, RequestsTyped
  <2>2. WireTyped'
    BY <1>0, <1>2, RequestFacts, SendFacts DEF Unlisten, WireTyped
  <2>3. SpentTyped'
    BY <1>0, <1>2, PartsKept, EventsAre DEF Unlisten
  <2> QED BY <1>0, <1>2, <2>1, <2>2, <2>3, Parts, PartsKept DEF Unlisten
<1>3. CASE Put
  <2>1. putCounter' \in Puts /\ putCounter' \in 0..MaxPuts
    BY <1>0, <1>3, BoundsAreNat DEF Put, RequestsTyped, Puts
  <2>2. RequestsTyped'
    BY <1>0, <1>3, <2>1, ElementsAppend DEF Put, RequestsTyped
  <2>3. WireTyped'
    BY <1>0, <1>3, <2>1, RequestFacts, SendFacts DEF Put, WireTyped
  <2> QED BY <1>0, <1>3, <2>2, <2>3, Parts, PartsKept DEF Put
<1>4. CASE Purge
  <2>1. Canceled(outstandingPuts) \in Seq(Completions)
    <3>1. Canceled(outstandingPuts) \in [1..Len(outstandingPuts) -> Completions]
      BY <1>0, ElementOfSeq, CompletionFacts DEF RequestsTyped, Canceled, Statuses
    <3> QED BY <1>0, <3>1, LenProperties, FunctionIsSeq DEF RequestsTyped
  <2>2. completed' \in Seq(Completions)
    BY <1>0, <1>4, <2>1, ElementsConcat DEF Purge, RequestsTyped
  <2>3. RequestsTyped'
    BY <1>0, <1>4, <2>2, EmptySeq DEF Purge, RequestsTyped
  <2> QED BY <1>0, <1>4, <2>3, Parts, PartsKept DEF Purge
<1> QED BY <1>1, <1>2, <1>3, <1>4

LEMMA HearsFacts ==
    ASSUME TypeOK, NEW kind, Hears(kind)
    PROVE  /\ Head(fromServer) \in Messages /\ Head(fromServer).kind = kind
           /\ Head(fromServer) \in Elements(fromServer)
           /\ fromServer' \in Seq(Messages)
           /\ Elements(fromServer') \subseteq Elements(fromServer)
BY ElementsTail DEF TypeOK, Hears

LEMMA ReportFacts ==
    ASSUME TypeOK, NEW c \in Completions, Report(c)
    PROVE  /\ completed' \in Seq(Completions) /\ putsToAck' \in Seq(Completions)
           /\ Len(completed') + Len(putsToAck') = Len(completed) + Len(putsToAck) + 1
           /\ Elements(completed') \cup Elements(putsToAck')
                 = Elements(completed) \cup Elements(putsToAck) \cup {c}
           /\ Elements(completed) \subseteq Elements(completed')
<1>1. /\ completed \in Seq(Completions) /\ putsToAck \in Seq(Completions)
      /\ Len(completed) \in Nat /\ Len(putsToAck) \in Nat
  BY LenProperties DEF TypeOK
<1>2. CASE completed' = Append(completed, c) /\ UNCHANGED putsToAck
  BY <1>1, <1>2, ElementsAppend
<1>3. CASE putsToAck' = Append(putsToAck, c) /\ UNCHANGED completed
  BY <1>1, <1>3, ElementsAppend
<1> QED BY <1>2, <1>3 DEF Report

\* Giving up listens keeps the others.
LEMMA FewerListens ==
    ASSUME NEW f \in [Queries -> 0..MaxListens], NEW k, NEW e,
           \A q \in Queries : \/ [f EXCEPT ![k] = e][q] = f[q]
                              \/ [f EXCEPT ![k] = e][q] = 0
    PROVE  [f EXCEPT ![k] = e] \in [Queries -> 0..MaxListens]
<1>1. 0 \in 0..MaxListens
  BY BoundsAreNat
<1>2. \A q \in Queries : [f EXCEPT ![k] = e][q] \in 0..MaxListens
  BY <1>1
<1> QED BY <1>2

LEMMA HearTyped ==
    ASSUME TypeOK, PutAnswered \/ ListenAnswered \/ DataReceived \/ OnListenRevoked
    PROVE  TypeOK'
<1>0. ClientTyped /\ RequestsTyped /\ WireTyped /\ ServerTyped /\ SpentTyped
  BY Parts
<1>1. CASE PutAnswered
  <2>1. /\ Head(fromServer) \in Messages /\ Head(fromServer).kind = "answer"
        /\ Head(fromServer).to.kind = "put" /\ fromServer' \in Seq(Messages)
    BY <1>1, HearsFacts DEF PutAnswered, HearsAnswer
  <2>2. Completion(Head(fromServer).to.put, Head(fromServer).status) \in Completions
    BY <2>1, MessageKinds, RequestKinds, CompletionFacts
  <2>3. ASSUME \E i \in 1..Len(outstandingPuts) :
                  /\ outstandingPuts' = Drop(outstandingPuts, i)
                  /\ Report(Completion(Head(fromServer).to.put,
                                       Head(fromServer).status))
        PROVE  RequestsTyped'
    <3>1. outstandingPuts' \in Seq(Puts)
      BY <1>0, <2>3, DropFacts DEF RequestsTyped
    <3>2. completed' \in Seq(Completions) /\ putsToAck' \in Seq(Completions)
      BY <2>2, <2>3, ReportFacts
    <3> QED BY <1>0, <1>1, <3>1, <3>2 DEF PutAnswered, RequestsTyped
  <2>4. ASSUME UNCHANGED <<outstandingPuts, putsToAck, completed>>
        PROVE  RequestsTyped'
    BY <1>0, <1>1, <2>4 DEF PutAnswered, RequestsTyped
  <2>5. RequestsTyped'
    BY <1>1, <2>3, <2>4 DEF PutAnswered
  <2>6. WireTyped'
    BY <1>0, <1>1, <2>1 DEF PutAnswered, WireTyped
  <2> QED BY <1>0, <1>1, <2>5, <2>6, Parts, PartsKept DEF PutAnswered
<1>2. CASE ListenAnswered
  <2>1. fromServer' \in Seq(Messages)
    BY <1>2, HearsFacts DEF ListenAnswered, HearsAnswer
  <2>2. completed' \in Seq(Completions) /\ putsToAck' \in Seq(Completions)
    <3>1. /\ completed \o putsToAck \in Seq(Completions)
          /\ <<>> \in Seq(Completions)
      BY <1>0, ElementsConcat, EmptySeq DEF RequestsTyped
    <3>2. \/ completed' = completed \o putsToAck /\ putsToAck' = <<>>
          \/ UNCHANGED <<completed, putsToAck>>
      BY <1>2 DEF ListenAnswered
    <3> QED BY <1>0, <3>1, <3>2 DEF RequestsTyped
  <2>3. listens' \in [Queries -> 0..MaxListens] /\ unackedListensCount' \in Int
    <3>1. listens' = [listens EXCEPT ![Head(fromServer).to.query] =
              IF @ = Head(fromServer).to.number /\ Head(fromServer).status # "ok"
              THEN 0 ELSE @]
      BY <1>2 DEF ListenAnswered
    <3>2. unackedListensCount' = unackedListensCount - 1
      BY <1>2 DEF ListenAnswered
    <3>3. \A k \in Queries : listens'[k] = listens[k] \/ listens'[k] = 0
      BY <1>0, <3>1 DEF RequestsTyped
    <3>4. listens' \in [Queries -> 0..MaxListens]
      BY <1>0, <3>1, <3>3, FewerListens DEF RequestsTyped
    <3> QED BY <1>0, <3>2, <3>4 DEF RequestsTyped
  <2>4. RequestsTyped' /\ WireTyped'
    BY <1>0, <1>2, <2>1, <2>2, <2>3 DEF ListenAnswered, RequestsTyped, WireTyped
  <2> QED BY <1>0, <1>2, <2>4, Parts, PartsKept DEF ListenAnswered
<1>3. CASE DataReceived
  <2>1. WireTyped'
    BY <1>0, <1>3, HearsFacts DEF DataReceived, WireTyped
  <2> QED BY <1>0, <1>3, <2>1, Parts, PartsKept DEF DataReceived
<1>4. CASE OnListenRevoked
  <2>1. WireTyped'
    BY <1>0, <1>4, HearsFacts DEF OnListenRevoked, WireTyped
  <2>2. RequestsTyped'
    <3>1. \A k \in Queries : listens'[k] = listens[k] \/ listens'[k] = 0
      BY <1>0, <1>4 DEF OnListenRevoked, RequestsTyped
    <3>2. listens' \in [Queries -> 0..MaxListens]
      BY <1>0, <1>4, <3>1, FewerListens DEF OnListenRevoked, RequestsTyped
    <3> QED BY <1>0, <1>4, <3>2 DEF OnListenRevoked, RequestsTyped
  <2> QED BY <1>0, <1>4, <2>1, <2>2, Parts, PartsKept DEF OnListenRevoked
<1> QED BY <1>1, <1>2, <1>3, <1>4

LEMMA StoredAppend ==
    ASSUME TypeOK, NEW x \in 0..MaxPuts, applied' = Append(applied, x)
    PROVE  applied' \in Seq(0..MaxPuts) /\ Stored' = Stored \cup {x}
<1> DEFINE N == 0..MaxPuts
<1>0. applied \in Seq(N) /\ x \in N
  BY DEF TypeOK
<1> HIDE DEF N
<1>1. /\ Append(applied, x) \in Seq(N)
      /\ Elements(Append(applied, x)) = Elements(applied) \cup {x}
  BY <1>0, ElementsAppend
<1>2. Stored' = Elements(applied')
  BY DEF Stored, Elements
<1> QED BY <1>1, <1>2 DEF Stored, N

LEMMA StoredKept == UNCHANGED applied => Stored' = Stored
BY DEF Stored, Elements

\* The answer to r, as the properties about writes see it.
AnswerTo(m, r) ==
    /\ m.kind = "answer" /\ m.to = r /\ m.status \in {"ok", "denied"}
    /\ r.kind = "put" /\ m.status = "ok" => r.put \in Stored'
    /\ r.kind = "put" /\ m.status = "denied" => r.put \in rules.puts

\* What serving the request r may do.
Served(r) ==
    /\ fromServer' \in Seq(Messages)
    /\ \A m \in Elements(fromServer') :
          m \in Elements(fromServer) \/ m.kind = "data" \/ AnswerTo(m, r)
    /\ serving' \subseteq Queries
    /\ \/ UNCHANGED applied
       \/ r.kind = "put" /\ applied' = Append(applied, r.put)
    /\ r.kind = "put" => r.put \in rules.puts \/ applied' = Append(applied, r.put)
    /\ UNCHANGED rules

LEMMA ServePutFacts ==
    ASSUME TypeOK, NEW r \in Requests, r.kind = "put", ServePut(r.put)
    PROVE  Served(r)
<1>0. /\ r.put \in Puts /\ r = PutRequest(r.put) /\ fromServer \in Seq(Messages)
      /\ serving \subseteq Queries /\ applied \in Seq(0..MaxPuts)
      /\ r.put \in 0..MaxPuts
  BY RequestKinds, BoundsAreNat DEF TypeOK, Puts
<1>1. CASE /\ r.put \in rules.puts
           /\ fromServer' = Append(fromServer, Answer(r, "denied"))
           /\ UNCHANGED server
  <2>1. AnswerTo(Answer(r, "denied"), r) /\ Answer(r, "denied") \in Messages
    BY <1>1, MessageFacts DEF AnswerTo, Statuses
  <2>2. /\ fromServer' \in Seq(Messages)
        /\ Elements(fromServer') = Elements(fromServer) \cup {Answer(r, "denied")}
    BY <1>0, <1>1, <2>1, ElementsAppend
  <2> QED BY <1>0, <1>1, <2>1, <2>2 DEF Served, server
<1>2. CASE /\ applied' = Append(applied, r.put)
           /\ \E pushes \in Pushes(Stored \cup {r.put}) :
                 fromServer' = fromServer \o pushes \o <<Answer(r, "ok")>>
           /\ UNCHANGED <<serving, rules>>
  <2>1. r.put \in Stored'
    BY <1>0, <1>2, StoredAppend
  <2>2. AnswerTo(Answer(r, "ok"), r) /\ Answer(r, "ok") \in Messages
    BY <2>1, MessageFacts DEF AnswerTo, Statuses
  <2>3. PICK pushes \in Pushes(Stored \cup {r.put}) :
            fromServer' = fromServer \o pushes \o <<Answer(r, "ok")>>
    BY <1>2
  <2>4. pushes \in Seq(Messages) /\ \A m \in Elements(pushes) : m.kind = "data"
    BY <1>0, StoredTyped, PushesFacts
  <2>5. /\ fromServer \o pushes \in Seq(Messages)
        /\ Elements(fromServer \o pushes) = Elements(fromServer) \cup Elements(pushes)
    BY <1>0, <2>4, ElementsConcat
  <2> DEFINE pushed == fromServer \o pushes
             answer == Answer(r, "ok")
  <2> HIDE DEF pushed, answer
  <2>6. pushed \in Seq(Messages) /\ answer \in Messages
    BY <2>2, <2>5 DEF pushed, answer
  <2>7. fromServer' = Append(pushed, answer)
    <3>1. fromServer' = pushed \o <<answer>>
      BY <2>3 DEF pushed, answer
    <3> QED BY <2>6, <3>1, AppendIsConcat
  <2>8. /\ fromServer' \in Seq(Messages)
        /\ Elements(fromServer') = Elements(pushed) \cup {answer}
    BY <2>6, <2>7, ElementsAppend
  <2> QED BY <1>0, <1>2, <2>2, <2>4, <2>5, <2>8 DEF Served, pushed, answer
<1> QED BY <1>0, <1>1, <1>2 DEF ServePut

LEMMA ServeListenFacts ==
    ASSUME TypeOK, NEW r \in Requests, r.kind = "listen", ServeListen(r)
    PROVE  Served(r)
<1>0. /\ r.query \in Queries /\ fromServer \in Seq(Messages)
      /\ serving \subseteq Queries
  BY RequestKinds DEF TypeOK
<1>1. \A status \in {"ok", "denied"} :
         AnswerTo(Answer(r, status), r) /\ Answer(r, status) \in Messages
  BY MessageFacts DEF AnswerTo, Statuses
<1>2. CASE /\ fromServer' = Append(fromServer, Answer(r, "denied"))
           /\ UNCHANGED server
  <2>1. /\ fromServer' \in Seq(Messages)
        /\ Elements(fromServer') = Elements(fromServer) \cup {Answer(r, "denied")}
    BY <1>0, <1>1, <1>2, ElementsAppend
  <2> QED BY <1>0, <1>1, <1>2, <2>1 DEF Served, server
<1>3. CASE /\ serving' = serving \cup {r.query}
           /\ fromServer' = fromServer \o <<Data(r.query, Stored), Answer(r, "ok")>>
           /\ UNCHANGED <<applied, rules>>
  <2>1. Data(r.query, Stored) \in Messages /\ Data(r.query, Stored).kind = "data"
    BY <1>0, StoredTyped, MessageFacts
  <2> DEFINE pair == <<Data(r.query, Stored), Answer(r, "ok")>>
  <2>2. /\ pair \in Seq(Messages)
        /\ Elements(pair) = {Data(r.query, Stored), Answer(r, "ok")}
    BY <1>1, <2>1 DEF Elements
  <2>3. fromServer' = fromServer \o pair
    BY <1>3
  <2> HIDE DEF pair
  <2>4. /\ fromServer' \in Seq(Messages)
        /\ Elements(fromServer') = Elements(fromServer)
              \cup {Data(r.query, Stored), Answer(r, "ok")}
    BY <1>0, <2>2, <2>3, ElementsConcat
  <2> QED BY <1>0, <1>1, <1>3, <2>1, <2>4 DEF Served
<1> QED BY <1>2, <1>3 DEF ServeListen

LEMMA ServeFacts ==
    ASSUME TypeOK, Serve
    PROVE  \E i \in 1..Len(toServer) :
              /\ toServer[i] \in Requests
              /\ \A j \in 1..(i - 1) : Topic(toServer[j]) # Topic(toServer[i])
              /\ toServer' = Drop(toServer, i)
              /\ toServer' \in Seq(Requests)
              /\ Served(toServer[i])
<1>1. PICK i \in 1..Len(toServer) :
          /\ \A j \in 1..(i - 1) : Topic(toServer[j]) # Topic(toServer[i])
          /\ toServer' = Drop(toServer, i)
          /\ \/ toServer[i].kind = "put" /\ ServePut(toServer[i].put)
             \/ toServer[i].kind = "listen" /\ ServeListen(toServer[i])
             \/ toServer[i].kind = "unlisten" /\ ServeUnlisten(toServer[i].query)
  BY DEF Serve
<1>2. toServer[i] \in Requests /\ toServer' \in Seq(Requests)
  BY <1>1, ElementOfSeq, DropFacts DEF TypeOK
<1>3. ASSUME toServer[i].kind = "unlisten", ServeUnlisten(toServer[i].query)
      PROVE  Served(toServer[i])
  BY <1>3 DEF ServeUnlisten, Served, TypeOK
<1>4. ASSUME toServer[i].kind = "put", ServePut(toServer[i].put)
      PROVE  Served(toServer[i])
  BY <1>2, <1>4, ServePutFacts
<1>5. ASSUME toServer[i].kind = "listen", ServeListen(toServer[i])
      PROVE  Served(toServer[i])
  BY <1>2, <1>5, ServeListenFacts
<1>6. Served(toServer[i])
  BY <1>1, <1>3, <1>4, <1>5
<1> QED BY <1>1, <1>2, <1>6

LEMMA AppliedTyped ==
    ASSUME TypeOK, NEW r \in Requests, Served(r)
    PROVE  applied' \in Seq(0..MaxPuts) /\ Stored \subseteq Stored'
<1>1. applied \in Seq(0..MaxPuts) /\ (r.kind = "put" => r.put \in 0..MaxPuts)
  BY RequestKinds, BoundsAreNat DEF TypeOK, Puts
<1> QED BY <1>1, StoredAppend, StoredKept DEF Served

\* Another phone's write adds itself and pushes data.
LEMMA OtherFacts ==
    ASSUME TypeOK, OtherPhoneWrites
    PROVE  /\ applied' = Append(applied, 0) /\ applied' \in Seq(0..MaxPuts)
           /\ Stored \subseteq Stored' /\ fromServer' \in Seq(Messages)
           /\ \A m \in Elements(fromServer') :
                 m \in Elements(fromServer) \/ m.kind = "data"
<1>1. PICK pushes \in Pushes(Stored \cup {0}) : fromServer' = fromServer \o pushes
  BY DEF OtherPhoneWrites
<1>2. pushes \in Seq(Messages) /\ \A m \in Elements(pushes) : m.kind = "data"
  BY StoredTyped, PushesFacts
<1>3. /\ fromServer' \in Seq(Messages)
      /\ Elements(fromServer') = Elements(fromServer) \cup Elements(pushes)
  BY <1>1, <1>2, ElementsConcat DEF TypeOK
<1>4. applied \in Seq(0..MaxPuts) /\ 0 \in 0..MaxPuts
  BY BoundsAreNat DEF TypeOK
<1>5. /\ applied' = Append(applied, 0) /\ applied' \in Seq(0..MaxPuts)
      /\ Stored \subseteq Stored'
  BY <1>4, StoredAppend DEF OtherPhoneWrites
<1> QED BY <1>2, <1>3, <1>5

LEMMA RevokeFacts ==
    ASSUME TypeOK, NEW q \in Queries, Revoke(q)
    PROVE  /\ fromServer' \in Seq(Messages)
           /\ \A m \in Elements(fromServer') :
                 m \in Elements(fromServer) \/ m.kind = "revoked"
BY MessageFacts, ElementsAppend DEF TypeOK, Revoke

LEMMA ServerTypedStep ==
    ASSUME TypeOK, Serve \/ OtherPhoneWrites \/ \E q \in Queries : Revoke(q)
    PROVE  TypeOK'
<1>0. ClientTyped /\ RequestsTyped /\ WireTyped /\ ServerTyped /\ SpentTyped
  BY Parts
<1>1. CASE Serve
  <2>1. PICK i \in 1..Len(toServer) :
            /\ toServer[i] \in Requests /\ toServer' \in Seq(Requests)
            /\ Served(toServer[i])
    BY <1>1, ServeFacts
  <2>2. WireTyped' /\ ServerTyped'
    BY <1>0, <2>1, AppliedTyped DEF Served, WireTyped, ServerTyped
  <2> QED BY <1>0, <1>1, <2>2, Parts, PartsKept DEF Serve
<1>2. CASE OtherPhoneWrites
  <2>1. WireTyped' /\ ServerTyped'
    BY <1>0, <1>2, OtherFacts DEF OtherPhoneWrites, WireTyped, ServerTyped
  <2>2. SpentTyped'
    BY <1>0, <1>2, PartsKept, EventsAre DEF OtherPhoneWrites
  <2> QED BY <1>0, <1>2, <2>1, <2>2, Parts, PartsKept DEF OtherPhoneWrites
<1>3. ASSUME NEW q \in Queries, Revoke(q) PROVE TypeOK'
  <2>1. WireTyped' /\ ServerTyped'
    BY <1>0, <1>3, RevokeFacts DEF Revoke, WireTyped, ServerTyped
  <2>2. SpentTyped'
    BY <1>0, <1>3, PartsKept, EventsAre DEF Revoke
  <2> QED BY <1>0, <1>3, <2>1, <2>2, Parts, PartsKept DEF Revoke
<1> QED BY <1>1, <1>2, <1>3

LEMMA TypeStep == TypeOK /\ [Next]_vars => TypeOK'
<1>1. TypeOK /\ UNCHANGED vars => TypeOK'
  BY Parts, PartsKept DEF vars
<1> QED BY <1>1, ConnectTyped, AskTyped, HearTyped, ServerTypedStep DEF Next

\* Whatever the app asks and the network does, the client's state is well typed.
THEOREM ConnectionTyped == Spec => []TypeOK
BY InitTyped, TypeStep, PTL DEF Spec

-----------------------------------------------------------------------------
(* The connection and FRepo together.                                      *)

\* Every handler of FRepo is a handler of the connection, and FRepo restricts
\* it nowhere: what is proved of the connection holds in Database.
THEOREM DatabaseUsesConnection == DBSpec => Spec
<1>1. DBInit => Init
  BY DEF DBInit
<1>2. DBNext => Next
  BY DEF DBNext, Next, ConnectionOnly, Observe, Unobserve, Set,
         PurgeOutstandingWrites, WriteAnswered, ObserveAnswered, DataUpdate,
         ObserveRevoked
<1>3. [DBNext]_dbVars => [Next]_vars
  BY <1>2 DEF dbVars
<1> QED BY <1>1, <1>3, PTL DEF DBSpec, Spec

-----------------------------------------------------------------------------
(* Retries.                                                                *)

LEMMA RetryStep ==
    ASSUME TypeOK, RetryExactlyWhenIdle, [Next]_vars
    PROVE  RetryExactlyWhenIdle'
<1> USE DEF RetryExactlyWhenIdle, InStep
<1>1. CASE UNCHANGED client
  BY <1>1 DEF client
<1>2. CASE RetryFires
  BY <1>2 DEF RetryFires
<1>3. CASE Handshake
  BY <1>3 DEF Handshake
<1>4. CASE ConnectionLost
  BY <1>4 DEF ConnectionLost, OnDisconnect
<1>5. CASE Interrupt \/ OnKill
  BY <1>5 DEF Interrupt, OnKill, InterruptForReason, OnDisconnect
<1>6. CASE Resume
  BY <1>6 DEF Resume, ResumeForReason, TryScheduleReconnect
<1>7. CASE Reachable
  BY <1>7 DEF Reachable, TryScheduleReconnect
<1> QED BY <1>1, <1>2, <1>3, <1>4, <1>5, <1>6, <1>7
        DEF Next, vars, Listen, Unlisten, Revoke, Put, Purge, PutAnswered,
            ListenAnswered, DataReceived, OnListenRevoked, Serve, OtherPhoneWrites

LEMMA RetryInit == Init => RetryExactlyWhenIdle
BY DEF Init, RetryExactlyWhenIdle, InStep

\* The two state machines of a client never disagree, and it has a task that
\* connects exactly when it has no connection and no reason against one.
THEOREM NeverStranded == DBSpec => []RetryExactlyWhenIdle
<1>1. Spec => []RetryExactlyWhenIdle
  BY RetryInit, RetryStep, ConnectionTyped, PTL DEF Spec
<1> QED BY <1>1, DatabaseUsesConnection, PTL

-----------------------------------------------------------------------------
(* Every write is somewhere.                                               *)

LEMMA PlacesOf ==
    ASSUME NEW o \in Seq(Puts), NEW a \in Seq(Completions), NEW c \in Seq(Completions)
    PROVE  LET places == o \o [i \in 1..Len(a) |-> a[i].put]
                           \o [i \in 1..Len(c) |-> c[i].put]
           IN  /\ Len(places) = Len(o) + Len(a) + Len(c)
               /\ Elements(places)
                     = Elements(o) \cup {d.put : d \in Elements(a) \cup Elements(c)}
<1> DEFINE PutsOf(s) == [i \in 1..Len(s) |-> s[i].put]
<1>1. ASSUME NEW s \in Seq(Completions)
      PROVE  /\ PutsOf(s) \in Seq(Puts) /\ Len(PutsOf(s)) = Len(s)
             /\ Elements(PutsOf(s)) = {d.put : d \in Elements(s)}
  <2>1. Len(s) \in Nat /\ \A i \in 1..Len(s) : s[i].put \in Puts
    BY LenProperties, ElementOfSeq, CompletionFacts
  <2>2. PutsOf(s) \in [1..Len(s) -> Puts]
    BY <2>1
  <2>3. PutsOf(s) \in Seq(Puts) /\ Len(PutsOf(s)) = Len(s)
    BY <2>1, <2>2, FunctionIsSeq
  <2>4. \A i \in 1..Len(s) : PutsOf(s)[i] = s[i].put
    OBVIOUS
  <2> HIDE DEF PutsOf
  <2>5. Elements(PutsOf(s)) = {d.put : d \in Elements(s)}
    BY <2>3, <2>4 DEF Elements
  <2> QED BY <2>3, <2>5
<1>2. /\ PutsOf(a) \in Seq(Puts) /\ Len(PutsOf(a)) = Len(a)
      /\ Elements(PutsOf(a)) = {d.put : d \in Elements(a)}
      /\ PutsOf(c) \in Seq(Puts) /\ Len(PutsOf(c)) = Len(c)
      /\ Elements(PutsOf(c)) = {d.put : d \in Elements(c)}
  BY <1>1
<1> HIDE DEF PutsOf
<1>3. /\ o \o PutsOf(a) \in Seq(Puts) /\ Len(o \o PutsOf(a)) = Len(o) + Len(a)
      /\ Elements(o \o PutsOf(a)) = Elements(o) \cup {d.put : d \in Elements(a)}
  BY <1>2, ElementsConcat
<1> DEFINE first == o \o PutsOf(a)
<1> HIDE DEF first
<1>4. /\ Len(first \o PutsOf(c)) = Len(first) + Len(c)
      /\ Elements(first \o PutsOf(c)) = Elements(first) \cup {d.put : d \in Elements(c)}
  <2>1. first \in Seq(Puts)
    BY <1>3 DEF first
  <2>2. /\ Len(first \o PutsOf(c)) = Len(first) + Len(PutsOf(c))
        /\ Elements(first \o PutsOf(c)) = Elements(first) \cup Elements(PutsOf(c))
    <3>1. PutsOf(c) \in Seq(Puts)
      BY <1>2
    <3> HIDE <1>2, <1>3
    <3> QED BY <2>1, <3>1, ElementsConcat
  <2> QED BY <1>2, <2>2
<1>5. /\ Len(first \o PutsOf(c)) = Len(o) + Len(a) + Len(c)
      /\ Elements(first \o PutsOf(c))
            = Elements(o) \cup {d.put : d \in Elements(a) \cup Elements(c)}
  BY <1>3, <1>4 DEF first
<1> QED BY <1>5 DEF first, PutsOf

Reports == {c.put : c \in Elements(putsToAck) \cup Elements(completed)}

Placed ==
    /\ Len(outstandingPuts) + Len(putsToAck) + Len(completed) = putCounter
    /\ Elements(outstandingPuts) \cup Reports = 1..putCounter

LEMMA PlacedIsOnce == /\ TypeOK => (EachWriteOnce <=> Placed)
                      /\ TypeOK' => (EachWriteOnce' <=> Placed')
<1>1. TypeOK => (EachWriteOnce <=> Placed)
  BY PlacesOf DEF TypeOK, EachWriteOnce, Placed, Reports
<1>2. TypeOK' => (EachWriteOnce' <=> Placed')
  <2>1. Reports' = {c.put : c \in Elements(putsToAck') \cup Elements(completed')}
    BY DEF Reports, Elements
  <2>2. Elements(outstandingPuts)' = Elements(outstandingPuts')
    BY DEF Elements
  <2> QED BY <2>1, <2>2, PlacesOf DEF TypeOK, EachWriteOnce, Placed
<1> QED BY <1>1, <1>2

LEMMA StepKinds ==
    ASSUME [Next]_vars
    PROVE  \/ PutAnswered \/ ListenAnswered \/ Purge \/ Put
           \/ UNCHANGED <<outstandingPuts, putsToAck, completed, putCounter>>
BY DEF Next, vars, requests, RetryFires, Handshake, ConnectionLost, Interrupt,
       OnKill, InterruptForReason, OnDisconnect, Resume, ResumeForReason, Reachable,
       Listen, Unlisten, Revoke, DataReceived, OnListenRevoked, Serve,
       OtherPhoneWrites

LEMMA PlacedInit == Init => Placed
<1>1. Elements(<<>>) = {}
  BY DEF Elements
<1> QED BY <1>1 DEF Init, Placed, Reports

LEMMA PlacedStep ==
    ASSUME TypeOK, TypeOK', Placed, [Next]_vars
    PROVE  Placed'
<1>0. /\ Reports' = {c.put : c \in Elements(putsToAck') \cup Elements(completed')}
      /\ outstandingPuts \in Seq(Puts) /\ outstandingPuts' \in Seq(Puts)
      /\ putsToAck \in Seq(Completions) /\ completed \in Seq(Completions)
      /\ Len(outstandingPuts) \in Nat /\ Len(putsToAck) \in Nat
      /\ Len(completed) \in Nat /\ putCounter \in Nat
  <2>1. Reports' = {c.put : c \in Elements(putsToAck') \cup Elements(completed')}
    BY DEF Reports, Elements
  <2> QED BY <2>1, LenProperties, BoundsAreNat DEF TypeOK
<1>00. SUFFICES /\ Len(outstandingPuts') + Len(putsToAck') + Len(completed') = putCounter'
                /\ Elements(outstandingPuts') \cup Reports' = 1..putCounter'
  BY DEF Placed, Elements
<1>1. CASE PutAnswered
  <2>1. PICK p : p = Head(fromServer).to.put
    OBVIOUS
  <2>2. ASSUME NEW i \in 1..Len(outstandingPuts), outstandingPuts[i] = p,
               outstandingPuts' = Drop(outstandingPuts, i),
               Report(Completion(p, Head(fromServer).status))
        PROVE  /\ Len(outstandingPuts') + Len(putsToAck') + Len(completed') = putCounter'
               /\ Elements(outstandingPuts') \cup Reports' = 1..putCounter'
    <3>1. /\ Len(outstandingPuts') = Len(outstandingPuts) - 1
          /\ Elements(outstandingPuts) = Elements(outstandingPuts') \cup {p}
      BY <1>0, <2>2, DropFacts, ElementsDrop
    <3>2. /\ Completion(p, Head(fromServer).status) \in Completions
          /\ Completion(p, Head(fromServer).status).put = p
      <4>1. Head(fromServer) \in Messages /\ Head(fromServer).kind = "answer"
        BY <1>1, HearsFacts DEF PutAnswered, HearsAnswer
      <4>2. p \in Puts /\ Head(fromServer).status \in Statuses
        BY <1>0, <2>2, <4>1, ElementOfSeq, MessageKinds
      <4> QED BY <4>2, CompletionFacts
    <3>3. /\ Len(completed') + Len(putsToAck') = Len(completed) + Len(putsToAck) + 1
          /\ Elements(completed') \cup Elements(putsToAck')
                = Elements(completed) \cup Elements(putsToAck)
                     \cup {Completion(p, Head(fromServer).status)}
          /\ Len(completed') \in Nat /\ Len(putsToAck') \in Nat
      BY <2>2, <3>2, ReportFacts, LenProperties
    <3>4. Reports' = Reports \cup {p}
      BY <1>0, <3>2, <3>3 DEF Reports
    <3>5. putCounter' = putCounter
      BY <1>1 DEF PutAnswered
    <3>6. Elements(outstandingPuts') \cup Reports' = 1..putCounter
      BY <3>1, <3>4 DEF Placed
    <3>7. Len(outstandingPuts') + Len(putsToAck') + Len(completed') = putCounter
      <4>1. Len(outstandingPuts) + Len(putsToAck) + Len(completed) = putCounter
        BY DEF Placed
      <4>2. Len(outstandingPuts') = Len(outstandingPuts) - 1
        BY <3>1
      <4>3. /\ Len(completed') + Len(putsToAck') = Len(completed) + Len(putsToAck) + 1
            /\ Len(completed') \in Nat /\ Len(putsToAck') \in Nat
        BY <3>3
      <4>4. /\ Len(outstandingPuts) \in Nat /\ Len(putsToAck) \in Nat
            /\ Len(completed) \in Nat
        BY <1>0
      <4> QED BY <4>1, <4>2, <4>3, <4>4
    <3> QED BY <3>5, <3>6, <3>7
  <2>3. CASE UNCHANGED <<outstandingPuts, putsToAck, completed>>
    BY <1>0, <1>1, <2>3 DEF PutAnswered, Placed, Reports
  <2> QED BY <1>1, <2>1, <2>2, <2>3 DEF PutAnswered
<1>2. CASE ListenAnswered
  <2>1. UNCHANGED <<outstandingPuts, putCounter>>
    BY <1>2 DEF ListenAnswered
  <2>2. CASE completed' = completed \o putsToAck /\ putsToAck' = <<>>
    <3>1. /\ Len(completed') = Len(completed) + Len(putsToAck)
          /\ Elements(completed') = Elements(completed) \cup Elements(putsToAck)
          /\ Len(putsToAck') = 0 /\ Elements(putsToAck') = {}
      <4>1. /\ Len(completed') = Len(completed) + Len(putsToAck)
            /\ Elements(completed') = Elements(completed) \cup Elements(putsToAck)
        BY <1>0, <2>2, ElementsConcat
      <4> QED BY <2>2, <4>1 DEF Elements
    <3> QED BY <1>0, <2>1, <3>1 DEF Placed, Reports
  <2>3. CASE UNCHANGED <<completed, putsToAck>>
    BY <1>0, <2>1, <2>3 DEF Placed, Reports
  <2> QED BY <1>2, <2>2, <2>3 DEF ListenAnswered
<1>3. CASE Purge
  <2> DEFINE kept == completed \o putsToAck
             canceled == Canceled(outstandingPuts)
  <2>1. /\ kept \in Seq(Completions) /\ Len(kept) = Len(completed) + Len(putsToAck)
        /\ Elements(kept) = Elements(completed) \cup Elements(putsToAck)
    BY <1>0, ElementsConcat
  <2>2. /\ canceled \in Seq(Completions) /\ Len(canceled) = Len(outstandingPuts)
        /\ {c.put : c \in Elements(canceled)} = Elements(outstandingPuts)
    <3>1. \A i \in 1..Len(outstandingPuts) :
              /\ canceled[i] \in Completions /\ canceled[i].put = outstandingPuts[i]
      BY <1>0, ElementOfSeq, CompletionFacts DEF Canceled, Statuses
    <3>2. canceled \in [1..Len(outstandingPuts) -> Completions]
      BY <3>1 DEF Canceled
    <3>3. canceled \in Seq(Completions) /\ Len(canceled) = Len(outstandingPuts)
      BY <1>0, <3>2, FunctionIsSeq
    <3> HIDE DEF canceled
    <3>4. {c.put : c \in Elements(canceled)} = Elements(outstandingPuts)
      BY <3>1, <3>3 DEF Elements
    <3> QED BY <3>3, <3>4
  <2>3. completed' = kept \o canceled
    BY <1>3 DEF Purge
  <2> HIDE DEF kept, canceled
  <2>4. /\ Len(completed') = Len(kept) + Len(canceled)
        /\ Elements(completed') = Elements(kept) \cup Elements(canceled)
    <3>1. kept \in Seq(Completions) /\ canceled \in Seq(Completions)
      BY <2>1, <2>2
    <3> QED BY <2>3, <3>1, ElementsConcat
  <2>5. /\ Len(outstandingPuts') = 0 /\ Elements(outstandingPuts') = {}
        /\ Len(putsToAck') = 0 /\ Elements(putsToAck') = {}
        /\ putCounter' = putCounter
    BY <1>3 DEF Purge, Elements
  <2>6. Reports' = Reports \cup Elements(outstandingPuts)
    BY <1>0, <2>1, <2>2, <2>4, <2>5 DEF Reports
  <2>7. Len(outstandingPuts') + Len(putsToAck') + Len(completed') = putCounter
    BY <1>0, <2>1, <2>2, <2>4, <2>5 DEF Placed
  <2> QED BY <2>5, <2>6, <2>7 DEF Placed
<1>4. CASE Put
  <2>1. putCounter + 1 \in Puts /\ putCounter' = putCounter + 1
    BY <1>0, <1>4, BoundsAreNat DEF Put, Puts
  <2>2. /\ Len(outstandingPuts') = Len(outstandingPuts) + 1
        /\ Elements(outstandingPuts') = Elements(outstandingPuts) \cup {putCounter + 1}
    BY <1>0, <1>4, <2>1, ElementsAppend DEF Put
  <2>3. UNCHANGED <<putsToAck, completed>>
    BY <1>4 DEF Put
  <2>4. Reports' = Reports
    BY <1>0, <2>3 DEF Reports
  <2>5. 1..(putCounter + 1) = (1..putCounter) \cup {putCounter + 1}
    BY <1>0
  <2>6. Len(outstandingPuts') + Len(putsToAck') + Len(completed') = putCounter'
    <3>1. Len(putsToAck') = Len(putsToAck) /\ Len(completed') = Len(completed)
      BY <2>3
    <3>2. Len(outstandingPuts) + Len(putsToAck) + Len(completed) = putCounter
      BY DEF Placed
    <3> QED BY <1>0, <2>1, <2>2, <3>1, <3>2
  <2>7. Elements(outstandingPuts') \cup Reports' = 1..putCounter'
    <3>1. Elements(outstandingPuts) \cup Reports = 1..putCounter
      BY DEF Placed
    <3> QED BY <2>1, <2>2, <2>4, <2>5, <3>1
  <2> QED BY <2>6, <2>7
<1>5. CASE UNCHANGED <<outstandingPuts, putsToAck, completed, putCounter>>
  BY <1>0, <1>5 DEF Placed, Reports
<1> QED BY <1>1, <1>2, <1>3, <1>4, <1>5, StepKinds

LEMMA OnceInvariant == Spec => []Placed
<1>1. TypeOK /\ TypeOK' /\ Placed /\ [Next]_vars => Placed'
  BY PlacedStep
<1> QED BY <1>1, PlacedInit, ConnectionTyped, PTL DEF Spec

\* No callback of a write is lost or called twice, whatever is sent again,
\* answered late or purged.
THEOREM NoCallbackLost == DBSpec => []EachWriteOnce
<1>1. TypeOK /\ Placed => EachWriteOnce
  BY PlacedIsOnce
<1>2. Spec => []EachWriteOnce
  BY <1>1, OnceInvariant, ConnectionTyped, PTL
<1> QED BY <1>2, DatabaseUsesConnection, PTL

-----------------------------------------------------------------------------
(* What a report says is true.                                             *)

Backed(p, status) ==
    /\ status = "ok" => p \in Stored
    /\ status = "denied" => p \in rules.puts

AnswersBacked ==
    \A m \in Elements(fromServer) : m.kind = "answer" =>
        /\ m.status # "canceled"
        /\ m.to.kind = "put" => Backed(m.to.put, m.status)

ReportsBacked ==
    /\ \A c \in Elements(putsToAck) : c.status # "canceled" /\ Backed(c.put, c.status)
    /\ \A c \in Elements(completed) : Backed(c.put, c.status)

\* The order of issue has nothing to wait for from p.
Settled(p) ==
    \/ p \in Stored
    \/ p \in rules.puts
    \/ Completion(p, "canceled") \in Elements(completed)

OutstandingSorted ==
    \A i, j \in 1..Len(outstandingPuts) :
        i < j => outstandingPuts[i] < outstandingPuts[j]

SentInOrder ==
    \A i \in 1..Len(toServer) : toServer[i].kind = "put" =>
        \A p \in 1..(toServer[i].put - 1) :
            Settled(p) \/ \E j \in 1..(i - 1) : toServer[j] = PutRequest(p)

AllSent ==
    connectionState = "connected" =>
        \A p \in Elements(outstandingPuts) :
            Settled(p) \/ \E j \in 1..Len(toServer) : toServer[j] = PutRequest(p)

OrderInv == OutstandingSorted /\ SentInOrder /\ AllSent /\ IssueOrder

LEMMA Grows ==
    ASSUME TypeOK, [Next]_vars
    PROVE  /\ Stored \subseteq Stored' /\ rules' = rules
           /\ \A x : x \in Elements(completed) => x \in Elements(completed')
<1>1. completed \in Seq(Completions) /\ putsToAck \in Seq(Completions)
  BY DEF TypeOK
<1>2. Stored \subseteq Stored' /\ rules' = rules
  <2>1. CASE UNCHANGED <<applied, rules>>
    BY <2>1, StoredKept
  <2>2. CASE Serve
    BY <2>2, ServeFacts, AppliedTyped DEF Served
  <2>3. CASE OtherPhoneWrites
    BY <2>3, OtherFacts DEF OtherPhoneWrites
  <2> QED BY <2>1, <2>2, <2>3
          DEF Next, vars, server, RetryFires, Handshake, ConnectionLost, Interrupt,
              OnKill, InterruptForReason, OnDisconnect, Resume, ResumeForReason,
              Reachable, Listen, Unlisten, Put, Purge, Revoke, PutAnswered,
              ListenAnswered, DataReceived, OnListenRevoked
<1>3. \A x : x \in Elements(completed) => x \in Elements(completed')
  <2>1. CASE PutAnswered
    <3>1. CASE UNCHANGED completed
      BY <3>1
    <3>2. ASSUME NEW i \in 1..Len(outstandingPuts),
                 outstandingPuts[i] = Head(fromServer).to.put,
                 Report(Completion(Head(fromServer).to.put, Head(fromServer).status))
          PROVE  \A x : x \in Elements(completed) => x \in Elements(completed')
      <4>1. /\ Head(fromServer) \in Messages /\ Head(fromServer).kind = "answer"
            /\ Head(fromServer).to.kind = "put"
        BY <2>1, HearsFacts DEF PutAnswered, HearsAnswer
      <4>2. Completion(Head(fromServer).to.put, Head(fromServer).status) \in Completions
        BY <4>1, MessageKinds, RequestKinds, CompletionFacts
      <4> QED BY <3>2, <4>2, ReportFacts
    <3> QED BY <2>1, <3>1, <3>2 DEF PutAnswered
  <2>2. CASE ListenAnswered
    <3>1. Elements(completed \o putsToAck) = Elements(completed) \cup Elements(putsToAck)
      BY <1>1, ElementsConcat
    <3>2. completed' = completed \o putsToAck \/ UNCHANGED completed
      BY <2>2 DEF ListenAnswered
    <3> QED BY <3>1, <3>2
  <2>3. CASE Purge
    <3>1. completed \o putsToAck \in Seq(Completions)
      BY <1>1, ElementsConcat
    <3>2. Canceled(outstandingPuts) \in Seq(Completions)
      <4>1. Canceled(outstandingPuts) \in [1..Len(outstandingPuts) -> Completions]
        BY ElementOfSeq, CompletionFacts DEF TypeOK, Canceled, Statuses
      <4> QED BY <4>1, LenProperties, FunctionIsSeq DEF TypeOK
    <3> DEFINE kept == completed \o putsToAck
               canceled == Canceled(outstandingPuts)
    <3>3. /\ kept \in Seq(Completions) /\ canceled \in Seq(Completions)
          /\ completed' = kept \o canceled
      BY <2>3, <3>1, <3>2 DEF Purge
    <3>4. Elements(kept) = Elements(completed) \cup Elements(putsToAck)
      BY <1>1, ElementsConcat
    <3> HIDE DEF kept, canceled
    <3>5. Elements(completed') = Elements(kept) \cup Elements(canceled)
      BY <3>3, ElementsConcat
    <3> QED BY <3>4, <3>5
  <2>4. CASE UNCHANGED completed
    BY <2>4
  <2> QED BY <2>1, <2>2, <2>3, <2>4, StepKinds DEF Put
<1> QED BY <1>2, <1>3

\* What stays backed.
LEMMA BackedStays ==
    ASSUME TypeOK, [Next]_vars, NEW p, NEW status, Backed(p, status)
    PROVE  /\ status = "ok" => p \in Stored'
           /\ status = "denied" => p \in rules'.puts
BY Grows DEF Backed

BackedInv == AnswersBacked /\ ReportsBacked

LEMMA BackedInit == Init => BackedInv
<1>1. Elements(<<>>) = {}
  BY DEF Elements
<1> QED BY <1>1 DEF Init, BackedInv, AnswersBacked, ReportsBacked

\* Every answer on the wire after a step was there before, or the server gave it
\* in this step.
LEMMA AnswersStep ==
    ASSUME TypeOK, AnswersBacked, [Next]_vars
    PROVE  AnswersBacked'
<1>0. AnswersBacked' <=>
         \A m \in Elements(fromServer') : m.kind = "answer" =>
            /\ m.status # "canceled"
            /\ m.to.kind = "put" =>
                  /\ m.status = "ok" => m.to.put \in Stored'
                  /\ m.status = "denied" => m.to.put \in rules'.puts
  BY DEF AnswersBacked, Backed, Elements
<1>1. ASSUME NEW m \in Elements(fromServer'), m.kind = "answer",
             m \in Elements(fromServer)
      PROVE  /\ m.status # "canceled"
             /\ m.to.kind = "put" =>
                   /\ m.status = "ok" => m.to.put \in Stored'
                   /\ m.status = "denied" => m.to.put \in rules'.puts
  BY <1>1, BackedStays DEF AnswersBacked
<1>2. ASSUME NEW r \in Requests, NEW m, AnswerTo(m, r)
      PROVE  /\ m.status # "canceled"
             /\ m.to.kind = "put" =>
                   /\ m.status = "ok" => m.to.put \in Stored'
                   /\ m.status = "denied" => m.to.put \in rules'.puts
  BY <1>2, Grows DEF AnswerTo
<1>3. CASE Serve
  <2>1. PICK i \in 1..Len(toServer) : toServer[i] \in Requests /\ Served(toServer[i])
    BY <1>3, ServeFacts
  <2> QED BY <1>0, <1>1, <1>2, <2>1 DEF Served
<1>4. CASE OtherPhoneWrites
  BY <1>0, <1>1, <1>4, OtherFacts
<1>5. ASSUME NEW q \in Queries, Revoke(q) PROVE AnswersBacked'
  BY <1>0, <1>1, <1>5, RevokeFacts
<1>6. CASE PutAnswered \/ ListenAnswered \/ DataReceived \/ OnListenRevoked
  <2>1. \A m \in Elements(fromServer') : m \in Elements(fromServer)
    BY <1>6, HearsFacts
       DEF PutAnswered, ListenAnswered, DataReceived, OnListenRevoked, HearsAnswer
  <2> QED BY <1>0, <1>1, <2>1
<1>7. CASE fromServer' = <<>>
  <2>1. Elements(fromServer') = {}
    BY <1>7 DEF Elements
  <2> QED BY <1>0, <2>1
<1>8. CASE UNCHANGED fromServer
  <2>1. \A m \in Elements(fromServer') : m \in Elements(fromServer)
    BY <1>8
  <2> QED BY <1>0, <1>1, <2>1
<1> QED BY <1>3, <1>4, <1>5, <1>6, <1>7, <1>8
        DEF Next, vars, wire, RetryFires, Handshake, ConnectionLost, Interrupt, OnKill,
            InterruptForReason, OnDisconnect, Resume, ResumeForReason, Reachable,
            Listen, Unlisten, Put, Purge

\* What an answered write is reported as.
LEMMA AnswerReport ==
    ASSUME TypeOK, AnswersBacked, PutAnswered
    PROVE  LET c == Completion(Head(fromServer).to.put, Head(fromServer).status)
           IN  /\ c \in Completions /\ c.status # "canceled"
               /\ Backed(c.put, c.status)
<1>1. /\ Head(fromServer) \in Messages /\ Head(fromServer).kind = "answer"
      /\ Head(fromServer).to.kind = "put" /\ Head(fromServer) \in Elements(fromServer)
  BY HearsFacts DEF PutAnswered, HearsAnswer
<1>2. /\ Head(fromServer).to.put \in Puts /\ Head(fromServer).status \in Statuses
  BY <1>1, MessageKinds, RequestKinds
<1> QED BY <1>1, <1>2, CompletionFacts DEF AnswersBacked

LEMMA ReportsStep ==
    ASSUME TypeOK, AnswersBacked, ReportsBacked, [Next]_vars
    PROVE  ReportsBacked'
<1> DEFINE Fine(c) == /\ c.status = "ok" => c.put \in Stored'
                      /\ c.status = "denied" => c.put \in rules'.puts
<1>0. ReportsBacked' <=>
         /\ \A c \in Elements(putsToAck') : c.status # "canceled" /\ Fine(c)
         /\ \A c \in Elements(completed') : Fine(c)
  BY DEF ReportsBacked, Backed, Elements
<1>1. /\ \A c \in Elements(putsToAck) : c.status # "canceled" /\ Fine(c)
      /\ \A c \in Elements(completed) : Fine(c)
  BY BackedStays DEF ReportsBacked
<1>2. completed \in Seq(Completions) /\ putsToAck \in Seq(Completions)
  BY DEF TypeOK
<1>3. CASE PutAnswered
  <2>1. PICK c : c = Completion(Head(fromServer).to.put, Head(fromServer).status)
    OBVIOUS
  <2>2. c \in Completions /\ c.status # "canceled" /\ Fine(c)
    BY <1>3, <2>1, AnswerReport, BackedStays
  <2> HIDE DEF Fine
  <2>3. CASE UNCHANGED <<putsToAck, completed>>
    BY <1>0, <1>1, <2>3
  <2>4. CASE completed' = Append(completed, c) /\ UNCHANGED putsToAck
    <3>1. Elements(completed') = Elements(completed) \cup {c}
      BY <1>2, <2>2, <2>4, ElementsAppend
    <3> QED BY <1>0, <1>1, <2>2, <2>4, <3>1
  <2>5. CASE putsToAck' = Append(putsToAck, c) /\ UNCHANGED completed
    <3>1. Elements(putsToAck') = Elements(putsToAck) \cup {c}
      BY <1>2, <2>2, <2>5, ElementsAppend
    <3> QED BY <1>0, <1>1, <2>2, <2>5, <3>1
  <2> QED BY <1>3, <2>1, <2>3, <2>4, <2>5 DEF PutAnswered, Report
<1>4. CASE ListenAnswered
  <2> HIDE DEF Fine
  <2>1. CASE completed' = completed \o putsToAck /\ putsToAck' = <<>>
    <3>1. Elements(completed') = Elements(completed) \cup Elements(putsToAck)
      BY <1>2, <2>1, ElementsConcat
    <3>2. Elements(putsToAck') = {}
      BY <2>1 DEF Elements
    <3> QED BY <1>0, <1>1, <3>1, <3>2
  <2>2. CASE UNCHANGED <<completed, putsToAck>>
    BY <1>0, <1>1, <2>2
  <2> QED BY <1>4, <2>1, <2>2 DEF ListenAnswered
<1>5. CASE Purge
  <2> DEFINE kept == completed \o putsToAck
             canceled == Canceled(outstandingPuts)
  <2>1. /\ kept \in Seq(Completions)
        /\ Elements(kept) = Elements(completed) \cup Elements(putsToAck)
    BY <1>2, ElementsConcat
  <2>2. /\ canceled \in Seq(Completions)
        /\ \A c \in Elements(canceled) : c.status = "canceled"
    <3>1. \A i \in 1..Len(outstandingPuts) :
              canceled[i] \in Completions /\ canceled[i].status = "canceled"
      BY ElementOfSeq, CompletionFacts DEF TypeOK, Canceled, Statuses
    <3>2. canceled \in [1..Len(outstandingPuts) -> Completions]
      BY <3>1 DEF Canceled
    <3>3. canceled \in Seq(Completions) /\ Len(canceled) = Len(outstandingPuts)
      BY <3>2, LenProperties, FunctionIsSeq DEF TypeOK
    <3> QED BY <3>1, <3>3 DEF Elements
  <2>3. completed' = kept \o canceled /\ putsToAck' = <<>>
    BY <1>5 DEF Purge
  <2>4. \A c \in Elements(canceled) : Fine(c)
    BY <2>2
  <2> HIDE DEF kept, canceled, Fine
  <2>5. Elements(completed') = Elements(kept) \cup Elements(canceled)
    BY <2>1, <2>2, <2>3, ElementsConcat
  <2>6. Elements(putsToAck') = {}
    BY <2>3 DEF Elements
  <2> QED BY <1>0, <1>1, <2>1, <2>4, <2>5, <2>6
<1>6. CASE UNCHANGED <<putsToAck, completed>>
  BY <1>0, <1>1, <1>6
<1> QED BY <1>3, <1>4, <1>5, <1>6, StepKinds DEF Put

LEMMA BackedInvariant == Spec => []BackedInv
<1>1. TypeOK /\ BackedInv /\ [Next]_vars => BackedInv'
  BY AnswersStep, ReportsStep DEF BackedInv
<1> QED BY <1>1, BackedInit, ConnectionTyped, PTL DEF Spec

\* A write reported as done is on the server, over lost answers, retries of
\* writes the server had, and reports that waited for listens.
THEOREM DoneIsCommitted == DBSpec => []DoneMeansCommitted
<1>1. BackedInv => DoneMeansCommitted
  BY DEF BackedInv, ReportsBacked, Backed, DoneMeansCommitted
<1>2. Spec => []DoneMeansCommitted
  BY <1>1, BackedInvariant, PTL
<1> QED BY <1>2, DatabaseUsesConnection, PTL

-----------------------------------------------------------------------------
(* The order of issue.                                                     *)

SettledThen(p) ==
    \/ p \in Stored'
    \/ p \in rules'.puts
    \/ Completion(p, "canceled") \in Elements(completed')

LEMMA SettledStays ==
    ASSUME TypeOK, [Next]_vars, NEW p, Settled(p)
    PROVE  SettledThen(p)
BY Grows DEF Settled, SettledThen

LEMMA PrimedOrder ==
    /\ SentInOrder' <=>
          \A i \in 1..Len(toServer') : toServer'[i].kind = "put" =>
              \A p \in 1..(toServer'[i].put - 1) :
                  SettledThen(p) \/ \E j \in 1..(i - 1) : toServer'[j] = PutRequest(p)
    /\ AllSent' <=>
          (connectionState' = "connected" =>
              \A p \in Elements(outstandingPuts') :
                  \/ SettledThen(p)
                  \/ \E j \in 1..Len(toServer') : toServer'[j] = PutRequest(p))
    /\ OutstandingSorted' <=>
          \A i, j \in 1..Len(outstandingPuts') :
              i < j => outstandingPuts'[i] < outstandingPuts'[j]
BY DEF SentInOrder, AllSent, OutstandingSorted, Settled, SettledThen, Elements,
       Completion, PutRequest

\* Every issued write is unanswered or settled.
LEMMA NotWaitingIsSettled ==
    ASSUME TypeOK, Placed, ReportsBacked, NEW p \in 1..putCounter
    PROVE  p \in Elements(outstandingPuts) \/ Settled(p)
<1>1. CASE p \in Reports
  <2>1. PICK c \in Elements(putsToAck) \cup Elements(completed) : c.put = p
    BY <1>1 DEF Reports
  <2>2. c \in Completions
    BY <2>1, ElementsOf DEF TypeOK
  <2>3. c = Completion(p, c.status) /\ c.status \in {"ok", "denied", "canceled"}
    BY <2>1, <2>2, CompletionFacts DEF Statuses
  <2>4. CASE c.status = "canceled"
    <3>1. c \in Elements(completed)
      BY <2>1, <2>4 DEF ReportsBacked
    <3> QED BY <2>3, <2>4, <3>1 DEF Settled
  <2>5. CASE c.status \in {"ok", "denied"}
    BY <2>1, <2>5 DEF ReportsBacked, Backed, Settled
  <2> QED BY <2>3, <2>4, <2>5
<1> QED BY <1>1 DEF Placed

LEMMA OutstandingFacts ==
    ASSUME TypeOK, Placed
    PROVE  /\ Len(outstandingPuts) \in Nat /\ putCounter \in Nat
           /\ \A i \in 1..Len(outstandingPuts) :
                 outstandingPuts[i] \in 1..putCounter /\ outstandingPuts[i] \in Puts
<1>1. \A i \in 1..Len(outstandingPuts) : outstandingPuts[i] \in Elements(outstandingPuts)
  BY DEF Elements
<1>2. \A p \in Elements(outstandingPuts) : p \in 1..putCounter
  BY DEF Placed
<1> QED BY <1>1, <1>2, LenProperties, ElementOfSeq, BoundsAreNat DEF TypeOK

LEMMA SortedStep ==
    ASSUME TypeOK, Placed, OutstandingSorted, [Next]_vars
    PROVE  OutstandingSorted'
<1>0. outstandingPuts \in Seq(Puts)
  BY DEF TypeOK
<1>1. ASSUME NEW n \in 1..Len(outstandingPuts),
             outstandingPuts' = Drop(outstandingPuts, n)
      PROVE  OutstandingSorted'
  <2>1. /\ Len(outstandingPuts') = Len(outstandingPuts) - 1
        /\ \A k \in 1..(Len(outstandingPuts) - 1) :
              outstandingPuts'[k] = IF k < n THEN outstandingPuts[k]
                                             ELSE outstandingPuts[k + 1]
    BY <1>0, <1>1, DropFacts
  <2>2. ASSUME NEW i \in 1..Len(outstandingPuts'), NEW j \in 1..Len(outstandingPuts'),
               i < j
        PROVE  outstandingPuts'[i] < outstandingPuts'[j]
    <3>1. /\ i \in 1..(Len(outstandingPuts) - 1) /\ j \in 1..(Len(outstandingPuts) - 1)
          /\ i \in 1..Len(outstandingPuts) /\ i + 1 \in 1..Len(outstandingPuts)
          /\ j \in 1..Len(outstandingPuts) /\ j + 1 \in 1..Len(outstandingPuts)
          /\ i < j + 1 /\ i + 1 < j + 1
      BY <2>1, <2>2, OutstandingFacts
    <3>2. CASE j < n
      BY <2>1, <2>2, <3>1, <3>2 DEF OutstandingSorted
    <3>3. CASE ~(j < n)
      BY <2>1, <2>2, <3>1, <3>3 DEF OutstandingSorted
    <3> QED BY <3>2, <3>3
  <2> QED BY <2>2, PrimedOrder
<1>2. CASE Put
  <2>1. putCounter + 1 \in Puts /\ outstandingPuts' = Append(outstandingPuts, putCounter + 1)
    BY <1>2, OutstandingFacts, BoundsAreNat DEF Put, Puts
  <2>2. /\ Len(outstandingPuts') = Len(outstandingPuts) + 1
        /\ \A i \in 1..Len(outstandingPuts) : outstandingPuts'[i] = outstandingPuts[i]
        /\ outstandingPuts'[Len(outstandingPuts) + 1] = putCounter + 1
    BY <1>0, <2>1, ElementsAppend
  <2>3. ASSUME NEW i \in 1..Len(outstandingPuts'), NEW j \in 1..Len(outstandingPuts'),
               i < j
        PROVE  outstandingPuts'[i] < outstandingPuts'[j]
    <3>1. i \in 1..Len(outstandingPuts) /\ outstandingPuts[i] < putCounter + 1
      BY <2>2, <2>3, OutstandingFacts
    <3>2. CASE j = Len(outstandingPuts) + 1
      BY <2>2, <3>1, <3>2
    <3>3. CASE j \in 1..Len(outstandingPuts)
      BY <2>2, <2>3, <3>1, <3>3 DEF OutstandingSorted
    <3> QED BY <2>2, <3>2, <3>3, OutstandingFacts
  <2> QED BY <2>3, PrimedOrder
<1>3. CASE outstandingPuts' = <<>>
  BY <1>3, PrimedOrder
<1>4. CASE UNCHANGED outstandingPuts
  BY <1>4, PrimedOrder DEF OutstandingSorted
<1> QED BY <1>1, <1>2, <1>3, <1>4, StepKinds DEF PutAnswered, ListenAnswered, Purge

\* What a step may do to the requests on the wire.
LEMMA WireKinds ==
    ASSUME TypeOK, [Next]_vars
    PROVE  \/ toServer' = <<>> /\ connectionState' # "connected"
           \/ Handshake
           \/ Serve
           \/ Put
           \/ \E r \in Requests : /\ r.kind # "put" /\ Send(r)
                                  /\ UNCHANGED <<connectionState, outstandingPuts>>
           \/ /\ UNCHANGED toServer
              /\ connectionState' \in {connectionState, "disconnected", "connecting"}
              /\ Elements(outstandingPuts') \subseteq Elements(outstandingPuts)
<1>1. ASSUME NEW q \in Queries, Listen(q)
      PROVE  \E r \in Requests : /\ r.kind # "put" /\ Send(r)
                                 /\ UNCHANGED <<connectionState, outstandingPuts>>
  <2>1. listens'[q] \in 1..MaxListens
    BY <1>1, ListenNumber
  <2> QED BY <1>1, <2>1, RequestFacts DEF Listen, client
<1>2. ASSUME NEW q \in Queries, Unlisten(q)
      PROVE  \E r \in Requests : /\ r.kind # "put" /\ Send(r)
                                 /\ UNCHANGED <<connectionState, outstandingPuts>>
  BY <1>2, RequestFacts DEF Unlisten, client
<1>3. CASE PutAnswered
  <2>1. /\ UNCHANGED <<toServer, connectionState>>
        /\ \/ \E n \in 1..Len(outstandingPuts) :
                 outstandingPuts' = Drop(outstandingPuts, n)
           \/ UNCHANGED outstandingPuts
    BY <1>3 DEF PutAnswered, client
  <2>2. Elements(outstandingPuts') \subseteq Elements(outstandingPuts)
    BY <2>1, ElementsDrop DEF TypeOK
  <2> QED BY <2>1, <2>2
<1>4. CASE Purge
  <2>1. Elements(outstandingPuts') = {}
    BY <1>4 DEF Purge, Elements
  <2> QED BY <1>4, <2>1 DEF Purge, client, wire
<1>5. CASE \/ RetryFires \/ Resume \/ Reachable \/ ListenAnswered \/ DataReceived
           \/ OnListenRevoked \/ OtherPhoneWrites \/ (\E q \in Queries : Revoke(q))
           \/ UNCHANGED vars
  <2>1. /\ UNCHANGED <<toServer, outstandingPuts>>
        /\ connectionState' \in {connectionState, "connecting"}
    BY <1>5 DEF RetryFires, Resume, ResumeForReason, Reachable, ListenAnswered,
                DataReceived, OnListenRevoked, OtherPhoneWrites, Revoke, vars, wire,
                client, requests
  <2> QED BY <2>1
<1>6. CASE ConnectionLost \/ Interrupt \/ OnKill
  <2>1. /\ connectionState' = "disconnected" /\ UNCHANGED outstandingPuts
        /\ toServer' = <<>> \/ UNCHANGED toServer
    BY <1>6 DEF ConnectionLost, Interrupt, OnKill, InterruptForReason, OnDisconnect,
                wire, requests
  <2> QED BY <2>1
<1> QED BY <1>1, <1>2, <1>3, <1>4, <1>5, <1>6 DEF Next

\* A new connection sends every outstanding write, behind the earlier ones.
LEMMA HandshakeOrders ==
    ASSUME TypeOK, TypeOK', Placed, ReportsBacked, OutstandingSorted, Handshake
    PROVE  SentInOrder' /\ AllSent'
<1>0. [Next]_vars /\ UNCHANGED outstandingPuts
  BY DEF Next, Handshake
<1>1. PICK n \in Nat :
          /\ Len(toServer') = n + Len(outstandingPuts)
          /\ \A i \in 1..n : toServer'[i].kind = "listen"
          /\ \A k \in 1..Len(outstandingPuts) :
                toServer'[n + k] = PutRequest(outstandingPuts[k])
  <2>1. PICK order \in Orders(Listening) : RestoreState(order)
    BY DEF Handshake
  <2> QED BY <2>1, RestoreFacts
<1>2. ASSUME NEW p \in 1..putCounter
      PROVE  SettledThen(p) \/ \E k \in 1..Len(outstandingPuts) : outstandingPuts[k] = p
  BY <1>0, NotWaitingIsSettled, SettledStays DEF Elements
<1>3. ASSUME NEW i \in 1..Len(toServer'), toServer'[i].kind = "put",
             NEW p \in 1..(toServer'[i].put - 1)
      PROVE  SettledThen(p) \/ \E j \in 1..(i - 1) : toServer'[j] = PutRequest(p)
  <2>1. ~(i <= n)
    BY <1>1, <1>3
  <2>2. i - n \in 1..Len(outstandingPuts) /\ n + (i - n) = i
    BY <1>1, <2>1, OutstandingFacts
  <2>3. toServer'[i] = PutRequest(outstandingPuts[i - n])
    BY <1>1, <2>2
  <2>4. /\ toServer'[i].put = outstandingPuts[i - n]
        /\ outstandingPuts[i - n] \in 1..putCounter
    BY <2>2, <2>3, OutstandingFacts, RequestFacts
  <2>5. p \in 1..putCounter /\ p < outstandingPuts[i - n]
    BY <2>4, OutstandingFacts
  <2>6. ASSUME NEW k \in 1..Len(outstandingPuts), outstandingPuts[k] = p
        PROVE  \E j \in 1..(i - 1) : toServer'[j] = PutRequest(p)
    <3>1. k < i - n
      <4>1. SUFFICES ASSUME ~(k < i - n) PROVE FALSE
        OBVIOUS
      <4>2. CASE k = i - n
        BY <2>5, <2>6, <4>2
      <4>3. CASE i - n < k
        <5>1. outstandingPuts[i - n] < outstandingPuts[k]
          BY <2>2, <4>3 DEF OutstandingSorted
        <5> QED BY <2>4, <2>5, <2>6, <5>1
      <4> QED BY <2>2, <4>1, <4>2, <4>3
    <3>2. n + k \in 1..(i - 1)
      BY <2>2, <3>1
    <3> QED BY <1>1, <2>6, <3>2
  <2> QED BY <1>2, <2>5, <2>6
<1>4. ASSUME NEW p \in Elements(outstandingPuts')
      PROVE  \E j \in 1..Len(toServer') : toServer'[j] = PutRequest(p)
  <2>1. PICK k \in 1..Len(outstandingPuts) : outstandingPuts[k] = p
    BY <1>0, <1>4 DEF Elements
  <2>2. n + k \in 1..Len(toServer')
    BY <1>1, <2>1, OutstandingFacts
  <2> QED BY <1>1, <2>1, <2>2
<1> QED BY <1>3, <1>4, PrimedOrder

\* A request sent behind the others keeps what was before it.
LEMMA SendOrders ==
    ASSUME TypeOK, SentInOrder, [Next]_vars, NEW r \in Requests, Send(r),
           (CanSend /\ r.kind = "put") => \A p \in 1..(r.put - 1) :
               SettledThen(p) \/ \E j \in 1..Len(toServer) : toServer[j] = PutRequest(p)
    PROVE  /\ SentInOrder'
           /\ \A p : (\E j \in 1..Len(toServer) : toServer[j] = PutRequest(p))
                  => \E j \in 1..Len(toServer') : toServer'[j] = PutRequest(p)
           /\ CanSend => \E j \in 1..Len(toServer') : toServer'[j] = r
<1>0. toServer \in Seq(Requests) /\ Len(toServer) \in Nat
  BY LenProperties DEF TypeOK
<1>1. \A i \in 1..Len(toServer) : toServer[i].kind = "put" =>
          \A p \in 1..(toServer[i].put - 1) :
              SettledThen(p) \/ \E j \in 1..(i - 1) : toServer[j] = PutRequest(p)
  BY SettledStays DEF SentInOrder
<1>2. CASE CanSend
  <2>1. /\ Len(toServer') = Len(toServer) + 1 /\ toServer'[Len(toServer) + 1] = r
        /\ \A i \in 1..Len(toServer) : toServer'[i] = toServer[i]
    BY <1>0, <1>2, ElementsAppend DEF Send
  <2>2. ASSUME NEW i \in 1..Len(toServer'), toServer'[i].kind = "put",
               NEW p \in 1..(toServer'[i].put - 1)
        PROVE  SettledThen(p) \/ \E j \in 1..(i - 1) : toServer'[j] = PutRequest(p)
    <3>1. CASE i = Len(toServer) + 1
      <4>1. SettledThen(p) \/ \E j \in 1..Len(toServer) : toServer[j] = PutRequest(p)
        BY <1>2, <2>1, <2>2, <3>1
      <4>2. i - 1 = Len(toServer)
        BY <1>0, <3>1
      <4> QED BY <2>1, <4>1, <4>2
    <3>2. CASE i \in 1..Len(toServer)
      <4>1. SettledThen(p) \/ \E j \in 1..(i - 1) : toServer[j] = PutRequest(p)
        BY <1>1, <2>1, <2>2, <3>2
      <4>2. \A j \in 1..(i - 1) : j \in 1..Len(toServer)
        BY <1>0, <3>2
      <4> QED BY <2>1, <4>1, <4>2
    <3> QED BY <1>0, <2>1, <3>1, <3>2
  <2>3. \A j \in 1..Len(toServer) : j \in 1..Len(toServer')
    BY <1>0, <2>1
  <2>4. Len(toServer) + 1 \in 1..Len(toServer')
    BY <1>0, <2>1
  <2> QED BY <2>1, <2>2, <2>3, <2>4, PrimedOrder
<1>3. CASE ~CanSend
  <2>1. toServer' = toServer
    BY <1>3 DEF Send
  <2> QED BY <1>1, <1>3, <2>1, PrimedOrder
<1> QED BY <1>2, <1>3

LEMMA PutOrders ==
    ASSUME TypeOK, Placed, ReportsBacked, SentInOrder, AllSent, Put
    PROVE  SentInOrder' /\ AllSent'
<1>0. [Next]_vars
  BY DEF Next
<1> DEFINE new == putCounter + 1
<1>1. /\ new \in Puts /\ putCounter \in Nat /\ Send(PutRequest(new))
      /\ PutRequest(new) \in Requests /\ PutRequest(new).kind = "put"
      /\ PutRequest(new).put = new
  BY OutstandingFacts, BoundsAreNat, RequestFacts DEF Put, Puts
<1> HIDE DEF new
<1>2. ASSUME CanSend, NEW p \in 1..(new - 1)
      PROVE  SettledThen(p) \/ \E j \in 1..Len(toServer) : toServer[j] = PutRequest(p)
  <2>1. p \in 1..putCounter
    BY <1>1, <1>2 DEF new
  <2> QED BY <1>0, <1>2, <2>1, NotWaitingIsSettled, SettledStays DEF AllSent, CanSend
<1>3. /\ SentInOrder'
      /\ \A p : (\E j \in 1..Len(toServer) : toServer[j] = PutRequest(p))
             => \E j \in 1..Len(toServer') : toServer'[j] = PutRequest(p)
      /\ CanSend => \E j \in 1..Len(toServer') : toServer'[j] = PutRequest(new)
  BY <1>0, <1>1, <1>2, SendOrders
<1>4. Elements(outstandingPuts') = Elements(outstandingPuts) \cup {new}
  BY <1>1, ElementsAppend DEF TypeOK, Put, new
<1>5. ASSUME CanSend, NEW p \in Elements(outstandingPuts')
      PROVE  SettledThen(p) \/ \E j \in 1..Len(toServer') : toServer'[j] = PutRequest(p)
  <2>1. CASE p = new
    BY <1>3, <1>5, <2>1
  <2>2. CASE p \in Elements(outstandingPuts)
    BY <1>0, <1>3, <1>5, <2>2, SettledStays DEF AllSent, CanSend
  <2> QED BY <1>4, <2>1, <2>2
<1>6. connectionState' = connectionState
  BY DEF Put, client
<1> QED BY <1>3, <1>5, <1>6, PrimedOrder DEF CanSend

\* A request that is served settles its write; no earlier write is behind it.
LEMMA ServeOrders ==
    ASSUME TypeOK, SentInOrder, AllSent, IssueOrder, Serve
    PROVE  SentInOrder' /\ AllSent' /\ IssueOrder'
<1>0. [Next]_vars /\ UNCHANGED <<client, requests>>
  BY DEF Next, Serve
<1>1. toServer \in Seq(Requests) /\ Len(toServer) \in Nat
  BY LenProperties DEF TypeOK
<1>2. PICK n \in 1..Len(toServer) :
          /\ toServer[n] \in Requests
          /\ \A j \in 1..(n - 1) : Topic(toServer[j]) # Topic(toServer[n])
          /\ toServer' = Drop(toServer, n)
          /\ Served(toServer[n])
  BY ServeFacts
<1>3. /\ Len(toServer') = Len(toServer) - 1
      /\ \A k \in 1..(Len(toServer) - 1) :
            toServer'[k] = IF k < n THEN toServer[k] ELSE toServer[k + 1]
  BY <1>1, <1>2, DropFacts
\* The request of p stays on the wire, as far forward, unless it was served.
<1>4. ASSUME NEW p, NEW j \in 1..Len(toServer), toServer[j] = PutRequest(p), j # n
      PROVE  \E k \in 1..Len(toServer') : /\ k <= j /\ (j > n => k < j)
                                          /\ toServer'[k] = PutRequest(p)
  <2>1. CASE j < n
    BY <1>1, <1>3, <1>4, <2>1
  <2>2. CASE j > n
    <3>1. j - 1 \in 1..(Len(toServer) - 1) /\ ~(j - 1 < n) /\ (j - 1) + 1 = j
      BY <1>1, <2>2
    <3>2. toServer'[j - 1] = PutRequest(p)
      BY <1>3, <1>4, <3>1
    <3>3. j - 1 \in 1..Len(toServer') /\ j - 1 <= j /\ j - 1 < j
      BY <1>3, <3>1
    <3> QED BY <3>2, <3>3
  <2> QED BY <1>1, <1>4, <2>1, <2>2
<1>5. ASSUME NEW p, toServer[n] = PutRequest(p)
      PROVE  SettledThen(p)
  <2>1. toServer[n].kind = "put" /\ toServer[n].put = p /\ toServer[n].put \in Puts
    BY <1>2, <1>5, RequestKinds DEF PutRequest
  <2>2. CASE p \in rules.puts
    BY <1>2, <2>2 DEF Served, SettledThen
  <2>3. CASE applied' = Append(applied, p)
    <3>1. p \in 0..MaxPuts
      BY <2>1, BoundsAreNat DEF Puts
    <3> QED BY <2>3, <3>1, StoredAppend DEF SettledThen
  <2> QED BY <1>2, <2>1, <2>2, <2>3 DEF Served
<1>6. SentInOrder'
  <2>1. ASSUME NEW i \in 1..Len(toServer'), toServer'[i].kind = "put",
               NEW p \in 1..(toServer'[i].put - 1)
        PROVE  SettledThen(p) \/ \E k \in 1..(i - 1) : toServer'[k] = PutRequest(p)
    <3>1. PICK m \in 1..Len(toServer) : /\ toServer'[i] = toServer[m]
                                        /\ m = IF i < n THEN i ELSE i + 1
      BY <1>1, <1>3
    <3>2. SettledThen(p) \/ \E j \in 1..(m - 1) : toServer[j] = PutRequest(p)
      BY <1>0, <2>1, <3>1, SettledStays DEF SentInOrder
    <3>3. ASSUME NEW j \in 1..(m - 1), toServer[j] = PutRequest(p), j # n
          PROVE  \E k \in 1..(i - 1) : toServer'[k] = PutRequest(p)
      <4>1. j \in 1..Len(toServer)
        BY <1>1
      <4>2. PICK k \in 1..Len(toServer') : /\ k <= j /\ (j > n => k < j)
                                           /\ toServer'[k] = PutRequest(p)
        BY <1>4, <3>3, <4>1
      <4>3. k <= i - 1
        BY <1>1, <1>3, <3>1, <3>3, <4>2
      <4> QED BY <1>1, <1>3, <4>2, <4>3
    <3> QED BY <1>5, <3>2, <3>3
  <2> QED BY <2>1, PrimedOrder
<1>7. AllSent'
  <2>1. ASSUME connectionState = "connected", NEW p \in Elements(outstandingPuts)
        PROVE  SettledThen(p) \/ \E k \in 1..Len(toServer') : toServer'[k] = PutRequest(p)
    BY <1>0, <1>4, <1>5, <2>1, SettledStays DEF AllSent
  <2> QED BY <1>0, <2>1, PrimedOrder DEF client, requests
<1>8. IssueOrder'
  <2>0. applied \in Seq(0..MaxPuts) /\ Len(applied) \in Nat /\ UNCHANGED <<rules, completed>>
    BY <1>0, <1>2, LenProperties DEF TypeOK, Served, requests
  <2>1. CASE UNCHANGED applied
    BY <2>0, <2>1 DEF IssueOrder, Elements, Completion
  <2>2. CASE toServer[n].kind = "put" /\ applied' = Append(applied, toServer[n].put)
    <3>1. toServer[n].put \in Puts /\ toServer[n].put \in 0..MaxPuts
      BY <1>2, <2>2, RequestKinds, BoundsAreNat DEF Puts
    <3>2. /\ Len(applied') = Len(applied) + 1
          /\ applied'[Len(applied) + 1] = toServer[n].put
          /\ \A i \in 1..Len(applied) : applied'[i] = applied[i]
      BY <2>0, <2>2, <3>1, AppendProperties
    <3>3. ASSUME NEW p \in 1..(toServer[n].put - 1)
          PROVE  Settled(p)
      <4>1. ASSUME NEW j \in 1..(n - 1), toServer[j] = PutRequest(p) PROVE FALSE
        <5>1. Topic(toServer[j]) = "puts" /\ Topic(toServer[n]) = "puts"
          BY <2>2, <4>1 DEF Topic, PutRequest
        <5> QED BY <1>2, <5>1
      <4> QED BY <2>2, <4>1 DEF SentInOrder
    <3>4. ASSUME NEW i \in 1..Len(applied'), NEW p \in 1..(applied'[i] - 1)
          PROVE  \/ \E j \in 1..i : applied'[j] = p
                 \/ p \in rules.puts
                 \/ Completion(p, "canceled") \in Elements(completed)
      <4>1. CASE i \in 1..Len(applied)
        <5>1. \/ \E j \in 1..i : applied[j] = p
              \/ p \in rules.puts
              \/ Completion(p, "canceled") \in Elements(completed)
          BY <3>2, <3>4, <4>1 DEF IssueOrder
        <5>2. \A j \in 1..i : j \in 1..Len(applied)
          BY <2>0, <4>1
        <5> QED BY <3>2, <5>1, <5>2
      <4>2. CASE i = Len(applied) + 1
        <5>1. Settled(p)
          BY <3>2, <3>3, <3>4, <4>2
        <5>2. ASSUME p \in Stored PROVE \E j \in 1..i : applied'[j] = p
          <6>1. PICK j \in 1..Len(applied) : applied[j] = p
            BY <5>2 DEF Stored, Elements
          <6>2. j \in 1..i
            BY <2>0, <4>2
          <6> QED BY <3>2, <6>1, <6>2
        <5> QED BY <5>1, <5>2 DEF Settled
      <4> QED BY <2>0, <3>2, <4>1, <4>2
    <3> QED BY <2>0, <3>4 DEF IssueOrder, Elements, Completion
  <2> QED BY <1>2, <2>1, <2>2 DEF Served
<1> QED BY <1>6, <1>7, <1>8

LEMMA OrderInit == Init => OrderInv
BY DEF Init, OrderInv, OutstandingSorted, SentInOrder, AllSent, IssueOrder

LEMMA OrderStep ==
    ASSUME TypeOK, TypeOK', Placed, ReportsBacked, OrderInv, [Next]_vars
    PROVE  OrderInv'
<1>0. OutstandingSorted /\ SentInOrder /\ AllSent /\ IssueOrder /\ OutstandingSorted'
  BY SortedStep DEF OrderInv
<1>1. SentInOrder' /\ AllSent'
  <2>1. CASE toServer' = <<>> /\ connectionState' # "connected"
    BY <2>1, PrimedOrder
  <2>2. CASE Handshake
    BY <1>0, <2>2, HandshakeOrders
  <2>3. CASE Serve
    BY <1>0, <2>3, ServeOrders
  <2>4. CASE Put
    BY <1>0, <2>4, PutOrders
  <2>5. ASSUME NEW r \in Requests, r.kind # "put", Send(r),
               UNCHANGED <<connectionState, outstandingPuts>>
        PROVE  SentInOrder' /\ AllSent'
    <3>1. /\ SentInOrder'
          /\ \A p : (\E j \in 1..Len(toServer) : toServer[j] = PutRequest(p))
                 => \E j \in 1..Len(toServer') : toServer'[j] = PutRequest(p)
      BY <1>0, <2>5, SendOrders
    <3>2. ASSUME connectionState' = "connected", NEW p \in Elements(outstandingPuts')
          PROVE  SettledThen(p) \/ \E j \in 1..Len(toServer') : toServer'[j] = PutRequest(p)
      BY <1>0, <2>5, <3>1, <3>2, SettledStays DEF AllSent
    <3> QED BY <3>1, <3>2, PrimedOrder
  <2>6. CASE /\ UNCHANGED toServer
             /\ connectionState' \in {connectionState, "disconnected", "connecting"}
             /\ Elements(outstandingPuts') \subseteq Elements(outstandingPuts)
    <3>1. ASSUME NEW i \in 1..Len(toServer'), toServer'[i].kind = "put",
                 NEW p \in 1..(toServer'[i].put - 1)
          PROVE  SettledThen(p) \/ \E j \in 1..(i - 1) : toServer'[j] = PutRequest(p)
      BY <1>0, <2>6, <3>1, SettledStays DEF SentInOrder
    <3>2. ASSUME connectionState' = "connected", NEW p \in Elements(outstandingPuts')
          PROVE  SettledThen(p) \/ \E j \in 1..Len(toServer') : toServer'[j] = PutRequest(p)
      BY <1>0, <2>6, <3>2, SettledStays DEF AllSent
    <3> QED BY <3>1, <3>2, PrimedOrder
  <2> QED BY <2>1, <2>2, <2>3, <2>4, <2>5, <2>6, WireKinds
<1>2. IssueOrder'
  <2>0. /\ rules' = rules
        /\ \A x : x \in Elements(completed) => x \in Elements(completed')
    BY Grows
  <2>1. CASE Serve
    BY <1>0, <2>1, ServeOrders
  <2>2. CASE UNCHANGED applied
    BY <1>0, <2>0, <2>2 DEF IssueOrder, Elements, Completion
  <2>3. CASE OtherPhoneWrites
    <3>1. applied' = Append(applied, 0) /\ UNCHANGED completed
      BY <2>3, OtherFacts DEF OtherPhoneWrites, requests
    <3>2. applied \in Seq(0..MaxPuts) /\ Len(applied) \in Nat /\ 0 \in 0..MaxPuts
      BY LenProperties, BoundsAreNat DEF TypeOK
    <3>3. /\ Len(applied') = Len(applied) + 1 /\ applied'[Len(applied) + 1] = 0
          /\ \A i \in 1..Len(applied) : applied'[i] = applied[i]
      BY <3>1, <3>2, AppendProperties
    <3>4. ASSUME NEW i \in 1..Len(applied'), NEW p \in 1..(applied'[i] - 1)
          PROVE  \/ \E j \in 1..i : applied'[j] = p
                 \/ p \in rules.puts
                 \/ Completion(p, "canceled") \in Elements(completed)
      <4>1. i \in 1..Len(applied)
        BY <3>2, <3>3, <3>4
      <4>2. \/ \E j \in 1..i : applied[j] = p
            \/ p \in rules.puts
            \/ Completion(p, "canceled") \in Elements(completed)
        BY <1>0, <3>3, <3>4, <4>1 DEF IssueOrder
      <4>3. \A j \in 1..i : j \in 1..Len(applied)
        BY <3>2, <4>1
      <4> QED BY <3>3, <4>2, <4>3
    <3> QED BY <2>0, <3>1, <3>4 DEF IssueOrder, Elements, Completion
  <2> QED BY <2>1, <2>2, <2>3
          DEF Next, vars, server, RetryFires, Handshake, ConnectionLost, Interrupt,
              OnKill, InterruptForReason, OnDisconnect, Resume, ResumeForReason,
              Reachable, Listen, Unlisten, Put, Purge, Revoke, PutAnswered,
              ListenAnswered, DataReceived, OnListenRevoked
<1> QED BY <1>0, <1>1, <1>2 DEF OrderInv

\* The server sees the writes of a phone in the order of issue, however often
\* they are sent again.
THEOREM WritesKeepTheirOrder == DBSpec => []IssueOrder
<1>1. /\ TypeOK /\ TypeOK' /\ Placed /\ BackedInv /\ OrderInv /\ [Next]_vars => OrderInv'
      /\ OrderInv => IssueOrder
  BY OrderStep DEF BackedInv, OrderInv
<1>2. Spec => []IssueOrder
  BY <1>1, OrderInit, ConnectionTyped, OnceInvariant, BackedInvariant, PTL DEF Spec
<1> QED BY <1>2, DatabaseUsesConnection, PTL

-----------------------------------------------------------------------------
(* What the app sees is well typed.                                        *)

SyncTyped ==
    /\ complete \subseteq Queries
    /\ serverCache \in [Queries -> Values]
    /\ allWrites \subseteq Puts
    /\ crashed \in BOOLEAN

LEMMA ForgetTyped ==
    ASSUME SyncTyped, NEW queries, ForgetViews(queries)
    PROVE  complete' \subseteq Queries /\ serverCache' \in [Queries -> Values]
BY DEF SyncTyped, ForgetViews, Values

LEMMA SyncStep ==
    ASSUME TypeOK, TypeOK', SyncTyped, [DBNext]_dbVars
    PROVE  SyncTyped'
<1>1. CASE UNCHANGED syncTree
  BY <1>1 DEF syncTree, SyncTyped
<1>2. ASSUME NEW q \in Queries, Unobserve(q) PROVE SyncTyped'
  BY <1>2, ForgetTyped DEF Unobserve, SyncTyped
<1>3. CASE Set
  <2>1. putCounter \in 0..MaxPuts /\ MaxPuts \in Nat
    BY BoundsAreNat DEF TypeOK
  <2>2. putCounter' \in Puts
    BY <1>3, <2>1 DEF Set, Put, Puts
  <2> QED BY <1>3, <2>2 DEF Set, SyncTyped
<1>4. CASE WriteAnswered
  BY <1>4 DEF WriteAnswered, AckWrites, SyncTyped
<1>5. CASE ObserveAnswered
  BY <1>5, ForgetTyped DEF ObserveAnswered, AckWrites, SyncTyped
<1>6. CASE DataUpdate
  <2>1. Head(fromServer) \in Messages /\ Head(fromServer).kind = "data"
    BY <1>6, HearsFacts DEF DataUpdate, DataReceived
  <2>2. Head(fromServer).query \in Queries /\ Head(fromServer).value \in Values
    BY <2>1, MessageKinds
  <2> QED BY <1>6, <2>2 DEF DataUpdate, SyncTyped
<1>7. CASE ObserveRevoked
  BY <1>7, ForgetTyped DEF ObserveRevoked, SyncTyped
<1>8. CASE PurgeOutstandingWrites
  BY <1>8 DEF PurgeOutstandingWrites, SyncTyped
<1> QED BY <1>1, <1>2, <1>3, <1>4, <1>5, <1>6, <1>7, <1>8
        DEF DBNext, dbVars, ConnectionOnly, Observe

\* The connection and the tree of views above it are well typed, in every state.
THEOREM DatabaseTyped == DBSpec => []DBTypeOK
<1>1. DBInit => SyncTyped
  BY DEF DBInit, SyncTyped, Values
<1>2. TypeOK /\ TypeOK' /\ SyncTyped /\ [DBNext]_dbVars => SyncTyped'
  BY SyncStep
<1>3. DBSpec => []TypeOK
  BY ConnectionTyped, DatabaseUsesConnection, PTL
<1>4. TypeOK /\ SyncTyped => DBTypeOK
  BY DEF SyncTyped, DBTypeOK
<1> QED BY <1>1, <1>2, <1>3, <1>4, PTL DEF DBSpec

-----------------------------------------------------------------------------
(* The count of unanswered listens.                                        *)

\* How many elements of s are in T.
Places(s, T) == {i \in 1..Len(s) : s[i] \in T}
Many(s, T) == Cardinality(Places(s, T))

LEMMA ManyIsNat ==
    ASSUME NEW S, NEW s \in Seq(S), NEW T
    PROVE  IsFiniteSet(Places(s, T)) /\ Many(s, T) \in Nat
<1>1. Len(s) \in Nat /\ Places(s, T) \subseteq 1..Len(s)
  BY LenProperties DEF Places
<1>2. IsFiniteSet(1..Len(s))
  BY <1>1, FS_Interval
<1>3. IsFiniteSet(Places(s, T))
  BY <1>1, <1>2, FS_Subset
<1> QED BY <1>3, FS_CardinalityType DEF Many

LEMMA ManyNone ==
    ASSUME NEW S, NEW s \in Seq(S), NEW T, \A i \in 1..Len(s) : s[i] \notin T
    PROVE  Many(s, T) = 0
<1>1. Places(s, T) = {}
  BY DEF Places
<1> QED BY <1>1, FS_EmptySet DEF Many

LEMMA ManyAll ==
    ASSUME NEW S, NEW s \in Seq(S), NEW T, \A i \in 1..Len(s) : s[i] \in T
    PROVE  Many(s, T) = Len(s)
<1>1. Places(s, T) = 1..Len(s) /\ Len(s) \in Nat
  BY LenProperties DEF Places
<1>2. Cardinality(1..Len(s)) = Len(s)
  <2>1. Cardinality(1..Len(s)) = IF 1 > Len(s) THEN 0 ELSE Len(s) - 1 + 1
    BY <1>1, FS_Interval
  <2> QED BY <1>1, <2>1
<1> QED BY <1>1, <1>2 DEF Many

LEMMA ManyOne ==
    ASSUME NEW S, NEW x \in S, NEW T
    PROVE  /\ <<x>> \in Seq(S)
           /\ Many(<<x>>, T) = IF x \in T THEN 1 ELSE 0
<1>1. <<x>> \in Seq(S) /\ Len(<<x>>) = 1 /\ <<x>>[1] = x
  OBVIOUS
<1>2. \A i \in 1..Len(<<x>>) : <<x>>[i] = x
  BY <1>1
<1>3. CASE x \in T
  BY <1>1, <1>2, <1>3, ManyAll
<1>4. CASE x \notin T
  BY <1>1, <1>2, <1>4, ManyNone
<1> QED BY <1>1, <1>3, <1>4

\* A concatenation has as many as its parts.
LEMMA ManyConcat ==
    ASSUME NEW S, NEW s \in Seq(S), NEW t \in Seq(S), NEW T
    PROVE  s \o t \in Seq(S) /\ Many(s \o t, T) = Many(s, T) + Many(t, T)
<1> DEFINE n == Len(s)
           A == Places(s, T)
           B == Places(t, T)
           shifted == {i \in (n + 1)..(n + Len(t)) : t[i - n] \in T}
           f == [i \in B |-> i + n]
<1>1. /\ s \o t \in Seq(S) /\ Len(s \o t) = n + Len(t)
      /\ \A i \in 1..(n + Len(t)) :
            (s \o t)[i] = IF i <= n THEN s[i] ELSE t[i - n]
      /\ n \in Nat /\ Len(t) \in Nat
  BY ConcatProperties, LenProperties
<1>2. f \in Bijection(B, shifted)
  <2>1. \A i \in B : i \in Int /\ i + n \in (n + 1)..(n + Len(t)) /\ (i + n) - n = i
    BY <1>1 DEF Places
  <2>2. f \in [B -> shifted]
    BY <2>1 DEF Places
  <2>3. \A i, j \in B : f[i] = f[j] => i = j
    <3> SUFFICES ASSUME NEW i \in B, NEW j \in B, i + n = j + n PROVE i = j
      OBVIOUS
    <3> QED BY <1>1, <2>1
  <2>4. ASSUME NEW k \in shifted PROVE \E i \in B : f[i] = k
    <3>1. k - n \in 1..Len(t) /\ t[k - n] \in T /\ (k - n) + n = k
      BY <1>1
    <3>2. k - n \in B
      BY <3>1 DEF Places
    <3> QED BY <3>1, <3>2
  <2> HIDE DEF f, shifted, B
  <2>5. f \in Injection(B, shifted)
    BY <2>2, <2>3, Fun_IsInj
  <2>6. f \in Surjection(B, shifted)
    BY <2>2, <2>4, Fun_IsSurj
  <2> QED BY <2>5, <2>6 DEF Bijection
<1>3. IsFiniteSet(A) /\ IsFiniteSet(B)
  BY ManyIsNat
<1> HIDE DEF f
<1>4. IsFiniteSet(shifted) /\ Cardinality(shifted) = Cardinality(B)
  <2>1. ExistsBijection(B, shifted)
    BY <1>2 DEF ExistsBijection
  <2> QED BY <1>3, <2>1, FS_Bijection
<1>5. Places(s \o t, T) = A \cup shifted
  <2>1. ASSUME NEW i \in 1..n
        PROVE  i \in 1..(n + Len(t)) /\ (s \o t)[i] = s[i]
    BY <1>1
  <2>2. ASSUME NEW i \in (n + 1)..(n + Len(t))
        PROVE  i \in 1..(n + Len(t)) /\ (s \o t)[i] = t[i - n]
    BY <1>1
  <2>3. \A i \in 1..(n + Len(t)) : i \in 1..n \/ i \in (n + 1)..(n + Len(t))
    BY <1>1
  <2> QED BY <1>1, <2>1, <2>2, <2>3 DEF Places
<1>6. A \cap shifted = {}
  BY <1>1 DEF Places
<1> HIDE DEF A, B, shifted
<1>7. Cardinality(A \cup shifted) = Cardinality(A) + Cardinality(shifted)
  <2>1. Cardinality(A \cup shifted)
            = Cardinality(A) + Cardinality(shifted) - Cardinality(A \cap shifted)
    BY <1>3, <1>4, FS_Union
  <2>2. Cardinality(A \cap shifted) = 0
    BY <1>6, FS_EmptySet
  <2>3. Cardinality(A) \in Nat /\ Cardinality(shifted) \in Nat
    BY <1>3, <1>4, FS_CardinalityType
  <2> QED BY <2>1, <2>2, <2>3
<1> QED BY <1>1, <1>4, <1>5, <1>7 DEF Many, A, B

LEMMA ManyAppend ==
    ASSUME NEW S, NEW s \in Seq(S), NEW x \in S, NEW T
    PROVE  Many(Append(s, x), T) = Many(s, T) + (IF x \in T THEN 1 ELSE 0)
<1> DEFINE one == <<x>>
<1>1. Append(s, x) = s \o one
  BY AppendIsConcat
<1>2. one \in Seq(S) /\ Many(one, T) = IF x \in T THEN 1 ELSE 0
  BY ManyOne
<1> HIDE DEF one
<1>3. Many(s \o one, T) = Many(s, T) + Many(one, T)
  BY <1>2, ManyConcat
<1> QED BY <1>1, <1>2, <1>3

\* Taking one element out takes one of its kind.
LEMMA ManyDrop ==
    ASSUME NEW S, NEW s \in Seq(S), NEW i \in 1..Len(s), NEW T
    PROVE  Many(s, T) = Many(Drop(s, i), T) + (IF s[i] \in T THEN 1 ELSE 0)
<1> DEFINE a == SubSeq(s, 1, i - 1)
           b == SubSeq(s, i + 1, Len(s))
           one == <<s[i]>>
<1>0. Len(s) \in Nat /\ i \in Nat /\ \A k \in 1..Len(s) : s[k] \in S
  BY LenProperties, ElementOfSeq
<1>1. a \in Seq(S) /\ b \in Seq(S)
  <2>1. (\A k \in 1..(i - 1) : s[k] \in S) /\ (\A k \in (i + 1)..Len(s) : s[k] \in S)
    BY <1>0
  <2> QED BY <1>0, <2>1, SubSeqProperties
<1>2. SubSeq(s, i, Len(s)) = one \o b
  BY <1>0, SubSeqRecursiveFirst
<1>3. s = a \o SubSeq(s, i, Len(s))
  <2>1. a \o SubSeq(s, (i - 1) + 1, Len(s)) = SubSeq(s, 1, Len(s))
    <3>1. /\ 1 \in 1..(Len(s) + 1) /\ i - 1 \in (1 - 1)..Len(s)
          /\ Len(s) \in (i - 1)..Len(s)
      BY <1>0
    <3> QED BY <3>1, ConcatAdjacentSubSeq
  <2>2. (i - 1) + 1 = i
    BY <1>0
  <2> QED BY <2>1, <2>2, SubSeqFull
<1>4. Drop(s, i) = a \o b
  BY DEF Drop
<1>5. s[i] \in S
  BY <1>0
<1>6. one \in Seq(S) /\ Many(one, T) = IF s[i] \in T THEN 1 ELSE 0
  BY <1>5, ManyOne
<1> HIDE DEF a, b, one
<1>7. /\ one \o b \in Seq(S)
      /\ Many(one \o b, T) = Many(one, T) + Many(b, T)
  BY <1>1, <1>6, ManyConcat
<1>8. Many(s, T) = Many(a, T) + (Many(one, T) + Many(b, T))
  <2>1. s = a \o (one \o b)
    BY <1>2, <1>3
  <2> DEFINE rest == one \o b
  <2>2. rest \in Seq(S) /\ s = a \o rest
    BY <1>7, <2>1
  <2> HIDE DEF rest
  <2>3. Many(a \o rest, T) = Many(a, T) + Many(rest, T)
    BY <1>1, <2>2, ManyConcat
  <2> QED BY <1>7, <2>2, <2>3 DEF rest
<1>9. Many(Drop(s, i), T) = Many(a, T) + Many(b, T)
  BY <1>1, <1>4, ManyConcat
<1>10. Many(a, T) \in Nat /\ Many(b, T) \in Nat
  BY <1>1, ManyIsNat
<1> QED BY <1>6, <1>8, <1>9, <1>10

LEMMA ManyTail ==
    ASSUME NEW S, NEW s \in Seq(S), s # <<>>, NEW T
    PROVE  Many(s, T) = Many(Tail(s), T) + (IF Head(s) \in T THEN 1 ELSE 0)
<1> DEFINE one == <<s[1]>>
<1>1. Len(s) \in Nat \ {0}
  BY EmptySeq
<1>2. SubSeq(s, 1, Len(s)) = one \o SubSeq(s, 1 + 1, Len(s))
  BY <1>1, SubSeqRecursiveFirst
<1>3. s = one \o Tail(s) /\ Head(s) = s[1] /\ Head(s) \in S /\ Tail(s) \in Seq(S)
  BY <1>2, SubSeqFull, TailIsSubSeq, ElementsTail
<1>4. Many(s, T) = Many(one, T) + Many(Tail(s), T)
  <2>1. one \in Seq(S)
    BY <1>3, ManyOne
  <2> DEFINE rest == Tail(s)
  <2>2. rest \in Seq(S) /\ s = one \o rest
    BY <1>3
  <2> HIDE DEF one, rest
  <2>3. Many(one \o rest, T) = Many(one, T) + Many(rest, T)
    BY <2>1, <2>2, ManyConcat
  <2> QED BY <2>2, <2>3 DEF rest
<1>5. Many(Tail(s), T) \in Nat
  BY <1>3, ManyIsNat
<1>6. Many(one, T) = IF Head(s) \in T THEN 1 ELSE 0
  BY <1>3, ManyOne
<1> QED BY <1>4, <1>5, <1>6

ListenRequests == {r \in Requests : r.kind = "listen"}
ListenAnswers == {m \in Messages : m.kind = "answer" /\ m.to.kind = "listen"}
OnWire == Many(toServer, ListenRequests) + Many(fromServer, ListenAnswers)

\* Without a connection there is no wire.
WireIsOpen ==
    connectionState # "connected" => toServer = <<>> /\ fromServer = <<>> /\ serving = {}

ListensInv == unackedListensCount = OnWire /\ WireIsOpen

LEMMA WireCounts == TypeOK => ListensOnWire = OnWire
<1> SUFFICES ASSUME TypeOK PROVE ListensOnWire = OnWire
  OBVIOUS
<1>1. /\ \A i \in 1..Len(toServer) : toServer[i] \in Requests
      /\ \A i \in 1..Len(fromServer) : fromServer[i] \in Messages
  BY ElementOfSeq DEF TypeOK
<1>2. {i \in 1..Len(toServer) : toServer[i].kind = "listen"}
          = Places(toServer, ListenRequests)
  BY <1>1 DEF Places, ListenRequests
<1>3. {i \in 1..Len(fromServer) :
          fromServer[i].kind = "answer" /\ fromServer[i].to.kind = "listen"}
          = Places(fromServer, ListenAnswers)
  BY <1>1 DEF Places, ListenAnswers
<1> QED BY <1>2, <1>3 DEF ListensOnWire, OnWire, Many

LEMMA EmptyWire == \A T : Many(<<>>, T) = 0
<1> TAKE T
<1>1. Places(<<>>, T) = {}
  BY DEF Places
<1> QED BY <1>1, FS_EmptySet DEF Many

\* A message that is no answer to a listen does not count.
LEMMA OtherMessages ==
    ASSUME NEW s \in Seq(Messages), NEW m \in Messages, m \notin ListenAnswers
    PROVE  Many(Append(s, m), ListenAnswers) = Many(s, ListenAnswers)
BY ManyAppend, ManyIsNat

LEMMA PushesCount ==
    ASSUME TypeOK, NEW value \in Values, NEW pushes \in Pushes(value)
    PROVE  /\ fromServer \o pushes \in Seq(Messages)
           /\ Many(fromServer \o pushes, ListenAnswers) = Many(fromServer, ListenAnswers)
<1>1. pushes \in Seq(Messages) /\ \A m \in Elements(pushes) : m.kind = "data"
  BY PushesFacts
<1>2. \A i \in 1..Len(pushes) : pushes[i] \notin ListenAnswers
  BY <1>1 DEF Elements, ListenAnswers
<1>3. Many(pushes, ListenAnswers) = 0
  BY <1>1, <1>2, ManyNone
<1>4. fromServer \in Seq(Messages) /\ Many(fromServer, ListenAnswers) \in Nat
  BY ManyIsNat DEF TypeOK
<1> QED BY <1>1, <1>3, <1>4, ManyConcat

\* Serving a listen puts its answer on the wire, serving anything else none.
LEMMA ServeCounts ==
    ASSUME TypeOK, NEW r \in Requests,
           \/ r.kind = "put" /\ ServePut(r.put)
           \/ r.kind = "listen" /\ ServeListen(r)
           \/ r.kind = "unlisten" /\ ServeUnlisten(r.query)
    PROVE  Many(fromServer', ListenAnswers)
               = Many(fromServer, ListenAnswers) + (IF r.kind = "listen" THEN 1 ELSE 0)
<1>0. fromServer \in Seq(Messages) /\ Many(fromServer, ListenAnswers) \in Nat
  BY ManyIsNat DEF TypeOK
<1>1. \A status \in {"ok", "denied"} :
         /\ Answer(r, status) \in Messages
         /\ Answer(r, status) \in ListenAnswers <=> r.kind = "listen"
  BY MessageFacts DEF ListenAnswers, Statuses
<1>2. CASE r.kind = "put"
  <2>1. r.put \in Puts /\ r = PutRequest(r.put) /\ Stored \cup {r.put} \in Values
    BY <1>2, RequestKinds, StoredTyped
  <2>2. ASSUME fromServer' = Append(fromServer, Answer(r, "denied"))
        PROVE  Many(fromServer', ListenAnswers) = Many(fromServer, ListenAnswers)
    <3>1. Answer(r, "denied") \in Messages /\ Answer(r, "denied") \notin ListenAnswers
      BY <1>1, <1>2
    <3> QED BY <1>0, <2>2, <3>1, OtherMessages
  <2>3. ASSUME NEW pushes \in Pushes(Stored \cup {r.put}),
               fromServer' = fromServer \o pushes \o <<Answer(r, "ok")>>
        PROVE  Many(fromServer', ListenAnswers) = Many(fromServer, ListenAnswers)
    <3> DEFINE pushed == fromServer \o pushes
               answer == Answer(r, "ok")
    <3>1. pushed \in Seq(Messages) /\ Many(pushed, ListenAnswers) = Many(fromServer, ListenAnswers)
      BY <2>1, PushesCount
    <3>2. answer \in Messages /\ answer \notin ListenAnswers /\ fromServer' = pushed \o <<answer>>
      BY <1>1, <1>2, <2>3
    <3> HIDE DEF pushed, answer
    <3>3. fromServer' = Append(pushed, answer)
      BY <3>1, <3>2, AppendIsConcat
    <3>4. Many(Append(pushed, answer), ListenAnswers) = Many(pushed, ListenAnswers)
      BY <3>1, <3>2, OtherMessages
    <3> QED BY <3>1, <3>3, <3>4
  <2>4. \/ fromServer' = Append(fromServer, Answer(r, "denied"))
        \/ \E pushes \in Pushes(Stored \cup {r.put}) :
              fromServer' = fromServer \o pushes \o <<Answer(r, "ok")>>
    <3>1. ServePut(r.put) /\ PutRequest(r.put) = r
      BY <1>2, <2>1
    <3> QED BY <3>1 DEF ServePut
  <2>5. Many(fromServer', ListenAnswers) = Many(fromServer, ListenAnswers)
    BY <2>2, <2>3, <2>4
  <2> QED BY <1>0, <1>2, <2>5
<1>3. CASE r.kind = "listen"
  <2>1. r.query \in Queries /\ Data(r.query, Stored) \in Messages
        /\ Data(r.query, Stored) \notin ListenAnswers
    BY <1>3, RequestKinds, StoredTyped, MessageFacts DEF ListenAnswers
  <2>2. CASE fromServer' = Append(fromServer, Answer(r, "denied"))
    <3> DEFINE answer == Answer(r, "denied")
    <3>1. answer \in Messages /\ answer \in ListenAnswers
      BY <1>1, <1>3
    <3>2. fromServer' = Append(fromServer, answer)
      BY <2>2
    <3> HIDE DEF answer
    <3>3. Many(Append(fromServer, answer), ListenAnswers)
              = Many(fromServer, ListenAnswers) + 1
      BY <1>0, <3>1, ManyAppend
    <3> QED BY <1>3, <3>2, <3>3
  <2>3. CASE fromServer' = fromServer \o <<Data(r.query, Stored), Answer(r, "ok")>>
    <3> DEFINE data == Data(r.query, Stored)
               answer == Answer(r, "ok")
               pair == Append(<<data>>, answer)
    <3>1. <<data>> \in Seq(Messages) /\ Many(<<data>>, ListenAnswers) = 0
      BY <2>1, ManyOne
    <3>2. answer \in Messages /\ answer \in ListenAnswers
      BY <1>1, <1>3
    <3>3. pair \in Seq(Messages)
      BY <3>1, <3>2, AppendProperties
    <3>4. fromServer' = fromServer \o pair
      BY <2>3
    <3> DEFINE first == <<data>>
    <3>5. first \in Seq(Messages) /\ Many(first, ListenAnswers) = 0
          /\ pair = Append(first, answer)
      BY <3>1
    <3> HIDE DEF first, data, answer
    <3>6. Many(pair, ListenAnswers) = 1
      BY <3>2, <3>5, ManyAppend
    <3> HIDE DEF pair
    <3>7. Many(fromServer \o pair, ListenAnswers)
              = Many(fromServer, ListenAnswers) + Many(pair, ListenAnswers)
      BY <1>0, <3>3, ManyConcat
    <3> QED BY <1>3, <3>4, <3>6, <3>7
  <2> QED BY <1>3, <2>2, <2>3 DEF ServeListen
<1>4. CASE r.kind = "unlisten"
  BY <1>0, <1>4 DEF ServeUnlisten
<1> QED BY <1>2, <1>3, <1>4

LEMMA WireStep ==
    ASSUME TypeOK, RetryExactlyWhenIdle, WireIsOpen, [Next]_vars
    PROVE  WireIsOpen'
<1> USE DEF WireIsOpen
<1>1. CASE UNCHANGED <<connectionState, wire, serving>>
  BY <1>1 DEF wire
<1>2. CASE RetryFires
  BY <1>2 DEF RetryFires, RetryExactlyWhenIdle, wire, server
<1>3. CASE connectionState' = "connected"
  BY <1>3
<1>4. CASE ConnectionLost \/ Interrupt \/ OnKill
  BY <1>4 DEF ConnectionLost, Interrupt, OnKill, InterruptForReason, OnDisconnect,
              RetryExactlyWhenIdle, InStep, wire, server
<1>5. CASE /\ connectionState # "connected"
           /\ Serve \/ OtherPhoneWrites \/ \E q \in Queries : Revoke(q)
  <2>1. toServer = <<>> /\ fromServer = <<>> /\ serving = {}
    BY <1>5
  <2>2. ~Serve /\ \A q \in Queries : ~Revoke(q)
    <3>1. 1..Len(toServer) = {}
      BY <2>1
    <3> QED BY <2>1, <3>1 DEF Serve, Revoke
  <2>3. PICK pushes \in Pushes(Stored \cup {0}) : fromServer' = fromServer \o pushes
    BY <1>5, <2>2 DEF OtherPhoneWrites
  <2>4. pushes = <<>>
    <3>1. Cardinality(serving) = 0
      BY <2>1, FS_EmptySet
    <3>2. pushes \in [1..0 -> [kind : {"data"}, query : serving, value : {Stored \cup {0}}]]
      BY <3>1 DEF Pushes
    <3>3. pushes \in Seq(Messages) /\ Len(pushes) = 0
      <4>1. pushes \in Seq(Messages)
        BY StoredTyped, PushesFacts
      <4> QED BY <3>2, <4>1, LenProperties
    <3> QED BY <3>3, EmptySeq
  <2> QED BY <1>5, <2>1, <2>2, <2>3, <2>4 DEF OtherPhoneWrites, client
<1>6. CASE /\ connectionState # "connected"
           /\ \/ \E q \in Queries : Listen(q) \/ Unlisten(q)
              \/ Put
  BY <1>6 DEF Listen, Unlisten, Put, Send, CanSend, client, server
<1>7. CASE /\ connectionState # "connected"
           /\ PutAnswered \/ ListenAnswered \/ DataReceived \/ OnListenRevoked
  BY <1>7 DEF PutAnswered, ListenAnswered, DataReceived, OnListenRevoked, HearsAnswer, Hears
<1>8. CASE Serve \/ OtherPhoneWrites \/ \E q \in Queries : Revoke(q)
  BY <1>3, <1>5, <1>8 DEF Serve, OtherPhoneWrites, Revoke, client
<1>9. CASE \/ \E q \in Queries : Listen(q) \/ Unlisten(q)
           \/ Put
           \/ PutAnswered \/ ListenAnswered \/ DataReceived \/ OnListenRevoked
  BY <1>3, <1>6, <1>7, <1>9
     DEF Listen, Unlisten, Put, PutAnswered, ListenAnswered, DataReceived,
         OnListenRevoked, client
<1>10. CASE Handshake
  BY <1>3, <1>10 DEF Handshake
<1>11. CASE Resume \/ Reachable \/ Purge \/ UNCHANGED vars
  BY <1>1, <1>11 DEF Resume, ResumeForReason, Reachable, Purge, vars, client, server
<1> QED BY <1>2, <1>4, <1>8, <1>9, <1>10, <1>11 DEF Next

\* What a message says is counted off when it is heard.
LEMMA HearCounts ==
    ASSUME TypeOK, NEW kind, Hears(kind)
    PROVE  Many(fromServer, ListenAnswers) = Many(fromServer', ListenAnswers)
               + (IF Head(fromServer) \in ListenAnswers THEN 1 ELSE 0)
<1>1. fromServer \in Seq(Messages) /\ fromServer # <<>> /\ fromServer' = Tail(fromServer)
  BY DEF TypeOK, Hears
<1> QED BY <1>1, ManyTail

LEMMA SendCounts ==
    ASSUME TypeOK, NEW r \in Requests, Send(r)
    PROVE  Many(toServer', ListenRequests) = Many(toServer, ListenRequests)
               + (IF CanSend /\ r.kind = "listen" THEN 1 ELSE 0)
<1>1. toServer \in Seq(Requests) /\ Many(toServer, ListenRequests) \in Nat
  BY ManyIsNat DEF TypeOK
<1>2. r \in ListenRequests <=> r.kind = "listen"
  BY DEF ListenRequests
<1>3. Many(Append(toServer, r), ListenRequests) = Many(toServer, ListenRequests)
          + (IF r \in ListenRequests THEN 1 ELSE 0)
  BY <1>1, ManyAppend
<1> QED BY <1>1, <1>2, <1>3 DEF Send

LEMMA ListensStep ==
    ASSUME TypeOK, RetryExactlyWhenIdle, ListensInv, [Next]_vars
    PROVE  unackedListensCount' = OnWire'
<1> DEFINE requested == Many(toServer, ListenRequests)
           answered == Many(fromServer, ListenAnswers)
<1>0. /\ unackedListensCount = requested + answered
      /\ OnWire' = Many(toServer', ListenRequests) + Many(fromServer', ListenAnswers)
      /\ requested \in Nat /\ answered \in Nat
      /\ WireIsOpen
  BY ManyIsNat DEF ListensInv, OnWire, Many, Places, TypeOK
<1>1. CASE UNCHANGED <<unackedListensCount, wire>>
  BY <1>0, <1>1 DEF wire
<1>2. ASSUME toServer' = <<>>, fromServer' = <<>>, unackedListensCount' = 0
      PROVE  unackedListensCount' = OnWire'
  BY <1>0, <1>2, EmptyWire
<1>3. CASE Handshake
  <2>1. /\ toServer = <<>> /\ fromServer = <<>> /\ fromServer' = fromServer
        /\ \E order \in Orders(Listening) : RestoreState(order)
    BY <1>0, <1>3 DEF Handshake, WireIsOpen, RetryExactlyWhenIdle, InStep
  <2>2. PICK n \in Nat :
            /\ toServer' \in Seq(Requests)
            /\ unackedListensCount' = unackedListensCount + n
            /\ Len(toServer') = n + Len(outstandingPuts)
            /\ \A i \in 1..n : toServer'[i].kind = "listen"
            /\ \A i \in 1..Len(outstandingPuts) :
                  toServer'[n + i] = PutRequest(outstandingPuts[i])
    BY <2>1, RestoreFacts
  <2>3. /\ Len(outstandingPuts) \in Nat
        /\ \A i \in 1..Len(toServer') : toServer'[i] \in Requests
    BY <2>2, LenProperties, ElementOfSeq DEF TypeOK
  <2>4. ASSUME NEW i \in 1..Len(toServer'), i > n
        PROVE  toServer'[i].kind = "put"
    <3>1. i - n \in 1..Len(outstandingPuts) /\ n + (i - n) = i
      BY <2>2, <2>3, <2>4
    <3>2. toServer'[i] = PutRequest(outstandingPuts[i - n])
      BY <2>2, <3>1
    <3> QED BY <3>2 DEF PutRequest
  <2>5. \A i \in 1..n : i \in 1..Len(toServer')
    BY <2>2, <2>3
  <2>6. Places(toServer', ListenRequests) = 1..n
    BY <2>2, <2>3, <2>4, <2>5 DEF Places, ListenRequests
  <2>7. Many(toServer', ListenRequests) = n
    <3>1. Cardinality(1..n) = IF 1 > n THEN 0 ELSE n - 1 + 1
      BY FS_Interval
    <3> QED BY <2>6, <3>1 DEF Many
  <2>8. requested = 0 /\ answered = 0 /\ Many(fromServer', ListenAnswers) = 0
    BY <2>1, EmptyWire
  <2> QED BY <1>0, <2>2, <2>7, <2>8
<1>4. CASE ConnectionLost \/ Interrupt \/ OnKill
  BY <1>1, <1>2, <1>4
     DEF ConnectionLost, Interrupt, OnKill, InterruptForReason, OnDisconnect, requests
<1>5. ASSUME NEW q \in Queries, Listen(q) PROVE unackedListensCount' = OnWire'
  <2>1. /\ Send(ListenRequest(q, listens'[q])) /\ fromServer' = fromServer
        /\ unackedListensCount' = unackedListensCount + (IF CanSend THEN 1 ELSE 0)
    BY <1>5 DEF Listen
  <2>2. /\ ListenRequest(q, listens'[q]) \in Requests
        /\ ListenRequest(q, listens'[q]).kind = "listen"
    BY <1>5, ListenNumber, RequestFacts
  <2>3. Many(toServer', ListenRequests) = requested + (IF CanSend THEN 1 ELSE 0)
    BY <2>1, <2>2, SendCounts
  <2> QED BY <1>0, <2>1, <2>3
<1>6. ASSUME NEW r \in Requests, r.kind # "listen", Send(r),
             UNCHANGED <<unackedListensCount, fromServer>>
      PROVE  unackedListensCount' = OnWire'
  BY <1>0, <1>6, SendCounts
<1>7. CASE Put
  <2>1. putCounter' \in Puts
    BY <1>7, BoundsAreNat DEF Put, Puts, TypeOK
  <2> QED BY <1>6, <1>7, <2>1, RequestFacts DEF Put
<1>8. ASSUME NEW q \in Queries, Unlisten(q) PROVE unackedListensCount' = OnWire'
  BY <1>6, <1>8, RequestFacts DEF Unlisten
<1>9. ASSUME NEW kind, Hears(kind), Head(fromServer) \notin ListenAnswers,
             UNCHANGED <<unackedListensCount, toServer>>
      PROVE  unackedListensCount' = OnWire'
  <2>1. Many(fromServer', ListenAnswers) \in Nat
    BY <1>9, HearsFacts, ManyIsNat
  <2> QED BY <1>0, <1>9, <2>1, HearCounts
<1>10. CASE PutAnswered \/ DataReceived \/ OnListenRevoked
  BY <1>9, <1>10
     DEF PutAnswered, DataReceived, OnListenRevoked, HearsAnswer, Hears, ListenAnswers,
         requests
\* The answer that is counted off is taken off the wire.
<1>11. CASE ListenAnswered
  <2>1. /\ Hears("answer") /\ Head(fromServer).to.kind = "listen"
        /\ unackedListensCount' = unackedListensCount - 1 /\ toServer' = toServer
    BY <1>11 DEF ListenAnswered, HearsAnswer
  <2>2. Head(fromServer) \in ListenAnswers
    BY <2>1, HearsFacts DEF ListenAnswers
  <2>3. Many(fromServer', ListenAnswers) \in Nat
    BY <2>1, HearsFacts, ManyIsNat
  <2>4. answered = Many(fromServer', ListenAnswers) + 1
    BY <2>1, <2>2, HearCounts
  <2> QED BY <1>0, <2>1, <2>3, <2>4
\* The request that is served becomes an answer.
<1>12. CASE Serve
  <2>1. PICK i \in 1..Len(toServer) :
            /\ toServer' = Drop(toServer, i)
            /\ \/ toServer[i].kind = "put" /\ ServePut(toServer[i].put)
               \/ toServer[i].kind = "listen" /\ ServeListen(toServer[i])
               \/ toServer[i].kind = "unlisten" /\ ServeUnlisten(toServer[i].query)
    BY <1>12 DEF Serve
  <2>2. toServer \in Seq(Requests) /\ toServer[i] \in Requests
    BY ElementOfSeq DEF TypeOK
  <2>3. Many(fromServer', ListenAnswers)
            = answered + (IF toServer[i].kind = "listen" THEN 1 ELSE 0)
    BY <2>1, <2>2, ServeCounts
  <2>4. requested = Many(toServer', ListenRequests)
            + (IF toServer[i].kind = "listen" THEN 1 ELSE 0)
    BY <2>1, <2>2, ManyDrop DEF ListenRequests
  <2>5. Many(toServer', ListenRequests) \in Nat /\ unackedListensCount' = unackedListensCount
    BY <1>12, <2>1, <2>2, DropFacts, ManyIsNat DEF Serve, requests
  <2> QED BY <1>0, <2>3, <2>4, <2>5
<1>13. CASE OtherPhoneWrites
  <2>1. PICK pushes \in Pushes(Stored \cup {0}) : fromServer' = fromServer \o pushes
    BY <1>13 DEF OtherPhoneWrites
  <2>2. Many(fromServer', ListenAnswers) = answered
    BY <2>1, StoredTyped, PushesCount
  <2> QED BY <1>0, <1>13, <2>2 DEF OtherPhoneWrites, requests
<1>14. ASSUME NEW q \in Queries, Revoke(q) PROVE unackedListensCount' = OnWire'
  <2>1. Revoked(q) \in Messages /\ Revoked(q) \notin ListenAnswers
    BY MessageFacts DEF ListenAnswers
  <2>2. fromServer' = Append(fromServer, Revoked(q)) /\ UNCHANGED <<requests, toServer>>
    BY <1>14 DEF Revoke
  <2>3. Many(fromServer', ListenAnswers) = answered
    BY <2>1, <2>2, OtherMessages DEF TypeOK
  <2> QED BY <1>0, <2>2, <2>3 DEF requests
<1>15. CASE RetryFires \/ Resume \/ Reachable \/ Purge \/ UNCHANGED vars
  BY <1>1, <1>15
     DEF RetryFires, Resume, ResumeForReason, Reachable, Purge, vars, requests
<1> QED BY <1>3, <1>4, <1>5, <1>7, <1>8, <1>10, <1>11, <1>12, <1>13, <1>14, <1>15 DEF Next

\* The count of unanswered listens never goes wrong, whatever is lost, served late
\* or given up while it is on the wire.
THEOREM ListensAreCounted == DBSpec => []ListensCounted
<1>1. Init => ListensInv
  BY EmptyWire DEF Init, ListensInv, OnWire, WireIsOpen
<1>2. TypeOK /\ RetryExactlyWhenIdle /\ ListensInv /\ [Next]_vars => ListensInv'
  BY WireStep, ListensStep DEF ListensInv
<1>3. Spec => []RetryExactlyWhenIdle
  BY RetryInit, RetryStep, ConnectionTyped, PTL DEF Spec
<1>4. Spec => []ListensInv
  BY <1>1, <1>2, <1>3, ConnectionTyped, PTL DEF Spec
<1>5. TypeOK /\ ListensInv => ListensCounted
  BY WireCounts DEF ListensInv, ListensCounted
<1> QED BY <1>4, <1>5, ConnectionTyped, DatabaseUsesConnection, PTL
==============================================================================
