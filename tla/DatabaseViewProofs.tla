------------------------- MODULE DatabaseViewProofs -------------------------
(***************************************************************************)
(* What the app sees of its writes, for any number of locations, writes,   *)
(* listens and failures.                                                   *)
(*                                                                         *)
(* ShownStaysShown: a write that a view shows is taken back only by a      *)
(* refusal or a purge.  An acknowledgement takes the write from the tree   *)
(* of pending writes, so the view must have it from the server by then.    *)
(* Either it was pushed to a location being watched before its answer      *)
(* (FIFO on the wire, ViewInv), or the listen is still due, and then       *)
(* FPersistentConnection keeps the acknowledgement in putsToAck until the  *)
(* last answer to a listen, which follows the data of that listen.  To say *)
(* that a listen that is due is really on its way takes the numbers of     *)
(* listens, the order of a listen after the unlisten of the same location, *)
(* and what a refusal does: the invariant ListeningInv.                    *)
(*                                                                         *)
(* CrashNeedsPurge: the tree holds exactly the writes the connection has   *)
(* not yet reported, so only a purge makes an acknowledgement miss one.    *)
(*                                                                         *)
(* ImplementsOwnWrites: with these, with data that is newer than the       *)
(* answers it follows, and with the order of issue, each step of Database  *)
(* is a step of OwnWrites or changes nothing of it.                        *)
(***************************************************************************)
EXTENDS DatabaseProofs

(* Sequences that lose or gain elements.                                   *)

LEMMA TailPlaces ==
    ASSUME NEW S, NEW s \in Seq(S), s # <<>>
    PROVE  /\ Len(s) \in Nat \ {0} /\ Len(Tail(s)) = Len(s) - 1 /\ Head(s) = s[1]
           /\ \A i \in 1..Len(Tail(s)) : i + 1 \in 2..Len(s) /\ Tail(s)[i] = s[i + 1]
           /\ \A i \in 2..Len(s) : i - 1 \in 1..Len(Tail(s)) /\ Tail(s)[i - 1] = s[i]
<1>1. /\ Len(s) \in Nat \ {0} /\ Len(Tail(s)) = Len(s) - 1 /\ Head(s) = s[1]
      /\ \A i \in 1..Len(Tail(s)) : Tail(s)[i] = s[i + 1]
  BY HeadTailProperties, EmptySeq
<1>2. \A i \in 1..Len(Tail(s)) : i + 1 \in 2..Len(s)
  BY <1>1
<1>3. ASSUME NEW i \in 2..Len(s)
      PROVE  i - 1 \in 1..Len(Tail(s)) /\ Tail(s)[i - 1] = s[i]
  <2>1. i - 1 \in 1..Len(Tail(s)) /\ (i - 1) + 1 = i
    BY <1>1
  <2> QED BY <1>1, <2>1
<1> QED BY <1>1, <1>2, <1>3

\* Where the others are once one is taken out.
LEMMA DropPlaces ==
    ASSUME NEW S, NEW s \in Seq(S), NEW i \in 1..Len(s)
    PROVE  /\ \A j \in 1..Len(s) : j < i =>
                 j \in 1..Len(Drop(s, i)) /\ Drop(s, i)[j] = s[j]
           /\ \A j \in 1..Len(s) : j > i =>
                 j - 1 \in 1..Len(Drop(s, i)) /\ Drop(s, i)[j - 1] = s[j]
           /\ \A k \in 1..Len(Drop(s, i)) :
                 IF k < i THEN k \in 1..Len(s) /\ Drop(s, i)[k] = s[k]
                          ELSE k + 1 \in 1..Len(s) /\ Drop(s, i)[k] = s[k + 1]
<1>0. Len(s) \in Nat /\ i \in Int /\ Len(Drop(s, i)) = Len(s) - 1
  BY LenProperties, DropFacts
<1>1. ASSUME NEW j \in 1..Len(s), j < i
      PROVE  j \in 1..Len(Drop(s, i)) /\ Drop(s, i)[j] = s[j]
  <2>1. j \in 1..(Len(s) - 1)
    BY <1>0, <1>1
  <2> QED BY <1>0, <1>1, <2>1, DropFacts
<1>2. ASSUME NEW j \in 1..Len(s), j > i
      PROVE  j - 1 \in 1..Len(Drop(s, i)) /\ Drop(s, i)[j - 1] = s[j]
  <2>1. j - 1 \in 1..(Len(s) - 1) /\ ~(j - 1 < i) /\ (j - 1) + 1 = j
    BY <1>0, <1>2
  <2>2. Drop(s, i)[j - 1] = s[(j - 1) + 1]
    BY <2>1, DropFacts
  <2> QED BY <1>0, <2>1, <2>2
<1>3. ASSUME NEW k \in 1..Len(Drop(s, i))
      PROVE  IF k < i THEN k \in 1..Len(s) /\ Drop(s, i)[k] = s[k]
                      ELSE k + 1 \in 1..Len(s) /\ Drop(s, i)[k] = s[k + 1]
  <2>1. k \in 1..(Len(s) - 1) /\ k \in 1..Len(s) /\ k + 1 \in 1..Len(s)
    BY <1>0
  <2> QED BY <2>1, DropFacts
<1> QED BY <1>1, <1>2, <1>3

\* An enumeration of a finite set misses nothing.
LEMMA OrdersCover ==
    ASSUME NEW S, IsFiniteSet(S), NEW s \in Orders(S)
    PROVE  /\ Cardinality(S) \in Nat /\ s \in [1..Cardinality(S) -> S]
           /\ s \in Seq(S) /\ Len(s) = Cardinality(S)
           /\ \A x \in S : \E i \in 1..Cardinality(S) : s[i] = x
<1>1. Cardinality(S) \in Nat
  BY FS_CardinalityType
<1>2. /\ s \in [1..Cardinality(S) -> S]
      /\ \A i, j \in 1..Cardinality(S) : s[i] = s[j] => i = j
  BY DEF Orders
<1>3. s \in Injection(1..Cardinality(S), S)
  BY <1>2, Fun_IsInj
<1>4. Cardinality(1..Cardinality(S)) = Cardinality(S)
  <2>1. Cardinality(1..Cardinality(S))
            = IF 1 > Cardinality(S) THEN 0 ELSE Cardinality(S) - 1 + 1
    BY <1>1, FS_Interval
  <2> QED BY <1>1, <2>1
<1>5. s \in Surjection(1..Cardinality(S), S)
  BY <1>3, <1>4, FS_Injection
<1>6. \A x \in S : \E i \in 1..Cardinality(S) : s[i] = x
  BY <1>5 DEF Surjection
<1> QED BY <1>1, <1>2, <1>6, FunctionIsSeq

\* Every location that is being watched is pushed to.
LEMMA PushesCover ==
    ASSUME TypeOK, NEW value \in Values, NEW pushes \in Pushes(value)
    PROVE  /\ pushes \in Seq(Messages)
           /\ \A i \in 1..Len(pushes) :
                 pushes[i].kind = "data" /\ pushes[i].value = value
           /\ \A q \in serving : \E i \in 1..Len(pushes) : pushes[i] = Data(q, value)
<1> DEFINE n == Cardinality(serving)
           D == [kind : {"data"}, query : serving, value : {value}]
           f == [i \in 1..n |-> pushes[i].query]
<1>1. /\ n \in Nat /\ pushes \in [1..n -> D]
      /\ \A i, j \in 1..n : pushes[i] = pushes[j] => i = j
  BY CountsAreNat DEF Pushes
<1>2. \A m \in D : /\ m.kind = "data" /\ m.value = value /\ m.query \in serving
                   /\ m = Data(m.query, value)
  BY DEF Data
<1> HIDE DEF D
<1>3. \A i \in 1..n : /\ pushes[i].kind = "data" /\ pushes[i].value = value
                      /\ pushes[i].query \in serving
                      /\ pushes[i] = Data(pushes[i].query, value)
  BY <1>1, <1>2
<1>4. pushes \in Seq(Messages) /\ Len(pushes) = n
  <2>1. pushes \in Seq(D) /\ Len(pushes) = n
    BY <1>1, FunctionIsSeq
  <2> QED BY <2>1, PushesFacts
<1>5. f \in Orders(serving)
  <2>1. f \in [1..n -> serving]
    BY <1>3
  <2>2. ASSUME NEW i \in 1..n, NEW j \in 1..n, f[i] = f[j] PROVE i = j
    <3>1. pushes[i].query = pushes[j].query
      BY <2>2
    <3>2. pushes[i] = pushes[j]
      BY <1>3, <3>1
    <3> QED BY <1>1, <3>2
  <2> HIDE DEF f
  <2> QED BY <2>1, <2>2 DEF Orders
<1>6. \A q \in serving : \E i \in 1..n : f[i] = q
  <2>1. IsFiniteSet(serving)
    BY BoundsAreNat, FS_Subset DEF TypeOK
  <2> HIDE DEF f
  <2> QED BY <1>5, <2>1, OrdersCover
<1>7. ASSUME NEW q \in serving PROVE \E i \in 1..n : pushes[i] = Data(q, value)
  <2>1. PICK i \in 1..n : f[i] = q
    BY <1>6
  <2> QED BY <1>3, <2>1
<1> HIDE DEF n, f
<1> QED BY <1>3, <1>4, <1>7

\* A location that is listened to has the number of its listen.
LEMMA ListeningNumber ==
    ASSUME TypeOK, NEW q \in Listening
    PROVE  q \in Queries /\ listens[q] \in 1..MaxListens
<1>1. q \in Queries /\ listens[q] # 0 /\ listens \in [Queries -> 0..MaxListens]
  BY DEF TypeOK, Listening
<1>2. MaxListens \in Nat /\ listens[q] \in 0..MaxListens
  BY <1>1, BoundsAreNat
<1> QED BY <1>1, <1>2

\* A new connection carries the request of every listen and of nothing given up.
LEMMA RestoreCovers ==
    ASSUME TypeOK, NEW order \in Orders(Listening), RestoreState(order)
    PROVE  /\ \A q \in Listening : \E i \in 1..Len(toServer') :
                 toServer'[i] = ListenRequest(q, listens[q])
           /\ \A i \in 1..Len(toServer') :
                 \/ toServer'[i].kind = "put"
                 \/ \E q \in Listening : toServer'[i] = ListenRequest(q, listens[q])
<1> DEFINE n == Cardinality(Listening)
           reads == [i \in 1..Len(order) |-> ListenRequest(order[i], listens[order[i]])]
           puts == [i \in 1..Len(outstandingPuts) |-> PutRequest(outstandingPuts[i])]
<1>1. /\ n \in Nat /\ order \in [1..n -> Listening] /\ Len(order) = n
      /\ \A q \in Listening : \E i \in 1..n : order[i] = q
  <2>1. IsFiniteSet(Listening)
    BY BoundsAreNat, FS_Subset DEF Listening
  <2> QED BY <2>1, OrdersCover
<1>2. reads \in [1..n -> Requests]
      /\ \A i \in 1..n : reads[i] = ListenRequest(order[i], listens[order[i]])
  <2>1. ASSUME NEW i \in 1..n
        PROVE  order[i] \in Queries /\ listens[order[i]] \in 1..MaxListens
    BY <1>1, ListeningNumber
  <2> QED BY <1>1, <2>1, RequestFacts
<1>3. /\ Len(outstandingPuts) \in Nat
      /\ puts \in [1..Len(outstandingPuts) -> Requests]
      /\ \A i \in 1..Len(outstandingPuts) : puts[i].kind = "put"
  <2>1. Len(outstandingPuts) \in Nat
        /\ \A i \in 1..Len(outstandingPuts) : outstandingPuts[i] \in Puts
    BY LenProperties, ElementOfSeq DEF TypeOK
  <2> QED BY <2>1, RequestFacts
<1>4. toServer' = reads \o puts
  BY DEF RestoreState
<1> HIDE DEF n, reads, puts
<1>5. /\ reads \in Seq(Requests) /\ Len(reads) = n
      /\ puts \in Seq(Requests) /\ Len(puts) = Len(outstandingPuts)
  BY <1>1, <1>2, <1>3, FunctionIsSeq
<1>6. /\ Len(toServer') = n + Len(puts)
      /\ \A i \in 1..(n + Len(puts)) :
            toServer'[i] = IF i <= n THEN reads[i] ELSE puts[i - n]
  BY <1>4, <1>5, ConcatProperties
<1>7. ASSUME NEW q \in Listening
      PROVE  \E i \in 1..Len(toServer') : toServer'[i] = ListenRequest(q, listens[q])
  <2>1. PICK i \in 1..n : order[i] = q
    BY <1>1
  <2>2. i \in 1..(n + Len(puts)) /\ i <= n
    BY <1>1, <1>3, <1>5
  <2> QED BY <1>2, <1>6, <2>1, <2>2
<1>8. ASSUME NEW i \in 1..Len(toServer')
      PROVE  \/ toServer'[i].kind = "put"
             \/ \E q \in Listening : toServer'[i] = ListenRequest(q, listens[q])
  <2>1. CASE i <= n
    <3>1. i \in 1..n /\ order[i] \in Listening
      BY <1>1, <2>1
    <3> QED BY <1>2, <1>6, <2>1, <3>1
  <2>2. CASE i > n
    <3>1. i - n \in 1..Len(outstandingPuts) /\ ~(i <= n)
      BY <1>1, <1>3, <1>5, <1>6, <2>2
    <3> QED BY <1>3, <1>6, <3>1
  <2> QED BY <1>1, <1>6, <2>1, <2>2
<1> QED BY <1>7, <1>8

-----------------------------------------------------------------------------
(* What the server says in one step.                                       *)

\* What was on the wire to the client is still in its place.
Extends ==
    /\ Len(fromServer) \in Nat /\ Len(fromServer') \in Nat
    /\ Len(fromServer) <= Len(fromServer')
    /\ \A i \in 1..Len(fromServer) : fromServer'[i] = fromServer[i]

NewPlaces == (Len(fromServer) + 1)..Len(fromServer')

\* A message that was added: data shows all that is stored; a write is confirmed
\* after every watched location was told of it, a listen after its data.
Added(i) ==
    \/ fromServer'[i].kind = "data" /\ fromServer'[i].value = Stored'
    \/ fromServer'[i].kind = "revoked"
    \/ \E p \in Puts : fromServer'[i] = Answer(PutRequest(p), "denied")
    \/ \E p \in Puts :
          /\ fromServer'[i] = Answer(PutRequest(p), "ok") /\ p \in Stored'
          /\ \A q \in serving : \E k \in (Len(fromServer) + 1)..(i - 1) :
                fromServer'[k] = Data(q, Stored')
    \/ \E j \in 1..Len(toServer) :
          /\ toServer[j].kind = "listen"
          /\ \/ fromServer'[i] = Answer(toServer[j], "denied")
             \/ /\ fromServer'[i] = Answer(toServer[j], "ok")
                /\ i - 1 \in NewPlaces
                /\ fromServer'[i - 1] = Data(toServer[j].query, Stored')

LEMMA ExtendsAppend ==
    ASSUME TypeOK, NEW m \in Messages, fromServer' = Append(fromServer, m)
    PROVE  /\ Extends /\ NewPlaces = {Len(fromServer) + 1}
           /\ fromServer'[Len(fromServer) + 1] = m
<1>1. /\ fromServer' \in Seq(Messages) /\ Len(fromServer') = Len(fromServer) + 1
      /\ \A i \in 1..Len(fromServer) : fromServer'[i] = fromServer[i]
      /\ fromServer'[Len(fromServer) + 1] = m /\ Len(fromServer) \in Nat
  BY AppendProperties, LenProperties DEF TypeOK
<1> QED BY <1>1 DEF Extends, NewPlaces

LEMMA ExtendsConcat ==
    ASSUME TypeOK, NEW news \in Seq(Messages), fromServer' = fromServer \o news
    PROVE  /\ Extends /\ fromServer' \in Seq(Messages)
           /\ \A i \in 1..Len(news) : /\ Len(fromServer) + i \in NewPlaces
                                      /\ fromServer'[Len(fromServer) + i] = news[i]
           /\ \A i \in NewPlaces : /\ i - Len(fromServer) \in 1..Len(news)
                                   /\ fromServer'[i] = news[i - Len(fromServer)]
<1>1. /\ fromServer' \in Seq(Messages) /\ Len(fromServer') = Len(fromServer) + Len(news)
      /\ \A i \in 1..(Len(fromServer) + Len(news)) :
            fromServer'[i] = IF i <= Len(fromServer) THEN fromServer[i]
                             ELSE news[i - Len(fromServer)]
      /\ Len(fromServer) \in Nat /\ Len(news) \in Nat
  BY ConcatProperties, LenProperties DEF TypeOK
<1>2. Extends
  BY <1>1 DEF Extends
<1>3. ASSUME NEW i \in 1..Len(news)
      PROVE  /\ Len(fromServer) + i \in NewPlaces
             /\ fromServer'[Len(fromServer) + i] = news[i]
  <2>1. /\ Len(fromServer) + i \in 1..(Len(fromServer) + Len(news))
        /\ ~(Len(fromServer) + i <= Len(fromServer))
        /\ (Len(fromServer) + i) - Len(fromServer) = i
        /\ Len(fromServer) + i \in NewPlaces
    BY <1>1 DEF NewPlaces
  <2> QED BY <1>1, <2>1
<1>4. ASSUME NEW i \in NewPlaces
      PROVE  /\ i - Len(fromServer) \in 1..Len(news)
             /\ fromServer'[i] = news[i - Len(fromServer)]
  <2>1. /\ i \in 1..(Len(fromServer) + Len(news)) /\ ~(i <= Len(fromServer))
        /\ i - Len(fromServer) \in 1..Len(news)
    BY <1>1 DEF NewPlaces
  <2> QED BY <1>1, <2>1
<1> QED BY <1>1, <1>2, <1>3, <1>4

LEMMA ConcatLast ==
    ASSUME NEW S, NEW s \in Seq(S), NEW t \in Seq(S), NEW x \in S, NEW u,
           u = (s \o t) \o <<x>>
    PROVE  u = s \o Append(t, x)
<1> DEFINE last == <<x>>
           more == Append(t, x)
<1>1. last \in Seq(S) /\ more = t \o last
  BY AppendIsConcat
<1>2. u = (s \o t) \o last
  OBVIOUS
<1> HIDE DEF last, more
<1>3. (s \o t) \o last = s \o (t \o last)
  BY <1>1, ConcatAssociative
<1>4. u = s \o more
  BY <1>1, <1>2, <1>3, Zenon
<1> QED BY <1>4 DEF more

LEMMA SentLast ==
    ASSUME TypeOK, NEW s \in Seq(Messages), NEW m \in Messages,
           fromServer' = fromServer \o s \o <<m>>
    PROVE  fromServer' = fromServer \o Append(s, m)
<1>1. fromServer \in Seq(Messages)
  BY DEF TypeOK
<1> QED BY <1>1, ConcatLast

LEMMA PutSays ==
    ASSUME TypeOK, NEW p \in Puts, ServePut(p)
    PROVE  Extends /\ \A i \in NewPlaces : Added(i)
<1>0. p \in 0..MaxPuts /\ Stored \cup {p} \in Values /\ PutRequest(p) \in Requests
  BY StoredTyped, RequestFacts, BoundsAreNat DEF Puts
<1>1. CASE fromServer' = Append(fromServer, Answer(PutRequest(p), "denied"))
  <2>1. Answer(PutRequest(p), "denied") \in Messages
    BY <1>0, MessageFacts DEF Statuses
  <2> QED BY <1>1, <2>1, ExtendsAppend DEF Added
<1>2. CASE /\ applied' = Append(applied, p)
           /\ \E pushes \in Pushes(Stored \cup {p}) :
                 fromServer' = fromServer \o pushes \o <<Answer(PutRequest(p), "ok")>>
  <2>1. Stored' = Stored \cup {p}
    BY <1>0, <1>2, StoredAppend
  <2>2. PICK pushes \in Pushes(Stored \cup {p}) :
            fromServer' = fromServer \o pushes \o <<Answer(PutRequest(p), "ok")>>
    BY <1>2
  <2>3. /\ pushes \in Seq(Messages)
        /\ \A i \in 1..Len(pushes) : pushes[i].kind = "data" /\ pushes[i].value = Stored'
        /\ \A q \in serving : \E i \in 1..Len(pushes) : pushes[i] = Data(q, Stored')
        /\ Len(pushes) \in Nat
    BY <1>0, <2>1, PushesCover, LenProperties
  <2> DEFINE answer == Answer(PutRequest(p), "ok")
             news == Append(pushes, answer)
  <2>4. answer \in Messages
    BY <1>0, MessageFacts DEF Statuses
  <2>5. fromServer' = fromServer \o news
    BY <2>2, <2>3, <2>4, SentLast
  <2> HIDE DEF answer
  <2>6. /\ news \in Seq(Messages) /\ Len(news) = Len(pushes) + 1
        /\ \A i \in 1..Len(pushes) : news[i] = pushes[i]
        /\ news[Len(pushes) + 1] = answer
    BY <2>3, <2>4, AppendProperties
  <2> HIDE DEF news
  <2>7. /\ Extends
        /\ \A i \in 1..Len(news) : /\ Len(fromServer) + i \in NewPlaces
                                   /\ fromServer'[Len(fromServer) + i] = news[i]
        /\ \A i \in NewPlaces : /\ i - Len(fromServer) \in 1..Len(news)
                                /\ fromServer'[i] = news[i - Len(fromServer)]
        /\ Len(fromServer) \in Nat
    BY <2>5, <2>6, ExtendsConcat DEF Extends
  <2>8. ASSUME NEW i \in NewPlaces PROVE Added(i)
    <3>1. CASE i - Len(fromServer) <= Len(pushes)
      <4>1. i - Len(fromServer) \in 1..Len(pushes)
        BY <2>3, <2>7, <3>1
      <4>2. fromServer'[i] = pushes[i - Len(fromServer)]
        BY <2>6, <2>7, <4>1
      <4>3. fromServer'[i].kind = "data" /\ fromServer'[i].value = Stored'
        BY <2>3, <4>1, <4>2
      <4> QED BY <4>3 DEF Added
    <3>2. CASE ~(i - Len(fromServer) <= Len(pushes))
      <4>1. i - Len(fromServer) = Len(pushes) + 1 /\ i - 1 = Len(fromServer) + Len(pushes)
        BY <2>3, <2>6, <2>7, <3>2 DEF NewPlaces
      <4>2. fromServer'[i] = Answer(PutRequest(p), "ok")
        BY <2>6, <2>7, <4>1 DEF answer
      <4>3. ASSUME NEW q \in serving
            PROVE  \E k \in (Len(fromServer) + 1)..(i - 1) :
                      fromServer'[k] = Data(q, Stored')
        <5>1. PICK j \in 1..Len(pushes) : pushes[j] = Data(q, Stored')
          BY <2>3
        <5>2. /\ Len(fromServer) + j \in (Len(fromServer) + 1)..(i - 1)
              /\ j \in 1..Len(news)
          BY <2>3, <2>6, <2>7, <4>1
        <5> QED BY <2>6, <2>7, <5>1, <5>2
      <4> QED BY <2>1, <4>2, <4>3 DEF Added
    <3> QED BY <3>1, <3>2
  <2> QED BY <2>7, <2>8
<1> QED BY <1>1, <1>2 DEF ServePut

\* A listen that is served is answered, and refused or watched from then on.
LEMMA ListenSays ==
    ASSUME TypeOK, NEW j \in 1..Len(toServer), toServer[j].kind = "listen",
           ServeListen(toServer[j])
    PROVE  /\ Extends /\ \A i \in NewPlaces : Added(i)
           /\ serving \subseteq serving'
           /\ \E i \in NewPlaces :
                 \/ fromServer'[i] = Answer(toServer[j], "denied")
                 \/ /\ fromServer'[i] = Answer(toServer[j], "ok")
                    /\ toServer[j].query \in serving'
<1> DEFINE r == toServer[j]
<1>0. r \in Requests /\ r.query \in Queries
  BY ElementOfSeq, RequestKinds DEF TypeOK
<1>1. CASE fromServer' = Append(fromServer, Answer(r, "denied")) /\ UNCHANGED server
  <2>1. Answer(r, "denied") \in Messages
    BY <1>0, MessageFacts DEF Statuses
  <2> HIDE DEF r
  <2>2. /\ Extends /\ NewPlaces = {Len(fromServer) + 1}
        /\ fromServer'[Len(fromServer) + 1] = Answer(r, "denied")
    BY <1>1, <2>1, ExtendsAppend
  <2> QED BY <1>1, <2>2 DEF Added, server, r
<1>2. CASE /\ serving' = serving \cup {r.query}
           /\ fromServer' = fromServer \o <<Data(r.query, Stored), Answer(r, "ok")>>
           /\ UNCHANGED <<applied, rules>>
  <2>1. Stored' = Stored
    BY <1>2, StoredKept
  <2> DEFINE data == Data(r.query, Stored)
             answer == Answer(r, "ok")
             news == <<data, answer>>
  <2>2. data \in Messages /\ answer \in Messages
    BY <1>0, StoredTyped, MessageFacts DEF Statuses
  <2>3. fromServer' = fromServer \o news
    BY <1>2
  <2> HIDE DEF data, answer
  <2>4. /\ news \in Seq(Messages) /\ Len(news) = 2
        /\ news[1] = data /\ news[2] = answer
    BY <2>2
  <2> HIDE DEF news
  <2>5. /\ Extends
        /\ \A i \in 1..Len(news) : /\ Len(fromServer) + i \in NewPlaces
                                   /\ fromServer'[Len(fromServer) + i] = news[i]
        /\ \A i \in NewPlaces : i - Len(fromServer) \in 1..Len(news)
        /\ Len(fromServer) \in Nat
    BY <2>3, <2>4, ExtendsConcat DEF Extends
  <2>6. /\ Len(fromServer) + 1 \in NewPlaces /\ Len(fromServer) + 2 \in NewPlaces
        /\ fromServer'[Len(fromServer) + 1] = Data(r.query, Stored')
        /\ fromServer'[Len(fromServer) + 2] = Answer(r, "ok")
        /\ (Len(fromServer) + 2) - 1 = Len(fromServer) + 1
    BY <2>1, <2>4, <2>5 DEF data, answer
  <2>7. \A i \in NewPlaces : i = Len(fromServer) + 1 \/ i = Len(fromServer) + 2
    BY <2>4, <2>5 DEF NewPlaces
  <2>8. Data(r.query, Stored').kind = "data" /\ Data(r.query, Stored').value = Stored'
    BY DEF Data
  <2>9. Added(Len(fromServer) + 1)
    BY <2>6, <2>8 DEF Added
  <2>10. Added(Len(fromServer) + 2)
    BY <2>6 DEF Added
  <2> QED BY <1>2, <2>5, <2>6, <2>7, <2>9, <2>10
<1> QED BY <1>1, <1>2 DEF ServeListen

\* A request the server took: only a listen leaves a trace in its answer.
Taken(r) ==
    \/ r.kind \in {"put", "unlisten"}
    \/ \E i \in NewPlaces :
          \/ fromServer'[i] = Answer(r, "denied")
          \/ fromServer'[i] = Answer(r, "ok") /\ r.query \in serving'

\* A location stays watched unless it is given up or told that it is revoked.
StaysWatched(q) ==
    \/ q \in serving'
    \/ \E i \in NewPlaces : fromServer'[i] = Revoked(q)
    \/ \E i \in 1..Len(toServer) :
          toServer[i] = UnlistenRequest(q) /\ toServer' = Drop(toServer, i)

LEMMA ServerSays ==
    ASSUME TypeOK, Serve \/ OtherPhoneWrites \/ \E q \in Queries : Revoke(q)
    PROVE  /\ Extends /\ \A i \in NewPlaces : Added(i)
           /\ \A q \in serving : StaysWatched(q)
           /\ \/ toServer' = toServer
              \/ \E i \in 1..Len(toServer) :
                    /\ toServer' = Drop(toServer, i) /\ Taken(toServer[i])
                    /\ \A j \in 1..(i - 1) : Topic(toServer[j]) # Topic(toServer[i])
<1>1. CASE Serve
  <2>1. PICK i \in 1..Len(toServer) :
            /\ \A j \in 1..(i - 1) : Topic(toServer[j]) # Topic(toServer[i])
            /\ toServer' = Drop(toServer, i)
            /\ \/ toServer[i].kind = "put" /\ ServePut(toServer[i].put)
               \/ toServer[i].kind = "listen" /\ ServeListen(toServer[i])
               \/ toServer[i].kind = "unlisten" /\ ServeUnlisten(toServer[i].query)
    BY <1>1 DEF Serve
  <2>2. toServer[i] \in Requests
    BY ElementOfSeq DEF TypeOK
  <2>3. CASE toServer[i].kind = "put" /\ ServePut(toServer[i].put)
    <3>1. Extends /\ \A k \in NewPlaces : Added(k)
      BY <2>2, <2>3, RequestKinds, PutSays
    <3>2. serving' = serving
      BY <2>3 DEF ServePut, server
    <3> QED BY <2>1, <2>3, <3>1, <3>2 DEF Taken, StaysWatched
  <2>4. CASE toServer[i].kind = "listen" /\ ServeListen(toServer[i])
    BY <2>1, <2>4, ListenSays DEF Taken, StaysWatched
  <2>5. CASE toServer[i].kind = "unlisten" /\ ServeUnlisten(toServer[i].query)
    <3>1. fromServer' = fromServer /\ serving' = serving \ {toServer[i].query}
      BY <2>5 DEF ServeUnlisten
    <3>2. Extends /\ NewPlaces = {}
      BY <3>1, LenProperties DEF Extends, NewPlaces, TypeOK
    <3>3. toServer[i] = UnlistenRequest(toServer[i].query)
      BY <2>2, <2>5 DEF Requests, UnlistenRequest
    <3> QED BY <2>1, <2>5, <3>1, <3>2, <3>3 DEF Taken, StaysWatched
  <2> QED BY <2>1, <2>3, <2>4, <2>5
<1>2. CASE OtherPhoneWrites
  <2>1. PICK pushes \in Pushes(Stored \cup {0}) : fromServer' = fromServer \o pushes
    BY <1>2 DEF OtherPhoneWrites
  <2>2. Stored' = Stored \cup {0}
    <3>1. 0 \in 0..MaxPuts /\ applied' = Append(applied, 0)
      BY <1>2, BoundsAreNat DEF OtherPhoneWrites
    <3> QED BY <3>1, StoredAppend
  <2>3. /\ pushes \in Seq(Messages)
        /\ \A i \in 1..Len(pushes) : pushes[i].kind = "data" /\ pushes[i].value = Stored'
    BY <2>2, StoredTyped, PushesCover
  <2>4. /\ Extends
        /\ \A i \in NewPlaces : /\ i - Len(fromServer) \in 1..Len(pushes)
                                /\ fromServer'[i] = pushes[i - Len(fromServer)]
    BY <2>1, <2>3, ExtendsConcat
  <2> QED BY <1>2, <2>3, <2>4 DEF OtherPhoneWrites, Added, StaysWatched
<1>3. ASSUME NEW q \in Queries, Revoke(q)
      PROVE  /\ Extends /\ \A i \in NewPlaces : Added(i)
             /\ \A k \in serving : StaysWatched(k)
             /\ toServer' = toServer
  <2>1. Revoked(q) \in Messages /\ Revoked(q).kind = "revoked"
    BY MessageFacts
  <2>2. /\ Extends /\ NewPlaces = {Len(fromServer) + 1}
        /\ fromServer'[Len(fromServer) + 1] = Revoked(q)
    BY <1>3, <2>1, ExtendsAppend DEF Revoke
  <2> QED BY <1>3, <2>1, <2>2 DEF Revoke, Added, StaysWatched
<1> QED BY <1>1, <1>2, <1>3

-----------------------------------------------------------------------------
(* The steps, by what they do to a wire that is open.                      *)

ServerStep == Serve \/ OtherPhoneWrites \/ \E q \in Queries : Revoke(q)
HearStep == PutAnswered \/ ListenAnswered \/ DataReceived \/ OnListenRevoked

LEMMA StepCases ==
    ASSUME TypeOK, RetryExactlyWhenIdle, WireIsOpen, [Next]_vars
    PROVE  \/ Handshake
           \/ ~CanSend' /\ toServer' = <<>> /\ fromServer' = <<>>
           \/ /\ CanSend /\ CanSend'
              /\ \/ ServerStep \/ HearStep \/ Put
                 \/ \E q \in Queries : Listen(q) \/ Unlisten(q)
                 \/ UNCHANGED <<listens, wire, serving, applied>>
<1>1. CASE ~CanSend'
  BY <1>1, WireStep DEF WireIsOpen, CanSend
<1>2. CASE RetryFires \/ ConnectionLost \/ Interrupt \/ OnKill
  <2>1. ~CanSend'
    BY <1>2 DEF RetryFires, ConnectionLost, Interrupt, OnKill, InterruptForReason,
                OnDisconnect, CanSend
  <2> QED BY <1>1, <2>1
<1>3. CASE Resume \/ Reachable \/ Purge \/ UNCHANGED vars
  <2>1. CanSend' = CanSend /\ UNCHANGED <<listens, wire, serving, applied>>
    BY <1>3 DEF Resume, ResumeForReason, Reachable, Purge, vars, client, requests,
                server, CanSend
  <2> QED BY <1>1, <2>1
<1>4. CASE ServerStep \/ HearStep \/ Put \/ \E q \in Queries : Listen(q) \/ Unlisten(q)
  <2>1. UNCHANGED client
    BY <1>4 DEF ServerStep, HearStep, Put, Listen, Unlisten, Serve, OtherPhoneWrites,
                Revoke, PutAnswered, ListenAnswered, DataReceived, OnListenRevoked
  <2>2. CanSend' = CanSend
    BY <2>1 DEF client, CanSend
  <2> QED BY <1>1, <1>4, <2>2
<1> QED BY <1>2, <1>3, <1>4 DEF Next, ServerStep, HearStep

\* A number is given once, to the location that starts to listen.
LEMMA ListensChange ==
    ASSUME TypeOK, [Next]_vars
    PROVE  /\ spent'["listen"] \in Nat /\ spent["listen"] \in Nat
           /\ spent["listen"] <= spent'["listen"]
           /\ \A q \in Queries :
                 \/ listens'[q] = listens[q]
                 \/ listens'[q] = 0
                 \/ /\ Listen(q) /\ listens'[q] = spent["listen"] + 1
                    /\ spent'["listen"] = spent["listen"] + 1
<1>0. spent["listen"] \in Nat /\ listens \in [Queries -> 0..MaxListens]
      /\ spent \in [Events -> Nat] /\ "listen" \in Events
  BY EventsAre DEF TypeOK
<1>1. ASSUME NEW q \in Queries, Listen(q)
      PROVE  /\ listens'[q] = spent["listen"] + 1
             /\ spent'["listen"] = spent["listen"] + 1
             /\ \A k \in Queries : k # q => listens'[k] = listens[k]
  BY <1>0, <1>1 DEF Listen, Spend
<1>2. ASSUME ~\E q \in Queries : Listen(q)
      PROVE  spent'["listen"] = spent["listen"]
  <2>1. \/ UNCHANGED spent
        \/ \E e \in {"removal", "drop", "interrupt", "other"} :
              spent' = [spent EXCEPT ![e] = @ + 1]
    BY <1>2 DEF Next, vars, RetryFires, Handshake, ConnectionLost, Interrupt,
                OnKill, Resume, ResumeForReason, Reachable, Unlisten, Put, Purge,
                PutAnswered, ListenAnswered, DataReceived, OnListenRevoked, Serve,
                OtherPhoneWrites, Revoke, Spend
  <2> QED BY <1>0, <2>1
<1>3. ASSUME ~\E q \in Queries : Listen(q), NEW q \in Queries
      PROVE  listens'[q] = listens[q] \/ listens'[q] = 0
  <2>1. CASE UNCHANGED listens
    BY <2>1
  <2>2. CASE ListenAnswered
    BY <1>0, <2>2 DEF ListenAnswered
  <2>3. CASE OnListenRevoked
    BY <1>0, <2>3 DEF OnListenRevoked
  <2>4. CASE \E k \in Queries : Unlisten(k)
    BY <1>0, <2>4 DEF Unlisten
  <2> QED BY <1>3, <2>1, <2>2, <2>3, <2>4
          DEF Next, vars, requests, RetryFires, Handshake, ConnectionLost, Interrupt,
              OnKill, InterruptForReason, OnDisconnect, Resume, ResumeForReason,
              Reachable, Put, Purge, PutAnswered, DataReceived, Serve,
              OtherPhoneWrites, Revoke
<1> QED BY <1>0, <1>1, <1>2, <1>3

\* What sending does to the wire to the server.
LEMMA SendPlaces ==
    ASSUME TypeOK, NEW r \in Requests, Send(r), CanSend
    PROVE  /\ Len(toServer) \in Nat /\ Len(toServer') = Len(toServer) + 1
           /\ \A i \in 1..Len(toServer) : toServer'[i] = toServer[i]
           /\ toServer'[Len(toServer) + 1] = r
BY AppendProperties, LenProperties DEF TypeOK, Send

\* What hearing does to the wire from the server.
LEMMA HearPlaces ==
    ASSUME TypeOK, HearStep
    PROVE  /\ Len(fromServer) \in Nat \ {0} /\ 1 \in 1..Len(fromServer)
           /\ fromServer[1] = Head(fromServer) /\ fromServer[1] \in Messages
           /\ Len(fromServer') = Len(fromServer) - 1
           /\ \A i \in 1..Len(fromServer') :
                 i + 1 \in 2..Len(fromServer) /\ fromServer'[i] = fromServer[i + 1]
           /\ \A i \in 2..Len(fromServer) :
                 i - 1 \in 1..Len(fromServer') /\ fromServer'[i - 1] = fromServer[i]
           /\ UNCHANGED <<toServer, serving, applied>>
<1>1. fromServer \in Seq(Messages) /\ fromServer # <<>> /\ fromServer' = Tail(fromServer)
  BY DEF TypeOK, HearStep, PutAnswered, ListenAnswered, DataReceived, OnListenRevoked,
         HearsAnswer, Hears
<1>2. UNCHANGED <<toServer, serving, applied>>
  BY DEF HearStep, PutAnswered, ListenAnswered, DataReceived, OnListenRevoked, server
<1>3. Len(fromServer) \in Nat \ {0} /\ fromServer[1] \in Messages
  BY <1>1, TailPlaces, ElementOfSeq
<1> QED BY <1>1, <1>2, <1>3, TailPlaces

-----------------------------------------------------------------------------
(* Listening.  A listen is known by its number; its request follows a       *)
(* request to stop listening to the same location; and a location the app   *)
(* listens to is being watched, or that is asked for, or refused.           *)

Current(q) == ListenRequest(q, listens[q])

Asked(q) == \E i \in 1..Len(toServer) : toServer[i] = Current(q)

Refused(q) ==
    \E i \in 1..Len(fromServer) :
        fromServer[i] \in {Revoked(q), Answer(Current(q), "denied")}

NumbersUsed ==
    /\ \A q \in Queries : listens[q] <= spent["listen"]
    /\ \A i \in 1..Len(toServer) :
          toServer[i].kind = "listen" => toServer[i].number <= spent["listen"]
    /\ \A i \in 1..Len(fromServer) :
          fromServer[i].kind = "answer" /\ fromServer[i].to.kind = "listen"
              => fromServer[i].to.number <= spent["listen"]

UnlistenFirst ==
    \A i \in 1..Len(toServer), q \in Listening : toServer[i] = UnlistenRequest(q) =>
        \E j \in (i + 1)..Len(toServer) : toServer[j] = Current(q)

ServedOrDue ==
    \A q \in Listening : CanSend => q \in serving \/ Asked(q) \/ Refused(q)

\* What is on the wire after a step, of a listen, was there before, was answered
\* in it, or is of a location that starts to listen.
LEMMA OnlyKnownListens ==
    ASSUME TypeOK, RetryExactlyWhenIdle, WireIsOpen, [Next]_vars
    PROVE  /\ \A i \in 1..Len(toServer') : toServer'[i].kind = "listen" =>
                 \/ \E j \in 1..Len(toServer) : toServer'[i] = toServer[j]
                 \/ \E q \in Queries : toServer'[i].number = listens'[q]
           /\ \A i \in 1..Len(fromServer') :
                 fromServer'[i].kind = "answer" /\ fromServer'[i].to.kind = "listen" =>
                     \/ \E j \in 1..Len(fromServer) : fromServer'[i] = fromServer[j]
                     \/ \E j \in 1..Len(toServer) : fromServer'[i].to = toServer[j]
<1> DEFINE ToServer ==
               \A i \in 1..Len(toServer') : toServer'[i].kind = "listen" =>
                 \/ \E j \in 1..Len(toServer) : toServer'[i] = toServer[j]
                 \/ \E q \in Queries : toServer'[i].number = listens'[q]
           FromServer ==
               \A i \in 1..Len(fromServer') :
                 fromServer'[i].kind = "answer" /\ fromServer'[i].to.kind = "listen" =>
                     \/ \E j \in 1..Len(fromServer) : fromServer'[i] = fromServer[j]
                     \/ \E j \in 1..Len(toServer) : fromServer'[i].to = toServer[j]
<1>1. CASE Handshake
  <2>1. /\ \E order \in Orders(Listening) : RestoreState(order)
        /\ UNCHANGED <<listens, fromServer>>
    BY <1>1 DEF Handshake
  <2>2. ASSUME NEW i \in 1..Len(toServer'), toServer'[i].kind = "listen"
        PROVE  \E q \in Queries : toServer'[i].number = listens'[q]
    <3>1. PICK q \in Listening : toServer'[i] = ListenRequest(q, listens[q])
      BY <2>1, <2>2, RestoreCovers
    <3> QED BY <2>1, <3>1 DEF ListenRequest, Listening
  <2> QED BY <2>1, <2>2
<1>2. CASE toServer' = <<>> /\ fromServer' = <<>>
  BY <1>2
<1>3. CASE UNCHANGED wire
  BY <1>3 DEF wire
<1>4. CASE HearStep
  <2>1. FromServer
    BY <1>4, HearPlaces
  <2> QED BY <1>4, <2>1, HearPlaces
<1>5. ASSUME NEW r \in Requests, CanSend, Send(r), UNCHANGED fromServer,
             r.kind = "listen" => \E q \in Queries : r.number = listens'[q]
      PROVE  ToServer /\ FromServer
  <2>1. ToServer
    BY <1>5, SendPlaces
  <2> QED BY <1>5, <2>1
<1>6. CASE Put /\ CanSend
  <2>1. putCounter' \in Puts
    BY <1>6, BoundsAreNat DEF Put, Puts, TypeOK
  <2> QED BY <1>5, <1>6, <2>1, RequestFacts DEF Put
<1>7. ASSUME NEW q \in Queries, Listen(q), CanSend PROVE ToServer /\ FromServer
  <2>1. listens'[q] \in 1..MaxListens
    BY <1>7, ListenNumber
  <2> QED BY <1>5, <1>7, <2>1, RequestFacts DEF Listen
<1>8. ASSUME NEW q \in Queries, Unlisten(q), CanSend PROVE ToServer /\ FromServer
  BY <1>5, <1>8, RequestFacts DEF Unlisten
<1>9. CASE ServerStep
  <2>1. /\ Extends /\ \A i \in NewPlaces : Added(i)
        /\ \/ toServer' = toServer
           \/ \E i \in 1..Len(toServer) : toServer' = Drop(toServer, i)
    BY <1>9, ServerSays DEF ServerStep
  <2>2. ToServer
    <3>1. ASSUME NEW i \in 1..Len(toServer), toServer' = Drop(toServer, i),
                 NEW k \in 1..Len(toServer')
          PROVE  \E j \in 1..Len(toServer) : toServer'[k] = toServer[j]
      BY <3>1, DropPlaces DEF TypeOK
    <3> QED BY <2>1, <3>1
  <2>3. FromServer
    <3> SUFFICES ASSUME NEW i \in 1..Len(fromServer'),
                        fromServer'[i].kind = "answer",
                        fromServer'[i].to.kind = "listen"
                 PROVE  \/ \E j \in 1..Len(fromServer) : fromServer'[i] = fromServer[j]
                        \/ \E j \in 1..Len(toServer) : fromServer'[i].to = toServer[j]
      OBVIOUS
    <3>1. CASE i \in 1..Len(fromServer)
      BY <2>1, <3>1 DEF Extends
    <3>2. CASE i \in NewPlaces
      <4>1. \A p \in Puts, status \in {"ok", "denied"} :
               fromServer'[i] # Answer(PutRequest(p), status)
        BY DEF Answer, PutRequest
      <4>2. \E j \in 1..Len(toServer), status \in {"ok", "denied"} :
               fromServer'[i] = Answer(toServer[j], status)
        BY <2>1, <3>2, <4>1 DEF Added
      <4> QED BY <4>2 DEF Answer
    <3>3. i \in 1..Len(fromServer) \/ i \in NewPlaces
      BY <2>1 DEF Extends, NewPlaces
    <3> QED BY <3>1, <3>2, <3>3
  <2> QED BY <2>2, <2>3
<1> QED BY <1>1, <1>2, <1>3, <1>4, <1>6, <1>7, <1>8, <1>9, StepCases

LEMMA NumbersStep ==
    ASSUME TypeOK, TypeOK', RetryExactlyWhenIdle, WireIsOpen, NumbersUsed, [Next]_vars
    PROVE  NumbersUsed'
<1>0. /\ \A q \in Queries : listens[q] \in Int /\ listens'[q] \in Int
      /\ spent["listen"] \in Nat /\ spent'["listen"] \in Nat
      /\ spent["listen"] <= spent'["listen"]
  <2>1. listens \in [Queries -> 0..MaxListens] /\ listens' \in [Queries -> 0..MaxListens]
    BY DEF TypeOK
  <2>2. MaxListens \in Nat
    BY BoundsAreNat
  <2>3. \A q \in Queries : listens[q] \in 0..MaxListens /\ listens'[q] \in 0..MaxListens
    BY <2>1
  <2> QED BY <2>2, <2>3, ListensChange
<1>1. \A q \in Queries : listens'[q] <= spent'["listen"]
  BY <1>0, ListensChange DEF NumbersUsed
<1>2. ASSUME NEW i \in 1..Len(toServer'), toServer'[i].kind = "listen"
      PROVE  toServer'[i].number <= spent'["listen"]
  <2>1. CASE \E j \in 1..Len(toServer) : toServer'[i] = toServer[j]
    <3>1. toServer'[i].number <= spent["listen"]
      BY <1>2, <2>1 DEF NumbersUsed
    <3>2. toServer'[i].number \in Int
      <4>1. toServer'[i] \in Requests
        BY ElementOfSeq DEF TypeOK
      <4> QED BY <1>2, <4>1, RequestKinds
    <3> QED BY <1>0, <3>1, <3>2
  <2> QED BY <1>1, <1>2, <2>1, OnlyKnownListens
<1>3. ASSUME NEW i \in 1..Len(fromServer'), fromServer'[i].kind = "answer",
             fromServer'[i].to.kind = "listen"
      PROVE  fromServer'[i].to.number <= spent'["listen"]
  <2>1. fromServer'[i].to.number \in Int
    <3>1. fromServer'[i] \in Messages
      BY ElementOfSeq DEF TypeOK
    <3> QED BY <1>3, <3>1, MessageKinds, RequestKinds
  <2>2. fromServer'[i].to.number <= spent["listen"]
    BY <1>3, OnlyKnownListens DEF NumbersUsed
  <2> QED BY <1>0, <2>1, <2>2
<1> QED BY <1>1, <1>2, <1>3 DEF NumbersUsed

\* A location that still is listened to has its number, or starts with a new one.
LEMMA CurrentStays ==
    ASSUME TypeOK, [Next]_vars, NEW q \in Listening'
    PROVE  \/ q \in Listening /\ listens'[q] = listens[q] /\ Current(q)' = Current(q)
           \/ Listen(q)
BY ListensChange DEF Listening, Current

\* A request that is not the one served stays on the wire.
LEMMA AskedStays ==
    ASSUME TypeOK, NEW q \in Queries, listens'[q] = listens[q], NEW i \in 1..Len(toServer),
           toServer[i] = Current(q),
           \/ toServer' = toServer
           \/ CanSend /\ \E r \in Requests : Send(r)
           \/ \E j \in 1..Len(toServer) : j # i /\ toServer' = Drop(toServer, j)
    PROVE  Asked(q)'
<1>0. i \in Int /\ Current(q)' = Current(q)
  BY DEF Current
<1>1. CASE toServer' = toServer
  BY <1>0, <1>1 DEF Asked
<1>2. ASSUME NEW r \in Requests, CanSend, Send(r) PROVE Asked(q)'
  <2>1. i \in 1..Len(toServer') /\ toServer'[i] = toServer[i]
    BY <1>2, SendPlaces
  <2> QED BY <1>0, <2>1 DEF Asked
<1>3. ASSUME NEW j \in 1..Len(toServer), j # i, toServer' = Drop(toServer, j)
      PROVE  Asked(q)'
  <2>1. i < j \/ i > j
    BY <1>3
  <2>2. \E k \in 1..Len(toServer') : toServer'[k] = toServer[i]
    BY <1>3, <2>1, DropPlaces DEF TypeOK
  <2> QED BY <1>0, <2>2 DEF Asked
<1> QED BY <1>1, <1>2, <1>3

LEMMA UnlistenStep ==
    ASSUME TypeOK, RetryExactlyWhenIdle, WireIsOpen, UnlistenFirst, [Next]_vars
    PROVE  UnlistenFirst'
<1> DEFINE Follows(i, q) == \E j \in (i + 1)..Len(toServer') : toServer'[j] = Current(q)'
<1>0. SUFFICES ASSUME NEW i \in 1..Len(toServer'), NEW q \in Listening',
                      toServer'[i] = UnlistenRequest(q)
               PROVE  Follows(i, q)
  BY DEF UnlistenFirst
<1>00. q \in Queries /\ toServer \in Seq(Requests) /\ Len(toServer) \in Nat
  BY LenProperties DEF Listening, TypeOK
<1>1. CASE Handshake
  <2>1. PICK order \in Orders(Listening) : RestoreState(order)
    BY <1>1 DEF Handshake
  <2>2. \/ toServer'[i].kind = "put"
        \/ \E k \in Listening : toServer'[i] = ListenRequest(k, listens[k])
    BY <2>1, RestoreCovers
  <2>3. toServer'[i].kind \in {"put", "listen"}
    <3>1. \A k, n : ListenRequest(k, n).kind = "listen"
      BY DEF ListenRequest
    <3> QED BY <2>2, <3>1
  <2>4. toServer'[i].kind = "unlisten"
    BY <1>0 DEF UnlistenRequest
  <2> QED BY <2>3, <2>4
<1>2. CASE toServer' = <<>>
  BY <1>2
<1>3. ASSUME UNCHANGED toServer, ~Listen(q) PROVE Follows(i, q)
  <2>1. q \in Listening /\ Current(q)' = Current(q)
    BY <1>3, CurrentStays
  <2>2. PICK j \in (i + 1)..Len(toServer) : toServer[j] = Current(q)
    BY <1>0, <1>3, <2>1 DEF UnlistenFirst
  <2> QED BY <1>3, <2>1, <2>2
\* What is sent goes to the end.
<1>4. ASSUME NEW r \in Requests, CanSend, Send(r), ~Listen(q), r # UnlistenRequest(q)
      PROVE  Follows(i, q)
  <2>1. i \in 1..Len(toServer) /\ toServer[i] = UnlistenRequest(q)
    BY <1>0, <1>00, <1>4, SendPlaces
  <2>2. PICK j \in (i + 1)..Len(toServer) : toServer[j] = Current(q)
    BY <1>4, <2>1, CurrentStays DEF UnlistenFirst
  <2>3. j \in (i + 1)..Len(toServer') /\ toServer'[j] = toServer[j]
    BY <1>00, <1>4, <2>1, <2>2, SendPlaces
  <2> QED BY <1>4, <2>2, <2>3, CurrentStays
<1>5. CASE Put /\ CanSend
  <2>1. putCounter' \in Puts
    BY <1>5, BoundsAreNat DEF Put, Puts, TypeOK
  <2>2. PutRequest(putCounter') # UnlistenRequest(q)
    BY DEF PutRequest, UnlistenRequest
  <2>3. ~Listen(q)
    BY <1>5, <1>0 DEF Put, Listen, Listening, requests
  <2> QED BY <1>4, <1>5, <2>1, <2>2, <2>3, RequestFacts DEF Put
<1>6. ASSUME NEW k \in Queries, Unlisten(k), CanSend PROVE Follows(i, q)
  <2>1. k # q
    BY <1>0, <1>6 DEF Unlisten, Listening, TypeOK
  <2>2. UnlistenRequest(k) # UnlistenRequest(q)
    BY <2>1 DEF UnlistenRequest
  <2>3. ~Listen(q)
    BY <1>0, <1>6, <2>1 DEF Unlisten, Listen, Listening, TypeOK
  <2> QED BY <1>4, <1>6, <2>2, <2>3, RequestFacts DEF Unlisten
<1>7. ASSUME NEW k \in Queries, Listen(k), CanSend PROVE Follows(i, q)
  <2>0. listens'[k] \in 1..MaxListens /\ Send(ListenRequest(k, listens'[k]))
    BY <1>7, ListenNumber DEF Listen
  <2>1. /\ listens'[k] \in 1..MaxListens
        /\ Send(ListenRequest(k, listens'[k]))
        /\ ListenRequest(k, listens'[k]) \in Requests
        /\ ListenRequest(k, listens'[k]).kind = "listen"
    BY <2>0, RequestFacts
  <2>2. CASE k = q
    <3>1. /\ toServer'[Len(toServer) + 1] = Current(q)'
          /\ Len(toServer') = Len(toServer) + 1
      BY <1>7, <2>1, <2>2, SendPlaces DEF Current
    <3>2. i # Len(toServer) + 1
      BY <1>0, <3>1 DEF Current, ListenRequest, UnlistenRequest
    <3>3. Len(toServer) + 1 \in (i + 1)..Len(toServer')
      BY <1>00, <3>1, <3>2
    <3> QED BY <3>1, <3>3
  <2>3. CASE k # q
    <3>1. ListenRequest(k, listens'[k]) # UnlistenRequest(q)
      BY DEF ListenRequest, UnlistenRequest
    <3>2. ~Listen(q)
      BY <1>0, <1>7, <2>3 DEF Listen, Listening, TypeOK
    <3> QED BY <1>4, <1>7, <2>1, <3>1, <3>2
  <2> QED BY <2>2, <2>3
\* Serving keeps the order of what stays, and never takes the listen before the
\* unlisten of the same location.
<1>8. CASE ServerStep
  <2>0. ~Listen(q) /\ UNCHANGED listens
    BY <1>0, <1>8 DEF ServerStep, Serve, OtherPhoneWrites, Revoke, requests, Listen,
                      Listening
  <2>1. ASSUME NEW d \in 1..Len(toServer), toServer' = Drop(toServer, d),
               \A j \in 1..(d - 1) : Topic(toServer[j]) # Topic(toServer[d])
        PROVE  Follows(i, q)
    <3> DEFINE was == IF i < d THEN i ELSE i + 1
    <3>1. was \in 1..Len(toServer) /\ toServer[was] = UnlistenRequest(q)
      BY <1>0, <2>1, <1>00, DropPlaces
    <3>2. PICK j \in (was + 1)..Len(toServer) : toServer[j] = Current(q)
      BY <2>0, <3>1, CurrentStays DEF UnlistenFirst
    <3>3. j # d
      <4> SUFFICES ASSUME j = d PROVE FALSE
        OBVIOUS
      <4>1. was \in 1..(d - 1)
        BY <3>1, <3>2
      <4>2. Topic(toServer[was]) = q /\ Topic(toServer[d]) = q
        BY <3>1, <3>2 DEF Topic, Current, UnlistenRequest, ListenRequest
      <4> QED BY <2>1, <4>1, <4>2
    <3>4. Current(q)' = Current(q)
      BY <2>0 DEF Current
    <3>5. j \in 1..Len(toServer)
      BY <3>1, <3>2
    <3>6. CASE j < d
      <4>1. j \in 1..Len(toServer') /\ toServer'[j] = Current(q)
        BY <1>00, <2>1, <3>2, <3>5, <3>6, DropPlaces
      <4>2. j \in (i + 1)..Len(toServer')
        BY <3>2, <3>6, <4>1
      <4> QED BY <3>4, <4>1, <4>2
    <3>7. CASE j > d
      <4>1. j - 1 \in 1..Len(toServer') /\ toServer'[j - 1] = Current(q)
        BY <1>00, <2>1, <3>2, <3>5, <3>7, DropPlaces
      <4>2. j - 1 \in (i + 1)..Len(toServer')
        BY <3>2, <3>7, <4>1
      <4> QED BY <3>4, <4>1, <4>2
    <3> QED BY <3>3, <3>5, <3>6, <3>7
  <2> QED BY <1>3, <1>8, <2>0, <2>1, ServerSays DEF ServerStep
<1>9. CASE HearStep
  <2>1. ~Listen(q)
    BY <1>0, <1>9, ListensChange
       DEF HearStep, Listen, PutAnswered, ListenAnswered, DataReceived,
           OnListenRevoked, HearsAnswer, Hears
  <2> QED BY <1>3, <1>9, <2>1, HearPlaces
<1>10. CASE UNCHANGED <<listens, wire>>
  <2>1. ~Listen(q)
    BY <1>0, <1>10 DEF Listen, Listening
  <2> QED BY <1>3, <1>10, <2>1 DEF wire
<1> QED BY <1>1, <1>2, <1>5, <1>6, <1>7, <1>8, <1>9, <1>10, StepCases

\* A location whose refusal is heard is no longer listened to.
LEMMA RefusalEnds ==
    ASSUME TypeOK, HearStep, NEW q \in Listening,
           fromServer[1] \in {Revoked(q), Answer(Current(q), "denied")}
    PROVE  q \notin Listening'
<1>0. /\ fromServer[1] = Head(fromServer) /\ q \in Queries
      /\ listens \in [Queries -> 0..MaxListens]
  BY HearPlaces DEF Listening, TypeOK
<1>1. CASE Head(fromServer) = Revoked(q)
  <2>1. Head(fromServer).kind = "revoked" /\ Head(fromServer).query = q
    BY <1>1 DEF Revoked
  <2>2. OnListenRevoked
    BY <2>1 DEF HearStep, PutAnswered, ListenAnswered, DataReceived, HearsAnswer, Hears
  <2> QED BY <1>0, <2>1, <2>2 DEF OnListenRevoked, Listening
<1>2. CASE Head(fromServer) = Answer(Current(q), "denied")
  <2>1. /\ Head(fromServer).kind = "answer" /\ Head(fromServer).status = "denied"
        /\ Head(fromServer).to.kind = "listen" /\ Head(fromServer).to.query = q
        /\ Head(fromServer).to.number = listens[q]
    BY <1>2 DEF Answer, Current, ListenRequest
  <2>2. ListenAnswered
    BY <2>1 DEF HearStep, PutAnswered, OnListenRevoked, DataReceived, HearsAnswer, Hears
  <2> QED BY <1>0, <2>1, <2>2 DEF ListenAnswered, Listening
<1> QED BY <1>0, <1>1, <1>2

LEMMA ServedStep ==
    ASSUME TypeOK, RetryExactlyWhenIdle, WireIsOpen, UnlistenFirst, ServedOrDue, [Next]_vars
    PROVE  ServedOrDue'
<1>0. SUFFICES ASSUME NEW q \in Listening', CanSend'
               PROVE  q \in serving' \/ Asked(q)' \/ Refused(q)'
  BY DEF ServedOrDue
<1>00. q \in Queries /\ toServer \in Seq(Requests) /\ Len(toServer) \in Nat
  BY LenProperties DEF Listening, TypeOK
<1>1. CASE Handshake
  <2>1. UNCHANGED listens /\ \E order \in Orders(Listening) : RestoreState(order)
    BY <1>1 DEF Handshake
  <2> QED BY <1>0, <2>1, RestoreCovers DEF Asked, Current, Listening
<1>2. CASE Listen(q) /\ CanSend
  <2>1. /\ Send(ListenRequest(q, listens'[q])) /\ listens'[q] \in 1..MaxListens
    BY <1>2, <1>00, ListenNumber DEF Listen
  <2>2. ListenRequest(q, listens'[q]) \in Requests
    BY <1>00, <2>1, RequestFacts
  <2>3. /\ Len(toServer) + 1 \in 1..Len(toServer')
        /\ toServer'[Len(toServer) + 1] = Current(q)'
    BY <1>00, <1>2, <2>1, <2>2, SendPlaces DEF Current
  <2> QED BY <2>3 DEF Asked
<1>3. ASSUME ~Listen(q), CanSend
      PROVE  /\ listens'[q] = listens[q] /\ Current(q)' = Current(q) /\ q \in Listening
             /\ q \in serving \/ Asked(q) \/ Refused(q)
  BY <1>3, CurrentStays DEF ServedOrDue
<1>4. ASSUME ~Listen(q), CanSend, UNCHANGED <<fromServer, serving>>,
             toServer' = toServer \/ \E r \in Requests : Send(r)
      PROVE  q \in serving' \/ Asked(q)' \/ Refused(q)'
  <2>1. Asked(q) => Asked(q)'
    BY <1>00, <1>3, <1>4, AskedStays DEF Asked
  <2>2. Refused(q) => Refused(q)'
    BY <1>3, <1>4 DEF Refused
  <2> QED BY <1>3, <1>4, <2>1, <2>2
<1>5. CASE ServerStep /\ ~Listen(q) /\ CanSend
  <2>1. /\ Extends /\ \A k \in serving : StaysWatched(k)
        /\ \/ toServer' = toServer
           \/ \E i \in 1..Len(toServer) : toServer' = Drop(toServer, i) /\ Taken(toServer[i])
    BY <1>5, ServerSays DEF ServerStep
  <2>2. \A i \in NewPlaces : i \in 1..Len(fromServer')
    BY <2>1 DEF Extends, NewPlaces
  <2>3. CASE Refused(q)
    <3>1. \A i \in 1..Len(fromServer) : i \in 1..Len(fromServer')
      BY <2>1 DEF Extends
    <3> QED BY <1>3, <1>5, <2>1, <2>3, <3>1 DEF Refused, Extends
  <2>4. CASE Asked(q)
    <3>1. PICK i \in 1..Len(toServer) : toServer[i] = Current(q)
      BY <2>4 DEF Asked
    <3>2. \/ toServer' = toServer
          \/ \E j \in 1..Len(toServer) : j # i /\ toServer' = Drop(toServer, j)
          \/ Taken(Current(q))
      BY <2>1, <3>1
    <3>3. Taken(Current(q)) => q \in serving' \/ Refused(q)'
      <4>1. Current(q).kind = "listen" /\ Current(q).query = q
        BY DEF Current, ListenRequest
      <4> QED BY <1>3, <1>5, <2>2, <4>1 DEF Taken, Refused
    <3> QED BY <1>00, <1>3, <1>5, <3>1, <3>2, <3>3, AskedStays
  <2>5. CASE q \in serving
    <3>1. CASE \E i \in NewPlaces : fromServer'[i] = Revoked(q)
      BY <2>2, <3>1 DEF Refused
    <3>2. ASSUME NEW i \in 1..Len(toServer), toServer[i] = UnlistenRequest(q),
                 toServer' = Drop(toServer, i)
          PROVE  Asked(q)'
      <4>1. PICK j \in (i + 1)..Len(toServer) : toServer[j] = Current(q)
        BY <1>3, <1>5, <3>2 DEF UnlistenFirst
      <4>2. j \in 1..Len(toServer) /\ i # j
        BY <4>1
      <4> QED BY <1>00, <1>3, <1>5, <3>2, <4>1, <4>2, AskedStays
    <3> QED BY <2>1, <2>5, <3>1, <3>2 DEF StaysWatched
  <2> QED BY <1>3, <1>5, <2>3, <2>4, <2>5
<1>6. CASE HearStep /\ ~Listen(q) /\ CanSend
  <2>1. Refused(q) => Refused(q)'
    <3> SUFFICES ASSUME NEW i \in 1..Len(fromServer),
                        fromServer[i] \in {Revoked(q), Answer(Current(q), "denied")}
                 PROVE  Refused(q)'
      BY DEF Refused
    <3>1. i # 1
      BY <1>0, <1>3, <1>6, RefusalEnds
    <3>2. i \in 2..Len(fromServer)
      BY <3>1, <1>6, HearPlaces
    <3>3. i - 1 \in 1..Len(fromServer') /\ fromServer'[i - 1] = fromServer[i]
      BY <1>6, <3>2, HearPlaces
    <3> QED BY <1>3, <1>6, <3>3 DEF Refused
  <2>2. Asked(q) => Asked(q)'
    BY <1>00, <1>3, <1>6, HearPlaces, AskedStays DEF Asked
  <2> QED BY <1>3, <1>6, <2>1, <2>2, HearPlaces
<1>7. CASE Put /\ ~Listen(q) /\ CanSend
  <2>1. putCounter' \in Puts
    BY <1>7, BoundsAreNat DEF Put, Puts, TypeOK
  <2> QED BY <1>4, <1>7, <2>1, RequestFacts DEF Put, server
<1>8. ASSUME NEW k \in Queries, Unlisten(k), ~Listen(q), CanSend
      PROVE  q \in serving' \/ Asked(q)' \/ Refused(q)'
  BY <1>4, <1>8, RequestFacts DEF Unlisten, server
<1>9. ASSUME NEW k \in Queries, Listen(k), ~Listen(q), CanSend
      PROVE  q \in serving' \/ Asked(q)' \/ Refused(q)'
  <2>1. listens'[k] \in 1..MaxListens
    BY <1>9, ListenNumber
  <2> QED BY <1>4, <1>9, <2>1, RequestFacts DEF Listen, server
<1>10. CASE UNCHANGED <<listens, wire, serving, applied>> /\ ~Listen(q) /\ CanSend
  BY <1>4, <1>10 DEF wire
<1> QED BY <1>0, <1>1, <1>2, <1>5, <1>6, <1>7, <1>8, <1>9, <1>10, StepCases

ListeningInv == RetryExactlyWhenIdle /\ ListensInv /\ NumbersUsed /\ UnlistenFirst /\ ServedOrDue

LEMMA ListeningInvariant == Spec => []ListeningInv
<1>1. Init => ListeningInv
  <2> SUFFICES ASSUME Init PROVE ListeningInv
    OBVIOUS
  <2>1. RetryExactlyWhenIdle /\ ListensInv
    BY RetryInit, EmptyWire DEF Init, ListensInv, OnWire, WireIsOpen
  <2>2. NumbersUsed
    BY DEF Init, NumbersUsed, Events
  <2>3. UnlistenFirst /\ ServedOrDue
    BY DEF Init, UnlistenFirst, ServedOrDue, Listening
  <2> QED BY <2>1, <2>2, <2>3 DEF ListeningInv
<1>2. TypeOK /\ TypeOK' /\ ListeningInv /\ [Next]_vars => ListeningInv'
  BY RetryStep, WireStep, ListensStep, NumbersStep, UnlistenStep, ServedStep
     DEF ListeningInv, ListensInv
<1> QED BY <1>1, <1>2, ConnectionTyped, PTL DEF Spec

-----------------------------------------------------------------------------
(* Views.  They are kept exactly while they are listened to, and what is    *)
(* known of a location only grows: the server forgets no write, and its     *)
(* pushes arrive in their order.                                            *)

ViewsOfListening == complete \subseteq Listening

DataAt(i) == fromServer[i].kind = "data"

DataGrows ==
    /\ \A q \in Queries : serverCache[q] \subseteq Stored
    /\ \A i \in 1..Len(fromServer) : DataAt(i) =>
          /\ fromServer[i].value \subseteq Stored
          /\ \A q \in Queries : serverCache[q] \subseteq fromServer[i].value
          /\ \A j \in 1..(i - 1) : DataAt(j) =>
                fromServer[j].value \subseteq fromServer[i].value

\* A write of the tree waits for its answer, or was answered while a listen is due.
PendingWrites ==
    allWrites \subseteq Elements(outstandingPuts) \cup {c.put : c \in Elements(putsToAck)}

LEMMA DBStepIsStep == [DBNext]_dbVars => [Next]_vars
<1>1. DBNext => Next
  BY DEF DBNext, Next, ConnectionOnly, Observe, Unobserve, Set,
         PurgeOutstandingWrites, WriteAnswered, ObserveAnswered, DataUpdate,
         ObserveRevoked
<1> QED BY <1>1 DEF dbVars

\* What is known of a location that stays listened to changes by data alone.
LEMMA CacheStep ==
    ASSUME TypeOK, SyncTyped, [DBNext]_dbVars, ~DataUpdate, NEW q \in Queries
    PROVE  \/ serverCache'[q] = serverCache[q] /\ (q \in complete' => q \in complete)
           \/ serverCache'[q] = {} /\ q \notin complete' /\ q \notin Listening'
<1>0. listens \in [Queries -> 0..MaxListens] /\ serverCache \in [Queries -> Values]
  BY DEF TypeOK, SyncTyped
<1>1. CASE UNCHANGED <<complete, serverCache>>
  BY <1>1
<1>2. ASSUME NEW gone, ForgetViews(gone), q \in gone => q \notin Listening'
      PROVE  \/ serverCache'[q] = serverCache[q] /\ (q \in complete' => q \in complete)
             \/ serverCache'[q] = {} /\ q \notin complete' /\ q \notin Listening'
  BY <1>2 DEF ForgetViews
<1>3. ASSUME NEW k \in Queries, Unobserve(k), q \in {k} PROVE q \notin Listening'
  BY <1>0, <1>3 DEF Unobserve, Unlisten, Listening
<1>4. ASSUME ObserveAnswered, listens'[q] # listens[q] PROVE q \notin Listening'
  BY <1>0, <1>4 DEF ObserveAnswered, ListenAnswered, Listening
<1>5. ASSUME ObserveRevoked, q \in {Head(fromServer).query} PROVE q \notin Listening'
  BY <1>0, <1>5 DEF ObserveRevoked, OnListenRevoked, Listening
<1>6. CASE \E k \in Queries : Unobserve(k)
  BY <1>2, <1>3, <1>6 DEF Unobserve
<1>7. CASE ObserveAnswered
  BY <1>2, <1>4, <1>7 DEF ObserveAnswered
<1>8. CASE ObserveRevoked
  BY <1>2, <1>5, <1>8 DEF ObserveRevoked
<1> QED BY <1>1, <1>6, <1>7, <1>8
        DEF DBNext, dbVars, syncTree, ConnectionOnly, Observe, Set, WriteAnswered,
            PurgeOutstandingWrites

LEMMA DataUpdateFacts ==
    ASSUME TypeOK, SyncTyped, DataUpdate, NEW q \in Queries
    PROVE  /\ HearStep /\ UNCHANGED <<listens, putsToAck>>
           /\ DataAt(1) /\ fromServer[1] \in Messages
           /\ IF q = fromServer[1].query /\ q \in Listening
              THEN serverCache'[q] = fromServer[1].value
              ELSE serverCache'[q] = serverCache[q] /\ (q \in complete' => q \in complete)
<1>1. HearStep /\ UNCHANGED <<listens, putsToAck>> /\ Head(fromServer).kind = "data"
  BY DEF DataUpdate, DataReceived, HearStep, Hears, requests
<1>2. fromServer[1] = Head(fromServer) /\ fromServer[1] \in Messages
  BY <1>1, HearPlaces
<1> QED BY <1>1, <1>2 DEF DataUpdate, SyncTyped, DataAt

LEMMA ViewsStep ==
    ASSUME TypeOK, SyncTyped, ViewsOfListening, [DBNext]_dbVars
    PROVE  ViewsOfListening'
<1> SUFFICES ASSUME NEW q \in complete', TypeOK' PROVE q \in Listening'
  BY TypeStep, DBStepIsStep DEF ViewsOfListening
<1>0. q \in Queries
  <2>1. SyncTyped'
    BY SyncStep
  <2> QED BY <2>1 DEF SyncTyped
<1>1. CASE DataUpdate
  <2>1. q \in Listening
    BY <1>0, <1>1, DataUpdateFacts DEF ViewsOfListening
  <2> QED BY <1>0, <1>1, <2>1, DataUpdateFacts DEF Listening
<1>2. CASE ~DataUpdate
  <2>1. q \in Listening /\ q \in complete
    BY <1>0, <1>2, CacheStep DEF ViewsOfListening
  <2>2. SUFFICES ASSUME listens'[q] # listens[q] PROVE FALSE
    BY <1>0, <2>1 DEF Listening
  <2>3. CASE \E k \in Queries : Unobserve(k)
    BY <2>2, <2>3 DEF Unobserve, Unlisten, ForgetViews, TypeOK
  <2>4. CASE ObserveAnswered
    BY <1>0, <2>2, <2>4 DEF ObserveAnswered, ForgetViews
  <2>5. CASE ObserveRevoked
    BY <2>2, <2>5 DEF ObserveRevoked, OnListenRevoked, ForgetViews, TypeOK
  <2>6. CASE \E k \in Queries : Observe(k)
    BY <2>1, <2>2, <2>6 DEF Observe, Listen, Listening, TypeOK
  <2> QED BY <1>2, <2>2, <2>3, <2>4, <2>5, <2>6
          DEF DBNext, dbVars, vars, requests, ConnectionOnly, Set, WriteAnswered,
              PurgeOutstandingWrites, RetryFires, Handshake, ConnectionLost, Interrupt,
              OnKill, InterruptForReason, OnDisconnect, Resume, ResumeForReason,
              Reachable, Put, Purge, PutAnswered, Serve, OtherPhoneWrites, Revoke
<1> QED BY <1>1, <1>2

LEMMA DataStep ==
    ASSUME TypeOK, SyncTyped, RetryExactlyWhenIdle, WireIsOpen, DataGrows, [DBNext]_dbVars
    PROVE  DataGrows'
<1>0. Stored \subseteq Stored' /\ [Next]_vars
  BY DBStepIsStep, Grows
<1>1. ASSUME ~DataUpdate, NEW q \in Queries
      PROVE  serverCache'[q] \subseteq serverCache[q]
  BY <1>1, CacheStep
<1>2. ASSUME NEW q \in Queries PROVE serverCache'[q] \subseteq Stored'
  <2>1. CASE DataUpdate
    <3>1. HearStep /\ DataAt(1) /\ 1 \in 1..Len(fromServer)
      BY <2>1, DataUpdateFacts, HearPlaces
    <3>2. fromServer[1].value \subseteq Stored
      BY <3>1 DEF DataGrows
    <3> QED BY <1>0, <2>1, <3>2, DataUpdateFacts DEF DataGrows
  <2> QED BY <1>0, <1>1, <2>1 DEF DataGrows
<1>3. CASE HearStep
  <2> SUFFICES ASSUME NEW i \in 1..Len(fromServer'), DataAt(i)'
               PROVE  /\ fromServer'[i].value \subseteq Stored'
                      /\ \A q \in Queries : serverCache'[q] \subseteq fromServer'[i].value
                      /\ \A j \in 1..(i - 1) : DataAt(j)' =>
                            fromServer'[j].value \subseteq fromServer'[i].value
    BY <1>2 DEF DataGrows
  <2>1. /\ i + 1 \in 2..Len(fromServer) /\ fromServer'[i] = fromServer[i + 1]
        /\ Len(fromServer) \in Nat /\ Len(fromServer') = Len(fromServer) - 1
    BY <1>3, HearPlaces
  <2>2. i + 1 \in 1..Len(fromServer) /\ DataAt(i + 1) /\ 1 \in 1..((i + 1) - 1)
    BY <2>1 DEF DataAt
  <2>3. /\ fromServer[i + 1].value \subseteq Stored
        /\ \A q \in Queries : serverCache[q] \subseteq fromServer[i + 1].value
        /\ \A j \in 1..((i + 1) - 1) : DataAt(j) =>
              fromServer[j].value \subseteq fromServer[i + 1].value
    BY <2>2 DEF DataGrows
  <2>4. ASSUME NEW j \in 1..(i - 1), DataAt(j)'
        PROVE  fromServer'[j].value \subseteq fromServer'[i].value
    <3>1. j \in 1..Len(fromServer') /\ j + 1 \in 1..((i + 1) - 1)
      BY <2>1
    <3>2. fromServer'[j] = fromServer[j + 1]
      BY <1>3, <3>1, HearPlaces
    <3> QED BY <2>1, <2>3, <2>4, <3>1, <3>2 DEF DataAt
  <2>5. ASSUME NEW q \in Queries
        PROVE  serverCache'[q] \subseteq fromServer'[i].value
    <3>1. CASE DataUpdate
      <4>1. DataAt(1)
        BY <3>1, DataUpdateFacts
      <4> QED BY <2>1, <2>2, <2>3, <3>1, <4>1, DataUpdateFacts
    <3> QED BY <1>1, <2>1, <2>3, <3>1
  <2> QED BY <1>0, <2>1, <2>3, <2>4, <2>5
<1>4. CASE ~HearStep /\ UNCHANGED fromServer
  <2>1. ~DataUpdate
    BY <1>4 DEF DataUpdate, HearStep
  <2> QED BY <1>0, <1>1, <1>2, <1>4, <2>1 DEF DataGrows, DataAt
<1>5. CASE fromServer' = <<>>
  BY <1>2, <1>5 DEF DataGrows
<1>6. CASE ~HearStep /\ ServerStep
  <2>1. ~DataUpdate
    BY <1>6 DEF DataUpdate, HearStep
  <2>2. Extends /\ \A i \in NewPlaces : Added(i)
    BY <1>6, ServerSays DEF ServerStep
  <2> SUFFICES ASSUME NEW i \in 1..Len(fromServer'), DataAt(i)'
               PROVE  /\ fromServer'[i].value \subseteq Stored'
                      /\ \A q \in Queries : serverCache'[q] \subseteq fromServer'[i].value
                      /\ \A j \in 1..(i - 1) : DataAt(j)' =>
                            fromServer'[j].value \subseteq fromServer'[i].value
    BY <1>2 DEF DataGrows
  <2>3. \A k \in 1..Len(fromServer') : k \in 1..Len(fromServer) \/ k \in NewPlaces
    BY <2>2 DEF Extends, NewPlaces
  <2>4. ASSUME NEW k \in NewPlaces, DataAt(k)'
        PROVE  fromServer'[k].value = Stored'
    <3>1. \A r, status : Answer(r, status).kind # "data"
      BY DEF Answer
    <3> QED BY <2>2, <2>4, <3>1 DEF Added, DataAt
  <2>5. ASSUME NEW k \in 1..Len(fromServer), DataAt(k)'
        PROVE  /\ fromServer'[k] = fromServer[k] /\ DataAt(k)
               /\ fromServer'[k].value \subseteq Stored
    BY <2>2, <2>5 DEF Extends, DataAt, DataGrows
  <2>6. CASE i \in NewPlaces
    <3>1. ASSUME NEW j \in 1..(i - 1), DataAt(j)'
          PROVE  fromServer'[j].value \subseteq Stored'
      <4>1. j \in 1..Len(fromServer')
        BY <2>2 DEF Extends
      <4> QED BY <1>0, <2>3, <2>4, <2>5, <3>1, <4>1
    <3> QED BY <1>2, <2>4, <2>6, <3>1
  <2>7. CASE i \in 1..Len(fromServer)
    <3>1. /\ fromServer'[i] = fromServer[i]
          /\ fromServer[i].value \subseteq Stored
          /\ \A q \in Queries : serverCache[q] \subseteq fromServer[i].value
          /\ \A j \in 1..(i - 1) : DataAt(j) =>
                fromServer[j].value \subseteq fromServer[i].value
      BY <2>5, <2>7 DEF DataGrows
    <3>2. ASSUME NEW j \in 1..(i - 1), DataAt(j)'
          PROVE  fromServer'[j].value \subseteq fromServer[i].value
      <4>1. j \in 1..Len(fromServer)
        BY <2>2, <2>7 DEF Extends
      <4> QED BY <2>5, <3>1, <3>2, <4>1
    <3> QED BY <1>0, <1>1, <2>1, <3>1, <3>2
  <2> QED BY <2>3, <2>6, <2>7
<1> QED BY <1>0, <1>3, <1>4, <1>5, <1>6, StepCases
        DEF Handshake, Put, Listen, Unlisten, wire

-----------------------------------------------------------------------------
(* The writes of the tree.                                                 *)

\* The part that was added to a sequence.
LEMMA AddedPart ==
    ASSUME NEW S, NEW s \in Seq(S), NEW t \in Seq(S)
    PROVE  Elements(SubSeq(s \o t, Len(s) + 1, Len(s \o t))) = Elements(t)
<1>1. /\ s \o t \in Seq(S) /\ Len(s \o t) = Len(s) + Len(t)
      /\ \A i \in 1..(Len(s) + Len(t)) :
            (s \o t)[i] = IF i <= Len(s) THEN s[i] ELSE t[i - Len(s)]
      /\ Len(s) \in Nat /\ Len(t) \in Nat
  BY ConcatProperties, LenProperties
<1> DEFINE all == s \o t
           part == SubSeq(all, Len(s) + 1, Len(s) + Len(t))
<1>2. ASSUME NEW i \in (Len(s) + 1)..(Len(s) + Len(t))
      PROVE  i - Len(s) \in 1..Len(t) /\ all[i] = t[i - Len(s)] /\ all[i] \in S
  <2>1. /\ i \in 1..(Len(s) + Len(t)) /\ ~(i <= Len(s)) /\ i - Len(s) \in 1..Len(t)
    BY <1>1
  <2> QED BY <1>1, <2>1, ElementOfSeq
<1> HIDE DEF all
<1>3. /\ Len(part) = Len(t)
      /\ \A i \in 1..Len(t) : part[i] = t[i]
  <2>1. /\ Len(part) = IF Len(s) + 1 <= Len(s) + Len(t)
                       THEN (Len(s) + Len(t)) - (Len(s) + 1) + 1 ELSE 0
        /\ \A i \in 1..((Len(s) + Len(t)) - (Len(s) + 1) + 1) :
              part[i] = all[(Len(s) + 1) + i - 1]
    <3>1. Len(s) + 1 \in Int /\ Len(s) + Len(t) \in Int
      BY <1>1
    <3> QED BY <1>2, <3>1, SubSeqProperties
  <2>2. ASSUME NEW i \in 1..Len(t) PROVE part[i] = t[i]
    <3>1. /\ i \in 1..((Len(s) + Len(t)) - (Len(s) + 1) + 1)
          /\ (Len(s) + 1) + i - 1 \in (Len(s) + 1)..(Len(s) + Len(t))
          /\ ((Len(s) + 1) + i - 1) - Len(s) = i
      BY <1>1
    <3>2. part[i] = all[(Len(s) + 1) + i - 1]
      BY <2>1, <3>1
    <3>3. all[(Len(s) + 1) + i - 1] = t[((Len(s) + 1) + i - 1) - Len(s)]
      BY <1>2, <3>1
    <3> QED BY <3>1, <3>2, <3>3
  <2>3. Len(part) = Len(t)
    BY <1>1, <2>1
  <2> QED BY <2>2, <2>3
<1>4. Elements(part) = Elements(t)
  BY <1>3 DEF Elements
<1> QED BY <1>1, <1>4 DEF all

\* The callbacks called in a step, by what is added to the history.
LEMMA ReportedIs ==
    ASSUME TypeOK
    PROVE  /\ completed' = completed => Elements(Reported) = {}
           /\ \A c \in Completions :
                 completed' = Append(completed, c) => Elements(Reported) = {c}
           /\ \A t \in Seq(Completions) :
                 completed' = completed \o t => Elements(Reported) = Elements(t)
<1>1. completed \in Seq(Completions)
  BY DEF TypeOK
<1>2. \A t \in Seq(Completions) :
         completed' = completed \o t => Elements(Reported) = Elements(t)
  BY <1>1, AddedPart DEF Reported
<1>3. completed' = completed => Elements(Reported) = {}
  <2>1. <<>> \in Seq(Completions) /\ completed \o <<>> = completed
    BY <1>1, EmptySeq, ConcatEmptySeq
  <2>2. Elements(<<>>) = {}
    BY DEF Elements
  <2> QED BY <1>2, <2>1, <2>2
<1>4. ASSUME NEW c \in Completions, completed' = Append(completed, c)
      PROVE  Elements(Reported) = {c}
  <2> DEFINE one == <<c>>
  <2>1. one \in Seq(Completions) /\ completed' = completed \o one
    BY <1>1, <1>4, AppendIsConcat
  <2>2. Elements(one) = {c}
    BY DEF Elements
  <2> HIDE DEF one
  <2> QED BY <1>2, <2>1, <2>2
<1> QED BY <1>2, <1>3, <1>4

\* What becomes of a write that is answered: it is reported, waits for the
\* listens, or was purged before.
LEMMA AnswerKinds ==
    ASSUME TypeOK, AnswersBacked, PutAnswered
    PROVE  LET c == Completion(Head(fromServer).to.put, Head(fromServer).status)
           IN  /\ c \in Completions /\ c.status \in {"ok", "denied"}
               /\ c.put = Head(fromServer).to.put
               /\ fromServer[1] = Answer(PutRequest(c.put), c.status)
               /\ \/ /\ UNCHANGED <<outstandingPuts, putsToAck, completed>>
                     /\ Elements(Reported) = {}
                  \/ /\ Elements(outstandingPuts) = Elements(outstandingPuts') \cup {c.put}
                     /\ Elements(putsToAck') = Elements(putsToAck) \cup {c}
                     /\ Elements(Reported) = {} /\ unackedListensCount # 0
                     /\ completed' = completed
                  \/ /\ Elements(outstandingPuts) = Elements(outstandingPuts') \cup {c.put}
                     /\ putsToAck' = putsToAck /\ completed' = Append(completed, c)
                     /\ Elements(Reported) = {c} /\ unackedListensCount = 0
<1> DEFINE c == Completion(Head(fromServer).to.put, Head(fromServer).status)
<1>1. /\ Head(fromServer) \in Messages /\ Head(fromServer).kind = "answer"
      /\ Head(fromServer).to.kind = "put" /\ fromServer[1] = Head(fromServer)
  BY HearsFacts, HearPlaces DEF PutAnswered, HearsAnswer, HearStep
<1>2. /\ Head(fromServer).to.put \in Puts /\ Head(fromServer).status \in Statuses
      /\ Head(fromServer).to = PutRequest(Head(fromServer).to.put)
  BY <1>1, MessageKinds, RequestKinds
<1>3. /\ c \in Completions /\ c.status # "canceled"
      /\ c.put = Head(fromServer).to.put /\ c.status = Head(fromServer).status
  BY <1>2, AnswerReport, CompletionFacts
<1>4. c.status \in {"ok", "denied"}
  BY <1>3 DEF Completions, Statuses
<1>5. fromServer[1] = Answer(PutRequest(c.put), c.status)
  BY <1>1, <1>2, <1>3 DEF Answer, Messages
<1> HIDE DEF c
<1>6. /\ completed \in Seq(Completions) /\ putsToAck \in Seq(Completions)
      /\ outstandingPuts \in Seq(Puts)
  BY DEF TypeOK
<1>7. CASE UNCHANGED <<outstandingPuts, putsToAck, completed>>
  BY <1>3, <1>4, <1>5, <1>7, ReportedIs DEF c
<1>8. ASSUME NEW i \in 1..Len(outstandingPuts), outstandingPuts[i] = c.put,
             outstandingPuts' = Drop(outstandingPuts, i), Report(c)
      PROVE  \/ /\ Elements(outstandingPuts) = Elements(outstandingPuts') \cup {c.put}
                /\ Elements(putsToAck') = Elements(putsToAck) \cup {c}
                /\ Elements(Reported) = {} /\ unackedListensCount # 0
                /\ completed' = completed
             \/ /\ Elements(outstandingPuts) = Elements(outstandingPuts') \cup {c.put}
                /\ putsToAck' = putsToAck /\ completed' = Append(completed, c)
                /\ Elements(Reported) = {c} /\ unackedListensCount = 0
  <2>1. Elements(outstandingPuts) = Elements(outstandingPuts') \cup {c.put}
    BY <1>6, <1>8, ElementsDrop
  <2>2. CASE /\ unackedListensCount = 0
             /\ completed' = Append(completed, c) /\ UNCHANGED putsToAck
    BY <1>3, <2>1, <2>2, ReportedIs
  <2>3. CASE /\ unackedListensCount # 0
             /\ putsToAck' = Append(putsToAck, c) /\ UNCHANGED completed
    BY <1>3, <1>6, <2>1, <2>3, ReportedIs, ElementsAppend
  <2> QED BY <1>8, <2>2, <2>3 DEF Report
<1>9. \/ UNCHANGED <<outstandingPuts, putsToAck, completed>>
      \/ \E i \in 1..Len(outstandingPuts) :
            /\ outstandingPuts[i] = c.put /\ outstandingPuts' = Drop(outstandingPuts, i)
            /\ Report(c)
  BY <1>3 DEF PutAnswered, c
<1> QED BY <1>3, <1>4, <1>5, <1>7, <1>8, <1>9 DEF c

LEMMA PendingStep ==
    ASSUME TypeOK, SyncTyped, BackedInv, PendingWrites, [DBNext]_dbVars
    PROVE  PendingWrites'
<1> DEFINE Waiting == Elements(outstandingPuts) \cup {c.put : c \in Elements(putsToAck)}
           WaitingThen == Elements(outstandingPuts') \cup {c.put : c \in Elements(putsToAck')}
<1>0. SUFFICES allWrites' \subseteq WaitingThen
  BY DEF PendingWrites, Elements
<1>00. /\ allWrites \subseteq Waiting /\ AnswersBacked
       /\ completed \in Seq(Completions) /\ putsToAck \in Seq(Completions)
       /\ outstandingPuts \in Seq(Puts)
  BY DEF PendingWrites, BackedInv, TypeOK
<1>1. CASE UNCHANGED <<allWrites, outstandingPuts, putsToAck>>
  BY <1>00, <1>1
<1>2. CASE Set
  <2>1. putCounter' \in Puts
    BY <1>2, BoundsAreNat DEF Set, Put, Puts, TypeOK
  <2>2. Elements(outstandingPuts') = Elements(outstandingPuts) \cup {putCounter'}
    BY <1>00, <1>2, <2>1, ElementsAppend DEF Set, Put
  <2> QED BY <1>00, <1>2, <2>2 DEF Set, Put
<1>3. CASE WriteAnswered
  <2> DEFINE c == Completion(Head(fromServer).to.put, Head(fromServer).status)
  <2>1. /\ c.status # "canceled"
        /\ \/ /\ UNCHANGED <<outstandingPuts, putsToAck, completed>>
              /\ Elements(Reported) = {}
           \/ /\ Elements(outstandingPuts) = Elements(outstandingPuts') \cup {c.put}
              /\ Elements(putsToAck') = Elements(putsToAck) \cup {c}
              /\ Elements(Reported) = {}
           \/ /\ Elements(outstandingPuts) = Elements(outstandingPuts') \cup {c.put}
              /\ putsToAck' = putsToAck /\ Elements(Reported) = {c}
    BY <1>00, <1>3, AnswerKinds DEF WriteAnswered
  <2> HIDE DEF c
  <2>2. allWrites' = allWrites \ {d.put : d \in {e \in Elements(Reported) :
                                                     e.status # "canceled"}}
    BY <1>3 DEF WriteAnswered, AckWrites
  <2>3. CASE Elements(Reported) = {}
    <3>1. allWrites' \subseteq allWrites
      BY <2>2
    <3>2. Waiting \subseteq WaitingThen
      BY <2>1, <2>3
    <3> QED BY <1>00, <3>1, <3>2
  <2>4. CASE /\ Elements(outstandingPuts) = Elements(outstandingPuts') \cup {c.put}
             /\ putsToAck' = putsToAck /\ Elements(Reported) = {c}
    <3>1. allWrites' = allWrites \ {c.put}
      BY <2>1, <2>2, <2>4
    <3> QED BY <1>00, <2>4, <3>1
  <2> QED BY <2>1, <2>3, <2>4
<1>4. CASE ObserveAnswered
  <2>1. UNCHANGED outstandingPuts
    BY <1>4 DEF ObserveAnswered, ListenAnswered
  <2>2. allWrites' = allWrites \ {d.put : d \in {e \in Elements(Reported) :
                                                     e.status # "canceled"}}
    BY <1>4 DEF ObserveAnswered, AckWrites
  <2>3. CASE UNCHANGED <<completed, putsToAck>>
    BY <1>00, <2>1, <2>2, <2>3
  <2>4. CASE completed' = completed \o putsToAck /\ putsToAck' = <<>>
    <3>1. Elements(Reported) = Elements(putsToAck)
      BY <1>00, <2>4, ReportedIs
    <3>2. \A d \in Elements(putsToAck) : d.status # "canceled"
      BY DEF BackedInv, ReportsBacked
    <3>3. allWrites' = allWrites \ {d.put : d \in Elements(putsToAck)}
      BY <2>2, <3>1, <3>2
    <3> QED BY <1>00, <2>1, <3>3
  <2> QED BY <1>4, <2>3, <2>4 DEF ObserveAnswered, ListenAnswered
<1>5. CASE PurgeOutstandingWrites
  BY <1>5 DEF PurgeOutstandingWrites
<1>6. CASE \/ ConnectionOnly
           \/ \E q \in Queries : Observe(q) \/ Unobserve(q)
           \/ DataUpdate \/ ObserveRevoked \/ UNCHANGED dbVars
  <2>1. UNCHANGED <<allWrites, outstandingPuts, putsToAck>>
    BY <1>6
       DEF ConnectionOnly, Observe, Unobserve, DataUpdate, ObserveRevoked, dbVars,
           vars, requests, syncTree, RetryFires, Handshake, ConnectionLost, Interrupt,
           OnKill, InterruptForReason, OnDisconnect, Resume, ResumeForReason,
           Reachable, Listen, Unlisten, Revoke, DataReceived, OnListenRevoked, Serve,
           OtherPhoneWrites
  <2> QED BY <1>1, <2>1
<1> QED BY <1>2, <1>3, <1>4, <1>5, <1>6 DEF DBNext

-----------------------------------------------------------------------------
(* A client that was told that a write is stored knows it, or will.        *)

\* The client was told that p is stored: by the k-th message, or earlier.
Told(p, k) ==
    IF k = 0 THEN Completion(p, "ok") \in Elements(putsToAck)
             ELSE fromServer[k] = Answer(PutRequest(p), "ok")

\* The i-th message shows p at q.
Brings(q, p, i) == DataAt(i) /\ fromServer[i].query = q /\ p \in fromServer[i].value

\* The listen to q is answered after the k-th message, or refused.
AnswerDue(q, k) ==
    \E i \in 1..Len(fromServer) :
        /\ fromServer[i].kind = "answer" /\ fromServer[i].to = Current(q)
        /\ i > k \/ fromServer[i].status = "denied"

\* With the k-th message p is shown at q, or a listen to q is still due, so that
\* the reports of writes wait for it.
KnowsWrite(q, p, k) ==
    \/ p \in serverCache[q]
    \/ \E i \in 1..k : Brings(q, p, i) \/ fromServer[i] = Revoked(q)
    \/ ~CanSend
    \/ Asked(q)
    \/ AnswerDue(q, k)

Heard ==
    \A k \in 0..Len(fromServer), p \in Puts, q \in Listening :
        Told(p, k) => KnowsWrite(q, p, k)

\* The answer to a listen follows the data it brings, with every write the client
\* was told of before.
ListenBringsData ==
    \A i \in 1..Len(fromServer), q \in Queries, n \in 1..MaxListens :
        fromServer[i] = Answer(ListenRequest(q, n), "ok") =>
            \/ /\ i - 1 \in 1..Len(fromServer)
               /\ DataAt(i - 1) /\ fromServer[i - 1].query = q
               /\ \A p \in Puts, k \in 0..(i - 1) :
                     Told(p, k) => p \in fromServer[i - 1].value
            \/ /\ i = 1
               /\ listens[q] = n => \A p \in Puts : Told(p, 0) => p \in serverCache[q]

\* Data is heard by the views as well.
LEMMA DataIsPassedOn ==
    ASSUME TypeOK, HearStep, DataAt(1), [DBNext]_dbVars
    PROVE  DataUpdate
<1>0. /\ Head(fromServer).kind = "data" /\ UNCHANGED client
      /\ Len(fromServer) \in Nat /\ Len(fromServer') = Len(fromServer) - 1
  BY HearPlaces DEF DataAt, HearStep, PutAnswered, ListenAnswered, DataReceived,
                    OnListenRevoked
<1>1. CASE UNCHANGED fromServer
  BY <1>0, <1>1
<1>2. CASE ConnectionLost \/ Interrupt \/ OnKill
  <2>1. realtime # realtime' \/ UNCHANGED fromServer
    BY <1>2 DEF ConnectionLost, Interrupt, OnKill, InterruptForReason, OnDisconnect, wire
  <2> QED BY <1>0, <1>1, <2>1 DEF client
<1>3. CASE Serve \/ OtherPhoneWrites \/ \E q \in Queries : Revoke(q)
  <2>1. Extends
    BY <1>3, ServerSays
  <2> QED BY <1>0, <2>1 DEF Extends
<1>4. CASE WriteAnswered \/ ObserveAnswered \/ ObserveRevoked
  BY <1>0, <1>4 DEF WriteAnswered, ObserveAnswered, ObserveRevoked, PutAnswered,
                    ListenAnswered, OnListenRevoked, HearsAnswer, Hears
<1> QED BY <1>1, <1>2, <1>3, <1>4
        DEF DBNext, dbVars, vars, wire, ConnectionOnly, Observe, Unobserve, Set,
            PurgeOutstandingWrites, RetryFires, Handshake, Resume, ResumeForReason,
            Reachable, Listen, Unlisten, Put, Purge

\* A client is told by the answer to the write only.
LEMMA ToldBefore ==
    ASSUME TypeOK, AnswersBacked, [Next]_vars, NEW p \in Puts, Told(p, 0)'
    PROVE  Told(p, 0) \/ (HearStep /\ Told(p, 1))
<1> DEFINE c == Completion(Head(fromServer).to.put, Head(fromServer).status)
<1>0. Completion(p, "ok") \in Elements(putsToAck')
  BY DEF Told, Elements
<1>1. SUFFICES ASSUME Completion(p, "ok") \notin Elements(putsToAck)
               PROVE  HearStep /\ fromServer[1] = Answer(PutRequest(p), "ok")
  BY DEF Told
<1>2. CASE PutAnswered
  <2>1. /\ fromServer[1] = Answer(PutRequest(c.put), c.status)
        /\ putsToAck' = putsToAck \/ Elements(putsToAck') = Elements(putsToAck) \cup {c}
    BY <1>2, AnswerKinds
  <2>2. Completion(p, "ok") = c
    BY <1>0, <1>1, <2>1
  <2>3. c.put = p /\ c.status = "ok"
    BY <2>2 DEF Completion
  <2> QED BY <1>2, <2>1, <2>3 DEF HearStep
<1>3. Elements(<<>>) = {}
  BY DEF Elements
<1>4. CASE ListenAnswered \/ Purge \/ Put
  BY <1>0, <1>1, <1>3, <1>4 DEF ListenAnswered, Purge, Put
<1> QED BY <1>0, <1>1, <1>2, <1>4, StepKinds

\* What the client was told of is stored.
LEMMA ToldIsStored ==
    TypeOK /\ BackedInv =>
        \A k \in 0..Len(fromServer), p \in Puts : Told(p, k) => p \in Stored
<1> SUFFICES ASSUME TypeOK, BackedInv, NEW k \in 0..Len(fromServer), NEW p \in Puts,
                    Told(p, k)
             PROVE  p \in Stored
  OBVIOUS
<1>1. CASE k = 0
  <2>1. Completion(p, "ok") \in Elements(putsToAck)
    BY <1>1 DEF Told
  <2>2. Completion(p, "ok").put = p /\ Completion(p, "ok").status = "ok"
    BY DEF Completion
  <2> QED BY <2>1, <2>2 DEF BackedInv, ReportsBacked, Backed
<1>2. CASE k # 0
  <2>1. k \in 1..Len(fromServer) /\ fromServer[k] = Answer(PutRequest(p), "ok")
    BY <1>2, LenProperties DEF Told, TypeOK
  <2>2. /\ fromServer[k].kind = "answer" /\ fromServer[k].status = "ok"
        /\ fromServer[k].to.kind = "put" /\ fromServer[k].to.put = p
    BY <2>1 DEF Answer, PutRequest
  <2>3. fromServer[k] \in Elements(fromServer)
    BY <2>1 DEF Elements
  <2> QED BY <2>2, <2>3 DEF BackedInv, AnswersBacked, Backed
<1> QED BY <1>1, <1>2

LEMMA BringsStep ==
    ASSUME TypeOK, TypeOK', SyncTyped, BackedInv, BackedInv', RetryExactlyWhenIdle,
           WireIsOpen, NumbersUsed, ListenBringsData, [DBNext]_dbVars
    PROVE  ListenBringsData'
<1>0. [Next]_vars /\ AnswersBacked /\ Len(fromServer) \in Nat
  BY DBStepIsStep, LenProperties DEF BackedInv, TypeOK
<1> SUFFICES ASSUME NEW i \in 1..Len(fromServer'), NEW q \in Queries,
                    NEW n \in 1..MaxListens,
                    fromServer'[i] = Answer(ListenRequest(q, n), "ok")
             PROVE  \/ /\ i - 1 \in 1..Len(fromServer')
                       /\ DataAt(i - 1)' /\ fromServer'[i - 1].query = q
                       /\ \A p \in Puts, k \in 0..(i - 1) :
                             Told(p, k)' => p \in fromServer'[i - 1].value
                    \/ /\ i = 1
                       /\ listens'[q] = n =>
                             \A p \in Puts : Told(p, 0)' => p \in serverCache'[q]
  BY DEF ListenBringsData
<1>1. ASSUME NEW k \in Nat, k # 0, NEW j, fromServer'[k] = fromServer[j], j # 0,
             NEW p \in Puts, Told(p, k)'
      PROVE  Told(p, j)
  BY <1>1 DEF Told
\* What was the next message is the i-th.
<1>2. CASE HearStep
  <2>1. /\ i + 1 \in 2..Len(fromServer) /\ i + 1 \in 1..Len(fromServer)
        /\ fromServer'[i] = fromServer[i + 1] /\ i \in 1..Len(fromServer)
        /\ Len(fromServer') = Len(fromServer) - 1
    BY <1>2, HearPlaces
  <2>2. /\ DataAt(i) /\ fromServer[i].query = q
        /\ \A p \in Puts, k \in 0..i : Told(p, k) => p \in fromServer[i].value
    <3>1. fromServer[i + 1] = Answer(ListenRequest(q, n), "ok") /\ (i + 1) - 1 = i
      BY <2>1
    <3> QED BY <2>1, <3>1 DEF ListenBringsData
  <2>3. ASSUME NEW p \in Puts, Told(p, 0)' PROVE p \in fromServer[i].value
    BY <1>0, <2>2, <2>3, ToldBefore
  <2>4. CASE i = 1
    <3>1. ASSUME listens'[q] = n, NEW p \in Puts, Told(p, 0)' PROVE p \in serverCache'[q]
      <4>1. DataUpdate
        BY <1>2, <2>2, <2>4, DataIsPassedOn
      <4>2. UNCHANGED listens
        BY <4>1, DataUpdateFacts
      <4>3. q \in Listening
        BY <3>1, <4>2 DEF Listening
      <4>4. serverCache'[q] = fromServer[1].value
        BY <2>2, <2>4, <4>1, <4>3, DataUpdateFacts
      <4> QED BY <2>3, <2>4, <3>1, <4>4
    <3> QED BY <2>4, <3>1
  <2>5. CASE i # 1
    <3>1. /\ i - 1 \in 1..Len(fromServer')
          /\ fromServer'[i - 1] = fromServer[i]
      <4>1. i \in 2..Len(fromServer)
        BY <2>1, <2>5
      <4> QED BY <1>2, <4>1, HearPlaces
    <3>2. ASSUME NEW p \in Puts, NEW k \in 0..(i - 1), Told(p, k)'
          PROVE  p \in fromServer[i].value
      <4>1. CASE k = 0
        BY <2>3, <3>2, <4>1
      <4>2. CASE k # 0
        <5>1. k \in Nat /\ k \in 1..Len(fromServer') /\ k + 1 \in 0..i /\ k + 1 # 0
          BY <2>1, <4>2
        <5>2. fromServer'[k] = fromServer[k + 1]
          BY <1>2, <5>1, HearPlaces
        <5>3. Told(p, k + 1)
          BY <1>1, <3>2, <4>2, <5>1, <5>2
        <5> QED BY <2>2, <5>1, <5>3
      <4> QED BY <4>1, <4>2
    <3> QED BY <2>2, <3>1, <3>2 DEF DataAt
  <2> QED BY <2>4, <2>5
\* The i-th message was there, and nothing before it has changed.
<1>3. ASSUME ~HearStep, i \in 1..Len(fromServer), Len(fromServer') \in Nat,
             Len(fromServer) <= Len(fromServer'),
             \A j \in 1..Len(fromServer) : fromServer'[j] = fromServer[j]
      PROVE  \/ /\ i - 1 \in 1..Len(fromServer')
                /\ DataAt(i - 1)' /\ fromServer'[i - 1].query = q
                /\ \A p \in Puts, k \in 0..(i - 1) :
                      Told(p, k)' => p \in fromServer'[i - 1].value
             \/ /\ i = 1
                /\ listens'[q] = n =>
                      \A p \in Puts : Told(p, 0)' => p \in serverCache'[q]
  <2>1. ASSUME NEW p \in Puts, NEW k \in 0..(i - 1), Told(p, k)' PROVE Told(p, k)
    <3>1. CASE k = 0
      BY <1>0, <1>3, <2>1, <3>1, ToldBefore
    <3>2. CASE k # 0
      <4>1. k \in Nat /\ k \in 1..Len(fromServer)
        BY <1>3, <3>2
      <4> QED BY <1>1, <1>3, <2>1, <3>2, <4>1
    <3> QED BY <3>1, <3>2
  <2>2. fromServer[i] = Answer(ListenRequest(q, n), "ok")
    BY <1>3
  <2>3. CASE /\ i - 1 \in 1..Len(fromServer)
             /\ DataAt(i - 1) /\ fromServer[i - 1].query = q
             /\ \A p \in Puts, k \in 0..(i - 1) :
                   Told(p, k) => p \in fromServer[i - 1].value
    <3>1. i - 1 \in 1..Len(fromServer') /\ fromServer'[i - 1] = fromServer[i - 1]
      BY <1>0, <1>3, <2>3
    <3> QED BY <2>1, <2>3, <3>1 DEF DataAt
  <2>4. CASE /\ i = 1
             /\ listens[q] = n => \A p \in Puts : Told(p, 0) => p \in serverCache[q]
    <3>1. ASSUME listens'[q] = n, NEW p \in Puts, Told(p, 0)'
          PROVE  p \in serverCache'[q]
      \* A new listen has a number that was on no answer.
      <4>1. n <= spent["listen"]
        <5>1. /\ fromServer[i].kind = "answer" /\ fromServer[i].to.kind = "listen"
              /\ fromServer[i].to.number = n
          BY <2>2 DEF Answer, ListenRequest
        <5> QED BY <1>3, <5>1 DEF NumbersUsed
      <4>2. listens[q] = n
        <5>1. n # 0 /\ n # spent["listen"] + 1
          BY <1>0, <4>1, ListensChange
        <5> QED BY <1>0, <3>1, <5>1, ListensChange
      <4>3. q \in Listening' /\ ~DataUpdate
        BY <1>3, <3>1, DataUpdateFacts DEF Listening
      <4>4. serverCache'[q] = serverCache[q]
        BY <4>3, CacheStep
      <4>5. Told(p, 0)
        BY <1>3, <2>1, <2>4, <3>1
      <4> QED BY <2>4, <4>2, <4>4, <4>5
    <3> QED BY <2>4, <3>1
  <2> QED BY <1>3, <2>2, <2>3, <2>4 DEF ListenBringsData
<1>4. CASE ~HearStep /\ UNCHANGED fromServer
  BY <1>0, <1>3, <1>4
<1>5. CASE ~HearStep /\ ServerStep
  <2>1. Extends /\ \A j \in NewPlaces : Added(j)
    BY <1>5, ServerSays DEF ServerStep
  <2>2. CASE i \in 1..Len(fromServer)
    BY <1>3, <1>5, <2>1, <2>2 DEF Extends
  <2>3. CASE i \notin 1..Len(fromServer)
    <3>1. i \in NewPlaces
      BY <2>1, <2>3 DEF Extends, NewPlaces
    <3>2. i - 1 \in NewPlaces /\ fromServer'[i - 1] = Data(q, Stored')
      <4>1. /\ fromServer'[i].kind = "answer" /\ fromServer'[i].status = "ok"
            /\ fromServer'[i].to = ListenRequest(q, n)
            /\ ListenRequest(q, n).kind = "listen" /\ ListenRequest(q, n).query = q
        BY DEF Answer, ListenRequest
      <4>2. \A p, status : Answer(PutRequest(p), status).to.kind = "put"
        BY DEF Answer, PutRequest
      <4>3. \A r, status : Answer(r, status).to = r /\ Answer(r, status).status = status
        BY DEF Answer
      <4>4. Added(i)
        BY <2>1, <3>1
      <4> QED BY <4>1, <4>2, <4>3, <4>4 DEF Added
    <3>3. i - 1 \in 1..Len(fromServer')
      BY <2>1, <3>2 DEF Extends, NewPlaces
    <3>4. DataAt(i - 1)' /\ fromServer'[i - 1].query = q /\ fromServer'[i - 1].value = Stored'
      BY <3>2 DEF DataAt, Data
    <3>5. \A p \in Puts, k \in 0..Len(fromServer') : Told(p, k)' => p \in Stored'
      <4>1. (\A k \in 0..Len(fromServer), p \in Puts : Told(p, k) => p \in Stored)'
        BY ToldIsStored, PTL
      <4> QED BY <4>1
    <3>6. \A k \in 0..(i - 1) : k \in 0..Len(fromServer')
      BY <3>3
    <3> QED BY <3>3, <3>4, <3>5, <3>6
  <2> QED BY <2>2, <2>3
<1>6. CASE fromServer' = <<>>
  BY <1>6
<1> QED BY <1>0, <1>2, <1>4, <1>5, <1>6, StepCases
        DEF Handshake, Put, Listen, Unlisten, wire

\* Hearing takes no listener's knowledge: what the first message brought is in the
\* cache, and the answer of a listen finds it there.
LEMMA HeardShift ==
    ASSUME TypeOK, SyncTyped, AnswersBacked, DataGrows, ListenBringsData, [DBNext]_dbVars,
           HearStep, NEW q \in Listening, q \in Listening', listens'[q] = listens[q],
           NEW p \in Puts, NEW j \in 0..Len(fromServer), Told(p, j), KnowsWrite(q, p, j),
           NEW k \in 0..Len(fromServer'), j = k + 1 \/ (j = 0 /\ k = 0)
    PROVE  KnowsWrite(q, p, k)'
<1>0. /\ q \in Queries /\ Current(q)' = Current(q)
      /\ listens[q] \in 1..MaxListens
      /\ Len(fromServer) \in Nat \ {0} /\ Len(fromServer') = Len(fromServer) - 1
      /\ UNCHANGED <<toServer, connectionState>> /\ toServer \in Seq(Requests)
  <2>1. UNCHANGED connectionState
    BY DEF HearStep, client, PutAnswered, ListenAnswered, DataReceived, OnListenRevoked
  <2>2. listens[q] \in 1..MaxListens
    BY ListeningNumber
  <2> QED BY <2>1, <2>2, HearPlaces DEF Listening, Current, TypeOK
<1>1. ASSUME p \in serverCache[q] PROVE p \in serverCache'[q]
  <2>1. CASE DataUpdate
    <3>1. 1 \in 1..Len(fromServer) /\ DataAt(1)
      BY <1>0, <2>1, DataUpdateFacts, HearPlaces
    <3>2. serverCache[q] \subseteq fromServer[1].value
      BY <1>0, <3>1 DEF DataGrows
    <3> QED BY <1>0, <1>1, <2>1, <3>2, DataUpdateFacts
  <2>2. CASE ~DataUpdate
    BY <1>0, <1>1, <2>2, CacheStep
  <2> QED BY <2>1, <2>2
<1>2. fromServer[1] # Revoked(q) /\ fromServer[1] # Answer(Current(q), "denied")
  BY RefusalEnds
<1>3. ASSUME NEW i \in 1..Len(fromServer), i # 1
      PROVE  i - 1 \in 1..Len(fromServer') /\ fromServer'[i - 1] = fromServer[i]
  <2>1. i \in 2..Len(fromServer)
    BY <1>0, <1>3
  <2> QED BY <2>1, HearPlaces
<1>4. CASE p \in serverCache[q] \/ ~CanSend
  BY <1>0, <1>1, <1>4 DEF KnowsWrite, CanSend
<1>5. ASSUME NEW i \in 1..j, Brings(q, p, i) PROVE KnowsWrite(q, p, k)'
  <2>1. i \in 1..Len(fromServer)
    BY <1>0
  <2>2. CASE i = 1
    <3>1. DataAt(1) /\ fromServer[1].query = q /\ p \in fromServer[1].value
      BY <1>5, <2>2 DEF Brings
    <3>2. p \in serverCache'[q]
      BY <1>0, <3>1, DataIsPassedOn, DataUpdateFacts
    <3> QED BY <3>2 DEF KnowsWrite
  <2>3. CASE i # 1
    <3>1. i - 1 \in 1..k /\ fromServer'[i - 1] = fromServer[i]
      BY <1>0, <1>3, <2>1, <2>3
    <3>2. Brings(q, p, i - 1)'
      BY <1>5, <3>1 DEF Brings, DataAt
    <3> QED BY <3>1, <3>2 DEF KnowsWrite
  <2> QED BY <2>2, <2>3
<1>6. ASSUME NEW i \in 1..j, fromServer[i] = Revoked(q) PROVE KnowsWrite(q, p, k)'
  <2>1. i \in 1..Len(fromServer) /\ i # 1
    BY <1>0, <1>2, <1>6
  <2>2. i - 1 \in 1..k /\ fromServer'[i - 1] = Revoked(q)
    BY <1>0, <1>3, <1>6, <2>1
  <2> QED BY <2>2 DEF KnowsWrite, Revoked
<1>7. CASE Asked(q)
  <2>1. Asked(q)'
    BY <1>0, <1>7, AskedStays DEF Asked
  <2> QED BY <2>1 DEF KnowsWrite
<1>8. ASSUME NEW i \in 1..Len(fromServer), fromServer[i].kind = "answer",
             fromServer[i].to = Current(q), i > j \/ fromServer[i].status = "denied"
      PROVE  KnowsWrite(q, p, k)'
  <2>1. CASE i # 1
    <3>1. /\ i - 1 \in 1..Len(fromServer') /\ fromServer'[i - 1] = fromServer[i]
          /\ i > j => i - 1 > k
      BY <1>0, <1>3, <2>1
    <3>2. AnswerDue(q, k)'
      BY <1>0, <1>8, <3>1 DEF AnswerDue
    <3> QED BY <3>2 DEF KnowsWrite
  <2>2. CASE i = 1
    <3>1. fromServer[1] \in Messages /\ fromServer[1] \in Elements(fromServer)
      BY <2>2, HearPlaces DEF Elements
    <3>2. fromServer[1] = Answer(Current(q), fromServer[1].status)
      BY <1>8, <2>2, <3>1 DEF Messages, Answer
    <3>3. fromServer[1].status = "ok"
      <4>1. fromServer[1].status \in Statuses /\ fromServer[1].status # "canceled"
        BY <1>8, <2>2, <3>1, MessageKinds DEF AnswersBacked
      <4> QED BY <1>2, <3>2, <4>1 DEF Statuses
    <3>4. fromServer[1] = Answer(ListenRequest(q, listens[q]), "ok")
      BY <3>2, <3>3 DEF Current
    <3>5. \A r \in Puts : Told(r, 0) => r \in serverCache[q]
      <4>1. 1 - 1 \notin 1..Len(fromServer)
        BY <1>0
      <4> QED BY <1>0, <2>2, <3>4, <4>1 DEF ListenBringsData
    <3>6. j = 0
      <4>1. fromServer[1].status # "denied"
        BY <3>3
      <4> QED BY <1>8, <2>2, <4>1
    <3> QED BY <1>1, <3>5, <3>6 DEF KnowsWrite
  <2> QED BY <2>1, <2>2
<1> QED BY <1>4, <1>5, <1>6, <1>7, <1>8 DEF KnowsWrite, AnswerDue

LEMMA HeardStep ==
    ASSUME TypeOK, SyncTyped, AnswersBacked, RetryExactlyWhenIdle, WireIsOpen, ServedOrDue,
           DataGrows, ListenBringsData, Heard, [DBNext]_dbVars
    PROVE  Heard'
<1>0. [Next]_vars /\ Len(fromServer) \in Nat /\ toServer \in Seq(Requests)
  BY DBStepIsStep, LenProperties DEF TypeOK
<1> SUFFICES ASSUME NEW k \in 0..Len(fromServer'), NEW p \in Puts, NEW q \in Listening',
                    Told(p, k)', CanSend'
             PROVE  KnowsWrite(q, p, k)'
  BY DEF Heard, KnowsWrite
<1>00. q \in Queries
  BY DEF Listening
<1>1. CASE Handshake
  <2>1. UNCHANGED listens /\ \E order \in Orders(Listening) : RestoreState(order)
    BY <1>1 DEF Handshake
  <2>2. Asked(q)'
    BY <2>1, RestoreCovers DEF Asked, Current, Listening
  <2> QED BY <2>2 DEF KnowsWrite
<1>2. CASE Listen(q) /\ CanSend
  <2>1. Send(ListenRequest(q, listens'[q])) /\ listens'[q] \in 1..MaxListens
    BY <1>2, <1>00, ListenNumber DEF Listen
  <2>2. ListenRequest(q, listens'[q]) \in Requests
    BY <1>00, <2>1, RequestFacts
  <2>3. /\ Len(toServer) + 1 \in 1..Len(toServer')
        /\ toServer'[Len(toServer) + 1] = Current(q)'
    BY <1>2, <2>1, <2>2, SendPlaces DEF Current
  <2>4. Asked(q)'
    BY <2>3 DEF Asked
  <2> QED BY <2>4 DEF KnowsWrite
<1>3. ASSUME ~Listen(q), CanSend
      PROVE  /\ q \in Listening /\ listens'[q] = listens[q] /\ Current(q)' = Current(q)
             /\ q \in serving \/ Asked(q) \/ Refused(q)
             /\ \A j \in 0..Len(fromServer) : Told(p, j) => KnowsWrite(q, p, j)
             /\ ~HearStep => serverCache'[q] = serverCache[q]
  <2>1. q \in Listening /\ listens'[q] = listens[q] /\ Current(q)' = Current(q)
    BY <1>0, <1>3, CurrentStays
  <2>2. ~HearStep => serverCache'[q] = serverCache[q]
    BY <1>00, DataUpdateFacts, CacheStep
  <2> QED BY <1>3, <2>1, <2>2 DEF ServedOrDue, Heard
\* Without a word from the server, what was asked stays asked.
<1>4. ASSUME ~Listen(q), CanSend, ~HearStep, UNCHANGED fromServer,
             toServer' = toServer \/ \E r \in Requests : Send(r)
      PROVE  KnowsWrite(q, p, k)'
  <2>1. Told(p, k)
    BY <1>0, <1>4, ToldBefore DEF Told
  <2>2. KnowsWrite(q, p, k)
    BY <1>3, <1>4, <2>1
  <2>3. Asked(q) => Asked(q)'
    BY <1>00, <1>3, <1>4, AskedStays DEF Asked
  <2> QED BY <1>3, <1>4, <2>2, <2>3
          DEF KnowsWrite, AnswerDue, Brings, DataAt, Revoked
<1>5. CASE ServerStep /\ ~HearStep /\ ~Listen(q) /\ CanSend
  <2>1. /\ Extends /\ \A i \in NewPlaces : Added(i)
        /\ \/ toServer' = toServer
           \/ \E i \in 1..Len(toServer) : toServer' = Drop(toServer, i) /\ Taken(toServer[i])
    BY <1>5, ServerSays DEF ServerStep
  <2>2. /\ \A i \in NewPlaces : i \in 1..Len(fromServer') /\ i > Len(fromServer)
        /\ \A i \in 1..Len(fromServer) : i \in 1..Len(fromServer')
    BY <2>1 DEF Extends, NewPlaces
  \* A listen that was taken is answered after all that was on the wire.
  <2>3. ASSUME Asked(q)
        PROVE  \/ Asked(q)'
               \/ \E i \in NewPlaces :
                     \/ fromServer'[i] = Answer(Current(q), "denied")
                     \/ fromServer'[i] = Answer(Current(q), "ok")
    <3>1. PICK i \in 1..Len(toServer) : toServer[i] = Current(q)
      BY <2>3 DEF Asked
    <3>2. \/ toServer' = toServer
          \/ \E j \in 1..Len(toServer) : j # i /\ toServer' = Drop(toServer, j)
          \/ Taken(Current(q))
      BY <2>1, <3>1
    <3>3. Current(q).kind = "listen"
      BY DEF Current, ListenRequest
    <3> QED BY <1>00, <1>3, <1>5, <3>1, <3>2, <3>3, AskedStays DEF Taken
  <2>4. ASSUME NEW i \in 1..Len(fromServer'), NEW status,
               fromServer'[i] = Answer(Current(q), status),
               i > k \/ status = "denied"
        PROVE  KnowsWrite(q, p, k)'
    <3>1. /\ fromServer'[i].kind = "answer" /\ fromServer'[i].to = Current(q)'
          /\ fromServer'[i].status = status
      BY <1>3, <1>5, <2>4 DEF Answer
    <3>2. AnswerDue(q, k)'
      BY <2>4, <3>1 DEF AnswerDue
    <3> QED BY <3>2 DEF KnowsWrite
  <2>5. CASE k \in 0..Len(fromServer)
    <3>1. Told(p, k)
      BY <1>0, <1>5, <2>1, <2>5, ToldBefore DEF Told, Extends
    <3>2. KnowsWrite(q, p, k)
      BY <1>3, <1>5, <2>5, <3>1
    <3>3. CASE p \in serverCache[q] \/ ~CanSend
      BY <1>3, <1>5, <3>3 DEF KnowsWrite
    <3>4. ASSUME NEW i \in 1..k, Brings(q, p, i) \/ fromServer[i] = Revoked(q)
          PROVE  KnowsWrite(q, p, k)'
      <4>1. fromServer'[i] = fromServer[i]
        BY <2>1, <2>5 DEF Extends
      <4> QED BY <3>4, <4>1 DEF KnowsWrite, Brings, DataAt, Revoked
    <3>5. CASE Asked(q)
      BY <2>2, <2>3, <2>4, <2>5, <3>5 DEF KnowsWrite
    <3>6. CASE AnswerDue(q, k)
      <4>1. AnswerDue(q, k)'
        BY <1>3, <1>5, <2>1, <2>2, <3>6 DEF AnswerDue, Extends
      <4> QED BY <4>1 DEF KnowsWrite
    <3> QED BY <3>2, <3>3, <3>4, <3>5, <3>6 DEF KnowsWrite
  <2>6. CASE k \notin 0..Len(fromServer)
    <3>1. k \in NewPlaces /\ k # 0
      BY <1>0, <2>1, <2>6 DEF Extends, NewPlaces
    <3>2. fromServer'[k] = Answer(PutRequest(p), "ok")
      BY <3>1 DEF Told
    <3>3. /\ p \in Stored'
          /\ \A r \in serving : \E i \in (Len(fromServer) + 1)..(k - 1) :
                fromServer'[i] = Data(r, Stored')
      <4>1. Added(k)
        BY <2>1, <3>1
      <4>2. /\ fromServer'[k].kind = "answer" /\ fromServer'[k].status = "ok"
            /\ fromServer'[k].to.kind = "put" /\ fromServer'[k].to.put = p
        BY <3>2 DEF Answer, PutRequest
      <4>3. \A r, status :
               /\ Answer(PutRequest(r), status).status = status
               /\ Answer(PutRequest(r), status).to.put = r
        BY DEF Answer, PutRequest
      <4>4. \A r, status : Answer(r, status).to = r
        BY DEF Answer
      <4> QED BY <4>1, <4>2, <4>3, <4>4 DEF Added
    <3>4. ASSUME NEW i \in 1..(k - 1), fromServer'[i] = Data(q, Stored')
          PROVE  KnowsWrite(q, p, k)'
      <4>1. Brings(q, p, i)' /\ i \in 1..k
        BY <3>3, <3>4 DEF Brings, DataAt, Data
      <4> QED BY <4>1 DEF KnowsWrite
    <3>5. CASE q \in serving
      <4>1. PICK i \in (Len(fromServer) + 1)..(k - 1) : fromServer'[i] = Data(q, Stored')
        BY <3>3, <3>5
      <4> QED BY <1>0, <3>4, <4>1
    <3>6. CASE Asked(q)
      <4>1. CASE Asked(q)'
        BY <4>1 DEF KnowsWrite
      <4>2. ASSUME NEW i \in NewPlaces, fromServer'[i] = Answer(Current(q), "denied")
            PROVE  KnowsWrite(q, p, k)'
        BY <2>2, <2>4, <4>2
      <4>3. ASSUME NEW i \in NewPlaces, fromServer'[i] = Answer(Current(q), "ok")
            PROVE  KnowsWrite(q, p, k)'
        <5>1. /\ i # k
              /\ i - 1 \in NewPlaces /\ fromServer'[i - 1] = Data(q, Stored')
          <6>1. /\ fromServer'[i].kind = "answer" /\ fromServer'[i].status = "ok"
                /\ fromServer'[i].to = Current(q)
                /\ Current(q).kind = "listen" /\ Current(q).query = q
            BY <4>3 DEF Answer, Current, ListenRequest
          <6>2. \A r, status : Answer(PutRequest(r), status).to.kind = "put"
            BY DEF Answer, PutRequest
          <6>3. \A r, status : Answer(r, status).to = r /\ Answer(r, status).status = status
            BY DEF Answer
          <6>4. Added(i)
            BY <2>1
          <6> QED BY <3>2, <6>1, <6>2, <6>3, <6>4 DEF Added
        <5>2. CASE i > k
          BY <2>2, <2>4, <4>3, <5>2
        <5>3. CASE ~(i > k)
          <6>1. i - 1 \in 1..(k - 1)
            BY <1>0, <2>2, <3>1, <5>1, <5>3
          <6> QED BY <3>4, <5>1, <6>1
        <5> QED BY <5>2, <5>3
      <4> QED BY <2>3, <3>6, <4>1, <4>2, <4>3
    <3>7. CASE Refused(q)
      <4>1. PICK i \in 1..Len(fromServer) :
               fromServer[i] \in {Revoked(q), Answer(Current(q), "denied")}
        BY <3>7 DEF Refused
      <4>2. i \in 1..k /\ i \in 1..Len(fromServer') /\ fromServer'[i] = fromServer[i]
        BY <1>0, <2>1, <2>2, <3>1, <4>1 DEF Extends
      <4>3. CASE fromServer[i] = Revoked(q)
        BY <4>2, <4>3 DEF KnowsWrite, Revoked
      <4>4. CASE fromServer[i] = Answer(Current(q), "denied")
        BY <2>4, <4>2, <4>4
      <4> QED BY <4>1, <4>3, <4>4
    <3> QED BY <1>3, <1>5, <3>5, <3>6, <3>7
  <2> QED BY <2>5, <2>6
<1>6. CASE HearStep /\ ~Listen(q) /\ CanSend
  <2>1. PICK j \in 0..Len(fromServer) : Told(p, j) /\ (j = k + 1 \/ (j = 0 /\ k = 0))
    <3>1. CASE k = 0
      <4>1. 0 \in 0..Len(fromServer) /\ 1 \in 0..Len(fromServer) /\ 1 = k + 1
        BY <1>6, <3>1, HearPlaces
      <4> QED BY <1>0, <3>1, <4>1, ToldBefore
    <3>2. CASE k # 0
      <4>1. k \in 1..Len(fromServer') /\ k + 1 # 0
        BY <1>0, <1>6, <3>2, HearPlaces
      <4>2. k + 1 \in 0..Len(fromServer) /\ fromServer'[k] = fromServer[k + 1]
        BY <1>6, <4>1, HearPlaces
      <4> QED BY <3>2, <4>1, <4>2 DEF Told
    <3> QED BY <3>1, <3>2
  <2>2. KnowsWrite(q, p, j)
    BY <1>3, <1>6, <2>1
  <2> QED BY <1>3, <1>6, <2>1, <2>2, HeardShift
<1>7. CASE Put /\ ~HearStep /\ ~Listen(q) /\ CanSend
  <2>1. putCounter' \in Puts
    BY <1>7, BoundsAreNat DEF Put, Puts, TypeOK
  <2> QED BY <1>4, <1>7, <2>1, RequestFacts DEF Put
<1>8. ASSUME NEW r \in Queries, Unlisten(r), ~HearStep, ~Listen(q), CanSend
      PROVE  KnowsWrite(q, p, k)'
  BY <1>4, <1>8, RequestFacts DEF Unlisten
<1>9. ASSUME NEW r \in Queries, Listen(r), ~HearStep, ~Listen(q), CanSend
      PROVE  KnowsWrite(q, p, k)'
  <2>1. listens'[r] \in 1..MaxListens
    BY <1>9, ListenNumber
  <2> QED BY <1>4, <1>9, <2>1, RequestFacts DEF Listen
<1>10. CASE UNCHANGED wire /\ ~HearStep /\ ~Listen(q) /\ CanSend
  BY <1>4, <1>10 DEF wire
<1> QED BY <1>0, <1>1, <1>2, <1>5, <1>6, <1>7, <1>8, <1>9, <1>10, StepCases

-----------------------------------------------------------------------------
(* The invariant, and what it says of a write that is acknowledged.        *)

ViewInv == ViewsOfListening /\ DataGrows /\ PendingWrites /\ ListenBringsData /\ Heard

ConnectionInv == TypeOK /\ SyncTyped /\ BackedInv /\ ListeningInv

LEMMA ViewInit == DBInit => ViewInv
<1> SUFFICES ASSUME DBInit PROVE ViewInv
  OBVIOUS
<1>1. /\ fromServer = <<>> /\ putsToAck = <<>> /\ complete = {} /\ allWrites = {}
      /\ serverCache = [q \in Queries |-> {}] /\ listens = [q \in Queries |-> 0]
  BY DEF DBInit, Init
<1>2. DataGrows /\ ListenBringsData
  BY <1>1 DEF DataGrows, ListenBringsData
<1>3. Heard
  BY <1>1 DEF Heard, Listening
<1> QED BY <1>1, <1>2, <1>3 DEF ViewInv, ViewsOfListening, PendingWrites

LEMMA ViewStep ==
    ASSUME ConnectionInv, ConnectionInv', ViewInv, [DBNext]_dbVars
    PROVE  ViewInv'
<1>1. ViewsOfListening'
  BY ViewsStep DEF ConnectionInv, ViewInv
<1>2. DataGrows'
  BY DataStep DEF ConnectionInv, ListeningInv, ListensInv, ViewInv
<1>3. PendingWrites'
  BY PendingStep DEF ConnectionInv, ViewInv
<1>4. ListenBringsData'
  BY BringsStep DEF ConnectionInv, ListeningInv, ListensInv, ViewInv
<1>5. Heard'
  BY HeardStep DEF ConnectionInv, ListeningInv, ListensInv, BackedInv, ViewInv
<1> QED BY <1>1, <1>2, <1>3, <1>4, <1>5 DEF ViewInv

LEMMA ConnectionInvariant == DBSpec => []ConnectionInv
<1>1. DBTypeOK => TypeOK /\ SyncTyped
  BY DEF DBTypeOK, SyncTyped
<1>2. TypeOK /\ SyncTyped /\ BackedInv /\ ListeningInv => ConnectionInv
  BY DEF ConnectionInv
<1> QED BY <1>1, <1>2, DatabaseTyped, DatabaseUsesConnection, BackedInvariant,
           ListeningInvariant, PTL

LEMMA ViewInvariant == DBSpec => []ViewInv
<1>1. ConnectionInv /\ ConnectionInv' /\ ViewInv /\ [DBNext]_dbVars => ViewInv'
  BY ViewStep
<1> QED BY <1>1, ViewInit, ConnectionInvariant, PTL DEF DBSpec

LEMMA ManySome ==
    ASSUME NEW S, NEW s \in Seq(S), NEW T, NEW i \in 1..Len(s), s[i] \in T
    PROVE  Many(s, T) \in Nat \ {0}
<1>1. IsFiniteSet(Places(s, T)) /\ Many(s, T) \in Nat
  BY ManyIsNat
<1>2. i \in Places(s, T)
  BY DEF Places
<1>3. Cardinality(Places(s, T)) # 0
  BY <1>1, <1>2, FS_EmptySet
<1> QED BY <1>1, <1>3 DEF Many

\* While the count is zero no listen is asked for and no answer to one is due.
LEMMA NoListenDue ==
    TypeOK /\ ListensInv /\ unackedListensCount = 0 =>
        /\ \A i \in 1..Len(toServer) : toServer[i].kind # "listen"
        /\ \A i \in 1..Len(fromServer) :
              ~(fromServer[i].kind = "answer" /\ fromServer[i].to.kind = "listen")
<1> SUFFICES ASSUME TypeOK, ListensInv, unackedListensCount = 0
             PROVE  /\ \A i \in 1..Len(toServer) : toServer[i].kind # "listen"
                    /\ \A i \in 1..Len(fromServer) :
                          ~(fromServer[i].kind = "answer" /\ fromServer[i].to.kind = "listen")
  OBVIOUS
<1>1. toServer \in Seq(Requests) /\ fromServer \in Seq(Messages)
  BY DEF TypeOK
<1>2. Many(toServer, ListenRequests) \in Nat /\ Many(fromServer, ListenAnswers) \in Nat
  BY <1>1, ManyIsNat
<1>3. Many(toServer, ListenRequests) = 0 /\ Many(fromServer, ListenAnswers) = 0
  BY <1>2 DEF ListensInv, OnWire
<1>4. ASSUME NEW i \in 1..Len(toServer), toServer[i].kind = "listen" PROVE FALSE
  <2>1. toServer[i] \in ListenRequests
    BY <1>1, <1>4, ElementOfSeq DEF ListenRequests
  <2> QED BY <1>1, <1>3, <2>1, ManySome
<1>5. ASSUME NEW i \in 1..Len(fromServer), fromServer[i].kind = "answer",
             fromServer[i].to.kind = "listen"
      PROVE  FALSE
  <2>1. fromServer[i] \in ListenAnswers
    BY <1>1, <1>5, ElementOfSeq DEF ListenAnswers
  <2> QED BY <1>1, <1>3, <2>1, ManySome
<1> QED BY <1>4, <1>5

\* What a view has from the server stays.
LEMMA CacheGrows ==
    ASSUME TypeOK, SyncTyped, DataGrows, [DBNext]_dbVars, NEW q \in Queries, q \in complete'
    PROVE  serverCache[q] \subseteq serverCache'[q]
<1>1. CASE DataUpdate
  <2>1. 1 \in 1..Len(fromServer) /\ DataAt(1)
    BY <1>1, DataUpdateFacts, HearPlaces
  <2>2. serverCache[q] \subseteq fromServer[1].value
    BY <2>1 DEF DataGrows
  <2> QED BY <1>1, <2>2, DataUpdateFacts
<1>2. CASE ~DataUpdate
  BY <1>2, CacheStep
<1> QED BY <1>1, <1>2

\* A write that is acknowledged as it is answered was shown before.
LEMMA AnsweredIsShown ==
    ASSUME ConnectionInv, ViewInv, WriteAnswered, NEW q \in Listening,
           NEW p \in allWrites, p \notin allWrites', p \notin serverCache[q]
    PROVE  Completion(p, "denied") \in Elements(completed')
<1> DEFINE c == Completion(Head(fromServer).to.put, Head(fromServer).status)
<1>0. TypeOK /\ AnswersBacked /\ ListensInv /\ WireIsOpen /\ Heard /\ PutAnswered
  BY DEF ConnectionInv, BackedInv, ListeningInv, ListensInv, ViewInv, WriteAnswered
<1>1. allWrites' = allWrites \ {d.put : d \in {e \in Elements(Reported) :
                                                   e.status # "canceled"}}
  BY DEF WriteAnswered, AckWrites
<1>2. /\ c \in Completions /\ c.status \in {"ok", "denied"}
      /\ fromServer[1] = Answer(PutRequest(c.put), c.status)
      /\ \/ Elements(Reported) = {}
         \/ /\ completed' = Append(completed, c) /\ Elements(Reported) = {c}
            /\ unackedListensCount = 0
  BY <1>0, AnswerKinds
<1> HIDE DEF c
<1>3. /\ p = c.put /\ completed' = Append(completed, c) /\ unackedListensCount = 0
  BY <1>1, <1>2
<1>4. c = Completion(p, c.status) /\ p \in Puts
  BY <1>2, <1>3, CompletionFacts
<1>5. CASE c.status = "denied"
  BY <1>0, <1>2, <1>3, <1>4, <1>5, ElementsAppend DEF TypeOK
<1>6. CASE c.status = "ok"
  <2>1. /\ 1 \in 1..Len(fromServer) /\ 1 \in 0..Len(fromServer)
        /\ fromServer[1].kind = "answer" /\ Told(p, 1)
    BY <1>0, <1>2, <1>3, <1>6, HearPlaces DEF HearStep, Told, Answer
  <2>2. KnowsWrite(q, p, 1)
    BY <1>0, <1>4, <2>1 DEF Heard
  <2>3. \A i \in 1..1 : ~Brings(q, p, i) /\ fromServer[i] # Revoked(q)
    BY <2>1 DEF Brings, DataAt, Revoked
  <2>4. CanSend
    BY <1>0, <2>1 DEF WireIsOpen, CanSend
  <2>5. Current(q).kind = "listen"
    BY DEF Current, ListenRequest
  <2>6. ~Asked(q) /\ ~AnswerDue(q, 1)
    BY <1>0, <1>3, <2>5, NoListenDue DEF Asked, AnswerDue
  <2> QED BY <2>2, <2>3, <2>4, <2>6 DEF KnowsWrite
<1> QED BY <1>2, <1>5, <1>6

\* A write whose acknowledgement waited for the listens was shown with the last.
LEMMA ReportedIsShown ==
    ASSUME ConnectionInv, ConnectionInv', ViewInv, ObserveAnswered,
           NEW q \in Listening, q \in Listening',
           NEW p \in allWrites, p \notin allWrites', p \notin serverCache[q]
    PROVE  Completion(p, "denied") \in Elements(completed')
<1>0. /\ TypeOK /\ AnswersBacked /\ ReportsBacked /\ WireIsOpen /\ ListenBringsData
      /\ Heard /\ ListenAnswered /\ HearStep
  BY DEF ConnectionInv, BackedInv, ListeningInv, ListensInv, ViewInv, ObserveAnswered,
         HearStep
<1>00. completed \in Seq(Completions) /\ putsToAck \in Seq(Completions)
  BY <1>0 DEF TypeOK
<1>1. allWrites' = allWrites \ {d.put : d \in {e \in Elements(Reported) :
                                                   e.status # "canceled"}}
  BY DEF ObserveAnswered, AckWrites
<1>2. unackedListensCount' = 0 /\ completed' = completed \o putsToAck
  <2>1. completed' # completed
    BY <1>0, <1>1, ReportedIs
  <2> QED BY <1>0, <2>1 DEF ListenAnswered
<1>3. PICK d \in Elements(putsToAck) : d.put = p
  BY <1>0, <1>00, <1>1, <1>2, ReportedIs
<1>4. d \in Completions /\ d.status \in {"ok", "denied"}
  <2>1. d \in Completions
    BY <1>00, ElementOfSeq DEF Elements
  <2>2. d.status # "canceled"
    BY <1>0 DEF ReportsBacked
  <2> QED BY <2>1, <2>2 DEF Completions, Statuses
<1>5. d = Completion(p, d.status) /\ p \in Puts
  BY <1>3, <1>4, CompletionFacts
<1>6. CASE d.status = "denied"
  BY <1>00, <1>2, <1>5, <1>6, ElementsConcat
<1>7. CASE d.status = "ok"
  <2>1. Told(p, 0)
    BY <1>5, <1>7 DEF Told
  <2>2. KnowsWrite(q, p, 0)
    BY <1>0, <1>5, <2>1, LenProperties DEF Heard, TypeOK
  <2>3. 1 \in 1..Len(fromServer) /\ fromServer[1] \in Messages /\ UNCHANGED toServer
    BY <1>0, HearPlaces
  <2>4. CanSend
    BY <1>0, <2>3 DEF WireIsOpen, CanSend
  <2>5. Current(q).kind = "listen" /\ Current(q) = ListenRequest(q, listens[q])
    BY DEF Current, ListenRequest
  <2>6. /\ \A i \in 1..Len(toServer') : toServer'[i].kind # "listen"
        /\ \A i \in 1..Len(fromServer') :
              ~(fromServer'[i].kind = "answer" /\ fromServer'[i].to.kind = "listen")
    <3>1. (/\ \A i \in 1..Len(toServer) : toServer[i].kind # "listen"
           /\ \A i \in 1..Len(fromServer) :
                 ~(fromServer[i].kind = "answer" /\ fromServer[i].to.kind = "listen"))'
      <4>1. (TypeOK /\ ListensInv /\ unackedListensCount = 0)'
        BY <1>2 DEF ConnectionInv, ListeningInv
      <4> QED BY <4>1, NoListenDue, PTL
    <3> QED BY <3>1
  <2>7. ~Asked(q)
    BY <2>3, <2>5, <2>6 DEF Asked
  <2>8. ASSUME NEW i \in 1..Len(fromServer), fromServer[i].kind = "answer",
               fromServer[i].to = Current(q)
        PROVE  FALSE
    <3>1. CASE i # 1
      <4>1. i \in 2..Len(fromServer)
        BY <1>0, <3>1, HearPlaces
      <4>2. i - 1 \in 1..Len(fromServer') /\ fromServer'[i - 1] = fromServer[i]
        BY <1>0, <4>1, HearPlaces
      <4> QED BY <2>5, <2>6, <2>8, <4>2
    <3>2. CASE i = 1
      <4>1. fromServer[1] = Answer(Current(q), fromServer[1].status)
        BY <2>3, <2>8, <3>2 DEF Messages, Answer
      <4>2. fromServer[1].status # "denied"
        BY <1>0, <4>1, RefusalEnds
      <4>3. fromServer[1].status = "ok"
        <5>1. fromServer[1] \in Elements(fromServer)
          BY <2>3 DEF Elements
        <5> QED BY <1>0, <2>3, <2>8, <3>2, <4>2, <5>1, MessageKinds
                DEF AnswersBacked, Statuses
      <4>4. q \in Queries /\ listens[q] \in 1..MaxListens
        BY <1>0, ListeningNumber
      <4>5. fromServer[1] = Answer(ListenRequest(q, listens[q]), "ok")
        BY <2>5, <4>1, <4>3
      <4>6. 1 - 1 \notin 1..Len(fromServer)
        BY <1>0, HearPlaces
      <4>7. p \in serverCache[q]
        BY <1>0, <1>5, <2>1, <2>3, <4>4, <4>5, <4>6 DEF ListenBringsData
      <4> QED BY <4>7
    <3> QED BY <3>1, <3>2
  <2> QED BY <2>2, <2>4, <2>7, <2>8 DEF KnowsWrite, AnswerDue
<1> QED BY <1>4, <1>6, <1>7

\* A write that a purge takes from the views is reported as canceled.
LEMMA PurgedIsCanceled ==
    ASSUME TypeOK, PendingWrites, PurgeOutstandingWrites, ~crashed', NEW p \in allWrites
    PROVE  Completion(p, "canceled") \in Elements(completed')
<1> DEFINE kept == completed \o putsToAck
           canceled == Canceled(outstandingPuts)
<1>1. putsToAck = <<>> /\ completed' = kept \o canceled
  BY DEF PurgeOutstandingWrites, Purge
<1>2. Elements(<<>>) = {}
  BY DEF Elements
<1>3. PICK i \in 1..Len(outstandingPuts) : outstandingPuts[i] = p
  BY <1>1, <1>2 DEF PendingWrites, Elements
<1>4. /\ outstandingPuts \in Seq(Puts) /\ Len(outstandingPuts) \in Nat
      /\ kept \in Seq(Completions)
  BY ElementsConcat, LenProperties DEF TypeOK
<1>5. canceled \in Seq(Completions) /\ Len(canceled) = Len(outstandingPuts)
  <2>1. canceled \in [1..Len(outstandingPuts) -> Completions]
    BY <1>4, ElementOfSeq, CompletionFacts DEF Canceled, Statuses
  <2> QED BY <1>4, <2>1, FunctionIsSeq
<1>6. Completion(p, "canceled") \in Elements(canceled)
  <2>1. canceled[i] = Completion(p, "canceled")
    BY <1>3 DEF Canceled
  <2> QED BY <1>5, <2>1 DEF Elements
<1> HIDE DEF kept, canceled
<1> QED BY <1>1, <1>4, <1>5, <1>6, ElementsConcat

\* The writes of the tree are taken out by these three only.
LEMMA WritesTaken ==
    ASSUME [DBNext]_dbVars, NEW p \in allWrites, p \notin allWrites'
    PROVE  WriteAnswered \/ ObserveAnswered \/ PurgeOutstandingWrites
BY DEF DBNext, dbVars, syncTree, ConnectionOnly, Observe, Unobserve, Set, DataUpdate,
       ObserveRevoked

\* A write that was shown never disappears while it travels, over any number of
\* lost connections, listens given up and purges: only a refusal or a purge takes
\* it back.
THEOREM WritesStayShown == DBSpec => ShownStaysShown
<1> DEFINE TakenBack ==
        ~crashed' => \A q \in complete \cap complete' : \A p \in Shown(q) \ Shown(q)' :
            \E status \in {"denied", "canceled"} :
                Completion(p, status) \in Elements(completed')
<1>1. ConnectionInv /\ ConnectionInv' /\ ViewInv /\ ViewInv' /\ [DBNext]_dbVars
          => TakenBack
  <2> SUFFICES ASSUME ConnectionInv, ConnectionInv', ViewInv, ViewInv', [DBNext]_dbVars,
                      ~crashed', NEW q \in complete \cap complete',
                      NEW p \in Shown(q) \ Shown(q)'
               PROVE  \E status \in {"denied", "canceled"} :
                          Completion(p, status) \in Elements(completed')
    OBVIOUS
  <2>1. TypeOK /\ SyncTyped /\ DataGrows /\ PendingWrites
    BY DEF ConnectionInv, ViewInv
  <2>2. q \in Listening /\ q \in Listening' /\ q \in Queries
    BY DEF ViewInv, ViewsOfListening, Listening
  <2>3. serverCache[q] \subseteq serverCache'[q]
    BY <2>1, <2>2, CacheGrows
  <2>4. p \in allWrites /\ p \notin allWrites' /\ p \notin serverCache[q]
    BY <2>3 DEF Shown
  <2>5. CASE WriteAnswered
    BY <2>2, <2>4, <2>5, AnsweredIsShown
  <2>6. CASE ObserveAnswered
    BY <2>2, <2>4, <2>6, ReportedIsShown
  <2>7. CASE PurgeOutstandingWrites
    BY <2>1, <2>4, <2>7, PurgedIsCanceled
  <2> QED BY <2>4, <2>5, <2>6, <2>7, WritesTaken
<1>2. TakenBack => [~crashed' => \A q \in complete \cap complete' :
          \A p \in Shown(q) \ Shown(q)' :
              \E status \in {"denied", "canceled"} :
                  Completion(p, status) \in Elements(completed')]_dbVars
  OBVIOUS
<1> HIDE DEF TakenBack
<1> QED BY <1>1, <1>2, ConnectionInvariant, ViewInvariant, PTL DEF DBSpec, ShownStaysShown

-----------------------------------------------------------------------------
(* The tree of pending writes is exactly what the connection has not yet    *)
(* reported, so an acknowledgement finds its write in it.                   *)

\* A function onto a finite set from the set itself repeats no value.
LEMMA OntoRepeatsNothing ==
    ASSUME NEW S, IsFiniteSet(S), NEW f \in [S -> S],
           \A t \in S : \E i \in S : f[i] = t
    PROVE  \A i, j \in S : f[i] = f[j] => i = j
<1>1. f \in Surjection(S, S)
  BY Fun_IsSurj
<1>2. f \in Injection(S, S)
  BY <1>1, FS_Surjection
<1> QED BY <1>2, Fun_InjectionProperties

\* A sequence that is as long as the set it enumerates repeats nothing.
LEMMA NoRepetition ==
    ASSUME NEW s \in Seq(Puts), NEW n \in Nat, Len(s) = n, Elements(s) = 1..n
    PROVE  \A i, j \in 1..n : s[i] = s[j] => i = j
<1>1. s \in [1..n -> 1..n]
  <2>1. s \in [1..n -> Puts]
    BY SeqDef, LenProperties
  <2>2. \A i \in 1..n : s[i] \in 1..n
    BY DEF Elements
  <2> QED BY <2>1, <2>2
<1>2. \A t \in 1..n : \E i \in 1..n : s[i] = t
  BY DEF Elements
<1>3. IsFiniteSet(1..n)
  BY FS_Interval
<1> DEFINE places == 1..n
<1>4. s \in [places -> places] /\ IsFiniteSet(places)
      /\ \A t \in places : \E i \in places : s[i] = t
  BY <1>1, <1>2, <1>3
<1> HIDE DEF places
<1>5. \A i, j \in places : s[i] = s[j] => i = j
  BY <1>4, OntoRepeatsNothing
<1> QED BY <1>5 DEF places

LEMMA ConcatPlaces ==
    ASSUME NEW S, NEW s \in Seq(S), NEW t \in Seq(S), NEW u, u = s \o t
    PROVE  /\ u \in Seq(S) /\ Len(u) = Len(s) + Len(t)
           /\ \A i \in 1..Len(s) : u[i] = s[i]
           /\ \A i \in 1..Len(t) : u[Len(s) + i] = t[i]
<1>1. /\ s \o t \in Seq(S) /\ Len(s \o t) = Len(s) + Len(t)
      /\ \A i \in 1..(Len(s) + Len(t)) :
            (s \o t)[i] = IF i <= Len(s) THEN s[i] ELSE t[i - Len(s)]
      /\ Len(s) \in Nat /\ Len(t) \in Nat
  BY ConcatProperties, LenProperties
<1>2. \A i \in 1..Len(s) : (s \o t)[i] = s[i]
  BY <1>1
<1>3. ASSUME NEW i \in 1..Len(t) PROVE (s \o t)[Len(s) + i] = t[i]
  <2>1. Len(s) + i \in 1..(Len(s) + Len(t)) /\ ~(Len(s) + i <= Len(s))
    BY <1>1
  <2>2. (Len(s) + i) - Len(s) = i
    BY <1>1
  <2> QED BY <1>1, <2>1, <2>2
<1> QED BY <1>1, <1>2, <1>3

\* Where a write is not: its callback is called once, and not while it waits.
LEMMA WritesApart ==
    ASSUME NEW o \in Seq(Puts), NEW a \in Seq(Completions), NEW c \in Seq(Completions),
           NEW n \in Nat,
           LET places == o \o [i \in 1..Len(a) |-> a[i].put]
                           \o [i \in 1..Len(c) |-> c[i].put]
           IN  Len(places) = n /\ Elements(places) = 1..n
    PROVE  /\ \A d \in Elements(a) \cup Elements(c) : d.put \notin Elements(o)
           /\ \A d \in Elements(a), e \in Elements(c) : d.put # e.put
           /\ \A d, e \in Elements(c) : d.put = e.put => d = e
<1> DEFINE PutsOf(s) == [i \in 1..Len(s) |-> s[i].put]
           places == o \o PutsOf(a) \o PutsOf(c)
           k == Len(o)
           m == Len(o) + Len(a)
<1>1. ASSUME NEW s \in Seq(Completions)
      PROVE  PutsOf(s) \in Seq(Puts) /\ Len(PutsOf(s)) = Len(s)
  <2>1. Len(s) \in Nat /\ \A i \in 1..Len(s) : s[i].put \in Puts
    BY LenProperties, ElementOfSeq, CompletionFacts
  <2>2. PutsOf(s) \in [1..Len(s) -> Puts]
    BY <2>1
  <2> HIDE DEF PutsOf
  <2> QED BY <2>1, <2>2, FunctionIsSeq
<1>2. /\ PutsOf(a) \in Seq(Puts) /\ Len(PutsOf(a)) = Len(a) /\ Len(a) \in Nat
      /\ PutsOf(c) \in Seq(Puts) /\ Len(PutsOf(c)) = Len(c) /\ Len(c) \in Nat
      /\ Len(o) \in Nat
  BY <1>1, LenProperties
<1>3. /\ \A i \in 1..Len(a) : PutsOf(a)[i] = a[i].put
      /\ \A i \in 1..Len(c) : PutsOf(c)[i] = c[i].put
  OBVIOUS
<1>4. Len(places) = n /\ Elements(places) = 1..n
  OBVIOUS
<1> HIDE DEF PutsOf
<1> DEFINE first == o \o PutsOf(a)
<1>5. /\ first \in Seq(Puts) /\ Len(first) = m
      /\ \A i \in 1..k : first[i] = o[i]
      /\ \A i \in 1..Len(a) : first[k + i] = a[i].put
  BY <1>2, <1>3, ConcatPlaces
<1> HIDE DEF first
<1>6. /\ places \in Seq(Puts) /\ Len(places) = m + Len(c)
      /\ \A i \in 1..m : places[i] = first[i]
      /\ \A i \in 1..Len(c) : places[m + i] = c[i].put
  <2>1. places = first \o PutsOf(c)
    BY DEF first
  <2> HIDE DEF places
  <2>2. /\ places \in Seq(Puts) /\ Len(places) = Len(first) + Len(PutsOf(c))
        /\ \A i \in 1..Len(first) : places[i] = first[i]
        /\ \A i \in 1..Len(PutsOf(c)) : places[Len(first) + i] = PutsOf(c)[i]
    <3> DEFINE t == PutsOf(c)
    <3>1. first \in Seq(Puts) /\ t \in Seq(Puts) /\ places = first \o t
      BY <1>2, <1>5, <2>1
    <3> HIDE DEF t
    <3>2. /\ places \in Seq(Puts) /\ Len(places) = Len(first) + Len(t)
          /\ \A i \in 1..Len(first) : places[i] = first[i]
          /\ \A i \in 1..Len(t) : places[Len(first) + i] = t[i]
      BY <3>1, ConcatPlaces
    <3> QED BY <3>2 DEF t
  <2> QED BY <1>2, <1>3, <1>5, <2>2
<1>7. /\ \A i \in 1..k : i \in 1..n /\ places[i] = o[i]
      /\ \A i \in 1..Len(a) : k + i \in 1..n /\ places[k + i] = a[i].put
      /\ \A i \in 1..Len(c) : m + i \in 1..n /\ places[m + i] = c[i].put
  <2>1. n = k + Len(a) + Len(c)
    BY <1>4, <1>6
  <2> HIDE DEF places
  <2>2. \A i \in 1..k : i \in 1..n /\ i \in 1..m
    BY <1>2, <2>1
  <2>3. \A i \in 1..Len(a) : k + i \in 1..n /\ k + i \in 1..m
    BY <1>2, <2>1
  <2>4. \A i \in 1..Len(c) : m + i \in 1..n
    BY <1>2, <2>1
  <2> QED BY <1>5, <1>6, <2>2, <2>3, <2>4
<1> HIDE DEF places
<1>8. \A i, j \in 1..n : places[i] = places[j] => i = j
  BY <1>4, <1>6, NoRepetition
<1>9. ASSUME NEW i \in 1..Len(a) PROVE a[i].put \notin Elements(o)
  <2>1. \A j \in 1..k : o[j] # a[i].put
    BY <1>2, <1>7, <1>8
  <2> QED BY <2>1 DEF Elements
<1>10. ASSUME NEW i \in 1..Len(c) PROVE c[i].put \notin Elements(o)
  <2>1. \A j \in 1..k : o[j] # c[i].put
    BY <1>2, <1>7, <1>8
  <2> QED BY <2>1 DEF Elements
<1>11. \A i \in 1..Len(a), j \in 1..Len(c) : a[i].put # c[j].put
  BY <1>2, <1>7, <1>8
<1>12. \A i, j \in 1..Len(c) : c[i].put = c[j].put => i = j
  BY <1>2, <1>7, <1>8
<1> QED BY <1>9, <1>10, <1>11, <1>12 DEF Elements

\* Each write has one place, and each callback was called once.
Apart ==
    /\ \A p \in Reports : p \notin Elements(outstandingPuts)
    /\ \A d \in Elements(putsToAck), e \in Elements(completed) : d.put # e.put
    /\ \A d, e \in Elements(completed) : d.put = e.put => d = e

LEMMA OnceIsApart == TypeOK /\ EachWriteOnce => Apart
<1> SUFFICES ASSUME TypeOK, EachWriteOnce PROVE Apart
  OBVIOUS
<1>1. /\ outstandingPuts \in Seq(Puts) /\ putsToAck \in Seq(Completions)
      /\ completed \in Seq(Completions) /\ putCounter \in Nat
  BY BoundsAreNat DEF TypeOK
<1>2. /\ \A d \in Elements(putsToAck) \cup Elements(completed) :
             d.put \notin Elements(outstandingPuts)
      /\ \A d \in Elements(putsToAck), e \in Elements(completed) : d.put # e.put
      /\ \A d, e \in Elements(completed) : d.put = e.put => d = e
  BY <1>1, WritesApart DEF EachWriteOnce
<1> QED BY <1>2 DEF Apart, Reports

LEMMA ApartInvariant == DBSpec => []Apart
BY OnceIsApart, DatabaseUsesConnection, ConnectionTyped, NoCallbackLost, PTL

TreeIsWaiting ==
    allWrites = Elements(outstandingPuts) \cup {c.put : c \in Elements(putsToAck)}

\* What is acknowledged was in the tree.
AckedAreThere ==
    {c.put : c \in {d \in Elements(Reported) : d.status # "canceled"}} \subseteq allWrites

LEMMA TreeStep ==
    ASSUME TypeOK, TypeOK', SyncTyped, BackedInv, Apart', TreeIsWaiting, [DBNext]_dbVars
    PROVE  /\ TreeIsWaiting'
           /\ WriteAnswered \/ ObserveAnswered => AckedAreThere
<1> DEFINE Waiting == Elements(outstandingPuts) \cup {c.put : c \in Elements(putsToAck)}
           WaitingThen == Elements(outstandingPuts') \cup {c.put : c \in Elements(putsToAck')}
           acked == {c.put : c \in {d \in Elements(Reported) : d.status # "canceled"}}
<1>1. PendingWrites' /\ AnswersBacked /\ putsToAck \in Seq(Completions)
      /\ completed \in Seq(Completions) /\ outstandingPuts \in Seq(Puts)
  BY PendingStep DEF TreeIsWaiting, PendingWrites, BackedInv, TypeOK
<1>2. SUFFICES /\ WaitingThen \subseteq allWrites'
               /\ WriteAnswered \/ ObserveAnswered => acked \subseteq allWrites
  BY <1>1 DEF PendingWrites, TreeIsWaiting, AckedAreThere, Elements
<1>3. allWrites = Waiting
  BY DEF TreeIsWaiting
<1>4. /\ \A d \in Elements(putsToAck') \cup Elements(completed') :
             d.put \notin Elements(outstandingPuts')
      /\ \A d \in Elements(putsToAck'), e \in Elements(completed') : d.put # e.put
  BY DEF Apart, Reports, Elements
<1>5. CASE WriteAnswered
  <2> DEFINE c == Completion(Head(fromServer).to.put, Head(fromServer).status)
  <2>1. /\ c \in Completions /\ c.status # "canceled"
        /\ \/ /\ UNCHANGED <<outstandingPuts, putsToAck, completed>>
              /\ Elements(Reported) = {}
           \/ /\ Elements(outstandingPuts) = Elements(outstandingPuts') \cup {c.put}
              /\ Elements(putsToAck') = Elements(putsToAck) \cup {c}
              /\ Elements(Reported) = {}
           \/ /\ Elements(outstandingPuts) = Elements(outstandingPuts') \cup {c.put}
              /\ putsToAck' = putsToAck /\ completed' = Append(completed, c)
              /\ Elements(Reported) = {c}
    BY <1>1, <1>5, AnswerKinds DEF WriteAnswered
  <2> HIDE DEF c
  <2>2. allWrites' = allWrites \ acked
    BY <1>5 DEF WriteAnswered, AckWrites
  <2>3. CASE Elements(Reported) = {}
    <3>1. acked = {} /\ allWrites' = allWrites
      BY <2>2, <2>3
    <3>2. WaitingThen = Waiting
      BY <2>1, <2>3
    <3> QED BY <1>3, <3>1, <3>2
  <2>4. CASE /\ Elements(outstandingPuts) = Elements(outstandingPuts') \cup {c.put}
             /\ putsToAck' = putsToAck /\ completed' = Append(completed, c)
             /\ Elements(Reported) = {c}
    <3>1. acked = {c.put}
      BY <2>1, <2>4
    <3>2. c \in Elements(completed')
      BY <1>1, <2>1, <2>4, ElementsAppend
    <3>3. c.put \notin WaitingThen
      BY <1>4, <3>2
    <3> QED BY <1>3, <2>2, <2>4, <3>1, <3>3
  <2> QED BY <1>5, <2>1, <2>3, <2>4
<1>6. CASE ObserveAnswered
  <2>1. UNCHANGED outstandingPuts
    BY <1>6 DEF ObserveAnswered, ListenAnswered
  <2>2. allWrites' = allWrites \ acked
    BY <1>6 DEF ObserveAnswered, AckWrites
  <2>3. CASE UNCHANGED <<completed, putsToAck>>
    <3>1. acked = {}
      BY <1>1, <2>3, ReportedIs
    <3> QED BY <1>3, <2>1, <2>2, <2>3, <3>1
  <2>4. CASE completed' = completed \o putsToAck /\ putsToAck' = <<>>
    <3>1. Elements(Reported) = Elements(putsToAck)
      BY <1>1, <2>4, ReportedIs
    <3>2. \A d \in Elements(putsToAck) : d.status # "canceled"
      BY DEF BackedInv, ReportsBacked
    <3>3. acked = {d.put : d \in Elements(putsToAck)}
      BY <3>1, <3>2
    <3>4. Elements(completed') = Elements(completed) \cup Elements(putsToAck)
      BY <1>1, <2>4, ElementsConcat
    <3>5. Elements(putsToAck') = {}
      BY <2>4 DEF Elements
    <3> QED BY <1>3, <1>4, <2>1, <2>2, <3>3, <3>4, <3>5
  <2> QED BY <1>6, <2>3, <2>4 DEF ObserveAnswered, ListenAnswered
<1>7. CASE PurgeOutstandingWrites
  BY <1>5, <1>6, <1>7 DEF PurgeOutstandingWrites, Purge, Elements
<1>8. CASE Set
  <2>1. putCounter' \in Puts
    BY <1>8, BoundsAreNat DEF Set, Put, Puts, TypeOK
  <2>2. Elements(outstandingPuts') = Elements(outstandingPuts) \cup {putCounter'}
    BY <1>1, <1>8, <2>1, ElementsAppend DEF Set, Put
  <2>3. WaitingThen \subseteq allWrites'
    BY <1>3, <1>8, <2>2 DEF Set, Put
  <2> QED BY <1>5, <1>6, <2>3
<1>9. CASE \/ ConnectionOnly
           \/ \E q \in Queries : Observe(q) \/ Unobserve(q)
           \/ DataUpdate \/ ObserveRevoked \/ UNCHANGED dbVars
  <2>1. UNCHANGED <<allWrites, outstandingPuts, putsToAck>>
    BY <1>9
       DEF ConnectionOnly, Observe, Unobserve, DataUpdate, ObserveRevoked, dbVars,
           vars, requests, syncTree, RetryFires, Handshake, ConnectionLost, Interrupt,
           OnKill, InterruptForReason, OnDisconnect, Resume, ResumeForReason,
           Reachable, Listen, Unlisten, Revoke, DataReceived, OnListenRevoked, Serve,
           OtherPhoneWrites
  <2>2. WaitingThen \subseteq allWrites'
    BY <1>3, <2>1
  <2> QED BY <1>5, <1>6, <2>2
<1> QED BY <1>5, <1>6, <1>7, <1>8, <1>9 DEF DBNext

LEMMA TreeInvariant == DBSpec => []TreeIsWaiting
<1>1. DBInit => TreeIsWaiting
  BY DEF DBInit, Init, TreeIsWaiting, Elements
<1>2. /\ ConnectionInv /\ ConnectionInv' /\ Apart' /\ TreeIsWaiting /\ [DBNext]_dbVars
      => TreeIsWaiting'
  BY TreeStep DEF ConnectionInv
<1> QED BY <1>1, <1>2, ConnectionInvariant, ApartInvariant, PTL DEF DBSpec

\* The exception of a write that is acknowledged but not in the tree (NSAssert of
\* FWriteTree removeWriteId:) needs a purge, while answers wait for a listen: no
\* sequence of lost connections, late answers and listens reaches it otherwise.
THEOREM CrashNeedsPurge ==
    DBSpec => [][crashed' /\ ~crashed => PurgeOutstandingWrites /\ putsToAck # <<>>]_dbVars
<1> DEFINE OnlyPurge == crashed' /\ ~crashed => PurgeOutstandingWrites /\ putsToAck # <<>>
<1>1. ConnectionInv /\ ConnectionInv' /\ Apart' /\ TreeIsWaiting /\ [DBNext]_dbVars
          => OnlyPurge
  <2> SUFFICES ASSUME ConnectionInv, ConnectionInv', Apart', TreeIsWaiting,
                      [DBNext]_dbVars, crashed', ~crashed
               PROVE  PurgeOutstandingWrites /\ putsToAck # <<>>
    OBVIOUS
  <2>1. WriteAnswered \/ ObserveAnswered \/ PurgeOutstandingWrites
    BY DEF DBNext, dbVars, syncTree, ConnectionOnly, Observe, Unobserve, Set,
           DataUpdate, ObserveRevoked
  <2>2. ~(WriteAnswered \/ ObserveAnswered)
    <3>1. WriteAnswered \/ ObserveAnswered => crashed' = (~ AckedAreThere)
      BY DEF WriteAnswered, ObserveAnswered, AckWrites, AckedAreThere
    <3>2. WriteAnswered \/ ObserveAnswered => AckedAreThere
      BY TreeStep DEF ConnectionInv
    <3> QED BY <3>1, <3>2
  <2>3. PurgeOutstandingWrites
    BY <2>1, <2>2
  <2> QED BY <2>3 DEF PurgeOutstandingWrites
<1>2. OnlyPurge => [crashed' /\ ~crashed => PurgeOutstandingWrites /\ putsToAck # <<>>]_dbVars
  OBVIOUS
<1> HIDE DEF OnlyPurge
<1> QED BY <1>1, <1>2, ConnectionInvariant, ApartInvariant, TreeInvariant, PTL DEF DBSpec

-----------------------------------------------------------------------------
(* The promise of OwnWrites.  First what the server does with the writes:   *)
(* it knows only those that were issued, and commits none it refuses.       *)

SentIssued ==
    \A i \in 1..Len(toServer) : toServer[i].kind = "put" => toServer[i].put <= putCounter

CommitsAllowed == Stored \cap rules.puts = {}

LEMMA PutsAreIssued ==
    ASSUME TypeOK, Placed
    PROVE  \A i \in 1..Len(outstandingPuts) : outstandingPuts[i] <= putCounter
<1>1. putCounter \in Nat
  BY BoundsAreNat DEF TypeOK
<1>2. \A i \in 1..Len(outstandingPuts) : outstandingPuts[i] \in 1..putCounter
  BY DEF Placed, Elements
<1> QED BY <1>1, <1>2

LEMMA SentStep ==
    ASSUME TypeOK, TypeOK', Placed, SentIssued, [Next]_vars
    PROVE  SentIssued'
<1>0. /\ putCounter \in Nat /\ putCounter' \in Nat /\ putCounter <= putCounter'
      /\ Len(toServer) \in Nat
  <2>1. putCounter \in Nat /\ putCounter' \in Nat /\ Len(toServer) \in Nat
    BY BoundsAreNat, LenProperties DEF TypeOK
  <2>2. putCounter' = putCounter \/ putCounter' = putCounter + 1
    BY StepKinds DEF PutAnswered, ListenAnswered, Purge, Put
  <2> QED BY <2>1, <2>2
<1>00. \A i \in 1..Len(toServer) : toServer[i] \in Requests
  BY ElementOfSeq DEF TypeOK
<1>000. \A i \in 1..Len(toServer) : toServer[i].kind = "put" => toServer[i].put \in Nat
  BY <1>00, RequestKinds, BoundsAreNat DEF Puts
<1>1. CASE toServer' = <<>>
  BY <1>1 DEF SentIssued
<1>2. CASE UNCHANGED toServer
  BY <1>0, <1>000, <1>2 DEF SentIssued
<1>3. CASE Serve
  <2>1. PICK k \in 1..Len(toServer) : toServer' = Drop(toServer, k)
    BY <1>3 DEF Serve
  <2>2. \A i \in 1..Len(toServer') : \E j \in 1..Len(toServer) : toServer'[i] = toServer[j]
    <3>1. Elements(toServer') \subseteq Elements(toServer)
      BY <2>1, ElementsDrop DEF TypeOK
    <3> QED BY <3>1 DEF Elements
  <2> QED BY <1>0, <1>000, <2>2 DEF SentIssued
<1>4. ASSUME NEW r \in Requests, Send(r), r.kind = "put" => r.put <= putCounter'
      PROVE  SentIssued'
  <2>1. CASE CanSend
    <3>1. /\ Len(toServer') = Len(toServer) + 1
          /\ \A i \in 1..Len(toServer) : toServer'[i] = toServer[i]
          /\ toServer'[Len(toServer) + 1] = r
      BY <1>4, <2>1, SendPlaces
    <3>2. \A i \in 1..Len(toServer') : i \in 1..Len(toServer) \/ i = Len(toServer) + 1
      BY <1>0, <3>1
    <3> QED BY <1>0, <1>000, <1>4, <3>1, <3>2 DEF SentIssued
  <2>2. CASE ~CanSend
    BY <1>2, <1>4, <2>2 DEF Send
  <2> QED BY <2>1, <2>2
<1>5. CASE Put
  <2>1. putCounter' \in Puts
    BY <1>0, <1>5, BoundsAreNat DEF Put, Puts, TypeOK
  <2>2. PutRequest(putCounter') \in Requests /\ PutRequest(putCounter').put = putCounter'
    BY <2>1, RequestFacts DEF PutRequest
  <2>3. Send(PutRequest(putCounter'))
    BY <1>5 DEF Put
  <2> QED BY <1>0, <1>4, <2>2, <2>3
<1>6. CASE Handshake
  <2>1. PICK order \in Orders(Listening) : RestoreState(order)
    BY <1>6 DEF Handshake
  <2>2. PICK n \in Nat :
            /\ Len(toServer') = n + Len(outstandingPuts)
            /\ \A i \in 1..n : toServer'[i].kind = "listen"
            /\ \A i \in 1..Len(outstandingPuts) :
                  toServer'[n + i] = PutRequest(outstandingPuts[i])
    BY <2>1, RestoreFacts
  <2>3. Len(outstandingPuts) \in Nat /\ putCounter' = putCounter
    BY <1>6, LenProperties DEF TypeOK, Handshake
  <2>4. ASSUME NEW i \in 1..Len(toServer'), toServer'[i].kind = "put"
        PROVE  toServer'[i].put <= putCounter'
    <3>1. i \notin 1..n
      BY <2>2, <2>4
    <3>2. i - n \in 1..Len(outstandingPuts) /\ n + (i - n) = i
      BY <2>2, <2>3, <3>1
    <3>3. toServer'[i] = PutRequest(outstandingPuts[i - n])
      BY <2>2, <3>2
    <3> QED BY <2>3, <3>2, <3>3, PutsAreIssued DEF PutRequest
  <2> QED BY <2>4 DEF SentIssued
<1> QED BY <1>1, <1>2, <1>3, <1>4, <1>5, <1>6, WireKinds

\* What a step commits: one write, which was issued and is not refused.
LEMMA CommitCases ==
    ASSUME TypeOK, SentIssued, [Next]_vars
    PROVE  \/ Stored' \cap Puts = Stored \cap Puts
           \/ \E p \in 1..putCounter :
                 /\ Serve /\ p \notin rules.puts /\ p \in Puts
                 /\ applied' = Append(applied, p) /\ Stored' = Stored \cup {p}
<1>1. CASE UNCHANGED applied
  BY <1>1, StoredKept
<1>2. CASE OtherPhoneWrites
  <2>1. 0 \in 0..MaxPuts /\ applied' = Append(applied, 0)
    BY <1>2, BoundsAreNat DEF OtherPhoneWrites
  <2>2. Stored' = Stored \cup {0} /\ 0 \notin Puts
    BY <2>1, StoredAppend DEF Puts
  <2> QED BY <2>2
<1>3. CASE Serve
  <2>1. PICK i \in 1..Len(toServer) :
            \/ toServer[i].kind = "put" /\ ServePut(toServer[i].put)
            \/ toServer[i].kind = "listen" /\ ServeListen(toServer[i])
            \/ toServer[i].kind = "unlisten" /\ ServeUnlisten(toServer[i].query)
    BY <1>3 DEF Serve
  <2> DEFINE p == toServer[i].put
  <2>2. SUFFICES ASSUME toServer[i].kind = "put", p \notin rules.puts,
                        applied' = Append(applied, p)
                 PROVE  \E r \in 1..putCounter :
                           /\ Serve /\ r \notin rules.puts /\ r \in Puts
                           /\ applied' = Append(applied, r) /\ Stored' = Stored \cup {r}
    BY <1>1, <2>1 DEF ServePut, ServeListen, ServeUnlisten, server
  <2>3. toServer[i] \in Requests
    BY ElementOfSeq DEF TypeOK
  <2>4. p \in Puts /\ p \in 0..MaxPuts /\ p \in 1..putCounter
    <3>1. p \in Puts
      BY <2>2, <2>3, RequestKinds
    <3>2. p <= putCounter
      BY <2>2 DEF SentIssued
    <3>3. MaxPuts \in Nat /\ putCounter \in Nat
      BY BoundsAreNat DEF TypeOK
    <3> HIDE DEF p
    <3> QED BY <3>1, <3>2, <3>3 DEF Puts
  <2>5. Stored' = Stored \cup {p}
    BY <2>2, <2>4, StoredAppend
  <2> HIDE DEF p
  <2> QED BY <1>3, <2>2, <2>4, <2>5
<1> QED BY <1>1, <1>2, <1>3
        DEF Next, vars, server, RetryFires, Handshake, ConnectionLost, Interrupt,
            OnKill, InterruptForReason, OnDisconnect, Resume, ResumeForReason,
            Reachable, Listen, Unlisten, Put, Purge, Revoke, PutAnswered,
            ListenAnswered, DataReceived, OnListenRevoked

LEMMA RulesTyped == TypeOK => rules.puts \subseteq Puts
BY BoundsAreNat DEF TypeOK

LEMMA CommitStep ==
    ASSUME TypeOK, SentIssued, CommitsAllowed, [Next]_vars
    PROVE  CommitsAllowed'
<1>1. rules' = rules /\ rules.puts \subseteq Puts
  BY Grows, RulesTyped
<1> QED BY <1>1, CommitCases DEF CommitsAllowed

SentInv == SentIssued /\ CommitsAllowed

LEMMA SentInvariant == Spec => []SentInv
<1>1. Init => SentInv
  BY DEF Init, SentInv, SentIssued, CommitsAllowed, Stored, Elements
<1>2. TypeOK /\ TypeOK' /\ Placed /\ SentInv /\ [Next]_vars => SentInv'
  BY SentStep, CommitStep DEF SentInv
<1> QED BY <1>1, <1>2, ConnectionTyped, OnceInvariant, PTL DEF Spec

-----------------------------------------------------------------------------
(* The data the client hears after the answer to a write shows the write.   *)

\* The client was told that p is stored: by the k-th message, or earlier.
Confirmed(p, k) ==
    IF k = 0 THEN Completion(p, "ok") \in Elements(putsToAck) \cup Elements(completed)
             ELSE fromServer[k] = Answer(PutRequest(p), "ok")

DataIsFresh ==
    \A i \in 1..Len(fromServer), p \in Puts, k \in 0..Len(fromServer) :
        k < i /\ DataAt(i) /\ Confirmed(p, k) => p \in fromServer[i].value

LEMMA PurgeFacts ==
    ASSUME TypeOK, Purge
    PROVE  /\ Elements(completed') = Elements(completed) \cup Elements(putsToAck)
                  \cup {Completion(p, "canceled") : p \in Elements(outstandingPuts)}
           /\ Elements(putsToAck') = {}
<1> DEFINE kept == completed \o putsToAck
           canceled == Canceled(outstandingPuts)
<1>1. /\ kept \in Seq(Completions)
      /\ Elements(kept) = Elements(completed) \cup Elements(putsToAck)
  BY ElementsConcat DEF TypeOK
<1>2. /\ canceled \in Seq(Completions)
      /\ Elements(canceled) = {Completion(p, "canceled") : p \in Elements(outstandingPuts)}
  <2>1. Len(outstandingPuts) \in Nat
    BY LenProperties DEF TypeOK
  <2>2. \A i \in 1..Len(outstandingPuts) :
            /\ canceled[i] = Completion(outstandingPuts[i], "canceled")
            /\ Completion(outstandingPuts[i], "canceled") \in Completions
    BY ElementOfSeq, CompletionFacts DEF TypeOK, Canceled, Statuses
  <2>3. canceled \in [1..Len(outstandingPuts) -> Completions]
    BY <2>2 DEF Canceled
  <2> HIDE DEF canceled
  <2>4. canceled \in Seq(Completions) /\ Len(canceled) = Len(outstandingPuts)
    BY <2>1, <2>3, FunctionIsSeq
  <2> QED BY <2>2, <2>4 DEF Elements
<1>3. completed' = kept \o canceled /\ putsToAck' = <<>>
  BY DEF Purge
<1> HIDE DEF kept, canceled
<1>4. Elements(completed') = Elements(kept) \cup Elements(canceled)
  BY <1>1, <1>2, <1>3, ElementsConcat
<1>5. Elements(<<>>) = {}
  BY DEF Elements
<1> QED BY <1>1, <1>2, <1>3, <1>4, <1>5

LEMMA ConfirmedBefore ==
    ASSUME TypeOK, AnswersBacked, [Next]_vars, NEW p \in Puts, Confirmed(p, 0)'
    PROVE  Confirmed(p, 0) \/ (HearStep /\ Confirmed(p, 1))
<1> DEFINE c == Completion(Head(fromServer).to.put, Head(fromServer).status)
<1>0. Completion(p, "ok") \in Elements(putsToAck') \cup Elements(completed')
  BY DEF Confirmed, Elements
<1>00. completed \in Seq(Completions) /\ putsToAck \in Seq(Completions)
  BY DEF TypeOK
<1>1. SUFFICES ASSUME Completion(p, "ok") \notin Elements(putsToAck) \cup Elements(completed)
               PROVE  HearStep /\ fromServer[1] = Answer(PutRequest(p), "ok")
  BY DEF Confirmed
<1>2. CASE PutAnswered
  <2>1. /\ c \in Completions
        /\ fromServer[1] = Answer(PutRequest(c.put), c.status)
        /\ \/ UNCHANGED <<putsToAck, completed>>
           \/ Elements(putsToAck') = Elements(putsToAck) \cup {c} /\ completed' = completed
           \/ putsToAck' = putsToAck /\ completed' = Append(completed, c)
    BY <1>2, AnswerKinds
  <2> HIDE DEF c
  <2>2. Completion(p, "ok") = c
    <3>1. Elements(Append(completed, c)) = Elements(completed) \cup {c}
      BY <1>00, <2>1, ElementsAppend
    <3> QED BY <1>0, <1>1, <2>1, <3>1
  <2>3. c.put = p /\ c.status = "ok"
    BY <2>2 DEF Completion
  <2> QED BY <1>2, <2>1, <2>3 DEF HearStep
<1>3. Elements(<<>>) = {}
  BY DEF Elements
<1>4. CASE ListenAnswered
  <2>1. Elements(completed \o putsToAck) = Elements(completed) \cup Elements(putsToAck)
    BY <1>00, ElementsConcat
  <2>2. \/ completed' = completed \o putsToAck /\ putsToAck' = <<>>
        \/ UNCHANGED <<completed, putsToAck>>
    BY <1>4 DEF ListenAnswered
  <2> QED BY <1>0, <1>1, <1>3, <2>1, <2>2
<1>5. CASE Purge
  <2>1. \A r : Completion(p, "ok") # Completion(r, "canceled")
    BY DEF Completion
  <2> QED BY <1>0, <1>1, <1>5, <2>1, PurgeFacts
<1>6. CASE UNCHANGED <<putsToAck, completed>>
  BY <1>0, <1>1, <1>6
<1> QED BY <1>2, <1>4, <1>5, <1>6, StepKinds DEF Put

ConfirmedStored ==
    \A k \in 0..Len(fromServer), p \in Puts : Confirmed(p, k) => p \in Stored

LEMMA ConfirmedIsStored == TypeOK /\ BackedInv => ConfirmedStored
<1> SUFFICES ASSUME TypeOK, BackedInv, NEW k \in 0..Len(fromServer), NEW p \in Puts,
                    Confirmed(p, k)
             PROVE  p \in Stored
  BY DEF ConfirmedStored
<1>1. CASE k = 0
  <2>1. Completion(p, "ok") \in Elements(putsToAck) \cup Elements(completed)
    BY <1>1 DEF Confirmed
  <2>2. Completion(p, "ok").put = p /\ Completion(p, "ok").status = "ok"
    BY DEF Completion
  <2> QED BY <2>1, <2>2 DEF BackedInv, ReportsBacked, Backed
<1>2. CASE k # 0
  BY <1>2, ToldIsStored DEF Confirmed, Told
<1> QED BY <1>1, <1>2

LEMMA FreshStep ==
    ASSUME TypeOK, TypeOK', BackedInv, BackedInv', RetryExactlyWhenIdle, WireIsOpen,
           DataIsFresh, [Next]_vars
    PROVE  DataIsFresh'
<1>0. AnswersBacked /\ Len(fromServer) \in Nat
  BY LenProperties DEF BackedInv, TypeOK
<1> SUFFICES ASSUME NEW i \in 1..Len(fromServer'), NEW p \in Puts,
                    NEW k \in 0..Len(fromServer'), k < i, DataAt(i)', Confirmed(p, k)'
             PROVE  p \in fromServer'[i].value
  BY DEF DataIsFresh
<1>1. ASSUME NEW j, j # 0, k # 0, fromServer'[k] = fromServer[j]
      PROVE  Confirmed(p, j)
  BY <1>1 DEF Confirmed
<1>2. CASE HearStep
  <2>1. /\ i + 1 \in 1..Len(fromServer) /\ fromServer'[i] = fromServer[i + 1]
        /\ 1 \in 0..Len(fromServer) /\ 0 \in 0..Len(fromServer)
        /\ Len(fromServer') = Len(fromServer) - 1
        /\ DataAt(i + 1) /\ 0 < i + 1 /\ 1 < i + 1
    <3>1. /\ i + 1 \in 2..Len(fromServer) /\ fromServer'[i] = fromServer[i + 1]
          /\ 1 \in 1..Len(fromServer) /\ Len(fromServer') = Len(fromServer) - 1
      BY <1>2, HearPlaces
    <3> QED BY <1>0, <3>1 DEF DataAt
  <2>2. CASE k = 0
    <3>1. Confirmed(p, 0) \/ Confirmed(p, 1)
      BY <1>0, <2>2, ConfirmedBefore
    <3> QED BY <2>1, <3>1 DEF DataIsFresh
  <2>3. CASE k # 0
    <3>1. k \in 1..Len(fromServer')
      BY <2>3
    <3>2. k + 1 \in 0..Len(fromServer) /\ k + 1 # 0 /\ k + 1 < i + 1
      BY <1>0, <2>1, <3>1
    <3>3. fromServer'[k] = fromServer[k + 1]
      BY <1>2, <3>1, HearPlaces
    <3>4. Confirmed(p, k + 1)
      BY <1>1, <2>3, <3>2, <3>3
    <3> QED BY <2>1, <3>2, <3>4 DEF DataIsFresh
  <2> QED BY <2>2, <2>3
<1>3. ASSUME ~HearStep, i \in 1..Len(fromServer),
             \A j \in 1..Len(fromServer) : fromServer'[j] = fromServer[j]
      PROVE  p \in fromServer'[i].value
  <2>1. k \in 0..Len(fromServer) /\ DataAt(i) /\ fromServer'[i] = fromServer[i]
    BY <1>0, <1>3 DEF DataAt
  <2>2. Confirmed(p, k)
    <3>1. CASE k = 0
      BY <1>0, <1>3, <3>1, ConfirmedBefore
    <3>2. CASE k # 0
      BY <1>1, <1>3, <2>1, <3>2
    <3> QED BY <3>1, <3>2
  <2> QED BY <1>3, <2>1, <2>2 DEF DataIsFresh
<1>4. CASE ~HearStep /\ UNCHANGED fromServer
  BY <1>3, <1>4
<1>5. CASE ~HearStep /\ ServerStep
  <2>1. Extends /\ \A j \in NewPlaces : Added(j)
    BY <1>5, ServerSays DEF ServerStep
  <2>2. CASE i \in 1..Len(fromServer)
    BY <1>3, <1>5, <2>1, <2>2 DEF Extends
  <2>3. CASE i \notin 1..Len(fromServer)
    <3>1. i \in NewPlaces
      BY <2>1, <2>3 DEF Extends, NewPlaces
    <3>2. \A r, status : Answer(r, status).kind # "data"
      BY DEF Answer
    <3>3. fromServer'[i].value = Stored'
      BY <2>1, <3>1, <3>2 DEF Added, DataAt
    <3>4. ConfirmedStored'
      BY ConfirmedIsStored, PTL
    <3> QED BY <3>3, <3>4 DEF ConfirmedStored
  <2> QED BY <2>2, <2>3
<1>6. CASE fromServer' = <<>>
  BY <1>6
<1> QED BY <1>2, <1>4, <1>5, <1>6, StepCases
        DEF Handshake, Put, Listen, Unlisten, wire

LEMMA FreshInvariant == Spec => []DataIsFresh
<1>1. Init => DataIsFresh
  BY DEF Init, DataIsFresh
<1>2. /\ TypeOK /\ TypeOK' /\ BackedInv /\ BackedInv' /\ ListeningInv /\ DataIsFresh
      /\ [Next]_vars
      => DataIsFresh'
  BY FreshStep DEF ListeningInv, ListensInv
<1> QED BY <1>1, <1>2, ConnectionTyped, BackedInvariant, ListeningInvariant, PTL DEF Spec

-----------------------------------------------------------------------------
(* Callbacks.                                                               *)

LEMMA ReportedFacts ==
    ASSUME ConnectionInv, ConnectionInv', Apart', TreeIsWaiting, [DBNext]_dbVars,
           WriteAnswered \/ ObserveAnswered
    PROVE  LET puts == {c.put : c \in Elements(Reported)}
           IN  /\ Elements(completed') = Elements(completed) \cup Elements(Reported)
               /\ \A c \in Elements(Reported) :
                     /\ c \in Completions /\ c.status \in {"ok", "denied"}
                     /\ Backed(c.put, c.status)
               /\ puts \subseteq allWrites /\ allWrites' = allWrites \ puts
               /\ \A q \in complete' : q \in complete /\ serverCache'[q] = serverCache[q]
               /\ UNCHANGED <<putCounter, applied, rules>>
<1> DEFINE puts == {c.put : c \in Elements(Reported)}
<1>0. /\ TypeOK /\ SyncTyped /\ BackedInv /\ AnswersBacked /\ ReportsBacked
      /\ completed \in Seq(Completions) /\ putsToAck \in Seq(Completions)
  BY DEF ConnectionInv, BackedInv, TypeOK
<1>1. /\ Elements(completed') = Elements(completed) \cup Elements(Reported)
      /\ \A c \in Elements(Reported) : c \in Completions /\ c.status # "canceled"
  <2>1. CASE WriteAnswered
    <3> DEFINE c == Completion(Head(fromServer).to.put, Head(fromServer).status)
    <3>1. /\ c \in Completions /\ c.status # "canceled"
          /\ \/ completed' = completed /\ Elements(Reported) = {}
             \/ completed' = Append(completed, c) /\ Elements(Reported) = {c}
      BY <1>0, <2>1, AnswerKinds DEF WriteAnswered
    <3> HIDE DEF c
    <3>2. Elements(Append(completed, c)) = Elements(completed) \cup {c}
      BY <1>0, <3>1, ElementsAppend
    <3> QED BY <3>1, <3>2
  <2>2. CASE ObserveAnswered
    <3>1. CASE UNCHANGED completed
      BY <1>0, <3>1, ReportedIs
    <3>2. CASE completed' = completed \o putsToAck
      <4>1. Elements(Reported) = Elements(putsToAck)
        BY <1>0, <3>2, ReportedIs
      <4>2. Elements(completed \o putsToAck) = Elements(completed) \cup Elements(putsToAck)
        BY <1>0, ElementsConcat
      <4>3. \A c \in Elements(putsToAck) : c \in Completions /\ c.status # "canceled"
        BY <1>0, ElementOfSeq DEF ReportsBacked, Elements
      <4> QED BY <3>2, <4>1, <4>2, <4>3
    <3> QED BY <2>2, <3>1, <3>2 DEF ObserveAnswered, ListenAnswered
  <2> QED BY <2>1, <2>2
<1>2. UNCHANGED <<putCounter, applied, rules>>
  BY DEF WriteAnswered, ObserveAnswered, PutAnswered, ListenAnswered, server
<1>3. ASSUME NEW c \in Elements(Reported)
      PROVE  c \in Completions /\ c.status \in {"ok", "denied"} /\ Backed(c.put, c.status)
  <2>1. c \in Completions /\ c.status \in {"ok", "denied"}
    BY <1>1 DEF Completions, Statuses
  <2>2. (\A d \in Elements(completed) : Backed(d.put, d.status))'
    <3>1. ReportsBacked'
      BY DEF ConnectionInv, BackedInv
    <3> QED BY <3>1 DEF ReportsBacked
  <2>3. Stored' = Stored /\ rules' = rules
    BY <1>2, StoredKept
  <2> QED BY <1>1, <2>1, <2>2, <2>3 DEF Backed, Elements
<1>4. puts \subseteq allWrites /\ allWrites' = allWrites \ puts
  <2>1. puts = {c.put : c \in {d \in Elements(Reported) : d.status # "canceled"}}
    BY <1>1
  <2>2. AckedAreThere
    BY <1>0, TreeStep DEF ConnectionInv
  <2>3. AckWrites
    BY DEF WriteAnswered, ObserveAnswered
  <2> QED BY <2>1, <2>2, <2>3 DEF AckedAreThere, AckWrites
<1>5. \A q \in complete' : q \in complete /\ serverCache'[q] = serverCache[q]
  BY <1>0 DEF WriteAnswered, ObserveAnswered, ForgetViews, SyncTyped
<1> QED BY <1>1, <1>2, <1>3, <1>4, <1>5

\* Unless a purge broke the client, an open view shows what was reported as done.
DoneIsShown ==
    ~crashed => \A q \in complete, p \in Puts :
        Completion(p, "ok") \in Elements(completed) => p \in serverCache[q]

\* What is reported as done is shown by then.
LEMMA ReportedIsKnown ==
    ASSUME ConnectionInv, ConnectionInv', ViewInv, ViewInv', Apart', TreeIsWaiting,
           [DBNext]_dbVars, WriteAnswered \/ ObserveAnswered, NEW q \in complete',
           NEW c \in Elements(Reported), c.status = "ok"
    PROVE  c.put \in serverCache[q]
<1>1. SUFFICES ASSUME c.put \notin serverCache[q] PROVE FALSE
  OBVIOUS
<1>2. /\ c \in Elements(completed') /\ c \in Completions
      /\ c.put \in allWrites /\ c.put \notin allWrites' /\ q \in complete
  BY ReportedFacts
<1>3. q \in Listening /\ q \in Listening'
  BY <1>2 DEF ViewInv, ViewsOfListening
<1>4. Completion(c.put, "denied") \in Elements(completed')
  BY <1>1, <1>2, <1>3, AnsweredIsShown, ReportedIsShown
<1>5. Completion(c.put, "denied").put = c.put /\ Completion(c.put, "denied").status # "ok"
  BY DEF Completion
<1>6. \A d, e \in Elements(completed') : d.put = e.put => d = e
  BY DEF Apart, Elements
<1> QED BY <1>2, <1>4, <1>5, <1>6

\* The other steps, by what they do to views and callbacks.
LEMMA QuietSteps ==
    ASSUME [DBNext]_dbVars
    PROVE  \/ WriteAnswered \/ ObserveAnswered \/ DataUpdate \/ PurgeOutstandingWrites
           \/ ~DataUpdate /\ completed' = completed
BY DEF DBNext, dbVars, vars, requests, ConnectionOnly, Observe, Unobserve, Set,
       ObserveRevoked, RetryFires, Handshake, ConnectionLost, Interrupt, OnKill,
       InterruptForReason, OnDisconnect, Resume, ResumeForReason, Reachable, Serve,
       OtherPhoneWrites, Revoke, Listen, Unlisten, Put, OnListenRevoked

LEMMA DoneStep ==
    ASSUME ConnectionInv, ConnectionInv', ViewInv, ViewInv', Apart', TreeIsWaiting,
           DataIsFresh, DoneIsShown, [DBNext]_dbVars
    PROVE  DoneIsShown'
<1> SUFFICES ASSUME ~crashed', NEW q \in complete', NEW p \in Puts,
                    Completion(p, "ok") \in Elements(completed')
             PROVE  p \in serverCache'[q]
  BY DEF DoneIsShown, Elements
<1>0. /\ TypeOK /\ SyncTyped /\ q \in Queries
      /\ Completion(p, "ok").put = p /\ Completion(p, "ok").status = "ok"
  BY DEF ConnectionInv, SyncTyped, Completion
<1>1. ~crashed
  BY DEF DBNext, dbVars, syncTree
<1>2. CASE WriteAnswered \/ ObserveAnswered
  <2>1. /\ q \in complete /\ serverCache'[q] = serverCache[q]
        /\ \/ Completion(p, "ok") \in Elements(completed)
           \/ Completion(p, "ok") \in Elements(Reported)
    BY <1>2, ReportedFacts
  <2> QED BY <1>0, <1>1, <1>2, <2>1, ReportedIsKnown DEF DoneIsShown
<1>3. CASE DataUpdate
  <2>1. completed' = completed
    BY <1>3 DEF DataUpdate, DataReceived, requests
  <2>2. /\ DataAt(1) /\ HearStep
        /\ IF q = fromServer[1].query /\ q \in Listening
           THEN serverCache'[q] = fromServer[1].value
           ELSE serverCache'[q] = serverCache[q] /\ (q \in complete' => q \in complete)
    BY <1>0, <1>3, DataUpdateFacts
  <2>3. 1 \in 1..Len(fromServer) /\ 0 \in 0..Len(fromServer)
    BY <1>0, <2>2, HearPlaces
  <2>4. p \in fromServer[1].value
    BY <2>1, <2>2, <2>3 DEF DataIsFresh, Confirmed
  <2> QED BY <1>1, <2>1, <2>2, <2>4 DEF DoneIsShown
<1>4. CASE PurgeOutstandingWrites
  <2>1. Elements(putsToAck) = {}
    <3>1. putsToAck = <<>>
      BY <1>4 DEF PurgeOutstandingWrites
    <3> QED BY <3>1 DEF Elements
  <2>2. \A r : Completion(p, "ok") # Completion(r, "canceled")
    BY DEF Completion
  <2>3. Completion(p, "ok") \in Elements(completed)
    BY <1>0, <1>4, <2>1, <2>2, PurgeFacts DEF PurgeOutstandingWrites
  <2> QED BY <1>1, <1>4, <2>3 DEF DoneIsShown, PurgeOutstandingWrites
<1>5. CASE ~DataUpdate /\ completed' = completed
  <2>1. q \in complete /\ serverCache'[q] = serverCache[q]
    BY <1>0, <1>5, CacheStep
  <2> QED BY <1>1, <1>5, <2>1 DEF DoneIsShown
<1> QED BY <1>2, <1>3, <1>4, <1>5, QuietSteps

LEMMA DoneInvariant == DBSpec => []DoneIsShown
<1>1. DBInit => DoneIsShown
  BY DEF DBInit, DoneIsShown
<1>2. /\ ConnectionInv /\ ConnectionInv' /\ ViewInv /\ ViewInv' /\ Apart'
      /\ TreeIsWaiting /\ DataIsFresh /\ DoneIsShown /\ [DBNext]_dbVars
      => DoneIsShown'
  BY DoneStep
<1> QED BY <1>1, <1>2, ConnectionInvariant, ViewInvariant, ApartInvariant, TreeInvariant,
           FreshInvariant, DatabaseUsesConnection, PTL DEF DBSpec

\* The app reads its own writes: an open view shows what waits and what succeeded.
THEOREM OwnWritesAreRead ==
    DBSpec => [](~crashed => \A q \in complete, p \in 1..putCounter :
                    p \notin Shown(q) =>
                        \E status \in {"denied", "canceled"} :
                            Completion(p, status) \in Elements(completed))
<1>1. TypeOK /\ Placed /\ TreeIsWaiting /\ DoneIsShown
        => (~crashed => \A q \in complete, p \in 1..putCounter :
                    p \notin Shown(q) =>
                        \E status \in {"denied", "canceled"} :
                            Completion(p, status) \in Elements(completed))
  <2> SUFFICES ASSUME TypeOK, Placed, TreeIsWaiting, DoneIsShown, ~crashed,
                      NEW q \in complete, NEW p \in 1..putCounter, p \notin Shown(q)
               PROVE  \E status \in {"denied", "canceled"} :
                          Completion(p, status) \in Elements(completed)
    OBVIOUS
  <2>1. p \in Puts
    BY BoundsAreNat DEF TypeOK, Puts
  <2>2. p \notin allWrites /\ p \notin serverCache[q]
    BY DEF Shown
  <2>3. PICK c \in Elements(completed) : c.put = p
    BY <2>2 DEF TreeIsWaiting, Placed, Reports
  <2>4. c \in Completions /\ c = Completion(p, c.status) /\ c.status \in Statuses
    <3>1. c \in Completions
      BY ElementOfSeq DEF TypeOK, Elements
    <3> QED BY <2>3, <3>1, CompletionFacts DEF Completions
  <2>5. c.status # "ok"
    BY <2>1, <2>2, <2>4 DEF DoneIsShown
  <2> QED BY <2>4, <2>5 DEF Statuses
<1> QED BY <1>1, DoneInvariant, TreeInvariant, OnceInvariant, ConnectionTyped,
           DatabaseUsesConnection, PTL

-----------------------------------------------------------------------------
(* The refinement.                                                          *)

AllInv ==
    /\ ConnectionInv /\ ViewInv /\ Placed /\ Apart /\ TreeIsWaiting /\ SentInv
    /\ IssueOrder /\ DoneIsShown

LEMMA AllInvariant == DBSpec => []AllInv
<1>1. /\ ConnectionInv /\ ViewInv /\ Placed /\ Apart /\ TreeIsWaiting /\ SentInv
      /\ IssueOrder /\ DoneIsShown
      => AllInv
  BY DEF AllInv
<1> QED BY <1>1, ConnectionInvariant, ViewInvariant, OnceInvariant, ApartInvariant,
           TreeInvariant, SentInvariant, WritesKeepTheirOrder, DoneInvariant,
           DatabaseUsesConnection, PTL

LEMMA AllParts ==
    AllInv => /\ TypeOK /\ SyncTyped /\ CommitsAllowed /\ SentIssued /\ putCounter \in Nat
              /\ MaxPuts \in Nat /\ complete \subseteq Queries /\ rules.puts \subseteq Puts
<1> SUFFICES ASSUME AllInv
             PROVE  /\ TypeOK /\ SyncTyped /\ CommitsAllowed /\ SentIssued /\ putCounter \in Nat
                    /\ MaxPuts \in Nat /\ complete \subseteq Queries /\ rules.puts \subseteq Puts
  OBVIOUS
<1>1. TypeOK /\ SyncTyped /\ CommitsAllowed /\ SentIssued
  BY DEF AllInv, ConnectionInv, SentInv
<1>2. MaxPuts \in Nat
  BY BoundsAreNat
<1>3. putCounter \in Nat
  BY <1>1, <1>2 DEF TypeOK
<1> QED BY <1>1, <1>2, <1>3, RulesTyped DEF SyncTyped

\* The abstract sets, in terms of the client's state.
LEMMA MapWaiting ==
    ASSUME AllInv
    PROVE  Promise!Waiting = allWrites
<1>0. /\ TypeOK /\ Placed /\ Apart /\ TreeIsWaiting
      /\ 1..putCounter = Elements(outstandingPuts) \cup Reports
  BY DEF AllInv, ConnectionInv, Placed
<1>1. ASSUME NEW p \in allWrites PROVE p \in Promise!Waiting
  <2>1. p \in 1..putCounter /\ \A c \in Elements(completed) : c.put # p
    BY <1>0 DEF TreeIsWaiting, Apart, Reports
  <2> QED BY <2>1 DEF Promise!Waiting
<1>2. ASSUME NEW p \in Promise!Waiting PROVE p \in allWrites
  <2>1. p \in 1..putCounter /\ \A c \in Elements(completed) : c.put # p
    BY DEF Promise!Waiting
  <2> QED BY <1>0, <2>1 DEF TreeIsWaiting, Reports
<1> QED BY <1>1, <1>2

LEMMA MapInit == DBInit => Promise!Init
<1> SUFFICES ASSUME DBInit PROVE Promise!Init
  OBVIOUS
<1>1. rules.puts \subseteq 1..MaxPuts
  BY BoundsAreNat DEF DBInit, Init, Puts
<1>2. Stored = {} /\ Elements(completed) = {}
  BY DEF DBInit, Init, Stored, Elements
<1>3. [q \in Queries |-> Own(q)] = [q \in Queries |-> {}]
  BY DEF DBInit, Own
<1> QED BY <1>1, <1>2, <1>3 DEF DBInit, Init, Promise!Init

\* What the app has of a view, after a step.
LEMMA OwnThen ==
    \A q \in Queries :
        Own(q)' = IF q \in complete' THEN (serverCache'[q] \cup allWrites') \cap Puts ELSE {}
BY DEF Own, Shown

LEMMA MapStutter ==
    ASSUME Stored' \cap Puts = Stored \cap Puts, UNCHANGED <<putCounter, completed, rules, syncTree>>
    PROVE  UNCHANGED Promise!ownWrites
<1>1. \A q \in Queries : Own(q)' = Own(q)
  BY OwnThen DEF syncTree, Own, Shown
<1>2. [q \in Queries |-> Own(q)]' = [q \in Queries |-> Own(q)]
  BY <1>1
<1>3. Elements(completed)' = Elements(completed)
  BY DEF Elements
<1> QED BY <1>2, <1>3 DEF Promise!ownWrites, syncTree

LEMMA MapIssue ==
    ASSUME AllInv, AllInv', Set
    PROVE  Promise!Issue
<1>0. TypeOK /\ putCounter \in Nat /\ MaxPuts \in Nat /\ complete \subseteq Queries
  BY AllParts
<1>1. /\ putCounter < MaxPuts /\ putCounter' = putCounter + 1
      /\ allWrites' = allWrites \cup {putCounter'}
      /\ UNCHANGED <<completed, applied, rules, complete, serverCache, crashed>>
  BY DEF Set, Put, server
<1>2. putCounter' \in Puts
  BY <1>0, <1>1 DEF Puts
<1>3. \A q \in Queries :
          Own(q)' = IF q \in complete THEN Own(q) \cup {putCounter'} ELSE {}
  BY <1>1, <1>2, OwnThen DEF Own, Shown
<1>4. [q \in Queries |-> Own(q)]'
          = [q \in Queries |-> IF q \in complete THEN [k \in Queries |-> Own(k)][q] \cup {putCounter'}
                                                 ELSE {}]
  BY <1>3
<1>5. Elements(completed)' = Elements(completed) /\ Stored' = Stored
  BY <1>1, StoredKept DEF Elements
<1> QED BY <1>1, <1>4, <1>5 DEF Promise!Issue

LEMMA MapCommit ==
    ASSUME AllInv, AllInv', [Next]_vars, Serve, UNCHANGED syncTree, NEW p \in 1..putCounter,
           p \notin rules.puts, p \in Puts, p \notin Stored,
           applied' = Append(applied, p), Stored' = Stored \cup {p}
    PROVE  Promise!Commit(p)
<1>0. /\ TypeOK /\ IssueOrder' /\ putCounter \in Nat /\ applied \in Seq(0..MaxPuts)
      /\ p \in 0..MaxPuts /\ MaxPuts \in Nat
  <2>1. TypeOK /\ putCounter \in Nat /\ MaxPuts \in Nat
    BY AllParts
  <2>2. IssueOrder'
    BY DEF AllInv
  <2> QED BY <2>1, <2>2 DEF TypeOK, Puts
<1>1. UNCHANGED <<completed, putCounter, rules>>
  BY Grows, <1>0 DEF Serve, requests
<1>2. 1..(p - 1) \subseteq ((Stored \cap Puts) \cup rules.puts) \cup Promise!Canceled
  <2> SUFFICES ASSUME NEW r \in 1..(p - 1), r \notin Stored \cap Puts, r \notin rules.puts
               PROVE  r \in Promise!Canceled
    OBVIOUS
  <2>1. r \in Puts /\ r \in 1..putCounter /\ r # p /\ r \notin Stored
    BY <1>0 DEF Puts
  <2> DEFINE n == Len(applied) + 1
  <2>2. n \in 1..Len(applied') /\ applied'[n] = p /\ Len(applied) \in Nat
    BY <1>0, AppendProperties, LenProperties
  <2>3. r \notin Stored'
    BY <2>1
  <2>4. ~\E j \in 1..n : applied'[j] = r
    <3>1. Len(applied') = n
      BY <1>0, AppendProperties
    <3>2. Stored' = Elements(applied')
      BY DEF Stored, Elements
    <3> QED BY <2>3, <3>1, <3>2 DEF Elements
  <2>5. r \in 1..(applied'[n] - 1)
    BY <2>2
  <2>6. \/ \E j \in 1..n : applied'[j] = r
        \/ r \in rules'.puts
        \/ Completion(r, "canceled") \in Elements(completed')
    BY <1>0, <2>2, <2>5 DEF IssueOrder, Elements
  <2>7. Completion(r, "canceled") \in Elements(completed)
    BY <1>1, <2>4, <2>6
  <2> QED BY <2>1, <2>7 DEF Promise!Canceled, Promise!Answer, Completion
<1>3. \A q \in Queries : Own(q)' = Own(q)
  BY OwnThen DEF syncTree, Own, Shown
<1>4. [q \in Queries |-> Own(q)]' = [q \in Queries |-> Own(q)]
  BY <1>3
<1>5. Elements(completed)' = Elements(completed)
  BY <1>1 DEF Elements
<1>6. (Stored \cap Puts)' = (Stored \cap Puts) \cup {p}
  BY DEF Puts
<1> QED BY <1>1, <1>2, <1>4, <1>5, <1>6 DEF Promise!Commit, Promise!Known, syncTree

LEMMA SaysWhat ==
    ASSUME CommitsAllowed, NEW reports,
           \A c \in reports : /\ c \in Completions /\ c.status \in {"ok", "denied"}
                              /\ Backed(c.put, c.status)
    PROVE  LET puts == {c.put : c \in reports}
           IN  /\ reports = Promise!Says(puts)
               /\ puts \subseteq (Stored \cap Puts) \cup rules.puts
               /\ \A c \in reports : c.status = "denied" <=> c.put \in rules.puts
<1>1. ASSUME NEW c \in reports
      PROVE  /\ c = Completion(c.put, IF c.put \in rules.puts THEN "denied" ELSE "ok")
             /\ c.put \in (Stored \cap Puts) \cup rules.puts
             /\ c.status = "denied" <=> c.put \in rules.puts
  <2>1. c = Completion(c.put, c.status) /\ c.put \in Puts
    BY CompletionFacts
  <2>2. c.status = "denied" <=> c.put \in rules.puts
    BY DEF Backed, CommitsAllowed
  <2> QED BY <2>1, <2>2 DEF Backed
<1>2. \A r, status : Promise!Answer(r, status) = Completion(r, status)
  BY DEF Promise!Answer, Completion
<1> QED BY <1>1, <1>2 DEF Promise!Says

\* Views that close answer nothing.
LEMMA MapClose ==
    ASSUME AllInv, NEW gone, ForgetViews(gone),
           UNCHANGED <<putCounter, completed, applied, rules, allWrites, crashed>>
    PROVE  Promise!AnswerPuts({})
<1>0. SyncTyped
  BY AllParts
<1>1. \A q \in complete' : q \in complete /\ serverCache'[q] = serverCache[q]
  BY <1>0 DEF ForgetViews, SyncTyped
<1>2. \A q \in Queries :
          Own(q)' = IF q \in complete' THEN Own(q) \ ({} \cap rules.puts) ELSE {}
  BY <1>1, OwnThen DEF Own, Shown
<1>3. [q \in Queries |-> Own(q)]'
          = [q \in Queries |-> IF q \in complete'
                               THEN [k \in Queries |-> Own(k)][q] \ ({} \cap rules.puts)
                               ELSE {}]
  BY <1>2
<1>4. Elements(completed)' = Elements(completed) /\ Stored' = Stored
  BY StoredKept DEF Elements
<1>5. Elements(completed)' = Elements(completed) \cup Promise!Says({})
  BY <1>4 DEF Promise!Says
<1> QED BY <1>1, <1>3, <1>4, <1>5 DEF Promise!AnswerPuts

LEMMA MapAnswer ==
    ASSUME AllInv, AllInv', DBNext, WriteAnswered \/ ObserveAnswered
    PROVE  \E puts \in SUBSET Promise!Waiting : Promise!AnswerPuts(puts)
<1> DEFINE puts == {c.put : c \in Elements(Reported)}
<1>0. /\ ConnectionInv /\ ConnectionInv' /\ ViewInv /\ ViewInv' /\ Apart' /\ TreeIsWaiting
      /\ TypeOK /\ TypeOK' /\ SyncTyped /\ BackedInv /\ CommitsAllowed /\ [DBNext]_dbVars
  BY AllParts DEF AllInv, ConnectionInv
<1>1. /\ Elements(completed') = Elements(completed) \cup Elements(Reported)
      /\ \A c \in Elements(Reported) :
            /\ c \in Completions /\ c.status \in {"ok", "denied"}
            /\ Backed(c.put, c.status)
      /\ puts \subseteq allWrites /\ allWrites' = allWrites \ puts
      /\ \A q \in complete' : q \in complete /\ serverCache'[q] = serverCache[q]
      /\ UNCHANGED <<putCounter, applied, rules>>
  BY <1>0, ReportedFacts
<1>2. /\ Elements(Reported) = Promise!Says(puts)
      /\ puts \subseteq (Stored \cap Puts) \cup rules.puts
      /\ \A c \in Elements(Reported) : c.status = "denied" <=> c.put \in rules.puts
  BY <1>0, <1>1, SaysWhat
<1>3. Promise!Waiting = allWrites
  BY MapWaiting
<1>4. crashed' = crashed
  <2>1. crashed = FALSE
    BY <1>0 DEF DBNext, SyncTyped
  <2>2. AckedAreThere
    BY <1>0, TreeStep
  <2>3. crashed' = (~ AckedAreThere)
    BY DEF WriteAnswered, ObserveAnswered, AckWrites, AckedAreThere
  <2> QED BY <2>1, <2>2, <2>3
<1>5. ASSUME NEW q \in complete'
      PROVE  Own(q)' = Own(q) \ (puts \cap rules.puts)
  <2>1. q \in complete /\ q \in Queries /\ serverCache'[q] = serverCache[q]
    BY <1>0, <1>1 DEF SyncTyped
  <2>2. serverCache[q] \cap rules.puts = {}
    BY <1>0, <2>1 DEF ViewInv, DataGrows, CommitsAllowed
  <2>3. puts \ rules.puts \subseteq serverCache[q]
    <3> SUFFICES ASSUME NEW c \in Elements(Reported), c.put \notin rules.puts
                 PROVE  c.put \in serverCache[q]
      OBVIOUS
    <3>1. c.status = "ok"
      BY <1>1, <1>2
    <3> QED BY <1>0, <3>1, ReportedIsKnown
  <2>4. Own(q)' = (serverCache[q] \cup (allWrites \ puts)) \cap Puts
    BY <1>1, <2>1, OwnThen
  <2>5. Own(q) = (serverCache[q] \cup allWrites) \cap Puts
    BY <2>1 DEF Own, Shown
  <2> HIDE DEF puts
  <2> QED BY <2>2, <2>3, <2>4, <2>5
<1>6. [q \in Queries |-> Own(q)]'
          = [q \in Queries |-> IF q \in complete'
                               THEN [k \in Queries |-> Own(k)][q] \ (puts \cap rules.puts)
                               ELSE {}]
  BY <1>5, OwnThen
<1>7. complete' \subseteq complete /\ Stored' = Stored
  BY <1>1, StoredKept
<1>8. Elements(completed)' = Elements(completed) \cup Promise!Says(puts)
  BY <1>1, <1>2 DEF Elements
<1> HIDE DEF puts
<1>9. Promise!AnswerPuts(puts)
  BY <1>1, <1>2, <1>3, <1>4, <1>6, <1>7, <1>8 DEF Promise!AnswerPuts, Promise!Known
<1> QED BY <1>1, <1>3, <1>9

LEMMA MapRefresh ==
    ASSUME AllInv, AllInv', DBNext, DataUpdate
    PROVE  UNCHANGED Promise!ownWrites \/ \E q \in Queries : Promise!Refresh(q)
<1>0. /\ TypeOK /\ SyncTyped /\ DataGrows /\ DataGrows' /\ DoneIsShown' /\ SyncTyped'
      /\ allWrites \subseteq Puts
  BY AllParts DEF AllInv, ConnectionInv, ViewInv, SyncTyped
<1>1. UNCHANGED <<putCounter, completed, applied, rules, allWrites, crashed>>
  BY DEF DataUpdate, DataReceived, requests, server
<1>2. Stored' = Stored /\ Elements(completed)' = Elements(completed)
  BY <1>1, StoredKept DEF Elements
<1>3. SUFFICES ASSUME Head(fromServer).query \in Listening
               PROVE  \E q \in Queries : Promise!Refresh(q)
  <2>1. Head(fromServer).query \notin Listening => UNCHANGED syncTree
    BY <1>1 DEF DataUpdate, syncTree
  <2> QED BY <1>1, <1>2, <2>1, MapStutter
<1> PICK q \in Queries : q = Head(fromServer).query
  BY <1>3 DEF Listening
<1>4. complete' = complete \cup {q} /\ q \in complete'
  BY <1>3 DEF DataUpdate
<1>5. \A k \in Queries : k # q => serverCache'[k] = serverCache[k]
  BY <1>0, <1>3 DEF DataUpdate, SyncTyped
<1>6. /\ serverCache[q] \subseteq serverCache'[q] /\ serverCache'[q] \subseteq Stored
  <2>1. [DBNext]_dbVars
    OBVIOUS
  <2> QED BY <1>0, <1>2, <1>4, <2>1, CacheGrows DEF DataGrows
<1>7. ~crashed'
  BY <1>1 DEF DBNext
<1> DEFINE set == (serverCache'[q] \cup allWrites) \cap Puts
<1>8. Promise!Waiting = allWrites
  BY MapWaiting
<1>9. Promise!Done \subseteq set
  <2> SUFFICES ASSUME NEW p \in Promise!Done PROVE p \in set
    OBVIOUS
  <2>1. p \in 1..putCounter /\ Completion(p, "ok") \in Elements(completed)
    BY DEF Promise!Done, Promise!Answer, Completion
  <2>2. p \in Puts
    BY <1>0, <2>1, BoundsAreNat DEF TypeOK, Puts
  <2> QED BY <1>1, <1>4, <1>7, <1>0, <2>1, <2>2 DEF DoneIsShown, Elements
<1>10. Own(q) \subseteq set /\ Own(q)' = set
  <2>1. Own(q)' = set
    BY <1>1, <1>4, OwnThen
  <2>2. Own(q) \subseteq (serverCache[q] \cup allWrites) \cap Puts
    BY DEF Own, Shown
  <2> QED BY <1>6, <2>1, <2>2
<1>11. \A k \in Queries : k # q => Own(k)' = Own(k)
  BY <1>1, <1>4, <1>5, OwnThen DEF Own, Shown
<1>12. [k \in Queries |-> Own(k)]' = [[k \in Queries |-> Own(k)] EXCEPT ![q] = set]
  <2>1. [k \in Queries |-> Own(k)]'
            = [k \in Queries |-> IF k = q THEN set ELSE Own(k)]
    BY <1>10, <1>11
  <2> HIDE DEF set
  <2>2. [[k \in Queries |-> Own(k)] EXCEPT ![q] = set]
            = [k \in Queries |-> IF k = q THEN set ELSE Own(k)]
    BY <1>4
  <2> QED BY <2>1, <2>2
<1>13. set \in SUBSET (Promise!Waiting \cup (Stored \cap Puts)) /\ allWrites \subseteq set
  BY <1>0, <1>6, <1>8
<1> HIDE DEF set
<1>14. [k \in Queries |-> Own(k)][q] \subseteq set
  BY <1>4, <1>10
<1> QED BY <1>1, <1>2, <1>4, <1>8, <1>9, <1>12, <1>13, <1>14 DEF Promise!Refresh

LEMMA MapPurge ==
    ASSUME AllInv, AllInv', PurgeOutstandingWrites
    PROVE  \E puts \in SUBSET Promise!Waiting : Promise!Purge(puts)
<1> DEFINE puts == {c.put : c \in Elements(putsToAck)}
<1>0. /\ TypeOK /\ SyncTyped /\ ReportsBacked /\ Apart /\ TreeIsWaiting /\ CommitsAllowed
      /\ putsToAck \in Seq(Completions) /\ serverCache \in [Queries -> Values]
  BY AllParts DEF AllInv, ConnectionInv, BackedInv, TypeOK, SyncTyped
<1>1. /\ Elements(completed') = Elements(completed) \cup Elements(putsToAck)
             \cup {Completion(p, "canceled") : p \in Elements(outstandingPuts)}
      /\ UNCHANGED <<putCounter, applied, rules, complete, serverCache>>
      /\ allWrites' = {} /\ crashed' = (putsToAck # <<>>)
  BY <1>0, PurgeFacts DEF PurgeOutstandingWrites, Purge, server
<1>2. /\ Elements(putsToAck) = Promise!Says(puts)
      /\ puts \subseteq (Stored \cap Puts) \cup rules.puts
  <2>1. \A c \in Elements(putsToAck) :
            c \in Completions /\ c.status \in {"ok", "denied"} /\ Backed(c.put, c.status)
    <3>1. \A c \in Elements(putsToAck) : c \in Completions
      BY <1>0, ElementOfSeq DEF Elements
    <3> QED BY <1>0, <3>1 DEF ReportsBacked, Completions, Statuses
  <2> QED BY <1>0, <2>1, SaysWhat
<1>3. Promise!Waiting = allWrites /\ puts \subseteq allWrites
  BY <1>0, MapWaiting DEF TreeIsWaiting
<1>4. allWrites \ puts = Elements(outstandingPuts)
  <2>1. allWrites = Elements(outstandingPuts) \cup puts
    BY <1>0 DEF TreeIsWaiting
  <2>2. \A p \in puts : p \notin Elements(outstandingPuts)
    BY <1>0 DEF Apart, Reports
  <2> HIDE DEF puts
  <2> QED BY <2>1, <2>2
<1>5. crashed' = (puts # {})
  <2>1. putsToAck # <<>> => \E c : c \in Elements(putsToAck)
    <3> SUFFICES ASSUME putsToAck # <<>> PROVE \E c : c \in Elements(putsToAck)
      OBVIOUS
    <3>1. 1 \in 1..Len(putsToAck)
      BY <1>0, EmptySeq, LenProperties
    <3> QED BY <3>1 DEF Elements
  <2>2. putsToAck = <<>> => Elements(putsToAck) = {}
    BY DEF Elements
  <2>3. (putsToAck # <<>>) <=> puts # {}
    BY <2>1, <2>2
  <2> QED BY <1>1, <2>3
<1> HIDE DEF puts
<1>6. \A p : Promise!Answer(p, "canceled") = Completion(p, "canceled")
  BY DEF Promise!Answer, Completion
<1>7. Elements(completed)' = Elements(completed) \cup Promise!Says(puts)
          \cup {Promise!Answer(p, "canceled") : p \in Promise!Waiting \ puts}
  BY <1>1, <1>2, <1>3, <1>4, <1>6 DEF Elements
<1>8. \A q \in Queries :
          /\ Own(q)' = IF q \in complete THEN serverCache[q] \cap Puts ELSE {}
          /\ Own(q) = IF q \in complete THEN (serverCache[q] \cup allWrites) \cap Puts ELSE {}
  BY <1>1, OwnThen DEF Own, Shown
<1>9. \A q \in Queries :
          /\ [k \in Queries |-> Own(k)][q] \ allWrites \subseteq [k \in Queries |-> Own(k)]'[q]
          /\ [k \in Queries |-> Own(k)]'[q] \subseteq [k \in Queries |-> Own(k)][q]
  BY <1>8
<1>10. [k \in Queries |-> Own(k)]' \in [Queries -> SUBSET (1..MaxPuts)]
  <2>1. \A q \in Queries : Own(q)' \in SUBSET (1..MaxPuts)
    BY <1>8 DEF Puts
  <2> QED BY <2>1
<1>11. Stored' = Stored
  BY <1>1, StoredKept
<1>12. Promise!Purge(puts)
  BY <1>1, <1>2, <1>3, <1>5, <1>7, <1>9, <1>10, <1>11 DEF Promise!Purge, Promise!Known
<1> QED BY <1>3, <1>12

\* The handlers that tell the client nothing: the server may commit a write.
LEMMA MapQuiet ==
    ASSUME AllInv, AllInv', [Next]_vars, ConnectionOnly
    PROVE  \/ UNCHANGED Promise!ownWrites
           \/ \E p \in 1..putCounter : Promise!Commit(p)
<1>0. TypeOK /\ SentIssued
  BY AllParts
<1>1. UNCHANGED <<putCounter, completed, rules, syncTree>>
  <2>1. UNCHANGED syncTree
    BY DEF ConnectionOnly
  <2>2. UNCHANGED <<putCounter, completed>>
    BY DEF ConnectionOnly, RetryFires, Handshake, ConnectionLost, Interrupt, OnKill,
           InterruptForReason, OnDisconnect, Resume, ResumeForReason, Reachable, Serve,
           OtherPhoneWrites, Revoke, requests
  <2> QED BY <1>0, <2>1, <2>2, Grows
<1>2. CASE Stored' \cap Puts = Stored \cap Puts
  BY <1>1, <1>2, MapStutter
<1>3. ASSUME NEW p \in 1..putCounter, Serve, p \notin rules.puts, p \in Puts,
             applied' = Append(applied, p), Stored' = Stored \cup {p}
      PROVE  UNCHANGED Promise!ownWrites \/ Promise!Commit(p)
  <2>1. CASE p \in Stored
    <3>1. Stored' \cap Puts = Stored \cap Puts
      BY <1>3, <2>1
    <3> QED BY <1>1, <3>1, MapStutter
  <2>2. CASE p \notin Stored
    BY <1>1, <1>3, <2>2, MapCommit
  <2> QED BY <2>1, <2>2
<1> QED BY <1>0, <1>2, <1>3, CommitCases

LEMMA MapStep ==
    ASSUME AllInv, AllInv', [DBNext]_dbVars
    PROVE  [Promise!Next]_(Promise!ownWrites)
<1> SUFFICES ASSUME ~ UNCHANGED Promise!ownWrites PROVE Promise!Next
  OBVIOUS
<1>1. DBNext
  <2>1. UNCHANGED dbVars => Stored' \cap Puts = Stored \cap Puts
    BY StoredKept DEF dbVars, vars, server
  <2>2. UNCHANGED dbVars => UNCHANGED <<putCounter, completed, rules, syncTree>>
    BY DEF dbVars, vars, server, requests
  <2> QED BY <2>1, <2>2, MapStutter
<1>2. ~crashed /\ [Next]_vars
  BY <1>1, DBStepIsStep DEF DBNext
<1>3. \/ Promise!Issue
      \/ \E p \in 1..putCounter : Promise!Commit(p)
      \/ \E puts \in SUBSET Promise!Waiting : Promise!AnswerPuts(puts) \/ Promise!Purge(puts)
      \/ \E q \in Queries : Promise!Refresh(q)
  <2>1. CASE ConnectionOnly
    BY <1>2, <2>1, MapQuiet
  <2>2. ASSUME NEW q \in Queries, Observe(q) PROVE FALSE
    <3>1. UNCHANGED <<putCounter, completed, applied, rules, syncTree>>
      BY <2>2 DEF Observe, Listen, server
    <3> QED BY <3>1, StoredKept, MapStutter
  <2>3. ASSUME NEW q \in Queries, Unobserve(q)
        PROVE  Promise!AnswerPuts({})
    <3>1. /\ ForgetViews({q})
          /\ UNCHANGED <<putCounter, completed, applied, rules, allWrites, crashed>>
      BY <2>3 DEF Unobserve, Unlisten, server
    <3> QED BY <3>1, MapClose
  <2>4. CASE Set
    BY <2>4, MapIssue
  <2>5. CASE PurgeOutstandingWrites
    BY <2>5, MapPurge
  <2>6. CASE WriteAnswered \/ ObserveAnswered
    BY <1>1, <2>6, MapAnswer
  <2>7. CASE DataUpdate
    BY <1>1, <2>7, MapRefresh
  <2>8. CASE ObserveRevoked
    <3>1. /\ ForgetViews({Head(fromServer).query})
          /\ UNCHANGED <<putCounter, completed, applied, rules, allWrites, crashed>>
      BY <2>8 DEF ObserveRevoked, OnListenRevoked, requests, server
    <3> QED BY <3>1, MapClose
  <2> QED BY <1>1, <2>1, <2>2, <2>3, <2>4, <2>5, <2>6, <2>7, <2>8 DEF DBNext
<1> QED BY <1>2, <1>3 DEF Promise!Next

\* The client keeps what OwnWrites promises the app.
THEOREM DatabaseKeepsPromise == DBSpec => ImplementsOwnWrites
<1>1. DBInit => Promise!Init
  BY MapInit
<1>2. AllInv /\ AllInv' /\ [DBNext]_dbVars => [Promise!Next]_(Promise!ownWrites)
  BY MapStep
<1> QED BY <1>1, <1>2, AllInvariant, PTL DEF DBSpec, ImplementsOwnWrites, Promise!Spec

=============================================================================
