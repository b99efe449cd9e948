--------------------------- MODULE ContentProofs ---------------------------
(***************************************************************************)
(* What a child sees is what it hears, for any documents of the database   *)
(* and any order and outcome of the answers: the copy of a Buttons screen  *)
(* stays a prefix of the list that goes on growing.  And the lists are     *)
(* sorted: that a sorted arrangement exists, so that the one that Sorted   *)
(* chooses is one, is an induction on the length of the list.              *)
(***************************************************************************)
EXTENDS Content, SequenceTheorems, FiniteSetTheorems, FunctionTheorems, NaturalSets,
        TLAPS

\* What the argument needs of the types: the list of words, the copy of it,
\* and one cell per tile.
WordsOK ==
    /\ words \in Seq(WordsType)
    /\ screen.mode = "Words" => screen.tiles \in Seq(WordsType)
    /\ cells = [row \in 1..Len(screen.tiles) |-> cells[row]]

SeenInv == WordsOK /\ TilesArePrefix /\ CellMatchesTile

\* Every chain ends with a word.
LEMMA WordOfType ==
    ASSUME NEW d \in WordDocs, NEW end
    PROVE  WordOf(d, end) \in WordsType
BY DEF WordOf, WordsType, Titles, Urls

LEMMA ClosedFacts == Closed.mode = "none" /\ Closed.tiles = <<>> /\ Len(<<>>) = 0
BY DEF Closed

\* A closed screen shows nothing.
LEMMA ClosedIsSafe ==
    ASSUME screen = Closed, cells = <<>>, words \in Seq(WordsType)
    PROVE  SeenInv
<1>1. screen.mode # "Words" /\ 1..Len(screen.tiles) = {}
  BY ClosedFacts
<1>2. cells = [row \in 1..Len(screen.tiles) |-> cells[row]]
  BY <1>1
<1> QED BY <1>1, <1>2 DEF SeenInv, WordsOK, TilesArePrefix, CellMatchesTile

LEMMA SeenInit == Init => SeenInv
BY ClosedIsSafe DEF Init

\* One step keeps the copy a prefix and the cells true to the copy.
LEMMA SeenStep == SeenInv /\ [Next]_vars => SeenInv'
<1> SUFFICES ASSUME SeenInv, [Next]_vars PROVE SeenInv'
  OBVIOUS
<1> USE DEF SeenInv
<1>1. ASSUME UNCHANGED <<words, showing>>
      PROVE  SeenInv'
  BY <1>1 DEF WordsOK, TilesArePrefix, CellMatchesTile, showing
<1>2. ASSUME NEW d \in WordDocs, NEW end, UrlAnswered(d, end)
      PROVE  SeenInv'
  <2>1. /\ Append(words, WordOf(d, end)) \in Seq(WordsType)
        /\ Len(Append(words, WordOf(d, end))) = Len(words) + 1
        /\ \A row \in 1..Len(words) : Append(words, WordOf(d, end))[row] = words[row]
    BY WordOfType, AppendProperties DEF WordsOK
  <2>2. words' = Append(words, WordOf(d, end)) /\ UNCHANGED showing
    BY <1>2 DEF UrlAnswered
  <2>3. WordsOK' /\ CellMatchesTile'
    BY <2>1, <2>2 DEF WordsOK, CellMatchesTile, showing
  <2>4. TilesArePrefix'
    <3>1. CASE screen.mode # "Words"
      BY <2>2, <3>1 DEF TilesArePrefix, showing
    <3>2. CASE screen.mode = "Words"
      <4>1. Len(words) \in Nat /\ Len(screen.tiles) \in Nat
        BY <3>2, LenProperties DEF WordsOK
      <4>2. Len(screen.tiles) <= Len(words)
        BY <3>2 DEF TilesArePrefix
      <4>3. \A row \in 1..Len(screen.tiles) : row \in 1..Len(words)
        BY <4>1, <4>2
      <4> QED BY <2>1, <2>2, <3>2, <4>1, <4>2, <4>3 DEF TilesArePrefix, showing
    <3> QED BY <3>1, <3>2
  <2> QED BY <2>3, <2>4
<1>3. ASSUME NEW mode \in Modes, OpenButtons(mode)
      PROVE  SeenInv'
  <2>1. /\ screen'.mode = mode
        /\ screen'.tiles = IF mode = "Words" THEN words ELSE lists[mode]
        /\ cells' = [row \in 1..Len(screen'.tiles) |-> NotShown]
        /\ words' = words
    BY <1>3 DEF OpenButtons, fetching
  <2>2. WordsOK'
    BY <2>1 DEF WordsOK
  <2>3. TilesArePrefix'
    <3>1. Len(words) \in Nat
      BY LenProperties DEF WordsOK
    <3> QED BY <2>1, <3>1 DEF TilesArePrefix
  <2>4. CellMatchesTile'
    BY <2>1 DEF CellMatchesTile
  <2> QED BY <2>2, <2>3, <2>4
<1>4. ASSUME NEW row \in 1..Len(screen.tiles), ShowCell(row)
      PROVE  SeenInv'
  <2>1. screen' = screen /\ words' = words
    BY <1>4 DEF ShowCell, fetching
  <2> DEFINE shown == IF screen.mode = "Words" THEN words[row].Name
                                               ELSE screen.tiles[row]
  <2>2. cells' = [cells EXCEPT ![row] = shown]
    BY <1>4 DEF ShowCell
  <2>3. shown = Face(screen.mode, screen.tiles[row])
    BY DEF TilesArePrefix, Face
  <2> HIDE DEF shown
  <2>4. WordsOK'
    BY <2>1, <2>2 DEF WordsOK
  <2>5. CellMatchesTile'
    BY <2>1, <2>2, <2>3 DEF CellMatchesTile, WordsOK
  <2> QED BY <2>1, <2>4, <2>5 DEF TilesArePrefix
<1>5. CASE CloseButtons
  <2>1. screen' = Closed /\ cells' = <<>> /\ words' \in Seq(WordsType)
    BY <1>5 DEF CloseButtons, fetching, WordsOK
  <2>2. (screen = Closed /\ cells = <<>> /\ words \in Seq(WordsType) => SeenInv)'
    BY ClosedIsSafe, PTL
  <2> QED BY <2>1, <2>2
<1>6. CASE Relaunch
  <2>1. screen' = Closed /\ cells' = <<>> /\ words' \in Seq(WordsType)
    BY <1>6 DEF Relaunch
  <2>2. (screen = Closed /\ cells = <<>> /\ words \in Seq(WordsType) => SeenInv)'
    BY ClosedIsSafe, PTL
  <2> QED BY <2>1, <2>2
<1>7. CASE \/ \E l \in ListNames : ListAnswered(l)
           \/ \E c \in Modes : QueryFailed(c)
           \/ WordsAnswered
           \/ \E d \in WordDocs : ReferenceAnswered(d)
           \/ UNCHANGED vars
  <2>1. UNCHANGED <<words, showing>>
    BY <1>7 DEF ListAnswered, QueryFailed, WordsAnswered, ReferenceAnswered, vars, showing
  <2> QED BY <1>1, <2>1
<1> QED BY <1>2, <1>3, <1>4, <1>5, <1>6, <1>7 DEF Next, ChainStep

LEMMA SeenHolds == Spec => []SeenInv
<1> QED BY SeenInit, SeenStep, PTL DEF Spec

\* An open Buttons screen's copy is a prefix of the words, however they arrive.
THEOREM CopyStaysPrefix == Spec => []TilesArePrefix
BY SeenHolds, PTL DEF SeenInv

\* The picture in a cell is the picture of the word a tap on it will speak.
THEOREM SeenIsHeard == Spec => []CellMatchesTile
BY SeenHolds, PTL DEF SeenInv


-----------------------------------------------------------------------------
(* Every finished chain has left exactly one word.                         *)

ChainStates == {"none", "reference", "url", "root", "loaded", "failed"}

\* The documents whose chain has ended with the word w.
Finished(w) ==
    {d \in WordDocs : chain[d] \in {"loaded", "failed"} /\ WordOf(d, chain[d]) = w}

\* What the count needs: words are words, and there are no chains before the
\* collection has answered.
FetchOK ==
    /\ words \in Seq(WordsType)
    /\ chain \in [WordDocs -> ChainStates]
    /\ DOMAIN query = Modes
    /\ query["Words"] = "pending" =>
            words = <<>> /\ chain = [d \in WordDocs |-> "none"]

CountInv == FetchOK /\ \A w \in WordsType : Occurrences(words, w) = Cardinality(Finished(w))

LEMMA PlacesAreFinite ==
    ASSUME NEW s \in Seq(WordsType), NEW w
    PROVE  /\ {i \in 1..Len(s) : s[i] = w} \subseteq 1..Len(s)
           /\ IsFiniteSet({i \in 1..Len(s) : s[i] = w})
           /\ Occurrences(s, w) \in Nat
<1>1. Len(s) \in Nat
  OBVIOUS
<1>2. IsFiniteSet(1..Len(s))
  BY <1>1, FS_Interval
<1>3. IsFiniteSet({i \in 1..Len(s) : s[i] = w})
  BY <1>2, FS_Subset
<1> QED BY <1>3, FS_CardinalityType DEF Occurrences

\* Appending an element makes one occurrence of it more, and none of another.
LEMMA OccurrencesAppend ==
    ASSUME NEW s \in Seq(WordsType), NEW x \in WordsType, NEW w \in WordsType
    PROVE  Occurrences(Append(s, x), w) =
               IF x = w THEN Occurrences(s, w) + 1 ELSE Occurrences(s, w)
<1> DEFINE before == {i \in 1..Len(s) : s[i] = w}
           after == {i \in 1..Len(Append(s, x)) : Append(s, x)[i] = w}
<1>1. /\ Len(s) \in Nat /\ Len(Append(s, x)) = Len(s) + 1
      /\ \A i \in 1..Len(s) : Append(s, x)[i] = s[i]
      /\ Append(s, x)[Len(s) + 1] = x
  BY AppendProperties
<1>2. \A i : i \in 1..(Len(s) + 1) <=> i \in 1..Len(s) \/ i = Len(s) + 1
  BY <1>1
<1>3. CASE x = w
  <2>1. after = before \cup {Len(s) + 1}
    BY <1>1, <1>2, <1>3
  <2>2. Len(s) + 1 \notin before
    BY <1>1
  <2>3. IsFiniteSet(before)
    BY PlacesAreFinite
  <2>4. Cardinality(after) = Cardinality(before) + 1
    BY <2>1, <2>2, <2>3, FS_AddElement
  <2> QED BY <1>3, <2>4 DEF Occurrences
<1>4. CASE x # w
  <2>1. after = before
    BY <1>1, <1>2, <1>4
  <2> QED BY <1>4, <2>1 DEF Occurrences
<1> QED BY <1>3, <1>4

LEMMA FinishedAreFinite == \A w : IsFiniteSet(Finished(w))
<1>1. \A w : Finished(w) \subseteq WordDocs
  BY DEF Finished
<1> QED BY <1>1, FS_Subset, DocumentsAreFinite

\* Without an ended chain there is no word.
LEMMA NothingFinished ==
    ASSUME words = <<>>, \A d \in WordDocs : chain[d] \notin {"loaded", "failed"}
    PROVE  \A w \in WordsType : Occurrences(words, w) = Cardinality(Finished(w))
<1> SUFFICES ASSUME NEW w \in WordsType
             PROVE  Occurrences(words, w) = Cardinality(Finished(w))
  OBVIOUS
<1>1. Finished(w) = {}
  BY DEF Finished
<1>2. {i \in 1..Len(words) : words[i] = w} = {}
  BY ClosedFacts
<1> QED BY <1>1, <1>2, FS_EmptySet DEF Occurrences

LEMMA CountInit == Init => CountInv
<1> SUFFICES ASSUME Init PROVE CountInv
  OBVIOUS
<1>1. FetchOK
  BY DEF Init, FetchOK, ChainStates
<1>2. \A d \in WordDocs : chain[d] \notin {"loaded", "failed"}
  BY DEF Init
<1> QED BY <1>1, <1>2, NothingFinished DEF Init, CountInv

LEMMA CountStep == CountInv /\ [Next]_vars => CountInv'
<1> SUFFICES ASSUME CountInv, [Next]_vars PROVE CountInv'
  OBVIOUS
<1> USE DEF CountInv
<1>1. ASSUME NEW d \in WordDocs, NEW end \in {"loaded", "failed"}, UrlAnswered(d, end)
      PROVE  CountInv'
  <2> DEFINE x == WordOf(d, end)
  <2>1. /\ x \in WordsType
        /\ words' = Append(words, x)
        /\ chain' = [chain EXCEPT ![d] = end]
        /\ query' = query
        /\ chain[d] \in {"url", "root"}
    BY <1>1, WordOfType DEF UrlAnswered, MayEnd
  <2>2. FetchOK'
    <3>1. query["Words"] # "pending"
      BY <2>1 DEF FetchOK
    <3>2. words' \in Seq(WordsType) /\ chain' \in [WordDocs -> ChainStates]
      BY <2>1, AppendProperties DEF FetchOK, ChainStates
    <3> QED BY <2>1, <3>1, <3>2 DEF FetchOK
  <2>3. ASSUME NEW w \in WordsType
        PROVE  Occurrences(words', w) = Cardinality(Finished(w)')
    <3>1. d \notin Finished(w)
      BY <2>1 DEF Finished
    <3>2. Occurrences(words', w) =
              IF x = w THEN Occurrences(words, w) + 1 ELSE Occurrences(words, w)
      BY <2>1, OccurrencesAppend DEF FetchOK
    <3>3. /\ chain'[d] = end
          /\ \A e \in WordDocs : e # d => chain'[e] = chain[e]
      BY <2>1 DEF FetchOK
    <3>4. CASE x = w
      <4>1. Finished(w)' = Finished(w) \cup {d}
        BY <3>3, <3>4 DEF Finished
      <4>2. Cardinality(Finished(w)') = Cardinality(Finished(w)) + 1
        BY <3>1, <4>1, FinishedAreFinite, FS_AddElement
      <4> QED BY <3>2, <3>4, <4>2
    <3>5. CASE x # w
      <4>1. Finished(w)' = Finished(w)
        BY <3>1, <3>3, <3>5 DEF Finished
      <4> QED BY <3>2, <3>5, <4>1
    <3> QED BY <3>4, <3>5
  <2> QED BY <2>2, <2>3
\* The collection answers: the chains begin, and there are no words yet.
<1>2. CASE WordsAnswered
  <2>1. /\ words' = words /\ words = <<>>
        /\ query' = [query EXCEPT !["Words"] = "answered"]
        /\ chain' = [d \in WordDocs |-> IF d \in Referring THEN "reference" ELSE "none"]
    BY <1>2 DEF WordsAnswered, FetchOK
  <2>2. FetchOK'
    BY <2>1 DEF FetchOK, ChainStates, Modes
  <2>3. (words = <<>> /\ (\A d \in WordDocs : chain[d] \notin {"loaded", "failed"}) =>
            \A w \in WordsType : Occurrences(words, w) = Cardinality(Finished(w)))'
    BY NothingFinished, PTL
  <2> QED BY <2>1, <2>2, <2>3
<1>3. CASE Relaunch
  <2>1. FetchOK' /\ words' = <<>> /\ chain' = [d \in WordDocs |-> "none"]
    BY <1>3 DEF Relaunch, FetchOK, ChainStates
  <2>2. (words = <<>> /\ (\A d \in WordDocs : chain[d] \notin {"loaded", "failed"}) =>
            \A w \in WordsType : Occurrences(words, w) = Cardinality(Finished(w)))'
    BY NothingFinished, PTL
  <2> QED BY <2>1, <2>2
\* A reference is followed: the chain goes on, unfinished.
<1>4. ASSUME NEW d \in WordDocs, ReferenceAnswered(d)
      PROVE  CountInv'
  <2>1. PICK path \in {"url", "root"} : chain' = [chain EXCEPT ![d] = path]
    BY <1>4 DEF ReferenceAnswered
  <2>2. words' = words /\ query' = query /\ chain[d] = "reference"
    BY <1>4 DEF ReferenceAnswered
  <2>3. FetchOK'
    BY <2>1, <2>2 DEF FetchOK, ChainStates
  <2>4. \A w : Finished(w)' = Finished(w)
    BY <2>1, <2>2 DEF Finished, FetchOK
  <2> QED BY <2>2, <2>3, <2>4
<1>5. ASSUME UNCHANGED <<words, chain>>, DOMAIN query' = Modes,
             query'["Words"] = "pending" => query["Words"] = "pending"
      PROVE  CountInv'
  <2>1. FetchOK'
    BY <1>5 DEF FetchOK
  <2>2. \A w : Finished(w)' = Finished(w)
    BY <1>5 DEF Finished
  <2> QED BY <1>5, <2>1, <2>2
<1>6. CASE \/ \E l \in ListNames : ListAnswered(l)
           \/ \E c \in Modes : QueryFailed(c)
  <2>1. PICK c, end : query' = [query EXCEPT ![c] = end] /\ end # "pending"
    BY <1>6 DEF ListAnswered, QueryFailed
  <2>2. UNCHANGED <<words, chain>>
    BY <1>6 DEF ListAnswered, QueryFailed
  <2> QED BY <1>5, <2>1, <2>2 DEF FetchOK
<1>7. CASE \/ \E mode \in Modes : OpenButtons(mode)
           \/ \E row \in 1..Len(screen.tiles) : ShowCell(row)
           \/ CloseButtons
           \/ UNCHANGED vars
  <2>1. UNCHANGED fetching
    BY <1>7 DEF OpenButtons, ShowCell, CloseButtons, vars, fetching
  <2> QED BY <1>5, <2>1 DEF FetchOK, fetching
<1> QED BY <1>1, <1>2, <1>3, <1>4, <1>6, <1>7 DEF Next, ChainStep

\* Whatever fails and in whatever order the answers come, the words are those of
\* the finished chains, each once, for any documents.
THEOREM OneWordForEachDocument == Spec => []WordsMatchDocuments
<1>1. CountInv => WordsMatchDocuments
  BY DEF CountInv, WordsMatchDocuments, Finished
<1>2. Spec => []CountInv
  BY CountInit, CountStep, PTL DEF Spec
<1> QED BY <1>1, <1>2, PTL

-----------------------------------------------------------------------------
(* A list of numbers can be sorted, so Sorted is what its name says.       *)

\* p is an order of the places 1..n, and the order puts s in ascending order.
IsOrder(p, n) ==
    /\ p \in [1..n -> 1..n]
    /\ \A i, j \in 1..n : p[i] = p[j] => i = j
    /\ \A k \in 1..n : \E i \in 1..n : p[i] = k

Sorts(p, s, n) == IsOrder(p, n) /\ \A i, j \in 1..n : i < j => s[p[i]] <= s[p[j]]

\* Some element is greatest.
LEMMA GreatestElement ==
    ASSUME NEW n \in Nat, NEW s \in [1..(n + 1) -> Nat]
    PROVE  \E m \in 1..(n + 1) : \A i \in 1..(n + 1) : s[i] <= s[m]
<1> DEFINE Greatest(k, m) == \A i \in 1..(k + 1) : s[i] <= s[m]
           A == {k \in 0..n : \E m \in 1..(k + 1) : Greatest(k, m)}
<1>1. 0 \in A
  <2>1. 1 \in 1..(0 + 1) /\ Greatest(0, 1) /\ 0 \in 0..n
    OBVIOUS
  <2> HIDE DEF Greatest
  <2> QED BY <2>1
<1>2. ASSUME NEW k \in A, k < n PROVE k + 1 \in A
  <2>1. k \in 0..n /\ k + 1 \in 0..n /\ k + 2 \in 1..(n + 1) /\ (k + 1) + 1 = k + 2
    BY <1>2
  <2>2. PICK m \in 1..(k + 1) : Greatest(k, m)
    BY <1>2
  <2>3. /\ m \in 1..(n + 1) /\ m \in 1..(k + 2) /\ s[m] \in Nat /\ s[k + 2] \in Nat
        /\ \A i \in 1..(k + 2) : s[i] \in Nat /\ (i \in 1..(k + 1) \/ i = k + 2)
    BY <2>1
  <2>4. CASE s[k + 2] <= s[m]
    <3>1. Greatest(k + 1, m)
      BY <2>1, <2>2, <2>3, <2>4
    <3> HIDE DEF Greatest
    <3> QED BY <2>1, <2>3, <3>1
  <2>5. CASE s[m] < s[k + 2]
    <3>1. Greatest(k + 1, k + 2)
      BY <2>1, <2>2, <2>3, <2>5
    <3>2. k + 2 \in 1..((k + 1) + 1)
      BY <2>1
    <3> HIDE DEF Greatest
    <3> QED BY <2>1, <3>1, <3>2
  <2> QED BY <2>3, <2>4, <2>5
<1>3. n \in A
  <2> HIDE DEF A
  <2> QED BY <1>1, <1>2, InductionUpTo
<1> QED BY <1>3

\* The greatest element goes last, and what was last takes its place among the rest.
LEMMA SortsOneMore ==
    ASSUME NEW n \in Nat, NEW s \in [1..(n + 1) -> Nat],
           NEW m \in 1..(n + 1), \A i \in 1..(n + 1) : s[i] <= s[m],
           NEW rest \in [1..n -> Nat],
           rest = [i \in 1..n |-> IF i = m THEN s[n + 1] ELSE s[i]],
           NEW p, Sorts(p, rest, n)
    PROVE  \E q : Sorts(q, s, n + 1)
<1> DEFINE place(i) == IF p[i] = m THEN n + 1 ELSE p[i]
           q == [i \in 1..(n + 1) |-> IF i = n + 1 THEN m ELSE place(i)]
<1>0. \A i \in 1..n : i \in 1..(n + 1) /\ i # n + 1
  OBVIOUS
<1>1. \A i \in 1..n : p[i] \in 1..n /\ p[i] \in 1..(n + 1) /\ p[i] # n + 1
  <2>1. \A i \in 1..n : p[i] \in 1..n
    BY DEF Sorts, IsOrder
  <2> QED BY <1>0, <2>1
<1>2. \A i \in 1..(n + 1) : i = n + 1 \/ i \in 1..n
  OBVIOUS
<1>3. \A i \in 1..n : place(i) \in 1..(n + 1) /\ s[place(i)] = rest[p[i]] /\ place(i) # m
  BY <1>1
<1>4. \A i, j \in 1..n : place(i) = place(j) => i = j
  <2> SUFFICES ASSUME NEW i \in 1..n, NEW j \in 1..n, place(i) = place(j)
               PROVE  p[i] = p[j]
    BY DEF Sorts, IsOrder
  <2>1. CASE p[i] = m
    BY <1>1, <2>1
  <2>2. CASE p[i] # m
    BY <1>1, <2>2
  <2> QED BY <2>1, <2>2
<1>5. ASSUME NEW k \in 1..(n + 1), k # m PROVE \E i \in 1..n : place(i) = k
  <2>1. CASE k = n + 1
    <3>1. m \in 1..n
      BY <1>2, <1>5, <2>1
    <3>2. PICK i \in 1..n : p[i] = m
      BY <3>1 DEF Sorts, IsOrder
    <3> QED BY <2>1, <3>2
  <2>2. CASE k # n + 1
    <3>1. k \in 1..n
      BY <1>2, <2>2
    <3>2. PICK i \in 1..n : p[i] = k
      BY <3>1 DEF Sorts, IsOrder
    <3> QED BY <1>5, <3>2
  <2> QED BY <2>1, <2>2
<1> HIDE DEF place
<1>6. /\ n + 1 \in 1..(n + 1) /\ q[n + 1] = m
      /\ \A i \in 1..n : q[i] = place(i)
  BY <1>0
<1>7. q \in [1..(n + 1) -> 1..(n + 1)]
  BY <1>3
<1> HIDE DEF q
<1>8. \A i, j \in 1..(n + 1) : q[i] = q[j] => i = j
  <2> SUFFICES ASSUME NEW i \in 1..(n + 1), NEW j \in 1..(n + 1), q[i] = q[j]
               PROVE  i = j
    OBVIOUS
  <2>1. \A k \in 1..n : q[k] # q[n + 1]
    BY <1>3, <1>6
  <2>2. CASE i \in 1..n /\ j \in 1..n
    BY <1>4, <1>6, <2>2
  <2>3. CASE i = n + 1 \/ j = n + 1
    BY <1>2, <2>1, <2>3
  <2> QED BY <1>2, <2>2, <2>3
<1>9. \A k \in 1..(n + 1) : \E i \in 1..(n + 1) : q[i] = k
  BY <1>0, <1>5, <1>6
<1>10. ASSUME NEW i \in 1..(n + 1), NEW j \in 1..(n + 1), i < j
       PROVE  s[q[i]] <= s[q[j]]
  <2>1. i \in 1..n
    BY <1>10
  <2>2. CASE j = n + 1
    BY <1>6, <1>7, <2>2
  <2>3. CASE j # n + 1
    <3>1. j \in 1..n
      BY <1>2, <2>3
    <3>2. rest[p[i]] <= rest[p[j]]
      BY <1>10, <2>1, <3>1 DEF Sorts
    <3> QED BY <1>3, <1>6, <2>1, <3>1, <3>2
  <2> QED BY <2>2, <2>3
<1> QED BY <1>7, <1>8, <1>9, <1>10 DEF Sorts, IsOrder

LEMMA OrderExists ==
    ASSUME NEW n \in Nat
    PROVE  \A s \in [1..n -> Nat] : \E p : Sorts(p, s, n)
<1> DEFINE A == {k \in Nat : \A s \in [1..k -> Nat] : \E p : Sorts(p, s, k)}
<1>1. 0 \in A
  <2>1. ASSUME NEW s \in [1..0 -> Nat] PROVE \E p : Sorts(p, s, 0)
    <3>1. 1..0 = {}
      OBVIOUS
    <3>2. Sorts([i \in 1..0 |-> i], s, 0)
      BY <3>1 DEF Sorts, IsOrder
    <3> QED BY <3>2
  <2> QED BY <2>1
<1>2. ASSUME NEW k \in A PROVE k + 1 \in A
  <2>1. k \in Nat /\ k + 1 \in Nat
    BY <1>2
  <2>2. ASSUME NEW s \in [1..(k + 1) -> Nat] PROVE \E q : Sorts(q, s, k + 1)
    <3>1. PICK m \in 1..(k + 1) : \A i \in 1..(k + 1) : s[i] <= s[m]
      BY <2>1, GreatestElement
    <3> DEFINE rest == [i \in 1..k |-> IF i = m THEN s[k + 1] ELSE s[i]]
    <3>2. rest \in [1..k -> Nat]
      BY <2>1
    <3>3. PICK p : Sorts(p, rest, k)
      BY <1>2, <3>2
    <3> QED BY <2>1, <3>1, <3>2, <3>3, SortsOneMore
  <2> QED BY <2>1, <2>2
<1>3. A = Nat
  <2>1. A \subseteq Nat
    OBVIOUS
  <2> HIDE DEF A
  <2> QED BY <1>1, <1>2, <2>1, InductionOverNat
<1> QED BY <1>3

\* An order of the places changes no count.
LEMMA OrderKeepsCounts ==
    ASSUME NEW s \in Seq(Nat), NEW p, IsOrder(p, Len(s)), NEW t,
           t = [i \in 1..Len(s) |-> s[p[i]]], NEW x
    PROVE  Occurrences(t, x) = Occurrences(s, x)
<1> DEFINE n == Len(s)
           here == {i \in 1..n : s[i] = x}
           there == {i \in 1..n : t[i] = x}
           f == [i \in there |-> p[i]]
<1>1. n \in Nat /\ IsFiniteSet(1..n)
  BY FS_Interval
<1>2. IsFiniteSet(there)
  BY <1>1, FS_Subset
<1>3. \A i \in there : i \in 1..n /\ p[i] \in here
  BY DEF IsOrder
<1>4. f \in [there -> here]
  BY <1>3
<1>5. \A i, j \in there : f[i] = f[j] => i = j
  BY <1>3 DEF IsOrder
<1>6. \A k \in here : \E i \in there : f[i] = k
  BY DEF IsOrder
<1>7. Len(t) = n
  OBVIOUS
<1>8. Occurrences(t, x) = Cardinality(there) /\ Occurrences(s, x) = Cardinality(here)
  BY <1>7 DEF Occurrences
<1> HIDE DEF f, here, there
<1>9. f \in Bijection(there, here)
  BY <1>4, <1>5, <1>6, Fun_IsBij
<1> QED BY <1>2, <1>8, <1>9, FS_Bijection, Fun_ExistsBij

\* Sorted(s) is s in ascending order, for any list of numbers.
THEOREM SortedSorts ==
    ASSUME NEW s \in Seq(Nat)
    PROVE  /\ Sorted(s) \in Seq(Nat) /\ Len(Sorted(s)) = Len(s)
           /\ Ascending(Sorted(s))
           /\ \A x \in Nat : Occurrences(Sorted(s), x) = Occurrences(s, x)
<1> DEFINE n == Len(s)
           values == {s[i] : i \in 1..n}
           IsSorted(t) == /\ Ascending(t)
                          /\ \A x \in values : Occurrences(t, x) = Occurrences(s, x)
<1>1. n \in Nat /\ s \in [1..n -> Nat] /\ values \subseteq Nat
  OBVIOUS
<1>2. PICK p : Sorts(p, s, n)
  BY <1>1, OrderExists
<1> DEFINE t == [i \in 1..n |-> s[p[i]]]
<1>3. t \in [1..n -> values] /\ Len(t) = n
  BY <1>1, <1>2 DEF Sorts, IsOrder
<1>4. Ascending(t)
  BY <1>2, <1>3 DEF Sorts, Ascending
<1>5. \A x : Occurrences(t, x) = Occurrences(s, x)
  BY <1>2, OrderKeepsCounts DEF Sorts
<1>6. Sorted(s) = CHOOSE u \in [1..n -> values] : IsSorted(u)
  BY DEF Sorted
<1> HIDE DEF t
<1>7. Sorted(s) \in [1..n -> values] /\ IsSorted(Sorted(s))
  <2> HIDE DEF IsSorted, values, n
  <2>1. IsSorted(t)
    BY <1>4, <1>5 DEF IsSorted
  <2> QED BY <1>3, <1>6, <2>1
<1>8. Sorted(s) \in Seq(Nat) /\ Len(Sorted(s)) = n
  <2> HIDE DEF values, IsSorted
  <2>1. Sorted(s) \in [1..n -> Nat]
    BY <1>1, <1>7
  <2> HIDE DEF n
  <2> QED BY <1>1, <2>1
<1>9. ASSUME NEW x \in Nat PROVE Occurrences(Sorted(s), x) = Occurrences(s, x)
  <2>1. CASE x \in values
    BY <1>7, <2>1
  <2>2. CASE x \notin values
    <3>1. {i \in 1..Len(s) : s[i] = x} = {}
      BY <2>2
    <3>2. {i \in 1..Len(Sorted(s)) : Sorted(s)[i] = x} = {}
      BY <1>7, <1>8, <2>2
    <3> QED BY <3>1, <3>2 DEF Occurrences
  <2> QED BY <2>1, <2>2
<1> QED BY <1>7, <1>8, <1>9

-----------------------------------------------------------------------------
(* What is fetched and shown is well typed.                                *)

FetchTyped ==
    /\ query \in [Modes -> {"pending", "answered", "failed"}]
    /\ chain \in [WordDocs -> ChainStates]
    /\ words \in Seq(WordsType)
    /\ lists \in [ListNames -> Seq(Nat)]

ScreenTyped ==
    /\ screen.mode \in Modes \cup {"none"}
    /\ screen.tiles \in IF screen.mode = "Words" THEN Seq(WordsType) ELSE Seq(Nat)

Faces == Urls \cup {Blank, NotShown} \cup Nat
CellsTyped == cells \in [1..Len(screen.tiles) -> Faces]

LEMMA ContentParts == TypeOK <=> FetchTyped /\ ScreenTyped /\ CellsTyped
BY DEF TypeOK, FetchTyped, ScreenTyped, CellsTyped, ChainStates, Faces

LEMMA ContentInit == Init => TypeOK
<1> SUFFICES ASSUME Init PROVE FetchTyped /\ ScreenTyped /\ CellsTyped
  BY ContentParts
<1>1. FetchTyped
  BY DEF Init, FetchTyped, ChainStates
<1>2. ScreenTyped /\ screen.tiles = <<>>
  BY ClosedFacts DEF Init, ScreenTyped
<1>3. 1..Len(screen.tiles) = {} /\ cells = <<>>
  BY <1>2 DEF Init
<1>4. CellsTyped
  BY <1>3 DEF CellsTyped
<1> QED BY <1>1, <1>2, <1>4

\* A screen that is closed has no cells.
LEMMA ClosedTyped ==
    ASSUME screen' = Closed, cells' = <<>>
    PROVE  ScreenTyped' /\ CellsTyped'
<1>1. screen'.mode = "none" /\ screen'.tiles = <<>>
  BY ClosedFacts
<1>2. 1..Len(screen'.tiles) = {}
  BY <1>1
<1> QED BY <1>1, <1>2 DEF ScreenTyped, CellsTyped

LEMMA FetchStep ==
    ASSUME FetchTyped, [Next]_vars
    PROVE  FetchTyped'
<1>1. ASSUME NEW l \in ListNames, ListAnswered(l) PROVE FetchTyped'
  <2>1. Sorted(Collections[l]) \in Seq(Nat)
    BY NamesAreOrdered, SortedSorts
  <2> QED BY <1>1, <2>1 DEF ListAnswered, FetchTyped
<1>2. ASSUME NEW c \in Modes, QueryFailed(c) PROVE FetchTyped'
  BY <1>2 DEF QueryFailed, FetchTyped
<1>3. CASE WordsAnswered
  BY <1>3 DEF WordsAnswered, FetchTyped, ChainStates
<1>4. ASSUME NEW d \in WordDocs, ReferenceAnswered(d) PROVE FetchTyped'
  BY <1>4 DEF ReferenceAnswered, FetchTyped, ChainStates
<1>5. ASSUME NEW d \in WordDocs, NEW end \in {"loaded", "failed"}, UrlAnswered(d, end)
      PROVE  FetchTyped'
  BY <1>5, WordOfType, AppendProperties DEF UrlAnswered, FetchTyped, ChainStates
<1>6. CASE Relaunch
  BY <1>6 DEF Relaunch, FetchTyped, ChainStates
<1>7. CASE \/ \E mode \in Modes : OpenButtons(mode)
           \/ \E row \in 1..Len(screen.tiles) : ShowCell(row)
           \/ CloseButtons
           \/ UNCHANGED vars
  <2>1. UNCHANGED fetching
    BY <1>7 DEF OpenButtons, ShowCell, CloseButtons, vars, fetching
  <2> QED BY <2>1 DEF FetchTyped, fetching
<1> QED BY <1>1, <1>2, <1>3, <1>4, <1>5, <1>6, <1>7 DEF Next, ChainStep

\* A cell shows a picture of the list its tiles are a prefix of, or a number.
LEMMA CellTyped ==
    ASSUME FetchTyped, ScreenTyped, TilesArePrefix, NEW row \in 1..Len(screen.tiles)
    PROVE  (IF screen.mode = "Words" THEN words[row].Name ELSE screen.tiles[row]) \in Faces
<1>1. CASE screen.mode = "Words"
  <2>1. row \in 1..Len(words)
    <3>1. Len(words) \in Nat /\ Len(screen.tiles) <= Len(words)
      BY <1>1 DEF FetchTyped, TilesArePrefix
    <3> QED BY <3>1
  <2>2. words[row] \in WordsType
    BY <2>1, ElementOfSeq DEF FetchTyped
  <2> QED BY <1>1, <2>2 DEF WordsType, Faces
<1>2. CASE screen.mode # "Words"
  <2>1. screen.tiles \in Seq(Nat)
    BY <1>2 DEF ScreenTyped
  <2>2. screen.tiles[row] \in Nat
    BY <2>1, ElementOfSeq
  <2> QED BY <1>2, <2>2 DEF Faces
<1> QED BY <1>1, <1>2

LEMMA ScreenStep ==
    ASSUME FetchTyped, ScreenTyped, CellsTyped, TilesArePrefix, [Next]_vars
    PROVE  ScreenTyped' /\ CellsTyped'
<1>1. ASSUME NEW mode \in Modes, OpenButtons(mode) PROVE ScreenTyped' /\ CellsTyped'
  <2>1. /\ screen'.mode = mode
        /\ screen'.tiles = IF mode = "Words" THEN words ELSE lists[mode]
        /\ cells' = [row \in 1..Len(screen'.tiles) |-> NotShown]
    BY <1>1 DEF OpenButtons
  <2>2. mode # "Words" => mode \in ListNames
    BY DEF Modes
  <2>3. screen'.tiles \in IF mode = "Words" THEN Seq(WordsType) ELSE Seq(Nat)
    BY <2>1, <2>2 DEF FetchTyped
  <2> QED BY <2>1, <2>3 DEF ScreenTyped, CellsTyped, Faces
<1>2. ASSUME NEW row \in 1..Len(screen.tiles), ShowCell(row)
      PROVE  ScreenTyped' /\ CellsTyped'
  <2>1. screen' = screen
    BY <1>2 DEF ShowCell
  <2>2. PICK face \in Faces : cells' = [cells EXCEPT ![row] = face]
    BY <1>2, CellTyped DEF ShowCell
  <2> QED BY <2>1, <2>2 DEF ScreenTyped, CellsTyped
<1>3. CASE CloseButtons \/ Relaunch
  BY <1>3, ClosedTyped DEF CloseButtons, Relaunch
<1>4. ASSUME UNCHANGED showing PROVE ScreenTyped' /\ CellsTyped'
  BY <1>4 DEF showing, ScreenTyped, CellsTyped
<1>5. CASE \/ \E l \in ListNames : ListAnswered(l)
           \/ \E c \in Modes : QueryFailed(c)
           \/ WordsAnswered
           \/ \E d \in WordDocs : ChainStep(d)
           \/ UNCHANGED vars
  <2>1. UNCHANGED showing
    BY <1>5 DEF ListAnswered, QueryFailed, WordsAnswered, ChainStep, ReferenceAnswered,
                UrlAnswered, vars, showing
  <2> QED BY <1>4, <2>1
<1> QED BY <1>1, <1>2, <1>3, <1>5 DEF Next

\* Lists are lists of numbers, words are words, and there is a cell for each tile: no
\* cell asks for a row beyond the list it reads, although it is not its screen's copy.
THEOREM ContentTyped == Spec => []TypeOK
<1>1. TypeOK /\ SeenInv /\ [Next]_vars => TypeOK'
  <2> SUFFICES ASSUME TypeOK, SeenInv, [Next]_vars
               PROVE  FetchTyped' /\ ScreenTyped' /\ CellsTyped'
    <3>1. (TypeOK <=> FetchTyped /\ ScreenTyped /\ CellsTyped)'
      BY ContentParts, PTL
    <3> QED BY <3>1
  <2> QED BY ContentParts, FetchStep, ScreenStep DEF SeenInv
<1> QED BY <1>1, ContentInit, SeenHolds, PTL DEF Spec

=============================================================================
