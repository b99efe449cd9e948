--------------------------- MODULE PlayGameProofs ---------------------------
(***************************************************************************)
(* For any lists, any size of a round and any number of taps: no round     *)
(* comes for nothing, an unhurried voice asks for the round shown, and a   *)
(* round whose pictures differ can be won.  What may be asked is collected *)
(* by two recursions over lists; that they are defined at all, what they   *)
(* return and where, are inductions of NaturalSets.                        *)
(***************************************************************************)
EXTENDS PlayGame, SequenceTheorems, NaturalSets, TLAPS

Counters == advances \in Nat /\ notices \in Nat /\ correct \in Nat

EarnedInv == Counters /\ RoundsEarned

LEMMA EarnedInit == Init => EarnedInv
BY DEF Init, EarnedInv, Counters, RoundsEarned

LEMMA EarnedStep == EarnedInv /\ [Next]_vars => EarnedInv'
<1> SUFFICES ASSUME EarnedInv, [Next]_vars PROVE EarnedInv'
  OBVIOUS
<1> USE DEF EarnedInv, Counters, RoundsEarned
<1>1. ASSUME UNCHANGED <<clap, notices, correct, advances>>
      PROVE  EarnedInv'
  BY <1>1
<1>2. ASSUME NEW c \in Contents, Open(c)
      PROVE  EarnedInv'
  BY <1>1, <1>2 DEF Open
\* The tap pays for the clap it starts; a clap it replaces is given up.
<1>3. CASE TapRight
  BY <1>3 DEF TapRight
<1>4. CASE TapWrong \/ VoiceEnds
  BY <1>1, <1>4 DEF TapWrong, VoiceEnds
\* The clap becomes a notice, or nothing.
<1>5. CASE ClapEnds
  <2>1. /\ clap = "playing" /\ clap' # "playing"
        /\ notices' = notices + 1 \/ notices' = notices
        /\ UNCHANGED <<correct, advances>>
    BY <1>5 DEF ClapEnds
  <2>2. advances + notices + 1 <= correct
    BY <2>1
  <2>3. advances' + notices' <= correct'
    BY <2>1, <2>2
  <2> QED BY <2>1, <2>3
\* The notice becomes a round.
<1>6. CASE NoticeDelivered
  BY <1>6 DEF NoticeDelivered
<1>7. CASE Leave
  BY <1>7 DEF Leave
<1>8. CASE UNCHANGED vars
  BY <1>1, <1>8 DEF vars
<1> QED BY <1>2, <1>3, <1>4, <1>5, <1>6, <1>7, <1>8 DEF Next

\* No round is shown, owed or on its way without a correct tap of its own.
THEOREM NoRoundForNothing == Spec => []RoundsEarned
<1>1. Spec => []EarnedInv
  BY EarnedInit, EarnedStep, PTL DEF Spec
<1> QED BY <1>1, PTL DEF EarnedInv

-----------------------------------------------------------------------------

\* What the routine says when the voice was not busy.
LEMMA TextToSpeechSays ==
    ASSUME NEW text, TextToSpeech(text), ~rushed'
    PROVE  ~rushed /\ voice'.says = text
BY DEF TextToSpeech

LEMMA CurrentInit == Init => QuestionIsCurrent
BY DEF Init, QuestionIsCurrent

LEMMA CurrentStep == QuestionIsCurrent /\ [Next]_vars => QuestionIsCurrent'
<1> SUFFICES ASSUME QuestionIsCurrent, [Next]_vars, fate' = "playing", ~rushed'
             PROVE  voice'.says \in {round'.title, Sorry, Silence}
  BY DEF QuestionIsCurrent
<1>1. ASSUME UNCHANGED <<game, sound>>
      PROVE  voice'.says \in {round'.title, Sorry, Silence}
  BY <1>1 DEF QuestionIsCurrent, game, sound
<1>2. ASSUME NEW c \in Contents, Open(c)
      PROVE  voice'.says \in {round'.title, Sorry, Silence}
  <2>1. PICK r \in Rounds[c] : round' = r /\ TextToSpeech(r.title)
    BY <1>2 DEF Open
  <2> QED BY <2>1, TextToSpeechSays
<1>3. CASE TapWrong
  <2>1. voice'.says = Sorry
    BY <1>3, TextToSpeechSays DEF TapWrong
  <2> QED BY <2>1
<1>4. CASE VoiceEnds
  BY <1>4 DEF VoiceEnds, Quiet
<1>5. CASE NoticeDelivered
  <2>1. PICK r \in Rounds[content] : round' = r /\ TextToSpeech(r.title)
    BY <1>5 DEF NoticeDelivered, ShowData
  <2> QED BY <2>1, TextToSpeechSays
<1>6. CASE TapRight \/ ClapEnds
  BY <1>1, <1>6 DEF TapRight, ClapEnds
<1>7. CASE Leave
  BY <1>7 DEF Leave
<1>8. CASE UNCHANGED vars
  BY <1>1, <1>8 DEF vars
<1> QED BY <1>2, <1>3, <1>4, <1>5, <1>6, <1>7, <1>8 DEF Next

\* A voice that was never hurried asks for no tile of an earlier round.
THEOREM VoiceIsCurrent == Spec => []QuestionIsCurrent
BY CurrentInit, CurrentStep, PTL DEF Spec

-----------------------------------------------------------------------------
(* What a round asks for.                                                  *)

LEMMA ItemFacts ==
    ASSUME NEW c \in Contents
    PROVE  /\ c.items \in Seq([title : TitlesOf(c), picture : Pictures(c)])
           /\ Len(c.items) \in Nat
           /\ \A i \in 1..Len(c.items) : /\ c.items[i].title \in TitlesOf(c)
                                         /\ c.items[i].picture \in Pictures(c)
           /\ TitlesOf(c) \subseteq AllTitles
<1>1. c.items \in Seq([title : TitlesOf(c), picture : Pictures(c)])
  BY ContentsAreItems
<1>2. Len(c.items) \in Nat
  BY <1>1, LenProperties
<1> QED BY <1>1, <1>2 DEF TitlesOf, Pictures, AllTitles

\* The titles found among the first items of c.
IsFound(found, c, picture) ==
    found = [i \in 0..Len(c.items) |->
                IF i = 0 THEN <<>>
                ELSE IF c.items[i].picture = picture
                     THEN Append(found[i - 1], c.items[i].title)
                     ELSE found[i - 1]]

LEMMA FoundExists ==
    ASSUME NEW c \in Contents, NEW picture
    PROVE  \E found \in [0..Len(c.items) -> Seq(TitlesOf(c))] : IsFound(found, c, picture)
<1> DEFINE L == Len(c.items)
           S == Seq(TitlesOf(c))
           step == [i \in 1..L |-> [s \in S |-> IF c.items[i].picture = picture
                                                 THEN Append(s, c.items[i].title)
                                                 ELSE s]]
<1>1. L \in Nat /\ <<>> \in S
  BY ItemFacts
<1>2. step \in [1..L -> [S -> S]]
  BY ItemFacts, AppendProperties
<1>3. PICK f \in [0..L -> S] : f[0] = <<>> /\ \A i \in 1..L : f[i] = step[i][f[i - 1]]
  <2> DEFINE first == <<>>
  <2>1. first \in S
    BY <1>1
  <2> HIDE DEF step, L, S, first
  <2>2. \E f \in [0..L -> S] : FollowsSteps(f, L, first, step)
    BY <1>1, <1>2, <2>1, FunctionByRecursion
  <2> QED BY <2>2 DEF FollowsSteps, first
<1>4. \A i \in 1..L : i - 1 \in 0..L /\ f[i - 1] \in S
  BY <1>1, <1>3
<1>5. ASSUME NEW i \in 0..L
      PROVE  f[i] = IF i = 0 THEN <<>>
                    ELSE IF c.items[i].picture = picture
                         THEN Append(f[i - 1], c.items[i].title)
                         ELSE f[i - 1]
  <2>1. CASE i = 0
    BY <1>3, <2>1
  <2>2. CASE i # 0
    <3>1. i \in 1..L
      BY <1>1, <2>2
    <3>2. f[i] = step[i][f[i - 1]] /\ f[i - 1] \in S
      BY <1>3, <1>4, <3>1
    <3> QED BY <2>2, <3>1, <3>2
  <2> QED BY <2>1, <2>2
<1> QED BY <1>3, <1>5 DEF IsFound

LEMMA TitlesWithIs ==
    ASSUME NEW c, NEW picture
    PROVE  TitlesWith(c, picture) = (CHOOSE found : IsFound(found, c, picture))[Len(c.items)]
BY DEF TitlesWith, IsFound

LEMMA TitlesFound ==
    ASSUME NEW c \in Contents, NEW picture
    PROVE  \E found : /\ IsFound(found, c, picture)
                      /\ TitlesWith(c, picture) = found[Len(c.items)]
BY FoundExists, TitlesWithIs

\* What was found, one item after the other.
LEMMA FoundSteps ==
    ASSUME NEW c \in Contents, NEW picture, NEW found, IsFound(found, c, picture)
    PROVE  /\ found[0] = <<>>
           /\ \A i \in 0..Len(c.items) : i < Len(c.items) =>
                  found[i + 1] = IF c.items[i + 1].picture = picture
                                 THEN Append(found[i], c.items[i + 1].title)
                                 ELSE found[i]
<1>1. Len(c.items) \in Nat
  BY ItemFacts
<1>2. ASSUME NEW i \in 0..Len(c.items)
      PROVE  found[i] = IF i = 0 THEN <<>>
                        ELSE IF c.items[i].picture = picture
                             THEN Append(found[i - 1], c.items[i].title)
                             ELSE found[i - 1]
  BY <1>2, Zenon DEF IsFound
<1>3. found[0] = <<>>
  BY <1>1, <1>2
<1>4. ASSUME NEW i \in 0..Len(c.items), i < Len(c.items)
      PROVE  found[i + 1] = IF c.items[i + 1].picture = picture
                            THEN Append(found[i], c.items[i + 1].title)
                            ELSE found[i]
  <2>1. i + 1 \in 0..Len(c.items) /\ i + 1 # 0 /\ (i + 1) - 1 = i
    BY <1>1, <1>4
  <2> QED BY <1>2, <2>1
<1> QED BY <1>3, <1>4

LEMMA TitlesWithType ==
    ASSUME NEW c \in Contents, NEW picture
    PROVE  TitlesWith(c, picture) \in Seq(TitlesOf(c))
<1> DEFINE L == Len(c.items)
<1>0. L \in Nat /\ L \in 0..L
  BY ItemFacts
<1>1. PICK found : IsFound(found, c, picture) /\ TitlesWith(c, picture) = found[L]
  BY TitlesFound
<1>2. found[0] = <<>>
  BY <1>1, FoundSteps
<1>3. ASSUME NEW n \in 0..L, n < L, found[n] \in Seq(TitlesOf(c))
      PROVE  found[n + 1] \in Seq(TitlesOf(c))
  <2>1. n + 1 \in 1..L
    BY <1>0, <1>3
  <2>2. c.items[n + 1].title \in TitlesOf(c)
    BY <2>1, ItemFacts
  <2>3. found[n + 1] = IF c.items[n + 1].picture = picture
                       THEN Append(found[n], c.items[n + 1].title)
                       ELSE found[n]
    BY <1>1, <1>3, FoundSteps
  <2> QED BY <1>3, <2>2, <2>3, AppendProperties
<1>4. found[0] \in Seq(TitlesOf(c))
  BY <1>2
<1>5. found[L] \in Seq(TitlesOf(c))
  <2> HIDE DEF L
  <2> QED BY <1>0, <1>3, <1>4, ValuesBySteps
<1> QED BY <1>1, <1>5

\* A picture that one item has brings that item's title.
LEMMA OnlyTitle ==
    ASSUME NEW c \in Contents, DistinctPictures(c), NEW k \in 1..Len(c.items)
    PROVE  TitlesWith(c, c.items[k].picture) = <<c.items[k].title>>
<1> DEFINE L == Len(c.items)
           title == c.items[k].title
<1>0. L \in Nat /\ L \in 0..L
  BY ItemFacts
<1>1. PICK found : /\ IsFound(found, c, c.items[k].picture)
                   /\ TitlesWith(c, c.items[k].picture) = found[L]
  BY TitlesFound
<1> DEFINE A == {n \in 0..L : found[n] = IF n < k THEN <<>> ELSE <<title>>}
<1>2. 0 \in A
  BY <1>0, <1>1, FoundSteps
<1>3. ASSUME NEW n \in A, n < L PROVE n + 1 \in A
  <2>1. n \in 0..L /\ n + 1 \in 1..L
    BY <1>0, <1>3
  <2>2. c.items[n + 1].picture = c.items[k].picture <=> n + 1 = k
    BY <2>1 DEF DistinctPictures
  <2>3. found[n + 1] = IF n + 1 = k THEN Append(found[n], title) ELSE found[n]
    BY <1>1, <1>3, <2>1, <2>2, FoundSteps
  <2>4. found[n + 1] = IF n + 1 < k THEN <<>> ELSE <<title>>
    <3>1. CASE n + 1 = k
      <4>1. n < k /\ ~ n + 1 < k
        BY <2>1, <3>1
      <4>2. found[n] = <<>>
        BY <1>3, <4>1
      <4>3. found[n + 1] = Append(<<>>, title)
        BY <2>3, <3>1, <4>2
      <4> QED BY <4>1, <4>3
    <3>2. CASE n + 1 # k
      <4>1. n + 1 < k <=> n < k
        BY <2>1, <3>2
      <4> QED BY <2>3, <3>2, <4>1
    <3> QED BY <3>1, <3>2
  <2> QED BY <2>1, <2>4
<1> HIDE DEF A
<1>4. L \in A
  BY <1>0, <1>2, <1>3, InductionUpTo
<1>5. ~ L < k
  BY <1>0
<1> QED BY <1>1, <1>4, <1>5 DEF A

-----------------------------------------------------------------------------
\* The titles of the tiles, collected tile after tile.
IsCollected(collected, c, tiles) ==
    collected = [k \in 0..Len(tiles) |->
                    IF k = 0 THEN <<>> ELSE collected[k - 1] \o TitlesWith(c, tiles[k])]

LEMMA CollectedExists ==
    ASSUME NEW c \in Contents, NEW tiles \in Seq(Pictures(c))
    PROVE  \E collected : IsCollected(collected, c, tiles)
<1> DEFINE L == Len(tiles)
           S == Seq(TitlesOf(c))
           step == [k \in 1..L |-> [s \in S |-> s \o TitlesWith(c, tiles[k])]]
           first == <<>>
<1>1. L \in Nat /\ first \in S
  OBVIOUS
<1>2. step \in [1..L -> [S -> S]]
  BY TitlesWithType, ConcatProperties
<1>3. PICK f \in [0..L -> S] : FollowsSteps(f, L, first, step)
  <2> HIDE DEF step, L, S, first
  <2> QED BY <1>1, <1>2, FunctionByRecursion
<1>4. ASSUME NEW k \in 0..L
      PROVE  f[k] = IF k = 0 THEN <<>> ELSE f[k - 1] \o TitlesWith(c, tiles[k])
  <2>1. CASE k = 0
    BY <1>3, <2>1 DEF FollowsSteps
  <2>2. CASE k # 0
    <3>1. k \in 1..L /\ k - 1 \in 0..L
      BY <1>1, <2>2
    <3>2. f[k] = step[k][f[k - 1]] /\ f[k - 1] \in S
      BY <1>3, <3>1 DEF FollowsSteps
    <3> QED BY <2>2, <3>1, <3>2
  <2> QED BY <2>1, <2>2
<1> QED BY <1>3, <1>4 DEF IsCollected

LEMMA AskableIs ==
    ASSUME NEW c, NEW tiles, c.mode # "list"
    PROVE  Askable(c, tiles) =
               (CHOOSE collected : IsCollected(collected, c, tiles))[Len(tiles)]
BY DEF Askable, IsCollected

LEMMA Collected ==
    ASSUME NEW c \in Contents, NEW tiles \in Seq(Pictures(c)), c.mode # "list"
    PROVE  \E collected :
               /\ Askable(c, tiles) = collected[Len(tiles)]
               /\ collected[0] = <<>>
               /\ \A k \in 0..Len(tiles) : k < Len(tiles) =>
                      collected[k + 1] = collected[k] \o TitlesWith(c, tiles[k + 1])
<1>1. Len(tiles) \in Nat
  OBVIOUS
<1>2. PICK collected : /\ IsCollected(collected, c, tiles)
                       /\ Askable(c, tiles) = collected[Len(tiles)]
  BY CollectedExists, AskableIs
<1>3. 0 \in 0..Len(tiles)
  BY <1>1
<1>4. ASSUME NEW k \in 0..Len(tiles), k < Len(tiles)
      PROVE  k + 1 \in 0..Len(tiles) /\ k + 1 # 0 /\ (k + 1) - 1 = k
  BY <1>1, <1>4
<1>5. collected[0] = <<>>
  BY <1>2, <1>3 DEF IsCollected
<1>6. ASSUME NEW k \in 0..Len(tiles), k < Len(tiles)
      PROVE  collected[k + 1] = collected[k] \o TitlesWith(c, tiles[k + 1])
  BY <1>2, <1>4, <1>6 DEF IsCollected
<1> QED BY <1>2, <1>5, <1>6

\* In a list each item's picture is its name.
LEMMA ListTitles ==
    ASSUME NEW c \in Contents, c.mode = "list"
    PROVE  Pictures(c) = TitlesOf(c)
BY ContentsAreItems DEF Pictures, TitlesOf

\* What may be asked is a title of the content.
LEMMA AskableType ==
    ASSUME NEW c \in Contents, NEW tiles \in Seq(Pictures(c))
    PROVE  Askable(c, tiles) \in Seq(TitlesOf(c))
<1>1. CASE c.mode = "list"
  BY <1>1, ListTitles DEF Askable
<1>2. CASE c.mode # "list"
  <2> DEFINE L == Len(tiles)
  <2>0. L \in Nat /\ L \in 0..L
    OBVIOUS
  <2>1. PICK collected :
            /\ Askable(c, tiles) = collected[L]
            /\ collected[0] = <<>>
            /\ \A k \in 0..L : k < L =>
                   collected[k + 1] = collected[k] \o TitlesWith(c, tiles[k + 1])
    BY <1>2, Collected
  <2>2. collected[0] \in Seq(TitlesOf(c))
    BY <2>1
  <2>3. ASSUME NEW n \in 0..L, n < L, collected[n] \in Seq(TitlesOf(c))
        PROVE  collected[n + 1] \in Seq(TitlesOf(c))
    <3>1. collected[n + 1] = collected[n] \o TitlesWith(c, tiles[n + 1])
      BY <2>1, <2>3
    <3> QED BY <2>3, <3>1, TitlesWithType, ConcatProperties
  <2>4. collected[L] \in Seq(TitlesOf(c))
    <3> HIDE DEF L
    <3> QED BY <2>0, <2>2, <2>3, ValuesBySteps
  <2> QED BY <2>1, <2>4
<1> QED BY <1>1, <1>2

\* An item of c has this picture and this title.
Matches(c, picture, title) ==
    \E i \in 1..Len(c.items) : c.items[i].picture = picture /\ c.items[i].title = title

\* With distinct pictures there is one title for each tile, at its place.
LEMMA AskableMatches ==
    ASSUME NEW c \in Contents, NEW tiles \in Seq(Pictures(c)), DistinctPictures(c)
    PROVE  /\ Len(Askable(c, tiles)) = Len(tiles)
           /\ \A j \in 1..Len(tiles) : Matches(c, tiles[j], Askable(c, tiles)[j])
<1> DEFINE L == Len(tiles)
<1>0. L \in Nat /\ L \in 0..L
  OBVIOUS
<1>1. ASSUME NEW j \in 1..L PROVE \E i \in 1..Len(c.items) : c.items[i].picture = tiles[j]
  <2>1. tiles[j] \in Pictures(c)
    BY <1>1, ElementOfSeq
  <2> QED BY <2>1 DEF Pictures
<1>2. CASE c.mode = "list"
  <2>1. Askable(c, tiles) = tiles
    BY <1>2 DEF Askable
  <2>2. \A i \in 1..Len(c.items) : c.items[i].picture = c.items[i].title
    BY <1>2, ContentsAreItems
  <2> QED BY <1>1, <2>1, <2>2 DEF Matches
<1>3. CASE c.mode # "list"
  <2>1. PICK collected :
            /\ Askable(c, tiles) = collected[L]
            /\ collected[0] = <<>>
            /\ \A k \in 0..L : k < L =>
                   collected[k + 1] = collected[k] \o TitlesWith(c, tiles[k + 1])
    BY <1>3, Collected
  <2> DEFINE Good(n) == /\ collected[n] \in Seq(TitlesOf(c))
                        /\ Len(collected[n]) = n
                        /\ \A j \in 1..n : Matches(c, tiles[j], collected[n][j])
             A == {n \in 0..L : Good(n)}
  <2>2. Good(0)
    <3>1. 1..0 = {}
      OBVIOUS
    <3> QED BY <2>1, <3>1
  <2>3. ASSUME NEW n \in 0..L, n < L, Good(n) PROVE Good(n + 1)
    <3>1. n + 1 \in 1..L
      BY <1>0, <2>3
    <3>2. PICK i \in 1..Len(c.items) : c.items[i].picture = tiles[n + 1]
      BY <1>1, <3>1
    <3> DEFINE title == c.items[i].title
               more == <<title>>
    <3>3. title \in TitlesOf(c) /\ Matches(c, tiles[n + 1], title)
      BY <3>2, ItemFacts DEF Matches
    <3>4. collected[n + 1] = collected[n] \o more
      BY <2>1, <2>3, <3>2, OnlyTitle
    <3>5. more \in Seq(TitlesOf(c)) /\ Len(more) = 1 /\ more[1] = title
      BY <3>3
    <3> HIDE DEF more, title
    <3> DEFINE old == collected[n]
    <3>6. old \in Seq(TitlesOf(c)) /\ Len(old) = n /\ n \in Nat
      BY <2>3
    <3> HIDE DEF old
    <3>7. /\ old \o more \in Seq(TitlesOf(c))
          /\ Len(old \o more) = n + 1
          /\ \A j \in 1..(n + 1) : (old \o more)[j] =
                IF j <= n THEN old[j] ELSE more[j - n]
      <4>1. /\ old \o more \in Seq(TitlesOf(c))
            /\ Len(old \o more) = Len(old) + Len(more)
            /\ \A j \in 1..(Len(old) + Len(more)) : (old \o more)[j] =
                  IF j <= Len(old) THEN old[j] ELSE more[j - Len(old)]
        BY <3>5, <3>6, ConcatProperties
      <4>2. Len(old) + Len(more) = n + 1
        BY <3>5, <3>6
      <4> QED BY <3>6, <4>1, <4>2
    <3>8. collected[n + 1] = old \o more
      BY <3>4 DEF old
    <3>9. /\ collected[n + 1] \in Seq(TitlesOf(c))
          /\ Len(collected[n + 1]) = n + 1
      BY <3>7, <3>8
    <3>10. ASSUME NEW j \in 1..(n + 1) PROVE Matches(c, tiles[j], collected[n + 1][j])
      <4>1. CASE j = n + 1
        <5>1. collected[n + 1][j] = more[1]
          <6>1. j \in 1..(n + 1) /\ ~ j <= n /\ j - n = 1
            BY <3>6, <4>1
          <6> QED BY <3>7, <3>8, <6>1
        <5> QED BY <3>3, <3>5, <4>1, <5>1
      <4>2. CASE j # n + 1
        <5>1. j \in 1..n
          BY <4>2
        <5>2. collected[n + 1][j] = collected[n][j]
          <6>1. j \in 1..(n + 1) /\ j <= n
            BY <3>6, <5>1
          <6> QED BY <3>7, <3>8, <6>1 DEF old
        <5> QED BY <2>3, <5>1, <5>2
      <4> QED BY <4>1, <4>2
    <3> QED BY <3>9, <3>10
  <2>4. L \in A
    <3>1. 0 \in A
      BY <1>0, <2>2
    <3>2. ASSUME NEW n \in A, n < L PROVE n + 1 \in A
      <4> HIDE DEF Good
      <4>1. n \in 0..L /\ n + 1 \in 0..L /\ Good(n)
        BY <1>0, <3>2
      <4> QED BY <2>3, <3>2, <4>1
    <3> HIDE DEF A
    <3> QED BY <1>0, <3>1, <3>2, InductionUpTo
  <2> QED BY <2>1, <2>4
<1> QED BY <1>2, <1>3

\* A sequence has a last place for each of its elements.
LEMMA LastIndexFacts ==
    ASSUME NEW S, NEW s \in Seq(S), NEW i \in 1..Len(s)
    PROVE  LastIndex(s, s[i]) \in 1..Len(s) /\ s[LastIndex(s, s[i])] = s[i]
<1> DEFINE x == s[i]
           T == {j \in 1..Len(s) : s[j] = x}
<1>1. Len(s) \in Nat /\ T \subseteq 0..Len(s) /\ T # {}
  OBVIOUS
<1>2. PICK n \in T : \A m \in T : m <= n
  <2> HIDE DEF T
  <2> QED BY <1>1, GreatestNumber
<1>3. n \in 1..Len(s) /\ s[n] = x /\ \A j \in (n + 1)..Len(s) : s[j] # x
  <2>1. ASSUME NEW j \in (n + 1)..Len(s), s[j] = x PROVE FALSE
    <3>1. j \in T /\ ~ j <= n
      BY <1>1, <1>2, <2>1
    <3> QED BY <1>2, <3>1
  <2> QED BY <1>2, <2>1
<1> HIDE DEF x, T
<1> QED BY <1>3 DEF LastIndex, x

\* A round of c: its tiles are pictures of c, its title is a title of c, and with
\* distinct pictures the row that is right shows an item with that title.
LEMMA RoundFacts ==
    ASSUME NEW c \in Contents, NEW r \in Rounds[c]
    PROVE  /\ r.tiles \in Seq(Pictures(c)) /\ Len(r.tiles) = RoundSize
           /\ r.title \in AllTitles
           /\ DistinctPictures(c) => /\ r.row \in 1..RoundSize
                                     /\ Matches(c, r.tiles[r.row], r.title)
<1>1. r \in RoundsOf(c)
  BY DEF Rounds
<1>2. PICK t \in Arrangements(c) :
          \E i \in 1..Len(Askable(c, t)) :
              r = [tiles |-> t, title |-> Askable(c, t)[i],
                   row |-> LastIndex(Askable(c, t), Askable(c, t)[i])]
  BY <1>1 DEF RoundsOf
<1> DEFINE titles == Askable(c, t)
<1>3. PICK i \in 1..Len(titles) :
          r = [tiles |-> t, title |-> titles[i], row |-> LastIndex(titles, titles[i])]
  BY <1>2
<1>4. t \in Seq(Pictures(c)) /\ Len(t) = RoundSize
  BY RoundsAreBounded DEF Arrangements
<1>5. titles \in Seq(TitlesOf(c))
  BY <1>4, AskableType
<1>6. titles[i] \in AllTitles
  BY <1>5, ItemFacts, ElementOfSeq
<1>7. LastIndex(titles, titles[i]) \in 1..Len(titles)
      /\ titles[LastIndex(titles, titles[i])] = titles[i]
  BY <1>5, LastIndexFacts
<1>8. ASSUME DistinctPictures(c)
      PROVE  r.row \in 1..RoundSize /\ Matches(c, r.tiles[r.row], r.title)
  <2>1. Len(titles) = RoundSize /\ \A j \in 1..RoundSize : Matches(c, t[j], titles[j])
    BY <1>4, <1>8, AskableMatches
  <2> HIDE DEF titles
  <2> QED BY <1>3, <1>7, <2>1
<1> HIDE DEF titles
<1> QED BY <1>3, <1>4, <1>6, <1>8

-----------------------------------------------------------------------------
(* The screen is well typed, and every round can be won.                   *)

GameTyped ==
    /\ fate \in {"closed", "playing", "crashed", "hung"}
    /\ content \in Contents \cup {NoContent}
    /\ fate = "playing" => content \in Contents /\ round \in Rounds[content]
    /\ fate # "playing" => round = NoRound

VoiceTyped ==
    /\ voice.state \in {"idle", "speaking", "paused"}
    /\ voice.says \in AllTitles \cup {Sorry, Silence}
    /\ rushed \in BOOLEAN

CountsTyped ==
    /\ clap \in {"silent", "playing"}
    /\ notices \in 0..MaxTaps /\ correct \in 0..MaxTaps /\ advances \in 0..MaxTaps

PlayInv == GameTyped /\ VoiceTyped /\ CountsTyped

LEMMA PlayIsTyped == PlayInv => TypeOK
BY DEF PlayInv, GameTyped, VoiceTyped, CountsTyped, TypeOK

\* What is paid for by the taps is bounded with them.
LEMMA CountsBounded ==
    ASSUME EarnedInv, correct \in 0..MaxTaps
    PROVE  notices \in 0..MaxTaps /\ advances \in 0..MaxTaps
<1>1. /\ advances \in Nat /\ notices \in Nat /\ MaxTaps \in Nat
      /\ advances + notices <= correct
  BY RoundsAreBounded DEF EarnedInv, Counters, RoundsEarned
<1> QED BY <1>1

\* A voice that is given a title or the apology says one of those.
LEMMA VoiceStep ==
    ASSUME VoiceTyped, NEW text \in AllTitles \cup {Sorry}, TextToSpeech(text)
    PROVE  VoiceTyped'
<1>1. /\ voice.state = "paused" => voice' = [voice EXCEPT !.state = "speaking"]
      /\ voice.state = "speaking" => voice' = [voice EXCEPT !.state = "paused"]
      /\ voice.state = "idle" => voice' = [state |-> "speaking", says |-> text]
  BY DEF TextToSpeech
<1>2. rushed' \in BOOLEAN
  BY DEF TextToSpeech, VoiceTyped
<1>3. voice.says \in AllTitles \cup {Sorry, Silence}
  BY DEF VoiceTyped
<1>4. CASE voice.state = "idle"
  BY <1>1, <1>2, <1>4 DEF VoiceTyped
<1>5. CASE voice.state \in {"paused", "speaking"}
  <2>1. PICK state \in {"speaking", "paused"} : voice' = [voice EXCEPT !.state = state]
    BY <1>1, <1>5
  <2>2. voice'.says \in AllTitles \cup {Sorry, Silence}
    BY <1>3, <2>1
  <2>3. voice'.state \in {"idle", "speaking", "paused"}
    BY <2>1
  <2> QED BY <1>2, <2>2, <2>3 DEF VoiceTyped
<1> QED BY <1>4, <1>5 DEF VoiceTyped

LEMMA PlayInit == Init => PlayInv
<1> SUFFICES ASSUME Init PROVE PlayInv
  OBVIOUS
<1>1. GameTyped
  BY DEF Init, GameTyped
<1>2. VoiceTyped
  BY DEF Init, VoiceTyped, Quiet
<1>3. CountsTyped
  BY RoundsAreBounded DEF Init, CountsTyped
<1> QED BY <1>1, <1>2, <1>3 DEF PlayInv

LEMMA PlayStep == PlayInv /\ EarnedInv' /\ [Next]_vars => PlayInv'
<1> SUFFICES ASSUME PlayInv, EarnedInv', [Next]_vars PROVE PlayInv'
  OBVIOUS
<1>0. GameTyped /\ VoiceTyped /\ CountsTyped /\ 0 \in 0..MaxTaps
  BY RoundsAreBounded DEF PlayInv
<1>1. ASSUME clap' \in {"silent", "playing"}, correct' \in 0..MaxTaps
      PROVE  CountsTyped'
  <2>1. (EarnedInv /\ correct \in 0..MaxTaps =>
            notices \in 0..MaxTaps /\ advances \in 0..MaxTaps)'
    BY CountsBounded, PTL
  <2> QED BY <1>1, <2>1 DEF CountsTyped
<1>2. ASSUME UNCHANGED game PROVE GameTyped'
  BY <1>0, <1>2 DEF GameTyped, game
<1>3. ASSUME UNCHANGED sound PROVE VoiceTyped'
  BY <1>0, <1>3 DEF VoiceTyped, sound
<1>4. ASSUME UNCHANGED <<clap, correct>> PROVE CountsTyped'
  BY <1>0, <1>1, <1>4 DEF CountsTyped
<1>5. ASSUME NEW c \in Contents, Open(c) PROVE PlayInv'
  <2>1. CountsTyped'
    BY <1>4, <1>5 DEF Open
  <2>2. CASE UNCHANGED <<round, sound>> /\ fate' \in {"crashed", "hung"}
    <3>1. GameTyped'
      BY <1>0, <1>5, <2>2 DEF Open, GameTyped
    <3> QED BY <1>3, <2>1, <2>2, <3>1 DEF PlayInv
  <2>3. CASE fate' = "playing" /\ \E r \in Rounds[c] : round' = r /\ TextToSpeech(r.title)
    <3>1. PICK r \in Rounds[c] : round' = r /\ TextToSpeech(r.title)
      BY <2>3
    <3>2. VoiceTyped'
      BY <1>0, <3>1, RoundFacts, VoiceStep
    <3>3. GameTyped'
      BY <1>5, <2>3, <3>1 DEF Open, GameTyped
    <3> QED BY <2>1, <3>2, <3>3 DEF PlayInv
  <2> QED BY <1>5, <2>2, <2>3 DEF Open
<1>6. CASE TapRight
  <2>1. /\ UNCHANGED game /\ UNCHANGED sound
        /\ clap' \in {"playing", clap} /\ correct < MaxTaps /\ correct' = correct + 1
    BY <1>6 DEF TapRight
  <2>2. clap' \in {"silent", "playing"} /\ correct' \in 0..MaxTaps
    BY <1>0, <2>1, RoundsAreBounded DEF CountsTyped
  <2> QED BY <1>1, <1>2, <1>3, <2>1, <2>2 DEF PlayInv
<1>7. CASE TapWrong
  <2>1. VoiceTyped'
    BY <1>0, <1>7, VoiceStep DEF TapWrong
  <2> QED BY <1>2, <1>4, <1>7, <2>1 DEF TapWrong, PlayInv
<1>8. CASE VoiceEnds
  <2>1. VoiceTyped'
    BY <1>0, <1>8 DEF VoiceEnds, VoiceTyped, Quiet
  <2> QED BY <1>2, <1>4, <1>8, <2>1 DEF VoiceEnds, PlayInv
<1>9. CASE ClapEnds
  <2>1. CountsTyped'
    BY <1>0, <1>1, <1>9 DEF ClapEnds, CountsTyped
  <2> QED BY <1>2, <1>3, <1>9, <2>1 DEF ClapEnds, PlayInv
<1>10. CASE NoticeDelivered
  <2>1. PICK r \in Rounds[content] : round' = r /\ TextToSpeech(r.title)
    BY <1>10 DEF NoticeDelivered, ShowData
  <2>2. content \in Contents /\ UNCHANGED <<fate, content, clap, correct>> /\ fate = "playing"
    BY <1>0, <1>10 DEF NoticeDelivered, ShowData, GameTyped
  <2>3. VoiceTyped'
    BY <1>0, <2>1, <2>2, RoundFacts, VoiceStep
  <2>4. GameTyped'
    BY <1>0, <2>1, <2>2 DEF GameTyped
  <2> QED BY <1>4, <2>2, <2>3, <2>4 DEF PlayInv
<1>11. CASE Leave
  BY <1>0, <1>11 DEF Leave, PlayInv, GameTyped, VoiceTyped, CountsTyped, Quiet
<1>12. CASE UNCHANGED vars
  BY <1>2, <1>3, <1>4, <1>12 DEF vars, PlayInv
<1> QED BY <1>5, <1>6, <1>7, <1>8, <1>9, <1>10, <1>11, <1>12 DEF Next

\* Every Play screen is playing a round of its own content, is lost, or is closed,
\* and its voice, its clap and its counts are what they should be.
THEOREM PlayTyped == Spec => []TypeOK
<1>1. Spec => []EarnedInv
  BY EarnedInit, EarnedStep, PTL DEF Spec
<1>2. Spec => []PlayInv
  BY <1>1, PlayInit, PlayStep, PTL DEF Spec
<1> QED BY <1>2, PlayIsTyped, PTL

\* With distinct pictures every round can be won, and fairly: for any list, any
\* size of a round and any drawing, the row that counts as right is one of the tiles
\* and shows an item with the title the voice asks for.
THEOREM RoundCanBeWon == Spec => []RightTileIsAsked
<1>1. PlayInv => RightTileIsAsked
  <2> SUFFICES ASSUME PlayInv, fate = "playing", DistinctPictures(content)
               PROVE  AskedTileIsRight
    BY DEF RightTileIsAsked
  <2>1. content \in Contents /\ round \in Rounds[content]
    BY DEF PlayInv, GameTyped
  <2>2. round.row \in 1..RoundSize /\ Matches(content, round.tiles[round.row], round.title)
    BY <2>1, RoundFacts
  <2> QED BY <2>2 DEF AskedTileIsRight, Matches
<1>2. Spec => []EarnedInv
  BY EarnedInit, EarnedStep, PTL DEF Spec
<1>3. Spec => []PlayInv
  BY <1>2, PlayInit, PlayStep, PTL DEF Spec
<1> QED BY <1>1, <1>3, PTL

=============================================================================
