------------------------------ MODULE PlayGame ------------------------------
(***************************************************************************)
(* The game of the Play screen.  A round shows RoundSize tiles and asks    *)
(* for one of them.  The right tile starts applause, and the end of the    *)
(* applause, an asynchronous notice of the audio player, starts the next   *)
(* round; a wrong tile says so.                                            *)
(*                                                                         *)
(* Nothing ties a clap to the round it was earned in: every correct tap    *)
(* replaces the player, while the finish notice of the one before may      *)
(* already be queued.  One speech synthesizer says everything, and the     *)
(* routine that uses it speaks, pauses or resumes depending on what the    *)
(* synthesizer is doing.                                                   *)
(*                                                                         *)
(* An item is a word, [title, picture]; a letter or a number is an item    *)
(* whose picture is its own name.  Rows count from 1.                      *)
(***************************************************************************)
EXTENDS Naturals, Sequences, FiniteSets

CONSTANTS
    Contents,   \* what the lists may hold when the screen opens:
                \* [mode, items], mode "words" or "list", items a sequence
    RoundSize,  \* tiles of a round, 4 in the code
    Sorry,      \* "Sorry Please try again", no title
    Silence,    \* nothing said, no title
    MaxTaps     \* bound: correct taps of one game

Pictures(c) == {c.items[i].picture : i \in 1..Len(c.items)}
TitlesOf(c) == {c.items[i].title : i \in 1..Len(c.items)}
AllTitles == UNION {TitlesOf(c) : c \in Contents}

ASSUME ContentsAreItems ==
    \A c \in Contents :
        /\ c.mode \in {"words", "list"}
        /\ c.items \in Seq([title : TitlesOf(c), picture : Pictures(c)])
        /\ \A i \in 1..Len(c.items) :
            c.mode = "list" => c.items[i].picture = c.items[i].title
ASSUME RoundsAreBounded == RoundSize \in Nat \ {0} /\ MaxTaps \in Nat
ASSUME SorryIsNoTitle == {Sorry, Silence} \cap AllTitles = {} /\ Sorry # Silence

VARIABLES
    fate,       \* of the screen: "closed", "playing", or lost: "crashed", "hung"
    content,    \* its copy of the list
    round,      \* the tiles shown, the title asked for, the row that is right
    voice,      \* the synthesizer's state and what it is saying
    clap,       \* the current player: "silent" or "playing"
    notices,    \* notices of a clap played to its end, queued
    correct,    \* history: correct taps of this game
    advances,   \* history: rounds of this game after the first
    rushed      \* history: something was to be said while the voice was busy

game == <<fate, content, round>>
sound == <<voice, rushed>>
vars == <<game, sound, clap, notices, correct, advances>>

NoContent == [mode |-> "list", items |-> <<>>]
NoRound == [tiles |-> <<>>, title |-> Silence, row |-> 0]
Quiet == [state |-> "idle", says |-> Silence]

Init ==
    /\ fate = "closed" /\ content = NoContent /\ round = NoRound
    /\ voice = Quiet /\ rushed = FALSE
    /\ clap = "silent" /\ notices = 0
    /\ correct = 0 /\ advances = 0

-----------------------------------------------------------------------------
(* A round.                                                                *)

\* Drawing until there are RoundSize different pictures never ends with fewer.
Enough(c) == Cardinality(Pictures(c)) >= RoundSize

\* The titles of the items with this picture, in the order of the list.
TitlesWith(c, picture) ==
    LET found[i \in 0..Len(c.items)] ==
            IF i = 0 THEN <<>>
            ELSE IF c.items[i].picture = picture THEN Append(found[i - 1], c.items[i].title)
            ELSE found[i - 1]
    IN  found[Len(c.items)]

\* The titles among which the question is drawn.  For words they are collected
\* from the list: every word that shares a picture with a tile brings its title.
Askable(c, tiles) ==
    LET collected[k \in 0..Len(tiles)] ==
            IF k = 0 THEN <<>> ELSE collected[k - 1] \o TitlesWith(c, tiles[k])
    IN  IF c.mode = "list" THEN tiles ELSE collected[Len(tiles)]

\* Mutant: one row too far.
PastLastIndex(s, x) ==
    1 + CHOOSE i \in 1..Len(s) : s[i] = x /\ \A j \in (i + 1)..Len(s) : s[j] # x

LastIndex(s, x) == CHOOSE i \in 1..Len(s) : s[i] = x /\ \A j \in (i + 1)..Len(s) : s[j] # x

\* RoundSize different pictures in any order.
Arrangements(c) ==
    {t \in [1..RoundSize -> Pictures(c)] :
        \A i, j \in 1..RoundSize : t[i] = t[j] => i = j}

\* The rounds the drawing may end with: tiles, a title drawn from theirs, and
\* the row where that title stands last.
RoundsOf(c) ==
    UNION {LET titles == Askable(c, t) IN
           {[tiles |-> t, title |-> titles[i], row |-> LastIndex(titles, titles[i])] :
                i \in 1..Len(titles)} :
           t \in Arrangements(c)}

Rounds == [c \in Contents |-> RoundsOf(c)]

\* One routine starts, pauses and resumes: a busy voice does not take the text.
TextToSpeech(text) ==
    /\ voice' = CASE voice.state = "paused" -> [voice EXCEPT !.state = "speaking"]
                  [] voice.state = "speaking" -> [voice EXCEPT !.state = "paused"]
                  [] voice.state = "idle" -> [state |-> "speaking", says |-> text]
    /\ rushed' = (rushed \/ voice.state # "idle")

\* Mutant: the new tiles are shown and nothing is asked.
ShowDataInSilence ==
    /\ round' \in Rounds[content]
    /\ UNCHANGED <<sound, fate, content>>

\* showData, showWordData: draw, show, ask.
ShowData ==
    /\ \E r \in Rounds[content] : round' = r /\ TextToSpeech(r.title)
    /\ UNCHANGED <<fate, content>>

-----------------------------------------------------------------------------
(* The screen.                                                             *)

\* The first round is drawn from the list as it is now: out of an empty one
\* there is nothing to draw, out of a short one the drawing never ends.
Open(c) ==
    /\ fate = "closed"
    /\ content' = c
    /\ \/ c.items = <<>> /\ fate' = "crashed" /\ UNCHANGED <<round, sound>>
       \/ c.items # <<>> /\ ~Enough(c) /\ fate' = "hung" /\ UNCHANGED <<round, sound>>
       \/ /\ Enough(c) /\ fate' = "playing"
          /\ \E r \in Rounds[c] : round' = r /\ TextToSpeech(r.title)
    /\ UNCHANGED <<clap, notices, correct, advances>>

\* The right tile: a new player replaces the old one, or cannot be made.
TapRight ==
    /\ fate = "playing" /\ round.row \in 1..Len(round.tiles)
    /\ correct < MaxTaps
    /\ correct' = correct + 1
    /\ clap' \in {"playing", clap}
    /\ UNCHANGED <<game, sound, notices, advances>>

\* Any other tile.
TapWrong ==
    /\ fate = "playing"
    /\ \E row \in 1..Len(round.tiles) : row # round.row
    /\ TextToSpeech(Sorry)
    /\ UNCHANGED <<game, clap, notices, correct, advances>>

VoiceEnds ==
    /\ voice.state = "speaking"
    /\ voice' = Quiet
    /\ UNCHANGED <<game, rushed, clap, notices, correct, advances>>

\* The clap was played to its end, or broke off: then nothing is done about it.
ClapEnds ==
    /\ clap = "playing"
    /\ clap' = "silent"
    /\ notices' \in {notices + 1, notices}
    /\ UNCHANGED <<game, sound, correct, advances>>

\* Mutant: the notice is handled and stays queued.
NoticeDeliveredAgain ==
    /\ fate = "playing" /\ notices > 0
    /\ advances' = advances + 1
    /\ ShowData
    /\ UNCHANGED <<clap, notices, correct>>

NoticeDelivered ==
    /\ fate = "playing" /\ notices > 0
    /\ notices' = notices - 1
    /\ advances' = advances + 1
    /\ ShowData
    /\ UNCHANGED <<clap, correct>>

\* Back frees the screen with its voice and its player, whose delegate is gone;
\* a lost app is killed and starts without it.
Leave ==
    /\ fate # "closed"
    /\ fate' = "closed" /\ content' = NoContent /\ round' = NoRound
    /\ voice' = Quiet /\ rushed' = FALSE
    /\ clap' = "silent" /\ notices' = 0
    /\ correct' = 0 /\ advances' = 0

Next ==
    \/ \E c \in Contents : Open(c)
    \/ TapRight \/ TapWrong
    \/ VoiceEnds \/ ClapEnds \/ NoticeDelivered
    \/ Leave

Spec == Init /\ [][Next]_vars

-----------------------------------------------------------------------------
(* Correctness.                                                            *)

TypeOK ==
    /\ fate \in {"closed", "playing", "crashed", "hung"}
    /\ content \in Contents \cup {NoContent}
    /\ round = NoRound \/ round \in Rounds[content]
    /\ voice.state \in {"idle", "speaking", "paused"}
    /\ voice.says \in AllTitles \cup {Sorry, Silence}
    /\ clap \in {"silent", "playing"}
    /\ notices \in 0..MaxTaps /\ correct \in 0..MaxTaps /\ advances \in 0..MaxTaps
    /\ rushed \in BOOLEAN

\* Every round after the first was paid for by a correct tap of its own: claps
\* that still play and notices that still wait are counted against the taps,
\* however taps, ends and notices interleave.  (Not by a tap in the round before
\* it: a late notice may skip a round nobody answered.)
RoundsEarned ==
    advances + notices + (IF clap = "playing" THEN 1 ELSE 0) <= correct

\* No two items of the list share a picture.
DistinctPictures(c) ==
    \A i, j \in 1..Len(c.items) : c.items[i].picture = c.items[j].picture => i = j

AskedTileIsRight ==
    /\ round.row \in 1..RoundSize
    /\ \E i \in 1..Len(content.items) :
        /\ content.items[i].picture = round.tiles[round.row]
        /\ content.items[i].title = round.title

\* With distinct pictures the row that counts as right is one of the tiles and
\* shows an item with the title asked for: the round can be won, and fairly.
RightTileIsAsked ==
    fate = "playing" /\ DistinctPictures(content) => AskedTileIsRight

\* The same for any list.  (Not so: see the run shared_picture.)
AskedTileIsShown == fate = "playing" => AskedTileIsRight

\* Unless something had to be said while the voice was busy, the voice never
\* asks for the tile of an earlier round.
QuestionIsCurrent ==
    fate = "playing" /\ ~rushed => voice.says \in {round.title, Sorry, Silence}

\* Once a clap is over the player is done with: none claps on into the round
\* that follows.  (Not so: see the run clap_over.)
ClapIsOver == [][advances' > advances => clap' = "silent"]_vars

=============================================================================
