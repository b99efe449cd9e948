------------------------------ MODULE Content ------------------------------
(***************************************************************************)
(* What there is to learn: the letters, the numbers and the words that the *)
(* app fetches once per process, and the Buttons screen that shows them.   *)
(*                                                                         *)
(* Letters and numbers come in one answer each and are assigned sorted.  A *)
(* word takes three answers: the collection, the document its "Name" field *)
(* refers to, and the download URL of its picture.  The chains of the      *)
(* words race each other, and every chain ends by appending one word to    *)
(* appDelegate.words, a picture without URL being the empty string.        *)
(*                                                                         *)
(* The Buttons screen copies the list when it is loaded.  Its cells take   *)
(* a word's picture from the list of that moment, a tap takes the word     *)
(* from the copy: what a child sees and what it hears are read from two    *)
(* places at two times.                                                    *)
(***************************************************************************)
EXTENDS Naturals, Sequences, FiniteSets

CONSTANTS
    WordDocs,       \* documents of the collection Words
    Referring,      \* those whose field "Name" is a reference
    TitleOf,        \* their field "title", "" when there is none
    UrlOf,          \* the download URL of the picture a document refers to
    Collections,    \* the documents' "name" fields, as the server lists them:
                    \* a sequence for "Alphabets" and one for "Numbers"
    Blank,          \* the empty string
    NotShown        \* a cell that UIKit has not asked for yet

ListNames == {"Alphabets", "Numbers"}
Modes == ListNames \cup {"Words"}

Titles == {TitleOf[d] : d \in WordDocs}
Urls == {UrlOf[d] : d \in WordDocs}
WordsType == [title : Titles, Name : Urls \cup {Blank}]

ASSUME ReferringAreDocuments == Referring \subseteq WordDocs
ASSUME DocumentsAreFinite == IsFiniteSet(WordDocs)
ASSUME NamesAreOrdered == Collections \in [ListNames -> Seq(Nat)]
ASSUME NotShownIsNoFace == NotShown \notin Urls \cup {Blank} \cup Nat

VARIABLES
    query,  \* query[c]: the request for the documents of collection c
    chain,  \* chain[d]: how far the chain of word document d has come
    words,  \* appDelegate.words
    lists,  \* appDelegate.arrAlphabets and arrNumber
    screen, \* the Buttons screen: its mode and its copy of the list
    cells   \* what the screen's cells show

vars == <<query, chain, words, lists, screen, cells>>
fetching == <<query, chain, words, lists>>
showing == <<screen, cells>>

Closed == [mode |-> "none", tiles |-> <<>>]

Init ==
    /\ query = [c \in Modes |-> "pending"]
    /\ chain = [d \in WordDocs |-> "none"]
    /\ words = <<>>
    /\ lists = [l \in ListNames |-> <<>>]
    /\ screen = Closed
    /\ cells = <<>>

-----------------------------------------------------------------------------
(* Fetching, from didFinishLaunching on.                                   *)

Ascending(s) == \A i, j \in 1..Len(s) : i < j => s[i] <= s[j]
Occurrences(s, x) == Cardinality({i \in 1..Len(s) : s[i] = x})

\* The elements of s in ascending order.
Sorted(s) ==
    LET values == {s[i] : i \in 1..Len(s)} IN
    CHOOSE t \in [1..Len(s) -> values] :
        Ascending(t) /\ \A x \in values : Occurrences(t, x) = Occurrences(s, x)

ListAnswered(l) ==
    /\ query[l] = "pending"
    /\ query' = [query EXCEPT ![l] = "answered"]
    /\ lists' = [lists EXCEPT ![l] = Sorted(Collections[l])]
    /\ UNCHANGED <<chain, words, showing>>

QueryFailed(c) ==
    /\ query[c] = "pending"
    /\ query' = [query EXCEPT ![c] = "failed"]
    /\ UNCHANGED <<chain, words, lists, showing>>

\* Every document that refers to another starts a chain of its own.
WordsAnswered ==
    /\ query["Words"] = "pending"
    /\ query' = [query EXCEPT !["Words"] = "answered"]
    /\ chain' = [d \in WordDocs |-> IF d \in Referring THEN "reference" ELSE "none"]
    /\ UNCHANGED <<words, lists, showing>>

\* Without an answer the path is "", the root of the store.
ReferenceAnswered(d) ==
    /\ chain[d] = "reference"
    /\ \E path \in {"url", "root"} : chain' = [chain EXCEPT ![d] = path]
    /\ UNCHANGED <<query, words, lists, showing>>

\* Only a path to a real picture can answer with a download URL.
MayEnd(d, end) == chain[d] = "url" \/ (chain[d] = "root" /\ end = "failed")

\* The word a chain ends with.
WordOf(d, end) ==
    [title |-> TitleOf[d], Name |-> IF end = "loaded" THEN UrlOf[d] ELSE Blank]

\* Mutants: no word without its picture; words kept in front, newest first.
UrlAnsweredSkipsFailed(d, end) ==
    /\ MayEnd(d, end)
    /\ chain' = [chain EXCEPT ![d] = end]
    /\ words' = IF end = "loaded" THEN Append(words, WordOf(d, end)) ELSE words
    /\ UNCHANGED <<query, lists, showing>>
UrlAnsweredInFront(d, end) ==
    /\ MayEnd(d, end)
    /\ chain' = [chain EXCEPT ![d] = end]
    /\ words' = <<WordOf(d, end)>> \o words
    /\ UNCHANGED <<query, lists, showing>>

UrlAnswered(d, end) ==
    /\ MayEnd(d, end)
    /\ chain' = [chain EXCEPT ![d] = end]
    /\ words' = Append(words, WordOf(d, end))
    /\ UNCHANGED <<query, lists, showing>>

-----------------------------------------------------------------------------
(* The Buttons screen.                                                     *)

\* Mutant: the collection view is not reloaded after the list was copied.
OpenButtonsWithoutReload(mode) ==
    /\ screen = Closed
    /\ screen' = [mode |-> mode,
                  tiles |-> IF mode = "Words" THEN words ELSE lists[mode]]
    /\ UNCHANGED <<fetching, cells>>

OpenButtons(mode) ==
    /\ screen = Closed
    /\ screen' = [mode |-> mode,
                  tiles |-> IF mode = "Words" THEN words ELSE lists[mode]]
    /\ cells' = [row \in 1..Len(screen'.tiles) |-> NotShown]
    /\ UNCHANGED fetching

\* What a tap on a tile shows and speaks of: a word's own picture, or the name.
Face(mode, tile) == IF mode = "Words" THEN tile.Name ELSE tile

\* cellForItemAt, which UIKit calls again whenever the row scrolls into view:
\* a picture comes from appDelegate.words as it is now.
ShowCell(row) ==
    /\ row \in 1..Len(screen.tiles)
    /\ cells' = [cells EXCEPT ![row] =
                    IF screen.mode = "Words" THEN words[row].Name
                                             ELSE screen.tiles[row]]
    /\ UNCHANGED <<fetching, screen>>

CloseButtons ==
    /\ screen # Closed
    /\ screen' = Closed
    /\ cells' = <<>>
    /\ UNCHANGED fetching

\* The process is launched again: fetching starts over.
Relaunch ==
    /\ query' = [c \in Modes |-> "pending"]
    /\ chain' = [d \in WordDocs |-> "none"]
    /\ words' = <<>>
    /\ lists' = [l \in ListNames |-> <<>>]
    /\ screen' = Closed
    /\ cells' = <<>>

-----------------------------------------------------------------------------
ChainStep(d) ==
    \/ ReferenceAnswered(d)
    \/ \E end \in {"loaded", "failed"} : UrlAnswered(d, end)

Next ==
    \/ \E l \in ListNames : ListAnswered(l)
    \/ \E c \in Modes : QueryFailed(c)
    \/ WordsAnswered
    \/ \E d \in WordDocs : ChainStep(d)
    \/ \E mode \in Modes : OpenButtons(mode)
    \/ \E row \in 1..Len(screen.tiles) : ShowCell(row)
    \/ CloseButtons
    \/ Relaunch

\* Firebase answers every request it was given, with a result or an error.
Spec ==
    /\ Init /\ [][Next]_vars
    /\ \A d \in WordDocs : WF_vars(ChainStep(d))

-----------------------------------------------------------------------------
(* Correctness.                                                            *)

TypeOK ==
    /\ query \in [Modes -> {"pending", "answered", "failed"}]
    /\ chain \in [WordDocs -> {"none", "reference", "url", "root", "loaded", "failed"}]
    /\ words \in Seq(WordsType)
    /\ lists \in [ListNames -> Seq(Nat)]
    /\ screen.mode \in Modes \cup {"none"}
    /\ screen.tiles \in IF screen.mode = "Words" THEN Seq(WordsType) ELSE Seq(Nat)
    /\ cells \in [1..Len(screen.tiles) -> Urls \cup {Blank, NotShown} \cup Nat]

\* Words go on arriving while a Buttons screen is open, and its copy stays a
\* prefix of the list its cells read: no row is out of range, none has moved.
TilesArePrefix ==
    screen.mode = "Words" =>
        /\ Len(screen.tiles) <= Len(words)
        /\ \A row \in 1..Len(screen.tiles) : words[row] = screen.tiles[row]

\* The picture a child sees in a cell is the picture of the word it will hear
\* when it taps the cell, although the two are read from different lists.
CellMatchesTile ==
    \A row \in 1..Len(screen.tiles) :
        cells[row] # NotShown => cells[row] = Face(screen.mode, screen.tiles[row])

\* Whatever the order of the answers and whichever of them fail, every finished
\* chain has left exactly one word, its own title with its own picture or none.
WordsMatchDocuments ==
    \A w \in WordsType :
        Occurrences(words, w) =
            Cardinality({d \in WordDocs : /\ chain[d] \in {"loaded", "failed"}
                                          /\ WordOf(d, chain[d]) = w})

\* Once the collection has answered, every document that refers to a picture
\* becomes a word, unless the app is launched again first.
EveryWordArrives ==
    query["Words"] = "answered"
        ~> Len(words) = Cardinality(Referring) \/ query["Words"] = "pending"

=============================================================================
