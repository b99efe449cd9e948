----------------------------- MODULE OwnWrites -----------------------------
(***************************************************************************)
(* What Database promises the app of the writes it makes.                  *)
(*                                                                         *)
(* Writes are numbered in the order of issue.  Each gets one answer, in    *)
(* the end: "ok" after the server committed it, "denied" when its rules    *)
(* refuse it, "canceled" by a purge, which leaves open whether it was      *)
(* committed.  They are committed in the order of issue.  And the app      *)
(* reads its own writes: an open view shows each write from the moment it  *)
(* is issued, and a view that opens shows at once every write that waits   *)
(* or was answered with "ok".                                              *)
(***************************************************************************)
EXTENDS Naturals

CONSTANTS
    Queries,    \* the locations the app observes
    MaxPuts     \* bound: writes issued

VARIABLES
    issued,     \* number of writes issued
    answers,    \* answers given to the app
    stored,     \* writes the server committed
    refused,    \* writes its rules refuse
    open,       \* locations with a complete view
    shown,      \* shown[q]: the app's own writes in that view
    broken      \* a purge met a write that was answered already

ownWrites == <<issued, answers, stored, refused, open, shown, broken>>

Answer(p, status) == [put |-> p, status |-> status]
Waiting == {p \in 1..issued : \A a \in answers : a.put # p}
Canceled == {p \in 1..issued : Answer(p, "canceled") \in answers}
Done == {p \in 1..issued : Answer(p, "ok") \in answers}

\* What the server says of the writes it was asked for.
Says(puts) == {Answer(p, IF p \in refused THEN "denied" ELSE "ok") : p \in puts}
Known == stored \cup refused

Init ==
    /\ issued = 0
    /\ answers = {}
    /\ stored = {}
    /\ refused \subseteq 1..MaxPuts
    /\ open = {}
    /\ shown = [q \in Queries |-> {}]
    /\ broken = FALSE

Issue ==
    /\ issued < MaxPuts
    /\ issued' = issued + 1
    /\ shown' = [q \in Queries |-> IF q \in open THEN shown[q] \cup {issued'} ELSE {}]
    /\ UNCHANGED <<answers, stored, refused, open, broken>>

Commit(p) ==
    /\ p \notin Known
    /\ 1..(p - 1) \subseteq Known \cup Canceled
    /\ stored' = stored \cup {p}
    /\ UNCHANGED <<issued, answers, refused, open, shown, broken>>

\* Writes are answered, and views may close.
AnswerPuts(puts) ==
    /\ puts \subseteq Waiting \cap Known
    /\ answers' = answers \cup Says(puts)
    /\ open' \subseteq open
    /\ shown' = [q \in Queries |-> IF q \in open' THEN shown[q] \ (puts \cap refused) ELSE {}]
    /\ UNCHANGED <<issued, stored, refused, broken>>

\* Data of the server: the view of q opens, or shows more.
Refresh(q) ==
    /\ open' = open \cup {q}
    /\ \E puts \in SUBSET (Waiting \cup stored) :
          /\ Waiting \cup Done \cup shown[q] \subseteq puts
          /\ shown' = [shown EXCEPT ![q] = puts]
    /\ UNCHANGED <<issued, answers, stored, refused, broken>>

\* The writes that wait are forgotten; those answered meanwhile break the client.
Purge(puts) ==
    /\ puts \subseteq Waiting \cap Known
    /\ answers' = answers \cup Says(puts)
                    \cup {Answer(p, "canceled") : p \in Waiting \ puts}
    /\ \A q \in Queries : shown[q] \ Waiting \subseteq shown'[q] /\ shown'[q] \subseteq shown[q]
    /\ shown' \in [Queries -> SUBSET (1..MaxPuts)]
    /\ broken' = (puts # {})
    /\ UNCHANGED <<issued, stored, refused, open>>

Next ==
    /\ ~broken
    /\ \/ Issue
       \/ \E p \in 1..issued : Commit(p)
       \/ \E puts \in SUBSET Waiting : AnswerPuts(puts) \/ Purge(puts)
       \/ \E q \in Queries : Refresh(q)

Spec == Init /\ [][Next]_ownWrites

=============================================================================
