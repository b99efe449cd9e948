------------------------------ MODULE SignedIn ------------------------------
(***************************************************************************)
(* What Session promises its user: a session.                              *)
(*                                                                         *)
(* A person is outside, at the account screens, or inside, at the learning *)
(* screens.  The way in stores a name, the way out removes it, and a       *)
(* restart finds everybody where the stored name says.  The third place is *)
(* astray: an answer of Facebook was acted on by a screen that was no      *)
(* longer on top; the name and the screens then go their own ways until a  *)
(* way out or a restart brings them together.                              *)
(***************************************************************************)
CONSTANTS
    Names,      \* names of accounts
    Blank,      \* the name of a Facebook profile without one
    Nobody      \* no name is stored

VARIABLES
    user,       \* the stored name
    place       \* "outside", "inside" or "astray"

session == <<user, place>>

Home(name) == IF name \in {Nobody, Blank} THEN "outside" ELSE "inside"

Init == user = Nobody /\ place = "outside"

WayIn(name) ==
    /\ place = "outside"
    /\ user' = name
    /\ place' = "inside"

WayOut ==
    /\ place \in {"inside", "astray"}
    /\ user' = Nobody
    /\ place' = "outside"

LateAnswer(name) ==
    /\ user' = name
    /\ place' = "astray"

\* Astray, a login or a logout may also leave the screens as they are.
Wander ==
    /\ place = "astray"
    /\ user' \in Names \cup {Blank, Nobody}
    /\ place' = "astray"

Restart ==
    /\ place' = Home(user)
    /\ UNCHANGED user

Next ==
    \/ \E name \in Names \cup {Blank} : WayIn(name) \/ LateAnswer(name)
    \/ WayOut \/ Wander \/ Restart

Spec == Init /\ [][Next]_session

=============================================================================
