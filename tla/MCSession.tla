----------------------------- MODULE MCSession -----------------------------
(* Small phones for TLC: two people and two Facebook profiles, one of which *)
(* shares no email.                                                         *)
EXTENDS Session

CONSTANTS ann, bob, cat, mail, pw1, pw2

Ann == [name |-> ann, email |-> mail, password |-> pw1]
Cat == [name |-> cat, email |-> mail, password |-> pw2]
AnnOnFacebook == [name |-> ann, email |-> mail]
BobOnFacebook == [name |-> bob, email |-> Blank]

McFormAccounts == {Ann}
McOtherAccounts == {Cat}
McFbProfiles == {AnnOnFacebook, BobOnFacebook}

\* Facebook shares neither email nor name.
Nameless == [name |-> Blank, email |-> Blank]
McFewProfiles == {BobOnFacebook, Nameless}
McNobodyElse == {}
\* Both kinds of account are lost: one from the form, one from Facebook.
McLostAccounts == {Ann, FbAccount(BobOnFacebook)}
McNothingLost == {}
McNoProfiles == {}
=============================================================================
