----------------------------- MODULE MCDatabase -----------------------------
(* Instances of Database for TLC.                                          *)
EXTENDS Database

CONSTANT users

AllAllowed == {[puts |-> {}, queries |-> {}]}

\* Nothing, the first write, the second one, or reading may be refused.
OneRefused ==
    AllAllowed \cup {[puts |-> {p}, queries |-> {}] : p \in Puts}
               \cup {[puts |-> {}, queries |-> Queries]}

=============================================================================
