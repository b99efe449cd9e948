-------------------------- MODULE MCFacebookLogin --------------------------
(* An instance of FacebookLogin for TLC.                                   *)
EXTENDS FacebookLogin

CONSTANTS ann, bob

=============================================================================
