----------------------------- MODULE MCContent -----------------------------
(* Four word documents: two of them share a title, one refers to nothing.   *)
EXTENDS Content, TLC

CONSTANTS d1, d2, d3, d4, cow, dog, url1, url2, url3, noPicture

McTitleOf == (d1 :> cow @@ d2 :> cow @@ d3 :> dog @@ d4 :> Blank)
McUrlOf == (d1 :> url1 @@ d2 :> url2 @@ d3 :> url3 @@ d4 :> noPicture)
McCollections == [Alphabets |-> <<2, 1>>, Numbers |-> <<3>>]
=============================================================================
