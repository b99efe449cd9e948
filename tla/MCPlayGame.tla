----------------------------- MODULE MCPlayGame -----------------------------
(* Four letters, five words, five words of which two have no picture, and   *)
(* lists that are too short.                                                *)
EXTENDS PlayGame

CONSTANTS a, b, c, d, e, p1, p2, p3, p4, p5, noPicture

Item(title, picture) == [title |-> title, picture |-> picture]

Letters == [mode |-> "list", items |-> <<Item(a, a), Item(b, b), Item(c, c), Item(d, d)>>]
FiveWords == [mode |-> "words",
              items |-> <<Item(a, p1), Item(b, p2), Item(c, p3), Item(d, p4), Item(a, p5)>>]
SharedPicture == [mode |-> "words",
                  items |-> <<Item(a, p1), Item(b, noPicture), Item(c, p3), Item(d, p4),
                              Item(e, noPicture)>>]
ThreeLetters == [mode |-> "list", items |-> <<Item(a, a), Item(b, b), Item(c, c)>>]
NoLetters == [mode |-> "list", items |-> <<>>]

McContents == {Letters, FiveWords, SharedPicture, ThreeLetters, NoLetters}
McWordsOnly == {SharedPicture}
McLettersOnly == {Letters}
=============================================================================
