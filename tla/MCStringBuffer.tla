--------------------------- MODULE MCStringBuffer ---------------------------
(* Instances of StringBuffer small enough for TLC. *)
EXTENDS StringBuffer

CONSTANTS a, b

MCChars == {a, b}
MCStrings == {<<>>, <<a>>, <<a, b>>, <<b, b>>}
MCWord == 65536
OneToThree == {1, 2, 3}
Exact == {0}
=============================================================================
