------------------------------ MODULE MCStartUp ------------------------------
(* Instances of StartUp small enough for TLC. *)
EXTENDS StartUp

\* "LANG" and "TZ" of the names preserved; the restricted ones with their values.
MCPreserved == {"LANG", "TZ"}
MCRestricted == {"HOME", "IFS", "PATH"}
MCLength == [LANG |-> 4, TZ |-> 2, HOME |-> 10, IFS |-> 7, PATH |-> 18]
=============================================================================
