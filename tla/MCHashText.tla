----------------------------- MODULE MCHashText -----------------------------
(* Instances of HashText small enough for TLC. *)
EXTENDS HashText

\* Output of any length with blocks of two bytes, a hash of two bytes with three.
MCRates == 0 :> 8 @@ 8 :> 12
=============================================================================
