----------------------------- MODULE MCBoundary -----------------------------
(* Instances of BoundaryCalls small enough for TLC: w is two chars wide. *)
EXTENDS BoundaryCalls

CONSTANTS a, w

MCChars == {a, w}
MCWide == {w}
MCTexts == {<<a>>, <<w>>, <<a, a>>, <<a, w, a>>}
=============================================================================
