------------------------------ MODULE MCOlyRun ------------------------------
(* Instances of OlyRun small enough for TLC. *)
EXTENDS OlyRun

CONSTANTS a, b, w

MCChars == {a, b, w}
MCWide == {w}
\* KeyMax is 2: the longer key is too long.
MCKeys == {<<>>, <<a>>, <<a, b>>}
MCValues == {<<>>, <<b>>}
\* The wide one finds no room beside a key.
MCMoreValues == {<<>>, <<b>>, <<w>>}

\* Memory that the system hands out for the first time is zero.  What the
\* boundary and the slots may hold besides is covered by their own instances.
MCOpen ==
  /\ OpenRun
  /\ \A i \in DOMAIN ds.boundary.ochars : ds.boundary.ochars[i] = NUL
  /\ ~collection_end[0]

MCRun == MCOpen /\ [][RunNext]_runVars
MCLiveRun == MCRun /\ Fairness
=============================================================================
