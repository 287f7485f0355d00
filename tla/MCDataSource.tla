---------------------------- MODULE MCDataSource ----------------------------
(* Instances of DataSourceCalls small enough for TLC: w is two chars wide. *)
EXTENDS DataSourceCalls

CONSTANTS a, w

MCChars == {a, w}
MCWide == {w}
\* KeyMax is 3: the last key is too long.
MCKeys == {<<a>>, <<w>>, <<a, w>>}
\* In 27 bytes the last value fits beside no key.
MCValues == {<<>>, <<a>>, <<w>>, <<a, w, w>>}
=============================================================================
