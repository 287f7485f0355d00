--------------------------- MODULE MCYamlInbound ---------------------------
(* Instances of YamlInbound small enough for TLC. *)
EXTENDS YamlInbound

CONSTANTS a, b

MCChars == {a, b}
\* KeyMax is 2: the longer key is too long.
MCKeys == {<<a>>, <<b>>, <<a, b>>}
MCValues == {<<>>, <<b>>, <<b, a>>}
MCShort == {<<a>>}
=============================================================================
