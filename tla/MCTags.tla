------------------------------- MODULE MCTags -------------------------------
(* Instances of Tags small enough for TLC. *)
EXTENDS Tags

\* "12." and "12.5" are float only, "1,5" is read up to its comma or as a whole, "-inf" matches
\* the expression of .inf, whose point the resource compiler takes for any character.
MCTexts == {"", "~", "true", "False", "12", "+12", "99999999999", "0o17", "0x1F",
            "0x123456789", "12.", "12.5", "1e500x", "-inf", "-.inf", ".NaN", "1,5", "word", "axe",
            "0X1F"}
MCMatches == [t \in MCTexts |->
  CASE t = "~" -> {"null"} [] t = "true" -> {"bool_true"} [] t = "False" -> {"bool_false"}
    [] t \in {"12", "+12", "99999999999"} -> {"int", "float"}
    [] t = "0o17" -> {"uint_oct"}
    [] t \in {"0x1F", "0x123456789"} -> {"uint_hex"}
    [] t \in {"12.", "12.5"} -> {"float"}
    [] t = "-inf" -> {"plus_inf"} [] t = "-.inf" -> {"minus_inf"} [] t = ".NaN" -> {"nan"}
    [] OTHER -> {}]
MCReads == [t \in MCTexts |->
  CASE t \in {"12", "99999999999", "12.", "12.5", "1,5"} -> "all"
    [] t \in {"0o17", "0x1F", "0x123456789", "0X1F", "1e500x"} -> "part"
    [] OTHER -> "nothing"]
MCFits == MCTexts \ {"99999999999", "0x123456789", "1e500x"}
MCWhole == MCTexts \ {"12.5"}
MCReadsHex == {"0x1F", "0X1F", "0x123456789"}
MCXSecond == MCReadsHex \cup {"axe"}
=============================================================================
