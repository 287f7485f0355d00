-------------------------------- MODULE Tags --------------------------------
(***************************************************************************)
(* node/tag.c: the type of a scalar is inferred from its text, and the text*)
(* is imported as a type, inferred or given, into an OlyNodeValue.  Values *)
(* and the buffer that holds the text are used again and again, and the    *)
(* value is a union: what an import does not write is what the last one    *)
(* left.  The texts are a constant, with what the regular expressions and  *)
(* the number formats of ICU make of each; all other ICU errors end the    *)
(* program at once and are left out.                                       *)
(***************************************************************************)
EXTENDS Integers, Sequences, FiniteSets

CONSTANTS
  Texts, Empty,  \* scalars, and the one without characters
  Matches,  \* the simple_regexp that match a text as a whole
  Reads,    \* how much of a text a number format reads: "nothing", "part" or "all"
  Whole,    \* texts whose number, as far as it is read, has no fraction
  ReadsHex, \* texts of which %x reads all
  Fits,     \* texts whose number fits into 32 bits
  XSecond   \* texts whose second character is x or X

RegExps == {"null", "bool_true", "bool_false", "int", "uint_oct", "uint_hex", "float",
            "plus_inf", "minus_inf", "nan"}
Numbers == {"int", "float"}

\* What the expressions of SimpleTagRegExp have in common.
ASSUME TagAssumption ==
  /\ Empty \in Texts
  /\ Matches \in [Texts -> SUBSET RegExps] /\ Matches[Empty] = {}
  /\ \A t \in Texts :
       \/ Cardinality(Matches[t]) <= 1
       \/ Matches[t] = Numbers
  /\ \A t \in Texts : "int" \in Matches[t] => "float" \in Matches[t] /\ t \in Whole
  /\ \A t \in Texts : "uint_hex" \in Matches[t] => t \in ReadsHex
  /\ Reads \in [Texts -> {"nothing", "part", "all"}]
  /\ Whole \subseteq Texts /\ Fits \subseteq Texts
  /\ ReadsHex \subseteq XSecond /\ XSecond \subseteq Texts \ {Empty}

VARIABLES
  text,      \* what the caller's buffer holds
  tag_type,  \* the type inferred from it or given, "unset" when there is none yet
  inferred,  \* was it inferred?
  value,     \* the OlyNodeValue: its type, and what its union holds, of which text
  status     \* of the last import, "none" before; "EXIT" when it ended the program and
             \* "CRASHED" when it stored through NULL

vars == <<text, tag_type, inferred, value, status>>

\* basic_tag, in the order in which infer_simple_tag tries them.
BasicTags == <<"null", "bool", "int", "uint", "float", "plus_inf", "minus_inf", "nan",
               "string">>
TagTypes == {BasicTags[i] : i \in DOMAIN BasicTags}
\* A cut number is any that is not the one of the text.
Contents == {"fresh", "NULL", "true", "false", "number", "cut number", "pointer"}
Value == [type : TagTypes \cup {"unset"}, content : Contents, of : Texts]

Init ==
  /\ text \in Texts
  /\ tag_type = "unset" /\ inferred = FALSE
  /\ value = [type |-> "unset", content |-> "fresh", of |-> Empty]
  /\ status = "none"

-----------------------------------------------------------------------------
(* infer_simple_tag *)

Is(t, regexp) == regexp \in Matches[t]

Checks(t, tag) ==
  CASE tag = "null"   -> t = Empty \/ Is(t, "null")
    [] tag = "bool"   -> Is(t, "bool_false") \/ Is(t, "bool_true")
    [] tag = "uint"   -> Is(t, "uint_oct") \/ Is(t, "uint_hex")
    [] tag = "string" -> TRUE
    [] OTHER          -> Is(t, tag)

\* The first type whose check succeeds.
InfersAs(t, tag) ==
  \E i \in DOMAIN BasicTags :
    /\ tag = BasicTags[i] /\ Checks(t, BasicTags[i])
    /\ \A j \in 1 .. i - 1 : ~Checks(t, BasicTags[j])

-----------------------------------------------------------------------------
(* convert_tag: what each import makes of a text and of the value before.  *)

Rejected(t) == [type |-> "unset", content |-> "NULL", of |-> t]

Accepts(v) == value' = v /\ status' = "OKAY"
Rejects(v) == value' = v /\ status' = "TAG_NOT_MATCH"
Exits == UNCHANGED value /\ status' = "EXIT"

\* As a bool, the union of a NULL pointer is false; that of a number or another
\* pointer may be either.
MayBeFalse(v) == v.content # "true"
MayBeTrue(v)  == v.content \notin {"false", "NULL"}

ImportNull(t) == Accepts([type |-> "null", content |-> "NULL", of |-> t])

\* Neither word: the text is accepted when the union happens to be false, and is
\* rejected without a change otherwise.
ImportBool(t) ==
  \/ Is(t, "bool_true") /\ Accepts([type |-> "bool", content |-> "true", of |-> t])
  \/ Is(t, "bool_false") /\ Accepts([type |-> "bool", content |-> "false", of |-> t])
  \/ /\ ~Is(t, "bool_true") /\ ~Is(t, "bool_false")
     /\ \/ MayBeFalse(value) /\ Accepts([value EXCEPT !.type = "bool"])
        \/ MayBeTrue(value) /\ Rejects(value)

ReadsAll(t) == Reads[t] = "all"

NumberIf(uncut) == IF uncut THEN "number" ELSE "cut number"

\* Mutant: what follows the number is overlooked.
ImportIntPart(t) ==
  \/ (Reads[t] = "nothing" \/ t \notin Fits) /\ Exits
  \/ /\ Reads[t] # "nothing" /\ t \in Fits
     /\ Accepts([type |-> "int", of |-> t,
                 content |-> NumberIf(ReadsAll(t) /\ t \in Whole)])

\* unum_parse fails for a number of more than 32 bits, too, and drops a fraction.
ImportInt(t) ==
  \/ (Reads[t] = "nothing" \/ t \notin Fits) /\ Exits
  \/ /\ Reads[t] # "nothing" /\ t \in Fits
     /\ \/ /\ ReadsAll(t)
           /\ Accepts([type |-> "int", content |-> NumberIf(t \in Whole), of |-> t])
        \/ ~ReadsAll(t) /\ Rejects(Rejected(t))

ImportFloat(t) ==
  \/ Reads[t] = "nothing" /\ Exits
  \/ ReadsAll(t) /\ Accepts([type |-> "float", content |-> "number", of |-> t])
  \/ Reads[t] # "nothing" /\ ~ReadsAll(t) /\ Rejects(Rejected(t))

\* %x stores 32 bits, and stops at what is no digit.  Octal numbers are not converted.
\* The second character of an empty text is whatever its buffer held before.
ImportUint(t) ==
  \/ /\ t \in XSecond \/ t = Empty
     /\ Accepts([type |-> "uint", of |-> t,
                 content |-> NumberIf(t \in ReadsHex \cap Fits)])
  \/ t \notin XSecond /\ Rejects(Rejected(t))

\* Mutant: the union keeps what it held.
ImportWordOnTop(t, tag) ==
  \/ Is(t, tag) /\ Accepts([value EXCEPT !.type = tag])
  \/ ~Is(t, tag) /\ Rejects([value EXCEPT !.type = "unset"])

\* The infinities and not-a-number; a rejected text leaves the union as it is.
ImportWord(t, tag) ==
  \/ Is(t, tag) /\ Accepts([type |-> tag, content |-> "NULL", of |-> t])
  \/ ~Is(t, tag) /\ Rejects([value EXCEPT !.type = "unset"])

ImportString(t) == Accepts([type |-> "string", content |-> "pointer", of |-> t])

\* Mutant: the row of uint in the table has the import of int.
ImportSwapped(t, tag) ==
  CASE tag = "null"   -> ImportNull(t)
    [] tag = "bool"   -> ImportBool(t)
    [] tag \in {"int", "uint"} -> ImportInt(t)
    [] tag = "float"  -> ImportFloat(t)
    [] tag = "string" -> ImportString(t)
    [] OTHER          -> ImportWord(t, tag)

Import(t, tag) ==
  CASE tag = "null"   -> ImportNull(t)
    [] tag = "bool"   -> ImportBool(t)
    [] tag = "int"    -> ImportInt(t)
    [] tag = "uint"   -> ImportUint(t)
    [] tag = "float"  -> ImportFloat(t)
    [] tag = "string" -> ImportString(t)
    [] OTHER          -> ImportWord(t, tag)

-----------------------------------------------------------------------------
Running == status \notin {"EXIT", "CRASHED"}

\* The caller fills its buffer anew; strings imported before now read otherwise.
NextText ==
  /\ Running
  /\ text' \in Texts
  /\ tag_type' = "unset" /\ inferred' = FALSE
  /\ UNCHANGED <<value, status>>

Infer ==
  /\ Running
  /\ \E tag \in TagTypes : InfersAs(text, tag) /\ tag_type' = tag
  /\ inferred' = TRUE
  /\ UNCHANGED <<text, value, status>>

\* The caller has a type of its own.
Give ==
  /\ Running
  /\ tag_type' \in TagTypes
  /\ inferred' = FALSE
  /\ UNCHANGED <<text, value, status>>

\* Without a type the caller passes NULL, through which infer_simple_tag stores the
\* one that it finds; some check always succeeds.
Convert ==
  /\ Running
  /\ \/ tag_type = "unset" /\ UNCHANGED value /\ status' = "CRASHED"
     \/ tag_type # "unset" /\ Import(text, tag_type)
  /\ UNCHANGED <<text, tag_type, inferred>>

Next == NextText \/ Infer \/ Give \/ Convert

Spec == Init /\ [][Next]_vars

-----------------------------------------------------------------------------
(* Properties. *)

TagsType ==
  /\ text \in Texts /\ tag_type \in TagTypes \cup {"unset"} /\ inferred \in BOOLEAN
  /\ status \in {"none", "OKAY", "TAG_NOT_MATCH", "EXIT", "CRASHED"}
  /\ value \in Value
  /\ value.type \in {"null", "plus_inf", "minus_inf", "nan"} => value.content = "NULL"
  /\ value.type = "float" => value.content = "number"
  /\ value.type \in {"int", "uint"} => value.content \in {"number", "cut number"}
  /\ value.type = "string" => value.content = "pointer"

ContentFor(t, tag) ==
  CASE tag = "bool" -> IF Is(t, "bool_true") THEN "true" ELSE "false"
    [] tag \in Numbers \cup {"uint"} -> "number"
    [] tag = "string" -> "pointer"
    [] OTHER -> "NULL"

IsValueOf(v, t, tag) == v = [type |-> tag, content |-> ContentFor(t, tag), of |-> t]

\* Octal numbers, and numbers that a number format does not read or that are cut.
IsOdd(t) ==
  \/ Is(t, "uint_oct")
  \/ Is(t, "float") /\ Reads[t] # "all"
  \/ (Is(t, "int") \/ Is(t, "uint_hex")) /\ t \notin Fits

\* A text that is imported as the type inferred for it becomes a value of that type
\* and of that text, whatever the value held, unless it is an odd number.
InferredIsImported ==
  [][(Convert /\ inferred /\ ~IsOdd(text)) =>
       status' = "OKAY" /\ IsValueOf(value', text, tag_type)]_vars

IsBool(t) == Is(t, "bool_true") \/ Is(t, "bool_false")

\* Texts that are accepted as a type of which they are no value: any as null, what is
\* neither word as a bool, a number with a fraction as an int, and as an unsigned int
\* what %x does not read to the end or what 32 bits do not hold.
IsForeign(t, tag) ==
  \/ tag = "null" /\ ~Checks(t, "null")
  \/ tag = "bool" /\ ~IsBool(t)
  \/ tag = "int" /\ t \notin Whole
  \/ tag = "uint" /\ t \notin ReadsHex \cap Fits

\* A text that is accepted as the type given becomes its value of that type, unless
\* it is foreign to it; and one that is foreign leaves nothing of an earlier text,
\* but for the truth value of what is taken for a bool.
AcceptedIsOwn ==
  [][(Convert /\ status' = "OKAY") =>
       /\ value'.type = tag_type
       /\ ~IsForeign(text, tag_type) => IsValueOf(value', text, tag_type)
       /\ value'.of = text \/ (tag_type = "bool" /\ ~IsBool(text) /\ MayBeFalse(value'))]_vars
=============================================================================
