----------------------------- MODULE TagsProofs -----------------------------
(***************************************************************************)
(* Proofs about Tags, for every set of texts and whatever the regular      *)
(* expressions and the number formats make of them, as far as the          *)
(* expressions have in common what TagAssumption says.                     *)
(***************************************************************************)
EXTENDS Tags, FiniteSetTheorems, TLAPS

\* The type inferred is one whose check the text passes.
InferInv == inferred => tag_type \in TagTypes /\ Checks(text, tag_type)

Inv == TagsType /\ InferInv

-----------------------------------------------------------------------------
LEMMA TagTypesAre ==
  TagTypes = {"null", "bool", "int", "uint", "float", "plus_inf", "minus_inf", "nan", "string"}
  BY DEF TagTypes, BasicTags

\* No text is both a true and a false one.
LEMMA OneBool ==
  ASSUME NEW t \in Texts
  PROVE  ~(Is(t, "bool_true") /\ Is(t, "bool_false"))
<1> SUFFICES ASSUME Is(t, "bool_true"), Is(t, "bool_false") PROVE FALSE
  OBVIOUS
<1> DEFINE both == {"bool_true", "bool_false"}
<1>1. both \subseteq Matches[t]
  BY DEF Is
<1>2. IsFiniteSet(Matches[t])
  <2>1. IsFiniteSet({"null", "bool_true", "bool_false", "int", "uint_oct"})
    <3>1. IsFiniteSet({}) BY FS_EmptySet
    <3>2. IsFiniteSet({} \cup {"null"}) BY <3>1, FS_AddElement
    <3>3. IsFiniteSet(({} \cup {"null"}) \cup {"bool_true"}) BY <3>2, FS_AddElement
    <3>4. IsFiniteSet((({} \cup {"null"}) \cup {"bool_true"}) \cup {"bool_false"})
      BY <3>3, FS_AddElement
    <3>5. IsFiniteSet(((({} \cup {"null"}) \cup {"bool_true"}) \cup {"bool_false"}) \cup {"int"})
      BY <3>4, FS_AddElement
    <3> DEFINE five == ((({} \cup {"null"}) \cup {"bool_true"}) \cup {"bool_false"}) \cup {"int"}
    <3>6. IsFiniteSet(five \cup {"uint_oct"})
      BY <3>5, FS_AddElement
    <3>7. five \cup {"uint_oct"} = {"null", "bool_true", "bool_false", "int", "uint_oct"}
      OBVIOUS
    <3> QED BY <3>6, <3>7
  <2>2. IsFiniteSet({"uint_hex", "float", "plus_inf", "minus_inf", "nan"})
    <3>1. IsFiniteSet({}) BY FS_EmptySet
    <3>2. IsFiniteSet({} \cup {"uint_hex"}) BY <3>1, FS_AddElement
    <3>3. IsFiniteSet(({} \cup {"uint_hex"}) \cup {"float"}) BY <3>2, FS_AddElement
    <3>4. IsFiniteSet((({} \cup {"uint_hex"}) \cup {"float"}) \cup {"plus_inf"})
      BY <3>3, FS_AddElement
    <3>5. IsFiniteSet(((({} \cup {"uint_hex"}) \cup {"float"}) \cup {"plus_inf"}) \cup {"minus_inf"})
      BY <3>4, FS_AddElement
    <3> DEFINE four == ((({} \cup {"uint_hex"}) \cup {"float"}) \cup {"plus_inf"}) \cup {"minus_inf"}
    <3>6. IsFiniteSet(four \cup {"nan"})
      BY <3>5, FS_AddElement
    <3>7. four \cup {"nan"} = {"uint_hex", "float", "plus_inf", "minus_inf", "nan"}
      OBVIOUS
    <3> QED BY <3>6, <3>7
  <2>3. IsFiniteSet({"null", "bool_true", "bool_false", "int", "uint_oct"}
                      \cup {"uint_hex", "float", "plus_inf", "minus_inf", "nan"})
    BY <2>1, <2>2, FS_Union
  <2>4. Matches[t] \subseteq {"null", "bool_true", "bool_false", "int", "uint_oct"}
                      \cup {"uint_hex", "float", "plus_inf", "minus_inf", "nan"}
    BY TagAssumption DEF RegExps
  <2> QED BY <2>3, <2>4, FS_Subset
<1>3. Cardinality(both) = 2
  <2>1. Cardinality({"bool_true"}) = 1 /\ IsFiniteSet({"bool_true"})
    BY FS_Singleton
  <2>2. Cardinality({"bool_true"} \cup {"bool_false"}) = 2
    BY <2>1, FS_AddElement
  <2>3. both = {"bool_true"} \cup {"bool_false"}
    OBVIOUS
  <2> QED BY <2>2, <2>3
<1>4. Cardinality(both) <= Cardinality(Matches[t])
  BY <1>1, <1>2, FS_Subset
<1>5. Matches[t] # Numbers
  BY <1>1 DEF Numbers
<1>6. Cardinality(Matches[t]) \in Nat
  BY <1>2, FS_CardinalityType
<1> QED
  BY <1>3, <1>4, <1>5, <1>6, TagAssumption

-----------------------------------------------------------------------------
\* The part of TagsType about values.
Sound(v) ==
  /\ v \in Value
  /\ v.type \in {"null", "plus_inf", "minus_inf", "nan"} => v.content = "NULL"
  /\ v.type = "float" => v.content = "number"
  /\ v.type \in {"int", "uint"} => v.content \in {"number", "cut number"}
  /\ v.type = "string" => v.content = "pointer"

LEMMA SoundValue ==
  ASSUME NEW tag \in TagTypes \cup {"unset"}, NEW content \in Contents, NEW t \in Texts,
         tag \in {"null", "plus_inf", "minus_inf", "nan"} => content = "NULL",
         tag = "float" => content = "number",
         tag \in {"int", "uint"} => content \in {"number", "cut number"},
         tag = "string" => content = "pointer"
  PROVE  Sound([type |-> tag, content |-> content, of |-> t])
  BY DEF Sound, Value

\* Whatever type a text is imported as, the value keeps its type.
LEMMA ImportKeepsType ==
  ASSUME TagsType, tag_type \in TagTypes, Running, Import(text, tag_type)
  PROVE  Sound(value') /\ status' \in {"OKAY", "TAG_NOT_MATCH", "EXIT", "CRASHED"}
<1>1. text \in Texts /\ Sound(value)
  BY DEF TagsType, Sound
<1>2. Sound(Rejected(text))
  BY <1>1, SoundValue DEF Rejected, Contents, Numbers
<1> USE <1>1, <1>2 DEF Accepts, Rejects, Exits
<1>3. CASE tag_type = "null"
  <2>1. ImportNull(text) BY <1>3 DEF Import
  <2>2. Sound([type |-> "null", content |-> "NULL", of |-> text])
    BY SoundValue, TagTypesAre DEF Contents, Numbers
  <2> QED BY <2>1, <2>2 DEF ImportNull
<1>4. CASE tag_type = "bool"
  <2>1. ImportBool(text) BY <1>4 DEF Import
  <2>2. \A c \in {"true", "false"} : Sound([type |-> "bool", content |-> c, of |-> text])
    BY SoundValue, TagTypesAre DEF Contents, Numbers
  <2>3. Sound([value EXCEPT !.type = "bool"])
    BY TagTypesAre DEF Sound, Value, Contents, Numbers
  <2> QED BY <2>1, <2>2, <2>3 DEF ImportBool
<1>5. CASE tag_type = "int"
  <2>1. ImportInt(text) BY <1>5 DEF Import
  <2>2. \A c \in {"number", "cut number"} :
          Sound([type |-> "int", content |-> c, of |-> text])
    BY SoundValue, TagTypesAre DEF Contents
  <2> QED BY <2>1, <2>2 DEF ImportInt, NumberIf
<1>6. CASE tag_type = "uint"
  <2>1. ImportUint(text) BY <1>6 DEF Import
  <2>2. \A c \in {"number", "cut number"} :
          Sound([type |-> "uint", content |-> c, of |-> text])
    BY SoundValue, TagTypesAre DEF Contents, Numbers
  <2> QED BY <2>1, <2>2 DEF ImportUint, NumberIf
<1>7. CASE tag_type = "float"
  <2>1. ImportFloat(text) BY <1>7 DEF Import
  <2>2. Sound([type |-> "float", content |-> "number", of |-> text])
    BY SoundValue, TagTypesAre DEF Contents, Numbers
  <2> QED BY <2>1, <2>2 DEF ImportFloat
<1>8. CASE tag_type = "string"
  <2>1. ImportString(text) BY <1>8 DEF Import
  <2>2. Sound([type |-> "string", content |-> "pointer", of |-> text])
    BY SoundValue, TagTypesAre DEF Contents, Numbers
  <2> QED BY <2>1, <2>2 DEF ImportString
<1>9. CASE tag_type \in {"plus_inf", "minus_inf", "nan"}
  <2>1. ImportWord(text, tag_type) BY <1>9 DEF Import
  <2>2. Sound([type |-> tag_type, content |-> "NULL", of |-> text])
    BY <1>9, SoundValue, TagTypesAre DEF Contents, Numbers
  <2>3. Sound([value EXCEPT !.type = "unset"])
    BY DEF Sound, Value, Numbers
  <2> QED BY <2>1, <2>2, <2>3 DEF ImportWord
<1> QED BY <1>3, <1>4, <1>5, <1>6, <1>7, <1>8, <1>9, TagTypesAre

LEMMA InvInductive == Inv /\ [Next]_vars => Inv'
<1> SUFFICES ASSUME Inv, [Next]_vars PROVE Inv'
  OBVIOUS
<1>1. CASE NextText
  BY <1>1 DEF NextText, Inv, TagsType, InferInv
<1>2. CASE Infer
  <2>1. PICK tag \in TagTypes : InfersAs(text, tag) /\ tag_type' = tag
    BY <1>2 DEF Infer
  <2>2. Checks(text, tag)
    BY <2>1 DEF InfersAs
  <2>3. Checks(text', tag_type')
    BY <2>1, <2>2, <1>2 DEF Infer, Checks, Is
  <2> QED BY <1>2, <2>1, <2>3 DEF Infer, Inv, TagsType, InferInv
<1>3. CASE Give
  BY <1>3 DEF Give, Inv, TagsType, InferInv
<1>4. CASE Convert
  <2>1. CASE tag_type = "unset"
    BY <1>4, <2>1 DEF Convert, Inv, TagsType, InferInv, Checks, Is, TagTypes, BasicTags
  <2>2. CASE tag_type # "unset"
   <3>1. tag_type \in TagTypes
     BY <2>2 DEF Inv, TagsType
   <3>2. TagsType'
     BY <1>4, <2>2, <3>1, ImportKeepsType DEF Convert, Inv, TagsType, Sound
   <3>3. InferInv'
     BY <1>4 DEF Convert, Inv, InferInv, Checks, Is
   <3> QED BY <3>2, <3>3 DEF Inv
  <2> QED BY <2>1, <2>2
<1>5. CASE UNCHANGED vars
  BY <1>5 DEF vars, Inv, TagsType, InferInv, Checks, Is
<1> QED BY <1>1, <1>2, <1>3, <1>4, <1>5 DEF Next

LEMMA InvInit == Init => Inv
<1>1. Empty \in Texts
  BY TagAssumption
<1> QED
  <2> SUFFICES ASSUME Init PROVE Inv
    OBVIOUS
  <2>1. value \in Value
    BY <1>1 DEF Init, Value, Contents
  <2>2. value.type = "unset"
    BY DEF Init
  <2>3. InferInv
    BY DEF Init, InferInv
  <2>4. text \in Texts /\ tag_type = "unset" /\ inferred = FALSE /\ status = "none"
    BY DEF Init
  <2> QED BY <2>1, <2>2, <2>3, <2>4 DEF Inv, TagsType

\* The invariant of the proofs holds in every reachable state.
THEOREM Invariant == Spec => []Inv
<1>1. Init => Inv BY InvInit
<1>2. Inv /\ [Next]_vars => Inv' BY InvInductive
<1> QED BY <1>1, <1>2, PTL DEF Spec

\* A value of a type holds what the imports of that type write: no import of
\* tag.c leaves what another put into the union under a type that reads it.
THEOREM TypeCorrect == Spec => []TagsType
  BY Invariant, PTL DEF Inv

-----------------------------------------------------------------------------
LEMMA InferredStep ==
  ASSUME Inv, Convert, inferred, ~IsOdd(text)
  PROVE  status' = "OKAY" /\ IsValueOf(value', text, tag_type)
<1>1. text \in Texts /\ tag_type \in TagTypes /\ Checks(text, tag_type)
  BY DEF Inv, TagsType, InferInv
<1>2. Import(text, tag_type)
  BY <1>1, TagTypesAre DEF Convert
<1> USE <1>1 DEF Accepts, Rejects, Exits, IsValueOf, ContentFor, Numbers
<1>3. CASE tag_type = "null"
  BY <1>2, <1>3 DEF Import, ImportNull
<1>4. CASE tag_type = "bool"
  <2>1. ImportBool(text) BY <1>2, <1>4 DEF Import
  <2>2. Is(text, "bool_false") \/ Is(text, "bool_true") BY <1>4 DEF Checks
  <2> QED BY <1>4, <2>1, <2>2, OneBool DEF ImportBool
<1>5. CASE tag_type = "int"
  <2>1. ImportInt(text) BY <1>2, <1>5 DEF Import
  <2>2. Is(text, "int") BY <1>5 DEF Checks
  <2>3. Is(text, "float") BY <2>2, TagAssumption DEF Is
  <2>4. ReadsAll(text) /\ text \in Fits BY <2>2, <2>3 DEF IsOdd, ReadsAll
  <2>5. text \in Whole BY <2>2, TagAssumption DEF Is
  <2> QED BY <1>5, <2>1, <2>4, <2>5 DEF ImportInt, ReadsAll, NumberIf
<1>6. CASE tag_type = "uint"
  <2>1. ImportUint(text) BY <1>2, <1>6 DEF Import
  <2>2. Is(text, "uint_hex") BY <1>6 DEF Checks, IsOdd
  <2>3. text \in ReadsHex /\ text \in XSecond BY <2>2, TagAssumption DEF Is
  <2>4. text \in Fits BY <2>2 DEF IsOdd
  <2> QED BY <1>6, <2>1, <2>3, <2>4 DEF ImportUint, NumberIf
<1>7. CASE tag_type = "float"
  <2>1. ImportFloat(text) BY <1>2, <1>7 DEF Import
  <2>2. Is(text, "float") BY <1>7 DEF Checks
  <2>3. ReadsAll(text) BY <2>2 DEF IsOdd, ReadsAll
  <2> QED BY <1>7, <2>1, <2>3 DEF ImportFloat, ReadsAll
<1>8. CASE tag_type = "string"
  BY <1>2, <1>8 DEF Import, ImportString
<1>9. CASE tag_type \in {"plus_inf", "minus_inf", "nan"}
  <2>1. ImportWord(text, tag_type) BY <1>2, <1>9 DEF Import
  <2>2. Is(text, tag_type) BY <1>9 DEF Checks
  <2> QED BY <1>9, <2>1, <2>2 DEF ImportWord
<1> QED BY <1>1, <1>3, <1>4, <1>5, <1>6, <1>7, <1>8, <1>9, TagTypesAre

LEMMA AcceptedStep ==
  ASSUME Inv, Convert, status' = "OKAY"
  PROVE  /\ value'.type = tag_type
         /\ ~IsForeign(text, tag_type) => IsValueOf(value', text, tag_type)
         /\ value'.of = text \/ (tag_type = "bool" /\ ~IsBool(text) /\ MayBeFalse(value'))
<1>1. text \in Texts /\ tag_type \in TagTypes \cup {"unset"} /\ value \in Value
  BY DEF Inv, TagsType
<1>2. tag_type \in TagTypes /\ Import(text, tag_type)
  BY <1>1 DEF Convert
<1> DEFINE Own(content) == value' = [type |-> tag_type, content |-> content, of |-> text]
<1>own. ASSUME NEW content, Own(content),
               ~IsForeign(text, tag_type) => content = ContentFor(text, tag_type)
        PROVE  /\ value'.type = tag_type /\ value'.of = text
               /\ ~IsForeign(text, tag_type) => IsValueOf(value', text, tag_type)
  BY <1>own DEF IsValueOf
<1> HIDE DEF Own
<1>3. CASE tag_type = "null"
  <2>1. Own("NULL") BY <1>2, <1>3 DEF Own, Import, ImportNull, Accepts
  <2>2. ContentFor(text, tag_type) = "NULL" BY <1>3 DEF ContentFor, Numbers
  <2> QED BY <2>1, <2>2, <1>own
<1>4. CASE tag_type = "bool"
  <2>1. ImportBool(text) BY <1>2, <1>4 DEF Import
  <2>2. ContentFor(text, tag_type) = IF Is(text, "bool_true") THEN "true" ELSE "false"
    BY <1>4 DEF ContentFor, Numbers
  <2>3. CASE Is(text, "bool_true")
    <3>1. Own("true")
      BY <1>1, <1>4, <2>1, <2>3, OneBool DEF ImportBool, Accepts, Own
    <3> QED BY <2>2, <2>3, <3>1, <1>own
  <2>4. CASE Is(text, "bool_false")
    <3>1. ~Is(text, "bool_true") BY <1>1, <2>4, OneBool
    <3>2. Own("false")
      BY <1>4, <2>1, <2>4, <3>1 DEF ImportBool, Accepts, Own
    <3> QED BY <2>2, <3>1, <3>2, <1>own
  <2>5. CASE ~IsBool(text)
    <3>1. MayBeFalse(value) /\ value' = [value EXCEPT !.type = "bool"]
      BY <2>1, <2>5 DEF ImportBool, Accepts, Rejects, IsBool
    <3>2. value'.type = "bool" /\ value'.content = value.content
      BY <1>1, <3>1 DEF Value
    <3>3. MayBeFalse(value') BY <3>1, <3>2 DEF MayBeFalse
    <3>4. IsForeign(text, tag_type) BY <1>4, <2>5 DEF IsForeign
    <3> QED BY <1>4, <2>5, <3>2, <3>3, <3>4
  <2> QED BY <2>3, <2>4, <2>5 DEF IsBool
<1>5. CASE tag_type = "int"
  <2>1. ImportInt(text) BY <1>2, <1>5 DEF Import
  <2>2. Own(NumberIf(text \in Whole))
    BY <1>5, <2>1 DEF Own, ImportInt, Accepts, Rejects, Exits
  <2>3. ContentFor(text, tag_type) = "number" BY <1>5 DEF ContentFor, Numbers
  <2>4. ~IsForeign(text, tag_type) => NumberIf(text \in Whole) = "number"
    BY <1>5 DEF IsForeign, NumberIf
  <2> QED BY <2>2, <2>3, <2>4, <1>own
<1>6. CASE tag_type = "uint"
  <2>1. ImportUint(text) BY <1>2, <1>6 DEF Import
  <2>2. Own(NumberIf(text \in ReadsHex \cap Fits))
    BY <1>6, <2>1 DEF Own, ImportUint, Accepts, Rejects
  <2>3. ContentFor(text, tag_type) = "number" BY <1>6 DEF ContentFor, Numbers
  <2>4. ~IsForeign(text, tag_type) => NumberIf(text \in ReadsHex \cap Fits) = "number"
    BY <1>6 DEF IsForeign, NumberIf
  <2> QED BY <2>2, <2>3, <2>4, <1>own
<1>7. CASE tag_type = "float"
  <2>1. ImportFloat(text) BY <1>2, <1>7 DEF Import
  <2>2. Own("number") BY <1>7, <2>1 DEF Own, ImportFloat, Accepts, Rejects, Exits
  <2>3. ContentFor(text, tag_type) = "number" BY <1>7 DEF ContentFor, Numbers
  <2> QED BY <2>2, <2>3, <1>own
<1>8. CASE tag_type = "string"
  <2>1. Own("pointer") BY <1>2, <1>8 DEF Own, Import, ImportString, Accepts
  <2>2. ContentFor(text, tag_type) = "pointer" BY <1>8 DEF ContentFor, Numbers
  <2> QED BY <2>1, <2>2, <1>own
<1>9. CASE tag_type \in {"plus_inf", "minus_inf", "nan"}
  <2>1. ImportWord(text, tag_type) BY <1>2, <1>9 DEF Import
  <2>2. Own("NULL") BY <1>9, <2>1 DEF Own, ImportWord, Accepts, Rejects
  <2>3. ContentFor(text, tag_type) = "NULL" BY <1>9 DEF ContentFor, Numbers
  <2> QED BY <2>2, <2>3, <1>own
<1> QED BY <1>2, <1>3, <1>4, <1>5, <1>6, <1>7, <1>8, <1>9, TagTypesAre

\* infer_simple_tag and convert_tag agree: what is inferred for a text is what it
\* can be imported as, and the value is that of the text whatever it held before.
\* That no text is both a true and a false one is needed, and that every int is a
\* float: a number format reads both alike.
THEOREM InferenceAgrees == Spec => InferredIsImported
<1>1. Inv => [(Convert /\ inferred /\ ~IsOdd(text)) =>
                status' = "OKAY" /\ IsValueOf(value', text, tag_type)]_vars
  BY InferredStep
<1> QED BY <1>1, Invariant, PTL DEF InferredIsImported

\* No import of tag.c accepts a text of the type given, foreign texts aside, without
\* making the whole value anew; and for a foreign one only import_bool leaves what an
\* earlier text left.
THEOREM AcceptanceOwns == Spec => AcceptedIsOwn
<1>1. Inv => [(Convert /\ status' = "OKAY") =>
                /\ value'.type = tag_type
                /\ ~IsForeign(text, tag_type) => IsValueOf(value', text, tag_type)
                /\ value'.of = text
                     \/ (tag_type = "bool" /\ ~IsBool(text) /\ MayBeFalse(value'))]_vars
  BY AcceptedStep
<1> QED BY <1>1, Invariant, PTL DEF AcceptedIsOwn
=============================================================================
