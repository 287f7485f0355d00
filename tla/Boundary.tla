------------------------------ MODULE Boundary ------------------------------
(***************************************************************************)
(* The boundary of data_source/boundary.c: chars in the encoding of a data *)
(* source are put in at one side and got out at the other as OChars.  The  *)
(* boundary is a record that the operators below take and return: the data *)
(* source makes several calls in one step of its own (DataSource), and     *)
(* BoundaryCalls makes one call per step.                                  *)
(***************************************************************************)
EXTENDS Integers, Sequences, SequencesExt, FiniteSetsExt

CONSTANTS
  Chars,       \* characters
  Wide,        \* those whose encoding takes two chars
  Trail,       \* the second char of such an encoding
  NUL, Junk,   \* the terminator, and what omalloc leaves in an OChar
  NoText,      \* the NULL pointer
  Sizes        \* values of buffer_max_size

ASSUME BoundaryAssumption ==
  /\ Wide \subseteq Chars
  /\ Trail \notin Chars /\ NUL \notin Chars \cup {Trail, Junk}
  /\ \A s \in Sizes : s \in Nat /\ s >= 9

-----------------------------------------------------------------------------
(* open_oly_boundary cuts one allocation in two, in bytes from c_start; the*)
(* encoding's smallest character has one byte.                             *)

MinCharSize == 1
OCharSize == 2

MaxCharacters(size) == size \div (MinCharSize + OCharSize)
CEnd(size)      == MaxCharacters(size) * MinCharSize - 2 * MinCharSize
OStart(size)    == CEnd(size) + MinCharSize + 1
OEndByte(size)  == OStart(size) + OCharSize * (MaxCharacters(size) - 2)
\* Mutant: the terminator of the OChars is forgotten.
AllocatedTight(size) ==
  (MaxCharacters(size) - 1) * OCharSize + (MaxCharacters(size) - 1) * MinCharSize
    + MinCharSize

Allocated(size) ==
  (MaxCharacters(size) - 1) * OCharSize + (MaxCharacters(size) - 1) * MinCharSize
    + MinCharSize + OCharSize

\* The gap after the chars and the rest of buffer_max_size are zeroed.
ZeroedGap(size)  == CEnd(size) + 1 .. OStart(size) - 1
ZeroedTail(size) == OEndByte(size) .. size - 1

OEnd(size) == MaxCharacters(size) - 2
Cells(size) == 0 .. OEnd(size) + 1

Opened(size) ==
  {[size |-> size, chars |-> <<>>, ochars |-> o, o_now |-> 0] :
     o \in {f \in [Cells(size) -> {Junk, NUL}] :
              \A i \in Cells(size) : i >= OEnd(size) => f[i] = NUL}}

-----------------------------------------------------------------------------
(* Conversion: a wide character is two chars and one OChar.                *)

Encoded(text) ==
  FlattenSeq([i \in DOMAIN text |->
                IF text[i] \in Wide THEN <<text[i], Trail>> ELSE <<text[i]>>])
Converted(chars) ==
  FlattenSeq([i \in DOMAIN chars |-> IF chars[i] = Trail THEN <<>> ELSE <<chars[i]>>])

\* Callers pass the length of a key, and the length of a value plus one.
Source(text, padded) == IF padded THEN Encoded(text) \o <<NUL>> ELSE Encoded(text)

\* Mutant: leaves no room for the terminator.
RefusesLate(b, s) == Len(s) > CEnd(b.size) - Len(b.chars)

Refuses(b, s) == Len(s) >= CEnd(b.size) - Len(b.chars)

PutCharIn(b, s) ==
  IF Refuses(b, s) THEN b ELSE [b EXCEPT !.chars = @ \o s \o <<NUL>>]

IsFlushed(b) == b.chars = <<>>

FlushInbound(b) ==
  IF IsFlushed(b) THEN b
  ELSE LET o == Converted(b.chars)
       IN [b EXCEPT !.chars = <<>>,
                    !.ochars = [i \in DOMAIN @ |-> IF i < Len(o) THEN o[i + 1] ELSE @[i]],
                    !.o_now = 0]

\* The string at o_now, up to the next terminator.
NextLen(b) ==
  Min({i \in DOMAIN b.ochars : i >= b.o_now /\ b.ochars[i] = NUL}) - b.o_now
NextText(b) == [i \in 1 .. NextLen(b) |-> b.ochars[b.o_now + i - 1]]

GetStatus(b) ==
  IF NextLen(b) = 0 THEN "BUFFER_EMPTY"
  ELSE IF b.o_now + NextLen(b) + 1 < OEnd(b.size) THEN "OKAY" ELSE "BOUNDARY_RESET"
GotText(b) == IF GetStatus(b) = "OKAY" THEN NextText(b) ELSE NoText

\* Mutant: stops at the terminator of the text it handed out.
AfterGetShort(b) ==
  IF GetStatus(b) = "OKAY" THEN [b EXCEPT !.o_now = @ + NextLen(b)] ELSE b

\* BOUNDARY_RESET resets nothing.
AfterGet(b) ==
  IF GetStatus(b) = "OKAY" THEN [b EXCEPT !.o_now = @ + NextLen(b) + 1] ELSE b

BoundaryType(b) ==
  /\ b.size \in Sizes
  /\ b.chars \in Seq(Chars \cup {Trail, NUL})
  /\ Len(b.chars) <= CEnd(b.size)
  /\ b.ochars \in [Cells(b.size) -> Chars \cup {NUL, Junk}]
  /\ b.o_now \in 0 .. OEnd(b.size)
=============================================================================
