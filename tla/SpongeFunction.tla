--------------------------- MODULE SpongeFunction ---------------------------
(***************************************************************************)
(* What a sponge promises: the bits given to it are padded to whole blocks *)
(* with a one, zeros and a one, and what is squeezed out of it is the      *)
(* stream that follows from this input, from its first bit on.  A partial  *)
(* byte is the last input, and there is none after the first squeeze.      *)
(***************************************************************************)
EXTENDS Integers, Sequences

CONSTANT Byte  \* bits of a byte

VARIABLES
  rate,     \* bits of a block
  given,    \* number of bits given: they are called 1 .. given
  input,    \* the padded input, << >> as long as there may be more
  squeezed  \* positions in the stream of the bits squeezed out so far

specVars == <<rate, given, input, squeezed>>

Zero == 0
One == -1

Padded(n) ==
  LET size == ((n + 2 + rate - 1) \div rate) * rate
  IN [i \in 1 .. size |-> IF i <= n THEN i ELSE IF i \in {n + 1, size} THEN One ELSE Zero]

Begin ==
  /\ rate' \in Nat /\ given' = 0 /\ input' = <<>> /\ squeezed' = <<>>

Give ==
  /\ input = <<>> /\ given % Byte = 0
  /\ given' > given
  /\ UNCHANGED <<rate, input, squeezed>>

\* A length that is not one of whole bytes pads the input, too, but gives nothing.
Squeeze ==
  /\ input' = Padded(given)
  /\ input # <<>> => UNCHANGED input
  /\ Len(squeezed') >= Len(squeezed)
  /\ squeezed' = [i \in 1 .. Len(squeezed') |-> i]
  /\ UNCHANGED <<rate, given>>

Spec ==
  /\ rate = 0 /\ given = 0 /\ input = <<>> /\ squeezed = <<>>
  /\ [][Begin \/ Give \/ Squeeze]_specVars
=============================================================================
