------------------------------ MODULE HashText ------------------------------
(***************************************************************************)
(* The helpers of src/hash around the sponge: a hash that get_hashbits     *)
(* made is written as hexadecimal text, and a text, as written or edited   *)
(* by hand, is read back.  A digit is the number of its half byte; what    *)
(* the bits of the hash come to is open, so that the hash may be any.      *)
(***************************************************************************)
EXTENDS Sponge

CONSTANTS
  HashBits,  \* OLY_HASH_BITS
  MaxHashed  \* bound: bits of a message whose hash is written

Base == 2 ^ (Byte \div 2)

\* Base is a number whatever Byte is: said here for the proofs, which know no powers.
ASSUME HashAssumption ==
  HashBits \in DOMAIN Rates /\ HashBits % Byte = 0 /\ Byte % 2 = 0 /\ Base \in Nat

VARIABLES
  digit,    \* what the half bytes of the hash come to, by their bits
  text,     \* what the file holds
  c,        \* the array a text is read into: byte by byte, two halves each
  status,   \* of the last reading or writing
  edited    \* has the text been edited since it was written?

textVars == <<text, c, status, edited>>
hashVars == <<vars, digit, textVars>>

Bytes == HashBits \div Byte
Digits == 0 .. Base - 1
\* Characters that are no digits; Other is neither of the others nor an x.
Space == -1
Plus  == -2
Minus == -3
Other == -4
Chars == Digits \cup {Space, Plus, Minus, Other}
IsDigit(char) == char >= 0
ZeroBytes == [k \in 1 .. Bytes |-> <<0, 0>>]

\* Inside a byte the later bits are the higher ones, and are written first.
HalfBitsAt(n) == SubSeq(squeezed, n * (Byte \div 2) + 1, (n + 1) * (Byte \div 2))
HasHash == fixedOutputLength = HashBits /\ Len(squeezed) = HashBits /\ given <= MaxHashed
HalvesOfHash == IF HasHash THEN {HalfBitsAt(n) : n \in 0 .. 2 * Bytes - 1} ELSE {}
Half(n) == digit[HalfBitsAt(n)]
Digest == [k \in 1 .. Bytes |-> <<Half(2 * k - 1), Half(2 * k - 2)>>]
HasDigest == Idle /\ HasHash

HashInit ==
  /\ Init
  /\ digit \in [HalvesOfHash -> Digits]
  /\ text = <<>> /\ c = ZeroBytes /\ status = "OKAY" /\ edited = FALSE

\* get_hashbits is Init, Update and Final; the others are for any caller, who is
\* done with hashing once there is a text (bound).
Hashing ==
  /\ text = <<>>
  /\ Next
  /\ digit' \in IF DOMAIN digit = HalvesOfHash' THEN {digit} ELSE [HalvesOfHash' -> Digits]
  /\ UNCHANGED textVars

\* Mutant: the lower half comes first.
HexLowFirst(bytes) == [i \in 1 .. 2 * Len(bytes) |-> bytes[(i + 1) \div 2][1 + (i % 2)]]

HexOf(bytes) == [i \in 1 .. 2 * Len(bytes) |-> bytes[(i + 1) \div 2][2 - (i % 2)]]

\* write_hex_from_hash; a stream that fails has taken the first bytes.  A file that
\* holds something is not written again (bound).
WriteHex ==
  /\ HasDigest /\ text = <<>>
  /\ \/ text' = HexOf(Digest) /\ status' = "OKAY"
     \/ \E n \in 0 .. Bytes - 1 : text' = HexOf(SubSeq(Digest, 1, n)) /\ status' = "FILEIO"
  /\ edited' = FALSE
  /\ UNCHANGED <<vars, digit, c>>

\* Up to two characters that stand together are others, one comes in or one is lost.
Edit ==
  /\ text # <<>> /\ ~edited
  /\ \/ \E i \in 1 .. Len(text) - 1, x \in Chars, y \in Chars :
          text' = [text EXCEPT ![i] = x, ![i + 1] = y]
     \/ \E i \in DOMAIN text, x \in Chars : text' = InsertAt(text, i, x) \/ text' = Append(text, x)
     \/ \E i \in DOMAIN text : text' = RemoveAt(text, i)
  /\ edited' = TRUE
  /\ UNCHANGED <<vars, digit, c, status>>

-----------------------------------------------------------------------------
(* read_hash_from_hex *)

CharAt(i) == IF i <= Len(text) THEN text[i] ELSE Other

\* The byte that a number below zero leaves, two's complement.
Negated(d) == IF d = 0 THEN <<0, 0>> ELSE <<Base - 1, Base - d>>

\* sscanf of %02hhx at position i: it skips spaces, which do not count for the
\* two characters; these may be a sign and a digit, or a digit and anything.
\* << >> when no digit is found.  (A text with 0x is left out.)
Scanned(i) ==
  LET start == Min({j \in i .. Len(text) + 1 : CharAt(j) # Space})
      first == CharAt(start)
      second == CharAt(start + 1)
  IN CASE IsDigit(first) /\ IsDigit(second)  -> <<first, second>>
       [] IsDigit(first) /\ ~IsDigit(second) -> <<0, first>>
       [] first = Plus /\ IsDigit(second)    -> <<0, second>>
       [] first = Minus /\ IsDigit(second)   -> Negated(second)
       [] OTHER -> <<>>

TooShort == Len(text) < 2 * Bytes

\* The bytes read before a bad one are overwritten again.
ReadHex ==
  /\ \/ TooShort /\ status' = "READHEX" /\ UNCHANGED c
     \/ /\ ~TooShort
        /\ IF \A k \in 1 .. Bytes : Scanned(2 * k - 1) # <<>>
             THEN c' = [k \in 1 .. Bytes |-> Scanned(2 * k - 1)] /\ status' = "OKAY"
             ELSE c' = ZeroBytes /\ status' = "READHEX"
  /\ UNCHANGED <<vars, digit, text, edited>>

HashNext == Hashing \/ WriteHex \/ Edit \/ ReadHex

HashSpec == HashInit /\ [][HashNext]_hashVars

-----------------------------------------------------------------------------
(* Properties. *)

\* The first character that is not the digest's own.
FirstChange(i) ==
  /\ i \in 1 .. 2 * Bytes
  /\ CharAt(i) # HexOf(Digest)[i]
  /\ \A j \in 1 .. i - 1 : CharAt(j) = HexOf(Digest)[j]

\* Where reading overlooks a change: the higher half of byte k is replaced by a space,
\* by a sign in front of what comes to the same byte, or, when it is 0, by the lower
\* half standing alone; or both halves are 0 and the second is no digit any more.
Overlooked(i) ==
  \E k \in 1 .. Bytes :
    LET high == Digest[k][1]
        low == Digest[k][2]
        second == CharAt(i + 1)
    IN \/ /\ i = 2 * k - 1
          /\ \/ CharAt(i) = Space
             \/ CharAt(i) = Plus /\ high = 0 /\ second = low
             \/ CharAt(i) = Minus /\ IsDigit(second) /\ <<high, low>> = Negated(second)
             \/ CharAt(i) = low /\ high = 0 /\ ~IsDigit(second)
       \/ i = 2 * k /\ high = 0 /\ low = 0 /\ ~IsDigit(CharAt(i))

\* A digest that is written and read back is the digest, whatever its bytes are; and a text
\* that reads as the digest is the digest's own text, up to its first change at one of the
\* places that read_hash_from_hex overlooks.  A changed digit is never overlooked unless
\* what follows it is none.
ReadsAsWritten ==
  [][(ReadHex /\ HasDigest) =>
       /\ text = HexOf(Digest) => status' = "OKAY" /\ c' = Digest
       /\ (status' = "OKAY" /\ c' = Digest) =>
            \A i \in 1 .. 2 * Bytes : FirstChange(i) => Overlooked(i)]_hashVars
=============================================================================
