---------------------------- MODULE SpongeProofs ----------------------------
(***************************************************************************)
(* Proofs about Sponge and HashText, for every number of bits of a byte,   *)
(* every rate of whole bytes, and every message, however it is cut into    *)
(* updates; and for every digest's text that is read back.                 *)
(***************************************************************************)
EXTENDS HashText, SequenceTheorems, TLAPS

-----------------------------------------------------------------------------
(* Multiples.                                                              *)

Multiple(n, b) == \E k \in Nat : n = k * b

LEMMA WholePart ==
  ASSUME NEW n \in Nat, NEW b \in Nat \ {0}
  PROVE  /\ n % b \in 0 .. b - 1 /\ n \div b \in Nat
         /\ n = (n \div b) * b + (n % b)
<1>1. n % b \in 0 .. b - 1
  OBVIOUS
<1>2. n = b * (n \div b) + (n % b)
  OBVIOUS
<1>3. n \div b \in Int
  OBVIOUS
<1>4. n \div b >= 0
  <2> SUFFICES ASSUME n \div b < 0 PROVE FALSE
    BY <1>3
  <2>1. PICK j \in Int : j = n \div b
    BY <1>3
  <2>2. b * j <= -b
    BY <2>1
  <2> QED BY <1>1, <1>2, <2>1, <2>2
<1> QED BY <1>1, <1>2, <1>3, <1>4

LEMMA DivisionUnique ==
  ASSUME NEW b \in Nat \ {0}, NEW k \in Nat, NEW r \in 0 .. b - 1
  PROVE  (k * b + r) \div b = k /\ (k * b + r) % b = r
<1>1. PICK n \in Nat : n = k * b + r
  OBVIOUS
<1>2. /\ n % b \in 0 .. b - 1 /\ n \div b \in Nat
      /\ n = (n \div b) * b + (n % b)
  BY <1>1, WholePart
<1>3. PICK j \in Nat, m \in 0 .. b - 1 : j = n \div b /\ m = n % b /\ n = j * b + m
  BY <1>2
<1>4. (j - k) * b = r - m
  BY <1>1, <1>3
<1>5. r - m < b /\ m - r < b
  OBVIOUS
<1>6. j = k
  <2>1. CASE j > k
    <3>1. (j - k) * b >= b
      BY <2>1
    <3> QED BY <1>4, <1>5, <3>1
  <2>2. CASE j < k
    <3>1. (k - j) * b >= b
      BY <2>2
    <3>2. (k - j) * b = m - r
      BY <1>4
    <3> QED BY <1>5, <3>1, <3>2
  <2> QED BY <2>1, <2>2
<1>7. r = m
  BY <1>4, <1>6
<1> QED BY <1>1, <1>3, <1>6, <1>7

LEMMA MultipleIsWhole ==
  ASSUME NEW n \in Nat, NEW b \in Nat \ {0}
  PROVE  n % b = 0 <=> Multiple(n, b)
<1>1. ASSUME n % b = 0 PROVE Multiple(n, b)
  <2>1. n \div b \in Nat /\ n = (n \div b) * b + (n % b)
    BY WholePart
  <2>2. n = (n \div b) * b
    BY <1>1, <2>1
  <2> QED BY <2>1, <2>2 DEF Multiple
<1>2. ASSUME NEW k \in Nat, n = k * b PROVE n % b = 0
  <2>1. 0 \in 0 .. b - 1 /\ k * b + 0 = n
    BY <1>2
  <2> QED BY <2>1, DivisionUnique
<1> QED BY <1>1, <1>2 DEF Multiple

LEMMA MultipleSum ==
  ASSUME NEW m, NEW n, NEW b \in Nat, Multiple(m, b), Multiple(n, b)
  PROVE  Multiple(m + n, b)
<1>1. PICK j \in Nat : m = j * b
  BY DEF Multiple
<1>2. PICK k \in Nat : n = k * b
  BY DEF Multiple
<1>3. j + k \in Nat /\ m + n = (j + k) * b
  BY <1>1, <1>2
<1> QED BY <1>3 DEF Multiple

LEMMA MultipleDifference ==
  ASSUME NEW m, NEW n, NEW b \in Nat \ {0}, Multiple(m, b), Multiple(n, b), m <= n
  PROVE  Multiple(n - m, b)
<1>1. PICK j \in Nat : m = j * b
  BY DEF Multiple
<1>2. PICK k \in Nat : n = k * b
  BY DEF Multiple
<1>3. j <= k
  <2> SUFFICES ASSUME j > k PROVE FALSE
    OBVIOUS
  <2>1. (j - k) * b >= b
    OBVIOUS
  <2>2. (j - k) * b = m - n
    BY <1>1, <1>2
  <2>3. m \in Int /\ n \in Int
    BY <1>1, <1>2
  <2> QED BY <2>1, <2>2, <2>3
<1>4. k - j \in Nat /\ n - m = (k - j) * b
  BY <1>1, <1>2, <1>3
<1> QED BY <1>4 DEF Multiple

LEMMA MultipleOfMultiple ==
  ASSUME NEW n, NEW r, NEW b \in Nat, Multiple(n, r), Multiple(r, b)
  PROVE  Multiple(n, b)
<1>1. PICK k \in Nat : r = k * b
  BY DEF Multiple
<1>2. PICK j \in Nat : n = j * r
  BY DEF Multiple
<1>3. j * k \in Nat /\ n = (j * k) * b
  BY <1>1, <1>2
<1> QED BY <1>3 DEF Multiple

LEMMA MultipleApart ==
  ASSUME NEW m, NEW n, NEW b \in Nat \ {0}, Multiple(m, b), Multiple(n, b), m < n
  PROVE  m + b <= n
<1>1. PICK j \in Nat : m = j * b
  BY DEF Multiple
<1>2. PICK k \in Nat : n = k * b
  BY DEF Multiple
<1>3. j < k
  <2> SUFFICES ASSUME j >= k PROVE FALSE
    OBVIOUS
  <2>1. (j - k) * b >= 0
    OBVIOUS
  <2>2. (j - k) * b = m - n
    BY <1>1, <1>2
  <2>3. m \in Int /\ n \in Int
    BY <1>1, <1>2
  <2> QED BY <2>1, <2>2, <2>3
<1>4. (k - j) * b >= b
  BY <1>3
<1>5. (k - j) * b = n - m
  BY <1>1, <1>2
<1>6. m \in Int /\ n \in Int
  BY <1>1, <1>2
<1> QED BY <1>4, <1>5, <1>6

\* The part of n that is whole bytes or whole blocks.
LEMMA WholeIsMultiple ==
  ASSUME NEW n \in Nat, NEW b \in Nat \ {0}
  PROVE  /\ n - (n % b) \in 0 .. n /\ Multiple(n - (n % b), b)
         /\ (n \div b) * b \in 0 .. n /\ Multiple((n \div b) * b, b)
<1>1. /\ n % b \in 0 .. b - 1 /\ n \div b \in Nat
      /\ n = (n \div b) * b + (n % b)
  BY WholePart
<1>2. PICK w \in Int : w = (n \div b) * b
  BY <1>1
<1>3. w >= 0
  BY <1>1, <1>2
<1>4. n - (n % b) = w /\ w \in 0 .. n
  BY <1>1, <1>2, <1>3
<1>5. Multiple(w, b)
  BY <1>1, <1>2 DEF Multiple
<1> QED BY <1>2, <1>4, <1>5

-----------------------------------------------------------------------------
(* Sequences of the message's bits in their order.                         *)

Runs(s, from) == s \in Seq(Int) /\ \A i \in 1 .. Len(s) : s[i] = from + i

LEMMA RunsEmpty == \A from : Runs(<<>>, from) /\ Len(<<>>) = 0
<1>1. <<>> \in Seq(Int) /\ Len(<<>>) = 0
  BY EmptySeq
<1>2. 1 .. 0 = {}
  OBVIOUS
<1> QED BY <1>1, <1>2 DEF Runs

LEMMA RunsConcat ==
  ASSUME NEW s, NEW t, NEW from \in Int, Runs(s, from), Runs(t, from + Len(s))
  PROVE  Runs(s \o t, from) /\ Len(s \o t) = Len(s) + Len(t)
<1>1. s \in Seq(Int) /\ t \in Seq(Int) /\ Len(s) \in Nat /\ Len(t) \in Nat
  BY LenProperties DEF Runs
<1>2. s \o t \in Seq(Int) /\ Len(s \o t) = Len(s) + Len(t)
  BY <1>1, ConcatProperties
<1>3. \A i \in 1 .. Len(s) + Len(t) : (s \o t)[i] =
                     IF i <= Len(s) THEN s[i] ELSE t[i - Len(s)]
  BY <1>1, ConcatProperties
<1>4. \A i \in 1 .. Len(s) + Len(t) : (s \o t)[i] = from + i
  <2> SUFFICES ASSUME NEW i \in 1 .. Len(s) + Len(t) PROVE (s \o t)[i] = from + i
    OBVIOUS
  <2>1. CASE i <= Len(s)
    <3>1. i \in 1 .. Len(s) /\ (s \o t)[i] = s[i]
      BY <1>1, <1>3, <2>1
    <3> QED BY <3>1 DEF Runs
  <2>2. CASE i > Len(s)
    <3>1. i - Len(s) \in 1 .. Len(t) /\ (s \o t)[i] = t[i - Len(s)]
      BY <1>1, <1>3, <2>2
    <3>2. t[i - Len(s)] = (from + Len(s)) + (i - Len(s))
      BY <3>1 DEF Runs
    <3> QED BY <1>1, <3>1, <3>2
  <2> QED BY <1>1, <2>1, <2>2
<1> QED BY <1>2, <1>4 DEF Runs

LEMMA RunsParts ==
  ASSUME NEW s, NEW from \in Int, Runs(s, from), NEW n \in 0 .. Len(s)
  PROVE  /\ Runs(SubSeq(s, 1, n), from) /\ Len(SubSeq(s, 1, n)) = n
         /\ Runs(SubSeq(s, n + 1, Len(s)), from + n)
         /\ Len(SubSeq(s, n + 1, Len(s))) = Len(s) - n
<1>1. s \in Seq(Int) /\ Len(s) \in Nat /\ \A i \in 1 .. Len(s) : s[i] \in Int
  BY LenProperties, ElementOfSeq DEF Runs
<1>2. /\ SubSeq(s, 1, n) \in Seq(Int)
      /\ Len(SubSeq(s, 1, n)) = IF 1 <= n THEN n - 1 + 1 ELSE 0
      /\ \A i \in 1 .. n - 1 + 1 : SubSeq(s, 1, n)[i] = s[1 + i - 1]
  <2>1. \A i \in 1 .. n : s[i] \in Int
    BY <1>1
  <2> QED BY <1>1, <2>1, SubSeqProperties
<1>3. /\ SubSeq(s, n + 1, Len(s)) \in Seq(Int)
      /\ Len(SubSeq(s, n + 1, Len(s))) = IF n + 1 <= Len(s) THEN Len(s) - (n + 1) + 1 ELSE 0
      /\ \A i \in 1 .. Len(s) - (n + 1) + 1 : SubSeq(s, n + 1, Len(s))[i] = s[(n + 1) + i - 1]
  <2>1. \A i \in n + 1 .. Len(s) : s[i] \in Int
    BY <1>1
  <2>2. n + 1 \in Int /\ Len(s) \in Int
    BY <1>1
  <2> QED BY <2>1, <2>2, SubSeqProperties
<1>4. Len(SubSeq(s, 1, n)) = n /\ Len(SubSeq(s, n + 1, Len(s))) = Len(s) - n
  BY <1>1, <1>2, <1>3
<1>5. \A i \in 1 .. n : SubSeq(s, 1, n)[i] = from + i
  <2>1. \A i \in 1 .. n : i \in 1 .. n - 1 + 1 /\ i \in 1 .. Len(s) /\ 1 + i - 1 = i
    BY <1>1
  <2> QED BY <1>2, <2>1 DEF Runs
<1>6. \A i \in 1 .. Len(s) - n : SubSeq(s, n + 1, Len(s))[i] = (from + n) + i
  <2> SUFFICES ASSUME NEW i \in 1 .. Len(s) - n
               PROVE  SubSeq(s, n + 1, Len(s))[i] = (from + n) + i
    OBVIOUS
  <2>1. i \in 1 .. Len(s) - (n + 1) + 1 /\ n + i \in 1 .. Len(s) /\ (n + 1) + i - 1 = n + i
    BY <1>1
  <2>2. SubSeq(s, n + 1, Len(s))[i] = s[n + i] /\ s[n + i] = from + (n + i)
    BY <1>3, <2>1 DEF Runs
  <2> QED BY <2>2
<1> QED BY <1>2, <1>3, <1>4, <1>5, <1>6 DEF Runs

LEMMA RunsEqual ==
  ASSUME NEW s, NEW t, NEW from, Runs(s, from), Runs(t, from), Len(s) = Len(t)
  PROVE  s = t
<1>1. s \in Seq(Int) /\ t \in Seq(Int) /\ \A i \in 1 .. Len(s) : s[i] = t[i]
  BY DEF Runs
<1> QED BY <1>1, SeqEqual

LEMMA RunsNumbered ==
  ASSUME NEW from \in Int, NEW to \in Int, from <= to + 1
  PROVE  Runs(Numbered(from, to), from - 1) /\ Len(Numbered(from, to)) = to - from + 1
<1>1. PICK n \in Nat : n = to - from + 1
  OBVIOUS
<1>2. PICK s : s = [i \in 1 .. n |-> from + i - 1]
  OBVIOUS
<1>3. s \in Seq(Int) /\ Len(s) = n
  BY <1>2
<1>4. \A i \in 1 .. n : s[i] = (from - 1) + i
  BY <1>2
<1> QED BY <1>1, <1>2, <1>3, <1>4 DEF Runs, Numbered

-----------------------------------------------------------------------------
(* The queue.                                                              *)

IsRate(r) == r \in Nat /\ r >= 2 * Byte /\ Multiple(r, Byte)

LEMMA RatesAre == \A len \in DOMAIN Rates : IsRate(Rates[len])
<1> SUFFICES ASSUME NEW len \in DOMAIN Rates PROVE IsRate(Rates[len])
  OBVIOUS
<1>1. Rates[len] \in Nat /\ Rates[len] >= 2 * Byte /\ Rates[len] % Byte = 0 /\ Byte \in Nat \ {0}
  BY SpongeAssumption
<1> QED BY <1>1, MultipleIsWhole DEF IsRate

\* The end of the byte that a position lies in.
LEMMA UpToByteIs ==
  ASSUME NEW m \in Nat, Multiple(m, Byte), NEW j \in 0 .. Byte - 1
  PROVE  UpToByte(m + j) = IF j = 0 THEN m ELSE m + Byte
<1>1. PICK k \in Nat : m = k * Byte
  BY DEF Multiple
<1>2. Byte \in Nat \ {0}
  BY SpongeAssumption
<1>3. CASE j = 0
  <2>1. m + j + Byte - 1 = k * Byte + (Byte - 1) /\ Byte - 1 \in 0 .. Byte - 1
    BY <1>1, <1>2, <1>3
  <2>2. (m + j + Byte - 1) \div Byte = k
    BY <1>2, <2>1, DivisionUnique
  <2> QED BY <1>1, <1>3, <2>2 DEF UpToByte
<1>4. CASE j # 0
  <2>1. m + j + Byte - 1 = (k + 1) * Byte + (j - 1) /\ j - 1 \in 0 .. Byte - 1 /\ k + 1 \in Nat
    BY <1>1, <1>2, <1>4
  <2>2. (m + j + Byte - 1) \div Byte = k + 1
    BY <1>2, <2>1, DivisionUnique
  <2>3. (k + 1) * Byte = m + Byte
    BY <1>1, <1>2
  <2> QED BY <1>4, <2>2, <2>3 DEF UpToByte
<1> QED BY <1>3, <1>4

LEMMA UpToByteWhole ==
  ASSUME NEW m \in Nat, Multiple(m, Byte)
  PROVE  UpToByte(m) = m
<1>1. PICK j \in 0 .. Byte - 1 : j = 0
  BY SpongeAssumption
<1>2. UpToByte(m + j) = IF j = 0 THEN m ELSE m + Byte
  BY UpToByteIs
<1>3. m + j = m
  BY <1>1
<1> QED BY <1>1, <1>2, <1>3

\* The first n bits of a queue are the ones of the message behind position from.
Holds(q, n, from) == \A i \in 1 .. n : q[i - 1] = from + i

\* The bits of the queue in their order.
FirstBits(q, n) == [i \in 1 .. n |-> q[i - 1]]

LEMMA RunsQueue ==
  ASSUME NEW q, NEW n \in Nat, NEW from \in Int, Holds(q, n, from)
  PROVE  Runs(FirstBits(q, n), from) /\ Len(FirstBits(q, n)) = n
<1>1. PICK s : s = [i \in 1 .. n |-> q[i - 1]]
  OBVIOUS
<1>2. \A i \in 1 .. n : q[i - 1] = from + i
  BY DEF Holds
<1>3. s \in Seq(Int) /\ Len(s) = n
  BY <1>1, <1>2
<1> QED BY <1>1, <1>2, <1>3 DEF Runs, FirstBits

LEMMA CopiedBits ==
  ASSUME rate \in Nat, NEW q, NEW at \in Nat, NEW from \in Int, NEW bits,
         Runs(bits, from + at), at + Len(bits) <= rate, Holds(q, at, from)
  PROVE  /\ DOMAIN Copied(q, at, bits) = Positions
         /\ Holds(Copied(q, at, bits), at + Len(bits), from)
<1>1. Len(bits) \in Nat
  BY LenProperties DEF Runs
<1>2. DOMAIN Copied(q, at, bits) = Positions
  BY DEF Copied
<1>3. ASSUME NEW i \in 1 .. at + Len(bits) PROVE Copied(q, at, bits)[i - 1] = from + i
  <2>1. i - 1 \in Positions
    BY <1>1 DEF Positions
  <2>2. CASE i <= at
    <3>1. i \in 1 .. at /\ i - 1 \notin at .. at + Len(bits) - 1
      BY <2>2
    <3> QED BY <2>1, <3>1 DEF Copied, Holds
  <2>3. CASE i > at
    <3>1. i - 1 \in at .. at + Len(bits) - 1 /\ (i - 1) - at + 1 = i - at /\ i - at \in 1 .. Len(bits)
      BY <1>1, <2>3
    <3>2. Copied(q, at, bits)[i - 1] = bits[i - at]
      BY <2>1, <3>1 DEF Copied
    <3>3. bits[i - at] = (from + at) + (i - at)
      BY <3>1 DEF Runs
    <3> QED BY <3>2, <3>3
  <2> QED BY <2>2, <2>3
<1> QED BY <1>2, <1>3 DEF Holds

Zeros(q, from, to) == \A p \in from .. to - 1 : q[p] = Zero

\* The last byte of a message has zeros behind its bits.
LEMMA PartialByteBits ==
  ASSUME rate \in Nat, NEW q, NEW at \in Nat, NEW from \in Int, NEW bits, bits # <<>>,
         Runs(bits, from + at), Len(bits) < Byte, at + Byte <= rate, Holds(q, at, from)
  PROVE  /\ DOMAIN PartialByte(q, at, bits) = Positions
         /\ Holds(PartialByte(q, at, bits), at + Len(bits), from)
         /\ Zeros(PartialByte(q, at, bits), at + Len(bits), at + Byte)
<1>1. Len(bits) \in Nat /\ bits \in Seq(Int) /\ Byte \in Nat
  BY LenProperties, SpongeAssumption DEF Runs
<1>2. PICK n \in Nat : n = Byte - Len(bits)
  BY <1>1
<1>3. PICK z : z = [i \in 1 .. n |-> Zero]
  OBVIOUS
<1>4. z \in Seq(Int) /\ Len(z) = n /\ \A i \in 1 .. n : z[i] = Zero
  BY <1>3 DEF Zero
<1>5. PICK w : w = bits \o z
  OBVIOUS
<1>6. w \in Seq(Int) /\ Len(w) = Byte
  <2>1. w \in Seq(Int) /\ Len(w) = Len(bits) + Len(z)
    BY <1>1, <1>4, <1>5, ConcatProperties
  <2> QED BY <1>1, <1>2, <1>4, <2>1
<1>7. \A i \in 1 .. Len(bits) + n : w[i] = IF i <= Len(bits) THEN bits[i] ELSE z[i - Len(bits)]
  BY <1>1, <1>4, <1>5, ConcatProperties
<1>8. PartialByte(q, at, bits) = Copied(q, at, w)
  BY <1>2, <1>3, <1>5 DEF PartialByte
<1>9. DOMAIN PartialByte(q, at, bits) = Positions
  BY <1>8 DEF Copied
<1>10. ASSUME NEW i \in 1 .. at + Len(bits) PROVE Copied(q, at, w)[i - 1] = from + i
  <2>1. i - 1 \in Positions
    BY <1>1 DEF Positions
  <2>2. CASE i <= at
    <3>1. i \in 1 .. at /\ i - 1 \notin at .. at + Len(w) - 1
      BY <2>2
    <3> QED BY <2>1, <3>1 DEF Copied, Holds
  <2>3. CASE i > at
    <3>1. /\ i - 1 \in at .. at + Len(w) - 1 /\ (i - 1) - at + 1 = i - at
          /\ i - at \in 1 .. Len(bits) /\ i - at \in 1 .. Len(bits) + n
      BY <1>1, <1>6, <2>3
    <3>2. Copied(q, at, w)[i - 1] = w[i - at]
      BY <2>1, <3>1 DEF Copied
    <3>3. w[i - at] = bits[i - at]
      BY <1>7, <3>1
    <3>4. bits[i - at] = (from + at) + (i - at)
      BY <3>1 DEF Runs
    <3> QED BY <3>2, <3>3, <3>4
  <2> QED BY <2>2, <2>3
<1>11. ASSUME NEW p \in at + Len(bits) .. (at + Byte) - 1 PROVE Copied(q, at, w)[p] = Zero
  <2>1. p \in Positions /\ p \in at .. at + Len(w) - 1
    BY <1>1, <1>6 DEF Positions
  <2>2. /\ p - at + 1 \in 1 .. Len(bits) + n /\ p - at + 1 > Len(bits)
        /\ (p - at + 1) - Len(bits) \in 1 .. n
    BY <1>1, <1>2
  <2>3. Copied(q, at, w)[p] = w[p - at + 1]
    BY <2>1 DEF Copied
  <2>4. PICK j \in 1 .. Len(bits) + n : j = p - at + 1
    BY <2>2
  <2>5. j > Len(bits) /\ j - Len(bits) \in 1 .. n /\ Copied(q, at, w)[p] = w[j]
    BY <2>2, <2>3, <2>4
  <2>6. w[j] = z[j - Len(bits)]
    BY <1>1, <1>7, <2>5
  <2> QED BY <1>4, <2>5, <2>6
<1>12. Holds(PartialByte(q, at, bits), at + Len(bits), from)
  BY <1>8, <1>10 DEF Holds
<1>13. Zeros(Copied(q, at, w), at + Len(bits), at + Byte)
  BY <1>11 DEF Zeros
<1> QED BY <1>8, <1>9, <1>12, <1>13

-----------------------------------------------------------------------------
(* The invariant.                                                          *)

\* While data is absorbed: the blocks, the queue and what is still to come are the
\* message; the queue has zeros behind the last bit up to its byte's end.
Filling ==
  /\ wanted = 0 /\ squeezed = <<>> /\ permuted = 0
  /\ Runs(absorbed, 0) /\ Multiple(Len(absorbed), rate)
  /\ bitsInQueue \in 0 .. rate /\ (rate > 0 => bitsInQueue < rate)
  /\ Holds(dataQueue, bitsInQueue, Len(absorbed))
  /\ \A p \in Positions :
       (bitsInQueue <= p /\ p < UpToByte(bitsInQueue)) => dataQueue[p] = Zero
  /\ Runs(rest, Len(absorbed) + bitsInQueue)
  /\ Runs(lastByte, Len(absorbed) + bitsInQueue + Len(rest))
  /\ given = Len(absorbed) + bitsInQueue + Len(rest) + Len(lastByte)
  /\ rest # <<>> => Multiple(bitsInQueue, Byte)
  /\ lastByte # <<>> => /\ Multiple(bitsInQueue, Byte) /\ Multiple(Len(rest), Byte)
                        /\ Len(lastByte) < Byte

\* While bits are squeezed out: the input is there, and the bits given are the first ones
\* of the blocks extracted.
Emptying ==
  /\ rate > 0 /\ rest = <<>> /\ lastByte = <<>>
  /\ absorbed = Function!Padded(given)
  /\ permuted \in Nat /\ dataQueue = Extracted(permuted)
  /\ bitsAvailable \in 0 .. rate
  /\ Runs(squeezed, 0) /\ Len(squeezed) = permuted * rate + (rate - bitsAvailable)

SpongeInv ==
  /\ given \in Nat /\ wanted \in Nat /\ fixedOutputLength \in Nat
  /\ rate = 0 \/ IsRate(rate)
  /\ rate = 0 => given = 0
  /\ DOMAIN dataQueue = Positions \/ rate = 0
  /\ squeezing \in BOOLEAN
  /\ IF squeezing THEN Emptying ELSE Filling

FunctionStep == [Function!Begin \/ Function!Give \/ Function!Squeeze]_(Function!specVars)

LEMMA SpongeInit == Init => SpongeInv
<1> SUFFICES ASSUME Init PROVE SpongeInv
  OBVIOUS
<1> USE DEF Init
<1>1. Len(absorbed) = 0 /\ Len(rest) = 0 /\ Len(lastByte) = 0 /\ rate = 0
  BY EmptySeq
<1>2. Runs(absorbed, 0) /\ Runs(rest, Len(absorbed) + bitsInQueue)
      /\ Runs(lastByte, Len(absorbed) + bitsInQueue + Len(rest))
  BY RunsEmpty
<1>3. Multiple(Len(absorbed), rate)
  BY <1>1 DEF Multiple
<1>4. Positions = {}
  BY <1>1 DEF Positions
<1>5. Filling
  BY <1>1, <1>2, <1>3, <1>4 DEF Filling, Holds
<1> QED BY <1>1, <1>5 DEF SpongeInv

-----------------------------------------------------------------------------
(* The steps that take data.                                               *)

LEMMA InitHashKeeps ==
  ASSUME SpongeInv, NEW len \in DOMAIN Rates, InitHash(len)
  PROVE  SpongeInv' /\ FunctionStep
<1>1. /\ rate' = Rates[len] /\ fixedOutputLength' = len
      /\ dataQueue' = [p \in 0 .. rate' - 1 |-> Zero]
      /\ bitsInQueue' = 0 /\ squeezing' = FALSE /\ permuted' = 0
      /\ absorbed' = <<>> /\ given' = 0 /\ squeezed' = <<>>
      /\ rest' = <<>> /\ lastByte' = <<>> /\ wanted' = 0
  BY DEF InitHash, Idle
<1>2. IsRate(rate') /\ rate' \in Nat /\ rate' > 0 /\ len \in Nat
  BY <1>1, RatesAre, SpongeAssumption DEF IsRate
<1>3. Runs(<<>>, 0) /\ Len(<<>>) = 0
  BY RunsEmpty
<1>4. Multiple(0, rate')
  <2>1. PICK r \in Nat : r = rate'
    BY <1>2
  <2>2. 0 \in Nat /\ 0 = 0 * r
    OBVIOUS
  <2> QED BY <2>1, <2>2 DEF Multiple
<1>5. Filling'
  <2>1. Len(absorbed') = 0 /\ Len(rest') = 0 /\ Len(lastByte') = 0
    BY <1>1, <1>3
  <2>2. \A p \in 0 .. rate' - 1 : dataQueue'[p] = Zero
    BY <1>1
  <2>3. \A i \in 1 .. bitsInQueue' : FALSE
    BY <1>1
  <2>4. Runs(absorbed, 0)' /\ Runs(rest, Len(absorbed) + bitsInQueue)'
        /\ Runs(lastByte, Len(absorbed) + bitsInQueue + Len(rest))'
    BY <1>1, <1>3, <2>1 DEF Runs
  <2>5. Multiple(Len(absorbed), rate)'
    BY <1>4, <2>1 DEF Multiple
  <2> QED BY <1>1, <1>2, <2>1, <2>2, <2>3, <2>4, <2>5 DEF Filling, Positions, Holds
<1>6. SpongeInv'
  <2>1. (DOMAIN dataQueue = Positions)'
    BY <1>1 DEF Positions
  <2>2. IsRate(rate)'
    BY <1>2 DEF IsRate, Multiple
  <2> QED BY <1>1, <1>2, <1>5, <2>1, <2>2 DEF SpongeInv
<1>7. Function!Begin
  BY <1>1, <1>2 DEF Function!Begin
<1> QED BY <1>6, <1>7 DEF FunctionStep

LEMMA UpdateKeeps ==
  ASSUME SpongeInv, NEW n \in 0 .. MaxUpdate, Update(n)
  PROVE  SpongeInv' /\ FunctionStep
<1>1. /\ rest = <<>> /\ lastByte = <<>> /\ wanted = 0 /\ rate > 0
      /\ wanted' = wanted /\ squeezed' = squeezed
      /\ rate' = rate /\ fixedOutputLength' = fixedOutputLength /\ dataQueue' = dataQueue
      /\ bitsInQueue' = bitsInQueue /\ squeezing' = squeezing
      /\ bitsAvailable' = bitsAvailable /\ absorbed' = absorbed /\ permuted' = permuted
  BY DEF Update, Idle, spongeVars
<1>2. n \in Nat /\ given \in Nat /\ Byte \in Nat \ {0}
  BY SpongeAssumption DEF SpongeInv
<1>3. CASE Refuses
  <2>1. UNCHANGED <<rest, lastByte, given>>
    BY <1>3 DEF Update
  <2>2. SpongeInv'
    BY <1>1, <2>1 DEF SpongeInv, Filling, Emptying, IsRate, Multiple, Runs, Positions, UpToByte,
                      Extracted, Holds, Function!Padded
  <2>3. UNCHANGED Function!specVars
    BY <1>1, <2>1 DEF Function!specVars
  <2> QED BY <2>2, <2>3 DEF FunctionStep
<1>4. CASE ~Refuses
  <2>1. PICK whole : whole = n - (n % Byte)
    OBVIOUS
  <2>2. /\ whole \in 0 .. n /\ Multiple(whole, Byte) /\ n - whole = n % Byte
        /\ n % Byte \in 0 .. Byte - 1
    BY <1>2, <2>1, WholeIsMultiple, WholePart
  <2>3. PICK byte : byte = UpperEnd(Numbered(given + whole + 1, given + n))
    OBVIOUS
  <2>4. /\ rest' = Numbered(given + 1, given + whole)
        /\ lastByte' = IF n = whole THEN <<>> ELSE Aligned(byte, n % Byte)
        /\ given' = given + n
    BY <1>4, <2>1, <2>3 DEF Update
  <2>5. Runs(rest', given) /\ Len(rest') = whole
    <3>1. /\ given + 1 \in Int /\ given + whole \in Int /\ given + 1 <= (given + whole) + 1
          /\ (given + whole) - (given + 1) + 1 = whole /\ (given + 1) - 1 = given
      BY <1>2, <2>2
    <3> QED BY <2>4, <3>1, RunsNumbered
  <2>6. n # whole => Runs(Aligned(byte, n % Byte), given + whole)
                     /\ Len(Aligned(byte, n % Byte)) = n % Byte
    <3> SUFFICES ASSUME n # whole
                 PROVE  Runs(Aligned(byte, n % Byte), given + whole)
                        /\ Len(Aligned(byte, n % Byte)) = n % Byte
      OBVIOUS
    <3>1. PICK m \in 1 .. Byte - 1 : m = n % Byte /\ n = whole + m
      BY <1>2, <2>2
    <3>2. PICK bits : bits = Numbered(given + whole + 1, given + n)
      OBVIOUS
    <3>3. Runs(bits, given + whole) /\ Len(bits) = m
      <4>1. /\ given + whole + 1 \in Int /\ given + n \in Int
            /\ given + whole + 1 <= (given + n) + 1
            /\ (given + n) - (given + whole + 1) + 1 = m
            /\ (given + whole + 1) - 1 = given + whole
        BY <1>2, <2>2, <3>1
      <4> QED BY <3>2, <4>1, RunsNumbered
    <3>4. PICK j : j = [i \in 1 .. Byte - m |-> Junk]
      OBVIOUS
    <3>5. Byte - m \in Nat /\ j \in Seq(Int) /\ Len(j) = Byte - m
      BY <1>2, <3>4 DEF Junk
    <3>6. byte = j \o bits /\ bits \in Seq(Int)
      BY <2>3, <3>2, <3>3, <3>4 DEF UpperEnd, Runs
    <3>7. byte \in Seq(Int) /\ Len(byte) = (Byte - m) + m
          /\ \A i \in 1 .. (Byte - m) + m : byte[i] = IF i <= Byte - m THEN j[i] ELSE bits[i - (Byte - m)]
      <4>1. byte \in Seq(Int) /\ Len(byte) = Len(j) + Len(bits)
        BY <3>5, <3>6, ConcatProperties
      <4>2. \A i \in 1 .. Len(j) + Len(bits) :
              byte[i] = IF i <= Len(j) THEN j[i] ELSE bits[i - Len(j)]
        BY <3>5, <3>6, ConcatProperties
      <4> QED BY <3>3, <3>5, <4>1, <4>2
    <3>8. PICK from \in Int : from = Byte - m + 1
      BY <1>2
    <3>9. \A i \in from .. Byte : i \in 1 .. Len(byte)
      BY <1>2, <3>7, <3>8
    <3>10. /\ SubSeq(byte, from, Byte) \in Seq(Int)
           /\ Len(SubSeq(byte, from, Byte)) = IF from <= Byte THEN Byte - from + 1 ELSE 0
           /\ \A i \in 1 .. Byte - from + 1 : SubSeq(byte, from, Byte)[i] = byte[from + i - 1]
      <4>1. \A i \in from .. Byte : byte[i] \in Int
        BY <3>7, <3>9, ElementOfSeq
      <4> QED BY <1>2, <4>1, SubSeqProperties
    <3>11. Len(SubSeq(byte, from, Byte)) = m
      BY <1>2, <3>8, <3>10
    <3>12. \A i \in 1 .. m : SubSeq(byte, from, Byte)[i] = (given + whole) + i
      <4> SUFFICES ASSUME NEW i \in 1 .. m
                   PROVE  SubSeq(byte, from, Byte)[i] = (given + whole) + i
        OBVIOUS
      <4>1. PICK k \in 1 .. (Byte - m) + m : k = from + i - 1
        BY <1>2, <3>8
      <4>2. i \in 1 .. Byte - from + 1 /\ ~(k <= Byte - m) /\ k - (Byte - m) = i
        BY <1>2, <3>8, <4>1
      <4>3. SubSeq(byte, from, Byte)[i] = byte[k] /\ byte[k] = bits[i]
        BY <3>7, <3>10, <4>1, <4>2
      <4> QED BY <3>3, <4>3 DEF Runs
    <3> QED BY <3>1, <3>8, <3>10, <3>11, <3>12 DEF Aligned, Runs
  <2>7. /\ Runs(lastByte', given + whole) /\ Len(lastByte') = n - whole
        /\ lastByte' # <<>> => Len(lastByte') < Byte
    <3>1. CASE n = whole
      BY <1>2, <2>2, <2>4, <3>1, RunsEmpty
    <3>2. CASE n # whole
      BY <1>2, <2>2, <2>4, <2>6, <3>2
    <3> QED BY <3>1, <3>2
  <2>8. /\ Filling /\ ~squeezing /\ bitsInQueue \in Nat /\ Multiple(bitsInQueue, Byte)
        /\ IsRate(rate)
    <3>1. ~squeezing /\ bitsInQueue % Byte = 0
      BY <1>4 DEF Refuses
    <3>2. Filling /\ bitsInQueue \in Nat /\ IsRate(rate)
      BY <1>1, <3>1 DEF SpongeInv, Filling, IsRate
    <3> QED BY <1>2, <3>1, <3>2, MultipleIsWhole
  <2>9. given = Len(absorbed) + bitsInQueue /\ Len(absorbed) \in Nat
    <3>1. Len(rest) = 0 /\ Len(lastByte) = 0 /\ Len(absorbed) \in Nat
      BY <1>1, <2>8, EmptySeq, LenProperties DEF Filling, Runs
    <3> QED BY <2>8, <3>1 DEF Filling
  <2>10. Filling'
    <3>1. Runs(rest', Len(absorbed') + bitsInQueue')
      BY <1>1, <2>5, <2>9
    <3>2. Runs(lastByte', Len(absorbed') + bitsInQueue' + Len(rest'))
      BY <1>1, <2>5, <2>7, <2>9
    <3>3. given' = Len(absorbed') + bitsInQueue' + Len(rest') + Len(lastByte')
      <4>1. PICK a \in Nat, q \in Nat, w \in Nat :
              a = Len(absorbed) /\ q = bitsInQueue /\ w = whole
        BY <2>2, <2>8, <2>9
      <4>2. Len(absorbed') = a /\ bitsInQueue' = q
        BY <1>1, <4>1
      <4>3. Len(rest') = w /\ Len(lastByte') = n - w /\ given' = a + q + n
        BY <2>4, <2>5, <2>7, <2>9, <4>1
      <4> QED BY <1>2, <4>2, <4>3
    <3>4. Multiple(bitsInQueue', Byte) /\ Multiple(Len(rest'), Byte)
      BY <1>1, <2>2, <2>5, <2>8
    <3>5. /\ squeezed = <<>> /\ permuted = 0
          /\ Runs(absorbed, 0) /\ Multiple(Len(absorbed), rate)
          /\ bitsInQueue \in 0 .. rate /\ (rate > 0 => bitsInQueue < rate)
          /\ Holds(dataQueue, bitsInQueue, Len(absorbed))
          /\ \A p \in Positions :
               (bitsInQueue <= p /\ p < UpToByte(bitsInQueue)) => dataQueue[p] = Zero
      BY <2>8 DEF Filling
    <3> QED BY <1>1, <2>7, <3>1, <3>2, <3>3, <3>4, <3>5 DEF Filling, Runs, Multiple, Holds, UpToByte, Positions
  <2>11. SpongeInv'
    BY <1>1, <1>2, <2>2, <2>4, <2>8, <2>10 DEF SpongeInv, IsRate, Multiple, Positions
  <2>12. CASE n = 0
    <3>1. UNCHANGED Function!specVars
      BY <1>1, <1>2, <2>4, <2>12 DEF Function!specVars
    <3> QED BY <2>11, <3>1 DEF FunctionStep
  <2>13. CASE n # 0
    <3>1. Multiple(given, Byte)
      <4>1. Multiple(Len(absorbed), Byte)
        BY <1>2, <2>8, MultipleOfMultiple DEF Filling, IsRate
      <4> QED BY <1>2, <2>8, <2>9, <4>1, MultipleSum
    <3>2. given % Byte = 0
      BY <1>2, <3>1, MultipleIsWhole
    <3>3. Function!Give
      BY <1>1, <1>2, <2>4, <2>8, <2>13, <3>2 DEF Function!Give
    <3> QED BY <2>11, <3>3 DEF FunctionStep
  <2> QED BY <2>12, <2>13
<1> QED BY <1>3, <1>4

\* Absorb has still data to take: what that says of the state.
LEMMA DataToTake ==
  ASSUME SpongeInv, rest # <<>> \/ lastByte # <<>>
  PROVE  /\ Filling /\ ~squeezing /\ wanted = 0 /\ rate \in Nat \ {0} /\ IsRate(rate)
         /\ Byte \in Nat \ {0} /\ bitsInQueue \in 0 .. rate - 1 /\ given \in Nat
         /\ Len(absorbed) \in Nat /\ Len(rest) \in Nat /\ Len(lastByte) \in Nat
         /\ Multiple(bitsInQueue, Byte) /\ Multiple(0, Byte)
<1>1. Filling /\ ~squeezing
  BY DEF SpongeInv, Emptying
<1>2. /\ Len(absorbed) \in Nat /\ Len(rest) \in Nat /\ Len(lastByte) \in Nat
      /\ rest \in Seq(Int) /\ lastByte \in Seq(Int)
  BY <1>1, LenProperties DEF Filling, Runs
<1>3. Len(rest) # 0 \/ Len(lastByte) # 0
  BY <1>2, EmptySeq
<1>4. /\ given = Len(absorbed) + bitsInQueue + Len(rest) + Len(lastByte)
      /\ bitsInQueue \in 0 .. rate /\ (rate > 0 => bitsInQueue < rate) /\ wanted = 0
      /\ Multiple(bitsInQueue, Byte)
  BY <1>1 DEF Filling
<1>5. rate # 0 /\ IsRate(rate)
  <2> SUFFICES ASSUME rate = 0 PROVE FALSE
    BY DEF SpongeInv
  <2>1. given = 0 /\ bitsInQueue = 0
    BY <1>4 DEF SpongeInv
  <2> QED BY <1>2, <1>3, <1>4, <2>1
<1>6. rate \in Nat \ {0} /\ Byte \in Nat \ {0}
  BY <1>5, SpongeAssumption DEF IsRate
<1>7. Multiple(0, Byte)
  <2>1. 0 \in Nat /\ 0 = 0 * Byte
    BY <1>6
  <2> QED BY <2>1 DEF Multiple
<1>8. bitsInQueue \in 0 .. rate - 1
  BY <1>4, <1>6
<1> QED BY <1>1, <1>2, <1>4, <1>5, <1>6, <1>7, <1>8 DEF SpongeInv

\* The byte of a second call is never refused: the first call has left whole bytes.
LEMMA UpdateLastByteKeeps ==
  ASSUME SpongeInv, UpdateLastByte
  PROVE  SpongeInv' /\ FunctionStep
<1>1. /\ rest = <<>> /\ lastByte # <<>> /\ lastByte' = <<>>
      /\ wanted' = wanted /\ squeezed' = squeezed /\ given' = given
      /\ rate' = rate /\ fixedOutputLength' = fixedOutputLength /\ dataQueue' = dataQueue
      /\ bitsInQueue' = bitsInQueue /\ squeezing' = squeezing
      /\ bitsAvailable' = bitsAvailable /\ absorbed' = absorbed /\ permuted' = permuted
  BY DEF UpdateLastByte, spongeVars
<1>2. /\ Filling /\ ~squeezing /\ wanted = 0 /\ rate \in Nat \ {0} /\ IsRate(rate)
      /\ Byte \in Nat \ {0} /\ bitsInQueue \in 0 .. rate - 1 /\ given \in Nat
      /\ Len(absorbed) \in Nat /\ Len(rest) \in Nat /\ Len(lastByte) \in Nat
      /\ Multiple(bitsInQueue, Byte)
  BY <1>1, DataToTake
<1>3. rest' = lastByte
  <2>1. bitsInQueue \in Nat
    BY <1>2
  <2>2. ~Refuses
    BY <1>2, <2>1, MultipleIsWhole DEF Refuses
  <2> QED BY <2>2 DEF UpdateLastByte
<1>4. Len(rest) = 0 /\ Len(lastByte') = 0
  BY <1>1, EmptySeq
<1>5. Filling'
  <2>1. Runs(rest', Len(absorbed') + bitsInQueue')
    <3>1. Runs(lastByte, Len(absorbed) + bitsInQueue + Len(rest))
      BY <1>2 DEF Filling
    <3>2. Len(absorbed) + bitsInQueue + Len(rest) = Len(absorbed) + bitsInQueue
      BY <1>2, <1>4
    <3> QED BY <1>1, <1>3, <3>1, <3>2
  <2>2. Runs(lastByte', Len(absorbed') + bitsInQueue' + Len(rest'))
    BY <1>1, RunsEmpty
  <2>3. given' = Len(absorbed') + bitsInQueue' + Len(rest') + Len(lastByte')
    <3>1. given = Len(absorbed) + bitsInQueue + Len(rest) + Len(lastByte)
      BY <1>2 DEF Filling
    <3> QED BY <1>1, <1>2, <1>3, <1>4, <3>1
  <2>4. /\ squeezed = <<>> /\ permuted = 0
        /\ Runs(absorbed, 0) /\ Multiple(Len(absorbed), rate)
        /\ Holds(dataQueue, bitsInQueue, Len(absorbed))
        /\ \A p \in Positions :
             (bitsInQueue <= p /\ p < UpToByte(bitsInQueue)) => dataQueue[p] = Zero
    BY <1>2 DEF Filling
  <2> QED BY <1>1, <1>2, <2>1, <2>2, <2>3, <2>4 DEF Filling, Runs, Multiple, Holds, UpToByte, Positions
<1>6. SpongeInv'
  BY <1>1, <1>2, <1>5 DEF SpongeInv, IsRate, Multiple, Positions
<1>7. UNCHANGED Function!specVars
  BY <1>1 DEF Function!specVars
<1> QED BY <1>6, <1>7 DEF FunctionStep

\* Absorb has taken size bits of its data, into blocks or into the queue.
LEMMA DataTaken ==
  ASSUME SpongeInv, rest # <<>>, NEW size \in 0 .. Len(rest),
         UNCHANGED <<rate, fixedOutputLength, squeezing, permuted, lastByte, wanted, given,
                     squeezed>>,
         rest' = SubSeq(rest, size + 1, Len(rest)),
         Runs(absorbed', 0), Multiple(Len(absorbed'), rate), bitsInQueue' \in 0 .. rate - 1,
         Len(absorbed') + bitsInQueue' = Len(absorbed) + bitsInQueue + size,
         DOMAIN dataQueue' = Positions,
         Holds(dataQueue', bitsInQueue', Len(absorbed')),
         \A p \in Positions : (bitsInQueue' <= p /\ p < UpToByte(bitsInQueue'))
                                => dataQueue'[p] = Zero,
         (rest' # <<>> \/ lastByte # <<>>)
           => Multiple(bitsInQueue', Byte) /\ Multiple(size, Byte)
  PROVE  SpongeInv' /\ FunctionStep
<1>1. /\ Filling /\ ~squeezing /\ wanted = 0 /\ rate \in Nat \ {0} /\ IsRate(rate)
      /\ Byte \in Nat \ {0} /\ given \in Nat /\ bitsInQueue \in Nat
      /\ Len(absorbed) \in Nat /\ Len(rest) \in Nat /\ Len(lastByte) \in Nat
  BY DataToTake
<1>2. PICK a \in Nat, l \in Nat : a = Len(absorbed) + bitsInQueue /\ l = Len(rest)
  BY <1>1
<1>3. Runs(rest, a) /\ Runs(lastByte, a + l) /\ given = a + l + Len(lastByte)
  <2>1. /\ Runs(rest, Len(absorbed) + bitsInQueue)
        /\ Runs(lastByte, Len(absorbed) + bitsInQueue + Len(rest))
        /\ given = Len(absorbed) + bitsInQueue + Len(rest) + Len(lastByte)
    BY <1>1 DEF Filling
  <2> QED BY <1>2, <2>1
<1>4. Runs(rest', a + size) /\ Len(rest') = l - size
  BY <1>2, <1>3, RunsParts
<1>5. Len(absorbed') \in Nat
  BY LenProperties DEF Runs
<1>6. Len(absorbed') + bitsInQueue' = a + size /\ size <= l
  BY <1>1, <1>2
<1>7. Len(absorbed') + bitsInQueue' + Len(rest') = a + l
  <2>1. bitsInQueue' \in Nat /\ size \in Nat
    BY <1>1
  <2>2. Len(rest') = l - size
    BY <1>4
  <2>3. PICK h \in Nat, b \in Nat, z \in Nat :
          h = Len(absorbed') /\ b = bitsInQueue' /\ z = size
    BY <1>5, <2>1, Zenon
  <2>4. h + b = a + z
    BY <1>6, <2>3
  <2>5. Len(rest') = l - z
    BY <2>2, <2>3
  <2>6. h + b + (l - z) = a + l
    BY <2>4
  <2> QED BY <2>3, <2>5, <2>6
<1>8. Runs(rest', Len(absorbed') + bitsInQueue')
  BY <1>4, <1>6
<1>9. Runs(lastByte', Len(absorbed') + bitsInQueue' + Len(rest'))
  BY <1>3, <1>7
<1>10. given' = Len(absorbed') + bitsInQueue' + Len(rest') + Len(lastByte')
  BY <1>3, <1>7
<1>11. lastByte # <<>> => Multiple(Len(rest'), Byte) /\ Len(lastByte) < Byte
  <2> SUFFICES ASSUME lastByte # <<>>
               PROVE  Multiple(Len(rest'), Byte) /\ Len(lastByte) < Byte
    OBVIOUS
  <2>1. Multiple(l, Byte) /\ Len(lastByte) < Byte
    BY <1>1, <1>2 DEF Filling
  <2>2. Multiple(l - size, Byte)
    BY <1>1, <1>6, <2>1, MultipleDifference
  <2> QED BY <1>4, <2>1, <2>2
<1>12. squeezed = <<>> /\ permuted = 0
  BY <1>1 DEF Filling
<1>13. Filling'
  <2>1. Runs(absorbed, 0)' /\ Runs(rest, Len(absorbed) + bitsInQueue)'
        /\ Runs(lastByte, Len(absorbed) + bitsInQueue + Len(rest))'
    BY <1>8, <1>9 DEF Runs
  <2>2. bitsInQueue' \in 0 .. rate' /\ (rate' > 0 => bitsInQueue' < rate')
    BY <1>1
  <2>3. /\ (rest' # <<>>) => Multiple(bitsInQueue', Byte)
        /\ (lastByte' # <<>>) => /\ Multiple(bitsInQueue', Byte) /\ Multiple(Len(rest'), Byte)
                                /\ Len(lastByte') < Byte
    BY <1>11
  <2> QED BY <1>1, <1>10, <1>12, <2>1, <2>2, <2>3 DEF Filling, Multiple, Holds, UpToByte, Positions
<1>14. SpongeInv'
  BY <1>1, <1>13 DEF SpongeInv, IsRate, Multiple, Positions
<1>15. UNCHANGED Function!specVars
  BY <1>1 DEF Function!specVars
<1> QED BY <1>14, <1>15 DEF FunctionStep

\* Whole blocks go from the data to what was absorbed.
LEMMA WholeBlocksKeeps ==
  ASSUME SpongeInv, WholeBlocks
  PROVE  SpongeInv' /\ FunctionStep
<1>1. /\ rest # <<>> /\ bitsInQueue = 0 /\ bitsInQueue' = 0 /\ dataQueue' = dataQueue
      /\ UNCHANGED <<rate, fixedOutputLength, squeezing, permuted, lastByte, wanted, given,
                     squeezed>>
  BY DEF WholeBlocks
<1>2. /\ Filling /\ rate \in Nat \ {0} /\ IsRate(rate) /\ Byte \in Nat \ {0}
      /\ Len(absorbed) \in Nat /\ Len(rest) \in Nat /\ Multiple(0, Byte)
  BY <1>1, DataToTake
<1>3. PICK size : size = (Len(rest) \div rate) * rate
  OBVIOUS
<1>4. size \in 0 .. Len(rest) /\ Multiple(size, rate) /\ Multiple(size, Byte)
  BY <1>2, <1>3, WholeIsMultiple, MultipleOfMultiple DEF IsRate
<1>5. PICK first : first = SubSeq(rest, 1, size)
  OBVIOUS
<1>6. absorbed' = absorbed \o first /\ rest' = SubSeq(rest, size + 1, Len(rest))
  BY <1>3, <1>5 DEF WholeBlocks
<1>7. Runs(absorbed, 0) /\ Multiple(Len(absorbed), rate) /\ Runs(rest, Len(absorbed))
  <2>1. Runs(absorbed, 0) /\ Multiple(Len(absorbed), rate)
        /\ Runs(rest, Len(absorbed) + bitsInQueue)
    BY <1>2 DEF Filling
  <2>2. Len(absorbed) + bitsInQueue = Len(absorbed)
    BY <1>1, <1>2
  <2> QED BY <2>1, <2>2
<1>8. Runs(first, Len(absorbed)) /\ Len(first) = size
  BY <1>2, <1>4, <1>5, <1>7, RunsParts
<1>9. Runs(absorbed', 0) /\ Len(absorbed') = Len(absorbed) + size
  <2>1. Runs(first, 0 + Len(absorbed))
    BY <1>2, <1>8
  <2>2. Runs(absorbed \o first, 0) /\ Len(absorbed \o first) = Len(absorbed) + Len(first)
    BY <1>7, <2>1, RunsConcat
  <2> QED BY <1>6, <1>8, <2>2
<1>10. Multiple(Len(absorbed'), rate)
  BY <1>2, <1>4, <1>7, <1>9, MultipleSum
<1>11. \A p \in Positions : ~(bitsInQueue' <= p /\ p < UpToByte(bitsInQueue'))
  <2>1. UpToByte(0) = 0
    BY <1>2, UpToByteWhole
  <2>2. \A p \in Positions : ~(0 <= p /\ p < UpToByte(0))
    BY <1>2, <2>1 DEF Positions
  <2> QED BY <1>1, <2>2
<1>12. /\ bitsInQueue' \in 0 .. rate - 1
       /\ Len(absorbed') + bitsInQueue' = Len(absorbed) + bitsInQueue + size
       /\ Holds(dataQueue', bitsInQueue', Len(absorbed'))
  BY <1>1, <1>2, <1>4, <1>9 DEF Holds
<1>13. DOMAIN dataQueue' = Positions /\ Multiple(bitsInQueue', Byte)
  BY <1>1, <1>2 DEF SpongeInv
<1> QED BY <1>1, <1>4, <1>6, <1>9, <1>10, <1>11, <1>12, <1>13, DataTaken

\* Data goes into the queue, up to the end of its block, and a full queue to what was
\* absorbed.
LEMMA PartOfBlockKeeps ==
  ASSUME SpongeInv, PartOfBlock
  PROVE  SpongeInv' /\ FunctionStep
<1>1. /\ rest # <<>>
      /\ UNCHANGED <<rate, fixedOutputLength, squeezing, permuted, lastByte, wanted, given,
                     squeezed>>
  BY DEF PartOfBlock
<1>2. /\ Filling /\ rate \in Nat \ {0} /\ IsRate(rate) /\ Byte \in Nat \ {0}
      /\ bitsInQueue \in 0 .. rate - 1 /\ Len(absorbed) \in Nat /\ Len(rest) \in Nat
      /\ Multiple(bitsInQueue, Byte) /\ Multiple(0, Byte)
  BY <1>1, DataToTake
<1>3. PICK size : size = IF Len(rest) + bitsInQueue > rate THEN rate - bitsInQueue ELSE Len(rest)
  OBVIOUS
<1>4. PICK q \in Nat, l \in Nat, a \in Nat, r \in Nat \ {0} :
        q = bitsInQueue /\ l = Len(rest) /\ a = Len(absorbed) /\ r = rate
  <2>1. bitsInQueue \in Nat
    BY <1>2
  <2> QED BY <1>2, <2>1, Zenon
<1>5. size \in 0 .. l /\ q + size <= r /\ (size = r - q \/ size = l) /\ q < r
  BY <1>2, <1>3, <1>4
<1>6. PICK whole : whole = size - (size % Byte)
  OBVIOUS
<1>7. whole \in 0 .. size /\ Multiple(whole, Byte) /\ size - whole \in 0 .. Byte - 1
  <2>1. size \in Nat
    BY <1>5
  <2>2. size - (size % Byte) \in 0 .. size /\ Multiple(size - (size % Byte), Byte)
    BY <1>2, <2>1, WholeIsMultiple
  <2>3. size % Byte \in 0 .. Byte - 1
    BY <1>2, <2>1, WholePart
  <2>4. size - whole = size % Byte
    BY <1>6, <2>1, <2>3
  <2> QED BY <1>6, <2>2, <2>3, <2>4
<1>8. PICK n \in Nat : n = q + whole
  BY <1>7
<1>9. Multiple(n, Byte) /\ n <= r
  <2>1. Multiple(q, Byte)
    BY <1>2, <1>4
  <2>2. Multiple(q + whole, Byte)
    BY <1>2, <1>7, <2>1, MultipleSum
  <2>3. n <= r
    BY <1>5, <1>7, <1>8
  <2> QED BY <1>8, <2>2, <2>3
<1>10. PICK copied : copied = Copied(dataQueue, q, SubSeq(rest, 1, whole))
  OBVIOUS
<1>11. /\ rest' = SubSeq(rest, size + 1, l)
       /\ size = whole => AbsorbWhenFull(copied, n)
       /\ size # whole => /\ dataQueue' = PartialByte(copied, n, SubSeq(rest, whole + 1, size))
                          /\ bitsInQueue' = q + size
                          /\ absorbed' = absorbed
  BY <1>3, <1>4, <1>6, <1>8, <1>10 DEF PartOfBlock
<1>12. /\ Runs(absorbed, 0) /\ Multiple(a, r) /\ Runs(rest, a + q)
       /\ Holds(dataQueue, q, a)
       /\ lastByte # <<>> => Multiple(l, Byte)
  BY <1>2, <1>4 DEF Filling
<1>13. /\ DOMAIN copied = Positions
       /\ Holds(copied, n, a)
  <2>1. PICK bits : bits = SubSeq(rest, 1, whole)
    OBVIOUS
  <2>2. whole \in 0 .. l
    BY <1>5, <1>7
  <2>3. Runs(bits, a + q) /\ Len(bits) = whole
    BY <1>4, <1>12, <2>1, <2>2, RunsParts
  <2>4. q + Len(bits) = n /\ q + Len(bits) <= rate
    BY <1>4, <1>8, <1>9, <2>3
  <2>5. rate \in Nat /\ Runs(bits, a + q) /\ Holds(dataQueue, q, a)
    BY <1>2, <1>12, <2>3
  <2>6. /\ DOMAIN Copied(dataQueue, q, bits) = Positions
        /\ Holds(Copied(dataQueue, q, bits), q + Len(bits), a)
    BY <2>4, <2>5, CopiedBits
  <2> QED BY <1>10, <2>1, <2>4, <2>6
<1>14. CASE size = whole /\ n = r
  <2>1. absorbed' = absorbed \o QueueBits(copied) /\ bitsInQueue' = 0 /\ dataQueue' = copied
    BY <1>4, <1>11, <1>14 DEF AbsorbWhenFull
  <2>2. Runs(QueueBits(copied), a) /\ Len(QueueBits(copied)) = r
    <3>1. QueueBits(copied) = FirstBits(copied, n)
      BY <1>4, <1>14 DEF QueueBits, FirstBits
    <3> QED BY <1>13, <1>14, <3>1, RunsQueue
  <2>3. Runs(absorbed', 0) /\ Len(absorbed') = a + r
    <3>1. Runs(QueueBits(copied), 0 + Len(absorbed))
      BY <1>4, <2>2
    <3>2. /\ Runs(absorbed \o QueueBits(copied), 0)
          /\ Len(absorbed \o QueueBits(copied)) = Len(absorbed) + Len(QueueBits(copied))
      BY <1>12, <3>1, RunsConcat
    <3> QED BY <1>4, <2>1, <2>2, <3>2
  <2>4. Multiple(Len(absorbed'), rate)
    <3>1. Multiple(r, r)
      <4>1. 1 \in Nat /\ r = 1 * r
        OBVIOUS
      <4> QED BY <4>1 DEF Multiple
    <3> QED BY <1>4, <1>12, <2>3, <3>1, MultipleSum
  <2>5. \A p \in Positions : ~(bitsInQueue' <= p /\ p < UpToByte(bitsInQueue'))
    <3>1. UpToByte(0) = 0
      BY <1>2, UpToByteWhole
    <3>2. \A p \in Positions : ~(0 <= p /\ p < UpToByte(0))
      BY <1>2, <3>1 DEF Positions
    <3> QED BY <2>1, <3>2
  <2>6. /\ bitsInQueue' \in 0 .. rate - 1
        /\ Len(absorbed') + bitsInQueue' = Len(absorbed) + bitsInQueue + size
        /\ Holds(dataQueue', bitsInQueue', Len(absorbed'))
    BY <1>4, <1>7, <1>8, <1>14, <2>1, <2>3 DEF Holds
  <2>7. DOMAIN dataQueue' = Positions /\ Multiple(bitsInQueue', Byte) /\ Multiple(size, Byte)
    BY <1>2, <1>7, <1>13, <1>14, <2>1
  <2>8. size \in 0 .. Len(rest) /\ rest' = SubSeq(rest, size + 1, Len(rest))
    BY <1>4, <1>5, <1>11
  <2> QED BY <1>1, <2>3, <2>4, <2>5, <2>6, <2>7, <2>8, DataTaken
<1>15. CASE size = whole /\ n # r
  <2>1. absorbed' = absorbed /\ bitsInQueue' = n /\ dataQueue' = copied
    BY <1>4, <1>11, <1>15 DEF AbsorbWhenFull
  <2>2. \A p \in Positions : ~(bitsInQueue' <= p /\ p < UpToByte(bitsInQueue'))
    <3>1. UpToByte(n) = n
      BY <1>9, UpToByteWhole
    <3>2. \A p \in Positions : ~(n <= p /\ p < UpToByte(n))
      BY <1>2, <3>1 DEF Positions
    <3> QED BY <2>1, <3>2
  <2>3. /\ bitsInQueue' \in 0 .. rate - 1
        /\ Len(absorbed') + bitsInQueue' = Len(absorbed) + bitsInQueue + size
    BY <1>4, <1>7, <1>8, <1>9, <1>15, <2>1
  <2>4. /\ Runs(absorbed', 0) /\ Multiple(Len(absorbed'), rate)
        /\ Holds(dataQueue', bitsInQueue', Len(absorbed'))
    BY <1>4, <1>12, <1>13, <2>1
  <2>5. DOMAIN dataQueue' = Positions /\ Multiple(bitsInQueue', Byte) /\ Multiple(size, Byte)
    BY <1>7, <1>9, <1>13, <1>15, <2>1
  <2>6. size \in 0 .. Len(rest) /\ rest' = SubSeq(rest, size + 1, Len(rest))
    BY <1>4, <1>5, <1>11
  <2> QED BY <1>1, <2>2, <2>3, <2>4, <2>5, <2>6, DataTaken
<1>16. CASE size # whole
  <2>1. PICK bits : bits = SubSeq(rest, whole + 1, size)
    OBVIOUS
  <2>2. /\ dataQueue' = PartialByte(copied, n, bits) /\ bitsInQueue' = q + size
        /\ absorbed' = absorbed
    BY <1>11, <1>16, <2>1
  <2>3. ~Multiple(size, Byte)
    <3>1. size % Byte # 0 /\ size \in Nat
      BY <1>2, <1>5, <1>6, <1>16
    <3> QED BY <1>2, <3>1, MultipleIsWhole
  <2>4. Multiple(r, Byte) /\ Multiple(q, Byte)
    BY <1>2, <1>4 DEF IsRate
  <2>5. size = l
    <3>1. q <= r
      BY <1>5
    <3>2. Multiple(r - q, Byte)
      BY <1>2, <2>4, <3>1, MultipleDifference
    <3> QED BY <1>5, <2>3, <3>2
  <2>6. Runs(bits, a + n) /\ Len(bits) = l - whole /\ bits # <<>>
    <3>1. whole \in 0 .. l
      BY <1>5, <1>7
    <3>2. Runs(bits, (a + q) + whole) /\ Len(bits) = Len(rest) - whole
      BY <1>4, <1>12, <2>1, <2>5, <3>1, RunsParts
    <3>3. (a + q) + whole = a + n
      BY <1>7, <1>8
    <3>4. l - whole # 0
      BY <1>7, <1>16, <2>5
    <3> QED BY <1>4, <3>2, <3>3, <3>4, EmptySeq
  <2>7. PICK j \in 1 .. Byte - 1 : j = Len(bits) /\ n + j = q + size
    BY <1>2, <1>7, <1>8, <1>16, <2>5, <2>6
  <2>8. n + Byte <= r
    <3>1. n < r
      BY <1>5, <2>7
    <3> QED BY <1>2, <1>9, <2>4, <3>1, MultipleApart
  <2>9. /\ DOMAIN PartialByte(copied, n, bits) = Positions
        /\ Holds(PartialByte(copied, n, bits), n + Len(bits), a)
        /\ Zeros(PartialByte(copied, n, bits), n + Len(bits), n + Byte)
    <3>1. rate \in Nat /\ Len(bits) < Byte /\ n + Byte <= rate
      BY <1>2, <1>4, <2>7, <2>8
    <3>2. Holds(copied, n, a) /\ Runs(bits, a + n) /\ bits # <<>>
      BY <1>13, <2>6
    <3> QED BY <3>1, <3>2, PartialByteBits
  <2>10. UpToByte(n + j) = n + Byte
    <3>1. j \in 0 .. Byte - 1 /\ j # 0
      BY <2>7
    <3> QED BY <1>9, <3>1, UpToByteIs
  <2>11. bitsInQueue' = n + j /\ size = l
    BY <2>2, <2>5, <2>7
  <2>12. /\ DOMAIN dataQueue' = Positions
         /\ Holds(dataQueue', bitsInQueue', Len(absorbed'))
    BY <1>4, <2>2, <2>7, <2>9, <2>11
  <2>13. \A p \in Positions : (bitsInQueue' <= p /\ p < UpToByte(bitsInQueue'))
                                => dataQueue'[p] = Zero
    <3> SUFFICES ASSUME NEW p \in Positions, n + j <= p, p < n + Byte
                 PROVE  PartialByte(copied, n, bits)[p] = Zero
      BY <2>2, <2>10, <2>11
    <3>1. p \in n + Len(bits) .. (n + Byte) - 1
      BY <1>2, <2>7 DEF Positions
    <3>2. \A k \in n + Len(bits) .. (n + Byte) - 1 : PartialByte(copied, n, bits)[k] = Zero
      BY <2>9 DEF Zeros
    <3> QED BY <3>1, <3>2
  <2>14. /\ bitsInQueue' \in 0 .. rate - 1
         /\ Len(absorbed') + bitsInQueue' = Len(absorbed) + bitsInQueue + size
    <3>1. n + j \in 0 .. r - 1
      BY <1>2, <2>7, <2>8
    <3>2. Len(absorbed') = a /\ bitsInQueue' = q + size
      BY <1>4, <2>2
    <3> QED BY <1>4, <1>5, <2>11, <3>1, <3>2
  <2>15. Runs(absorbed', 0) /\ Multiple(Len(absorbed'), rate)
    BY <1>4, <1>12, <2>2
  <2>16. size \in 0 .. Len(rest) /\ rest' = SubSeq(rest, size + 1, Len(rest))
    BY <1>4, <1>5, <1>11
  <2>17. rest' = <<>> /\ lastByte = <<>>
    <3>1. Len(rest') = 0 /\ rest' \in Seq(Int)
      <4>1. Runs(rest', (a + q) + size) /\ Len(rest') = l - size
        BY <1>4, <1>12, <2>16, RunsParts
      <4> QED BY <1>5, <2>5, <4>1 DEF Runs
    <3> QED BY <1>12, <2>3, <2>5, <3>1, EmptySeq
  <2> QED BY <1>1, <2>12, <2>13, <2>14, <2>15, <2>16, <2>17, DataTaken
<1> QED BY <1>14, <1>15, <1>16

-----------------------------------------------------------------------------
(* The padding.                                                            *)

\* What the i-th bit of the padded block is that begins behind a bits.
PadBit(a, i) ==
  IF i <= bitsInQueue THEN a + i ELSE IF i \in {bitsInQueue + 1, rate} THEN One ELSE Zero

\* A queue with room for both ones of the padding.
LEMMA PaddedOnce ==
  ASSUME Filling, rate \in Nat, bitsInQueue + 1 < rate, DOMAIN dataQueue = Positions
  PROVE  /\ PaddedQueue \in Seq(Int) /\ Len(PaddedQueue) = rate
         /\ \A i \in 1 .. rate : PaddedQueue[i] = PadBit(Len(absorbed), i)
<1>1. PICK q \in Nat, a \in Nat, r \in Nat : q = bitsInQueue /\ a = Len(absorbed) /\ r = rate
  <2>1. bitsInQueue \in Nat /\ Len(absorbed) \in Nat
    BY LenProperties DEF Filling, Runs
  <2> QED BY <2>1, Zenon
<1>2. /\ \A i \in 1 .. q : dataQueue[i - 1] = a + i
      /\ \A p \in Positions : (q <= p /\ p < UpToByte(q)) => dataQueue[p] = Zero
  BY <1>1 DEF Filling, Holds
<1>3. PICK end \in Nat : end = UpToByte(q) /\ q <= end
  <2>1. Byte \in Nat \ {0}
    BY SpongeAssumption
  <2>2. PICK m \in Nat, j \in 0 .. Byte - 1 : Multiple(m, Byte) /\ q = m + j
    <3>1. q - (q % Byte) \in 0 .. q /\ Multiple(q - (q % Byte), Byte)
      BY <2>1, WholeIsMultiple
    <3>2. q % Byte \in 0 .. Byte - 1
      BY <2>1, WholePart
    <3>3. q - (q % Byte) \in Nat /\ q = (q - (q % Byte)) + (q % Byte)
      BY <3>1, <3>2
    <3> QED BY <3>1, <3>2, <3>3
  <2>3. UpToByte(q) = IF j = 0 THEN m ELSE m + Byte
    BY <2>2, UpToByteIs
  <2> QED BY <2>1, <2>2, <2>3
<1>4. PICK first, second, cleared :
        /\ cleared = Cleared(dataQueue, end)
        /\ first = [cleared EXCEPT ![q] = One]
        /\ second = [first EXCEPT ![r - 1] = One]
  OBVIOUS
<1>5. PaddedQueue = [i \in 1 .. r |-> second[i - 1]]
  <2>1. bitsInQueue + 1 # rate
    BY <1>1
  <2> QED BY <1>1, <1>3, <1>4, <2>1 DEF PaddedQueue, QueueBits
<1>6. \A p \in Positions : cleared[p] = IF p >= end THEN Zero ELSE dataQueue[p]
  BY <1>4 DEF Cleared
<1>7. DOMAIN cleared = Positions
  BY <1>4 DEF Cleared
<1>8. \A p \in Positions : second[p] = IF p \in {q, r - 1} THEN One ELSE cleared[p]
  BY <1>4, <1>7
<1>9. ASSUME NEW i \in 1 .. r
      PROVE  second[i - 1] = PadBit(a, i) /\ PadBit(a, i) \in Int
  <2>1. PICK p \in Positions : p = i - 1
    BY <1>1 DEF Positions
  <2>2. p \in Nat /\ i = p + 1
    BY <2>1
  <2>3. CASE p < q
    <3>1. p \notin {q, r - 1} /\ ~(p >= end) /\ i \in 1 .. q
      BY <1>1, <1>3, <2>2, <2>3
    <3>2. second[p] = dataQueue[p]
      BY <1>6, <1>8, <3>1
    <3>3. second[i - 1] = a + i
      BY <1>2, <2>1, <3>1, <3>2
    <3>4. PadBit(a, i) = a + i
      BY <1>1, <3>1 DEF PadBit
    <3> QED BY <3>3, <3>4
  <2>4. CASE p \in {q, r - 1}
    <3>1. second[i - 1] = One
      BY <1>8, <2>1, <2>4
    <3>2. ~(i <= bitsInQueue) /\ i \in {bitsInQueue + 1, rate}
      BY <1>1, <2>2, <2>4
    <3> QED BY <3>1, <3>2 DEF PadBit, One
  <2>5. CASE q < p /\ p # r - 1
    <3>1. second[i - 1] = cleared[p]
      BY <1>8, <2>1, <2>5
    <3>2. cleared[p] = Zero
      BY <1>2, <1>3, <1>6, <2>2, <2>5
    <3>3. ~(i <= bitsInQueue) /\ i \notin {bitsInQueue + 1, rate}
      BY <1>1, <2>2, <2>5
    <3> QED BY <3>1, <3>2, <3>3 DEF PadBit, Zero
  <2> QED BY <2>2, <2>3, <2>4, <2>5
<1>10. PICK s : s = [i \in 1 .. r |-> second[i - 1]]
  OBVIOUS
<1>11. s \in Seq(Int) /\ Len(s) = r /\ \A i \in 1 .. r : s[i] = PadBit(a, i)
  <2>1. \A i \in 1 .. r : second[i - 1] \in Int
    BY <1>9
  <2>2. s \in Seq(Int) /\ Len(s) = r
    BY <1>10, <2>1
  <2>3. \A i \in 1 .. r : s[i] = PadBit(a, i)
    BY <1>9, <1>10
  <2> QED BY <2>2, <2>3
<1> QED BY <1>1, <1>5, <1>10, <1>11

\* A queue with room for one bit: the other one ends a block of its own.
LEMMA PaddedTwice ==
  ASSUME Filling, rate \in Nat, bitsInQueue + 1 = rate, DOMAIN dataQueue = Positions
  PROVE  /\ PaddedQueue \in Seq(Int) /\ Len(PaddedQueue) = rate + rate
         /\ \A i \in 1 .. rate : PaddedQueue[i] = PadBit(Len(absorbed), i)
         /\ \A i \in rate + 1 .. rate + rate :
              PaddedQueue[i] = IF i = rate + rate THEN One ELSE Zero
<1>1. PICK q \in Nat, a \in Nat, r \in Nat : q = bitsInQueue /\ a = Len(absorbed) /\ r = rate
  <2>1. bitsInQueue \in Nat /\ Len(absorbed) \in Nat
    BY LenProperties DEF Filling, Runs
  <2> QED BY <2>1, Zenon
<1>2. \A i \in 1 .. q : dataQueue[i - 1] = a + i
  BY <1>1 DEF Filling, Holds
<1>3. PICK one, two :
        /\ one = [i \in 1 .. r |-> [dataQueue EXCEPT ![q] = One][i - 1]]
        /\ two = [i \in 1 .. r |-> [p \in Positions |-> IF p = r - 1 THEN One ELSE Zero][i - 1]]
  OBVIOUS
<1>4. PaddedQueue = one \o two
  BY <1>1, <1>3 DEF PaddedQueue, QueueBits
<1>5. ASSUME NEW i \in 1 .. r PROVE one[i] = PadBit(a, i) /\ PadBit(a, i) \in Int
  <2>1. i - 1 \in DOMAIN dataQueue
    BY <1>1 DEF Positions
  <2>2. CASE i <= q
    <3>1. one[i] = dataQueue[i - 1]
      BY <1>3, <2>1, <2>2
    <3>2. one[i] = a + i
      BY <1>2, <2>2, <3>1
    <3>3. PadBit(a, i) = a + i
      BY <1>1, <2>2 DEF PadBit
    <3> QED BY <3>2, <3>3
  <2>3. CASE i > q
    <3>1. i - 1 = q
      BY <1>1, <2>3
    <3>2. one[i] = One
      BY <1>3, <2>1, <3>1
    <3>3. ~(i <= bitsInQueue) /\ i \in {bitsInQueue + 1, rate}
      BY <1>1, <2>3, <3>1
    <3> QED BY <3>2, <3>3 DEF PadBit, One
  <2> QED BY <2>2, <2>3
<1>6. \A i \in 1 .. r : two[i] = IF i = r THEN One ELSE Zero
  <2> SUFFICES ASSUME NEW i \in 1 .. r PROVE two[i] = IF i = r THEN One ELSE Zero
    OBVIOUS
  <2>1. i - 1 \in Positions /\ (i - 1 = r - 1 <=> i = r)
    BY <1>1 DEF Positions
  <2> QED BY <1>3, <2>1
<1>7. /\ one \in Seq(Int) /\ Len(one) = r
      /\ two \in Seq(Int) /\ Len(two) = r
  <2>1. \A i \in 1 .. r : one[i] \in Int /\ two[i] \in Int
    BY <1>5, <1>6 DEF One, Zero
  <2>2. /\ one = [i \in 1 .. r |-> one[i]]
        /\ two = [i \in 1 .. r |-> two[i]]
    BY <1>3
  <2>3. PICK f, g : f = one /\ g = two
    OBVIOUS
  <2>4. f = [i \in 1 .. r |-> f[i]] /\ \A i \in 1 .. r : f[i] \in Int
    BY <2>1, <2>2, <2>3
  <2>5. g = [i \in 1 .. r |-> g[i]] /\ \A i \in 1 .. r : g[i] \in Int
    BY <2>1, <2>2, <2>3
  <2>6. f \in Seq(Int) /\ Len(f) = r
    BY <2>4
  <2>7. g \in Seq(Int) /\ Len(g) = r
    BY <2>5
  <2> QED BY <2>3, <2>6, <2>7
<1>8. one \o two \in Seq(Int) /\ Len(one \o two) = Len(one) + Len(two)
  BY <1>7, ConcatProperties
<1>9. \A i \in 1 .. Len(one) + Len(two) :
        (one \o two)[i] = IF i <= Len(one) THEN one[i] ELSE two[i - Len(one)]
  BY <1>7, ConcatProperties
<1>10. \A i \in 1 .. r + r : PaddedQueue[i] = IF i <= r THEN one[i] ELSE two[i - r]
  BY <1>4, <1>7, <1>9
<1>11. \A i \in 1 .. rate : PaddedQueue[i] = PadBit(Len(absorbed), i)
  <2> SUFFICES ASSUME NEW i \in 1 .. r PROVE PaddedQueue[i] = PadBit(a, i)
    BY <1>1
  <2>1. i \in 1 .. r + r /\ i <= r
    OBVIOUS
  <2>2. PaddedQueue[i] = one[i]
    BY <1>10, <2>1
  <2> QED BY <1>5, <2>2
<1>12. \A i \in rate + 1 .. rate + rate : PaddedQueue[i] = IF i = rate + rate THEN One ELSE Zero
  <2> SUFFICES ASSUME NEW i \in r + 1 .. r + r
               PROVE  PaddedQueue[i] = IF i = r + r THEN One ELSE Zero
    BY <1>1
  <2>1. PICK k \in 1 .. r : k = i - r /\ (k = r <=> i = r + r)
    OBVIOUS
  <2>2. i \in 1 .. r + r /\ ~(i <= r)
    OBVIOUS
  <2>3. PaddedQueue[i] = two[k]
    BY <1>10, <2>1, <2>2
  <2> QED BY <1>6, <2>1, <2>3
<1> QED BY <1>1, <1>4, <1>7, <1>8, <1>11, <1>12

\* What is absorbed when the first bit is squeezed is the padded message.
LEMMA PaddedInput ==
  ASSUME Filling, IsRate(rate), rest = <<>>, lastByte = <<>>, DOMAIN dataQueue = Positions
  PROVE  absorbed \o PaddedQueue = Function!Padded(given)
<1>1. /\ Byte \in Nat \ {0} /\ rate \in Nat \ {0} /\ rate >= 2 * Byte
      /\ bitsInQueue \in Nat /\ bitsInQueue < rate /\ Len(absorbed) \in Nat
      /\ absorbed \in Seq(Int)
  BY SpongeAssumption, LenProperties DEF IsRate, Filling, Runs
<1>2. PICK q \in Nat, a \in Nat, r \in Nat \ {0} : q = bitsInQueue /\ a = Len(absorbed) /\ r = rate
  BY <1>1, Zenon
<1>3. given = a + q /\ q < r /\ r >= 2
  <2>1. Len(rest) = 0 /\ Len(lastByte) = 0
    BY EmptySeq
  <2>2. given = Len(absorbed) + bitsInQueue + Len(rest) + Len(lastByte)
    BY DEF Filling
  <2> QED BY <1>1, <1>2, <2>1, <2>2
<1>4. PICK k \in Nat : a = k * r
  BY <1>2 DEF Filling, Multiple
<1>5. PICK size : size = ((given + 2 + rate - 1) \div rate) * rate
  OBVIOUS
<1>6. PICK bits : bits = PaddedQueue
  OBVIOUS
<1>7. PICK n \in Nat :
        /\ bits \in Seq(Int) /\ Len(bits) = n /\ size = a + n
        /\ \A i \in 1 .. n : bits[i] = IF i <= q THEN a + i
                                       ELSE IF i \in {q + 1, n} THEN One ELSE Zero
  <2>1. CASE q + 1 < r
    <3>1. (given + 2 + rate - 1) = (k + 1) * r + (q + 1)
      BY <1>2, <1>3, <1>4
    <3>2. ((k + 1) * r + (q + 1)) \div r = k + 1
      <4>1. q + 1 \in 0 .. r - 1 /\ k + 1 \in Nat
        BY <2>1
      <4> QED BY <4>1, DivisionUnique
    <3>3. size = (k + 1) * r
      BY <1>2, <1>5, <3>1, <3>2
    <3>4. size = a + r
      BY <1>4, <3>3
    <3>5. /\ bits \in Seq(Int) /\ Len(bits) = r
          /\ \A i \in 1 .. r : bits[i] = PadBit(a, i)
      BY <1>1, <1>2, <1>6, <2>1, PaddedOnce
    <3> QED BY <1>2, <3>4, <3>5 DEF PadBit
  <2>2. CASE q + 1 = r
    <3>1. (given + 2 + rate - 1) = (k + 2) * r + 0
      BY <1>2, <1>3, <1>4, <2>2
    <3>2. ((k + 2) * r + 0) \div r = k + 2
      <4>1. 0 \in 0 .. r - 1 /\ k + 2 \in Nat
        OBVIOUS
      <4> QED BY <4>1, DivisionUnique
    <3>3. size = (k + 2) * r
      BY <1>2, <1>5, <3>1, <3>2
    <3>4. size = a + (r + r)
      BY <1>4, <3>3
    <3>5. /\ bits \in Seq(Int) /\ Len(bits) = r + r
          /\ \A i \in 1 .. r : bits[i] = PadBit(a, i)
          /\ \A i \in r + 1 .. r + r : bits[i] = IF i = r + r THEN One ELSE Zero
      BY <1>1, <1>2, <1>6, <2>2, PaddedTwice
    <3>6. ASSUME NEW i \in 1 .. r + r
          PROVE  bits[i] = IF i <= q THEN a + i ELSE IF i \in {q + 1, r + r} THEN One ELSE Zero
      <4>1. CASE i <= r
        <5>1. bits[i] = PadBit(a, i)
          BY <3>5, <4>1
        <5>2. i # r + r
          BY <4>1
        <5> QED BY <1>2, <2>2, <5>1, <5>2 DEF PadBit
      <4>2. CASE i > r
        <5>1. i \in r + 1 .. r + r
          BY <4>2
        <5>2. bits[i] = IF i = r + r THEN One ELSE Zero
          BY <3>5, <5>1
        <5>3. ~(i <= q) /\ i # q + 1
          BY <2>2, <4>2
        <5> QED BY <5>2, <5>3
      <4> QED BY <4>1, <4>2
    <3>7. r + r \in Nat
      OBVIOUS
    <3> QED BY <3>4, <3>5, <3>6, <3>7
  <2> QED BY <1>3, <2>1, <2>2
<1>8. PICK whole : whole = absorbed \o bits
  OBVIOUS
<1>9. whole \in Seq(Int) /\ Len(whole) = a + n
  <2>1. whole \in Seq(Int) /\ Len(whole) = Len(absorbed) + Len(bits)
    BY <1>1, <1>7, <1>8, ConcatProperties
  <2> QED BY <1>2, <1>7, <2>1
<1>10. \A i \in 1 .. a + n : whole[i] = IF i <= a THEN absorbed[i] ELSE bits[i - a]
  <2>1. \A i \in 1 .. Len(absorbed) + Len(bits) :
          whole[i] = IF i <= Len(absorbed) THEN absorbed[i] ELSE bits[i - Len(absorbed)]
    BY <1>1, <1>7, <1>8, ConcatProperties
  <2> QED BY <1>2, <1>7, <2>1
<1>11. ASSUME NEW i \in 1 .. a + n
       PROVE  whole[i] = IF i <= a + q THEN i ELSE IF i \in {a + q + 1, a + n} THEN One ELSE Zero
  <2>1. CASE i <= a
    <3>1. absorbed[i] = i
      BY <1>2, <2>1 DEF Filling, Runs
    <3> QED BY <1>10, <2>1, <3>1
  <2>2. CASE i > a
    <3>1. PICK j \in 1 .. n : j = i - a
      BY <2>2
    <3>2. whole[i] = bits[j]
      BY <1>10, <2>2, <3>1
    <3>3. bits[j] = IF j <= q THEN a + j ELSE IF j \in {q + 1, n} THEN One ELSE Zero
      BY <1>7
    <3>4. a + j = i /\ (j <= q <=> i <= a + q) /\ (j = q + 1 <=> i = a + q + 1)
          /\ (j = n <=> i = a + n)
      BY <3>1
    <3> QED BY <3>2, <3>3, <3>4
  <2> QED BY <2>1, <2>2
<1>12. Function!Padded(given) =
         [i \in 1 .. a + n |->
            IF i <= a + q THEN i ELSE IF i \in {a + q + 1, a + n} THEN One ELSE Zero]
  BY <1>3, <1>5, <1>7 DEF Function!Padded, Function!One, Function!Zero, One, Zero
<1>13. whole = [i \in 1 .. a + n |-> whole[i]]
  <2>1. DOMAIN whole = 1 .. a + n /\ whole = [i \in DOMAIN whole |-> whole[i]]
    BY <1>9
  <2> QED BY <2>1
<1> QED BY <1>6, <1>8, <1>11, <1>12, <1>13

-----------------------------------------------------------------------------
(* The steps that give bits.                                               *)

LEMMA RunsIota ==
  ASSUME NEW s, Runs(s, 0)
  PROVE  s = [i \in 1 .. Len(s) |-> i]
<1>1. PICK n \in Nat : n = Len(s)
  BY LenProperties DEF Runs
<1>2. PICK t : t = [i \in 1 .. n |-> i]
  OBVIOUS
<1>3. t \in Seq(Int) /\ Len(t) = n /\ \A i \in 1 .. n : t[i] = i
  BY <1>2
<1>4. Runs(t, 0)
  BY <1>3 DEF Runs
<1> QED BY <1>1, <1>2, <1>3, <1>4, RunsEqual

LEMMA SqueezeKeeps ==
  ASSUME SpongeInv, NEW n \in Nat, Squeeze(n)
  PROVE  SpongeInv' /\ FunctionStep
<1>1. /\ rest = <<>> /\ lastByte = <<>> /\ wanted = 0 /\ rate > 0 /\ PadAndSwitch
      /\ rest' = rest /\ lastByte' = lastByte /\ given' = given /\ squeezed' = squeezed
  BY DEF Squeeze, Idle
<1>2. wanted' \in Nat
  BY <1>1 DEF Squeeze
<1>3. CASE squeezing
  <2>1. UNCHANGED spongeVars
    BY <1>1, <1>3 DEF PadAndSwitch
  <2>2. Emptying
    BY <1>3 DEF SpongeInv
  <2>3. Emptying'
    BY <1>1, <2>1, <2>2 DEF Emptying, spongeVars, Extracted, Positions, Runs, Function!Padded
  <2>4. SpongeInv'
    BY <1>1, <1>2, <1>3, <2>1, <2>3 DEF SpongeInv, spongeVars, IsRate, Multiple, Positions
  <2>5. UNCHANGED Function!specVars
    BY <1>1, <2>1 DEF Function!specVars, spongeVars
  <2> QED BY <2>4, <2>5 DEF FunctionStep
<1>4. CASE ~squeezing
  <2>1. Filling /\ IsRate(rate) /\ rate \in Nat \ {0} /\ DOMAIN dataQueue = Positions
    BY <1>1, <1>4 DEF SpongeInv, IsRate
  <2>2. /\ absorbed' = absorbed \o PaddedQueue /\ dataQueue' = Extracted(0)
        /\ bitsInQueue' = 0 /\ bitsAvailable' = rate /\ squeezing' = TRUE
        /\ rate' = rate /\ fixedOutputLength' = fixedOutputLength /\ permuted' = permuted
    BY <1>1, <1>4 DEF PadAndSwitch
  <2>3. absorbed' = Function!Padded(given)
    BY <1>1, <2>1, <2>2, PaddedInput
  <2>4. squeezed' = <<>> /\ permuted' = 0 /\ Len(squeezed') = 0
    BY <1>1, <2>1, <2>2, EmptySeq DEF Filling
  <2>5. Emptying'
    <3>1. absorbed' = Function!Padded(given)'
      BY <1>1, <2>2, <2>3 DEF Function!Padded
    <3>2. dataQueue' = Extracted(permuted)'
      BY <2>2, <2>4 DEF Extracted, Positions
    <3>3. Runs(squeezed, 0)'
      BY <2>4, RunsEmpty DEF Runs
    <3>4. (Len(squeezed) = permuted * rate + (rate - bitsAvailable))'
      <4>1. PICK r \in Nat : r = rate
        BY <2>1
      <4>2. 0 = 0 * r + (r - r)
        OBVIOUS
      <4> QED BY <2>2, <2>4, <4>1, <4>2
    <3>5. permuted' \in Nat /\ (bitsAvailable \in 0 .. rate)' /\ (rate > 0)'
      BY <2>1, <2>2, <2>4
    <3> QED BY <1>1, <3>1, <3>2, <3>3, <3>4, <3>5 DEF Emptying
  <2>6. SpongeInv'
    <3>1. (DOMAIN dataQueue = Positions)'
      BY <2>2 DEF Extracted, Positions
    <3> QED BY <1>1, <1>2, <2>1, <2>2, <2>5, <3>1 DEF SpongeInv, IsRate, Multiple
  <2>7. Function!Squeeze
    <3>1. squeezed' = [i \in 1 .. Len(squeezed') |-> i]
      BY <2>4, RunsEmpty, RunsIota
    <3>2. Len(squeezed') >= Len(squeezed)
      BY <1>1, <2>4
    <3> QED BY <1>1, <1>4, <2>2, <2>3, <3>1, <3>2 DEF Function!Squeeze
  <2> QED BY <2>6, <2>7 DEF FunctionStep
<1> QED BY <1>3, <1>4

LEMMA SqueezeRoundKeeps ==
  ASSUME SpongeInv, SqueezeRound
  PROVE  SpongeInv' /\ FunctionStep
<1>1. /\ wanted > 0 /\ given' = given /\ absorbed' = absorbed /\ rest' = rest
      /\ lastByte' = lastByte /\ rate' = rate /\ fixedOutputLength' = fixedOutputLength
      /\ squeezing' = squeezing
  BY DEF SqueezeRound
<1>2. squeezing /\ Emptying
  BY <1>1 DEF SpongeInv, Filling
<1>3. rate \in Nat \ {0} /\ wanted \in Nat /\ permuted \in Nat /\ bitsAvailable \in 0 .. rate
  BY <1>1, <1>2 DEF SpongeInv, IsRate, Emptying
<1>4. PICK r \in Nat \ {0}, w \in Nat, b \in Nat, m \in Nat :
        r = rate /\ w = wanted /\ b = bitsAvailable /\ m = permuted
  <2>1. bitsAvailable \in Nat
    BY <1>3
  <2> QED BY <1>3, <2>1, Zenon
<1>5. PICK n \in Nat, left \in 0 .. r :
        n = (IF b = 0 THEN m + 1 ELSE m) /\ left = (IF b = 0 THEN r ELSE b)
  BY <1>3, <1>4
<1>6. PICK size \in Nat : size = IF left > w THEN w ELSE left
  OBVIOUS
<1>7. PICK queue : queue = IF b = 0 THEN Extracted(n) ELSE dataQueue
  OBVIOUS
<1>8. /\ permuted' = n /\ dataQueue' = queue
      /\ squeezed' = squeezed \o [i \in 1 .. size |-> queue[rate - left + i - 1]]
      /\ bitsAvailable' = left - size /\ wanted' = wanted - size
  BY <1>4, <1>5, <1>6, <1>7 DEF SqueezeRound, BitsLeft
<1>9. queue = Extracted(n)
  BY <1>2, <1>4, <1>5, <1>7 DEF Emptying
<1>10. size <= w /\ size <= left /\ left <= r
  BY <1>5, <1>6
<1>11. PICK before \in Nat : before = n * r + (r - left) /\ Len(squeezed) = before
  <2>1. Len(squeezed) = m * r + (r - b) /\ Len(squeezed) \in Nat
    BY <1>2, <1>4, LenProperties DEF Emptying, Runs
  <2>2. CASE b = 0
    <3>1. n = m + 1 /\ left = r
      BY <1>5, <2>2
    <3>2. m * r + (r - b) = n * r + (r - left)
      BY <2>2, <3>1
    <3> QED BY <2>1, <3>2
  <2>3. CASE b # 0
    <3>1. n = m /\ left = b
      BY <1>5, <2>3
    <3> QED BY <2>1, <3>1
  <2> QED BY <2>2, <2>3
<1>12. PICK bits : bits = [i \in 1 .. size |-> queue[r - left + i - 1]]
  OBVIOUS
<1>13. ASSUME NEW i \in 1 .. size PROVE queue[r - left + i - 1] = before + i
  <2>1. PICK p \in Positions : p = r - left + i - 1 /\ p \in Nat
    BY <1>4, <1>10 DEF Positions
  <2>2. queue[p] = n * rate + p + 1
    BY <1>9 DEF Extracted
  <2>3. PICK nr \in Int : nr = n * r
    OBVIOUS
  <2>4. nr + p + 1 = before + i
    BY <1>11, <2>1, <2>3
  <2> QED BY <1>4, <2>1, <2>2, <2>3, <2>4
<1>14. Runs(bits, before) /\ Len(bits) = size
  <2>1. \A i \in 1 .. size : queue[r - left + i - 1] \in Int
    BY <1>13
  <2>2. bits \in Seq(Int) /\ Len(bits) = size
    BY <1>12, <2>1
  <2>3. \A i \in 1 .. size : bits[i] = before + i
    BY <1>12, <1>13
  <2> QED BY <2>2, <2>3 DEF Runs
<1>15. Runs(squeezed', 0) /\ Len(squeezed') = before + size
  <2>1. Runs(squeezed, 0)
    BY <1>2 DEF Emptying
  <2>2. Runs(bits, 0 + Len(squeezed))
    BY <1>11, <1>14
  <2>3. Runs(squeezed \o bits, 0) /\ Len(squeezed \o bits) = Len(squeezed) + Len(bits)
    BY <2>1, <2>2, RunsConcat
  <2>4. squeezed' = squeezed \o bits
    BY <1>4, <1>8, <1>12
  <2> QED BY <1>11, <1>14, <2>3, <2>4
<1>16. Emptying'
  <2>1. Len(squeezed') = n * r + (r - (left - size))
    <3>1. PICK nr \in Int : nr = n * r
      OBVIOUS
    <3>2. before + size = nr + (r - (left - size))
      BY <1>11, <3>1
    <3> QED BY <1>15, <3>1, <3>2
  <2>2. (Len(squeezed) = permuted * rate + (rate - bitsAvailable))'
    BY <1>1, <1>4, <1>8, <2>1
  <2>3. (bitsAvailable \in 0 .. rate)'
    BY <1>1, <1>4, <1>8, <1>10
  <2>4. dataQueue' = Extracted(permuted)'
    BY <1>1, <1>8, <1>9 DEF Extracted, Positions
  <2>5. absorbed' = Function!Padded(given)'
    BY <1>1, <1>2 DEF Emptying, Function!Padded
  <2>6. Runs(squeezed, 0)'
    BY <1>15 DEF Runs
  <2> QED BY <1>1, <1>2, <1>8, <2>2, <2>3, <2>4, <2>5, <2>6 DEF Emptying
<1>17. SpongeInv'
  <2>1. (DOMAIN dataQueue = Positions)'
    BY <1>1, <1>8, <1>9 DEF Extracted, Positions
  <2>2. wanted' \in Nat
    BY <1>4, <1>8, <1>10
  <2> QED BY <1>1, <1>2, <1>16, <2>1, <2>2 DEF SpongeInv, IsRate, Multiple
<1>18. Function!Squeeze
  <2>1. squeezed' = [i \in 1 .. Len(squeezed') |-> i]
    BY <1>15, RunsIota
  <2>2. Len(squeezed') >= Len(squeezed)
    BY <1>11, <1>15
  <2>3. absorbed = Function!Padded(given)
    BY <1>2 DEF Emptying
  <2> QED BY <1>1, <1>2, <2>1, <2>2, <2>3 DEF Function!Squeeze
<1> QED BY <1>17, <1>18 DEF FunctionStep

-----------------------------------------------------------------------------
(* The theorems.                                                           *)

LEMMA SpongeStutters ==
  ASSUME SpongeInv, UNCHANGED <<spongeVars, rest, lastByte, wanted, given, squeezed>>
  PROVE  SpongeInv' /\ FunctionStep
<1>1. SpongeInv'
  BY DEF spongeVars, SpongeInv, Filling, Emptying, IsRate, Multiple, Runs, Positions, UpToByte,
         Extracted, Holds, Function!Padded
<1>2. UNCHANGED Function!specVars
  BY DEF spongeVars, Function!specVars
<1> QED BY <1>1, <1>2 DEF FunctionStep

LEMMA SpongeKeeps ==
  ASSUME SpongeInv, [Next]_vars
  PROVE  SpongeInv' /\ FunctionStep
<1>1. ASSUME NEW len \in DOMAIN Rates, InitHash(len) PROVE SpongeInv' /\ FunctionStep
  BY <1>1, InitHashKeeps
<1>2. CASE BadHashLen
  BY <1>2, SpongeStutters DEF BadHashLen
<1>3. ASSUME NEW n \in 0 .. MaxUpdate, Update(n) PROVE SpongeInv' /\ FunctionStep
  BY <1>3, UpdateKeeps
<1>4. CASE UpdateLastByte
  BY <1>4, UpdateLastByteKeeps
<1>5. CASE WholeBlocks
  BY <1>5, WholeBlocksKeeps
<1>6. CASE PartOfBlock
  BY <1>6, PartOfBlockKeeps
<1>7. ASSUME NEW n \in 0 .. MaxOut, Squeeze(n) PROVE SpongeInv' /\ FunctionStep
  <2>1. n \in Nat
    BY SpongeAssumption
  <2> QED BY <1>7, <2>1, SqueezeKeeps
<1>8. CASE Final
  <2>1. fixedOutputLength \in Nat
    BY DEF SpongeInv
  <2> QED BY <1>8, <2>1, SqueezeKeeps DEF Final
<1>9. CASE SqueezeRound
  BY <1>9, SqueezeRoundKeeps
<1>10. CASE UNCHANGED vars
  BY <1>10, SpongeStutters DEF vars
<1> QED BY <1>1, <1>2, <1>3, <1>4, <1>5, <1>6, <1>7, <1>8, <1>9, <1>10 DEF Next

LEMMA SpongeInvariant == Spec => []SpongeInv
<1>1. SpongeInv /\ [Next]_vars => SpongeInv'
  BY SpongeKeeps
<1> QED BY SpongeInit, <1>1, PTL DEF Spec

\* While data is taken, all the parts in their order are the message.
LEMMA PartsAreMessage ==
  ASSUME SpongeInv
  PROVE  NothingLost
<1> SUFFICES ASSUME ~squeezing
             PROVE  absorbed \o [i \in 1 .. bitsInQueue |-> dataQueue[i - 1]] \o rest \o lastByte
                      = Numbered(1, given)
  BY DEF NothingLost
<1>1. Filling /\ given \in Nat
  BY DEF SpongeInv
<1>2. PICK queue : queue = [i \in 1 .. bitsInQueue |-> dataQueue[i - 1]]
  OBVIOUS
<1>3. /\ Runs(absorbed, 0) /\ Len(absorbed) \in Nat
      /\ Runs(rest, Len(absorbed) + bitsInQueue) /\ Len(rest) \in Nat
      /\ Runs(lastByte, Len(absorbed) + bitsInQueue + Len(rest)) /\ Len(lastByte) \in Nat
      /\ bitsInQueue \in Nat
      /\ given = Len(absorbed) + bitsInQueue + Len(rest) + Len(lastByte)
  BY <1>1, LenProperties DEF Filling, Runs
<1>4. PICK a \in Nat, q \in Nat : a = Len(absorbed) /\ q = bitsInQueue
  BY <1>3
<1>5. Runs(queue, a) /\ Len(queue) = q
  <2>1. Holds(dataQueue, q, a)
    BY <1>1, <1>4 DEF Filling
  <2>2. queue = FirstBits(dataQueue, q)
    BY <1>2, <1>4 DEF FirstBits
  <2> QED BY <2>1, <2>2, RunsQueue
<1>6. Runs(absorbed \o queue, 0) /\ Len(absorbed \o queue) = a + q
  <2>1. Runs(queue, 0 + Len(absorbed))
    BY <1>4, <1>5
  <2>2. /\ Runs(absorbed \o queue, 0)
        /\ Len(absorbed \o queue) = Len(absorbed) + Len(queue)
    BY <1>3, <2>1, RunsConcat
  <2> QED BY <1>4, <1>5, <2>2
<1>7. PICK taken : taken = absorbed \o queue
  OBVIOUS
<1>8. Runs(taken \o rest, 0) /\ Len(taken \o rest) = a + q + Len(rest)
  <2>1. Runs(rest, 0 + Len(taken)) /\ Runs(taken, 0) /\ Len(taken) = a + q
    BY <1>3, <1>4, <1>6, <1>7
  <2>2. /\ Runs(taken \o rest, 0)
        /\ Len(taken \o rest) = Len(taken) + Len(rest)
    BY <2>1, RunsConcat
  <2> QED BY <2>1, <2>2
<1>9. PICK more : more = taken \o rest
  OBVIOUS
<1>10. Runs(more \o lastByte, 0) /\ Len(more \o lastByte) = given
  <2>1. Runs(lastByte, 0 + Len(more)) /\ Runs(more, 0) /\ Len(more) = a + q + Len(rest)
    BY <1>3, <1>4, <1>8, <1>9
  <2>2. /\ Runs(more \o lastByte, 0)
        /\ Len(more \o lastByte) = Len(more) + Len(lastByte)
    BY <2>1, RunsConcat
  <2> QED BY <1>3, <1>4, <2>1, <2>2
<1>11. Runs(Numbered(1, given), 0) /\ Len(Numbered(1, given)) = given
  <2>1. PICK one \in Int : one = 1
    OBVIOUS
  <2>2. given \in Int /\ one <= given + 1 /\ one - 1 = 0 /\ given - one + 1 = given
    BY <1>1, <2>1
  <2>3. Runs(Numbered(one, given), one - 1) /\ Len(Numbered(one, given)) = given - one + 1
    BY <2>2, RunsNumbered
  <2> QED BY <2>1, <2>2, <2>3
<1>12. more \o lastByte = Numbered(1, given)
  BY <1>10, <1>11, RunsEqual
<1> QED BY <1>2, <1>7, <1>9, <1>12

\* Absorb and Update lose, repeat or move no bit: for every rate of whole bytes and every
\* cut of a message into updates, the blocks absorbed, the queue, what the running call has
\* still to take and the partial byte kept for later are the message, in its order.
THEOREM NothingIsLost == Spec => []NothingLost
<1>1. SpongeInv => NothingLost
  BY PartsAreMessage
<1> QED BY SpongeInvariant, <1>1, PTL

\* The sponge with its queue and its rounds is the function of SpongeFunction: the first
\* squeeze pads the whole message once, with both ones in their places, also when the queue
\* has room for one only, and each squeeze gives the next bits of the stream.
THEOREM SpongeIsFunction == Spec => SpongeSpec
<1>1. Init => /\ rate = 0 /\ given = 0 /\ squeezed = <<>>
              /\ (IF squeezing THEN absorbed ELSE <<>>) = <<>>
  BY DEF Init
<1>2. SpongeInv /\ [Next]_vars => FunctionStep
  BY SpongeKeeps
<1>3. FunctionStep => [Function!Begin \/ Function!Give \/ Function!Squeeze]_(Function!specVars)
  BY DEF FunctionStep
<1> QED BY SpongeInvariant, <1>1, <1>2, <1>3, PTL DEF Spec, SpongeSpec, Function!Spec

\* What callers of the helpers in src/hash do is a use of the sponge.
LEMMA HashUsesSponge == HashSpec => Spec
<1>1. HashInit => Init
  BY DEF HashInit
<1>2. [HashNext]_hashVars => [Next]_vars
  <2>1. CASE Hashing
    BY <2>1 DEF Hashing
  <2>2. CASE WriteHex
    BY <2>2 DEF WriteHex
  <2>3. CASE Edit
    BY <2>3 DEF Edit
  <2>4. CASE ReadHex
    BY <2>4 DEF ReadHex
  <2>5. CASE UNCHANGED hashVars
    BY <2>5 DEF hashVars
  <2> QED BY <2>1, <2>2, <2>3, <2>4, <2>5 DEF HashNext
<1> QED BY <1>1, <1>2, PTL DEF HashSpec, Spec

\* Both hold of the sponge as src/hash uses it, too.
THEOREM HashIsSponge == HashSpec => []NothingLost /\ SpongeSpec
BY HashUsesSponge, NothingIsLost, SpongeIsFunction, PTL


-----------------------------------------------------------------------------
(* The digest as text.                                                     *)

LEMMA HashSizes == Bytes \in Nat /\ Base \in Nat
<1>1. Byte \in Nat \ {0} /\ HashBits \in Nat /\ Base \in Nat
  BY SpongeAssumption, HashAssumption
<1>2. HashBits \div Byte \in Nat
  BY <1>1, WholePart
<1> QED BY <1>1, <1>2 DEF Bytes

DigitInv == digit \in [HalvesOfHash -> Digits]

\* The numbers of the half bytes stay as long as the hash does.
LEMMA DigitStays ==
  ASSUME DigitInv, [HashNext]_hashVars
  PROVE  DigitInv'
<1>1. CASE Hashing
  <2>1. CASE DOMAIN digit = HalvesOfHash'
    <3>1. digit' = digit /\ DOMAIN digit = HalvesOfHash
      BY <1>1, <2>1 DEF Hashing, DigitInv
    <3> QED BY <2>1, <3>1 DEF DigitInv
  <2>2. CASE DOMAIN digit # HalvesOfHash'
    <3>1. digit' \in [HalvesOfHash' -> Digits]
      BY <1>1, <2>2 DEF Hashing
    <3>2. Digits' = Digits
      BY DEF Digits, Base
    <3> QED BY <3>1, <3>2 DEF DigitInv
  <2> QED BY <2>1, <2>2
<1>2. CASE WriteHex \/ Edit \/ ReadHex \/ UNCHANGED hashVars
  <2>1. UNCHANGED <<vars, digit>>
    BY <1>2 DEF WriteHex, Edit, ReadHex, hashVars
  <2>2. HalvesOfHash' = HalvesOfHash
    BY <2>1 DEF HalvesOfHash, HasHash, HalfBitsAt, vars, spongeVars
  <2> QED BY <2>1, <2>2 DEF DigitInv
<1> QED BY <1>1, <1>2 DEF HashNext

\* The bytes of the digest and the characters of its text.
LEMMA HexIs ==
  ASSUME DigitInv, HasDigest
  PROVE  /\ Len(Digest) = Bytes /\ DOMAIN Digest = 1 .. Bytes /\ Digest \in Seq(Digits \X Digits)
         /\ Len(HexOf(Digest)) = 2 * Bytes
         /\ \A k \in 1 .. Bytes :
              \E high \in Digits, low \in Digits :
                /\ Digest[k] = <<high, low>>
                /\ HexOf(Digest)[2 * k - 1] = high /\ HexOf(Digest)[2 * k] = low
<1>1. Bytes \in Nat
  BY HashSizes
<1>2. ASSUME NEW n \in 0 .. 2 * Bytes - 1 PROVE Half(n) \in Digits
  <2>1. HalfBitsAt(n) \in HalvesOfHash
    BY DEF HalvesOfHash, HasDigest
  <2> QED BY <2>1 DEF DigitInv, Half
<1>3. ASSUME NEW k \in 1 .. Bytes PROVE Half(2 * k - 1) \in Digits /\ Half(2 * k - 2) \in Digits
  <2>1. 2 * k - 1 \in 0 .. 2 * Bytes - 1 /\ 2 * k - 2 \in 0 .. 2 * Bytes - 1
    BY <1>1
  <2> QED BY <1>2, <2>1
<1>4. /\ Len(Digest) = Bytes /\ DOMAIN Digest = 1 .. Bytes
      /\ \A k \in 1 .. Bytes : Digest[k] = <<Half(2 * k - 1), Half(2 * k - 2)>>
  BY <1>1 DEF Digest
<1>5. Digest \in Seq(Digits \X Digits)
  BY <1>1, <1>3 DEF Digest
<1>6. HexOf(Digest) = [i \in 1 .. 2 * Bytes |-> Digest[(i + 1) \div 2][2 - (i % 2)]]
  BY <1>4 DEF HexOf
<1>7. Len(HexOf(Digest)) = 2 * Bytes
  BY <1>1, <1>6
<1>8. ASSUME NEW k \in 1 .. Bytes
      PROVE  /\ HexOf(Digest)[2 * k - 1] = Digest[k][1]
             /\ HexOf(Digest)[2 * k] = Digest[k][2]
  <2>1. /\ ((2 * k - 1) + 1) \div 2 = k /\ (2 * k - 1) % 2 = 1 /\ 2 * k - 1 \in 1 .. 2 * Bytes
        /\ (2 * k + 1) \div 2 = k /\ (2 * k) % 2 = 0 /\ 2 * k \in 1 .. 2 * Bytes
    BY <1>1
  <2>2. HexOf(Digest)[2 * k - 1] = Digest[k][1]
    BY <1>6, <2>1
  <2>3. HexOf(Digest)[2 * k] = Digest[k][2]
    BY <1>6, <2>1
  <2> QED BY <2>2, <2>3
<1>9. ASSUME NEW k \in 1 .. Bytes
      PROVE  \E high \in Digits, low \in Digits :
                /\ Digest[k] = <<high, low>>
                /\ HexOf(Digest)[2 * k - 1] = high /\ HexOf(Digest)[2 * k] = low
  <2>1. Digest[k] = <<Half(2 * k - 1), Half(2 * k - 2)>>
    BY <1>4
  <2>2. Digest[k][1] = Half(2 * k - 1) /\ Digest[k][2] = Half(2 * k - 2)
    BY <2>1
  <2> QED BY <1>3, <1>8, <2>1, <2>2
<1> QED BY <1>4, <1>5, <1>7, <1>9

\* What is read where no space stands.
LEMMA ScannedHere ==
  ASSUME Len(text) \in Nat, NEW i \in Nat, i <= Len(text), CharAt(i) # Space
  PROVE  /\ IsDigit(CharAt(i)) /\ IsDigit(CharAt(i + 1)) => Scanned(i) = <<CharAt(i), CharAt(i + 1)>>
         /\ IsDigit(CharAt(i)) /\ ~IsDigit(CharAt(i + 1)) => Scanned(i) = <<0, CharAt(i)>>
         /\ CharAt(i) = Plus /\ IsDigit(CharAt(i + 1)) => Scanned(i) = <<0, CharAt(i + 1)>>
         /\ CharAt(i) = Minus /\ IsDigit(CharAt(i + 1)) => Scanned(i) = Negated(CharAt(i + 1))
         /\ ~IsDigit(CharAt(i)) /\ ~(CharAt(i) \in {Plus, Minus} /\ IsDigit(CharAt(i + 1)))
              => Scanned(i) = <<>>
<1>1. PICK S : S = {j \in i .. Len(text) + 1 : CharAt(j) # Space}
  OBVIOUS
<1>2. i \in S /\ \A j \in S : i <= j /\ j \in Nat
  BY <1>1
<1>3. Min(S) = i
  <2>1. \A x \in S : (\A y \in S : x <= y) => x = i
    BY <1>2
  <2> QED BY <1>2, <2>1 DEF Min
<1>4. PICK x, y : x = CharAt(i) /\ y = CharAt(i + 1)
  OBVIOUS
<1>5. Scanned(i) = CASE IsDigit(x) /\ IsDigit(y)  -> <<x, y>>
                     [] IsDigit(x) /\ ~IsDigit(y) -> <<0, x>>
                     [] x = Plus /\ IsDigit(y)    -> <<0, y>>
                     [] x = Minus /\ IsDigit(y)   -> Negated(y)
                     [] OTHER -> <<>>
  BY <1>1, <1>3, <1>4 DEF Scanned
<1>6. ~IsDigit(Plus) /\ ~IsDigit(Minus) /\ Plus # Minus
  BY DEF IsDigit, Plus, Minus
<1>7. CASE IsDigit(x) /\ IsDigit(y)
  BY <1>4, <1>5, <1>6, <1>7
<1>8. CASE IsDigit(x) /\ ~IsDigit(y)
  BY <1>4, <1>5, <1>6, <1>8
<1>9. CASE x = Plus /\ IsDigit(y)
  BY <1>4, <1>5, <1>6, <1>9
<1>10. CASE x = Minus /\ IsDigit(y)
  BY <1>4, <1>5, <1>6, <1>10
<1>11. CASE ~IsDigit(x) /\ ~(x \in {Plus, Minus} /\ IsDigit(y))
  BY <1>4, <1>5, <1>6, <1>11
<1> QED BY <1>4, <1>7, <1>8, <1>9, <1>10, <1>11

LEMMA DigitsAre ==
  ASSUME NEW d \in Digits
  PROVE  d \in Int /\ IsDigit(d) /\ d \notin {Space, Plus, Minus, Other}
BY HashSizes DEF Digits, IsDigit, Space, Plus, Minus, Other

-----------------------------------------------------------------------------
(* Reading. *)

LEMMA OwnTextIsRead ==
  ASSUME DigitInv, ReadHex, HasDigest, text = HexOf(Digest)
  PROVE  status' = "OKAY" /\ c' = Digest
<1>1. /\ Bytes \in Nat /\ Len(text) = 2 * Bytes /\ DOMAIN Digest = 1 .. Bytes
      /\ \A k \in 1 .. Bytes :
           \E high \in Digits, low \in Digits :
             Digest[k] = <<high, low>> /\ text[2 * k - 1] = high /\ text[2 * k] = low
  BY HashSizes, HexIs
<1>2. ~TooShort
  BY <1>1 DEF TooShort
<1>3. ASSUME NEW k \in 1 .. Bytes PROVE Scanned(2 * k - 1) = Digest[k] /\ Digest[k] # <<>>
  <2>1. PICK i \in Nat : i = 2 * k - 1 /\ i + 1 = 2 * k /\ i + 1 <= Len(text) /\ i <= Len(text)
    BY <1>1
  <2>2. PICK high \in Digits, low \in Digits :
          Digest[k] = <<high, low>> /\ text[2 * k - 1] = high /\ text[2 * k] = low
    BY <1>1
  <2>3. CharAt(i) = high /\ CharAt(i + 1) = low
    BY <2>1, <2>2 DEF CharAt
  <2>4. IsDigit(high) /\ IsDigit(low) /\ high # Space /\ Len(text) \in Nat
    BY <1>1, DigitsAre
  <2>5. Scanned(i) = <<high, low>>
    BY <2>1, <2>3, <2>4, ScannedHere
  <2>6. Len(<<high, low>>) = 2 /\ Len(<<>>) = 0
    OBVIOUS
  <2> QED BY <2>1, <2>2, <2>5, <2>6
<1>4. status' = "OKAY" /\ c' = [k \in 1 .. Bytes |-> Scanned(2 * k - 1)]
  BY <1>2, <1>3 DEF ReadHex
<1>5. Digest = [k \in 1 .. Bytes |-> Digest[k]]
  BY <1>1 DEF Digest
<1> QED BY <1>3, <1>4, <1>5

\* What stands at the first change of a text that reads as the digest.
LEMMA ChangeIsOverlooked ==
  ASSUME DigitInv, ReadHex, HasDigest, Len(text) \in Nat, status' = "OKAY", c' = Digest,
         NEW i \in 1 .. 2 * Bytes, FirstChange(i)
  PROVE  Overlooked(i)
<1>1. Bytes \in Nat
  BY HashSizes
<1>2. 2 * Bytes <= Len(text) /\ c' = [k \in 1 .. Bytes |-> Scanned(2 * k - 1)]
  BY <1>1 DEF ReadHex, TooShort
<1>3. PICK k \in 1 .. Bytes : i = 2 * k - 1 \/ i = 2 * k
  <2>1. PICK k : k = (i + 1) \div 2
    OBVIOUS
  <2>2. k \in 1 .. Bytes /\ (i = 2 * k - 1 \/ i = 2 * k)
    BY <1>1, <2>1
  <2> QED BY <2>2
<1>4. PICK high \in Digits, low \in Digits :
        /\ Digest[k] = <<high, low>>
        /\ HexOf(Digest)[2 * k - 1] = high /\ HexOf(Digest)[2 * k] = low
  BY HexIs
<1>5. Digest[k][1] = high /\ Digest[k][2] = low
  BY <1>4
<1>6. PICK at \in Nat : at = 2 * k - 1 /\ at + 1 = 2 * k /\ at <= Len(text)
  BY <1>1, <1>2
<1>7. Scanned(at) = <<high, low>>
  BY <1>2, <1>4, <1>6
<1>8. /\ high \in Int /\ low \in Int /\ IsDigit(high) /\ IsDigit(low)
      /\ high # Space
  BY DigitsAre
<1>9. PICK x, y : x = CharAt(at) /\ y = CharAt(at + 1)
  OBVIOUS
<1>10. CASE i = 2 * k
  <2>1. x = high /\ y # low /\ y = CharAt(i)
    <3>1. 2 * k - 1 \in 1 .. i - 1
      BY <1>1, <1>10
    <3>2. CharAt(2 * k - 1) = high
      BY <1>4, <3>1 DEF FirstChange
    <3> QED BY <1>4, <1>6, <1>9, <1>10, <3>2 DEF FirstChange
  <2>2. CASE IsDigit(y)
    <3>1. Scanned(at) = <<x, y>>
      BY <1>6, <1>8, <1>9, <2>1, <2>2, ScannedHere
    <3> QED BY <1>7, <2>1, <3>1
  <2>3. CASE ~IsDigit(y)
    <3>1. Scanned(at) = <<0, x>>
      BY <1>6, <1>8, <1>9, <2>1, <2>3, ScannedHere
    <3>2. high = 0 /\ low = 0
      BY <1>7, <2>1, <3>1
    <3> QED BY <1>5, <1>10, <2>1, <2>3, <3>2 DEF Overlooked
  <2> QED BY <2>2, <2>3
<1>11. CASE i = 2 * k - 1
  <2>1. i = at /\ CharAt(i) = x /\ CharAt(i + 1) = y /\ x # high
    BY <1>4, <1>6, <1>9, <1>11 DEF FirstChange
  <2> SUFFICES \/ x = Space
               \/ x = Plus /\ high = 0 /\ y = low
               \/ x = Minus /\ IsDigit(y) /\ <<high, low>> = Negated(y)
               \/ x = low /\ high = 0 /\ ~IsDigit(y)
    BY <1>5, <1>11, <2>1 DEF Overlooked
  <2>2. SUFFICES ASSUME x # Space
                 PROVE  \/ x = Plus /\ high = 0 /\ y = low
                        \/ x = Minus /\ IsDigit(y) /\ <<high, low>> = Negated(y)
                        \/ x = low /\ high = 0 /\ ~IsDigit(y)
    OBVIOUS
  <2>3. CharAt(at) # Space
    BY <1>9, <2>2
  <2>4. CASE IsDigit(x) /\ IsDigit(y)
    <3>1. Scanned(at) = <<x, y>>
      BY <1>6, <1>9, <2>3, <2>4, ScannedHere
    <3> QED BY <1>7, <2>1, <3>1
  <2>5. CASE IsDigit(x) /\ ~IsDigit(y)
    <3>1. Scanned(at) = <<0, x>>
      BY <1>6, <1>9, <2>3, <2>5, ScannedHere
    <3> QED BY <1>7, <2>5, <3>1
  <2>6. CASE x = Plus /\ IsDigit(y)
    <3>1. Scanned(at) = <<0, y>>
      BY <1>6, <1>9, <2>3, <2>6, ScannedHere
    <3> QED BY <1>7, <2>6, <3>1
  <2>7. CASE x = Minus /\ IsDigit(y)
    <3>1. Scanned(at) = Negated(y)
      BY <1>6, <1>9, <2>3, <2>7, ScannedHere
    <3> QED BY <1>7, <2>7, <3>1
  <2>8. CASE ~IsDigit(x) /\ ~(x \in {Plus, Minus} /\ IsDigit(y))
    <3>1. Scanned(at) = <<>>
      BY <1>6, <1>9, <2>3, <2>8, ScannedHere
    <3>2. Len(<<high, low>>) = 2 /\ Len(<<>>) = 0
      OBVIOUS
    <3> QED BY <1>7, <3>1, <3>2
  <2> QED BY <2>4, <2>5, <2>6, <2>7, <2>8
<1> QED BY <1>3, <1>10, <1>11

-----------------------------------------------------------------------------
(* A text stays a sequence of characters, however it is edited.            *)

TextInv == text \in Seq(Int)

LEMMA CutIs ==
  ASSUME NEW S, NEW s \in Seq(S), NEW m \in Nat, NEW n \in Nat, n <= Len(s)
  PROVE  SubSeq(s, m + 1, n) \in Seq(S)
<1>1. \A i \in m + 1 .. n : s[i] \in S
  BY ElementOfSeq, LenProperties
<1> QED BY <1>1, SubSeqProperties

LEMMA WrittenIsText ==
  ASSUME DigitInv, HasDigest, NEW n \in 0 .. Bytes
  PROVE  HexOf(SubSeq(Digest, 1, n)) \in Seq(Int) /\ HexOf(Digest) \in Seq(Int)
<1>1. Bytes \in Nat /\ n \in Nat
  BY HashSizes
<1>2. PICK P : P = Digits \X Digits
  OBVIOUS
<1>3. Digest \in Seq(P) /\ Len(Digest) = Bytes
  BY <1>2, HexIs
<1>4. ASSUME NEW b \in Seq(P) PROVE HexOf(b) \in Seq(Int)
  <2>1. Len(b) \in Nat
    BY LenProperties
  <2>2. ASSUME NEW i \in 1 .. 2 * Len(b) PROVE b[(i + 1) \div 2][2 - (i % 2)] \in Int
    <3>1. (i + 1) \div 2 \in 1 .. Len(b) /\ 2 - (i % 2) \in {1, 2}
      BY <2>1
    <3>2. b[(i + 1) \div 2] \in P
      BY <3>1, ElementOfSeq
    <3>3. b[(i + 1) \div 2][2 - (i % 2)] \in Digits
      BY <1>2, <3>1, <3>2
    <3> QED BY <3>3, DigitsAre
  <2>3. HexOf(b) \in [1 .. 2 * Len(b) -> Int]
    BY <2>2 DEF HexOf
  <2> QED BY <2>1, <2>3
<1>5. SubSeq(Digest, 1, n) \in Seq(P)
  <2>1. SubSeq(Digest, 0 + 1, n) \in Seq(P)
    BY <1>1, <1>3, CutIs
  <2> QED BY <2>1
<1> QED BY <1>3, <1>4, <1>5

LEMMA TextStays ==
  ASSUME DigitInv, TextInv, [HashNext]_hashVars
  PROVE  TextInv'
<1> USE DEF TextInv
<1>1. CASE WriteHex
  <2>1. HasDigest /\ Bytes \in Nat
    BY <1>1, HashSizes DEF WriteHex
  <2>2. \/ text' = HexOf(Digest)
        \/ \E n \in 0 .. Bytes - 1 : text' = HexOf(SubSeq(Digest, 1, n))
    BY <1>1 DEF WriteHex
  <2>3. \A n \in 0 .. Bytes - 1 : n \in 0 .. Bytes
    BY <2>1
  <2>4. 0 \in 0 .. Bytes
    BY <2>1
  <2> QED BY <2>1, <2>2, <2>3, <2>4, WrittenIsText
<1>2. CASE Edit
  <2>1. Len(text) \in Nat /\ DOMAIN text = 1 .. Len(text)
    BY LenProperties
  <2>2. Chars \subseteq Int
    BY DigitsAre DEF Chars, Space, Plus, Minus, Other
  <2>3. ASSUME NEW i \in 1 .. Len(text) - 1, NEW x \in Chars, NEW y \in Chars,
               text' = [text EXCEPT ![i] = x, ![i + 1] = y]
        PROVE  TextInv'
    <3>1. PICK t : t = [text EXCEPT ![i] = x]
      OBVIOUS
    <3>2. t \in Seq(Int) /\ Len(t) = Len(text)
      BY <2>1, <2>2, <3>1, ExceptSeq
    <3>3. i + 1 \in 1 .. Len(t)
      BY <2>1, <3>2
    <3>4. [t EXCEPT ![i + 1] = y] \in Seq(Int)
      BY <2>2, <3>2, <3>3, ExceptSeq
    <3> QED BY <2>3, <3>1, <3>4
  <2>4. ASSUME NEW i \in 1 .. Len(text)
        PROVE  SubSeq(text, 1, i - 1) \in Seq(Int) /\ SubSeq(text, i, Len(text)) \in Seq(Int)
    <3>1. PICK l \in Nat : l = i - 1 /\ l <= Len(text)
      BY <2>1
    <3>2. SubSeq(text, 0 + 1, l) \in Seq(Int) /\ SubSeq(text, l + 1, Len(text)) \in Seq(Int)
      BY <2>1, <3>1, CutIs
    <3> QED BY <2>1, <3>1, <3>2
  <2>5. ASSUME NEW i \in 1 .. Len(text), NEW x \in Chars, text' = InsertAt(text, i, x)
        PROVE  TextInv'
    <3>1. <<x>> \in Seq(Int)
      BY <2>2
    <3>2. SubSeq(text, 1, i - 1) \o <<x>> \in Seq(Int)
      BY <2>4, <3>1, ConcatProperties
    <3>3. (SubSeq(text, 1, i - 1) \o <<x>>) \o SubSeq(text, i, Len(text)) \in Seq(Int)
      BY <2>4, <3>2, ConcatProperties
    <3> QED BY <2>5, <3>3 DEF InsertAt
  <2>6. ASSUME NEW i \in 1 .. Len(text), text' = RemoveAt(text, i)
        PROVE  TextInv'
    <3>1. SubSeq(text, i + 1, Len(text)) \in Seq(Int)
      BY <2>1, CutIs
    <3>2. SubSeq(text, 1, i - 1) \o SubSeq(text, i + 1, Len(text)) \in Seq(Int)
      BY <2>4, <3>1, ConcatProperties
    <3> QED BY <2>6, <3>2 DEF RemoveAt
  <2>7. ASSUME NEW x \in Chars, text' = Append(text, x)
        PROVE  TextInv'
    BY <2>2, <2>7, AppendProperties
  <2> QED BY <1>2, <2>1, <2>3, <2>5, <2>6, <2>7 DEF Edit
<1>3. CASE Hashing \/ ReadHex \/ UNCHANGED hashVars
  BY <1>3 DEF Hashing, ReadHex, hashVars, textVars
<1> QED BY <1>1, <1>2, <1>3 DEF HashNext

\* A digest that is written and read back is the digest, for every number of its bytes,
\* every message and whatever its bytes are; and what else reads as the digest, wherever
\* and however it was edited, is its own text up to a change that read_hash_from_hex
\* overlooks.
THEOREM DigestIsReadBack == HashSpec => ReadsAsWritten
<1>1. HashInit => DigitInv /\ TextInv
  <2>1. HashInit => text \in Seq(Int)
    BY EmptySeq DEF HashInit
  <2> QED BY <2>1 DEF HashInit, DigitInv, TextInv
<1>2. DigitInv /\ TextInv /\ [HashNext]_hashVars => (DigitInv /\ TextInv)'
  BY DigitStays, TextStays
<1>3. DigitInv /\ TextInv /\ [HashNext]_hashVars =>
        [(ReadHex /\ HasDigest) =>
           /\ text = HexOf(Digest) => status' = "OKAY" /\ c' = Digest
           /\ (status' = "OKAY" /\ c' = Digest) =>
                \A i \in 1 .. 2 * Bytes : FirstChange(i) => Overlooked(i)]_hashVars
  <2> SUFFICES ASSUME DigitInv, TextInv, ReadHex, HasDigest
               PROVE  /\ text = HexOf(Digest) => status' = "OKAY" /\ c' = Digest
                      /\ (status' = "OKAY" /\ c' = Digest) =>
                           \A i \in 1 .. 2 * Bytes : FirstChange(i) => Overlooked(i)
    OBVIOUS
  <2>1. Len(text) \in Nat
    BY LenProperties DEF TextInv
  <2>2. text = HexOf(Digest) => status' = "OKAY" /\ c' = Digest
    BY OwnTextIsRead
  <2>3. (status' = "OKAY" /\ c' = Digest) =>
           \A i \in 1 .. 2 * Bytes : FirstChange(i) => Overlooked(i)
    BY <2>1, ChangeIsOverlooked
  <2> QED BY <2>2, <2>3
<1> QED BY <1>1, <1>2, <1>3, PTL DEF HashSpec, ReadsAsWritten
=============================================================================
