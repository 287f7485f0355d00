------------------------------- MODULE Sponge -------------------------------
(***************************************************************************)
(* lib/sha_three/KeccakSponge.c behind KeccakNISTInterface.c: a hash state *)
(* is initialised, updated with data of any number of bits, and squeezed.  *)
(* Bits are numbered in the order of the message, so that the input shows  *)
(* what was absorbed; the permutation is not modelled but by what it was   *)
(* applied to and how often.  A loop of Absorb or Squeeze takes one step   *)
(* per round.  Lengths stay so small that no unsigned int wraps.           *)
(***************************************************************************)
EXTENDS Integers, Sequences, SequencesExt

CONSTANTS
  Byte,      \* bits of a byte, 8
  Rates,     \* rate per hashbitlen: the switch of Init
  BadLens,   \* other values of hashbitlen
  MaxUpdate, \* bound: bits of one update
  MaxGiven,  \* bound: bits of a message
  MaxOut     \* bound: bits squeezed out of it

ASSUME SpongeAssumption ==
  /\ Byte \in Nat \ {0}
  /\ DOMAIN Rates \subseteq Nat
  /\ \A len \in DOMAIN Rates :
       Rates[len] \in Nat /\ Rates[len] >= 2 * Byte /\ Rates[len] % Byte = 0 /\ len % Byte = 0
  /\ BadLens \cap DOMAIN Rates = {}
  /\ MaxUpdate \in Nat /\ MaxGiven \in Nat /\ MaxOut \in Nat

VARIABLES
  rate, fixedOutputLength, dataQueue, bitsInQueue, squeezing, bitsAvailable,
  absorbed,    \* the blocks absorbed, end to end
  permuted,    \* number of permutations since the last of them
  rest,        \* data the current call of Absorb has still to take
  lastByte,    \* Update: the partial byte of a second call, << >> without one
  wanted,      \* bits the current call of Squeeze has still to give
  ret,         \* return value of the last call
  given,       \* history: number of bits given
  squeezed     \* history: what was squeezed out

spongeVars == <<rate, fixedOutputLength, dataQueue, bitsInQueue, squeezing, bitsAvailable,
                absorbed, permuted>>
vars == <<spongeVars, rest, lastByte, wanted, ret, given, squeezed>>

\* Bits besides those of the message; Junk is what a byte holds in front of its last bits.
Zero == 0
One == -1
Junk == -2

Positions == 0 .. rate - 1
Idle == rest = <<>> /\ lastByte = <<>> /\ wanted = 0

Init ==
  /\ rate = 0 /\ fixedOutputLength = 0 /\ dataQueue = <<>> /\ bitsInQueue = 0
  /\ squeezing = FALSE /\ bitsAvailable = 0 /\ absorbed = <<>> /\ permuted = 0
  /\ rest = <<>> /\ lastByte = <<>> /\ wanted = 0 /\ ret = "none"
  /\ given = 0 /\ squeezed = <<>>

\* Init and InitSponge, also of a state that was used before.
InitHash(len) ==
  /\ Idle
  /\ rate' = Rates[len] /\ fixedOutputLength' = len
  /\ dataQueue' = [p \in 0 .. Rates[len] - 1 |-> Zero]
  /\ bitsInQueue' = 0 /\ squeezing' = FALSE /\ bitsAvailable' = 0
  /\ absorbed' = <<>> /\ permuted' = 0
  /\ given' = 0 /\ squeezed' = <<>>
  /\ ret' = "SUCCESS"
  /\ UNCHANGED <<rest, lastByte, wanted>>

BadHashLen ==
  /\ Idle /\ BadLens # {}
  /\ ret' = "BAD_HASHLEN"
  /\ UNCHANGED <<spongeVars, rest, lastByte, wanted, given, squeezed>>

-----------------------------------------------------------------------------
(* Absorb *)

\* Only the last call may contain a partial byte, and none may follow a squeeze.
Refuses == bitsInQueue % Byte # 0 \/ squeezing

\* AbsorbQueue
QueueBits(q) == [i \in 1 .. rate |-> q[i - 1]]

\* Mutant: a full queue is kept.
AbsorbNone(q, n) ==
  /\ dataQueue' = q /\ bitsInQueue' = n
  /\ UNCHANGED absorbed

AbsorbWhenFull(q, n) ==
  /\ dataQueue' = q
  /\ IF n = rate
       THEN absorbed' = absorbed \o QueueBits(q) /\ bitsInQueue' = 0
       ELSE bitsInQueue' = n /\ UNCHANGED absorbed

Copied(q, at, bits) ==
  [p \in Positions |-> IF p \in at .. at + Len(bits) - 1 THEN bits[p - at + 1] ELSE q[p]]

\* Whole blocks are absorbed without the queue.
WholeBlocks ==
  /\ rest # <<>> /\ bitsInQueue = 0 /\ Len(rest) >= rate
  /\ LET size == (Len(rest) \div rate) * rate
     IN /\ absorbed' = absorbed \o SubSeq(rest, 1, size)
        /\ rest' = SubSeq(rest, size + 1, Len(rest))
  /\ UNCHANGED <<rate, fixedOutputLength, dataQueue, bitsInQueue, squeezing, bitsAvailable,
                 permuted, lastByte, wanted, ret, given, squeezed>>

\* Mutant: the rest of the last byte is not masked.
PartialByteUnmasked(q, at, bits) ==
  IF bits = <<>> THEN q
  ELSE Copied(q, at, bits \o [i \in 1 .. Byte - Len(bits) |-> Junk])

PartialByte(q, at, bits) ==
  IF bits = <<>> THEN q
  ELSE Copied(q, at, bits \o [i \in 1 .. Byte - Len(bits) |-> Zero])

PartOfBlock ==
  /\ rest # <<>> /\ (bitsInQueue # 0 \/ Len(rest) < rate)
  /\ LET size == IF Len(rest) + bitsInQueue > rate THEN rate - bitsInQueue ELSE Len(rest)
         whole == size - (size % Byte)
         copied == Copied(dataQueue, bitsInQueue, SubSeq(rest, 1, whole))
     IN /\ IF size = whole
             THEN AbsorbWhenFull(copied, bitsInQueue + whole)
             ELSE /\ dataQueue' = PartialByte(copied, bitsInQueue + whole,
                                              SubSeq(rest, whole + 1, size))
                  /\ bitsInQueue' = bitsInQueue + size
                  /\ UNCHANGED absorbed
        /\ rest' = SubSeq(rest, size + 1, Len(rest))
  /\ UNCHANGED <<rate, fixedOutputLength, squeezing, bitsAvailable, permuted,
                 lastByte, wanted, ret, given, squeezed>>

-----------------------------------------------------------------------------
(* Update: a partial byte holds its bits in its upper end, and Absorb wants *)
(* them in its lower end.                                                   *)

Numbered(from, to) == [i \in 1 .. to - from + 1 |-> from + i - 1]
UpperEnd(bits) == [i \in 1 .. Byte - Len(bits) |-> Junk] \o bits

\* Mutant: the byte is handed on as it is.
AlignedNot(byte, n) == SubSeq(byte, 1, n)

Aligned(byte, n) == SubSeq(byte, Byte - n + 1, Byte)

Update(n) ==
  /\ Idle /\ rate > 0
  /\ given + n <= MaxGiven
  /\ \/ Refuses
        /\ ret' = "FAIL"
        /\ UNCHANGED <<rest, lastByte, given>>
     \/ ~Refuses
        /\ LET whole == n - (n % Byte)
               byte == UpperEnd(Numbered(given + whole + 1, given + n))
           IN /\ rest' = Numbered(given + 1, given + whole)
              /\ lastByte' = IF n = whole THEN <<>> ELSE Aligned(byte, n % Byte)
        /\ given' = given + n
        /\ ret' = "SUCCESS"
  /\ UNCHANGED <<spongeVars, wanted, squeezed>>

\* Should this call fail, the whole bytes would be absorbed all the same.
UpdateLastByte ==
  /\ rest = <<>> /\ lastByte # <<>>
  /\ \/ Refuses /\ ret' = "FAIL" /\ UNCHANGED rest
     \/ ~Refuses /\ rest' = lastByte /\ UNCHANGED ret
  /\ lastByte' = <<>>
  /\ UNCHANGED <<spongeVars, wanted, given, squeezed>>

-----------------------------------------------------------------------------
(* Squeeze *)

\* Mutant: what the queue held behind the message is left there.
ClearedNot(q, from) == q

Cleared(q, from) == [p \in Positions |-> IF p >= from THEN Zero ELSE q[p]]

UpToByte(n) == ((n + Byte - 1) \div Byte) * Byte

\* Mutant: the ones of the padding always fit into the queue.
PaddedTight ==
  LET first == [Cleared(dataQueue, UpToByte(bitsInQueue)) EXCEPT ![bitsInQueue] = One]
  IN QueueBits([first EXCEPT ![rate - 1] = One])

\* When one bit is left, the padding needs another block.
PaddedQueue ==
  IF bitsInQueue + 1 = rate
    THEN QueueBits([dataQueue EXCEPT ![bitsInQueue] = One])
         \o QueueBits([p \in Positions |-> IF p = rate - 1 THEN One ELSE Zero])
    ELSE LET first == [Cleared(dataQueue, UpToByte(bitsInQueue)) EXCEPT ![bitsInQueue] = One]
         IN QueueBits([first EXCEPT ![rate - 1] = One])

\* The n-th bit extracted after the absorption, counted from 1.
Extracted(n) == [p \in Positions |-> n * rate + p + 1]

PadAndSwitch ==
  IF squeezing THEN UNCHANGED spongeVars
  ELSE /\ absorbed' = absorbed \o PaddedQueue
       /\ dataQueue' = Extracted(0)
       /\ bitsInQueue' = 0
       /\ bitsAvailable' = rate /\ squeezing' = TRUE
       /\ UNCHANGED <<rate, fixedOutputLength, permuted>>

Squeeze(n) ==
  /\ Idle /\ rate > 0
  /\ Len(squeezed) + n <= MaxOut
  /\ PadAndSwitch
  /\ \/ n % Byte # 0 /\ ret' = "FAIL" /\ UNCHANGED wanted
     \/ n % Byte = 0 /\ ret' = "SUCCESS" /\ wanted' = n
  /\ UNCHANGED <<rest, lastByte, given, squeezed>>

Final == Squeeze(fixedOutputLength)

\* Mutant: the bits left over from the call before are dropped.
LeftNone == 0

BitsLeft == bitsAvailable

SqueezeRound ==
  /\ wanted > 0
  /\ LET fresh == BitsLeft = 0
         n == IF fresh THEN permuted + 1 ELSE permuted
         queue == IF fresh THEN Extracted(n) ELSE dataQueue
         left == IF fresh THEN rate ELSE BitsLeft
         size == IF left > wanted THEN wanted ELSE left
     IN /\ permuted' = n
        /\ dataQueue' = queue
        /\ squeezed' = squeezed \o [i \in 1 .. size |-> queue[rate - left + i - 1]]
        /\ bitsAvailable' = left - size
        /\ wanted' = wanted - size
  /\ UNCHANGED <<rate, fixedOutputLength, bitsInQueue, squeezing, absorbed, rest, lastByte,
                 ret, given>>

Next ==
  \/ \E len \in DOMAIN Rates : InitHash(len)
  \/ BadHashLen
  \/ \E n \in 0 .. MaxUpdate : Update(n)
  \/ UpdateLastByte \/ WholeBlocks \/ PartOfBlock
  \/ \E n \in 0 .. MaxOut : Squeeze(n)
  \/ Final
  \/ SqueezeRound

Spec == Init /\ [][Next]_vars

-----------------------------------------------------------------------------
(* Properties. *)

TypeOK ==
  /\ rate \in {0} \cup {Rates[len] : len \in DOMAIN Rates}
  /\ fixedOutputLength \in {0} \cup DOMAIN Rates
  /\ \A p \in DOMAIN dataQueue : p \in Positions
  /\ bitsInQueue \in 0 .. rate /\ bitsAvailable \in 0 .. rate
  /\ rate > 0 => bitsInQueue < rate
  /\ squeezing \in BOOLEAN
  /\ wanted > 0 => squeezing

\* Nothing of a message is lost, repeated or moved, however it is cut into updates.
NothingLost ==
  ~squeezing =>
    absorbed \o [i \in 1 .. bitsInQueue |-> dataQueue[i - 1]] \o rest \o lastByte
      = Numbered(1, given)

\* The sponge absorbs the padded message and gives its stream in order.
Function ==
  INSTANCE SpongeFunction WITH input <- IF squeezing THEN absorbed ELSE <<>>
SpongeSpec == Function!Spec
=============================================================================
