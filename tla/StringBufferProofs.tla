------------------------- MODULE StringBufferProofs -------------------------
(***************************************************************************)
(* Proofs about StringBuffer, for every size of the buffer, every set of   *)
(* strings and every reader, under the discipline of callers that reserve  *)
(* at least one OChar more than they write and let no reader in between.   *)
(***************************************************************************)
EXTENDS StringBuffer, TLAPS

Disciplined ==
  /\ \A h \in Headrooms : h >= 1
  /\ ~ReadsUnderReservation

\* A reservation is a stretch of cells, and the state it was granted in is
\* the one space_available would choose again.
ReservationShape ==
  /\ Reserved <=> reserve_end # NULL
  /\ Reserved => reserve_start < reserve_end /\ ~TurnsRound

PointerInv ==
  /\ TypeOK
  /\ ReserveAsserts
  /\ RegionsApart
  /\ ReservationHolds
  /\ ReservationShape

-----------------------------------------------------------------------------
\* While the pointer invariant holds no length wraps, and the room available
\* is room before buffer_end or before the text still to be read.
LEMMA NoWrap ==
  ASSUME PointerInv
  PROVE  /\ LengthAtEnd = (Last - 1) - Higher(write_a, write_b)
         /\ LengthAtStart = Higher(read_a, read_b) - Lower(write_a, write_b)
         /\ LengthAtEnd \in Nat /\ LengthAtStart \in Nat
  BY ConstantsAssumption
  DEF PointerInv, TypeOK, ReserveAsserts, RegionsApart, LengthAtEnd, LengthAtStart,
      SizeT, Higher, Lower, Offsets, States

\* Turning round keeps the regions apart, and leaves a state in which the
\* write pointer has at least the available room ahead of it.
LEMMA TurnIsSafe ==
  ASSUME PointerInv
  PROVE  /\ StateForWrite \in States
         /\ StateForWrite \in {"WARA", "WBRB"} =>
              /\ StateForWrite = state /\ ~TurnsRound
              /\ WritePointer(StateForWrite) + Available <= Last - 1
         /\ StateForWrite = "WBRA" =>
              /\ read_b = 0 /\ write_b < read_a /\ read_a < write_a
              /\ write_b + Available <= read_a
         /\ StateForWrite = "WARB" =>
              /\ read_a = 0 /\ write_a < read_b /\ read_b < write_b
              /\ write_a + Available <= read_b
         /\ WritePointer(StateForWrite) \in Offsets
         /\ Available \in Nat
  <1>1. /\ LengthAtEnd = (Last - 1) - Higher(write_a, write_b)
        /\ LengthAtStart = Higher(read_a, read_b) - Lower(write_a, write_b)
        /\ LengthAtEnd \in Nat /\ LengthAtStart \in Nat
    BY NoWrap
  <1>2. CASE TurnsRound /\ state = "WARA"
    BY <1>1, <1>2, ConstantsAssumption
    DEF PointerInv, TypeOK, RegionsApart, ReserveAsserts, TurnsRound, StateForWrite, Available,
        WritePointer, Higher, Lower, Offsets, States
  <1>3. CASE TurnsRound /\ state = "WBRB"
    BY <1>1, <1>3, ConstantsAssumption
    DEF PointerInv, TypeOK, RegionsApart, ReserveAsserts, TurnsRound, StateForWrite, Available,
        WritePointer, Higher, Lower, Offsets, States
  <1>4. CASE ~TurnsRound
    BY <1>1, <1>4, ConstantsAssumption
    DEF PointerInv, TypeOK, RegionsApart, ReserveAsserts, TurnsRound, StateForWrite, Available,
        WritePointer, Higher, Lower, Offsets, States
  <1>. QED  BY <1>2, <1>3, <1>4 DEF TurnsRound

-----------------------------------------------------------------------------
(* One lemma per call: the pointer invariant survives it. *)

LEMMA InitPointers == Init => PointerInv
  BY ConstantsAssumption
  DEF Init, PointerInv, TypeOK, ReserveAsserts, RegionsApart, ReservationHolds,
      ReservationShape, Reserved, Offsets, States, Statuses, NULL

LEMMA SpaceAvailableKeeps ==
  ASSUME PointerInv, SpaceAvailable
  PROVE  PointerInv'
  <1>1. /\ StateForWrite \in States
        /\ StateForWrite \in {"WARA", "WBRB"} => StateForWrite = state
        /\ StateForWrite = "WBRA" => read_b = 0 /\ write_b < read_a /\ read_a < write_a
        /\ StateForWrite = "WARB" => read_a = 0 /\ write_a < read_b /\ read_b < write_b
    BY TurnIsSafe
  <1>2. Reserved => StateForWrite = state
    BY DEF PointerInv, ReservationShape, StateForWrite
  <1>3. TypeOK' /\ ReserveAsserts'
    BY <1>1 DEF SpaceAvailable, PointerInv, TypeOK, ReserveAsserts, Statuses, pointers, reservation
  <1>4. RegionsApart'
    BY <1>1 DEF SpaceAvailable, PointerInv, RegionsApart, States, pointers
  <1>5. ReservationHolds' /\ ReservationShape'
    BY <1>2 DEF SpaceAvailable, PointerInv, ReservationHolds, ReservationShape, Reserved,
                WritePointer, ReadPointer, TurnsRound, LengthAtEnd, LengthAtStart, SizeT,
                Higher, Lower, pointers, reservation
  <1>. QED  BY <1>3, <1>4, <1>5 DEF PointerInv

LEMMA ReserveKeeps ==
  ASSUME PointerInv, NEW length \in Nat, Reserve(length)
  PROVE  PointerInv'
  <1>1. CASE ReserveLocked
    BY <1>1 DEF ReserveLocked, PointerInv, TypeOK, ReserveAsserts, RegionsApart, ReservationHolds,
                ReservationShape, Reserved, Statuses, WritePointer, ReadPointer, TurnsRound,
                LengthAtEnd, LengthAtStart, SizeT, Higher, Lower, pointers, reservation
  <1>2. /\ StateForWrite \in States
        /\ StateForWrite \in {"WARA", "WBRB"} =>
             /\ StateForWrite = state /\ ~TurnsRound
             /\ WritePointer(StateForWrite) + Available <= Last - 1
        /\ StateForWrite = "WBRA" =>
             /\ read_b = 0 /\ write_b < read_a /\ read_a < write_a
             /\ write_b + Available <= read_a
        /\ StateForWrite = "WARB" =>
             /\ read_a = 0 /\ write_a < read_b /\ read_b < write_b
             /\ write_a + Available <= read_b
        /\ WritePointer(StateForWrite) \in Offsets
        /\ Available \in Nat
    BY TurnIsSafe
  <1>3. CASE ReserveRefused(length)
    <2>1. TypeOK' /\ ReserveAsserts'
      BY <1>2, <1>3 DEF ReserveRefused, PointerInv, TypeOK, ReserveAsserts, Statuses, pointers,
                        reservation
    <2>2. RegionsApart'
      BY <1>2, <1>3 DEF ReserveRefused, PointerInv, RegionsApart, States, pointers
    <2>3. ReservationHolds' /\ ReservationShape'
      BY <1>3 DEF ReserveRefused, PointerInv, ReservationHolds, ReservationShape, Reserved,
                  reservation
    <2>. QED  BY <2>1, <2>2, <2>3 DEF PointerInv
  <1>4. CASE ReserveGranted(length)
    <2>. DEFINE start == WritePointer(StateForWrite)
    <2>1. /\ reserve_start' = start /\ reserve_end' = start + length + 1
          /\ state' = StateForWrite /\ UNCHANGED pointers
          /\ start \in Offsets /\ start + length + 1 <= start + Available
          /\ UNCHANGED <<mem, dest, live>> /\ status' = "OKAY"
      BY <1>2, <1>4 DEF ReserveGranted, Offsets
    <2>2. start + Available <= Last - 1
      BY <1>2, ConstantsAssumption
      DEF States, PointerInv, TypeOK, ReserveAsserts, WritePointer, Offsets
    <2>. HIDE DEF start
    <2>3. reserve_start' \in Offsets /\ reserve_end' \in Offsets /\ reserve_end' < Last
      BY <1>2, <2>1, <2>2, ConstantsAssumption DEF Offsets
    <2>4. TypeOK' /\ ReserveAsserts'
      BY <1>2, <2>1, <2>3 DEF PointerInv, TypeOK, ReserveAsserts, Statuses, pointers
    <2>5. RegionsApart'
      BY <1>2, <2>1 DEF PointerInv, RegionsApart, States, pointers
    <2>6. ReservationHolds'
      <3>1. reserve_start' = WritePointer(state)'
        BY <2>1 DEF start, WritePointer, pointers
      <3>2. state' \in {"WBRA", "WARB"} => reserve_end' <= ReadPointer'
        BY <1>2, <2>1 DEF start, ReadPointer, WritePointer, pointers, Offsets, PointerInv, TypeOK
      <3>. QED  BY <2>3, <3>1, <3>2 DEF ReservationHolds
    <2>7. ReservationShape'
      <3>1. Reserved' /\ reserve_end' # NULL /\ reserve_start' < reserve_end'
        BY <2>1, <2>3 DEF Reserved, NULL, Offsets
      <3>2. ~TurnsRound'
        BY <1>2, <2>1 DEF TurnsRound, LengthAtEnd, LengthAtStart, SizeT, Higher, Lower, pointers,
                          States
      <3>. QED  BY <3>1, <3>2 DEF ReservationShape
    <2>. QED  BY <2>4, <2>5, <2>6, <2>7 DEF PointerInv
  <1>. QED  BY <1>1, <1>3, <1>4 DEF Reserve

LEMMA MemAfterCopyType ==
  ASSUME PointerInv, NEW s \in Strings, Reserved
  PROVE  MemAfterCopy(s) \in [Offsets -> Chars \cup {NUL, Junk}]
  <1>1. SUFFICES ASSUME NEW i \in Offsets,
                        ~(i < reserve_start \/ i > reserve_start + Copied(s)),
                        i - reserve_start < Lower(Len(s), Copied(s))
                 PROVE  s[i - reserve_start + 1] \in Chars
    BY DEF PointerInv, TypeOK, MemAfterCopy
  <1>2. s \in Seq(Chars) /\ Len(s) \in Nat
    BY ConstantsAssumption
  <1>3. reserve_start \in Nat /\ reserve_end \in Int
    BY ConstantsAssumption DEF PointerInv, TypeOK, Reserved, NULL, Offsets
  <1>4. i - reserve_start + 1 \in 1 .. Len(s)
    BY <1>1, <1>2, <1>3, ConstantsAssumption DEF Lower, Copied, Offsets
  <1>. QED  BY <1>2, <1>4

LEMMA EnqueueKeeps ==
  ASSUME Disciplined, PointerInv, NEW s \in Strings, WriterEnqueues(s)
  PROVE  PointerInv'
  <1>. USE DEF PointerInv
  <1>1. CASE EnqueueUnreserved
    BY <1>1 DEF EnqueueUnreserved, TypeOK, ReserveAsserts, RegionsApart, ReservationHolds,
                ReservationShape, Reserved, Statuses, WritePointer, ReadPointer, pointers, reservation
  <1>2. CASE EnqueueNothing(s)
    BY <1>2 DEF EnqueueNothing, ReleaseReserve, TypeOK, ReserveAsserts, RegionsApart,
                ReservationHolds, ReservationShape, Reserved, Statuses, pointers
  <1>3. CASE EnqueueLong(s)
    <2>1. mem' \in [Offsets -> Chars \cup {NUL, Junk}]
      BY <1>3, MemAfterCopyType DEF EnqueueLong
    <2>2. TypeOK' /\ ReserveAsserts' /\ RegionsApart'
      BY <1>3, <2>1 DEF EnqueueLong, TypeOK, ReserveAsserts, RegionsApart, Statuses, pointers,
                        reservation
    <2>3. ReservationHolds' /\ ReservationShape'
      BY <1>3 DEF EnqueueLong, ReservationHolds, ReservationShape, Reserved, WritePointer,
                  ReadPointer, TurnsRound, LengthAtEnd, LengthAtStart, SizeT, Higher, Lower,
                  pointers, reservation
    <2>. QED  BY <2>2, <2>3
  <1>4. CASE EnqueueStored(s)
    <2>. DEFINE past == reserve_start + Copied(s) + 1
    <2>1. /\ Len(s) \in Nat
          /\ reserve_start \in Offsets /\ reserve_end \in Offsets
      BY <1>4, ConstantsAssumption DEF EnqueueStored, TypeOK, ReservationShape, Reserved
    <2>2. ReservedLength - Len(s) >= 2
      <3>1. ReservedLength - Len(s) >= 1
        BY <1>4 DEF EnqueueStored, WriterEnqueues, FitsReservation, Disciplined
      <3>. QED
        BY <1>4, <2>1, <3>1, ConstantsAssumption
        DEF EnqueueStored, IsLong, ReservedLength, Copied, Lower, Offsets
    <2>3. past \in Offsets /\ past < reserve_end /\ past > reserve_start
      BY <2>1, <2>2, ConstantsAssumption DEF ReservedLength, Copied, Lower, Offsets
    <2>4. /\ reserve_end < Last
          /\ state \in {"WBRA", "WARB"} => reserve_end <= ReadPointer
          /\ reserve_start = WritePointer(state)
      BY <1>4 DEF EnqueueStored, ReservationHolds
    <2>5. \/ state \in {"WARA", "WARB"} /\ write_a' = past /\ write_b' = write_b
          \/ state \in {"WBRA", "WBRB"} /\ write_b' = past /\ write_a' = write_a
      BY <1>4 DEF EnqueueStored, TypeOK, States
    <2>. HIDE DEF past
    <2>6. live' \in Seq([at : Offsets, str : Strings])
      BY <1>4, <2>1 DEF EnqueueStored, TypeOK
    <2>7. mem' \in [Offsets -> Chars \cup {NUL, Junk}]
      BY <1>4, MemAfterCopyType DEF EnqueueStored
    <2>8. TypeOK'
      BY <1>4, <2>3, <2>5, <2>6, <2>7
      DEF EnqueueStored, ReleaseReserve, TypeOK, Statuses
    <2>9. ReserveAsserts'
      BY <2>1, <2>3, <2>4, <2>5, ConstantsAssumption DEF ReserveAsserts, TypeOK, Offsets
    <2>10. RegionsApart'
      <3>1. read_a' = read_a /\ read_b' = read_b /\ state' = state
        BY <1>4 DEF EnqueueStored
      <3>2. /\ read_a \in Int /\ write_a \in Int /\ read_b \in Int /\ write_b \in Int
            /\ past \in Int /\ reserve_start \in Int /\ reserve_end \in Int
            /\ state \in States
        BY <2>1, <2>3, ConstantsAssumption DEF TypeOK, Offsets
      <3>3. CASE state = "WARA"
        BY <2>3, <2>4, <2>5, <3>1, <3>2, <3>3 DEF RegionsApart, WritePointer
      <3>4. CASE state = "WBRB"
        BY <2>3, <2>4, <2>5, <3>1, <3>2, <3>4 DEF RegionsApart, WritePointer
      <3>5. CASE state = "WBRA"
        BY <2>3, <2>4, <2>5, <3>1, <3>2, <3>5 DEF RegionsApart, ReadPointer
      <3>6. CASE state = "WARB"
        BY <2>3, <2>4, <2>5, <3>1, <3>2, <3>6 DEF RegionsApart, ReadPointer
      <3>. QED  BY <3>2, <3>3, <3>4, <3>5, <3>6 DEF States
    <2>11. ReservationHolds' /\ ReservationShape'
      BY <1>4 DEF EnqueueStored, ReleaseReserve, ReservationHolds, ReservationShape, Reserved
    <2>. QED  BY <2>8, <2>9, <2>10, <2>11
  <1>. QED  BY <1>1, <1>2, <1>3, <1>4 DEF WriterEnqueues, Enqueue

LEMMA DequeueKeeps ==
  ASSUME Disciplined, PointerInv, NEW size \in DestSizes, ReaderDequeues(size)
  PROVE  PointerInv'
  <1>. USE DEF PointerInv
  <1>1. ~Reserved
    BY DEF ReaderDequeues, Disciplined
  <1>2. CASE DequeueEmpty
    <2>1. TypeOK' /\ ReserveAsserts'
      BY <1>2 DEF DequeueEmpty, TypeOK, ReserveAsserts, States, Statuses, pointers, reservation
    <2>2. RegionsApart'
      BY <1>2, ConstantsAssumption
      DEF DequeueEmpty, IsBufferEmpty, TypeOK, RegionsApart, States, Offsets, pointers
    <2>3. ReservationHolds' /\ ReservationShape'
      BY <1>1, <1>2 DEF DequeueEmpty, ReservationHolds, ReservationShape, Reserved, reservation
    <2>. QED  BY <2>1, <2>2, <2>3
  <1>3. CASE DequeueTooSmall(size)
    <2>1. TypeOK' /\ ReserveAsserts' /\ RegionsApart'
      BY <1>3 DEF DequeueTooSmall, TypeOK, ReserveAsserts, RegionsApart, Statuses, pointers,
                  reservation
    <2>2. ReservationHolds' /\ ReservationShape'
      BY <1>1, <1>3 DEF DequeueTooSmall, ReservationHolds, ReservationShape, Reserved, reservation
    <2>. QED  BY <2>1, <2>2
  <1>4. CASE DequeueTaken(size)
    <2>1. PICK n \in Offsets :
            /\ StringAt(ReadPointer, n)
            /\ dest' = [i \in 1 .. n |-> mem[ReadPointer + i - 1]]
            /\ IF Drains(n) THEN ResetRegion ELSE Advance(n)
      BY <1>4 DEF DequeueTaken
    <2>2. ReservationHolds' /\ ReservationShape'
      BY <1>1, <1>4 DEF DequeueTaken, ReservationHolds, ReservationShape, Reserved, reservation
    <2>3. ReadPointer \in Offsets /\ n \in Nat
      BY DEF TypeOK, ReadPointer, Offsets
    <2>4. dest' \in Seq(Chars \cup {Junk})
      <3>1. \A i \in 1 .. n : mem[ReadPointer + i - 1] \in Chars \cup {Junk}
        BY <2>1, <2>3, ConstantsAssumption DEF StringAt, TypeOK, Offsets
      <3>. QED  BY <2>1, <2>3, <3>1
    <2>5. live' \in Seq([at : Offsets, str : Strings])
      BY <1>4 DEF DequeueTaken, TypeOK
    <2>6. CASE Drains(n)
      <3>1. ResetRegion
        BY <2>1, <2>6
      <3>2. TypeOK' /\ ReserveAsserts'
        BY <1>4, <2>4, <2>5, <3>1, ConstantsAssumption
        DEF DequeueTaken, ResetRegion, TypeOK, ReserveAsserts, States, Statuses, Offsets, reservation
      <3>3. RegionsApart'
        BY <3>1, ConstantsAssumption DEF ResetRegion, RegionsApart, TypeOK, States, Offsets
      <3>. QED  BY <2>2, <3>2, <3>3
    <2>7. CASE ~Drains(n)
      <3>1. Advance(n)
        BY <2>1, <2>7
      <3>2. ReadPast(n) > ReadPointer
        BY <2>3 DEF ReadPast, Offsets
      <3>3. RegionsApart' /\ ReadPast(n) \in Offsets
        BY <2>3, <2>7, <3>1, <3>2, ConstantsAssumption
        DEF Advance, Drains, ReadPast, ReadPointer, Higher, RegionsApart, TypeOK, States, Offsets
      <3>4. TypeOK' /\ ReserveAsserts'
        BY <1>4, <2>4, <2>5, <3>1, <3>3
        DEF DequeueTaken, Advance, TypeOK, ReserveAsserts, Statuses, reservation
      <3>. QED  BY <2>2, <3>3, <3>4
    <2>. QED  BY <2>6, <2>7
  <1>. QED  BY <1>2, <1>3, <1>4 DEF ReaderDequeues, Dequeue

LEMMA StutterKeeps ==
  ASSUME PointerInv, UNCHANGED vars
  PROVE  PointerInv'
  BY DEF PointerInv, vars, pointers, reservation, TypeOK, ReserveAsserts, RegionsApart,
         ReservationHolds, ReservationShape, Reserved, WritePointer, ReadPointer, TurnsRound,
         LengthAtEnd, LengthAtStart, SizeT, Higher, Lower

\* PointerInv is an invariant of the buffer: every pointer stays inside it, the
\* assertions of reserve_string_buffer hold, the regions stay apart and a
\* reservation stays usable until it is released.
THEOREM PointersSafe ==
  ASSUME Disciplined
  PROVE  Spec => []PointerInv
  <1>1. Init => PointerInv
    BY InitPointers
  <1>2. PointerInv /\ [Next]_vars => PointerInv'
    <2>. SUFFICES ASSUME PointerInv, [Next]_vars
                  PROVE  PointerInv'
      OBVIOUS
    <2>1. CASE SpaceAvailable
      BY <2>1, SpaceAvailableKeeps
    <2>2. ASSUME NEW s \in Strings, ReserveFor(s)
          PROVE  PointerInv'
      <3>1. PICK h \in Headrooms : Len(s) + h >= 0 /\ Reserve(Len(s) + h)
        BY <2>2 DEF ReserveFor
      <3>2. Len(s) + h \in Nat
        BY <3>1, ConstantsAssumption
      <3>. QED  BY <3>1, <3>2, ReserveKeeps
    <2>3. ASSUME NEW s \in Strings, WriterEnqueues(s)
          PROVE  PointerInv'
      BY <2>3, EnqueueKeeps
    <2>4. ASSUME NEW size \in DestSizes, ReaderDequeues(size)
          PROVE  PointerInv'
      BY <2>4, DequeueKeeps
    <2>5. CASE UNCHANGED vars
      BY <2>5, StutterKeeps
    <2>. QED  BY <2>1, <2>2, <2>3, <2>4, <2>5 DEF Next
  <1>. QED  BY <1>1, <1>2, PTL DEF Spec

\* The state holds values of the declared types, and the assertions at the top
\* of reserve_string_buffer never fail.
THEOREM TypeCorrect ==
  ASSUME Disciplined
  PROVE  Spec => []TypeOK
  BY PointersSafe, PTL DEF PointerInv

THEOREM AssertsNeverFail ==
  ASSUME Disciplined
  PROVE  Spec => []ReserveAsserts
  BY PointersSafe, PTL DEF PointerInv

\* Through every turn of the state the region being written and the region being
\* read stay apart.
THEOREM RegionsStayApart ==
  ASSUME Disciplined
  PROVE  Spec => []RegionsApart
  BY PointersSafe, PTL DEF PointerInv

\* What space_available granted is still there when enqueue comes to use it.
THEOREM ReservationsHold ==
  ASSUME Disciplined
  PROVE  Spec => []ReservationHolds
  BY PointersSafe, PTL DEF PointerInv
-----------------------------------------------------------------------------
\* The buffer is a queue of strings (StringQueue), under the same discipline.  The
\* strings still to be read lie end to end, from the read pointer to the write pointer
\* of the region that is read and then from the start of the other region to its
\* write pointer.

\* The write pointers of the region that is read, and of the other one.
ReadWrite  == IF state \in {"WARA", "WBRA"} THEN write_a ELSE write_b
OtherWrite == IF state \in {"WARA", "WBRA"} THEN write_b ELSE write_a

\* The cell after an entry's second terminator.
Past(e) == e.at + Len(e.str) + 2

InRead(e)  == ReadPointer <= e.at /\ Past(e) <= ReadWrite
InOther(e) == Past(e) <= OtherWrite

\* Every entry is a whole string in one of the regions.
EntriesPlaced ==
  \A k \in DOMAIN live :
    live[k].str # <<>> /\ (InRead(live[k]) \/ InOther(live[k]))

\* The queue's ends are the pointers.
EndsPlaced ==
  /\ live = <<>> <=> IsBufferEmpty
  /\ live # <<>> =>
       /\ live[1].at = ReadPointer
       /\ Past(live[Len(live)]) = IF OtherWrite = 0 THEN ReadWrite ELSE OtherWrite

\* An entry starts where the one before it ended, or at the start of the other
\* region when that one ended the region that is read.
EndToEnd ==
  \A k \in 1 .. Len(live) - 1 :
    \/ live[k + 1].at = Past(live[k])
    \/ Past(live[k]) = ReadWrite /\ live[k + 1].at = 0 /\ InOther(live[k + 1])

\* What is read later lies behind, or in the other region.
InOrder ==
  \A j, k \in DOMAIN live :
    j < k => Past(live[j]) <= live[k].at \/ (InRead(live[j]) /\ InOther(live[k]))

QueueInv ==
  /\ PointerInv
  /\ EntriesPlaced
  /\ EndsPlaced
  /\ EndToEnd
  /\ InOrder
  /\ UnreadIntact

-----------------------------------------------------------------------------
\* What the pointer invariant says of the region that is read and the other one.
LEMMA ReadersView ==
  ASSUME PointerInv
  PROVE  /\ ReadPointer \in Nat /\ ReadWrite \in Nat /\ OtherWrite \in Nat
         /\ ReadWrite < Last
         /\ OtherWrite = 0 \/ OtherWrite < ReadPointer
         /\ state \in {"WARA", "WBRB"} => OtherWrite = 0
         /\ state \in {"WBRA", "WARB"} => OtherWrite < ReadPointer /\ ReadPointer < ReadWrite
         /\ ReadPointer < ReadWrite \/ (ReadPointer = 0 /\ ReadWrite = 0 /\ OtherWrite = 0)
         /\ IsBufferEmpty <=> ReadWrite = 0 /\ OtherWrite = 0
  BY ConstantsAssumption
  DEF PointerInv, TypeOK, ReserveAsserts, RegionsApart, ReadPointer, ReadWrite, OtherWrite,
      IsBufferEmpty, Offsets, States

LEMMA EntryType ==
  ASSUME TypeOK, NEW k \in DOMAIN live
  PROVE  /\ live[k].at \in Offsets /\ live[k].at \in Nat
         /\ live[k].str \in Strings /\ live[k].str \in Seq(Chars) /\ Len(live[k].str) \in Nat
         /\ Past(live[k]) \in Nat /\ Past(live[k]) = live[k].at + Len(live[k].str) + 2
         /\ live[k].at < Past(live[k])
  <1>1. live[k] \in [at : Offsets, str : Strings]
    <2>. DEFINE Entries == [at : Offsets, str : Strings]
    <2>1. live \in Seq(Entries)
      BY DEF TypeOK
    <2>. HIDE DEF Entries
    <2>2. live[k] \in Entries
      BY <2>1
    <2>. QED  BY <2>2 DEF Entries
  <1>2. live[k].at \in Offsets /\ live[k].str \in Strings
    BY <1>1
  <1>3. live[k].str \in Seq(Chars)
    BY <1>2, ConstantsAssumption
  <1>4. Len(live[k].str) \in Nat
    BY <1>3
  <1>. QED  BY <1>2, <1>3, <1>4 DEF Past, Offsets

\* The places of the entries depend on three pointers and on nothing else, so
\* that turning round does not disturb them.
LEMMA PlacesStay ==
  ASSUME QueueInv, PointerInv',
         ReadPointer' = ReadPointer, ReadWrite' = ReadWrite, OtherWrite' = OtherWrite,
         UNCHANGED live, UnreadIntact'
  PROVE  QueueInv'
  <1>1. IsBufferEmpty' <=> IsBufferEmpty
    <2>1. IsBufferEmpty <=> ReadWrite = 0 /\ OtherWrite = 0
      BY ReadersView DEF QueueInv
    <2>2. IsBufferEmpty <=> write_a = 0 /\ write_b = 0
      BY DEF IsBufferEmpty
    <2>3. IsBufferEmpty' <=> write_a' = 0 /\ write_b' = 0
      BY DEF IsBufferEmpty
    <2>4. ReadWrite' = 0 /\ OtherWrite' = 0 <=> write_a' = 0 /\ write_b' = 0
      BY DEF ReadWrite, OtherWrite
    <2>. QED  BY <2>1, <2>3, <2>4
  <1>2. EntriesPlaced'
    BY DEF QueueInv, EntriesPlaced, InRead, InOther, Past
  <1>3. EndsPlaced'
    BY <1>1 DEF QueueInv, EndsPlaced, Past
  <1>4. EndToEnd'
    BY DEF QueueInv, EndToEnd, InOther, Past
  <1>5. InOrder'
    BY DEF QueueInv, InOrder, InRead, InOther, Past
  <1>. QED  BY <1>2, <1>3, <1>4, <1>5 DEF QueueInv

LEMMA SamePlaces ==
  ASSUME QueueInv, PointerInv',
         ReadPointer' = ReadPointer, ReadWrite' = ReadWrite, OtherWrite' = OtherWrite,
         UNCHANGED <<live, mem>>
  PROVE  QueueInv'
  <1>1. UnreadIntact'
    BY DEF QueueInv, UnreadIntact
  <1>. QED  BY <1>1, PlacesStay

LEMMA InitQueue == Init => QueueInv
  <1>. SUFFICES ASSUME Init  PROVE  QueueInv
    OBVIOUS
  <1>1. PointerInv
    BY InitPointers
  <1>2. live = <<>> /\ DOMAIN live = {} /\ Len(live) = 0 /\ IsBufferEmpty
    BY DEF Init, IsBufferEmpty
  <1>. QED
    BY <1>1, <1>2 DEF QueueInv, EntriesPlaced, EndsPlaced, EndToEnd, InOrder, UnreadIntact

\* Turning round changes which region is written, not which one is read.
LEMMA TurnKeepsReaders ==
  ASSUME PointerInv, state' = StateForWrite, UNCHANGED pointers
  PROVE  ReadPointer' = ReadPointer /\ ReadWrite' = ReadWrite /\ OtherWrite' = OtherWrite
  BY DEF StateForWrite, TurnsRound, ReadPointer, ReadWrite, OtherWrite, pointers

LEMMA SpaceAvailableQueue ==
  ASSUME QueueInv, SpaceAvailable
  PROVE  QueueInv'
  <1>1. PointerInv'
    BY SpaceAvailableKeeps DEF QueueInv
  <1>2. ReadPointer' = ReadPointer /\ ReadWrite' = ReadWrite /\ OtherWrite' = OtherWrite
    BY TurnKeepsReaders DEF QueueInv, SpaceAvailable
  <1>. QED  BY <1>1, <1>2, SamePlaces DEF SpaceAvailable

LEMMA ReserveQueue ==
  ASSUME QueueInv, NEW length \in Nat, Reserve(length)
  PROVE  QueueInv'
  <1>1. PointerInv'
    BY ReserveKeeps DEF QueueInv
  <1>2. CASE ReserveLocked
    BY <1>1, <1>2, SamePlaces
    DEF ReserveLocked, ReadPointer, ReadWrite, OtherWrite, pointers
  <1>3. CASE ReserveRefused(length) \/ ReserveGranted(length)
    <2>1. ReadPointer' = ReadPointer /\ ReadWrite' = ReadWrite /\ OtherWrite' = OtherWrite
      BY <1>3, TurnKeepsReaders DEF QueueInv, ReserveRefused, ReserveGranted
    <2>. QED  BY <1>1, <1>3, <2>1, SamePlaces DEF ReserveRefused, ReserveGranted
  <1>. QED  BY <1>2, <1>3 DEF Reserve

-----------------------------------------------------------------------------
(* Enqueue. *)

\* A disciplined writer's string ends before its reservation does; it is a long
\* string when nothing is left behind its second terminator.
LEMMA StoredShape ==
  ASSUME Disciplined, PointerInv, NEW s \in Strings, s # <<>>, Reserved, FitsReservation(s)
  PROVE  /\ s \in Seq(Chars) /\ Len(s) \in Nat /\ Len(s) > 0
         /\ reserve_start \in Offsets /\ reserve_end \in Offsets
         /\ reserve_end < Last
         /\ Copied(s) = Len(s) + 1
         /\ reserve_start + Len(s) + 1 < reserve_end
         /\ ~IsLong(s) => reserve_start + Len(s) + 2 < reserve_end
  <1>1. s \in Seq(Chars)
    BY ConstantsAssumption
  <1>2. Len(s) \in Nat /\ Len(s) > 0
    BY <1>1
  <1>3. /\ reserve_start \in Offsets /\ reserve_end \in Offsets
        /\ reserve_end < Last
    BY DEF PointerInv, ReservationShape, ReservationHolds, Reserved, TypeOK
  <1>4. ReservedLength - Len(s) >= 1
    BY DEF FitsReservation, Disciplined
  <1>. QED
    BY <1>1, <1>2, <1>3, <1>4, ConstantsAssumption
    DEF ReservedLength, Copied, Lower, IsLong, Offsets

\* The cells a stored string occupies, and that no other cell changes.
LEMMA StoredCells ==
  ASSUME Disciplined, PointerInv, NEW s \in Strings, s # <<>>, Reserved, FitsReservation(s),
         NEW i \in Offsets
  PROVE  /\ i < reserve_start \/ i > reserve_start + Len(s) + 1 => MemAfterCopy(s)[i] = mem[i]
         /\ i \in reserve_start .. reserve_start + Len(s) - 1
              => MemAfterCopy(s)[i] = s[i - reserve_start + 1]
         /\ i \in {reserve_start + Len(s), reserve_start + Len(s) + 1}
              => MemAfterCopy(s)[i] = NUL
  <1>1. /\ Len(s) \in Nat /\ reserve_start \in Nat /\ i \in Nat
        /\ Copied(s) = Len(s) + 1
    BY StoredShape, ConstantsAssumption DEF Offsets
  <1>2. MemAfterCopy(s)[i] =
          IF i < reserve_start \/ i > reserve_start + Len(s) + 1 THEN mem[i]
          ELSE IF i - reserve_start < Len(s) THEN s[i - reserve_start + 1]
          ELSE NUL
    BY <1>1 DEF MemAfterCopy, Lower
  <1>. QED  BY <1>1, <1>2

\* What is unread lies outside a reservation.
LEMMA UnreadOutside ==
  ASSUME QueueInv, Reserved, NEW k \in DOMAIN live,
         NEW i \in Nat, live[k].at <= i, i < Past(live[k])
  PROVE  i \in Offsets /\ (i < reserve_start \/ i >= reserve_end)
  <1>1. /\ reserve_start = WritePointer(state) /\ state \in States
        /\ state \in {"WBRA", "WARB"} => reserve_end <= ReadPointer
    BY DEF QueueInv, PointerInv, TypeOK, ReservationHolds
  <1>2. /\ reserve_start \in Nat /\ reserve_end \in Nat
    BY ConstantsAssumption
    DEF QueueInv, PointerInv, ReservationShape, Reserved, TypeOK, Offsets
  <1>3. /\ ReadPointer \in Nat /\ ReadWrite \in Nat /\ OtherWrite \in Nat /\ ReadWrite < Last
        /\ ReadPointer <= ReadWrite /\ OtherWrite <= ReadWrite
        /\ state \in {"WARA", "WBRB"} => OtherWrite = 0
    BY ReadersView DEF QueueInv
  <1>4. /\ live[k].at \in Nat /\ Past(live[k]) \in Nat
    BY EntryType DEF QueueInv, PointerInv
  <1>5. InRead(live[k]) \/ InOther(live[k])
    BY DEF QueueInv, EntriesPlaced
  <1>6. state \in {"WARA", "WBRB"} => ReadWrite = reserve_start
    BY <1>1 DEF States, WritePointer, ReadWrite
  <1>7. state \in {"WBRA", "WARB"} => OtherWrite = reserve_start
    BY <1>1 DEF States, WritePointer, OtherWrite
  <1>8. i < ReadWrite
    BY <1>3, <1>4, <1>5 DEF InRead, InOther
  <1>9. i \in Offsets
    BY <1>3, <1>8, ConstantsAssumption DEF Offsets
  <1>10. CASE state \in {"WARA", "WBRB"}
    BY <1>6, <1>8, <1>9, <1>10
  <1>11. CASE state \in {"WBRA", "WARB"}
    <2>1. CASE InRead(live[k])
      BY <1>1, <1>2, <1>3, <1>4, <1>9, <1>11, <2>1 DEF InRead
    <2>2. CASE InOther(live[k])
      BY <1>2, <1>3, <1>4, <1>7, <1>9, <1>11, <2>2 DEF InOther
    <2>. QED  BY <1>5, <2>1, <2>2
  <1>. QED  BY <1>1, <1>10, <1>11 DEF States

LEMMA AppendView ==
  ASSUME NEW S, NEW q \in Seq(S), NEW e \in S
  PROVE  /\ Len(q) \in Nat /\ DOMAIN q = 1 .. Len(q)
         /\ Len(Append(q, e)) = Len(q) + 1
         /\ DOMAIN Append(q, e) = 1 .. Len(q) + 1
         /\ Append(q, e) # <<>>
         /\ \A k \in 1 .. Len(q) : Append(q, e)[k] = q[k]
         /\ Append(q, e)[Len(q) + 1] = e
  OBVIOUS

\* A stored string comes to lie behind everything unread: at the write pointer
\* of the region that is read, or at that of the other one once it is in use.
LEMMA StoredQueue ==
  ASSUME Disciplined, QueueInv, NEW s \in Strings, FitsReservation(s), EnqueueStored(s)
  PROVE  QueueInv'
  <1>. PICK e : e = [at |-> reserve_start, str |-> s]
    OBVIOUS
  <1>. PICK n : n = Len(live)
    OBVIOUS
  <1>1. PointerInv'
    BY EnqueueKeeps DEF QueueInv, WriterEnqueues, Enqueue
  <1>2. /\ s \in Seq(Chars) /\ Len(s) \in Nat /\ Len(s) > 0 /\ s # <<>>
        /\ reserve_start \in Offsets /\ reserve_start \in Nat
        /\ reserve_end \in Offsets /\ reserve_end \in Nat
        /\ Past(e) = reserve_start + Len(s) + 2 /\ Past(e) < reserve_end /\ Past(e) \in Nat
        /\ Copied(s) = Len(s) + 1
    BY StoredShape, ConstantsAssumption DEF QueueInv, EnqueueStored, Past, Offsets
  <1>3. /\ ReadPointer' = ReadPointer
        /\ \/ /\ state \in {"WARA", "WBRB"} /\ OtherWrite = 0 /\ OtherWrite' = 0
              /\ ReadWrite = reserve_start /\ ReadWrite' = Past(e)
           \/ /\ state \in {"WBRA", "WARB"} /\ ReadWrite' = ReadWrite
              /\ OtherWrite = reserve_start /\ OtherWrite' = Past(e)
              /\ reserve_end <= ReadPointer
    <2>1. /\ state \in States /\ state' = state /\ read_a' = read_a /\ read_b' = read_b
          /\ reserve_start = WritePointer(state)
          /\ state \in {"WBRA", "WARB"} => reserve_end <= ReadPointer
      BY DEF QueueInv, PointerInv, TypeOK, EnqueueStored, ReservationHolds
    <2>2. \/ state \in {"WARA", "WARB"} /\ write_a' = Past(e) /\ write_b' = write_b
          \/ state \in {"WBRA", "WBRB"} /\ write_b' = Past(e) /\ write_a' = write_a
      BY <1>2, <2>1 DEF EnqueueStored, States
    <2>3. state \in {"WARA", "WBRB"} => OtherWrite = 0
      BY ReadersView DEF QueueInv
    <2>. QED
      BY <2>1, <2>2, <2>3 DEF States, WritePointer, ReadPointer, ReadWrite, OtherWrite
  <1>4. /\ n \in Nat /\ DOMAIN live = 1 .. n
        /\ Len(live') = n + 1 /\ DOMAIN live' = 1 .. n + 1 /\ live' # <<>>
        /\ \A k \in 1 .. n : live'[k] = live[k]
        /\ live'[n + 1] = e
    <2>1. live \in Seq([at : Offsets, str : Strings]) /\ e \in [at : Offsets, str : Strings]
      BY <1>2 DEF QueueInv, PointerInv, TypeOK
    <2>2. live' = Append(live, e)
      BY DEF EnqueueStored
    <2>. QED  BY <2>1, <2>2, AppendView
  <1>5. e.at = reserve_start /\ e.str = s
    OBVIOUS
  <1>6. /\ ReadPointer \in Nat /\ ReadWrite \in Nat /\ OtherWrite \in Nat
        /\ state \in {"WBRA", "WARB"} => OtherWrite < ReadPointer /\ ReadPointer < ReadWrite
        /\ ReadPointer <= ReadWrite /\ OtherWrite <= ReadWrite /\ ReadWrite < Last
        /\ IsBufferEmpty <=> ReadWrite = 0 /\ OtherWrite = 0
    BY ReadersView DEF QueueInv
  <1>7. \A k \in 1 .. n :
          /\ live[k].at \in Nat /\ Past(live[k]) \in Nat /\ live[k].at < Past(live[k])
          /\ live[k].str \in Seq(Chars) /\ Len(live[k].str) \in Nat
          /\ Past(live[k]) = live[k].at + Len(live[k].str) + 2
    BY <1>4, EntryType DEF QueueInv, PointerInv
  <1>8. \A k \in 1 .. n :
          /\ live[k].str # <<>>
          /\ InRead(live[k]) \/ InOther(live[k])
          /\ InRead(live[k]) => InRead(live[k])'
          /\ InOther(live[k]) => InOther(live[k])'
          /\ state \in {"WARA", "WBRB"} => InRead(live[k]) /\ ~InOther(live[k])
    <2>. TAKE k \in 1 .. n
    <2>1. live[k].str # <<>> /\ (InRead(live[k]) \/ InOther(live[k]))
      BY <1>4 DEF QueueInv, EntriesPlaced
    <2>2. live'[k] = live[k] /\ Past(live[k])' = Past(live[k])
      BY <1>4 DEF Past
    <2>. QED  BY <2>1, <2>2, <1>2, <1>3, <1>6, <1>7 DEF InRead, InOther
  <1>9. IF state \in {"WARA", "WBRB"} THEN InRead(e)' ELSE InOther(e)'
    BY <1>2, <1>3, <1>5, <1>6 DEF InRead, InOther, Past
  <1>10. EntriesPlaced'
    BY <1>2, <1>4, <1>5, <1>8, <1>9 DEF EntriesPlaced
  <1>11. EndsPlaced'
    <2>1. live'[1].at = ReadPointer
      <3>1. CASE n = 0
        <4>1. live = <<>> /\ 1 = n + 1
          BY <1>4, <3>1 DEF QueueInv, PointerInv, TypeOK
        <4>2. ReadWrite = 0 /\ OtherWrite = 0
          BY <1>6, <4>1 DEF QueueInv, EndsPlaced
        <4>. QED  BY <1>3, <1>4, <1>5, <1>6, <4>1, <4>2
      <3>2. CASE n # 0
        <4>1. live # <<>> /\ 1 \in 1 .. n
          BY <1>4, <3>2
        <4>. QED  BY <1>4, <4>1 DEF QueueInv, EndsPlaced
      <3>. QED  BY <3>1, <3>2
    <2>2. Past(live'[n + 1]) = IF OtherWrite' = 0 THEN ReadWrite' ELSE OtherWrite'
      BY <1>2, <1>3, <1>4
    <2>3. ~IsBufferEmpty'
      <3>1. write_a' = Past(e) \/ write_b' = Past(e)
        BY <1>5, <1>2 DEF EnqueueStored, Past
      <3>. QED  BY <1>2, <3>1 DEF IsBufferEmpty
    <2>. QED  BY <1>3, <1>4, <2>1, <2>2, <2>3 DEF EndsPlaced, Past
  <1>12. EndToEnd'
    <2>. SUFFICES ASSUME NEW k \in 1 .. n
                  PROVE  \/ live'[k + 1].at = Past(live'[k])
                         \/ /\ Past(live'[k]) = ReadWrite' /\ live'[k + 1].at = 0
                            /\ InOther(live[k + 1])'
      BY <1>4 DEF EndToEnd, Past
    <2>1. CASE k = n
      <3>1. live # <<>> /\ live'[k + 1] = e /\ live'[k] = live[n]
        BY <1>4, <2>1
      <3>2. Past(live[n]) = IF OtherWrite = 0 THEN ReadWrite ELSE OtherWrite
        BY <3>1 DEF QueueInv, EndsPlaced
      <3>3. state \in States
        BY DEF QueueInv, PointerInv, TypeOK
      <3>. QED  BY <1>3, <1>5, <1>9, <3>1, <3>2, <3>3 DEF States, InOther
    <2>2. CASE k # n
      <3>1. k \in 1 .. n - 1 /\ k + 1 \in 1 .. n /\ live'[k] = live[k] /\ live'[k + 1] = live[k + 1]
        BY <1>4, <2>2
      <3>2. \/ live[k + 1].at = Past(live[k])
            \/ Past(live[k]) = ReadWrite /\ live[k + 1].at = 0 /\ InOther(live[k + 1])
        BY <3>1 DEF QueueInv, EndToEnd
      <3>. QED  BY <1>3, <1>8, <3>1, <3>2
    <2>. QED  BY <2>1, <2>2
  <1>13. InOrder'
    <2>. SUFFICES ASSUME NEW j \in 1 .. n + 1, NEW k \in 1 .. n + 1, j < k
                  PROVE  \/ Past(live'[j]) <= live'[k].at
                         \/ InRead(live[j])' /\ InOther(live[k])'
      BY <1>4 DEF InOrder, Past
    <2>1. j \in 1 .. n /\ live'[j] = live[j]
      BY <1>4
    <2>2. CASE k = n + 1
      <3>1. live'[k] = e
        BY <1>4, <2>2
      <3>2. CASE state \in {"WARA", "WBRB"}
        BY <1>3, <1>5, <1>8, <2>1, <3>1, <3>2 DEF InRead
      <3>3. CASE state \in {"WBRA", "WARB"}
        BY <1>3, <1>5, <1>8, <1>9, <2>1, <3>1, <3>3 DEF InOther
      <3>. QED  BY <1>3, <3>2, <3>3
    <2>3. CASE k # n + 1
      <3>1. k \in 1 .. n /\ live'[k] = live[k]
        BY <1>4, <2>3
      <3>2. Past(live[j]) <= live[k].at \/ (InRead(live[j]) /\ InOther(live[k]))
        BY <1>4, <2>1, <3>1 DEF QueueInv, InOrder
      <3>. QED  BY <1>8, <2>1, <3>1, <3>2
    <2>. QED  BY <2>2, <2>3
  <1>14. UnreadIntact'
    <2>1. mem' = MemAfterCopy(s) /\ s # <<>> /\ Reserved
      BY DEF EnqueueStored
    <2>2. \A i \in Offsets :
            /\ i < reserve_start \/ i > reserve_start + Len(s) + 1 => mem'[i] = mem[i]
            /\ i \in reserve_start .. reserve_start + Len(s) - 1
                 => mem'[i] = s[i - reserve_start + 1]
            /\ i \in {reserve_start + Len(s), reserve_start + Len(s) + 1} => mem'[i] = NUL
      BY <2>1, StoredCells DEF QueueInv
    <2>. SUFFICES ASSUME NEW k \in 1 .. n + 1
                  PROVE  /\ \A i \in DOMAIN live'[k].str :
                              mem'[live'[k].at + i - 1] = live'[k].str[i]
                         /\ mem'[live'[k].at + Len(live'[k].str)] = NUL
      BY <1>4 DEF UnreadIntact
    <2>3. CASE k = n + 1
      <3>1. live'[k].at = reserve_start /\ live'[k].str = s
        BY <1>4, <1>5, <2>3
      <3>2. \A i \in 1 .. Len(s) + 1 : reserve_start + i - 1 \in Offsets
        BY <1>2, ConstantsAssumption DEF Offsets
      <3>3. ASSUME NEW i \in 1 .. Len(s)
            PROVE  mem'[reserve_start + i - 1] = s[i]
        <4>1. reserve_start + i - 1 \in reserve_start .. reserve_start + Len(s) - 1
          BY <1>2
        <4>2. (reserve_start + i - 1) - reserve_start + 1 = i /\ i \in 1 .. Len(s) + 1
          BY <1>2
        <4>. QED  BY <2>2, <3>2, <4>1, <4>2
      <3>4. mem'[reserve_start + Len(s)] = NUL
        <4>1. reserve_start + (Len(s) + 1) - 1 = reserve_start + Len(s)
          BY <1>2
        <4>2. reserve_start + Len(s) \in Offsets
          BY <1>2, <3>2, <4>1
        <4>. QED  BY <2>2, <4>2
      <3>5. DOMAIN s = 1 .. Len(s)
        BY <1>2
      <3>. QED  BY <3>1, <3>3, <3>4, <3>5
    <2>4. CASE k # n + 1
      <3>1. k \in 1 .. n /\ live'[k] = live[k]
        BY <1>4, <2>4
      <3>2. /\ \A i \in DOMAIN live[k].str : mem[live[k].at + i - 1] = live[k].str[i]
            /\ mem[live[k].at + Len(live[k].str)] = NUL
        BY <1>4, <3>1 DEF QueueInv, UnreadIntact
      <3>3. ASSUME NEW c \in Nat, live[k].at <= c, c < Past(live[k])
            PROVE  mem'[c] = mem[c]
        <4>1. c \in Offsets /\ (c < reserve_start \/ c >= reserve_end)
          BY <1>4, <1>7, <2>1, <3>1, <3>3, UnreadOutside
        <4>. QED  BY <1>2, <2>2, <3>3, <4>1
      <3>4. DOMAIN live[k].str = 1 .. Len(live[k].str)
        BY <1>7, <3>1
      <3>5. ASSUME NEW i \in 1 .. Len(live[k].str) + 1
            PROVE  mem'[live[k].at + i - 1] = mem[live[k].at + i - 1]
        <4>. DEFINE c == live[k].at + i - 1
        <4>1. c \in Nat /\ live[k].at <= c /\ c < Past(live[k])
          BY <1>7, <3>1
        <4>. HIDE DEF c
        <4>2. mem'[c] = mem[c]
          BY <3>3, <4>1
        <4>. QED  BY <4>2 DEF c
      <3>6. mem'[live[k].at + Len(live[k].str)] = mem[live[k].at + Len(live[k].str)]
        <4>. DEFINE c == live[k].at + Len(live[k].str)
        <4>1. c \in Nat /\ live[k].at <= c /\ c < Past(live[k])
          BY <1>7, <3>1
        <4>. HIDE DEF c
        <4>2. mem'[c] = mem[c]
          BY <3>3, <4>1
        <4>. QED  BY <4>2 DEF c
      <3>. QED  BY <1>7, <3>1, <3>2, <3>4, <3>5, <3>6
    <2>. QED  BY <2>3, <2>4
  <1>. QED  BY <1>1, <1>10, <1>11, <1>12, <1>13, <1>14 DEF QueueInv

\* A long string is copied into its reservation and counted nowhere: no unread
\* string is touched.
LEMMA LongQueue ==
  ASSUME Disciplined, QueueInv, NEW s \in Strings, FitsReservation(s), EnqueueLong(s)
  PROVE  QueueInv'
  <1>1. PointerInv'
    BY EnqueueKeeps DEF QueueInv, WriterEnqueues, Enqueue
  <1>2. s # <<>> /\ Reserved /\ mem' = MemAfterCopy(s) /\ live' = live
    BY DEF EnqueueLong
  <1>3. /\ Len(s) \in Nat /\ reserve_start \in Nat /\ reserve_end \in Nat
        /\ reserve_start + Len(s) + 1 < reserve_end
    BY <1>2, StoredShape, ConstantsAssumption DEF QueueInv, Offsets
  <1>4. ASSUME NEW k \in DOMAIN live, NEW i \in Nat, live[k].at <= i, i < Past(live[k])
        PROVE  mem'[i] = mem[i]
    <2>1. i \in Offsets /\ (i < reserve_start \/ i >= reserve_end)
      BY <1>2, <1>4, UnreadOutside
    <2>2. i < reserve_start \/ i > reserve_start + Len(s) + 1
      BY <1>3, <1>4, <2>1
    <2>. QED  BY <1>2, <2>1, <2>2, StoredCells DEF QueueInv
  <1>5. UnreadIntact'
    <2>. SUFFICES ASSUME NEW k \in DOMAIN live
                  PROVE  /\ \A i \in DOMAIN live[k].str :
                              mem'[live[k].at + i - 1] = live[k].str[i]
                         /\ mem'[live[k].at + Len(live[k].str)] = NUL
      BY <1>2 DEF UnreadIntact
    <2>1. /\ live[k].at \in Nat /\ Len(live[k].str) \in Nat
          /\ Past(live[k]) = live[k].at + Len(live[k].str) + 2
          /\ live[k].str \in Seq(Chars)
      BY EntryType DEF QueueInv, PointerInv
    <2>2. /\ \A i \in DOMAIN live[k].str : mem[live[k].at + i - 1] = live[k].str[i]
          /\ mem[live[k].at + Len(live[k].str)] = NUL
      BY DEF QueueInv, UnreadIntact
    <2>3. ASSUME NEW i \in 1 .. Len(live[k].str) + 1
          PROVE  mem'[live[k].at + i - 1] = mem[live[k].at + i - 1]
      <3>1. PICK c \in Nat : c = live[k].at + i - 1
        BY <2>1
      <3>2. live[k].at <= c /\ c < Past(live[k])
        BY <2>1, <3>1
      <3>. QED  BY <1>4, <3>1, <3>2
    <2>4. DOMAIN live[k].str = 1 .. Len(live[k].str)
      BY <2>1
    <2>5. ASSUME NEW i \in DOMAIN live[k].str
          PROVE  mem'[live[k].at + i - 1] = live[k].str[i]
      <3>1. i \in 1 .. Len(live[k].str) + 1
        BY <2>1, <2>4
      <3>. QED  BY <2>2, <2>3, <3>1
    <2>6. mem'[live[k].at + Len(live[k].str)] = NUL
      <3>1. PICK i \in 1 .. Len(live[k].str) + 1 : i = Len(live[k].str) + 1
        BY <2>1
      <3>2. live[k].at + i - 1 = live[k].at + Len(live[k].str)
        BY <2>1, <3>1
      <3>. QED  BY <2>2, <2>3, <3>2
    <2>. QED  BY <2>5, <2>6
  <1>6. ReadPointer' = ReadPointer /\ ReadWrite' = ReadWrite /\ OtherWrite' = OtherWrite
    BY DEF EnqueueLong, pointers, ReadPointer, ReadWrite, OtherWrite
  <1>. QED  BY <1>1, <1>2, <1>5, <1>6, PlacesStay

LEMMA EnqueueQueue ==
  ASSUME Disciplined, QueueInv, NEW s \in Strings, WriterEnqueues(s)
  PROVE  QueueInv'
  <1>1. PointerInv'
    BY EnqueueKeeps DEF QueueInv
  <1>2. CASE EnqueueUnreserved
    BY <1>1, <1>2, SamePlaces
    DEF EnqueueUnreserved, ReadPointer, ReadWrite, OtherWrite, pointers
  <1>3. CASE EnqueueNothing(s)
    BY <1>1, <1>3, SamePlaces
    DEF EnqueueNothing, ReadPointer, ReadWrite, OtherWrite, pointers
  <1>4. CASE EnqueueLong(s)
    BY <1>4, LongQueue DEF WriterEnqueues
  <1>5. CASE EnqueueStored(s)
    BY <1>5, StoredQueue DEF WriterEnqueues
  <1>. QED  BY <1>2, <1>3, <1>4, <1>5 DEF WriterEnqueues, Enqueue

-----------------------------------------------------------------------------
(* Dequeue. *)

LEMMA TailView ==
  ASSUME NEW S, NEW q \in Seq(S), q # <<>>
  PROVE  /\ Len(q) \in Nat /\ Len(q) >= 1 /\ DOMAIN q = 1 .. Len(q)
         /\ Tail(q) \in Seq(S)
         /\ Len(Tail(q)) = Len(q) - 1
         /\ DOMAIN Tail(q) = 1 .. Len(q) - 1
         /\ \A k \in 1 .. Len(q) - 1 : Tail(q)[k] = q[k + 1]
         /\ Tail(q) = <<>> <=> Len(q) = 1
  <1>1. Len(q) \in Nat /\ Len(q) >= 1 /\ DOMAIN q = 1 .. Len(q)
    OBVIOUS
  <1>2. Tail(q) \in Seq(S) /\ Len(Tail(q)) = Len(q) - 1
    OBVIOUS
  <1>3. \A k \in 1 .. Len(q) - 1 : Tail(q)[k] = q[k + 1]
    OBVIOUS
  <1>. QED  BY <1>1, <1>2, <1>3

\* Whatever string the reader finds at its pointer is the oldest one unread.
LEMMA FoundIsHead ==
  ASSUME QueueInv, ~IsBufferEmpty, NEW n \in Offsets, StringAt(ReadPointer, n)
  PROVE  /\ live # <<>> /\ 1 \in DOMAIN live
         /\ n = Len(live[1].str)
         /\ \A i \in 1 .. n : mem[ReadPointer + i - 1] = live[1].str[i]
         /\ ReadPast(n) = Past(live[1])
         /\ InRead(live[1]) /\ ~InOther(live[1])
  <1>1. live # <<>> /\ live[1].at = ReadPointer /\ 1 \in DOMAIN live
    BY TailView DEF QueueInv, EndsPlaced, PointerInv, TypeOK
  <1>. PICK s : s = live[1].str
    OBVIOUS
  <1>2. /\ s \in Seq(Chars) /\ Len(s) \in Nat
        /\ Past(live[1]) \in Nat /\ Past(live[1]) = ReadPointer + Len(s) + 2
    BY <1>1, EntryType DEF QueueInv, PointerInv
  <1>3. DOMAIN s = 1 .. Len(s) /\ \A i \in 1 .. Len(s) : s[i] # NUL
    <2>1. \A i \in 1 .. Len(s) : s[i] \in Chars
      BY <1>2
    <2>. QED  BY <1>2, <2>1, ConstantsAssumption
  <1>4. /\ \A i \in 1 .. Len(s) : mem[ReadPointer + i - 1] = s[i]
        /\ mem[ReadPointer + Len(s)] = NUL
    BY <1>1, <1>3 DEF QueueInv, UnreadIntact
  <1>5. /\ n \in Nat /\ ReadPointer \in Nat /\ OtherWrite \in Nat
        /\ OtherWrite = 0 \/ OtherWrite < ReadPointer
    BY ReadersView, ConstantsAssumption DEF QueueInv, Offsets
  <1>6. /\ mem[ReadPointer + n] = NUL
        /\ \A i \in ReadPointer .. ReadPointer + n - 1 : mem[i] # NUL
    BY DEF StringAt
  <1>7. ~(n < Len(s))
    <2>1. SUFFICES ASSUME n < Len(s)  PROVE FALSE
      OBVIOUS
    <2>2. n + 1 \in 1 .. Len(s) /\ ReadPointer + (n + 1) - 1 = ReadPointer + n
      BY <1>2, <1>5, <2>1
    <2>3. mem[ReadPointer + n] = s[n + 1]
      BY <1>4, <2>2
    <2>. QED  BY <1>3, <1>6, <2>2, <2>3
  <1>8. ~(n > Len(s))
    BY <1>2, <1>4, <1>5, <1>6
  <1>9. n = Len(s)
    BY <1>2, <1>5, <1>7, <1>8
  <1>10. ~InOther(live[1])
    BY <1>2, <1>5 DEF InOther
  <1>11. InRead(live[1])
    BY <1>1, <1>10 DEF QueueInv, EntriesPlaced
  <1>. QED  BY <1>1, <1>2, <1>4, <1>9, <1>10, <1>11 DEF ReadPast

\* The reader's pointers after it took a string.
LEMMA TakenPointers ==
  ASSUME PointerInv, NEW n \in Offsets,
         IF Drains(n) THEN ResetRegion ELSE Advance(n)
  PROVE  \/ /\ ReadPast(n) >= ReadWrite
            /\ ReadPointer' = 0 /\ ReadWrite' = OtherWrite /\ OtherWrite' = 0
            /\ IsBufferEmpty' <=> OtherWrite = 0
         \/ /\ ReadPast(n) < ReadWrite
            /\ ReadPointer' = ReadPast(n) /\ ReadWrite' = ReadWrite
            /\ OtherWrite' = OtherWrite
            /\ ~IsBufferEmpty'
  <1>. DEFINE past == ReadPast(n)
  <1>1. /\ past \in Nat /\ past > ReadPointer /\ past > 0
        /\ read_a \in Nat /\ read_b \in Nat /\ write_a \in Nat /\ write_b \in Nat
        /\ state \in States /\ RegionsApart
    BY ConstantsAssumption DEF PointerInv, TypeOK, ReadPast, ReadPointer, Offsets
  <1>2. Drains(n) <=>
          /\ past >= Higher(write_a, write_b)
          /\ past >= IF state \in {"WARA", "WBRA"} THEN write_a ELSE write_b
    BY DEF Drains
  <1>3. Advance(n) =>
          /\ UNCHANGED <<write_a, write_b, state>>
          /\ IF state \in {"WARA", "WBRA"}
             THEN read_a' = past /\ UNCHANGED read_b
             ELSE read_b' = past /\ UNCHANGED read_a
    BY DEF Advance
  <1>. HIDE DEF past
  <1>4. CASE Drains(n)
    BY <1>1, <1>2, <1>4
    DEF ResetRegion, RegionsApart, States, ReadPointer, ReadWrite, OtherWrite, IsBufferEmpty,
        Higher, past
  <1>5. CASE ~Drains(n)
    BY <1>1, <1>2, <1>3, <1>5
    DEF RegionsApart, States, ReadPointer, ReadWrite, OtherWrite, IsBufferEmpty, Higher, past
  <1>. QED  BY <1>4, <1>5

\* Taking the head leaves the other strings where they are: the next one begins
\* at the read pointer, in the same region or, when that one is drained, at the
\* start of the other.
LEMMA TakenQueue ==
  ASSUME Disciplined, QueueInv, NEW size \in DestSizes, ReaderDequeues(size), DequeueTaken(size)
  PROVE  QueueInv'
  <1>1. PointerInv'
    BY DequeueKeeps DEF QueueInv
  <1>2. PICK n \in Offsets :
          /\ StringAt(ReadPointer, n)
          /\ IF Drains(n) THEN ResetRegion ELSE Advance(n)
    BY DEF DequeueTaken
  <1>. PICK m : m = Len(live)
    OBVIOUS
  <1>. PICK past : past = Past(live[1])
    OBVIOUS
  <1>3. /\ live # <<>> /\ InRead(live[1]) /\ ~InOther(live[1])
        /\ ReadPast(n) = past
    BY <1>2, FoundIsHead DEF DequeueTaken, QueueInv
  <1>4. \/ /\ past >= ReadWrite
           /\ ReadPointer' = 0 /\ ReadWrite' = OtherWrite /\ OtherWrite' = 0
           /\ IsBufferEmpty' <=> OtherWrite = 0
        \/ /\ past < ReadWrite
           /\ ReadPointer' = past /\ ReadWrite' = ReadWrite /\ OtherWrite' = OtherWrite
           /\ ~IsBufferEmpty'
    BY <1>2, <1>3, TakenPointers DEF QueueInv
  <1>5. /\ m \in Nat /\ m >= 1 /\ DOMAIN live = 1 .. m
        /\ Len(live') = m - 1 /\ DOMAIN live' = 1 .. m - 1
        /\ \A k \in 1 .. m - 1 : live'[k] = live[k + 1]
        /\ live' = <<>> <=> m = 1
    <2>1. live' = Tail(live) /\ live \in Seq([at : Offsets, str : Strings])
      BY <1>3 DEF DequeueTaken, QueueInv, PointerInv, TypeOK
    <2>. QED  BY <1>3, <2>1, TailView
  <1>6. /\ ReadPointer \in Nat /\ ReadWrite \in Nat /\ OtherWrite \in Nat
        /\ OtherWrite = 0 \/ OtherWrite < ReadPointer
        /\ ReadPointer <= ReadWrite /\ OtherWrite <= ReadWrite
    BY ReadersView DEF QueueInv
  <1>7. \A k \in 1 .. m :
          /\ live[k].at \in Nat /\ Past(live[k]) \in Nat /\ live[k].at < Past(live[k])
    BY <1>5, EntryType DEF QueueInv, PointerInv
  <1>8. past \in Nat /\ ReadPointer < past /\ past <= ReadWrite /\ OtherWrite < past
    BY <1>3, <1>5, <1>6, <1>7 DEF InRead, InOther
  <1>9. \A k \in 2 .. m :
          /\ live[k].str # <<>>
          /\ InRead(live[k]) => past <= live[k].at
          /\ InRead(live[k]) \/ InOther(live[k])
    <2>. TAKE k \in 2 .. m
    <2>1. 1 \in DOMAIN live /\ k \in DOMAIN live /\ k \in 1 .. m /\ 1 < k
      BY <1>5
    <2>2. live[k].str # <<>> /\ (InRead(live[k]) \/ InOther(live[k]))
      BY <2>1 DEF QueueInv, EntriesPlaced
    <2>3. past <= live[k].at \/ InOther(live[k])
      BY <2>1 DEF QueueInv, InOrder
    <2>4. InRead(live[k]) => ~InOther(live[k])
      BY <1>6, <1>7, <2>1 DEF InRead, InOther
    <2>. QED  BY <2>2, <2>3, <2>4
  <1>10. \A k \in 1 .. m - 1 :
           /\ past < ReadWrite => /\ InRead(live[k])' <=> InRead(live[k + 1])
                                  /\ InOther(live[k])' <=> InOther(live[k + 1])
           /\ past = ReadWrite => InOther(live[k + 1]) /\ InRead(live[k])'
    <2>. TAKE k \in 1 .. m - 1
    <2>. PICK f : f = live[k + 1]
      OBVIOUS
    <2>1. live'[k] = f /\ k + 1 \in 2 .. m /\ k + 1 \in 1 .. m
      BY <1>5
    <2>2. /\ f.at \in Nat /\ Past(f) \in Nat /\ f.at < Past(f)
          /\ InRead(f) => past <= f.at
          /\ InRead(f) \/ InOther(f)
      BY <1>7, <1>9, <2>1
    <2>3. /\ InRead(live[k])' <=> ReadPointer' <= f.at /\ Past(f) <= ReadWrite'
          /\ InOther(live[k])' <=> Past(f) <= OtherWrite'
      BY <2>1 DEF InRead, InOther, Past
    <2>. QED  BY <1>4, <1>6, <1>8, <2>2, <2>3 DEF InRead, InOther
  <1>11. EntriesPlaced'
    <2>. SUFFICES ASSUME NEW k \in 1 .. m - 1
                  PROVE  live'[k].str # <<>> /\ (InRead(live[k])' \/ InOther(live[k])')
      BY <1>5 DEF EntriesPlaced
    <2>1. k + 1 \in 2 .. m /\ live'[k] = live[k + 1]
      BY <1>5
    <2>. QED  BY <1>6, <1>8, <1>9, <1>10, <2>1
  <1>12. Past(live[m]) = IF OtherWrite = 0 THEN ReadWrite ELSE OtherWrite
    BY <1>3 DEF QueueInv, EndsPlaced
  <1>13. EndsPlaced'
    <2>1. CASE m = 1
      <3>1. OtherWrite = 0 /\ past = ReadWrite
        BY <1>8, <1>12, <2>1
      <3>2. IsBufferEmpty'
        BY <1>4, <1>6, <3>1
      <3>. QED  BY <1>5, <2>1, <3>2 DEF EndsPlaced
    <2>2. CASE m > 1
      <3>1. 1 \in 1 .. m - 1 /\ m - 1 \in 1 .. m - 1 /\ (m - 1) + 1 = m /\ m \in 1 .. m
        BY <1>5, <2>2
      <3>2. \/ live[2].at = past
            \/ past = ReadWrite /\ live[2].at = 0 /\ InOther(live[2])
        BY <3>1 DEF QueueInv, EndToEnd
      <3>3. live'[1] = live[2] /\ live'[m - 1] = live[m]
        BY <1>5, <3>1
      <3>4. CASE past < ReadWrite
        BY <1>4, <1>5, <1>6, <1>12, <2>2, <3>2, <3>3, <3>4 DEF EndsPlaced, Past
      <3>5. CASE past = ReadWrite
        <4>1. InOther(live[2]) /\ InOther(live[m])
          <5>1. InOther(live[1 + 1]) /\ InOther(live[(m - 1) + 1])
            BY <1>10, <3>1, <3>5
          <5>2. 1 + 1 = 2
            OBVIOUS
          <5>. QED  BY <3>1, <5>1, <5>2
        <4>2. live[2].at = 0
          BY <1>6, <1>7, <1>8, <3>1, <3>2, <3>5, <4>1 DEF InOther
        <4>3. OtherWrite # 0
          BY <1>6, <1>7, <3>1, <4>1 DEF InOther
        <4>. QED  BY <1>4, <1>5, <1>6, <1>12, <2>2, <3>3, <3>5, <4>2, <4>3 DEF EndsPlaced, Past
      <3>. QED  BY <1>6, <1>8, <3>4, <3>5
    <2>. QED  BY <1>5, <2>1, <2>2
  <1>14. EndToEnd'
    <2>. SUFFICES ASSUME NEW k \in 1 .. (m - 1) - 1
                  PROVE  \/ live'[k + 1].at = Past(live'[k])
                         \/ /\ Past(live'[k]) = ReadWrite' /\ live'[k + 1].at = 0
                            /\ InOther(live[k + 1])'
      BY <1>5 DEF EndToEnd, Past
    <2>1. /\ k \in 1 .. m - 1 /\ k + 1 \in 1 .. m - 1 /\ k + 1 \in 1 .. m /\ (k + 1) + 1 \in 1 .. m
          /\ live'[k] = live[k + 1] /\ live'[k + 1] = live[(k + 1) + 1]
      BY <1>5
    <2>2. \/ live[(k + 1) + 1].at = Past(live[k + 1])
          \/ /\ Past(live[k + 1]) = ReadWrite /\ live[(k + 1) + 1].at = 0
             /\ InOther(live[(k + 1) + 1])
      BY <2>1 DEF QueueInv, EndToEnd
    <2>3. CASE past < ReadWrite
      <3>1. InOther(live[k + 1])' <=> InOther(live[(k + 1) + 1])
        BY <1>10, <2>1, <2>3
      <3>2. ReadWrite' = ReadWrite
        BY <1>4, <1>6, <1>8, <2>3
      <3>. QED  BY <2>1, <2>2, <3>1, <3>2
    <2>4. CASE past = ReadWrite
      <3>1. InOther(live[k + 1])
        BY <1>10, <2>1, <2>4
      <3>. QED  BY <1>6, <1>7, <1>8, <2>1, <2>2, <2>4, <3>1 DEF InOther
    <2>. QED  BY <1>6, <1>8, <2>3, <2>4
  <1>15. InOrder'
    <2>. SUFFICES ASSUME NEW j \in 1 .. m - 1, NEW k \in 1 .. m - 1, j < k
                  PROVE  \/ Past(live'[j]) <= live'[k].at
                         \/ InRead(live[j])' /\ InOther(live[k])'
      BY <1>5 DEF InOrder, Past
    <2>1. /\ j + 1 \in DOMAIN live /\ k + 1 \in DOMAIN live /\ j + 1 < k + 1
          /\ j + 1 \in 1 .. m /\ k + 1 \in 1 .. m
          /\ live'[j] = live[j + 1] /\ live'[k] = live[k + 1]
      BY <1>5
    <2>2. \/ Past(live[j + 1]) <= live[k + 1].at
          \/ InRead(live[j + 1]) /\ InOther(live[k + 1])
      BY <2>1 DEF QueueInv, InOrder
    <2>3. CASE past < ReadWrite
      BY <1>10, <2>1, <2>2, <2>3
    <2>4. CASE past = ReadWrite
      <3>1. InOther(live[j + 1])
        BY <1>10, <2>4, <1>6
      <3>2. ~InRead(live[j + 1])
        BY <1>6, <1>7, <2>1, <3>1 DEF InRead, InOther
      <3>. QED  BY <2>1, <2>2, <3>2
    <2>. QED  BY <1>6, <1>8, <2>3, <2>4
  <1>16. UnreadIntact'
    <2>. SUFFICES ASSUME NEW k \in 1 .. m - 1
                  PROVE  /\ \A i \in DOMAIN live'[k].str :
                              mem'[live'[k].at + i - 1] = live'[k].str[i]
                         /\ mem'[live'[k].at + Len(live'[k].str)] = NUL
      BY <1>5 DEF UnreadIntact
    <2>1. k + 1 \in DOMAIN live /\ live'[k] = live[k + 1] /\ mem' = mem
      BY <1>5 DEF DequeueTaken
    <2>. QED  BY <2>1 DEF QueueInv, UnreadIntact
  <1>. QED  BY <1>1, <1>11, <1>13, <1>14, <1>15, <1>16 DEF QueueInv

LEMMA DequeueQueue ==
  ASSUME Disciplined, QueueInv, NEW size \in DestSizes, ReaderDequeues(size)
  PROVE  QueueInv'
  <1>1. PointerInv'
    BY DequeueKeeps DEF QueueInv
  <1>2. CASE DequeueEmpty
    <2>1. ReadPointer' = ReadPointer /\ ReadWrite' = ReadWrite /\ OtherWrite' = OtherWrite
      BY <1>2, ReadersView DEF QueueInv, PointerInv, TypeOK, RegionsApart, States, DequeueEmpty,
                  IsBufferEmpty, ReadPointer, ReadWrite, OtherWrite, pointers
    <2>. QED  BY <1>1, <1>2, <2>1, SamePlaces DEF DequeueEmpty
  <1>3. CASE DequeueTooSmall(size)
    BY <1>1, <1>3, SamePlaces
    DEF DequeueTooSmall, ReadPointer, ReadWrite, OtherWrite, pointers
  <1>4. CASE DequeueTaken(size)
    BY <1>4, TakenQueue
  <1>. QED  BY <1>2, <1>3, <1>4 DEF ReaderDequeues, Dequeue

-----------------------------------------------------------------------------
\* QueueInv is an invariant of the buffer: the unread strings lie end to end
\* between the pointers, and each is in memory as it was enqueued.
THEOREM StringsInPlace ==
  ASSUME Disciplined
  PROVE  Spec => []QueueInv
  <1>1. Init => QueueInv
    BY InitQueue
  <1>2. QueueInv /\ [Next]_vars => QueueInv'
    <2>. SUFFICES ASSUME QueueInv, [Next]_vars
                  PROVE  QueueInv'
      OBVIOUS
    <2>1. CASE SpaceAvailable
      BY <2>1, SpaceAvailableQueue
    <2>2. ASSUME NEW s \in Strings, ReserveFor(s)
          PROVE  QueueInv'
      <3>1. PICK h \in Headrooms : Len(s) + h >= 0 /\ Reserve(Len(s) + h)
        BY <2>2 DEF ReserveFor
      <3>2. Len(s) + h \in Nat
        BY <3>1, ConstantsAssumption
      <3>. QED  BY <3>1, <3>2, ReserveQueue
    <2>3. ASSUME NEW s \in Strings, WriterEnqueues(s)
          PROVE  QueueInv'
      BY <2>3, EnqueueQueue
    <2>4. ASSUME NEW size \in DestSizes, ReaderDequeues(size)
          PROVE  QueueInv'
      BY <2>4, DequeueQueue
    <2>5. CASE UNCHANGED vars
      <3>1. PointerInv'
        BY <2>5, StutterKeeps DEF QueueInv
      <3>. QED
        BY <2>5, <3>1, SamePlaces DEF vars, pointers, ReadPointer, ReadWrite, OtherWrite
    <2>. QED  BY <2>1, <2>2, <2>3, <2>4, <2>5 DEF Next
  <1>. QED  BY <1>1, <1>2, PTL DEF Spec

\* Every string written and not yet read is in memory, terminated, where enqueue
\* said it was.
THEOREM UnreadStaysIntact ==
  ASSUME Disciplined
  PROVE  Spec => []UnreadIntact
  BY StringsInPlace, PTL DEF QueueInv

\* enqueue changes no cell outside the reservation it was given.
THEOREM ReservationBoundsWrites ==
  ASSUME Disciplined
  PROVE  Spec => WritesInsideReservation
  <1>. DEFINE Bounded == \A i \in Offsets :
                           mem'[i] # mem[i] => reserve_start <= i /\ i < reserve_end
  <1>1. PointerInv /\ [Next]_vars => [Bounded]_vars
    <2>. SUFFICES ASSUME PointerInv, Next  PROVE Bounded
      OBVIOUS
    <2>1. CASE mem' = mem
      BY <2>1
    <2>2. CASE mem' # mem
      <3>1. PICK s \in Strings : WriterEnqueues(s) /\ (EnqueueLong(s) \/ EnqueueStored(s))
        BY <2>2
        DEF Next, SpaceAvailable, ReserveFor, Reserve, ReserveLocked, ReserveRefused,
            ReserveGranted, WriterEnqueues, Enqueue, EnqueueUnreserved, EnqueueNothing,
            ReaderDequeues, Dequeue, DequeueEmpty, DequeueTooSmall, DequeueTaken
      <3>2. s # <<>> /\ Reserved /\ FitsReservation(s) /\ mem' = MemAfterCopy(s)
        BY <3>1 DEF WriterEnqueues, EnqueueLong, EnqueueStored
      <3>3. /\ Len(s) \in Nat /\ reserve_start \in Nat /\ reserve_end \in Nat
            /\ reserve_start + Len(s) + 1 < reserve_end
        BY <3>2, StoredShape, ConstantsAssumption DEF Offsets
      <3>4. \A i \in Offsets :
              i < reserve_start \/ i > reserve_start + Len(s) + 1 => mem'[i] = mem[i]
        BY <3>2, StoredCells
      <3>. QED  BY <3>3, <3>4, ConstantsAssumption DEF Offsets
    <2>. QED  BY <2>1, <2>2
  <1>. QED  BY <1>1, PointersSafe, PTL DEF Spec, WritesInsideReservation

-----------------------------------------------------------------------------
(* The buffer implements StringQueue. *)

\* The queue the entries stand for.
StringsOf(entries) == [k \in DOMAIN entries |-> entries[k].str]

LEMMA StringsOfAppend ==
  ASSUME NEW S, NEW q \in Seq(S), NEW e \in S
  PROVE  StringsOf(Append(q, e)) = Append(StringsOf(q), e.str)
  <1>1. /\ DOMAIN q = 1 .. Len(q) /\ Len(q) \in Nat
        /\ DOMAIN Append(q, e) = 1 .. Len(q) + 1
        /\ \A k \in 1 .. Len(q) : Append(q, e)[k] = q[k]
        /\ Append(q, e)[Len(q) + 1] = e
    BY AppendView
  <1>2. Len(StringsOf(q)) = Len(q) /\ \A k \in 1 .. Len(q) : StringsOf(q)[k] = q[k].str
    BY <1>1 DEF StringsOf
  <1>3. Append(StringsOf(q), e.str) =
          [k \in 1 .. Len(q) + 1 |-> IF k <= Len(q) THEN q[k].str ELSE e.str]
    BY <1>1, <1>2
  <1>4. StringsOf(Append(q, e)) =
          [k \in 1 .. Len(q) + 1 |-> IF k <= Len(q) THEN q[k].str ELSE e.str]
    BY <1>1 DEF StringsOf
  <1>. QED  BY <1>3, <1>4

LEMMA SeqAsFunction ==
  ASSUME NEW S, NEW q \in Seq(S)
  PROVE  q = [k \in 1 .. Len(q) |-> q[k]]
  OBVIOUS

LEMMA StringsOfTail ==
  ASSUME NEW S, NEW q \in Seq(S), q # <<>>
  PROVE  /\ StringsOf(q) # <<>>
         /\ Head(StringsOf(q)) = q[1].str
         /\ StringsOf(Tail(q)) = Tail(StringsOf(q))
  <1>1. /\ Len(q) \in Nat /\ Len(q) >= 1 /\ DOMAIN q = 1 .. Len(q)
        /\ DOMAIN Tail(q) = 1 .. Len(q) - 1
        /\ \A k \in 1 .. Len(q) - 1 : Tail(q)[k] = q[k + 1]
    BY TailView
  <1>2. Len(StringsOf(q)) = Len(q) /\ \A k \in 1 .. Len(q) : StringsOf(q)[k] = q[k].str
    BY <1>1 DEF StringsOf
  <1>3. Tail(StringsOf(q)) = [k \in 1 .. Len(q) - 1 |-> q[k + 1].str]
    <2>. DEFINE T == {q[k].str : k \in 1 .. Len(q)}
    <2>. PICK t : t = StringsOf(q)
      OBVIOUS
    <2>1. t \in Seq(T) /\ t # <<>>
      BY <1>1, <1>2 DEF StringsOf
    <2>. HIDE DEF T
    <2>2. /\ Tail(t) \in Seq(T) /\ Len(Tail(t)) = Len(q) - 1
          /\ \A k \in 1 .. Len(q) - 1 : Tail(t)[k] = t[k + 1]
      BY <1>2, <2>1, TailView
    <2>3. \A k \in 1 .. Len(q) - 1 : Tail(t)[k] = q[k + 1].str
      BY <1>1, <1>2, <2>2
    <2>4. Tail(t) = [k \in 1 .. Len(q) - 1 |-> Tail(t)[k]]
      BY <2>2, SeqAsFunction
    <2>5. [k \in 1 .. Len(q) - 1 |-> Tail(t)[k]] = [k \in 1 .. Len(q) - 1 |-> q[k + 1].str]
      BY <2>3
    <2>. QED  BY <2>4, <2>5
  <1>4. StringsOf(Tail(q)) = [k \in 1 .. Len(q) - 1 |-> q[k + 1].str]
    BY <1>1 DEF StringsOf
  <1>. QED  BY <1>1, <1>2, <1>3, <1>4

\* What each call does to the queue and to the reader's buffer.
LEMMA QueueStep ==
  ASSUME Disciplined, QueueInv, [Next]_vars
  PROVE  [Queue!Next]_Queue!vars
  <1>. DEFINE queue == StringsOf(live)
  <1>1. live \in Seq([at : Offsets, str : Strings])
    BY DEF QueueInv, PointerInv, TypeOK
  <1>2. queue = <<>> <=> live = <<>>
    BY <1>1, StringsOfTail DEF StringsOf
  <1>3. CASE UNCHANGED <<live, dest>>
    BY <1>3 DEF Queue!vars
  <1>4. ASSUME NEW s \in Strings, FitsReservation(s), EnqueueStored(s)
        PROVE  Queue!Put(s)
    <2>. PICK e : e = [at |-> reserve_start, str |-> s]
      OBVIOUS
    <2>1. e \in [at : Offsets, str : Strings] /\ e.str = s
      BY <1>4, StoredShape DEF EnqueueStored, QueueInv
    <2>2. live' = Append(live, e) /\ s # <<>> /\ dest' = dest
      BY <1>4 DEF EnqueueStored
    <2>3. StringsOf(live') = Append(StringsOf(live), s)
      BY <1>1, <2>1, <2>2, StringsOfAppend
    <2>. QED  BY <2>2, <2>3 DEF Queue!Put, StringsOf
  <1>5. CASE DequeueEmpty
    <2>1. live = <<>> /\ live' = live /\ dest' = <<>>
      BY <1>5 DEF DequeueEmpty, QueueInv, EndsPlaced
    <2>. QED  BY <1>2, <2>1 DEF Queue!Next, Queue!Empty, StringsOf
  <1>6. ASSUME NEW size \in DestSizes, DequeueTooSmall(size)
        PROVE  Queue!TooSmall(size)
    <2>1. PICK n \in Offsets : StringAt(ReadPointer, n) /\ n + 1 >= size - 1
      BY <1>6 DEF DequeueTooSmall
    <2>2. live # <<>> /\ n = Len(live[1].str) /\ live' = live /\ dest' = <<>>
      BY <1>6, <2>1, FoundIsHead DEF DequeueTooSmall
    <2>3. StringsOf(live) # <<>> /\ Len(Head(StringsOf(live))) = n
      BY <1>1, <2>2, StringsOfTail
    <2>4. n \in Nat /\ size \in Nat
      BY ConstantsAssumption DEF Offsets
    <2>. QED  BY <2>1, <2>2, <2>3, <2>4 DEF Queue!TooSmall, StringsOf
  <1>7. ASSUME NEW size \in DestSizes, DequeueTaken(size)
        PROVE  Queue!Take
    <2>1. PICK n \in Offsets :
            StringAt(ReadPointer, n) /\ dest' = [i \in 1 .. n |-> mem[ReadPointer + i - 1]]
      BY <1>7 DEF DequeueTaken
    <2>2. /\ live # <<>> /\ 1 \in DOMAIN live /\ n = Len(live[1].str)
          /\ \A i \in 1 .. n : mem[ReadPointer + i - 1] = live[1].str[i]
          /\ live' = Tail(live)
      BY <1>7, <2>1, FoundIsHead DEF DequeueTaken
    <2>3. live[1].str \in Seq(Chars)
      BY <2>2, EntryType DEF QueueInv, PointerInv
    <2>4. dest' = live[1].str
      <3>1. live[1].str = [i \in 1 .. n |-> live[1].str[i]]
        BY <2>2, <2>3
      <3>2. dest' = [i \in 1 .. n |-> live[1].str[i]]
        BY <2>1, <2>2
      <3>. QED  BY <3>1, <3>2
    <2>5. /\ StringsOf(live) # <<>> /\ Head(StringsOf(live)) = live[1].str
          /\ StringsOf(live') = Tail(StringsOf(live))
      BY <1>1, <2>2, StringsOfTail
    <2>. QED  BY <2>4, <2>5 DEF Queue!Take, StringsOf
  <1>8. CASE SpaceAvailable
    BY <1>3, <1>8 DEF SpaceAvailable
  <1>9. ASSUME NEW s \in Strings, ReserveFor(s)
        PROVE  UNCHANGED <<live, dest>>
    BY <1>9 DEF ReserveFor, Reserve, ReserveLocked, ReserveRefused, ReserveGranted
  <1>10. ASSUME NEW s \in Strings, WriterEnqueues(s)
         PROVE  UNCHANGED <<live, dest>> \/ (FitsReservation(s) /\ EnqueueStored(s))
    BY <1>10 DEF WriterEnqueues, Enqueue, EnqueueUnreserved, EnqueueNothing, EnqueueLong
  <1>11. ASSUME NEW size \in DestSizes, ReaderDequeues(size)
         PROVE  DequeueEmpty \/ DequeueTooSmall(size) \/ DequeueTaken(size)
    BY <1>11 DEF ReaderDequeues, Dequeue
  <1>12. CASE UNCHANGED vars
    BY <1>3, <1>12 DEF vars
  <1>13. CASE Next
    <2>1. ASSUME NEW s \in Strings, ReserveFor(s) \/ WriterEnqueues(s)
          PROVE  [Queue!Next]_Queue!vars
      BY <1>3, <1>4, <1>9, <1>10, <2>1 DEF Queue!Next
    <2>2. ASSUME NEW size \in DestSizes, ReaderDequeues(size)
          PROVE  [Queue!Next]_Queue!vars
      BY <1>5, <1>6, <1>7, <1>11, <2>2 DEF Queue!Next
    <2>. QED  BY <1>8, <1>13, <2>1, <2>2 DEF Next
  <1>. QED  BY <1>12, <1>13

\* To its users the buffer is a first-in first-out queue of strings: none is
\* lost, none is read twice or out of order, and what is read is what was written.
THEOREM ImplementsQueue ==
  ASSUME Disciplined
  PROVE  Spec => QueueSpec
  <1>1. Init => Queue!Init
    BY DEF Init, Queue!Init
  <1>2. QueueInv /\ [Next]_vars => [Queue!Next]_Queue!vars
    BY QueueStep
  <1>. QED  BY <1>1, <1>2, StringsInPlace, PTL DEF Spec, QueueSpec, Queue!Spec
=============================================================================
