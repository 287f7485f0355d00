---------------------------- MODULE StringBuffer ----------------------------
(***************************************************************************)
(* The string buffer of core/string_buffer.c: a bipartite buffer of OChars *)
(* with two regions, A and B, each with a read and a write pointer.  A     *)
(* writer first reserves room (which locks the buffer for writing), then   *)
(* copies a NUL-terminated string into the reservation; a reader copies    *)
(* the oldest string out.  Pointers are offsets from buffer_start.         *)
(***************************************************************************)
EXTENDS Integers, Sequences

CONSTANTS
  Chars,      \* the OChars a string is made of
  NUL,        \* the string terminator
  Junk,       \* what omalloc leaves in a cell nobody wrote
  Strings,    \* the strings writers enqueue, sequences over Chars
  Last,       \* offset of buffer_end, that is max_len - 1
  Word,       \* 2 ^ (width of size_t)
  Headrooms,  \* by how much callers reserve more than the string they enqueue
  DestSizes,  \* sizes of the readers' output buffers
  ReadsUnderReservation  \* may a reader run while a reservation is held?

ASSUME ConstantsAssumption ==
  /\ Last \in Nat /\ Last >= 2
  /\ Word \in Nat /\ Word > Last + 1
  /\ Headrooms \subseteq Int
  /\ DestSizes \subseteq Nat \ {0}
  /\ Strings \subseteq Seq(Chars)
  /\ NUL \notin Chars
  /\ Junk # NUL
  /\ ReadsUnderReservation \in BOOLEAN

VARIABLES
  read_a, write_a, read_b, write_b,
  reserve_start, reserve_end,
  state,
  mem,     \* the cells 0 .. Last of the buffer
  status,  \* what the last call returned
  dest,    \* the string the last dequeue left in the reader's buffer
  live     \* history: the strings enqueued and not yet dequeued, and where

pointers == <<read_a, write_a, read_b, write_b>>
reservation == <<reserve_start, reserve_end>>
vars == <<pointers, reservation, state, mem, status, dest, live>>

NULL == -1
Offsets == 0 .. Last
States == {"WARA", "WBRA", "WBRB", "WARB"}
Statuses == {"OKAY", "BUFFER_WRITE_LOCK", "BUFFER_OVERFLOW", "NO_RESERVATION",
             "LONG_STRING", "BUFFER_EMPTY"}

TypeOK ==
  /\ read_a \in Offsets /\ write_a \in Offsets
  /\ read_b \in Offsets /\ write_b \in Offsets
  /\ reserve_start \in Offsets \cup {NULL}
  /\ reserve_end \in Offsets \cup {NULL}
  /\ state \in States
  /\ mem \in [Offsets -> Chars \cup {NUL, Junk}]
  /\ status \in Statuses
  /\ dest \in Seq(Chars \cup {Junk})
  /\ live \in Seq([at : Offsets, str : Strings])

-----------------------------------------------------------------------------
(* Pointer arithmetic. *)

Higher(p, q) == IF p >= q THEN p ELSE q
Lower(p, q)  == IF p <= q THEN p ELSE q

\* A difference of pointers stored in a size_t.
SizeT(i) == IF i < 0 THEN i + Word ELSE i

\* Mutant: counts from max_len instead of from buffer_end.
LengthAtEndToMaxLen == SizeT((Last + 1) - Higher(write_a, write_b))

LengthAtEnd   == SizeT((Last - 1) - Higher(write_a, write_b))

\* Mutant: does not count what already stands in front of the read pointer.
WholeFront == SizeT(Higher(read_a, read_b))

LengthAtStart == SizeT(Higher(read_a, read_b) - Lower(write_a, write_b))

\* Only an unsplit buffer may turn round, and only for a longer stretch.
TurnsRound ==
  /\ state \in {"WARA", "WBRB"}
  /\ LengthAtEnd < LengthAtStart

StateForWrite ==
  IF ~TurnsRound THEN state ELSE IF state = "WARA" THEN "WBRA" ELSE "WARB"

\* Mutant: takes the longer stretch, whatever the state.
AvailableAnywhere == Higher(LengthAtEnd, LengthAtStart)

Available ==
  IF state \in {"WARA", "WBRB"} /\ ~TurnsRound THEN LengthAtEnd ELSE LengthAtStart

WritePointer(st) == IF st \in {"WARA", "WARB"} THEN write_a ELSE write_b
ReadPointer      == IF state \in {"WARA", "WBRA"} THEN read_a ELSE read_b

Reserved       == reserve_start # NULL
ReservedLength == reserve_end - reserve_start - 1

\* Mutant: looks at region A alone.
EmptyWithoutB == write_a = 0

IsBufferEmpty  == write_a = 0 /\ write_b = 0

-----------------------------------------------------------------------------
Init ==
  /\ read_a = 0 /\ write_a = 0 /\ read_b = 0 /\ write_b = 0
  /\ reserve_start = NULL /\ reserve_end = NULL
  /\ state = "WARA"
  /\ mem \in {m \in [Offsets -> {NUL, Junk}] : m[Last] = NUL}
  /\ status = "OKAY"
  /\ dest = <<>>
  /\ live = <<>>

\* space_available, which a caller may also use on its own.
SpaceAvailable ==
  /\ state' = StateForWrite
  /\ status' = "OKAY"
  /\ UNCHANGED <<pointers, reservation, mem, dest, live>>

ReserveLocked ==
  /\ Reserved
  /\ status' = "BUFFER_WRITE_LOCK"
  /\ UNCHANGED <<pointers, reservation, state, mem, dest, live>>

\* The state has turned round even when the reservation is refused.
ReserveRefused(length) ==
  /\ ~Reserved
  /\ Available < length + 1
  /\ state' = StateForWrite
  /\ status' = "BUFFER_OVERFLOW"
  /\ UNCHANGED <<pointers, reservation, mem, dest, live>>

ReserveGranted(length) ==
  /\ ~Reserved
  /\ Available >= length + 1
  /\ state' = StateForWrite
  /\ reserve_start' = WritePointer(StateForWrite)
  /\ reserve_end' = WritePointer(StateForWrite) + length + 1
  /\ status' = "OKAY"
  /\ UNCHANGED <<pointers, mem, dest, live>>

Reserve(length) ==
  ReserveLocked \/ ReserveRefused(length) \/ ReserveGranted(length)

-----------------------------------------------------------------------------
(* enqueue_to_string_buffer copies up to and including the terminator, or  *)
(* up to reserve_end, and then writes a terminator of its own.             *)

\* Mutant: copies the whole reservation, as memcpy would.
CopiedPadded(s) == reserve_end - reserve_start

Copied(s) == Lower(Len(s) + 1, reserve_end - reserve_start)

MemAfterCopy(s) ==
  [i \in Offsets |->
     IF i < reserve_start \/ i > reserve_start + Copied(s) THEN mem[i]
     ELSE IF i - reserve_start < Lower(Len(s), Copied(s)) THEN s[i - reserve_start + 1]
     ELSE NUL]

EnqueueUnreserved ==
  /\ ~Reserved
  /\ status' = "NO_RESERVATION"
  /\ UNCHANGED <<pointers, reservation, state, mem, dest, live>>

ReleaseReserve == reserve_start' = NULL /\ reserve_end' = NULL

EnqueueNothing(s) ==
  /\ Reserved
  /\ s = <<>>
  /\ ReleaseReserve
  /\ status' = "OKAY"
  /\ UNCHANGED <<pointers, state, mem, dest, live>>

\* keep_long_strings is false: the copy stays, unaccounted, and so does the
\* reservation.
IsLong(s) == Copied(s) = ReservedLength

EnqueueLong(s) ==
  /\ Reserved
  /\ s # <<>>
  /\ IsLong(s)
  /\ mem' = MemAfterCopy(s)
  /\ status' = "LONG_STRING"
  /\ UNCHANGED <<pointers, reservation, state, dest, live>>

EnqueueStored(s) ==
  /\ Reserved
  /\ s # <<>>
  /\ ~IsLong(s)
  /\ mem' = MemAfterCopy(s)
  /\ LET past == reserve_start + Copied(s) + 1
     IN IF state \in {"WARA", "WARB"}
        THEN write_a' = past /\ UNCHANGED write_b
        ELSE write_b' = past /\ UNCHANGED write_a
  /\ ReleaseReserve
  /\ status' = "OKAY"
  /\ live' = Append(live, [at |-> reserve_start, str |-> s])
  /\ UNCHANGED <<read_a, read_b, state, dest>>

Enqueue(s) ==
  EnqueueUnreserved \/ EnqueueNothing(s) \/ EnqueueLong(s) \/ EnqueueStored(s)

-----------------------------------------------------------------------------
(* dequeue_from_string_buffer *)

DequeueEmpty ==
  /\ IsBufferEmpty
  /\ state' = "WARA"
  /\ dest' = <<>>
  /\ status' = "BUFFER_EMPTY"
  /\ UNCHANGED <<pointers, reservation, mem, live>>

\* The string at the read pointer has n characters.
StringAt(r, n) ==
  /\ r + n <= Last
  /\ mem[r + n] = NUL
  /\ \A i \in r .. r + n - 1 : mem[i] # NUL

DequeueTooSmall(size) ==
  /\ ~IsBufferEmpty
  /\ \E n \in Offsets : StringAt(ReadPointer, n) /\ n + 1 >= size - 1
  /\ dest' = <<>>
  /\ status' = "BUFFER_OVERFLOW"
  /\ UNCHANGED <<pointers, reservation, state, mem, live>>

\* Mutant: the reader does not step over the terminators.
ReadUpTo(n) == ReadPointer + n

\* Mutant: the reader steps over one terminator of the two.
ReadOneShort(n) == ReadPointer + n + 1

ReadPast(n) == ReadPointer + n + 2

\* Mutant: resets the region although the other one was written last.
DrainsEarly(n) == ReadPast(n) >= Lower(write_a, write_b)

\* Reading up to the last write pointer resets the region that was read.
Drains(n) ==
  /\ ReadPast(n) >= Higher(write_a, write_b)
  /\ ReadPast(n) >= IF state \in {"WARA", "WBRA"} THEN write_a ELSE write_b

Advance(n) ==
  /\ UNCHANGED <<write_a, write_b, state>>
  /\ IF state \in {"WARA", "WBRA"}
     THEN read_a' = ReadPast(n) /\ UNCHANGED read_b
     ELSE read_b' = ReadPast(n) /\ UNCHANGED read_a

ResetRegion ==
  \/ /\ state \in {"WARA", "WBRA"}
     /\ read_a' = 0 /\ write_a' = 0
     /\ state' = "WBRB"
     /\ UNCHANGED <<read_b, write_b>>
  \/ /\ state \in {"WBRB", "WARB"}
     /\ read_b' = 0 /\ write_b' = 0
     /\ state' = "WARA"
     /\ UNCHANGED <<read_a, write_a>>

DequeueTaken(size) ==
  /\ ~IsBufferEmpty
  /\ \E n \in Offsets :
       /\ StringAt(ReadPointer, n)
       /\ n + 1 < size - 1
       /\ dest' = [i \in 1 .. n |-> mem[ReadPointer + i - 1]]
       /\ IF Drains(n) THEN ResetRegion ELSE Advance(n)
  /\ status' = "OKAY"
  /\ live' = IF live = <<>> THEN live ELSE Tail(live)
  /\ UNCHANGED <<reservation, mem>>

Dequeue(size) == DequeueEmpty \/ DequeueTooSmall(size) \/ DequeueTaken(size)

-----------------------------------------------------------------------------
(* The callers: they reserve for a string they hold, with some headroom,   *)
(* and enqueue into the reservation a string of the length it is for.      *)

ReserveFor(s) ==
  \E h \in Headrooms : Len(s) + h >= 0 /\ Reserve(Len(s) + h)

FitsReservation(s) ==
  Reserved => s = <<>> \/ ReservedLength - Len(s) \in Headrooms

WriterEnqueues(s) == FitsReservation(s) /\ Enqueue(s)

ReaderDequeues(size) ==
  /\ Reserved => ReadsUnderReservation
  /\ Dequeue(size)

Next ==
  \/ SpaceAvailable
  \/ \E s \in Strings : ReserveFor(s) \/ WriterEnqueues(s)
  \/ \E size \in DestSizes : ReaderDequeues(size)

Spec == Init /\ [][Next]_vars

RoomForAll(size) == \A s \in Strings : Len(s) + 2 < size

\* Writers retry, finish what they reserved, and readers with room for any string keep
\* reading, whatever others try.  The reader's fairness is strong: a writer makes its
\* two calls back to back, so a reader that runs again and again also finds the
\* buffer unreserved.
LiveSpec ==
  /\ Spec
  /\ WF_vars(\E s \in Strings : ReserveFor(s))
  /\ WF_vars(\E s \in Strings : WriterEnqueues(s))
  /\ SF_vars(\E size \in DestSizes : RoomForAll(size) /\ ReaderDequeues(size))

-----------------------------------------------------------------------------
(* Properties. *)

\* The assertions at the top of reserve_string_buffer: whoever calls it next,
\* both write pointers are inside the buffer, short of buffer_end.
ReserveAsserts == write_a < Last /\ write_b < Last

\* The regions never run into each other: in an unsplit state the other region
\* is unused; in a split state the region being written ends strictly below
\* what is still to be read, so neither length ever wraps.
RegionsApart ==
  /\ state = "WARA" => read_b = 0 /\ write_b = 0 /\ (read_a < write_a \/ (read_a = 0 /\ write_a = 0))
  /\ state = "WBRB" => read_a = 0 /\ write_a = 0 /\ (read_b < write_b \/ (read_b = 0 /\ write_b = 0))
  /\ state = "WBRA" => read_b = 0 /\ write_b < read_a /\ read_a < write_a
  /\ state = "WARB" => read_a = 0 /\ write_a < read_b /\ read_b < write_b

\* The lock of a reservation protects what it was taken for: until the
\* reservation is released, it starts at the pointer enqueue will advance, and
\* it overlaps neither buffer_end nor unread text.
ReservationHolds ==
  Reserved =>
    /\ reserve_start = WritePointer(state)
    /\ reserve_end < Last
    /\ state \in {"WBRA", "WARB"} => reserve_end <= ReadPointer

\* Every string written and not yet read is still in memory, terminated, where
\* enqueue said it was: the node queue keeps pointers to these places.
UnreadIntact ==
  \A k \in DOMAIN live :
    LET at == live[k].at   s == live[k].str
    IN /\ \A i \in DOMAIN s : mem[at + i - 1] = s[i]
       /\ mem[at + Len(s)] = NUL

\* The buffer implements a queue of strings.
Queue == INSTANCE StringQueue
           WITH queue <- [k \in DOMAIN live |-> live[k].str]
QueueSpec == Queue!Spec

\* A writer that was refused is not refused for ever: with readers that keep
\* reading, a reservation is eventually granted again.
RefusalEnds == (status = "BUFFER_OVERFLOW") ~> Reserved

\* Every string at the head of the queue is eventually read, unless one comes that
\* fills its reservation: it is not stored, and the buffer stays reserved.
HeadIsRead ==
  \A p \in Offsets :
    (live # <<>> /\ Head(live).at = p)
      ~> (live = <<>> \/ Head(live).at # p \/ status = "LONG_STRING")

\* string_buffer.h: reserve_string_buffer reserves the room a string of that
\* length needs: enqueue changes no cell outside the reservation.
WritesInsideReservation ==
  [][\A i \in Offsets :
       mem'[i] # mem[i] => reserve_start <= i /\ i < reserve_end]_vars
=============================================================================
