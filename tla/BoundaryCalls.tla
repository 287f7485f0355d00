--------------------------- MODULE BoundaryCalls ---------------------------
(***************************************************************************)
(* The boundary on its own, one call per step: texts are put in with the   *)
(* length of a key or of a value, flushed, and got out.                    *)
(***************************************************************************)
EXTENDS Boundary

CONSTANTS
  Texts,       \* texts callers put in, non-empty sequences of characters
  MaxPuts      \* bound: texts between two flushes

ASSUME CallsAssumption ==
  /\ Texts \subseteq Seq(Chars) \ {<<>>}
  /\ MaxPuts \in Nat

VARIABLES boundary, status, out,
          pending, ready  \* history: texts put in, texts flushed and not got out

boundaryVars == <<boundary, status, out, pending, ready>>

OpenBoundary ==
  /\ \E size \in Sizes : boundary \in Opened(size)
  /\ status = "OKAY" /\ out = NoText
  /\ pending = <<>> /\ ready = <<>>

Put(text, padded) ==
  LET s == Source(text, padded)
  IN /\ Len(pending) < MaxPuts
     /\ boundary' = PutCharIn(boundary, s)
     /\ status' = IF Refuses(boundary, s) THEN "BUFFER_OVERFLOW" ELSE "OKAY"
     /\ pending' = IF Refuses(boundary, s) THEN pending
                   ELSE Append(pending, [text |-> text, padded |-> padded])
     /\ UNCHANGED <<out, ready>>

Batches == INSTANCE TextBatches

FlushTexts ==
  /\ boundary' = FlushInbound(boundary)
  /\ status' = IF IsFlushed(boundary) THEN "BUFFER_EMPTY" ELSE "OKAY"
  /\ ready' = IF IsFlushed(boundary) THEN ready ELSE Batches!UpToPadded(pending)
  /\ pending' = <<>>
  /\ UNCHANGED out

Get ==
  /\ boundary' = AfterGet(boundary)
  /\ status' = GetStatus(boundary)
  /\ out' = GotText(boundary)
  /\ ready' = IF ready # <<>> /\ status' = "OKAY" THEN Tail(ready) ELSE ready
  /\ UNCHANGED pending

BoundaryNext ==
  \/ \E text \in Texts, padded \in BOOLEAN : Put(text, padded)
  \/ FlushTexts
  \/ Get

BoundarySpec == OpenBoundary /\ [][BoundaryNext]_boundaryVars

-----------------------------------------------------------------------------
(* Properties. *)

\* What get finds is the texts put in before the flush, whole and in order.
BatchSpec == Batches!Spec

\* The converted texts end short of the place where open put the last
\* terminator, so u_strlen in get_ochar_out stays inside the OChars.
ConversionFits == Len(Converted(boundary.chars)) <= OEnd(boundary.size)

\* open_oly_boundary lays both halves out apart and inside what it allocated, zeroes
\* the gap and the two OChars that end the second one, and meets its assertions.
LayoutFits(size) ==
  /\ CEnd(size) = OEnd(size)
  /\ CEnd(size) < OStart(size)
  /\ OEndByte(size) + 2 * OCharSize <= Allocated(size)
  /\ CEnd(size) + (OEndByte(size) - OStart(size)) < size
  /\ ZeroedGap(size) \subseteq 0 .. Allocated(size) - 1
  /\ OEndByte(size) .. OEndByte(size) + 2 * OCharSize - 1 \subseteq ZeroedTail(size)
LayoutHolds == LayoutFits(boundary.size)

\* It writes nothing behind its allocation: the comment at boundary.c:43 would rather
\* waste a bit of the buffer.  Violated for sizes that are no multiple of three.
ZeroesInside(size) == ZeroedTail(size) \subseteq 0 .. Allocated(size) - 1
NothingOverflows == ZeroesInside(boundary.size)
=============================================================================
