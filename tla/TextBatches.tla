---------------------------- MODULE TextBatches ----------------------------
(***************************************************************************)
(* What the boundary promises: texts are put in, a flush makes them a      *)
(* batch, and they are got out of the batch in order.  A padded text (one  *)
(* whose length counts its terminator) is the last that can be got out of  *)
(* a batch.  What get returns beyond that is not specified.                *)
(***************************************************************************)
EXTENDS Naturals, Sequences, SequencesExt

VARIABLES pending,  \* what was put in since the last flush: [text, padded]
          ready,    \* what can still be got out
          out,      \* what the last get handed out
          status    \* what the last call returned

vars == <<pending, ready, out, status>>

Init == pending = <<>> /\ ready = <<>>

Put ==
  /\ Len(pending') = Len(pending) + 1
  /\ Front(pending') = pending
  /\ status' = "OKAY"
  /\ UNCHANGED <<ready, out>>

Refuse ==
  /\ status' = "BUFFER_OVERFLOW"
  /\ UNCHANGED <<pending, ready, out>>

UpToPadded(texts) ==
  LET k == SelectInSeq(texts, LAMBDA t : t.padded)
  IN IF k = 0 THEN texts ELSE SubSeq(texts, 1, k)

Flush ==
  /\ pending # <<>>
  /\ ready' = UpToPadded(pending)
  /\ pending' = <<>>
  /\ status' = "OKAY"
  /\ UNCHANGED out

FlushNothing ==
  /\ pending = <<>>
  /\ status' = "BUFFER_EMPTY"
  /\ UNCHANGED <<pending, ready, out>>

Get ==
  /\ ready # <<>>
  /\ out' = Head(ready).text
  /\ ready' = Tail(ready)
  /\ status' = "OKAY"
  /\ UNCHANGED pending

\* The last text of a batch may be withheld, for good.
Withhold ==
  /\ Len(ready) = 1
  /\ status' = "BOUNDARY_RESET"
  /\ UNCHANGED <<pending, ready>>

GetBeyond == ready = <<>> /\ UNCHANGED <<pending, ready>>

Next == Put \/ Refuse \/ Flush \/ FlushNothing \/ Get \/ Withhold \/ GetBeyond

Spec == Init /\ [][Next]_vars
=============================================================================
