---------------------------- MODULE StringQueue ----------------------------
(***************************************************************************)
(* What the string buffer promises to its users: a first-in first-out      *)
(* queue of non-empty strings.  A string that does not fit in the reader's *)
(* output buffer stays where it is.  How much room there is, and when the  *)
(* buffer refuses a reservation, is not part of the promise.               *)
(***************************************************************************)
EXTENDS Naturals, Sequences

CONSTANTS Strings,    \* the strings a writer may hand over
          DestSizes   \* the sizes of the readers' output buffers

VARIABLES queue,      \* the strings written and not yet read
          dest        \* what the last read left in the reader's output buffer

vars == <<queue, dest>>

Init == queue = <<>> /\ dest = <<>>

Put(s) ==
  /\ s # <<>>
  /\ queue' = Append(queue, s)
  /\ UNCHANGED dest

Take ==
  /\ queue # <<>>
  /\ dest' = Head(queue)
  /\ queue' = Tail(queue)

\* The reader's buffer must keep two cells beyond the string.
TooSmall(size) ==
  /\ queue # <<>>
  /\ Len(Head(queue)) + 2 >= size
  /\ dest' = <<>>
  /\ UNCHANGED queue

Empty ==
  /\ queue = <<>>
  /\ dest' = <<>>
  /\ UNCHANGED queue

Next ==
  \/ \E s \in Strings : Put(s)
  \/ Take
  \/ \E size \in DestSizes : TooSmall(size)
  \/ Empty

Spec == Init /\ [][Next]_vars
=============================================================================
