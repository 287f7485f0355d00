----------------------------- MODULE NodeQueue -----------------------------
(***************************************************************************)
(* The node queue of node/node_queue.c with the node stack of node/node.c. *)
(* The queue is a ring of slots 0 .. Size with an `in` and an `out`        *)
(* pointer, each moved before its slot is used.  The stack holds copies of *)
(* the collections the last node lies in; a node's parent is a stack entry,*)
(* here named by its node id (0 is the NULL pointer).  Keys and values are *)
(* moved to the queue's string buffer, of which only the write pointer     *)
(* matters, since nothing in src/ dequeues from it.  NodeQueueCalls and    *)
(* OlyRun call the operations.                                             *)
(***************************************************************************)
EXTENDS Naturals, Sequences, SequencesExt

CONSTANTS
  Size,        \* queue_size / sizeof(OlyNode): the offset of queue_end
  KeyLen,      \* OChars of a key
  ValueLen,    \* OChars of a string value
  TextLast,    \* offset of the string buffer's buffer_end
  MaxNodes,    \* bound: nodes a document has
  MaxDepth,    \* bound: how deep collections nest (MAX_NODE_DEPTH)
  FreshDepths  \* what the depth of a slot nobody wrote may read as

ASSUME QueueAssumption ==
  /\ Size \in Nat \ {0}
  /\ KeyLen \in Nat \ {0} /\ ValueLen \in Nat \ {0} /\ TextLast \in Nat \ {0}
  /\ MaxNodes \in Nat /\ MaxDepth \in Nat \ {0}
  /\ FreshDepths \subseteq Nat

VARIABLES
  in, out, slot,
  collection_end,  \* slots whose node is marked as the last of its collection
  stack,       \* node ids of the stacked copies, the top last
  write_a,     \* how far the string buffer is filled
  status,      \* what the last call returned
  node_out     \* what the last dequeue copied out

queueVars == <<in, out, slot, collection_end, stack, write_a>>

Slots == 0 .. Size
Ids == 0 .. MaxNodes
Depths == 0 .. MaxDepth
Kinds == {"collection", "string"}
\* Where a key or value points: nowhere, into the data source's buffer, or to its
\* own text in the queue's.  The boundary hands out an empty text as NULL.
Places == {"none", "source", "text"}
Node == [id : Ids, depth : Depths \cup FreshDepths, parent : Ids,
         kind : Kinds \cup {"unset"}, key : Places, value : Places]
Statuses == {"OKAY", "NODE_QUEUE_FULL", "NODE_QUEUE_EMPTY", "NODES_TOO_SHALLOW",
             "BUFFER_OVERFLOW", "ABORTED", "CRASHED"}

Blank(depth) == [id |-> 0, depth |-> depth, parent |-> 0, kind |-> "unset",
                 key |-> "none", value |-> "none"]

QueueType ==
  /\ in \in Slots /\ out \in Slots
  /\ slot \in [Slots -> Node]
  /\ collection_end \in [Slots -> BOOLEAN]
  /\ stack \in Seq(Ids)
  /\ write_a \in 0 .. TextLast
  /\ status \in Statuses
  /\ node_out \in Node

\* A failed assertion, or a NULL pointer followed, ends the program.
Stopped == status \in {"ABORTED", "CRASHED"}

-----------------------------------------------------------------------------
OpenQueue ==
  /\ in = 0 /\ out = 0
  /\ \E d \in FreshDepths : slot = [i \in Slots |-> Blank(d)]
  /\ \E marked \in BOOLEAN : collection_end = [i \in Slots |-> marked]
  /\ stack = <<>>
  /\ write_a = 0
  /\ status = "OKAY"
  /\ node_out = Blank(0)

(* The first steps of enqueue_to_node_queue: move `in`, copy the node, and *)
(* bring the stack to the depth of the node.                               *)

\* Mutant: one slot too many before the wrap.
StepsPastEnd ==
  \/ out <= in /\ in <= Size
  \/ in < out /\ in + 1 # out

\* Mutant: after a wrap, `in` may catch up with `out`.
StepsOntoOut ==
  \/ out <= in /\ in < Size
  \/ in < out

MayStepUp ==
  \/ out <= in /\ in < Size
  \/ in < out /\ in + 1 # out
MayWrap == in = Size /\ out # 0
IsFull == ~MayStepUp /\ ~MayWrap
NextIn == IF MayStepUp THEN in + 1 ELSE 0

Prev == slot[in]
Rises(n) == n.depth > Prev.depth
Drop(n) == Prev.depth - n.depth  \* for a node that is not deeper than Prev

\* Mutant: pops the last stack entry too.
PopsBelowRoot(n) == ~Rises(n) /\ stack # <<>> /\ Drop(n) > Len(stack)

\* pop_node leaves the last stack entry alone.
PopsTooFar(n) == ~Rises(n) /\ stack # <<>> /\ Drop(n) >= Len(stack)

\* The stack is NULL and is dereferenced, by pop_node or for a collection's parent.
FollowsNull(n) ==
  /\ stack = <<>>
  /\ ~Rises(n)
  /\ Drop(n) > 0 \/ n.kind = "collection"

\* Mutant: pops one entry however far the depth drops.
StackPoppedOnce(n) ==
  IF Rises(n) THEN Append(stack, n.id)
  ELSE SubSeq(stack, 1, Len(stack) - (IF Drop(n) > 0 THEN 1 ELSE 0))

StackFor(n) ==
  IF Rises(n) THEN Append(stack, n.id) ELSE SubSeq(stack, 1, Len(stack) - Drop(n))

FromTop(s, k) == IF Len(s) > k THEN s[Len(s) - k] ELSE 0
\* Mutant: a collection gets the top of the stack, itself, as its parent.
ParentAlwaysTop(n) == FromTop(StackFor(n), 0)

ParentFor(n) == FromTop(StackFor(n), IF n.kind = "collection" THEN 1 ELSE 0)

\* Every pop marks the previous node, the failing one too.
MarksPrev(n) ==
  collection_end' = [collection_end EXCEPT ![in] = @ \/ n.depth < Prev.depth]

\* The node in its slot, with its key and value wherever they got to.
Place(n, key, value) ==
  /\ ~IsFull /\ ~PopsTooFar(n) /\ ~FollowsNull(n)
  /\ in' = NextIn
  /\ MarksPrev(n)
  /\ stack' = StackFor(n)
  /\ slot' = [slot EXCEPT ![NextIn] =
                [n EXCEPT !.parent = ParentFor(n), !.key = key, !.value = value]]
  /\ UNCHANGED <<out, node_out>>

-----------------------------------------------------------------------------
(* The strings: reserve_string_buffer asserts that the write pointer is    *)
(* short of buffer_end; a key reserves two OChars more than it has, a value*)
(* exactly its length; each string takes its length and two terminators.   *)
(* The length of a NULL value is asked for after the key was moved.        *)

HasKey(n)    == n.key # "none"
HasValue(n)  == n.kind = "string" /\ n.value # "none"
ValueIsNull(n) == n.kind = "string" /\ n.value = "none"
AfterKey(n)  == IF HasKey(n) THEN write_a + KeyLen + 2 ELSE write_a
AfterText(n) == IF HasValue(n) THEN AfterKey(n) + ValueLen + 2 ELSE AfterKey(n)

\* A granted key leaves the write pointer short of buffer_end again.
AssertFails(n) == (HasKey(n) \/ HasValue(n)) /\ write_a >= TextLast

Room(at, length) == length + 1 <= (TextLast - 1) - at
KeyRefused(n) == HasKey(n) /\ ~Room(write_a, KeyLen + 2)
ValueRefused(n) == ~KeyRefused(n) /\ HasValue(n) /\ ~Room(AfterKey(n), ValueLen)

\* Mutant: the pointer is not redirected to the copy.
KeyNotMoved(n) == n.key

MovedKey(n) == IF HasKey(n) THEN "text" ELSE "none"
MovedValue(n) == IF HasValue(n) THEN "text" ELSE "none"

EnqueueFull(n) ==
  /\ IsFull
  /\ status' = "NODE_QUEUE_FULL"
  /\ UNCHANGED <<queueVars, node_out>>

EnqueueStored(n) ==
  /\ Place(n, MovedKey(n), MovedValue(n))
  /\ ~AssertFails(n) /\ ~KeyRefused(n) /\ ~ValueRefused(n) /\ ~ValueIsNull(n)
  /\ write_a' = AfterText(n)
  /\ status' = "OKAY"

\* The node keeps its slot although its key or value was refused.
EnqueueRefused(n) ==
  /\ ~AssertFails(n)
  /\ \/ /\ KeyRefused(n)
        /\ Place(n, n.key, n.value)
        /\ UNCHANGED write_a
     \/ /\ ValueRefused(n)
        /\ Place(n, MovedKey(n), n.value)
        /\ write_a' = AfterKey(n)
  /\ status' = "BUFFER_OVERFLOW"

EnqueueAborted(n) ==
  /\ Place(n, n.key, n.value)
  /\ AssertFails(n)
  /\ status' = "ABORTED"
  /\ UNCHANGED write_a

\* The bare copy of the node is in its slot, the stack is down to its root.
EnqueueTooShallow(n) ==
  /\ ~IsFull /\ PopsTooFar(n)
  /\ in' = NextIn
  /\ slot' = [slot EXCEPT ![NextIn] = n]
  /\ MarksPrev(n)
  /\ stack' = SubSeq(stack, 1, 1)
  /\ status' = "NODES_TOO_SHALLOW"
  /\ UNCHANGED <<out, write_a, node_out>>

EnqueueWithoutStack(n) ==
  /\ ~IsFull /\ FollowsNull(n)
  /\ in' = NextIn
  /\ slot' = [slot EXCEPT ![NextIn] = n]
  /\ MarksPrev(n)
  /\ status' = "CRASHED"
  /\ UNCHANGED <<out, stack, write_a, node_out>>

EnqueueNullValue(n) ==
  /\ Place(n, MovedKey(n), n.value)
  /\ ValueIsNull(n) /\ ~AssertFails(n) /\ ~KeyRefused(n)
  /\ write_a' = AfterKey(n)
  /\ status' = "CRASHED"

Enqueue(n) ==
  \/ EnqueueFull(n)
  \/ EnqueueStored(n)
  \/ EnqueueRefused(n)
  \/ EnqueueAborted(n)
  \/ EnqueueTooShallow(n)
  \/ EnqueueWithoutStack(n)
  \/ EnqueueNullValue(n)

-----------------------------------------------------------------------------
(* dequeue_from_node_queue copies the slot out and resets the one it left, *)
(* and does so even when it reports EMPTY.  At queue_end it wraps without  *)
(* asking whether a node is there.                                         *)

MayReadUp == out < in \/ (in < out /\ out < Size)
NextOut == IF MayReadUp THEN out + 1 ELSE IF out = Size THEN 0 ELSE out
Reset(s) == Blank(s.depth)

Dequeue ==
  /\ out' = NextOut
  /\ node_out' = slot[NextOut]
  /\ slot' = [slot EXCEPT ![out] = Reset(@)]
  /\ collection_end' = [collection_end EXCEPT ![out] = FALSE]
  /\ status' = IF MayReadUp \/ out = Size THEN "OKAY" ELSE "NODE_QUEUE_EMPTY"
  /\ UNCHANGED <<in, stack, write_a>>

-----------------------------------------------------------------------------
(* The nodes that wait, oldest first.                                      *)

UnreadCount == IF out <= in THEN in - out ELSE (Size + 1 - out) + in
UnreadSlot(i) == (out + i) % (Size + 1)
Waiting == {UnreadSlot(i) : i \in 1 .. UnreadCount}
=============================================================================
