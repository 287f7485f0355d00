------------------------------ MODULE NodeFifo ------------------------------
(***************************************************************************)
(* What the node queue promises: a bounded first-in first-out queue.       *)
(* Every node comes out once, in order and as it was when it went in; FULL *)
(* means that Capacity nodes wait, EMPTY that none does.                   *)
(***************************************************************************)
EXTENDS Naturals, Sequences

CONSTANT Capacity

VARIABLES queue,     \* the nodes enqueued and not yet dequeued
          node_out,  \* what the last dequeue copied out
          status     \* what the last call returned

vars == <<queue, node_out, status>>

Init == queue = <<>> /\ status = "OKAY"

\* The node may be any; an enqueue that fails half-way has put its node all the
\* same, and reports it.
Put ==
  /\ Len(queue) < Capacity
  /\ Len(queue') = Len(queue) + 1
  /\ SubSeq(queue', 1, Len(queue)) = queue
  /\ status' \notin {"NODE_QUEUE_FULL", "NODE_QUEUE_EMPTY"}
  /\ UNCHANGED node_out

Take ==
  /\ queue # <<>>
  /\ node_out' = Head(queue)
  /\ queue' = Tail(queue)
  /\ status' = "OKAY"

Full ==
  /\ Len(queue) = Capacity
  /\ status' = "NODE_QUEUE_FULL"
  /\ UNCHANGED <<queue, node_out>>

Empty ==
  /\ queue = <<>>
  /\ status' = "NODE_QUEUE_EMPTY"
  /\ UNCHANGED queue

Next == Put \/ Take \/ Full \/ Empty

Spec == Init /\ [][Next]_vars
=============================================================================
