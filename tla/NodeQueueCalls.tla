--------------------------- MODULE NodeQueueCalls ---------------------------
(***************************************************************************)
(* The node queue driven by a document: every node of it is enqueued, a    *)
(* reader dequeues in between.                                             *)
(***************************************************************************)
EXTENDS NodeQueue

CONSTANT ReadsDrainedEnd  \* may a reader come when in = out = queue_end?

ASSUME ReaderAssumption == ReadsDrainedEnd \in BOOLEAN

VARIABLES
  open,   \* document: the collections open at this point
  made,   \* document: number of nodes so far, which is the last node id
  last,   \* the data source's node, as last enqueued
  ended,  \* document: the run loop has left its first loop
  born    \* history: what each node made so far is and lies in

document == <<open, made, last, ended, born>>
vars == <<queueVars, status, node_out, document>>

TypeOK ==
  /\ QueueType
  /\ open \in Seq(Ids)
  /\ made \in Ids
  /\ last \in Node
  /\ ended \in BOOLEAN
  /\ born \in Seq([parent : Ids, depth : Depths, kind : Kinds])

Init ==
  /\ OpenQueue
  /\ open = <<>> /\ made = 0 /\ last = Blank(0) /\ ended = FALSE
  /\ born = <<>>

-----------------------------------------------------------------------------
(* The document: the data source has one node that it fills and passes on. *)
(* A collection descends before it is passed on and ascends when it ends,  *)
(* so its own depth is that of its members.  After the end of the stream   *)
(* the run loop passes the last node on once more, at depth 0.             *)

MayProduce == ~Stopped /\ ~ended

\* Told FULL, a producer may call again with the same node; any other error
\* makes it give up, as the run loop does.
GivesUp == status' \notin {"OKAY", "NODE_QUEUE_FULL"}

Produce(n) ==
  /\ MayProduce /\ made < MaxNodes
  /\ Enqueue(n)
  /\ ended' = GivesUp
  /\ IF IsFull THEN UNCHANGED <<made, last, born>>
     ELSE /\ made' = n.id
          /\ last' = n
          /\ born' = Append(born, [parent |-> FromTop(open, 0), depth |-> n.depth,
                                   kind |-> n.kind])

NewNode(depth, kind, key, value) ==
  [id |-> made + 1, depth |-> depth, parent |-> 0, kind |-> kind,
   key |-> key, value |-> value]

OpenCollection(key) ==
  LET n == NewNode(Len(open) + 1, "collection", key, "none")
  IN /\ n.depth <= MaxDepth
     /\ open = <<>> => key = "none"
     /\ Produce(n)
     /\ open' = IF IsFull THEN open ELSE Append(open, n.id)

Scalar(key, value) ==
  /\ open # <<>>
  /\ Produce(NewNode(Len(open), "string", key, value))
  /\ UNCHANGED open

CloseCollection ==
  /\ MayProduce
  /\ open # <<>>
  /\ open' = Front(open)
  /\ UNCHANGED <<queueVars, status, node_out, made, last, ended, born>>

EndOfStream ==
  /\ MayProduce
  /\ made > 0 /\ open = <<>>
  /\ Enqueue([last EXCEPT !.depth = 0])
  /\ ended' = GivesUp
  /\ UNCHANGED <<open, made, last, born>>

Reader ==
  /\ ~Stopped
  /\ (in = out /\ out = Size) => ReadsDrainedEnd
  /\ Dequeue
  /\ UNCHANGED document

Next ==
  \/ \E key \in {"none", "source"} :
       \/ OpenCollection(key)
       \/ \E value \in {"none", "source"} : Scalar(key, value)
  \/ CloseCollection
  \/ EndOfStream
  \/ Reader

Spec == Init /\ [][Next]_vars

-----------------------------------------------------------------------------
(* Properties. *)

\* The ring implements a bounded queue: every node once, in order, unchanged,
\* FULL only with Size nodes waiting and EMPTY only with none.
Fifo == INSTANCE NodeFifo
          WITH Capacity <- Size, queue <- [i \in 1 .. UnreadCount |-> slot[UnreadSlot(i)]]
FifoSpec == Fifo!Spec

\* The stack is as high as the last node is deep, so neither the pops of the
\* next node nor the look-up of its parent run off it.
StackMatchesDepth ==
  (made > 0 /\ ~ended) => Len(stack) = slot[in].depth

\* A NULL pointer is followed for two reasons only: the first node finds no stack
\* because the depth it is compared with was never written, or a value is empty.
CrashCauses ==
  status = "CRASHED" => \/ made = 1 /\ FreshDepths # {0}
                        \/ ValueIsNull(last)

Whole == IF ended THEN Waiting \ {in} ELSE Waiting

\* A waiting node's key and text have been moved into the queue's own string
\* buffer, for the data source overwrites its buffer with the next node; only
\* the node whose enqueue failed, the last one, may still point there.
WaitingOwnTheirText ==
  \A i \in Whole :
    /\ slot[i].key \in {"none", "text"}
    /\ slot[i].kind = "string" => slot[i].value = "text"

\* A collection that is no deeper than the node before it, which was a sibling
\* collection or lay in one, gets no stack entry.
SiblingCollections ==
  \E k \in 2 .. Len(born) :
    born[k].kind = "collection" /\ born[k].depth <= born[k - 1].depth

\* The parent of a waiting node is the collection it lies in, as long as no
\* collection directly follows a sibling collection.
TrueParent ==
  ~SiblingCollections =>
    \A i \in Whole : slot[i].parent = born[slot[i].id].parent

\* Whatever the document, a waiting node's parent is a collection made before
\* it, of the right depth; only the collections at the top have none.
ParentDepth ==
  \A i \in Whole :
    LET n == slot[i]   inner == IF n.kind = "collection" THEN 1 ELSE 0
    IN IF n.parent = 0
       THEN n.kind = "collection" /\ n.depth = 1
       ELSE /\ n.parent < n.id
            /\ born[n.parent].kind = "collection"
            /\ born[n.parent].depth = n.depth - inner
=============================================================================
