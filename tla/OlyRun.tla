------------------------------- MODULE OlyRun -------------------------------
(***************************************************************************)
(* oly_run of core/oly_run.c with the two drivers of                       *)
(* tests/prototypes/yaml_to_sqlite.c: yaml_inbound (YamlInbound) produces, *)
(* the node queue (NodeQueue) holds, sqlite_outbound consumes.  The first  *)
(* loop takes in nodes until an enqueue says NODES_TOO_SHALLOW, which is   *)
(* what becomes of the last node when it is passed on once more after the  *)
(* end of the stream; the second loop sends until the queue is empty.      *)
(* Node ids of the queue are one more than in the code, 0 is no node.      *)
(***************************************************************************)
EXTENDS YamlInbound, FiniteSetsExt

CONSTANTS Size, KeyLen, ValueLen, TextLast, FreshDepths,  \* see NodeQueue
          OutNodes,  \* what the uninitialised out_node of oly_send may point to
  MaxFaults, \* bound: inserts that fail for the database's own reasons
  Lost       \* a key that comes from an uninitialised pointer

OutKinds == {"keyed", "keyless", "unusable"}

\* A stream without nodes passes a blank one on, which has the first id.
ASSUME RunAssumption ==
  /\ Size \in Nat \ {0} /\ FreshDepths \subseteq Nat /\ MaxNodes \in Nat \ {0}
  /\ KeyLen \in Nat \ {0} /\ ValueLen \in Nat \ {0} /\ TextLast \in Nat \ {0}
  /\ OutNodes \subseteq OutKinds
  /\ \A k \in Keys \ {<<>>} : Len(Encoded(k)) < KeyMax => Len(k) = KeyLen
  /\ \A v \in Values : Len(v) \in {0, ValueLen}
  /\ MaxFaults \in Nat

VARIABLES
  in, out, slot, collection_end, stack, write_a, queue_status, node_out,
  phase,      \* where oly_run is
  result,     \* what oly_run has returned, "running" before
  nodes,      \* table node: its rows, in the order of their inserts
  relations,  \* table node_relation: pairs of a node and its parent
  refused,    \* history: nodes whose insert failed for the database's own reasons
  faults      \* number of such failures

Queue == INSTANCE NodeQueue WITH status <- queue_status

queueVars == <<in, out, slot, collection_end, stack, write_a, queue_status, node_out>>
driverVars == <<ds, have_key, status, ended, places, key, written, passed, seen>>
tables == <<nodes, relations, refused, faults>>
runVars == <<driverVars, queueVars, phase, result, tables>>

OpenRun ==
  /\ Init
  /\ Queue!OpenQueue
  /\ phase = "dispatch" /\ result = "running"
  /\ nodes = <<>> /\ relations = {} /\ refused = {} /\ faults = 0

Returns(value) == phase' = "returned" /\ result' = value
Dies == phase' = "returned" /\ result' = "DIED"
GoesTo(next) == phase' = next /\ UNCHANGED result

-----------------------------------------------------------------------------
(* The first loop. *)

\* One event of the parser in the inbound dispatch function.
InboundEvent ==
  /\ phase = "dispatch" /\ ended = "no"
  /\ Next
  /\ \/ passed' # passed /\ GoesTo("receive")
     \/ ended' = "done" /\ status' = "OKAY" /\ GoesTo("receive")
     \/ ended' = "done" /\ status' # "OKAY" /\ Returns(status')
     \/ ended' = "failed" /\ Returns(status')
     \/ ended' = "no" /\ passed' = passed /\ GoesTo("dispatch")
  /\ UNCHANGED <<queueVars, tables>>

InboundAtEnd ==
  /\ phase = "dispatch" /\ ended = "done"
  /\ Returns("DS_EOF")
  /\ UNCHANGED <<driverVars, queueVars, tables>>

PlaceOf(text) == IF text = NoText THEN "none" ELSE "source"
CollectedNode ==
  [id |-> ds.node.id + 1, depth |-> ds.node.depth, parent |-> 0,
   kind |-> IF ds.node.kind \in Collections THEN "collection" ELSE ds.node.kind,
   key |-> PlaceOf(ds.node.key), value |-> PlaceOf(ds.node.value)]

\* Mutant: leaves the first loop when the queue is full.
AfterReceiveSendingFull ==
  CASE queue_status' = "OKAY" -> GoesTo("dispatch")
    [] queue_status' \in {"NODES_TOO_SHALLOW", "NODE_QUEUE_FULL"} -> GoesTo("send")
    [] queue_status' \in {"ABORTED", "CRASHED"} -> Dies
    [] OTHER -> Returns(queue_status')

AfterReceive ==
  CASE queue_status' = "OKAY" -> GoesTo("dispatch")
    [] queue_status' = "NODES_TOO_SHALLOW" -> GoesTo("send")
    [] queue_status' \in {"ABORTED", "CRASHED"} -> Dies
    [] OTHER -> Returns(queue_status')

Receive ==
  /\ phase = "receive"
  /\ Queue!Enqueue(CollectedNode)
  /\ AfterReceive
  /\ UNCHANGED <<driverVars, tables>>

-----------------------------------------------------------------------------
(* The second loop.  oly_send copies the node to wherever out_node points; *)
(* when that is the inbound source's node, nothing reads that any more.    *)

Send ==
  /\ phase = "send"
  /\ Queue!Dequeue
  /\ \/ "unusable" \in OutNodes /\ Dies
     \/ /\ OutNodes # {"unusable"}
        /\ IF queue_status' = "NODE_QUEUE_EMPTY" THEN Returns("OKAY") ELSE GoesTo("store")
  /\ UNCHANGED <<driverVars, tables>>

\* copy_node does not copy has_key: without it the local key of
\* sqlite_outbound stays uninitialised.
BoundKeys(n) ==
  LET own == IF n.key = "none" THEN NoText ELSE passed[n.id].key
  IN {own : k \in OutNodes \cap {"keyed"}} \cup {Lost : k \in OutNodes \cap {"keyless"}}
BoundValue(n) == IF n.value = "none" THEN NoText ELSE passed[n.id].value

\* A reset slot has the id of the first node.
RowId(id) == IF id = 0 THEN 0 ELSE id - 1
Row(n) == RowId(n.id) + 1

\* Mutant: the parent's own parent is stored.
GrandParent(n) ==
  <<RowId(n.id), IF n.parent = 0 THEN 0 ELSE RowId(slot[n.parent].parent)>>

Relation(n) == <<RowId(n.id), RowId(n.parent)>>

Stored == {nodes[i].id : i \in DOMAIN nodes}

\* Mutant: the primary key is not checked.
InsertUnchecked(n, k) ==
  /\ nodes' = Append(nodes, [id |-> RowId(n.id), key |-> k, value |-> BoundValue(n)])
  /\ refused' = refused \ {Row(n)}

\* A failed insert is printed; its status is overwritten with NODE_CONSUMED,
\* and that by the next oly_send.
InsertNode(n, k) ==
  /\ RowId(n.id) \notin Stored
  /\ nodes' = Append(nodes, [id |-> RowId(n.id), key |-> k, value |-> BoundValue(n)])
  /\ refused' = refused \ {Row(n)}

\* The primary key is taken.
NodeIsThere(n) == RowId(n.id) \in Stored /\ UNCHANGED <<nodes, refused>>

NodeFails(n) ==
  /\ RowId(n.id) \notin Stored
  /\ refused' = refused \cup {Row(n)}
  /\ UNCHANGED nodes

\* A pair that is there is refused by the unique constraint, to the same effect.
InsertRelation(n) == relations' = relations \cup {Relation(n)}

StoreNode(n) == NodeIsThere(n) \/ \E k \in BoundKeys(n) : InsertNode(n, k)

Faulty == faults < MaxFaults /\ faults' = faults + 1

Store ==
  /\ phase = "store"
  /\ \/ StoreNode(node_out) /\ InsertRelation(node_out) /\ UNCHANGED faults
     \/ NodeFails(node_out) /\ InsertRelation(node_out) /\ Faulty
     \/ StoreNode(node_out) /\ UNCHANGED relations /\ Faulty
  /\ GoesTo("send")
  /\ UNCHANGED <<driverVars, queueVars>>

RunNext == InboundEvent \/ InboundAtEnd \/ Receive \/ Send \/ Store

RunSpec == OpenRun /\ [][RunNext]_runVars

\* The program runs on, and documents are finite: every collection ends.
Fairness ==
  /\ WF_runVars(RunNext)
  /\ SF_driverVars(phase = "dispatch" /\ EndCollection)

LiveRun == RunSpec /\ Fairness

-----------------------------------------------------------------------------
(* Properties. *)

RunType ==
  /\ TypeOK
  /\ Queue!QueueType
  /\ phase \in {"dispatch", "receive", "send", "store", "returned"}
  /\ result = "running" <=> phase # "returned"
  /\ relations \subseteq (0 .. MaxNodes) \X (0 .. MaxNodes)
  /\ refused \subseteq 1 .. MaxNodes

\* Nodes arrive once, in order and with their own texts; an error return leaves
\* the tables empty, OKAY means that all are there but those SQLite refused.
Promise == INSTANCE Transfer WITH given <- passed, rows <- nodes
TransferSpec == Promise!Spec

HasSiblings ==
  \E k \in 2 .. Len(passed) :
    passed[k].kind \in Collections /\ passed[k].depth <= passed[k - 1].depth

\* The collection the k-th node lies in, 0 for one at the top.
ParentOf(k) ==
  LET inner == IF passed[k].kind \in Collections THEN 1 ELSE 0
      above == {j \in 1 .. k - 1 : /\ passed[j].kind \in Collections
                                   /\ passed[j].depth = passed[k].depth - inner}
  IN IF above = {} THEN 0 ELSE Max(above)

\* The relations stored are those of the nodes given, as long as no collection
\* follows its sibling (one that is too deep has the depth of the one around it, and
\* counts as such); besides, the last node may have a second one, to node 0, from
\* being sent once more as it was passed on after the end of the stream.
RelationsTrue ==
  ~HasSiblings =>
    \A r \in relations :
      \/ r[2] = RowId(ParentOf(r[1] + 1))
      \/ r = <<Len(passed) - 1, 0>>

\* The last thing that is put into the queue lies in the last slot: the repeated last
\* node, or, after a collection that was too deep, a node that is outside of all.
FillsLastSlot ==
  \/ Len(passed) + 1 = Size
  \/ Len(passed) = Size /\ "too deep" \in seen

\* A run ends, unless the last thing it puts into the queue lies in the last slot: once
\* that slot is read EMPTY is never reported, and reset slots are sent round and round.
RunEnds == <>(phase = "returned" \/ (FillsLastSlot /\ in = Size /\ out = Size))
=============================================================================
