---------------------------- MODULE YamlInbound ----------------------------
(***************************************************************************)
(* yaml_inbound of tests/prototypes/yaml_to_sqlite.c on top of a data      *)
(* source.  A call reads parser events until a node is produced, an        *)
(* enqueue fails or the stream ends; each action below handles one event.  *)
(* The parser is external: it delivers the events of any stream whose      *)
(* documents are collections with scalar keys.  Events that the code       *)
(* ignores (of the stream and of documents) are left out, and so is        *)
(* yaml_status: it is a local that becomes SEQUENCE only in a call that    *)
(* ends there and then, so no scalar ever meets it.                        *)
(***************************************************************************)
EXTENDS DataSource

CONSTANTS
  Keys, Values,  \* scalars of the documents
  MaxNodes       \* bound: nodes of the stream, and nodes passed on

ASSUME DocumentAssumption ==
  /\ Keys \subseteq Seq(Chars) /\ Values \subseteq Seq(Chars)
  /\ \A k \in Keys : Len(Encoded(k)) <= KeyMax
  /\ MaxNodes \in Nat

VARIABLES
  ds,
  have_key,  \* local of yaml_inbound: was a scalar of this call staged as a key?
  status,    \* local of yaml_inbound, which it returns at the end of the call
  ended,     \* "no", "done" (is_done) or "failed" (a status the run loop returns)
  places,    \* parser: where in the document it is, the innermost place last
  key,       \* history: the key the document gives to the next value
  written,   \* history: the nodes of the stream so far
  passed,    \* history: the nodes passed on so far
  seen       \* history: what the stream has had so far of Oddities

\* Aliases, scalars of sequences, empty keys, collections nested deeper than MaxDepth,
\* and nodes whose key or value found no room in the boundary.
Oddities == {"alias", "sequence scalar", "empty key", "too deep", "no room"}

vars == <<ds, have_key, status, ended, places, key, written, passed, seen>>

Init ==
  /\ \E size \in Sizes : \E b \in Opened(size) : ds = NewDataSource(b)
  /\ have_key = FALSE /\ status = "OKAY" /\ ended = "no"
  /\ places = <<>> /\ key = NoText
  /\ written = <<>> /\ passed = <<>> /\ seen = {}

-----------------------------------------------------------------------------
(* The documents: a place is a mapping's key or value, or a sequence's item*)

IsAt(place) == places # <<>> /\ Last(places) = place
MayHoldNode == Len(written) < MaxNodes /\ ds.sequence < MaxNodes /\ ~IsAt("key")

Given(text) == IF text = <<>> THEN NoText ELSE text
Named(kind, value) ==
  [kind |-> kind, key |-> key, value |-> Given(value),
   depth |-> Len(places) + (IF kind \in Collections THEN 1 ELSE 0)]

\* After its value a mapping goes on with a key.
AfterValue(at) ==
  IF at # <<>> /\ Last(at) = "value" THEN Append(Front(at), "key") ELSE at

-----------------------------------------------------------------------------
(* The calls.                                                              *)

\* Mutant: the local survives the call.
KeepsLocals == UNCHANGED have_key

EndsCall == have_key' = FALSE

\* The call that produced a node has returned, and the locals start afresh.
StatusSoFar == IF status = "NODE_PRODUCED" THEN "OKAY" ELSE status

PassedOn(d) ==
  [kind |-> d.node.kind, key |-> d.node.key, value |-> d.node.value,
   depth |-> d.node.depth]

\* INBOUND_NODE_CHECK: when a node was produced the status is reset, any other
\* status is returned and ends the run loop.
EnqueueNode(kind, value) ==
  \E d \in {EnqueueDsNode(ds, kind, value)} :
    /\ EndsCall
    /\ status' = d.status
    /\ \/ /\ d.status = "NODE_PRODUCED"
          /\ ds' = ResetDsStatus(d)
          /\ passed' = Append(passed, PassedOn(d))
          /\ UNCHANGED ended
       \/ /\ d.status # "NODE_PRODUCED"
          /\ ds' = d
          /\ ended' = "failed"
          /\ UNCHANGED passed

\* A scalar without a key before it in the same call is taken for a key.
HandleScalar(text) ==
  \/ /\ ~have_key
     /\ ds' = StageNodeKey(ds, text)
     /\ status' = ds'.status
     /\ have_key' = TRUE
     /\ UNCHANGED <<ended, passed>>
  \/ /\ have_key
     /\ EnqueueNode("string", text)

RoomLacks(kind, value) ==
  IF ds.status = "OKAY" /\ IsRefused(ds, kind, value) THEN {"no room"} ELSE {}

IsRunning == ended = "no"

StartCollection(kind) ==
  /\ IsRunning /\ MayHoldNode
  /\ EnqueueNode(kind, <<>>)
  /\ written' = Append(written, Named(kind, <<>>))
  /\ places' = Append(places, IF kind = "map" THEN "key" ELSE "item")
  /\ key' = NoText
  /\ seen' = seen \cup RoomLacks(kind, <<>>)
                  \cup (IF Len(places) >= MaxDepth THEN {"too deep"} ELSE {})

\* Mutant: the depth is left as it is.
StaysDown(d) == d

Ascended(d) == DsAscend(d)

EndCollection ==
  /\ IsRunning /\ places # <<>> /\ ~IsAt("value")
  /\ ds' = Ascended(ds)
  /\ status' = IF ds.node.depth = 0 THEN "NODES_TOO_SHALLOW" ELSE "OKAY"
  /\ places' = AfterValue(Front(places))
  /\ UNCHANGED <<have_key, ended, key, written, passed, seen>>

KeyScalar(text) ==
  /\ IsRunning /\ IsAt("key")
  /\ ds.sequence < MaxNodes
  /\ HandleScalar(text)
  /\ places' = Append(Front(places), "value")
  /\ key' = Given(text)
  /\ seen' = IF text = <<>> THEN seen \cup {"empty key"} ELSE seen
  /\ UNCHANGED written

ValueScalar(text) ==
  /\ IsRunning /\ MayHoldNode
  /\ IsAt("value") \/ IsAt("item")
  /\ HandleScalar(text)
  /\ seen' = seen \cup (IF have_key THEN RoomLacks("string", text) ELSE {})
                  \cup (IF IsAt("item") THEN {"sequence scalar"} ELSE {})
  /\ written' = Append(written, Named("string", text))
  /\ places' = AfterValue(places)
  /\ key' = NoText

\* An alias is ignored, and its key stays staged.
Alias ==
  /\ IsRunning
  /\ IsAt("value") \/ IsAt("item")
  /\ places' = AfterValue(places)
  /\ key' = NoText
  /\ seen' = seen \cup {"alias"}
  /\ status' = StatusSoFar
  /\ UNCHANGED <<ds, have_key, ended, written, passed>>

StreamEnd ==
  /\ IsRunning /\ places = <<>>
  /\ ended' = "done"
  /\ EndsCall
  /\ status' = StatusSoFar
  /\ UNCHANGED <<ds, places, key, written, passed, seen>>

Next ==
  \/ \E kind \in Collections : StartCollection(kind)
  \/ EndCollection
  \/ \E text \in Keys : KeyScalar(text)
  \/ \E text \in Values : ValueScalar(text)
  \/ Alias
  \/ StreamEnd

Spec == Init /\ [][Next]_vars

-----------------------------------------------------------------------------
(* Properties. *)

TypeOK ==
  /\ DataSourceType(ds)
  /\ have_key \in BOOLEAN
  /\ status \in {"OKAY", "NODE_PRODUCED", "KEY_STR_TOO_LONG", "BOUNDARY_RESET",
                 "NODES_TOO_SHALLOW"}
  /\ ended \in {"no", "done", "failed"}
  /\ places \in Seq({"key", "value", "item"})
  /\ Len(written) <= MaxNodes /\ Len(passed) <= ds.sequence
  /\ seen \subseteq Oddities

AsWritten ==
  /\ IsPrefix(passed, written)
  /\ ended = "done" => passed = written

\* As long as the stream has no alias, no scalar in a sequence, no empty key, which
\* is taken for none, no collection deeper than MaxDepth and no text that finds no
\* room in the boundary, the nodes passed on are those of the stream: in order, each
\* with its own key, value and depth, and all once the driver is done.
PassedAsWritten == seen = {} => AsWritten

\* The data source interface: a collection is a mapping or a sequence, and its
\* nodes contain collections or scalars.  So scalars in sequences do no harm.
SequencesAsWritten == seen \subseteq {"sequence scalar"} => AsWritten

\* Whatever the document, up to collections that are too deep, the depth of the
\* data source's node is the number of collections that are open there, on which
\* the node queue's stack relies.
DepthFollowsDocument ==
  (ended # "failed" /\ "too deep" \notin seen) => ds.node.depth = Len(places)
=============================================================================
