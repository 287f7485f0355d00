--------------------------- MODULE DataSourceCalls ---------------------------
(***************************************************************************)
(* A data source and a driver that calls it: it stages a key, enqueues     *)
(* nodes, resets the status when a node was produced, and ascends at the   *)
(* end of a collection.                                                    *)
(***************************************************************************)
EXTENDS DataSource

CONSTANTS
  Keys,        \* keys the driver stages
  Values,      \* string values it enqueues
  Nesting,     \* bound: how deep it nests collections
  MaxNodes     \* bound: nodes it enqueues

ASSUME DriverAssumption ==
  /\ Keys \subseteq Seq(Chars) \ {<<>>} /\ Values \subseteq Seq(Chars)
  /\ \A key \in Keys : Len(Encoded(key)) <= KeyMax
  /\ Nesting \in Nat /\ MaxNodes \in Nat

VARIABLES
  ds,
  given,    \* history: key and value of the last node the driver enqueued
  refused,  \* history: did put_char_in refuse one of them?
  keyless,  \* history: was any string enqueued without a key?
  nesting   \* collections the driver has open

history == <<given, refused, keyless, nesting>>
vars == <<ds, history>>

Given(text) == IF text = <<>> THEN NoText ELSE text

Init ==
  /\ \E size \in Sizes : \E b \in Opened(size) : ds = NewDataSource(b)
  /\ given = [key |-> NoText, value |-> NoText]
  /\ refused = FALSE /\ keyless = FALSE
  /\ nesting = 0

StageKey(key) ==
  /\ ds' = StageNodeKey(ds, key)
  /\ UNCHANGED history

Remember(kind, value) ==
  /\ given' = [key |-> Given(ds.key_staging), value |-> Given(value)]
  /\ refused' = IsRefused(ds, kind, value)
  /\ keyless' = (keyless \/ (kind = "string" /\ ~HasStagedKey(ds)))
  /\ nesting' = IF kind \in Collections THEN nesting + 1 ELSE nesting

Enqueue(kind, value) ==
  /\ ds.sequence < MaxNodes
  /\ kind \in Collections => nesting < Nesting
  /\ ds' = EnqueueDsNode(ds, kind, value)
  /\ IF ds.status = "OKAY" THEN Remember(kind, value) ELSE UNCHANGED history

ResetStatus ==
  /\ ds.status = "NODE_PRODUCED"
  /\ ds' = ResetDsStatus(ds)
  /\ UNCHANGED history

Ascend ==
  /\ nesting > 0
  /\ ds' = DsAscend(ds)
  /\ nesting' = nesting - 1
  /\ UNCHANGED <<given, refused, keyless>>

Next ==
  \/ \E key \in Keys : StageKey(key)
  \/ \E kind \in Collections : Enqueue(kind, <<>>)
  \/ \E value \in Values : Enqueue("string", value)
  \/ ResetStatus
  \/ Ascend

Spec == Init /\ [][Next]_vars

-----------------------------------------------------------------------------
(* Properties. *)

\* As long as every string has a key, a node that is passed on has the key that
\* was staged for it and the value it was enqueued with, not those of its
\* neighbours; after a text that was refused, too.  An empty text is NULL.
NodeAsGiven ==
  (ds.status = "NODE_PRODUCED" /\ ~refused /\ ~keyless) =>
    ds.node.key = given.key /\ ds.node.value = given.value
=============================================================================
