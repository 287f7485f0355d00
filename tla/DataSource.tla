----------------------------- MODULE DataSource -----------------------------
(***************************************************************************)
(* The inbound side of data_source/data_source.c: a data source has a      *)
(* status that sticks until it is reset, a staged key, a boundary, and one *)
(* node that every enqueue fills anew.  A data source is a record that the *)
(* operators below take and return; DataSourceCalls and YamlInbound call   *)
(* them.  The node's key and value, pointers into the boundary's OChars,   *)
(* are the texts found there.                                              *)
(***************************************************************************)
EXTENDS Boundary

CONSTANTS
  KeyMax,   \* key_stage_max_length, in chars
  MaxDepth  \* MAX_NODE_DEPTH

ASSUME DataSourceAssumption == KeyMax \in Nat \ {0} /\ MaxDepth \in Nat \ {0}

Collections == {"map", "sequence"}

NewNode == [id |-> 0, depth |-> 0, has_key |-> FALSE, kind |-> "unset",
            key |-> NoText, value |-> NoText]
NewDataSource(b) ==
  [status |-> "OKAY", key_staging |-> <<>>, boundary |-> b, node |-> NewNode,
   sequence |-> 0]

\* key_staging has KeyMax + 1 chars; a key longer than KeyMax is copied past them.
IsTooLong(key) == Len(Encoded(key)) >= KeyMax

StageNodeKey(ds, key) ==
  IF ds.status # "OKAY" THEN ds
  ELSE [ds EXCEPT !.key_staging = key,
                  !.status = IF IsTooLong(key) THEN "KEY_STR_TOO_LONG" ELSE @]

ResetDsStatus(ds) == [ds EXCEPT !.status = "OKAY"]

-----------------------------------------------------------------------------
(* The steps of enqueue_ds_node.  The statuses of put_char_in,             *)
(* descend_one_level and flush_inbound are overwritten before anyone looks.*)

HasStagedKey(ds) == ds.key_staging # <<>>

\* Mutant: the key flag is not set again.
NumberedUnflagged(ds) ==
  [ds EXCEPT !.node = [NewNode EXCEPT !.id = ds.sequence, !.depth = ds.node.depth],
             !.sequence = @ + 1]

\* reset_node keeps depth and has_key.
Numbered(ds) ==
  [ds EXCEPT !.node = [NewNode EXCEPT !.id = ds.sequence,
                                      !.depth = ds.node.depth,
                                      !.has_key = ds.node.has_key \/ HasStagedKey(ds)],
             !.sequence = @ + 1]

PutKey(ds) ==
  IF HasStagedKey(ds)
  THEN [ds EXCEPT !.boundary = PutCharIn(@, Source(ds.key_staging, FALSE))]
  ELSE ds

PutValue(ds, kind, value) ==
  IF kind = "string"
  THEN [ds EXCEPT !.boundary = PutCharIn(@, Source(value, TRUE))]
  ELSE ds

Descend(ds, kind) ==
  IF kind \in Collections /\ ds.node.depth < MaxDepth
  THEN [ds EXCEPT !.node.depth = @ + 1] ELSE ds

SetKind(ds, kind) == [ds EXCEPT !.node.kind = kind]

\* Mutant: flushes for a string only, and leaves a collection's key behind.
FlushStrings(ds) ==
  IF HasStagedKey(ds) /\ ds.node.kind = "string"
  THEN [ds EXCEPT !.boundary = FlushInbound(@)] ELSE ds

Flush(ds) ==
  IF HasStagedKey(ds) THEN [ds EXCEPT !.boundary = FlushInbound(@)] ELSE ds

\* Of get_ochar_out's statuses only BOUNDARY_RESET is kept.
AfterGetOChar(ds) ==
  [ds EXCEPT !.boundary = AfterGet(@),
             !.status = IF GetStatus(ds.boundary) = "BOUNDARY_RESET"
                        THEN "BOUNDARY_RESET" ELSE "OKAY"]

TakeKey(ds) ==
  IF ~HasStagedKey(ds) THEN ds
  ELSE LET got == [AfterGetOChar(ds) EXCEPT !.key_staging = <<>>]
       IN IF got.status = "OKAY"
          THEN [got EXCEPT !.node.key = GotText(ds.boundary)] ELSE got

TakeValue(ds) ==
  IF ds.status # "OKAY" \/ ds.node.kind # "string" THEN ds
  ELSE LET got == AfterGetOChar(ds)
       IN IF got.status = "OKAY"
          THEN [got EXCEPT !.node.value = GotText(ds.boundary)] ELSE got

Produce(ds) == IF ds.status = "OKAY" THEN [ds EXCEPT !.status = "NODE_PRODUCED"] ELSE ds

EnqueueDsNode(ds, kind, value) ==
  IF ds.status # "OKAY" THEN ds
  ELSE LET put == PutValue(PutKey(Numbered(ds)), kind, value)
       IN Produce(TakeValue(TakeKey(Flush(SetKind(Descend(put, kind), kind)))))

\* Does the boundary refuse one of the texts of a node?
IsRefused(ds, kind, value) ==
  \/ HasStagedKey(ds) /\ Refuses(ds.boundary, Source(ds.key_staging, FALSE))
  \/ kind = "string" /\ Refuses(PutKey(ds).boundary, Source(value, TRUE))

DsAscend(ds) ==
  IF ds.node.depth = 0 THEN ds ELSE [ds EXCEPT !.node.depth = @ - 1]

DataSourceType(ds) ==
  LET Text == Seq(Chars \cup {Junk})
  IN /\ ds.status \in {"OKAY", "NODE_PRODUCED", "KEY_STR_TOO_LONG", "BOUNDARY_RESET"}
     /\ ds.key_staging \in Seq(Chars)
     /\ BoundaryType(ds.boundary)
     /\ ds.node.depth \in 0 .. MaxDepth
     /\ ds.node.kind \in Collections \cup {"string", "unset"}
     /\ ds.node.has_key \in BOOLEAN
     /\ ds.node.key = NoText \/ (ds.node.key \in Text /\ ds.node.has_key)
     /\ ds.node.value = NoText \/ (ds.node.value \in Text /\ ds.node.kind = "string")
     /\ ds.sequence \in Nat /\ ds.node.id <= ds.sequence
=============================================================================
