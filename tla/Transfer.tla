------------------------------ MODULE Transfer ------------------------------
(***************************************************************************)
(* What a run of oly promises: the nodes the inbound source gives are      *)
(* stored once each and in their order, none before the last has been      *)
(* given; a run that reports an error has stored nothing, and one that     *)
(* reports OKAY has stored everything but what the database refused.       *)
(***************************************************************************)
EXTENDS Naturals, Sequences, FiniteSets

CONSTANTS NoText,  \* no key, no value
  Lost             \* a key that got lost on the way

VARIABLES given,    \* nodes the inbound source has produced
          rows,     \* rows stored, in the order of their inserts
          refused,  \* places in given whose insert the database refused
          result    \* "running", the status returned, or "DIED"

vars == <<given, rows, refused, result>>

Init == given = <<>> /\ rows = <<>> /\ refused = {} /\ result = "running"

HasStored == rows # <<>> \/ refused # {}
Settled == Len(rows) + Cardinality(refused)

\* The row of the k-th node; its key may be lost.
IsRowOf(row, k) ==
  /\ row.id = k - 1
  /\ row.value = given[k].value
  /\ row.key \in {given[k].key, Lost}

Give ==
  /\ result = "running" /\ ~HasStored
  /\ Len(given') = Len(given) + 1
  /\ SubSeq(given', 1, Len(given)) = given
  /\ UNCHANGED <<rows, refused>>
  /\ result' \in {"running", "DIED"}

Stores(k) ==
  /\ Len(rows') = Len(rows) + 1
  /\ SubSeq(rows', 1, Len(rows)) = rows
  /\ IsRowOf(rows'[Len(rows')], k)

Deliver ==
  /\ result = "running"
  /\ Settled < Len(given)
  /\ \/ Stores(Settled + 1) /\ UNCHANGED refused
     \/ refused' = refused \cup {Settled + 1} /\ UNCHANGED rows
  /\ UNCHANGED <<given, result>>

\* The last node is offered a second time.
DeliverLastAgain ==
  /\ result = "running"
  /\ Settled = Len(given) /\ Len(given) \in refused
  /\ Stores(Len(given))
  /\ refused' = refused \ {Len(given)}
  /\ UNCHANGED <<given, result>>

\* A run that goes on for ever may put a blank in place of the first node.
DeliverBlank ==
  /\ result = "running"
  /\ Settled = Len(given) /\ 1 \in refused
  /\ \E key \in {NoText, Lost} :
       rows' = Append(rows, [id |-> 0, key |-> key, value |-> NoText])
  /\ refused' = refused \ {1}
  /\ UNCHANGED <<given, result>>

Finish ==
  /\ result = "running"
  /\ \/ result' = "DIED"
     \/ result' = "OKAY" /\ Settled = Len(given)
     \/ result' \notin {"OKAY", "running"} /\ ~HasStored
  /\ UNCHANGED <<given, rows, refused>>

Next == Give \/ Deliver \/ DeliverLastAgain \/ DeliverBlank \/ Finish

Spec == Init /\ [][Next]_vars
=============================================================================
