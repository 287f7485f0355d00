-------------------------- MODULE NodeQueueProofs --------------------------
(***************************************************************************)
(* Proofs about the node queue driven by a document, for every size of the *)
(* ring and of the string buffer, every depth and every length.            *)
(***************************************************************************)
EXTENDS NodeQueueCalls, SequenceTheorems, TLAPS

\* The collection a node lies in was made before it and is one level up; only
\* collections at the top lie in none.
LiesRight(n) ==
  LET inner == IF n.kind = "collection" THEN 1 ELSE 0
  IN IF n.parent = 0
     THEN n.kind = "collection" /\ n.depth = 1
     ELSE /\ n.parent < n.id /\ n.id <= Len(born)
          /\ born[n.parent].kind = "collection"
          /\ born[n.parent].depth = n.depth - inner

OwnsText(n) ==
  n.key \in {"none", "text"} /\ (n.kind = "string" => n.value = "text")

\* Before the first node the queue is as it was opened; the document is never deeper
\* than the node passed on last.
DocumentInv ==
  /\ Len(born) = made /\ Len(open) <= MaxDepth
  /\ made = 0 =>
       in = 0 /\ out = 0 /\ open = <<>> /\ stack = <<>> /\ slot[0].depth \in FreshDepths /\ ~ended
  /\ (made > 0 /\ ~ended) => slot[in].depth >= 1 /\ Len(open) <= slot[in].depth
  /\ Stopped => ended

\* The stack holds a collection for every depth.
StackInv ==
  ~ended => \A j \in 1 .. Len(stack) :
              /\ stack[j] \in 1 .. made
              /\ born[stack[j]].kind = "collection"
              /\ born[stack[j]].depth = j

\* Every slot but that of a node whose enqueue failed.
SlotInv ==
  \A i \in Slots : (ended /\ i = in) \/ (OwnsText(slot[i])
                                         /\ (slot[i].kind = "unset" \/ LiesRight(slot[i])))

Inv == TypeOK /\ DocumentInv /\ StackMatchesDepth /\ StackInv /\ SlotInv /\ CrashCauses

-----------------------------------------------------------------------------
LEMMA NodeFields ==
  ASSUME NEW n \in Node
  PROVE  /\ n.id \in Ids /\ n.depth \in Depths \cup FreshDepths /\ n.depth \in Nat
         /\ n.parent \in Ids /\ n.kind \in Kinds \cup {"unset"}
         /\ n.key \in Places /\ n.value \in Places
<1>1. /\ n.id \in Ids /\ n.depth \in Depths \cup FreshDepths
      /\ n.parent \in Ids /\ n.kind \in Kinds \cup {"unset"}
      /\ n.key \in Places /\ n.value \in Places
  BY DEF Node
<1>2. Depths \cup FreshDepths \subseteq Nat
  BY QueueAssumption DEF Depths
<1> QED BY <1>1, <1>2

LEMMA BlankIsNode ==
  ASSUME NEW d \in Depths \cup FreshDepths
  PROVE  Blank(d) \in Node /\ OwnsText(Blank(d)) /\ Blank(d).kind = "unset" /\ Blank(d).depth = d
  BY QueueAssumption DEF Blank, Node, Ids, Places, OwnsText

LEMMA NextInIsSlot ==
  ASSUME TypeOK, ~IsFull
  PROVE  NextIn \in Slots
  BY QueueAssumption DEF TypeOK, QueueType, Slots, IsFull, NextIn, MayStepUp, MayWrap

\* The stack for a node that is not too shallow: as high as the node is deep, when it
\* was as high as the node before it.
LEMMA StackForNode ==
  ASSUME TypeOK, NEW n \in Node, ~PopsTooFar(n), ~FollowsNull(n)
  PROVE  /\ StackFor(n) \in Seq(Ids)
         /\ Rises(n) => /\ Len(StackFor(n)) = Len(stack) + 1
                        /\ \A j \in 1 .. Len(stack) : StackFor(n)[j] = stack[j]
                        /\ StackFor(n)[Len(stack) + 1] = n.id
         /\ ~Rises(n) => /\ Len(StackFor(n)) = Len(stack) - Drop(n)
                         /\ Drop(n) \in 0 .. Len(stack)
                         /\ \A j \in 1 .. Len(stack) - Drop(n) : StackFor(n)[j] = stack[j]
<1>1. stack \in Seq(Ids) /\ Len(stack) \in Nat /\ n.id \in Ids
  BY NodeFields, LenProperties DEF TypeOK, QueueType
<1>2. Prev.depth \in Nat /\ n.depth \in Nat
  BY NodeFields DEF TypeOK, QueueType, Prev
<1>3. CASE Rises(n)
  BY <1>1, <1>3, AppendProperties DEF StackFor
<1>4. CASE ~Rises(n)
  <2>1. Drop(n) \in 0 .. Len(stack)
    <3>1. CASE stack = <<>>
      BY <1>1, <1>2, <1>4, <3>1 DEF FollowsNull, Drop, Rises
    <3>2. CASE stack # <<>>
      BY <1>1, <1>2, <1>4, <3>2 DEF PopsTooFar, Drop, Rises
    <3> QED BY <3>1, <3>2
  <2>2. \A j \in 1 .. Len(stack) - Drop(n) : stack[j] \in Ids
    BY <1>1, <2>1, ElementOfSeq
  <2>3. /\ SubSeq(stack, 1, Len(stack) - Drop(n)) \in Seq(Ids)
        /\ Len(SubSeq(stack, 1, Len(stack) - Drop(n))) = Len(stack) - Drop(n)
        /\ \A j \in 1 .. Len(stack) - Drop(n) :
             SubSeq(stack, 1, Len(stack) - Drop(n))[j] = stack[j]
    <3>1. PICK m \in Nat : m = Len(stack) - Drop(n)
      BY <1>1, <2>1
    <3>2. /\ SubSeq(stack, 1, m) \in Seq(Ids)
          /\ Len(SubSeq(stack, 1, m)) = IF 1 <= m THEN m - 1 + 1 ELSE 0
          /\ \A j \in 1 .. m - 1 + 1 : SubSeq(stack, 1, m)[j] = stack[1 + j - 1]
      BY <2>2, <3>1, SubSeqProperties
    <3> QED BY <3>1, <3>2
  <2> QED BY <1>4, <2>1, <2>3 DEF StackFor
<1> QED BY <1>3, <1>4

LEMMA ParentIsId ==
  ASSUME TypeOK, NEW n \in Node, ~PopsTooFar(n), ~FollowsNull(n)
  PROVE  ParentFor(n) \in Ids
<1>1. StackFor(n) \in Seq(Ids)
  BY StackForNode
<1>2. \A k \in {0, 1} : FromTop(StackFor(n), k) \in Ids
  <2>1. ASSUME NEW k \in {0, 1}, Len(StackFor(n)) > k
        PROVE  StackFor(n)[Len(StackFor(n)) - k] \in Ids
    <3>1. Len(StackFor(n)) \in Nat
      BY <1>1, LenProperties
    <3>2. Len(StackFor(n)) - k \in 1 .. Len(StackFor(n))
      BY <2>1, <3>1
    <3> QED BY <1>1, <3>2, ElementOfSeq
  <2>2. 0 \in Ids
    BY QueueAssumption DEF Ids
  <2> QED BY <2>1, <2>2 DEF FromTop
<1> QED BY <1>2 DEF ParentFor

-----------------------------------------------------------------------------
\* The ways an enqueue may go: the queue is full; the node gets its slot, with its
\* parent; the bare copy gets a slot and the stack is at an end.
Placed(n, key, value) ==
  /\ Place(n, key, value)
  /\ write_a' \in 0 .. TextLast
  /\ status' \in {"OKAY", "BUFFER_OVERFLOW", "ABORTED", "CRASHED"}
  /\ status' = "OKAY" => key \in {"none", "text"} /\ (n.kind = "string" => value = "text")
  /\ status' = "CRASHED" => ValueIsNull(n)

LEMMA EnqueueOutcomes ==
  ASSUME TypeOK, NEW n \in Node, Enqueue(n)
  PROVE  \/ EnqueueFull(n)
         \/ \E key \in Places, value \in Places : Placed(n, key, value)
         \/ EnqueueTooShallow(n)
         \/ EnqueueWithoutStack(n)
<1>1. /\ write_a \in Nat /\ write_a <= TextLast
      /\ KeyLen \in Nat /\ ValueLen \in Nat /\ TextLast \in Nat
  BY QueueAssumption DEF TypeOK, QueueType
<1>2. n.key \in Places /\ n.value \in Places
  BY NodeFields
<1>3. MovedKey(n) \in {"none", "text"} /\ MovedValue(n) \in {"none", "text"}
  BY DEF MovedKey, MovedValue
<1>4. ~KeyRefused(n) => AfterKey(n) \in 0 .. TextLast
  BY <1>1 DEF AfterKey, KeyRefused, Room
<1>5. (~KeyRefused(n) /\ ~ValueRefused(n)) => AfterText(n) \in 0 .. TextLast
  BY <1>1, <1>4 DEF AfterText, ValueRefused, Room
<1> USE DEF Places
<1>6. CASE EnqueueStored(n)
  <2>1. n.kind = "string" => MovedValue(n) = "text"
    BY <1>6 DEF EnqueueStored, ValueIsNull, MovedValue, HasValue
  <2>2. Placed(n, MovedKey(n), MovedValue(n))
    BY <1>3, <1>5, <1>6, <2>1 DEF EnqueueStored, Placed
  <2> QED BY <1>3, <2>2
<1>7. CASE EnqueueRefused(n)
  <2>1. CASE KeyRefused(n) /\ Place(n, n.key, n.value) /\ UNCHANGED write_a
    <3>1. Placed(n, n.key, n.value)
      BY <1>1, <1>7, <2>1 DEF EnqueueRefused, Placed
    <3> QED BY <1>2, <3>1
  <2>2. CASE ValueRefused(n) /\ Place(n, MovedKey(n), n.value) /\ write_a' = AfterKey(n)
    <3>1. Placed(n, MovedKey(n), n.value)
      BY <1>4, <1>7, <2>2 DEF EnqueueRefused, Placed, ValueRefused
    <3> QED BY <1>2, <1>3, <3>1
  <2> QED BY <1>7, <2>1, <2>2 DEF EnqueueRefused
<1>8. CASE EnqueueAborted(n)
  <2>1. Placed(n, n.key, n.value)
    BY <1>1, <1>8 DEF EnqueueAborted, Placed
  <2> QED BY <1>2, <2>1
<1>9. CASE EnqueueNullValue(n)
  <2>1. Placed(n, MovedKey(n), n.value)
    BY <1>4, <1>9 DEF EnqueueNullValue, Placed
  <2> QED BY <1>2, <1>3, <2>1
<1> QED BY <1>6, <1>7, <1>8, <1>9 DEF Enqueue

-----------------------------------------------------------------------------
\* What an enqueue does to the types.
LEMMA EnqueueKeepsType ==
  ASSUME TypeOK, NEW n \in Node, Enqueue(n)
  PROVE  QueueType'
<1> USE DEF TypeOK, QueueType
<1>1. CASE EnqueueFull(n)
  BY <1>1 DEF EnqueueFull, queueVars, Statuses
<1>2. ASSUME NEW key \in Places, NEW value \in Places, Placed(n, key, value)
      PROVE  QueueType'
  <2>1. /\ NextIn \in Slots /\ StackFor(n) \in Seq(Ids) /\ ParentFor(n) \in Ids
    BY <1>2, NextInIsSlot, StackForNode, ParentIsId DEF Placed, Place
  <2>2. [n EXCEPT !.parent = ParentFor(n), !.key = key, !.value = value] \in Node
    BY <2>1 DEF Node
  <2>3. slot' \in [Slots -> Node] /\ collection_end' \in [Slots -> BOOLEAN]
    BY <1>2, <2>1, <2>2 DEF Placed, Place, MarksPrev
  <2> QED BY <1>2, <2>1, <2>3 DEF Placed, Place, Statuses
<1>3. CASE EnqueueTooShallow(n)
  <2>1. NextIn \in Slots
    BY <1>3, NextInIsSlot DEF EnqueueTooShallow
  <2>2. SubSeq(stack, 1, 1) \in Seq(Ids)
    <3>1. stack # <<>>
      BY <1>3 DEF EnqueueTooShallow, PopsTooFar
    <3>2. Len(stack) \in Nat \ {0}
      BY <3>1, EmptySeq
    <3>3. \A i \in 1 .. 1 : stack[i] \in Ids
      BY <3>2, ElementOfSeq
    <3> QED BY <3>3, SubSeqProperties
  <2>3. collection_end' \in [Slots -> BOOLEAN]
    BY <1>3 DEF EnqueueTooShallow, MarksPrev
  <2> QED BY <1>3, <2>1, <2>2, <2>3 DEF EnqueueTooShallow, Statuses
<1>4. CASE EnqueueWithoutStack(n)
  <2>1. NextIn \in Slots
    BY <1>4, NextInIsSlot DEF EnqueueWithoutStack
  <2>2. collection_end' \in [Slots -> BOOLEAN]
    BY <1>4 DEF EnqueueWithoutStack, MarksPrev
  <2> QED BY <1>4, <2>1, <2>2 DEF EnqueueWithoutStack, Statuses
<1> QED BY <1>1, <1>2, <1>3, <1>4, EnqueueOutcomes

LEMMA FullIsTurnedAway ==
  ASSUME NEW n, Enqueue(n), IsFull
  PROVE  EnqueueFull(n)
  BY DEF Enqueue, EnqueueStored, EnqueueRefused, EnqueueAborted, EnqueueTooShallow,
         EnqueueWithoutStack, EnqueueNullValue, Place

\* The slots after an enqueue: all but one are as before.
LEMMA EnqueueWritesOneSlot ==
  ASSUME TypeOK, NEW n \in Node, Enqueue(n), ~IsFull
  PROVE  /\ in' = NextIn /\ NextIn \in Slots
         /\ slot'[in'].depth = n.depth
         /\ \A i \in Slots \ {in'} : slot'[i] = slot[i]
         /\ UNCHANGED <<out, node_out>>
<1>1. NextIn \in Slots
  BY NextInIsSlot
<1> USE <1>1 DEF TypeOK, QueueType
<1>2. CASE EnqueueFull(n)
  BY <1>2 DEF EnqueueFull
<1> DEFINE Goal == /\ in' = NextIn /\ NextIn \in Slots
                   /\ slot'[in'].depth = n.depth
                   /\ \A i \in Slots \ {in'} : slot'[i] = slot[i]
                   /\ UNCHANGED <<out, node_out>>
<1>3. ASSUME NEW key, NEW value, Placed(n, key, value)
      PROVE  Goal
  <2>1. /\ in' = NextIn
        /\ slot' = [slot EXCEPT ![NextIn] =
                     [n EXCEPT !.parent = ParentFor(n), !.key = key, !.value = value]]
        /\ UNCHANGED <<out, node_out>>
    BY <1>3 DEF Placed, Place
  <2>2. [n EXCEPT !.parent = ParentFor(n), !.key = key, !.value = value].depth = n.depth
    BY DEF Node
  <2> QED BY <2>1, <2>2
<1>4. CASE EnqueueTooShallow(n) \/ EnqueueWithoutStack(n)
  BY <1>4 DEF EnqueueTooShallow, EnqueueWithoutStack
<1> QED BY <1>2, <1>3, <1>4, EnqueueOutcomes

\* A node of the document: it is no deeper than one below the node before it, and
\* only a collection is deeper.
DocumentNode(n) ==
  /\ n \in Node /\ n.id = made + 1 /\ n.kind \in Kinds /\ n.depth \in 1 .. MaxDepth
  /\ n.depth = Len(open) + (IF n.kind = "collection" THEN 1 ELSE 0)
  /\ n.parent = 0

LEMMA NewNodeIsOne ==
  ASSUME Inv, made < MaxNodes, NEW kind \in Kinds, NEW key \in Places, NEW value \in Places,
         NEW depth \in 1 .. MaxDepth,
         depth = Len(open) + (IF kind = "collection" THEN 1 ELSE 0)
  PROVE  DocumentNode(NewNode(depth, kind, key, value))
<1>1. made + 1 \in Ids /\ 0 \in Ids /\ depth \in Depths
  BY QueueAssumption DEF Inv, TypeOK, Ids, Depths
<1> QED BY <1>1 DEF DocumentNode, NewNode, Node, Kinds

\* How the stack meets a node of the document.
LEMMA DocumentNodeFits ==
  ASSUME Inv, MayProduce, NEW n, DocumentNode(n)
  PROVE  /\ Rises(n) => n.kind = "collection" /\ n.depth = Len(stack) + 1
         /\ ~Rises(n) /\ ~FollowsNull(n) => n.depth = Len(stack) - Drop(n)
         /\ FollowsNull(n) => made = 0 /\ FreshDepths # {0}
<1>1. n.depth \in Nat /\ n.depth >= 1 /\ Len(open) \in Nat /\ made \in Nat
  BY LenProperties, QueueAssumption DEF DocumentNode, Inv, TypeOK, Ids
<1>2. CASE made = 0
  <2>1. in = 0 /\ open = <<>> /\ stack = <<>> /\ slot[0].depth \in FreshDepths
    BY <1>2 DEF Inv, DocumentInv
  <2>2. n.kind = "collection" /\ n.depth = 1 /\ Len(stack) = 0
    BY <1>1, <2>1 DEF DocumentNode
  <2>3. Prev.depth \in FreshDepths /\ Prev.depth \in Nat
    BY <2>1, QueueAssumption DEF Prev
  <2>4. FollowsNull(n) => FreshDepths # {0}
    BY <2>2, <2>3 DEF FollowsNull, Rises
  <2>5. ~Rises(n) => FollowsNull(n)
    BY <2>1, <2>2 DEF FollowsNull
  <2> QED BY <1>2, <2>2, <2>3, <2>4, <2>5
<1>3. CASE made > 0
  <2>1. Len(stack) = Prev.depth /\ Prev.depth >= 1 /\ Len(open) <= Prev.depth
    BY <1>3 DEF Inv, StackMatchesDepth, DocumentInv, MayProduce, Prev
  <2>2. Prev.depth \in Nat
    BY NodeFields DEF Inv, TypeOK, QueueType, Prev
  <2>3. stack # <<>>
    BY <2>1, <2>2
  <2>4. ~FollowsNull(n)
    BY <2>3 DEF FollowsNull
  <2> QED BY <1>1, <2>1, <2>2, <2>4 DEF DocumentNode, Rises, Drop
<1> QED BY <1>1, <1>2, <1>3

-----------------------------------------------------------------------------
(* The steps of the document.                                              *)

\* A new node that the full queue turns away changes nothing but the status.
LEMMA FullKeeps ==
  ASSUME Inv, UNCHANGED <<queueVars, node_out, open, made, last, ended, born>>,
         status' = "NODE_QUEUE_FULL"
  PROVE  Inv'
<1> USE DEF queueVars
<1>1. TypeOK'
  BY DEF Inv, TypeOK, QueueType, Statuses
<1>2. DocumentInv' /\ StackMatchesDepth' /\ CrashCauses'
  BY DEF Inv, DocumentInv, StackMatchesDepth, CrashCauses, Stopped
<1>3. StackInv' /\ SlotInv'
  BY DEF Inv, StackInv, SlotInv, LiesRight
<1> QED BY <1>1, <1>2, <1>3 DEF Inv

\* What the history says of the nodes so far stays true.
LEMMA BornGrows ==
  ASSUME Inv, NEW b, b \in [parent : Ids, depth : Depths, kind : Kinds], born' = Append(born, b)
  PROVE  /\ born' \in Seq([parent : Ids, depth : Depths, kind : Kinds])
         /\ Len(born') = made + 1 /\ made \in Nat
         /\ \A k \in 1 .. made : born'[k] = born[k]
         /\ born'[made + 1] = b
<1>1. /\ born \in Seq([parent : Ids, depth : Depths, kind : Kinds])
      /\ Len(born) = made /\ made \in Nat
  BY LenProperties DEF Inv, TypeOK, DocumentInv
<1> QED BY <1>1, AppendProperties

LEMMA LiesRightStays ==
  ASSUME Inv, NEW b, b \in [parent : Ids, depth : Depths, kind : Kinds], born' = Append(born, b),
         NEW n \in Node, LiesRight(n)
  PROVE  LiesRight(n)'
<1>1. /\ Len(born) = made /\ Len(born') = made + 1 /\ made \in Nat
      /\ \A k \in 1 .. made : born'[k] = born[k]
  BY BornGrows DEF Inv, DocumentInv
<1>2. n.parent \in Nat /\ n.id \in Nat
  BY NodeFields, QueueAssumption DEF Ids
<1>3. CASE n.parent = 0
  BY <1>3 DEF LiesRight
<1>4. CASE n.parent # 0
  <2>1. n.parent \in 1 .. made
    BY <1>1, <1>2, <1>4 DEF LiesRight
  <2> QED BY <1>1, <1>2, <1>4, <2>1 DEF LiesRight
<1> QED BY <1>3, <1>4

\* The parent found for a node of the document.
LEMMA ParentLiesRight ==
  ASSUME Inv, MayProduce, NEW n, DocumentNode(n), ~PopsTooFar(n), ~FollowsNull(n),
         NEW key, NEW value, NEW placed,
         placed = [n EXCEPT !.parent = ParentFor(n), !.key = key, !.value = value],
         NEW b,
         b = [parent |-> FromTop(open, 0), depth |-> n.depth, kind |-> n.kind],
         b \in [parent : Ids, depth : Depths, kind : Kinds],
         born' = Append(born, b)
  PROVE  LiesRight(placed)'
<1> DEFINE inner == IF n.kind = "collection" THEN 1 ELSE 0
           s == StackFor(n)
<1>1. n \in Node /\ n.depth \in Nat /\ n.depth >= 1 /\ n.id = made + 1
      /\ n.kind \in {"collection", "string"}
  BY NodeFields DEF DocumentNode, Kinds
<1>2. Len(stack) \in Nat /\ Len(s) = n.depth
  BY <1>1, StackForNode, DocumentNodeFits, LenProperties DEF Inv, TypeOK, QueueType
<1>3. \A j \in 1 .. n.depth : j # n.depth \/ ~Rises(n) => s[j] = stack[j] /\ j \in 1 .. Len(stack)
  BY <1>1, <1>2, StackForNode, DocumentNodeFits DEF Inv
<1>4. placed.parent = ParentFor(n) /\ placed.kind = n.kind /\ placed.id = n.id
      /\ placed.depth = n.depth
  BY <1>1 DEF Node
<1>5. ParentFor(n) = IF n.depth > inner THEN s[n.depth - inner] ELSE 0
  BY <1>1, <1>2 DEF ParentFor, FromTop
<1>6. CASE n.depth > inner
  <2>1. n.depth - inner \in 1 .. Len(stack) /\ s[n.depth - inner] = stack[n.depth - inner]
    BY <1>1, <1>3, <1>6, DocumentNodeFits
  <2>2. /\ ParentFor(n) \in 1 .. made
        /\ born[ParentFor(n)].kind = "collection"
        /\ born[ParentFor(n)].depth = n.depth - inner
    BY <1>5, <1>6, <2>1 DEF Inv, StackInv, MayProduce
  <2>3. born'[ParentFor(n)] = born[ParentFor(n)] /\ Len(born') = made + 1 /\ made \in Nat
    BY <2>2, BornGrows
  <2> QED BY <1>1, <1>4, <2>2, <2>3 DEF LiesRight
<1>7. CASE ~(n.depth > inner)
  <2>1. ParentFor(n) = 0 /\ n.kind = "collection" /\ n.depth = 1
    BY <1>1, <1>5, <1>7
  <2> QED BY <1>4, <2>1 DEF LiesRight
<1> QED BY <1>6, <1>7

\* The stack after a node of the document was placed.
LEMMA PlacedStack ==
  ASSUME Inv, MayProduce, NEW n, DocumentNode(n), ~PopsTooFar(n), ~FollowsNull(n),
         stack' = StackFor(n), made' = made + 1,
         NEW b, b \in [parent : Ids, depth : Depths, kind : Kinds],
         b.kind = n.kind, b.depth = n.depth,
         born' = Append(born, b)
  PROVE  /\ Len(stack') = n.depth
         /\ \A j \in 1 .. Len(stack') : /\ stack'[j] \in 1 .. made'
                                        /\ born'[stack'[j]].kind = "collection"
                                        /\ born'[stack'[j]].depth = j
<1>1. n \in Node /\ n.depth \in Nat /\ n.depth >= 1 /\ n.id = made + 1
  BY NodeFields DEF DocumentNode
<1>2. Len(stack) \in Nat /\ Len(stack') = n.depth
  BY <1>1, StackForNode, DocumentNodeFits, LenProperties DEF Inv, TypeOK, QueueType
<1>3. /\ made \in Nat /\ \A k \in 1 .. made : born'[k] = born[k]
      /\ born'[made + 1] = b
  BY BornGrows
<1>4. ASSUME NEW j \in 1 .. n.depth
      PROVE  /\ stack'[j] \in 1 .. made + 1
             /\ born'[stack'[j]].kind = "collection"
             /\ born'[stack'[j]].depth = j
  <2>1. CASE Rises(n) /\ j = n.depth
    <3>1. n.kind = "collection" /\ j = Len(stack) + 1 /\ stack'[j] = made + 1
      BY <1>1, <2>1, StackForNode, DocumentNodeFits DEF Inv
    <3>2. born'[stack'[j]] = b /\ b.kind = "collection" /\ b.depth = j
      BY <1>3, <2>1, <3>1
    <3>3. made + 1 \in 1 .. made + 1
      BY <1>3
    <3> QED BY <3>1, <3>2, <3>3
  <2>2. CASE ~(Rises(n) /\ j = n.depth)
    <3>1. j \in 1 .. Len(stack) /\ stack'[j] = stack[j]
      BY <1>1, <1>2, <2>2, StackForNode, DocumentNodeFits DEF Inv
    <3>2. /\ stack[j] \in 1 .. made /\ born[stack[j]].kind = "collection"
          /\ born[stack[j]].depth = j
      BY <3>1 DEF Inv, StackInv, MayProduce
    <3>3. born'[stack'[j]] = born[stack[j]]
      BY <1>3, <3>1, <3>2
    <3>4. stack[j] \in 1 .. made + 1
      BY <1>3, <3>2
    <3> QED BY <3>1, <3>2, <3>3, <3>4
  <2> QED BY <2>1, <2>2
<1> QED BY <1>2, <1>4

LEMMA ProduceKeeps ==
  ASSUME Inv, MayProduce, NEW n, DocumentNode(n), Produce(n),
         open' = IF ~IsFull /\ n.kind = "collection" THEN Append(open, n.id) ELSE open
  PROVE  Inv'
<1>1. /\ n \in Node /\ n.depth \in Nat /\ n.depth \in 1 .. MaxDepth /\ n.depth \in Depths
      /\ n.id = made + 1 /\ n.kind \in Kinds /\ Enqueue(n) /\ made \in Nat
      /\ ~ended /\ n.id \in Ids
  BY NodeFields, QueueAssumption DEF DocumentNode, Produce, Inv, TypeOK, Depths, Ids, MayProduce
<1>2. CASE IsFull
  <2>1. EnqueueFull(n)
    BY <1>1, <1>2, FullIsTurnedAway
  <2>2. GivesUp = FALSE /\ ended = FALSE
    BY <1>1, <2>1 DEF EnqueueFull, GivesUp, Inv, TypeOK
  <2>3. UNCHANGED <<queueVars, node_out>> /\ status' = "NODE_QUEUE_FULL"
    BY <2>1 DEF EnqueueFull
  <2>4. UNCHANGED <<open, made, last, ended, born>>
    BY <1>1, <1>2, <2>2 DEF Produce
  <2> QED BY <2>3, <2>4, FullKeeps
<1>3. CASE ~IsFull
  <2>1. PICK b : b = [parent |-> FromTop(open, 0), depth |-> n.depth, kind |-> n.kind]
    OBVIOUS
  <2>2. /\ made' = n.id /\ last' = n /\ born' = Append(born, b) /\ ended' = GivesUp
    BY <1>3, <2>1 DEF Produce
  <2>3. /\ open \in Seq(Ids) /\ Len(open) \in Nat
    BY LenProperties DEF Inv, TypeOK
  <2>4. FromTop(open, 0) \in Ids
    <3>1. Len(open) > 0 => open[Len(open) - 0] \in Ids
      BY <2>3, ElementOfSeq
    <3> QED BY <3>1, QueueAssumption DEF FromTop, Ids
  <2>5. b \in [parent : Ids, depth : Depths, kind : Kinds] /\ b.kind = n.kind /\ b.depth = n.depth
    BY <1>1, <2>1, <2>4
  <2>6. /\ born' \in Seq([parent : Ids, depth : Depths, kind : Kinds])
        /\ Len(born') = made + 1
    BY <2>2, <2>5, BornGrows
  <2>7. /\ open' \in Seq(Ids)
        /\ Len(open') = n.depth
    <3>1. CASE n.kind = "collection"
      BY <1>1, <1>3, <2>3, <3>1, AppendProperties DEF DocumentNode
    <3>2. CASE n.kind # "collection"
      BY <1>1, <2>3, <3>2 DEF DocumentNode
    <3> QED BY <3>1, <3>2
  <2>8. /\ in' = NextIn /\ NextIn \in Slots /\ slot'[in'].depth = n.depth
        /\ \A i \in Slots \ {in'} : slot'[i] = slot[i]
    BY <1>1, <1>3, EnqueueWritesOneSlot DEF Inv
  <2>9. ASSUME NEW i \in Slots \ {in'}
        PROVE  /\ OwnsText(slot'[i])
               /\ slot'[i].kind = "unset" \/ LiesRight(slot[i])'
    <3>1. slot'[i] = slot[i] /\ slot[i] \in Node
      BY <2>8, <2>9 DEF Inv, TypeOK, QueueType
    <3>2. OwnsText(slot[i]) /\ (slot[i].kind = "unset" \/ LiesRight(slot[i]))
      BY <1>1, <2>9 DEF Inv, SlotInv
    <3>3. PICK m : m = slot[i]
      OBVIOUS
    <3>4. m.kind = "unset" \/ LiesRight(m)'
      BY <2>2, <2>5, <3>1, <3>2, <3>3, LiesRightStays
    <3>5. LiesRight(m)' => LiesRight(slot[i])'
      BY <3>1, <3>3 DEF LiesRight
    <3>6. slot'[i].kind = "unset" \/ LiesRight(slot[i])'
      BY <3>1, <3>3, <3>4, <3>5
    <3> QED BY <3>1, <3>2, <3>6
  <2>10. status' # "NODE_QUEUE_FULL" /\ ended' = (status' # "OKAY")
    <3>1. status' # "NODE_QUEUE_FULL"
      BY <1>1, <1>3, EnqueueOutcomes
      DEF Inv, EnqueueFull, Placed, EnqueueTooShallow, EnqueueWithoutStack
    <3> QED BY <2>2, <3>1 DEF GivesUp
  <2>11. ASSUME status' = "OKAY"
         PROVE  /\ OwnsText(slot'[in']) /\ LiesRight(slot[in])'
                /\ ~PopsTooFar(n) /\ ~FollowsNull(n) /\ stack' = StackFor(n)
    <3>1. PICK k \in Places, v \in Places : Placed(n, k, v)
      BY <1>1, <2>11, EnqueueOutcomes
      DEF Inv, EnqueueFull, EnqueueTooShallow, EnqueueWithoutStack
    <3>2. PICK placed : placed = [n EXCEPT !.parent = ParentFor(n), !.key = k, !.value = v]
      OBVIOUS
    <3>3. /\ slot'[in'] = placed /\ stack' = StackFor(n)
          /\ ~PopsTooFar(n) /\ ~FollowsNull(n)
      BY <2>8, <3>1, <3>2 DEF Placed, Place, Inv, TypeOK, QueueType
    <3>4. placed.key = k /\ placed.value = v /\ placed.kind = n.kind
      BY <1>1, <3>2 DEF Node
    <3>5. OwnsText(placed)
      BY <2>11, <3>1, <3>4 DEF Placed, OwnsText
    <3>6. LiesRight(placed)'
      BY <2>1, <2>2, <2>5, <3>2, <3>3, ParentLiesRight
    <3>7. LiesRight(slot[in])'
      BY <3>3, <3>6 DEF LiesRight
    <3> QED BY <3>3, <3>5, <3>7
  <2>12. TypeOK'
    <3>1. QueueType'
      BY <1>1, EnqueueKeepsType DEF Inv
    <3> QED BY <1>1, <2>2, <2>6, <2>7, <2>10, <3>1 DEF TypeOK
  <2>13. DocumentInv'
    <3>1. Len(open') <= MaxDepth /\ slot'[in'].depth >= 1 /\ Len(open') <= slot'[in'].depth
      BY <1>1, <2>7, <2>8
    <3>2. made' > 0
      BY <1>1, <2>2
    <3>3. Stopped' => ended'
      BY <2>10 DEF Stopped
    <3>4. Len(born') = made'
      BY <1>1, <2>2, <2>6
    <3> QED BY <3>1, <3>2, <3>3, <3>4 DEF DocumentInv
  <2>14. ASSUME ~ended'
         PROVE  /\ Len(stack') = n.depth
                /\ \A j \in 1 .. Len(stack') : /\ stack'[j] \in 1 .. made'
                                               /\ born'[stack'[j]].kind = "collection"
                                               /\ born'[stack'[j]].depth = j
    BY <1>1, <2>2, <2>5, <2>10, <2>11, <2>14, PlacedStack
  <2>15. StackMatchesDepth' /\ StackInv'
    BY <2>8, <2>14 DEF StackMatchesDepth, StackInv
  <2>16. SlotInv'
    BY <2>9, <2>10, <2>11 DEF SlotInv, OwnsText
  <2>17. CrashCauses'
    <3>1. CASE status' = "CRASHED" /\ \E k \in Places, v \in Places : Placed(n, k, v)
      BY <2>2, <3>1 DEF Placed, CrashCauses
    <3>2. CASE EnqueueWithoutStack(n)
      <4>1. made = 0 /\ FreshDepths # {0}
        BY <3>2, DocumentNodeFits DEF EnqueueWithoutStack
      <4> QED BY <1>1, <2>2, <4>1 DEF CrashCauses
    <3>3. CASE status' # "CRASHED"
      BY <3>3 DEF CrashCauses
    <3> QED
      BY <1>1, <3>1, <3>2, <3>3, EnqueueOutcomes DEF Inv, EnqueueFull, EnqueueTooShallow
  <2> QED BY <2>12, <2>13, <2>15, <2>16, <2>17 DEF Inv
<1> QED BY <1>2, <1>3

\* After the end of the stream the last node is passed on once more, at depth 0: that is
\* always too shallow, as the stack is as high as a node is deep.
LEMMA EndOfStreamFails ==
  ASSUME Inv, EndOfStream
  PROVE  /\ \E n \in Node : Enqueue(n) /\ (EnqueueFull(n) \/ EnqueueTooShallow(n))
         /\ made > 0 /\ ended = FALSE /\ ended' = GivesUp
         /\ UNCHANGED <<open, made, last, born>>
<1>1. PICK n : n = [last EXCEPT !.depth = 0]
  OBVIOUS
<1>2. /\ n \in Node /\ n.depth = 0 /\ made > 0 /\ ~ended /\ Enqueue(n)
      /\ ended' = GivesUp /\ UNCHANGED <<open, made, last, born>>
  <2>1. n \in Node /\ n.depth = 0
    <3>1. last \in Node /\ 0 \in Depths
      BY QueueAssumption DEF Inv, TypeOK, Depths
    <3> QED BY <1>1, <3>1 DEF Node
  <2> QED BY <1>1, <2>1 DEF EndOfStream, MayProduce
<1>3. Len(stack) = Prev.depth /\ Prev.depth >= 1 /\ Prev.depth \in Nat
  BY <1>2, NodeFields DEF Inv, StackMatchesDepth, DocumentInv, TypeOK, QueueType, Prev
<1>4. stack # <<>> /\ PopsTooFar(n)
  <2>1. stack # <<>>
    BY <1>3
  <2> QED BY <1>2, <1>3, <2>1 DEF PopsTooFar, Rises, Drop
<1>5. ~FollowsNull(n) /\ ~\E key \in Places, value \in Places : Placed(n, key, value)
  BY <1>4 DEF FollowsNull, Placed, Place
<1>6. EnqueueFull(n) \/ EnqueueTooShallow(n)
  BY <1>2, <1>5, EnqueueOutcomes DEF Inv, EnqueueWithoutStack
<1> QED BY <1>2, <1>6 DEF Inv, TypeOK

LEMMA EndOfStreamKeeps ==
  ASSUME Inv, EndOfStream
  PROVE  Inv'
<1>1. PICK n \in Node : Enqueue(n) /\ (EnqueueFull(n) \/ EnqueueTooShallow(n))
  BY EndOfStreamFails
<1>2. made > 0 /\ ended = FALSE /\ ended' = GivesUp /\ UNCHANGED <<open, made, last, born>>
  BY EndOfStreamFails
<1>3. CASE EnqueueFull(n)
  <2>1. GivesUp = FALSE
    BY <1>3 DEF EnqueueFull, GivesUp
  <2> QED BY <1>2, <1>3, <2>1, FullKeeps DEF EnqueueFull
<1>4. CASE EnqueueTooShallow(n)
  <2>1. ~IsFull /\ status' = "NODES_TOO_SHALLOW" /\ ended' = TRUE
    BY <1>2, <1>4 DEF EnqueueTooShallow, GivesUp
  <2>2. /\ in' = NextIn /\ NextIn \in Slots
        /\ \A i \in Slots \ {in'} : slot'[i] = slot[i]
    BY <1>1, <2>1, EnqueueWritesOneSlot DEF Inv
  <2>3. TypeOK'
    <3>1. QueueType'
      BY <1>1, EnqueueKeepsType DEF Inv
    <3> QED BY <1>2, <2>1, <3>1 DEF Inv, TypeOK
  <2>4. DocumentInv' /\ StackMatchesDepth' /\ StackInv' /\ CrashCauses'
    BY <1>2, <2>1 DEF Inv, DocumentInv, StackMatchesDepth, StackInv, CrashCauses, Stopped
  <2>5. SlotInv'
    <3>1. ASSUME NEW i \in Slots \ {in'}
          PROVE  OwnsText(slot'[i]) /\ (slot'[i].kind = "unset" \/ LiesRight(slot[i])')
      BY <1>2, <2>2, <3>1 DEF Inv, SlotInv, LiesRight
    <3> QED BY <2>1, <3>1 DEF SlotInv, OwnsText
  <2> QED BY <2>3, <2>4, <2>5 DEF Inv
<1> QED BY <1>1, <1>3, <1>4

LEMMA CloseKeeps ==
  ASSUME Inv, CloseCollection
  PROVE  Inv'
<1>1. /\ open \in Seq(Ids) /\ open # <<>> /\ open' = Front(open)
      /\ UNCHANGED <<queueVars, status, node_out, made, last, ended, born>>
  BY DEF CloseCollection, Inv, TypeOK
<1>2. Len(open) \in Nat \ {0}
  BY <1>1, EmptySeq
<1>3. open' \in Seq(Ids) /\ Len(open') = Len(open) - 1
  <2>1. PICK m \in Nat : m = Len(open) - 1
    BY <1>2
  <2>2. \A i \in 1 .. m : open[i] \in Ids
    BY <1>1, <1>2, <2>1, ElementOfSeq
  <2>3. /\ SubSeq(open, 1, m) \in Seq(Ids)
        /\ Len(SubSeq(open, 1, m)) = IF 1 <= m THEN m - 1 + 1 ELSE 0
    BY <2>2, SubSeqProperties
  <2> QED BY <1>1, <2>1, <2>3 DEF Front
<1> USE DEF queueVars
<1>4. TypeOK' BY <1>1, <1>3 DEF Inv, TypeOK, QueueType
<1>5. DocumentInv'
  <2>1. made > 0
    BY <1>1, QueueAssumption DEF Inv, DocumentInv, TypeOK, Ids
  <2>2. Len(open') <= MaxDepth
    BY <1>2, <1>3, QueueAssumption DEF Inv, DocumentInv
  <2>3. ~ended => Len(open') <= slot[in].depth
    <3>1. slot[in].depth \in Nat
      BY NodeFields DEF Inv, TypeOK, QueueType
    <3> QED BY <1>2, <1>3, <2>1, <3>1 DEF Inv, DocumentInv
  <2> QED BY <1>1, <2>1, <2>2, <2>3 DEF Inv, DocumentInv, Stopped
<1>6. StackMatchesDepth' /\ StackInv' /\ SlotInv' /\ CrashCauses'
  BY <1>1 DEF Inv, StackMatchesDepth, StackInv, SlotInv, LiesRight, CrashCauses
<1> QED BY <1>4, <1>5, <1>6 DEF Inv

\* A reset slot keeps its depth, on which the stack relies.
LEMMA ReaderKeeps ==
  ASSUME Inv, Reader
  PROVE  Inv'
<1>1. /\ out' = NextOut /\ node_out' = slot[NextOut]
      /\ slot' = [slot EXCEPT ![out] = Reset(@)]
      /\ collection_end' = [collection_end EXCEPT ![out] = FALSE]
      /\ status' \in {"OKAY", "NODE_QUEUE_EMPTY"}
      /\ UNCHANGED <<in, stack, write_a, open, made, last, ended, born>>
  BY DEF Reader, Dequeue, document
<1>2. /\ in \in Slots /\ out \in Slots /\ slot \in [Slots -> Node] /\ NextOut \in Slots
  BY QueueAssumption DEF Inv, TypeOK, QueueType, NextOut, MayReadUp, Slots
<1>3. PICK blank : blank = Reset(slot[out])
  OBVIOUS
<1>4. /\ blank \in Node /\ OwnsText(blank) /\ blank.kind = "unset"
      /\ blank.depth = slot[out].depth
  BY <1>2, <1>3, NodeFields, BlankIsNode DEF Reset
<1>5. \A i \in Slots : slot'[i] = IF i = out THEN blank ELSE slot[i]
  BY <1>1, <1>2, <1>3
<1>6. \A i \in Slots : slot'[i].depth = slot[i].depth
  BY <1>4, <1>5
<1>7. TypeOK'
  <2>1. slot' \in [Slots -> Node]
    BY <1>1, <1>2, <1>3, <1>4
  <2>2. QueueType'
    BY <1>1, <1>2, <2>1 DEF Inv, TypeOK, QueueType, Statuses
  <2> QED BY <1>1, <2>2 DEF Inv, TypeOK
<1>8. DocumentInv' /\ StackMatchesDepth'
  <2>1. 0 \in Slots
    BY QueueAssumption DEF Slots
  <2>2. (in = 0 /\ out = 0) => NextOut = 0
    BY QueueAssumption DEF NextOut, MayReadUp
  <2> QED BY <1>1, <1>2, <1>6, <2>1, <2>2 DEF Inv, DocumentInv, StackMatchesDepth, Stopped
<1>9. StackInv' /\ CrashCauses'
  BY <1>1 DEF Inv, StackInv, CrashCauses
<1>10. SlotInv'
  BY <1>1, <1>4, <1>5 DEF Inv, SlotInv, OwnsText, LiesRight
<1> QED BY <1>7, <1>8, <1>9, <1>10 DEF Inv

LEMMA InvInit == Init => Inv
<1> SUFFICES ASSUME Init PROVE Inv
  OBVIOUS
<1>1. PICK d \in FreshDepths : slot = [i \in Slots |-> Blank(d)]
  BY DEF Init, OpenQueue
<1>2. Blank(d) \in Node /\ OwnsText(Blank(d)) /\ Blank(d).kind = "unset" /\ Blank(d).depth = d
  BY BlankIsNode
<1>3. Blank(0) \in Node /\ 0 \in Slots /\ 0 \in Ids
  BY BlankIsNode, QueueAssumption DEF Depths, Slots, Ids
<1>4. TypeOK
  <2>1. QueueType
    <3>1. slot \in [Slots -> Node] /\ collection_end \in [Slots -> BOOLEAN]
      BY <1>1, <1>2 DEF Init, OpenQueue
    <3>2. stack \in Seq(Ids) /\ write_a \in 0 .. TextLast
      BY EmptySeq, QueueAssumption DEF Init, OpenQueue
    <3> QED BY <1>3, <3>1, <3>2 DEF Init, OpenQueue, QueueType, Statuses
  <2>2. open \in Seq(Ids) /\ born \in Seq([parent : Ids, depth : Depths, kind : Kinds])
    BY EmptySeq DEF Init
  <2> QED BY <1>3, <2>1, <2>2 DEF Init, TypeOK
<1>5. DocumentInv /\ StackMatchesDepth /\ CrashCauses
  BY <1>1, <1>2, <1>3, QueueAssumption
  DEF Init, OpenQueue, DocumentInv, StackMatchesDepth, CrashCauses, Stopped
<1>6. StackInv /\ SlotInv
  BY <1>1, <1>2 DEF Init, OpenQueue, StackInv, SlotInv
<1> QED BY <1>4, <1>5, <1>6 DEF Inv

\* Both kinds of node reach the queue as a node of the document.
LEMMA CollectionIsProduced ==
  ASSUME Inv, NEW key \in {"none", "source"}, OpenCollection(key)
  PROVE  \E n : /\ MayProduce /\ made < MaxNodes /\ DocumentNode(n) /\ Produce(n)
                /\ n.kind = "collection" /\ n.depth = Len(open) + 1
                /\ open' = IF IsFull THEN open ELSE Append(open, n.id)
<1>1. PICK n : n = NewNode(Len(open) + 1, "collection", key, "none")
  OBVIOUS
<1>2. /\ n.depth <= MaxDepth /\ n.depth = Len(open) + 1 /\ n.kind = "collection"
      /\ Produce(n) /\ open' = IF IsFull THEN open ELSE Append(open, n.id)
  BY <1>1 DEF OpenCollection, NewNode
<1>3. MayProduce /\ made < MaxNodes
  BY <1>2 DEF Produce
<1>4. Len(open) + 1 \in 1 .. MaxDepth
  BY <1>2, LenProperties, QueueAssumption DEF Inv, TypeOK
<1>5. DocumentNode(n)
  BY <1>1, <1>3, <1>4, NewNodeIsOne DEF Kinds, Places
<1> QED BY <1>2, <1>3, <1>5

LEMMA ScalarIsProduced ==
  ASSUME Inv, NEW key \in {"none", "source"}, NEW value \in {"none", "source"},
         Scalar(key, value)
  PROVE  \E n : /\ MayProduce /\ made < MaxNodes /\ DocumentNode(n) /\ Produce(n)
                /\ n.kind = "string" /\ open # <<>> /\ open' = open
<1>1. PICK n : n = NewNode(Len(open), "string", key, value)
  OBVIOUS
<1>2. open # <<>> /\ n.kind = "string" /\ Produce(n) /\ open' = open
  BY <1>1 DEF Scalar, NewNode
<1>3. MayProduce /\ made < MaxNodes
  BY <1>2 DEF Produce
<1>4. Len(open) \in 1 .. MaxDepth
  BY <1>2, EmptySeq, QueueAssumption DEF Inv, TypeOK, DocumentInv
<1>5. DocumentNode(n)
  BY <1>1, <1>3, <1>4, NewNodeIsOne DEF Kinds, Places
<1> QED BY <1>2, <1>3, <1>5

LEMMA InvInductive == Inv /\ [Next]_vars => Inv'
<1> SUFFICES ASSUME Inv, [Next]_vars PROVE Inv'
  OBVIOUS
<1>1. ASSUME NEW key \in {"none", "source"}, OpenCollection(key)
      PROVE  Inv'
  BY <1>1, CollectionIsProduced, ProduceKeeps
<1>2. ASSUME NEW key \in {"none", "source"}, NEW value \in {"none", "source"}, Scalar(key, value)
      PROVE  Inv'
  BY <1>2, ScalarIsProduced, ProduceKeeps
<1>3. CASE CloseCollection
  BY <1>3, CloseKeeps
<1>4. CASE EndOfStream
  BY <1>4, EndOfStreamKeeps
<1>5. CASE Reader
  BY <1>5, ReaderKeeps
<1>6. CASE UNCHANGED vars
  <2> USE <1>6 DEF vars, queueVars, document
  <2>1. TypeOK' BY DEF Inv, TypeOK, QueueType
  <2>2. DocumentInv' /\ StackMatchesDepth' /\ CrashCauses'
    BY DEF Inv, DocumentInv, StackMatchesDepth, CrashCauses, Stopped
  <2>3. StackInv' /\ SlotInv' BY DEF Inv, StackInv, SlotInv, LiesRight
  <2> QED BY <2>1, <2>2, <2>3 DEF Inv
<1> QED BY <1>1, <1>2, <1>3, <1>4, <1>5, <1>6 DEF Next

THEOREM Invariant == Spec => []Inv
<1>1. Init => Inv BY InvInit
<1>2. Inv /\ [Next]_vars => Inv' BY InvInductive
<1> QED BY <1>1, <1>2, PTL DEF Spec

-----------------------------------------------------------------------------
\* Every variable keeps its type: in particular the string buffer's pointer stays inside
\* the buffer, and the ring's stay inside the ring.
THEOREM TypeCorrect == Spec => []TypeOK
  BY Invariant, PTL DEF Inv

\* Whatever the document, and however its reader comes in between, the stack of
\* collections is as high as the last node is deep.
THEOREM StackFollowsDepth == Spec => []StackMatchesDepth
  BY Invariant, PTL DEF Inv

\* enqueue_to_node_queue follows a NULL pointer for an empty value, or for the first
\* node if the depth of a fresh slot is not zero, and for nothing else.
THEOREM CrashesExplained == Spec => []CrashCauses
  BY Invariant, PTL DEF Inv

-----------------------------------------------------------------------------
(* The nodes that wait.                                                    *)

\* The slots of the nodes that wait, without the arithmetic of the ring.
Ring(i, o) == IF o <= i THEN o + 1 .. i ELSE (o + 1 .. Size) \cup (0 .. i)

LEMMA RingIsCounted ==
  ASSUME NEW i \in Slots, NEW o \in Slots
  PROVE  {(o + k) % (Size + 1) : k \in 1 .. (IF o <= i THEN i - o ELSE (Size + 1 - o) + i)}
           = Ring(i, o)
<1>1. /\ Size \in Nat /\ i \in Nat /\ o \in Nat /\ i <= Size /\ o <= Size
  BY QueueAssumption DEF Slots
<1>2. \A a, b \in Nat : a < b => a % b = a
  OBVIOUS
<1>3. \A a, b \in Nat : (b <= a /\ a < 2 * b) => a % b = a - b
  OBVIOUS
<1>4. CASE o <= i
  <2>1. \A k \in 1 .. i - o : (o + k) % (Size + 1) = o + k
    BY <1>1, <1>2, <1>4
  <2>2. \A x \in o + 1 .. i : x - o \in 1 .. i - o /\ x = o + (x - o)
    BY <1>1, <1>4
  <2>3. \A k \in 1 .. i - o : o + k \in o + 1 .. i
    BY <1>1, <1>4
  <2> QED BY <1>4, <2>1, <2>2, <2>3 DEF Ring
<1>5. CASE ~(o <= i)
  <2>1. PICK n \in Nat : n = (Size + 1 - o) + i
    BY <1>1
  <2>2. ASSUME NEW k \in 1 .. n
        PROVE  (o + k) % (Size + 1) = IF o + k <= Size THEN o + k ELSE (o + k) - (Size + 1)
    <3>1. o + k \in Nat /\ Size + 1 \in Nat
      BY <1>1
    <3>2. CASE o + k <= Size
      <4>1. o + k < Size + 1 BY <1>1, <3>1, <3>2
      <4> QED BY <1>2, <3>1, <3>2, <4>1
    <3>3. CASE ~(o + k <= Size)
      <4>1. Size + 1 <= o + k /\ o + k < 2 * (Size + 1) BY <1>1, <1>5, <2>1, <3>3
      <4>2. (o + k) % (Size + 1) = (o + k) - (Size + 1) BY <1>3, <3>1, <4>1
      <4> QED BY <3>3, <4>2
    <3> QED BY <3>2, <3>3
  <2>3. \A k \in 1 .. n : (o + k) % (Size + 1) \in (o + 1 .. Size) \cup (0 .. i)
    BY <1>1, <1>5, <2>1, <2>2
  <2>4. ASSUME NEW x \in o + 1 .. Size
        PROVE  \E k \in 1 .. n : (o + k) % (Size + 1) = x
    <3>1. x - o \in 1 .. n /\ o + (x - o) = x /\ x <= Size
      BY <1>1, <1>5, <2>1
    <3> QED BY <2>2, <3>1
  <2>5. ASSUME NEW x \in 0 .. i
        PROVE  \E k \in 1 .. n : (o + k) % (Size + 1) = x
    <3>1. PICK k \in Nat : k = x + (Size + 1 - o)
      BY <1>1
    <3>2. /\ k \in 1 .. n /\ ~(o + k <= Size) /\ (o + k) - (Size + 1) = x
      BY <1>1, <1>5, <2>1, <3>1
    <3> QED BY <2>2, <3>2
  <2>6. {(o + k) % (Size + 1) : k \in 1 .. n} = (o + 1 .. Size) \cup (0 .. i)
    BY <2>3, <2>4, <2>5
  <2> QED BY <1>5, <2>1, <2>6 DEF Ring
<1> QED BY <1>4, <1>5

LEMMA WaitingIsRing ==
  ASSUME in \in Slots, out \in Slots
  PROVE  Waiting = Ring(in, out) /\ Waiting \subseteq Slots
<1>1. Waiting = Ring(in, out)
  BY RingIsCounted DEF Waiting, UnreadSlot, UnreadCount
<1>2. Ring(in, out) \subseteq Slots
  BY QueueAssumption DEF Ring, Slots
<1> QED BY <1>1, <1>2

LEMMA WaitingNextIsRing ==
  ASSUME in' \in Slots, out' \in Slots
  PROVE  Waiting' = Ring(in', out')
  BY RingIsCounted DEF Waiting, UnreadSlot, UnreadCount

\* No waiting slot is blank, as long as the reader stays away from the drained end.
WaitingInv == \A i \in Whole : slot[i].kind # "unset"

LEMMA WaitingAfterEnqueue ==
  ASSUME Inv, NEW n \in Node, Enqueue(n), ~IsFull
  PROVE  Waiting' \subseteq Waiting \cup {in'}
<1>1. /\ in \in Slots /\ out \in Slots /\ in' = NextIn /\ in' \in Slots /\ out' = out
  BY EnqueueWritesOneSlot DEF Inv, TypeOK, QueueType
<1>2. Waiting = Ring(in, out) /\ Waiting' = Ring(NextIn, out)
  BY <1>1, WaitingIsRing, WaitingNextIsRing
<1>3. Ring(NextIn, out) \subseteq Ring(in, out) \cup {NextIn}
  BY <1>1, QueueAssumption DEF Ring, NextIn, IsFull, MayStepUp, MayWrap, Slots
<1> QED BY <1>1, <1>2, <1>3

LEMMA WaitingAfterDequeue ==
  ASSUME Inv, Dequeue, ~(in = out /\ out = Size)
  PROVE  Waiting' \subseteq Waiting \ {out}
<1>1. /\ in \in Slots /\ out \in Slots /\ in' = in /\ out' = NextOut
  BY DEF Dequeue, Inv, TypeOK, QueueType
<1>2. NextOut \in Slots
  BY <1>1, QueueAssumption DEF NextOut, MayReadUp, Slots
<1>3. Waiting = Ring(in, out) /\ Waiting' = Ring(in, NextOut)
  BY <1>1, <1>2, WaitingIsRing, WaitingNextIsRing
<1>4. Ring(in, NextOut) \subseteq Ring(in, out) \ {out}
  BY <1>1, QueueAssumption DEF Ring, NextOut, MayReadUp, Slots
<1> QED BY <1>3, <1>4

LEMMA NothingWaitsAtFirst == Init => WaitingInv
<1>1. ASSUME Init PROVE Waiting = {}
  <2>1. in = 0 /\ out = 0 /\ 0 \in Slots
    BY <1>1, QueueAssumption DEF Init, OpenQueue, Slots
  <2> QED BY <2>1, WaitingIsRing DEF Ring
<1> QED BY <1>1 DEF WaitingInv, Whole

LEMMA WaitingInductive ==
  ASSUME ReadsDrainedEnd = FALSE, Inv, WaitingInv, [Next]_vars
  PROVE  WaitingInv'
<1>1. in \in Slots /\ out \in Slots /\ slot \in [Slots -> Node] /\ ended \in BOOLEAN
  BY DEF Inv, TypeOK, QueueType
<1>2. Waiting \subseteq Slots
  BY <1>1, WaitingIsRing
<1>3. ASSUME NEW n, MayProduce, DocumentNode(n), Produce(n)
      PROVE  WaitingInv'
  <2>1. n \in Node /\ n.kind # "unset" /\ Enqueue(n) /\ ~ended
    BY <1>3 DEF DocumentNode, Produce, MayProduce, Kinds
  <2>2. CASE IsFull
    <3>1. EnqueueFull(n)
      BY <2>1, <2>2, FullIsTurnedAway
    <3>2. UNCHANGED <<in, out, slot>>
      BY <3>1 DEF EnqueueFull, queueVars
    <3>3. Waiting' = Waiting
      BY <3>2 DEF Waiting, UnreadSlot, UnreadCount
    <3> QED BY <2>1, <3>2, <3>3 DEF WaitingInv, Whole
  <2>3. CASE ~IsFull
    <3>1. /\ Waiting' \subseteq Waiting \cup {in'}
          /\ \A i \in Slots \ {in'} : slot'[i] = slot[i]
      BY <2>1, <2>3, WaitingAfterEnqueue, EnqueueWritesOneSlot DEF Inv
    <3>2. status' = "OKAY" => slot'[in'].kind = n.kind
      <4>1. ASSUME status' = "OKAY" PROVE slot'[in'].kind = n.kind
        <5>1. PICK k \in Places, v \in Places : Placed(n, k, v)
          BY <2>1, <4>1, EnqueueOutcomes
          DEF Inv, EnqueueFull, EnqueueTooShallow, EnqueueWithoutStack
        <5>2. slot'[in'] = [n EXCEPT !.parent = ParentFor(n), !.key = k, !.value = v]
          BY <1>1, <2>1, <2>3, <5>1, NextInIsSlot DEF Placed, Place, Inv
        <5> QED BY <2>1, <5>2 DEF Node
      <4> QED BY <4>1
    <3>3. status' # "OKAY" => ended'
      <4>1. status' # "NODE_QUEUE_FULL"
        BY <2>1, <2>3, EnqueueOutcomes
        DEF Inv, EnqueueFull, Placed, EnqueueTooShallow, EnqueueWithoutStack
      <4> QED BY <1>3, <4>1 DEF Produce, GivesUp
    <3> QED BY <1>2, <2>1, <3>1, <3>2, <3>3 DEF WaitingInv, Whole
  <2> QED BY <2>2, <2>3
<1>4. CASE EndOfStream
  <2>1. PICK n \in Node : Enqueue(n) /\ (EnqueueFull(n) \/ EnqueueTooShallow(n))
    BY <1>4, EndOfStreamFails
  <2>2. ended = FALSE /\ ended' = GivesUp
    BY <1>4, EndOfStreamFails
  <2>3. CASE EnqueueFull(n)
    <3>1. UNCHANGED <<in, out, slot>> /\ GivesUp = FALSE
      BY <2>3 DEF EnqueueFull, queueVars, GivesUp
    <3>2. Waiting' = Waiting
      BY <3>1 DEF Waiting, UnreadSlot, UnreadCount
    <3> QED BY <2>2, <3>1, <3>2 DEF WaitingInv, Whole
  <2>4. CASE EnqueueTooShallow(n)
    <3>1. ~IsFull /\ ended' = TRUE
      BY <2>2, <2>4 DEF EnqueueTooShallow, GivesUp
    <3>2. /\ Waiting' \subseteq Waiting \cup {in'}
          /\ \A i \in Slots \ {in'} : slot'[i] = slot[i]
      BY <2>1, <3>1, WaitingAfterEnqueue, EnqueueWritesOneSlot DEF Inv
    <3> QED BY <1>2, <2>2, <3>1, <3>2 DEF WaitingInv, Whole
  <2> QED BY <2>1, <2>3, <2>4
<1>5. CASE Reader
  <2>1. Dequeue /\ ~(in = out /\ out = Size) /\ UNCHANGED <<in, ended>>
    BY <1>5 DEF Reader, Dequeue, document
  <2>2. Waiting' \subseteq Waiting \ {out}
    BY <2>1, WaitingAfterDequeue
  <2>3. \A i \in Slots \ {out} : slot'[i] = slot[i]
    BY <1>1, <2>1 DEF Dequeue
  <2> QED BY <1>2, <2>1, <2>2, <2>3 DEF WaitingInv, Whole
<1>6. CASE CloseCollection \/ UNCHANGED vars
  <2>1. UNCHANGED <<in, out, slot, ended>>
    BY <1>6 DEF CloseCollection, vars, queueVars, document
  <2>2. Waiting' = Waiting
    BY <2>1 DEF Waiting, UnreadSlot, UnreadCount
  <2> QED BY <2>1, <2>2 DEF WaitingInv, Whole
<1>7. ASSUME NEW key \in {"none", "source"}, OpenCollection(key)
      PROVE  WaitingInv'
  BY <1>3, <1>7, CollectionIsProduced
<1>8. ASSUME NEW key \in {"none", "source"}, NEW value \in {"none", "source"}, Scalar(key, value)
      PROVE  WaitingInv'
  BY <1>3, <1>8, ScalarIsProduced
<1> QED BY <1>4, <1>5, <1>6, <1>7, <1>8 DEF Next

\* A waiting node's key and text lie in the queue's own string buffer: what the data
\* source does to its buffer next cannot change them.
THEOREM TextsAreOwned == Spec => []WaitingOwnTheirText
<1>1. Inv => WaitingOwnTheirText
  <2> SUFFICES ASSUME Inv, NEW i \in Whole
               PROVE  /\ slot[i].key \in {"none", "text"}
                      /\ slot[i].kind = "string" => slot[i].value = "text"
    BY DEF WaitingOwnTheirText
  <2>1. i \in Slots /\ ~(ended /\ i = in)
    BY WaitingIsRing DEF Inv, TypeOK, QueueType, Whole
  <2> QED BY <2>1 DEF Inv, SlotInv, OwnsText
<1> QED BY <1>1, Invariant, PTL

\* Whatever the document, a waiting node's parent is a collection made before it, one
\* level up, as long as nobody reads from the drained end of the ring.
THEOREM ParentsLieRight ==
  ASSUME ReadsDrainedEnd = FALSE
  PROVE  Spec => []ParentDepth
<1>1. Init => WaitingInv
  BY NothingWaitsAtFirst
<1>2. Inv /\ WaitingInv /\ [Next]_vars => WaitingInv'
  BY WaitingInductive
<1>3. Inv /\ WaitingInv => ParentDepth
  <2> SUFFICES ASSUME Inv, WaitingInv, NEW i \in Whole
               PROVE  LET n == slot[i]   inner == IF n.kind = "collection" THEN 1 ELSE 0
                      IN IF n.parent = 0
                         THEN n.kind = "collection" /\ n.depth = 1
                         ELSE /\ n.parent < n.id
                              /\ born[n.parent].kind = "collection"
                              /\ born[n.parent].depth = n.depth - inner
    BY DEF ParentDepth
  <2>1. i \in Slots /\ ~(ended /\ i = in) /\ slot[i].kind # "unset"
    BY WaitingIsRing DEF Inv, TypeOK, QueueType, Whole, WaitingInv
  <2>2. LiesRight(slot[i])
    BY <2>1 DEF Inv, SlotInv
  <2> QED BY <2>2 DEF LiesRight
<1> QED BY <1>1, <1>2, <1>3, Invariant, PTL DEF Spec

-----------------------------------------------------------------------------
(* The true parents.                                                       *)

\* As long as no collection follows its sibling, the collections that are open are the
\* first on the stack, and every node has the parent the document gave it.  That a
\* deeper collection is also higher than the stack needs the depth of the node before it.
LastDepth == (made > 0 /\ ~ended) => slot[in].depth = born[made].depth

OpenOnStack == ~ended => \A j \in 1 .. Len(open) : stack[j] = open[j]

ParentsTrue ==
  \A i \in Slots : \/ ended /\ i = in
                   \/ slot[i].kind = "unset"
                   \/ slot[i].id \in 1 .. made /\ slot[i].parent = born[slot[i].id].parent

TrueInv == LastDepth /\ (~SiblingCollections => OpenOnStack /\ ParentsTrue)

\* The stack, the parent and the slot of a node of the document that is stored.
LEMMA StoredNode ==
  ASSUME Inv, MayProduce, NEW n, DocumentNode(n), Enqueue(n), status' = "OKAY"
  PROVE  /\ ~IsFull /\ ~PopsTooFar(n) /\ ~FollowsNull(n) /\ stack' = StackFor(n)
         /\ slot'[in'].id = n.id /\ slot'[in'].parent = ParentFor(n)
         /\ slot'[in'].depth = n.depth
<1>1. n \in Node
  BY DEF DocumentNode
<1>2. PICK k \in Places, v \in Places : Placed(n, k, v)
  BY <1>1, EnqueueOutcomes DEF Inv, EnqueueFull, EnqueueTooShallow, EnqueueWithoutStack
<1>3. slot'[in'] = [n EXCEPT !.parent = ParentFor(n), !.key = k, !.value = v]
  BY <1>1, <1>2, NextInIsSlot DEF Placed, Place, Inv, TypeOK, QueueType
<1> QED BY <1>1, <1>2, <1>3 DEF Placed, Place, Node

LEMMA SiblingsStay ==
  ASSUME Inv, NEW b, b \in [parent : Ids, depth : Depths, kind : Kinds], born' = Append(born, b)
  PROVE  /\ SiblingCollections => SiblingCollections'
         /\ (made > 0 /\ b.kind = "collection" /\ b.depth <= born[made].depth)
               => SiblingCollections'
<1>1. /\ Len(born) = made /\ Len(born') = made + 1 /\ made \in Nat
      /\ \A k \in 1 .. made : born'[k] = born[k]
      /\ born'[made + 1] = b
  BY BornGrows DEF Inv, DocumentInv
<1>2. ASSUME NEW k \in 2 .. Len(born), born[k].kind = "collection",
             born[k].depth <= born[k - 1].depth
      PROVE  SiblingCollections'
  <2>1. k \in 2 .. made + 1 /\ born'[k] = born[k] /\ born'[k - 1] = born[k - 1]
    BY <1>1, <1>2
  <2> QED BY <1>1, <1>2, <2>1 DEF SiblingCollections
<1>3. ASSUME made > 0, b.kind = "collection", b.depth <= born[made].depth
      PROVE  SiblingCollections'
  <2>1. /\ made + 1 \in 2 .. Len(born') /\ born'[made + 1] = b
        /\ born'[(made + 1) - 1] = born[made]
    BY <1>1, <1>3
  <2> QED BY <1>3, <2>1 DEF SiblingCollections
<1> QED BY <1>2, <1>3 DEF SiblingCollections

\* A stored node, its parent found on the stack, and the stack it leaves.
LEMMA StoredParent ==
  ASSUME Inv, LastDepth, OpenOnStack, MayProduce, NEW n, DocumentNode(n),
         ~PopsTooFar(n), ~FollowsNull(n), stack' = StackFor(n),
         (made > 0 /\ n.kind = "collection") => n.depth > born[made].depth,
         open' = IF n.kind = "collection" THEN Append(open, n.id) ELSE open
  PROVE  /\ ParentFor(n) = FromTop(open, 0)
         /\ \A j \in 1 .. Len(open') : stack'[j] = open'[j]
<1>1. /\ n \in Node /\ n.depth \in Nat /\ n.depth >= 1 /\ n.kind \in {"collection", "string"}
      /\ n.depth = Len(open) + (IF n.kind = "collection" THEN 1 ELSE 0)
  BY NodeFields DEF DocumentNode, Kinds
<1>2. /\ open \in Seq(Ids) /\ Len(open) \in Nat /\ Len(stack) \in Nat
      /\ \A j \in 1 .. Len(open) : stack[j] = open[j]
  BY LenProperties DEF Inv, TypeOK, QueueType, MayProduce, OpenOnStack
<1>3. CASE n.kind = "collection"
  <2>1. Rises(n)
    <3>1. CASE made = 0
      <4>1. stack = <<>>
        BY <3>1 DEF Inv, DocumentInv
      <4> QED BY <1>3, <4>1 DEF FollowsNull
    <3>2. CASE made > 0
      BY <1>3, <3>2 DEF LastDepth, MayProduce, Rises, Prev
    <3> QED BY <3>1, <3>2, QueueAssumption DEF Inv, TypeOK, Ids
  <2>2. Len(stack) = Len(open)
    BY <1>1, <1>2, <1>3, <2>1, DocumentNodeFits
  <2>3. /\ Len(stack') = Len(stack) + 1 /\ stack'[Len(stack) + 1] = n.id
        /\ \A j \in 1 .. Len(stack) : stack'[j] = stack[j]
    BY <1>1, <2>1, StackForNode DEF Inv
  <2>4. /\ Len(open') = Len(open) + 1 /\ open'[Len(open) + 1] = n.id
        /\ \A j \in 1 .. Len(open) : open'[j] = open[j]
    BY <1>1, <1>2, <1>3, AppendProperties, NodeFields
  <2>5. \A j \in 1 .. Len(open') : stack'[j] = open'[j]
    BY <1>2, <2>2, <2>3, <2>4
  <2>6. ParentFor(n) = IF Len(stack) > 0 THEN stack'[Len(stack)] ELSE 0
    BY <1>2, <1>3, <2>3 DEF ParentFor, FromTop
  <2> QED BY <1>2, <2>2, <2>3, <2>5, <2>6 DEF FromTop
<1>4. CASE n.kind = "string"
  <2>1. ~Rises(n)
    BY <1>4, DocumentNodeFits
  <2>2. n.depth = Len(stack) - Drop(n) /\ n.depth = Len(open)
    BY <1>1, <1>4, <2>1, DocumentNodeFits
  <2>3. /\ Len(stack') = Len(open)
        /\ \A j \in 1 .. Len(open) : stack'[j] = stack[j]
    BY <1>1, <2>1, <2>2, StackForNode DEF Inv
  <2> QED BY <1>1, <1>2, <1>4, <2>2, <2>3 DEF ParentFor, FromTop
<1> QED BY <1>1, <1>3, <1>4

LEMMA TrueAfterProduce ==
  ASSUME Inv, TrueInv, MayProduce, NEW n, DocumentNode(n), Produce(n),
         open' = IF ~IsFull /\ n.kind = "collection" THEN Append(open, n.id) ELSE open
  PROVE  TrueInv'
<1>0. made \in Nat /\ n.id = made + 1
  BY QueueAssumption DEF DocumentNode, Inv, TypeOK, Ids
<1>1. /\ n \in Node /\ n.kind \in Kinds /\ n.depth \in Depths /\ n.id = made + 1
      /\ Enqueue(n) /\ ~ended /\ ended \in BOOLEAN /\ made \in Nat
  BY QueueAssumption DEF DocumentNode, Produce, MayProduce, Depths, Inv, TypeOK, Ids
<1>2. CASE IsFull
  <2>1. EnqueueFull(n)
    BY <1>1, <1>2, FullIsTurnedAway
  <2>2. /\ UNCHANGED <<in, slot, stack, open, made, last, born, ended>>
    BY <1>1, <1>2, <2>1 DEF EnqueueFull, queueVars, Produce, GivesUp
  <2> QED BY <2>2 DEF TrueInv, LastDepth, OpenOnStack, ParentsTrue, SiblingCollections
<1>3. CASE ~IsFull
  <2>1. PICK b : b = [parent |-> FromTop(open, 0), depth |-> n.depth, kind |-> n.kind]
    OBVIOUS
  <2>2. made' = made + 1 /\ born' = Append(born, b) /\ ended' = GivesUp
    BY <1>1, <1>3, <2>1 DEF Produce
  <2>0. made' = made + 1
    BY <2>2
  <2>3. FromTop(open, 0) \in Ids
    <3>1. open \in Seq(Ids) /\ Len(open) \in Nat
      BY LenProperties DEF Inv, TypeOK
    <3>2. Len(open) > 0 => open[Len(open) - 0] \in Ids
      BY <3>1, ElementOfSeq
    <3> QED BY <3>2, QueueAssumption DEF FromTop, Ids
  <2>4. /\ b \in [parent : Ids, depth : Depths, kind : Kinds]
        /\ b.parent = FromTop(open, 0) /\ b.depth = n.depth /\ b.kind = n.kind
    BY <1>1, <2>1, <2>3
  <2>5. /\ \A k \in 1 .. made : born'[k] = born[k]
        /\ born'[made + 1] = b
    BY <2>2, <2>4, BornGrows
  <2>6. /\ in' \in Slots /\ slot'[in'].depth = n.depth
        /\ \A i \in Slots \ {in'} : slot'[i] = slot[i]
    BY <1>1, <1>3, EnqueueWritesOneSlot DEF Inv
  <2>7. status' # "OKAY" => ended'
    <3>1. status' # "NODE_QUEUE_FULL"
      BY <1>1, <1>3, EnqueueOutcomes
      DEF Inv, EnqueueFull, Placed, EnqueueTooShallow, EnqueueWithoutStack
    <3> QED BY <2>2, <3>1 DEF GivesUp
  <2>8. LastDepth'
    BY <1>1, <2>2, <2>4, <2>5, <2>6 DEF LastDepth
  <2>9. ASSUME ~SiblingCollections'
        PROVE  OpenOnStack' /\ ParentsTrue'
    <3>1. ~SiblingCollections
      BY <2>2, <2>4, <2>9, SiblingsStay
    <3>2. OpenOnStack /\ ParentsTrue /\ LastDepth
      BY <3>1 DEF TrueInv
    <3>3. \A i \in Slots \ {in'} :
            \/ slot'[i].kind = "unset"
            \/ slot'[i].id \in 1 .. made' /\ slot'[i].parent = born'[slot'[i].id].parent
      <4>1. ASSUME NEW i \in Slots \ {in'}, slot[i].kind # "unset"
            PROVE  slot[i].id \in 1 .. made /\ slot[i].parent = born[slot[i].id].parent
        BY <1>1, <3>2, <4>1 DEF ParentsTrue
      <4>2. ASSUME NEW i \in Slots \ {in'}, slot[i].kind # "unset"
            PROVE  slot[i].id \in 1 .. made' /\ slot[i].parent = born'[slot[i].id].parent
        <5>1. slot[i].id \in 1 .. made /\ slot[i].parent = born[slot[i].id].parent
          BY <4>1, <4>2
        <5>2. born'[slot[i].id] = born[slot[i].id]
          BY <2>5, <5>1
        <5> QED BY <1>0, <2>0, <5>1, <5>2
      <4> QED BY <2>6, <4>2
    <3>4. CASE status' # "OKAY"
      BY <2>7, <3>3, <3>4 DEF OpenOnStack, ParentsTrue
    <3>5. CASE status' = "OKAY"
      <4>1. /\ ~PopsTooFar(n) /\ ~FollowsNull(n) /\ stack' = StackFor(n)
            /\ slot'[in'].id = n.id /\ slot'[in'].parent = ParentFor(n)
        BY <1>1, <3>5, StoredNode
      <4>2. (made > 0 /\ n.kind = "collection") => n.depth > born[made].depth
        <5>1. made > 0 => born[made].depth \in Nat
          <6>1. PICK S : S = [parent : Ids, depth : Depths, kind : Kinds]
            OBVIOUS
          <6>2. born \in Seq(S) /\ Len(born) = made
            BY <6>1 DEF Inv, TypeOK, DocumentInv
          <6>3. made > 0 => born[made] \in S
            BY <1>0, <6>2, ElementOfSeq
          <6> QED BY <6>1, <6>3, QueueAssumption DEF Depths
        <5>2. n.depth \in Nat
          BY <1>1, NodeFields
        <5> QED BY <2>2, <2>4, <2>9, <5>1, <5>2, SiblingsStay
      <4>3. /\ ParentFor(n) = FromTop(open, 0)
            /\ \A j \in 1 .. Len(open') : stack'[j] = open'[j]
        BY <1>3, <3>2, <4>1, <4>2, StoredParent
      <4>4. slot'[in'].id \in 1 .. made' /\ slot'[in'].parent = born'[slot'[in'].id].parent
        <5>1. slot'[in'].id = made + 1 /\ slot'[in'].parent = b.parent
          BY <1>0, <2>4, <4>1, <4>3
        <5>2. born'[made + 1] = b /\ made + 1 \in 1 .. made'
          BY <1>0, <2>0, <2>5
        <5> QED BY <5>1, <5>2
      <4> QED BY <3>3, <4>3, <4>4 DEF OpenOnStack, ParentsTrue
    <3> QED BY <3>4, <3>5
  <2> QED BY <2>8, <2>9 DEF TrueInv
<1> QED BY <1>2, <1>3

LEMMA TrueInductive == Inv /\ TrueInv /\ [Next]_vars => TrueInv'
<1> SUFFICES ASSUME Inv, TrueInv, [Next]_vars PROVE TrueInv'
  OBVIOUS
<1>1. ASSUME NEW key \in {"none", "source"}, OpenCollection(key)
      PROVE  TrueInv'
  BY <1>1, CollectionIsProduced, TrueAfterProduce
<1>2. ASSUME NEW key \in {"none", "source"}, NEW value \in {"none", "source"}, Scalar(key, value)
      PROVE  TrueInv'
  BY <1>2, ScalarIsProduced, TrueAfterProduce
<1>3. CASE CloseCollection
  <2>1. /\ open \in Seq(Ids) /\ open # <<>> /\ open' = Front(open)
        /\ UNCHANGED <<in, slot, stack, made, ended, born>>
    BY <1>3 DEF CloseCollection, queueVars, Inv, TypeOK
  <2>2. Len(open) \in Nat \ {0}
    BY <2>1, EmptySeq
  <2>3. Len(open') < Len(open) /\ \A j \in 1 .. Len(open') : open'[j] = open[j]
    <3>1. PICK m \in Nat : m = Len(open) - 1
      BY <2>2
    <3>2. \A i \in 1 .. m : open[i] \in Ids
      BY <2>1, <2>2, <3>1, ElementOfSeq
    <3>3. /\ Len(SubSeq(open, 1, m)) = IF 1 <= m THEN m - 1 + 1 ELSE 0
          /\ \A i \in 1 .. m - 1 + 1 : SubSeq(open, 1, m)[i] = open[1 + i - 1]
      BY <3>1, <3>2, SubSeqProperties
    <3> QED BY <2>1, <2>2, <3>1, <3>3 DEF Front
  <2>4. Len(open') \in Nat
    BY <2>1, CloseKeeps, <1>3, LenProperties DEF Inv, TypeOK
  <2>5. OpenOnStack => OpenOnStack'
    BY <2>1, <2>2, <2>3, <2>4 DEF OpenOnStack
  <2> QED BY <2>1, <2>5 DEF TrueInv, LastDepth, ParentsTrue, SiblingCollections
<1>4. CASE EndOfStream
  <2>1. PICK n \in Node : Enqueue(n) /\ (EnqueueFull(n) \/ EnqueueTooShallow(n))
    BY <1>4, EndOfStreamFails
  <2>2. ended = FALSE /\ ended' = GivesUp /\ UNCHANGED <<open, made, born>>
    BY <1>4, EndOfStreamFails
  <2>3. CASE EnqueueFull(n)
    <3>1. UNCHANGED <<in, slot, stack>> /\ ended' = ended
      BY <2>2, <2>3 DEF EnqueueFull, queueVars, GivesUp
    <3> QED BY <2>2, <3>1 DEF TrueInv, LastDepth, OpenOnStack, ParentsTrue, SiblingCollections
  <2>4. CASE EnqueueTooShallow(n)
    <3>1. ~IsFull /\ ended' = TRUE
      BY <2>2, <2>4 DEF EnqueueTooShallow, GivesUp
    <3>2. \A i \in Slots \ {in'} : slot'[i] = slot[i]
      BY <2>1, <3>1, EnqueueWritesOneSlot DEF Inv
    <3> QED
      BY <2>2, <3>1, <3>2 DEF TrueInv, LastDepth, OpenOnStack, ParentsTrue, SiblingCollections
  <2> QED BY <2>1, <2>3, <2>4
<1>5. CASE Reader
  <2>1. /\ slot' = [slot EXCEPT ![out] = Reset(@)]
        /\ UNCHANGED <<in, stack, open, made, ended, born>>
    BY <1>5 DEF Reader, Dequeue, document
  <2>2. in \in Slots /\ out \in Slots /\ slot \in [Slots -> Node]
    BY DEF Inv, TypeOK, QueueType
  <2>3. \A i \in Slots : \/ slot'[i] = slot[i]
                         \/ slot'[i].kind = "unset" /\ slot'[i].depth = slot[i].depth
    BY <2>1, <2>2 DEF Reset, Blank
  <2> QED
    BY <2>1, <2>2, <2>3 DEF TrueInv, LastDepth, OpenOnStack, ParentsTrue, SiblingCollections
<1>6. CASE UNCHANGED vars
  BY <1>6 DEF vars, queueVars, document, TrueInv, LastDepth, OpenOnStack, ParentsTrue,
              SiblingCollections
<1> QED BY <1>1, <1>2, <1>3, <1>4, <1>5, <1>6 DEF Next

\* As long as no collection directly follows a sibling collection, the parent of every
\* waiting node is the collection it lies in; the stack alone would not tell.
THEOREM ParentsAreTrue ==
  ASSUME ReadsDrainedEnd = FALSE
  PROVE  Spec => []TrueParent
<1>1. Init => WaitingInv
  BY NothingWaitsAtFirst
<1>2. Inv /\ WaitingInv /\ [Next]_vars => WaitingInv'
  BY WaitingInductive
<1>3. Init => TrueInv
  <2> SUFFICES ASSUME Init PROVE TrueInv
    OBVIOUS
  <2>1. \A i \in Slots : slot[i].kind = "unset"
    BY DEF Init, OpenQueue, Blank
  <2>2. made = 0 /\ open = <<>>
    BY DEF Init
  <2> QED BY <2>1, <2>2 DEF TrueInv, LastDepth, OpenOnStack, ParentsTrue
<1>4. Inv /\ TrueInv /\ [Next]_vars => TrueInv'
  BY TrueInductive
<1>5. Inv /\ WaitingInv /\ TrueInv => TrueParent
  <2> SUFFICES ASSUME Inv, WaitingInv, TrueInv, ~SiblingCollections, NEW i \in Whole
               PROVE  slot[i].parent = born[slot[i].id].parent
    BY DEF TrueParent
  <2>1. i \in Slots /\ ~(ended /\ i = in) /\ slot[i].kind # "unset"
    BY WaitingIsRing DEF Inv, TypeOK, QueueType, Whole, WaitingInv
  <2> QED BY <2>1 DEF TrueInv, ParentsTrue
<1> QED BY <1>1, <1>2, <1>3, <1>4, <1>5, Invariant, PTL DEF Spec
-----------------------------------------------------------------------------
\* The ring, with its failing enqueues, implements the bounded queue NodeFifo.

\* The k-th slot after o in a ring of Size + 1 slots.
After(o, k) == IF o + k <= Size THEN o + k ELSE (o + k) - (Size + 1)

LEMMA UnreadSlotIsAfter ==
  ASSUME out \in Slots, NEW k \in 1 .. Size + 1
  PROVE  UnreadSlot(k) = After(out, k) /\ After(out, k) \in Slots
<1>1. Size \in Nat /\ out \in Nat /\ out <= Size /\ k \in Nat /\ out + k < 2 * (Size + 1)
  BY QueueAssumption DEF Slots
<1>2. \A a, b \in Nat : a < b => a % b = a
  OBVIOUS
<1>3. \A a, b \in Nat : (b <= a /\ a < 2 * b) => a % b = a - b
  OBVIOUS
<1>4. CASE out + k <= Size
  <2>1. out + k \in Nat /\ Size + 1 \in Nat /\ out + k < Size + 1 BY <1>1, <1>4
  <2>2. (out + k) % (Size + 1) = out + k BY <1>2, <2>1
  <2> QED BY <1>1, <1>4, <2>2 DEF UnreadSlot, After, Slots
<1>5. CASE ~(out + k <= Size)
  <2>1. out + k \in Nat /\ Size + 1 \in Nat /\ Size + 1 <= out + k BY <1>1, <1>5
  <2>2. (out + k) % (Size + 1) = (out + k) - (Size + 1) BY <1>1, <1>3, <2>1
  <2> QED BY <1>1, <1>5, <2>2 DEF UnreadSlot, After, Slots
<1> QED BY <1>4, <1>5

\* The nodes that wait, oldest first: what the refinement maps the ring to.
Nodes == [i \in 1 .. UnreadCount |-> slot[UnreadSlot(i)]]

LEMMA NodesAreSeq ==
  ASSUME TypeOK
  PROVE  /\ UnreadCount \in 0 .. Size
         /\ Nodes \in Seq(Node) /\ Len(Nodes) = UnreadCount
         /\ \A i \in 1 .. UnreadCount : Nodes[i] = slot[After(out, i)]
         /\ Nodes = <<>> <=> UnreadCount = 0
<1>1. /\ in \in Slots /\ out \in Slots /\ slot \in [Slots -> Node]
      /\ Size \in Nat
  BY QueueAssumption DEF TypeOK, QueueType
<1>2. UnreadCount \in 0 .. Size
  BY <1>1 DEF UnreadCount, Slots
<1>3. \A i \in 1 .. UnreadCount : UnreadSlot(i) = After(out, i) /\ slot[UnreadSlot(i)] \in Node
  <2>1. \A i \in 1 .. UnreadCount : i \in 1 .. Size + 1
    BY <1>1, <1>2
  <2> QED BY <1>1, <2>1, UnreadSlotIsAfter
<1>4. PICK m \in Nat : m = UnreadCount
  BY <1>2
<1>5. /\ Nodes \in Seq(Node) /\ Len(Nodes) = m
      /\ \A i \in 1 .. m : Nodes[i] = slot[After(out, i)]
  BY <1>3, <1>4 DEF Nodes
<1>6. Nodes = <<>> <=> m = 0
  BY <1>5
<1> QED BY <1>2, <1>4, <1>5, <1>6

LEMMA NodesNextAreSeq ==
  ASSUME TypeOK'
  PROVE  /\ UnreadCount' \in 0 .. Size
         /\ Nodes' \in Seq(Node) /\ Len(Nodes') = UnreadCount'
         /\ \A i \in 1 .. UnreadCount' : Nodes'[i] = slot'[After(out', i)]
<1>1. /\ in' \in Slots /\ out' \in Slots /\ slot' \in [Slots -> Node]
      /\ Size \in Nat
  BY QueueAssumption DEF TypeOK, QueueType
<1>2. UnreadCount' \in 0 .. Size
  <2>1. PICK i \in Slots, o \in Slots : i = in' /\ o = out'
    BY <1>1
  <2>2. UnreadCount' = IF o <= i THEN i - o ELSE (Size + 1 - o) + i
    BY <2>1 DEF UnreadCount
  <2> QED BY <1>1, <2>2 DEF Slots
<1>3. \A i \in 1 .. UnreadCount' : slot'[After(out', i)] \in Node
  <2>1. \A o \in Slots, i \in 1 .. Size : After(o, i) \in Slots
    BY <1>1 DEF After, Slots
  <2> QED BY <1>1, <1>2, <2>1
<1>4. ASSUME NEW o \in Slots, NEW i \in 1 .. Size + 1
      PROVE  (o + i) % (Size + 1) = After(o, i)
  <2>1. Size \in Nat /\ o \in Nat /\ o <= Size /\ i \in Nat /\ o + i < 2 * (Size + 1)
    BY <1>1 DEF Slots
  <2>2. \A a, b \in Nat : a < b => a % b = a
    OBVIOUS
  <2>3. \A a, b \in Nat : (b <= a /\ a < 2 * b) => a % b = a - b
    OBVIOUS
  <2>4. o + i \in Nat /\ Size + 1 \in Nat
    BY <2>1
  <2>5. CASE o + i <= Size
    BY <2>1, <2>2, <2>4, <2>5 DEF After
  <2>6. CASE ~(o + i <= Size)
    <3>1. Size + 1 <= o + i BY <2>1, <2>4, <2>6
    <3>2. (o + i) % (Size + 1) = (o + i) - (Size + 1) BY <2>1, <2>3, <2>4, <3>1
    <3> QED BY <2>6, <3>2 DEF After
  <2> QED BY <2>5, <2>6
<1>5. PICK m \in Nat : m = UnreadCount'
  BY <1>2
<1>6. \A i \in 1 .. m : (out' + i) % (Size + 1) = After(out', i)
  <2>1. \A i \in 1 .. m : i \in 1 .. Size + 1
    BY <1>1, <1>2, <1>5
  <2> QED BY <1>1, <1>4, <2>1
<1>7. /\ Nodes' \in Seq(Node) /\ Len(Nodes') = m
      /\ \A i \in 1 .. m : Nodes'[i] = slot'[After(out', i)]
  BY <1>3, <1>5, <1>6 DEF Nodes, UnreadSlot
<1> QED BY <1>2, <1>5, <1>7

-----------------------------------------------------------------------------
\* A node that gets a slot is put behind those that wait, whatever else went wrong.
LEMMA PlacedIsPut ==
  ASSUME Inv, TypeOK', NEW n \in Node, Enqueue(n), ~IsFull
  PROVE  Fifo!Put
<1>1. /\ in \in Slots /\ out \in Slots /\ Size \in Nat /\ slot \in [Slots -> Node]
      /\ in' = NextIn /\ NextIn \in Slots /\ out' = out /\ node_out' = node_out
      /\ \A i \in Slots \ {in'} : slot'[i] = slot[i]
  BY EnqueueWritesOneSlot, QueueAssumption DEF Inv, TypeOK, QueueType
<1>2. /\ UnreadCount < Size /\ UnreadCount' = UnreadCount + 1
      /\ \A i \in 1 .. UnreadCount : After(out, i) \in Slots /\ After(out, i) # NextIn
  BY <1>1, QueueAssumption
  DEF UnreadCount, NextIn, IsFull, MayStepUp, MayWrap, Slots, After
<1>3. /\ UnreadCount \in 0 .. Size /\ Nodes \in Seq(Node) /\ Len(Nodes) = UnreadCount
      /\ \A i \in 1 .. UnreadCount : Nodes[i] = slot[After(out, i)]
  BY NodesAreSeq DEF Inv
<1>4. /\ Nodes' \in Seq(Node) /\ Len(Nodes') = UnreadCount + 1
      /\ \A i \in 1 .. UnreadCount + 1 : Nodes'[i] = slot'[After(out', i)]
  BY <1>2, NodesNextAreSeq
<1>5. SubSeq(Nodes', 1, Len(Nodes)) = Nodes
  <2>1. PICK m \in Nat : m = UnreadCount
    BY <1>3
  <2>2. \A i \in 1 .. m : Nodes'[i] = Nodes[i]
    BY <1>1, <1>2, <1>3, <1>4, <2>1
  <2>3. \A i \in 1 .. m : Nodes'[i] \in Node
    BY <1>4, <2>1, ElementOfSeq
  <2>4. /\ SubSeq(Nodes', 1, m) \in Seq(Node)
        /\ Len(SubSeq(Nodes', 1, m)) = IF 1 <= m THEN m - 1 + 1 ELSE 0
        /\ \A i \in 1 .. m - 1 + 1 : SubSeq(Nodes', 1, m)[i] = Nodes'[1 + i - 1]
    BY <2>1, <2>3, SubSeqProperties
  <2>5. Len(SubSeq(Nodes', 1, m)) = m /\ \A i \in 1 .. m : SubSeq(Nodes', 1, m)[i] = Nodes[i]
    BY <2>1, <2>2, <2>4
  <2> QED BY <1>3, <2>1, <2>4, <2>5, SeqEqual
<1>6. status' \notin {"NODE_QUEUE_FULL", "NODE_QUEUE_EMPTY"}
  BY <1>1, EnqueueOutcomes
  DEF Inv, EnqueueFull, Placed, EnqueueTooShallow, EnqueueWithoutStack
<1> QED BY <1>1, <1>2, <1>3, <1>4, <1>5, <1>6 DEF Fifo!Put, Nodes

LEMMA FullIsFull ==
  ASSUME Inv, NEW n \in Node, Enqueue(n), IsFull
  PROVE  Fifo!Full
<1>1. EnqueueFull(n)
  BY FullIsTurnedAway
<1>2. UNCHANGED <<in, out, slot, node_out>> /\ status' = "NODE_QUEUE_FULL"
  BY <1>1 DEF EnqueueFull, queueVars
<1>3. UnreadCount = Size
  BY QueueAssumption
  DEF Inv, TypeOK, QueueType, UnreadCount, IsFull, MayStepUp, MayWrap, Slots
<1>4. Len(Nodes) = Size
  BY <1>3, NodesAreSeq DEF Inv
<1>5. Nodes' = Nodes
  BY <1>2 DEF Nodes, UnreadCount, UnreadSlot
<1> QED BY <1>2, <1>4, <1>5 DEF Fifo!Full, Nodes

\* A dequeue takes the oldest node; EMPTY says that there is none.
LEMMA DequeueTakes ==
  ASSUME Inv, TypeOK', Dequeue, ~(in = out /\ out = Size)
  PROVE  Fifo!Take \/ Fifo!Empty
<1>1. /\ in \in Slots /\ out \in Slots /\ Size \in Nat /\ slot \in [Slots -> Node]
      /\ in' = in /\ out' = NextOut /\ node_out' = slot[NextOut]
      /\ \A i \in Slots \ {out} : slot'[i] = slot[i]
      /\ status' = IF MayReadUp \/ out = Size THEN "OKAY" ELSE "NODE_QUEUE_EMPTY"
  BY QueueAssumption DEF Dequeue, Inv, TypeOK, QueueType
<1>2. /\ UnreadCount \in 0 .. Size /\ Nodes \in Seq(Node) /\ Len(Nodes) = UnreadCount
      /\ \A i \in 1 .. UnreadCount : Nodes[i] = slot[After(out, i)]
      /\ Nodes = <<>> <=> UnreadCount = 0
  BY NodesAreSeq DEF Inv
<1>3. /\ Nodes' \in Seq(Node) /\ Len(Nodes') = UnreadCount'
      /\ \A i \in 1 .. UnreadCount' : Nodes'[i] = slot'[After(out', i)]
  BY NodesNextAreSeq
<1>4. CASE in = out
  <2>1. out' = out /\ status' = "NODE_QUEUE_EMPTY" /\ UnreadCount = 0 /\ UnreadCount' = 0
    BY <1>1, <1>4 DEF NextOut, MayReadUp, UnreadCount, Slots
  <2>2. Nodes = <<>> /\ Nodes' = <<>>
    BY <1>2, <1>3, <2>1
  <2> QED BY <2>1, <2>2 DEF Fifo!Empty, Nodes
<1>5. CASE in # out
  <2>1. /\ status' = "OKAY" /\ UnreadCount >= 1 /\ UnreadCount' = UnreadCount - 1
        /\ NextOut = After(out, 1)
        /\ \A i \in 1 .. UnreadCount - 1 :
             /\ After(NextOut, i) = After(out, i + 1)
             /\ After(NextOut, i) \in Slots \ {out}
    BY <1>1, <1>5, QueueAssumption DEF NextOut, MayReadUp, UnreadCount, Slots, After
  <2>2. Nodes # <<>> /\ Head(Nodes) = slot[NextOut]
    BY <1>2, <2>1
  <2>3. /\ Tail(Nodes) \in Seq(Node) /\ Len(Tail(Nodes)) = UnreadCount - 1
        /\ \A i \in 1 .. UnreadCount - 1 : Tail(Nodes)[i] = Nodes[i + 1]
    BY <1>2, <2>2, HeadTailProperties
  <2>4. \A i \in 1 .. UnreadCount - 1 : Nodes'[i] = Tail(Nodes)[i]
    BY <1>1, <1>2, <1>3, <2>1, <2>3
  <2>5. Nodes' = Tail(Nodes)
    BY <1>3, <2>1, <2>3, <2>4, SeqEqual
  <2> QED BY <1>1, <2>1, <2>2, <2>5 DEF Fifo!Take, Nodes
<1> QED BY <1>4, <1>5

\* What each step of the document and of the reader does to the queue.
LEMMA FifoStep ==
  ASSUME ReadsDrainedEnd = FALSE, Inv, TypeOK', [Next]_vars
  PROVE  [Fifo!Next]_Fifo!vars
<1>1. ASSUME NEW n \in Node, Enqueue(n)
      PROVE  Fifo!Next
  BY <1>1, PlacedIsPut, FullIsFull DEF Fifo!Next
<1>2. ASSUME NEW key \in {"none", "source"}, OpenCollection(key)
      PROVE  Fifo!Next
  BY <1>1, <1>2, CollectionIsProduced DEF DocumentNode, Produce
<1>3. ASSUME NEW key \in {"none", "source"}, NEW value \in {"none", "source"}, Scalar(key, value)
      PROVE  Fifo!Next
  BY <1>1, <1>3, ScalarIsProduced DEF DocumentNode, Produce
<1>4. CASE EndOfStream
  BY <1>1, <1>4, EndOfStreamFails
<1>5. CASE Reader
  BY <1>5, DequeueTakes DEF Reader, Fifo!Next
<1>6. CASE CloseCollection \/ UNCHANGED vars
  <2>1. UNCHANGED <<in, out, slot, node_out, status>>
    BY <1>6 DEF CloseCollection, vars, queueVars
  <2> QED BY <2>1 DEF Fifo!vars, UnreadCount, UnreadSlot
<1> QED BY <1>2, <1>3, <1>4, <1>5, <1>6 DEF Next

\* To its users the ring is a bounded first-in first-out queue: every node comes out
\* once, in order and as it went in, FULL means that Size nodes wait and EMPTY that none
\* does, as long as nobody reads from the drained end.
THEOREM ImplementsFifo ==
  ASSUME ReadsDrainedEnd = FALSE
  PROVE  Spec => FifoSpec
<1>1. Init => Fifo!Init
  <2>1. ASSUME Init PROVE Nodes = <<>> /\ status = "OKAY"
    <3>1. TypeOK /\ in = 0 /\ out = 0 /\ status = "OKAY"
      BY <2>1, InvInit DEF Inv, Init, OpenQueue
    <3> QED BY <3>1, NodesAreSeq DEF UnreadCount
  <2> QED BY <2>1 DEF Fifo!Init, Nodes
<1>2. Inv /\ Inv' /\ [Next]_vars => [Fifo!Next]_Fifo!vars
  BY FifoStep DEF Inv
<1> QED BY <1>1, <1>2, Invariant, PTL DEF Spec, FifoSpec, Fifo!Spec
=============================================================================
