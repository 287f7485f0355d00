----------------------------- MODULE OlyRunProofs -----------------------------
(***************************************************************************)
(* Proofs about yaml_inbound on its data source, and about oly_run with it,*)
(* for every document, size of the queue and of its buffers, and every     *)
(* insert that the database may refuse.  About the driver: the depth of    *)
(* the data source's node follows the nesting of the document, nodes are   *)
(* numbered in the order in which they are passed on, and are those of the *)
(* document.                                                               *)
(***************************************************************************)
EXTENDS OlyRun, DataSourceLemmas, FiniteSetTheorems

IsSource(d) ==
  /\ DOMAIN d = {"status", "key_staging", "boundary", "node", "sequence"}
  /\ DOMAIN d.node = {"id", "depth", "has_key", "kind", "key", "value"}
  /\ d.node.depth \in Nat

\* The status a driver meets: it has been reset after each node.
Between(d) == d.status \in {"OKAY", "KEY_STR_TOO_LONG", "BOUNDARY_RESET"}

\* A collection too deep to descend into is passed on all the same, so the depth is
\* right only as long as none came; a status other than OKAY stops every enqueue.
DepthInv ==
  /\ IsSource(ds) /\ Between(ds)
  /\ places \in Seq({"key", "value", "item"})
  /\ DepthFollowsDocument

-----------------------------------------------------------------------------
(* The steps of enqueue_ds_node: all but Descend leave the depth alone.    *)

LEMMA NumberedDepth ==
  ASSUME NEW d, IsSource(d)
  PROVE  /\ IsSource(Numbered(d)) /\ Numbered(d).node.depth = d.node.depth
         /\ Numbered(d).status = d.status
BY DEF IsSource, Numbered, NewNode

LEMMA PutDepth ==
  ASSUME NEW d, IsSource(d), NEW kind, NEW value
  PROVE  /\ IsSource(PutKey(d)) /\ PutKey(d).node.depth = d.node.depth
         /\ IsSource(PutValue(d, kind, value))
         /\ PutValue(d, kind, value).node.depth = d.node.depth
         /\ PutKey(d).status = d.status /\ PutValue(d, kind, value).status = d.status
BY DEF IsSource, PutKey, PutValue

LEMMA DescendDepth ==
  ASSUME NEW d, IsSource(d), NEW kind
  PROVE  /\ IsSource(Descend(d, kind))
         /\ Descend(d, kind).node.depth =
              IF kind \in Collections /\ d.node.depth < MaxDepth
              THEN d.node.depth + 1 ELSE d.node.depth
         /\ Descend(d, kind).status = d.status
BY DEF IsSource, Descend

LEMMA KindFlushDepth ==
  ASSUME NEW d, IsSource(d), NEW kind
  PROVE  /\ IsSource(SetKind(d, kind)) /\ SetKind(d, kind).node.depth = d.node.depth
         /\ IsSource(Flush(d)) /\ Flush(d).node.depth = d.node.depth
         /\ SetKind(d, kind).status = d.status /\ Flush(d).status = d.status
BY DEF IsSource, SetKind, Flush

\* What get_ochar_out leaves behind: a text, or one of two statuses.
LEMMA GetDepth ==
  ASSUME NEW d, IsSource(d)
  PROVE  /\ IsSource(AfterGetOChar(d)) /\ AfterGetOChar(d).node.depth = d.node.depth
         /\ Between(AfterGetOChar(d))
BY DEF IsSource, AfterGetOChar, Between

LEMMA TakeKeyDepth ==
  ASSUME NEW d, IsSource(d), Between(d)
  PROVE  IsSource(TakeKey(d)) /\ TakeKey(d).node.depth = d.node.depth /\ Between(TakeKey(d))
<1>1. PICK g : g = AfterGetOChar(d)
  OBVIOUS
<1>2. IsSource(g) /\ g.node.depth = d.node.depth /\ Between(g)
  BY <1>1, GetDepth
<1>3. PICK h : h = [g EXCEPT !.key_staging = <<>>]
  OBVIOUS
<1>4. IsSource(h) /\ h.node = g.node /\ Between(h)
  BY <1>2, <1>3 DEF IsSource, Between
<1>5. PICK t : t = GotText(d.boundary)
  OBVIOUS
<1>6. PICK k : k = [h EXCEPT !.node.key = t]
  OBVIOUS
<1>7. IsSource(k) /\ k.node.depth = h.node.depth /\ Between(k)
  BY <1>4, <1>6 DEF IsSource, Between
<1>8. TakeKey(d) \in {d, h, k}
  BY <1>1, <1>3, <1>5, <1>6 DEF TakeKey
<1> QED BY <1>2, <1>4, <1>7, <1>8

LEMMA TakeValueDepth ==
  ASSUME NEW d, IsSource(d), Between(d)
  PROVE  /\ IsSource(TakeValue(d)) /\ TakeValue(d).node.depth = d.node.depth
         /\ Between(TakeValue(d))
<1>1. PICK g : g = AfterGetOChar(d)
  OBVIOUS
<1>2. IsSource(g) /\ g.node.depth = d.node.depth /\ Between(g)
  BY <1>1, GetDepth
<1>3. PICK t : t = GotText(d.boundary)
  OBVIOUS
<1>4. PICK v : v = [g EXCEPT !.node.value = t]
  OBVIOUS
<1>5. IsSource(v) /\ v.node.depth = g.node.depth /\ Between(v)
  BY <1>2, <1>4 DEF IsSource, Between
<1>6. TakeValue(d) \in {d, g, v}
  BY <1>1, <1>3, <1>4 DEF TakeValue
<1> QED BY <1>2, <1>5, <1>6

\* A node that is produced is one deeper if it is a collection with room to descend.
LEMMA EnqueueDepth ==
  ASSUME NEW d, IsSource(d), Between(d), NEW kind, NEW value,
         NEW e, e = EnqueueDsNode(d, kind, value)
  PROVE  /\ IsSource(e)
         /\ Between(e) \/ e.status = "NODE_PRODUCED"
         /\ e.status = "NODE_PRODUCED" =>
              e.node.depth = IF kind \in Collections /\ d.node.depth < MaxDepth
                             THEN d.node.depth + 1 ELSE d.node.depth
<1>1. CASE d.status # "OKAY"
  BY <1>1 DEF EnqueueDsNode, Between
<1>2. CASE d.status = "OKAY"
  <2>1. PICK a : a = Numbered(d)
    OBVIOUS
  <2>2. PICK b : b = PutKey(a)
    OBVIOUS
  <2>3. PICK c : c = PutValue(b, kind, value)
    OBVIOUS
  <2>4. IsSource(c) /\ c.node.depth = d.node.depth /\ c.status = "OKAY"
    BY <1>2, <2>1, <2>2, <2>3, NumberedDepth, PutDepth
  <2>5. PICK f : f = Descend(c, kind)
    OBVIOUS
  <2>6. /\ IsSource(f) /\ f.status = "OKAY"
        /\ f.node.depth = IF kind \in Collections /\ d.node.depth < MaxDepth
                          THEN d.node.depth + 1 ELSE d.node.depth
    BY <2>4, <2>5, DescendDepth
  <2>7. PICK g : g = SetKind(f, kind)
    OBVIOUS
  <2>8. PICK h : h = Flush(g)
    OBVIOUS
  <2>9. IsSource(h) /\ h.node.depth = f.node.depth /\ Between(h)
    BY <2>6, <2>7, <2>8, KindFlushDepth DEF Between
  <2>10. PICK k : k = TakeKey(h)
    OBVIOUS
  <2>11. PICK v : v = TakeValue(k)
    OBVIOUS
  <2>12. IsSource(v) /\ v.node.depth = f.node.depth /\ Between(v)
    BY <2>9, <2>10, <2>11, TakeKeyDepth, TakeValueDepth
  <2>13. e = Produce(v)
    BY <1>2, <2>1, <2>2, <2>3, <2>5, <2>7, <2>8, <2>10, <2>11 DEF EnqueueDsNode
  <2>14. IsSource(e) /\ e.node = v.node /\ (Between(e) \/ e.status = "NODE_PRODUCED")
    BY <2>12, <2>13 DEF Produce, IsSource, Between
  <2> QED BY <2>6, <2>12, <2>14
<1> QED BY <1>1, <1>2

-----------------------------------------------------------------------------
(* The steps of the driver.                                                *)

LEMMA EnqueueNodeKeeps ==
  ASSUME IsSource(ds), Between(ds), NEW kind, NEW value, EnqueueNode(kind, value)
  PROVE  /\ IsSource(ds') /\ Between(ds')
         /\ ended' # "failed" =>
              /\ ended # "failed"
              /\ ds'.node.depth = IF kind \in Collections /\ ds.node.depth < MaxDepth
                                  THEN ds.node.depth + 1 ELSE ds.node.depth
<1>1. PICK d : /\ d = EnqueueDsNode(ds, kind, value)
               /\ \/ d.status = "NODE_PRODUCED" /\ ds' = ResetDsStatus(d) /\ ended' = ended
                  \/ d.status # "NODE_PRODUCED" /\ ds' = d /\ ended' = "failed"
  BY DEF EnqueueNode
<1>2. /\ IsSource(d) /\ (Between(d) \/ d.status = "NODE_PRODUCED")
      /\ d.status = "NODE_PRODUCED" =>
           d.node.depth = IF kind \in Collections /\ ds.node.depth < MaxDepth
                          THEN ds.node.depth + 1 ELSE ds.node.depth
  BY <1>1, EnqueueDepth
<1>3. CASE d.status = "NODE_PRODUCED"
  BY <1>1, <1>2, <1>3 DEF ResetDsStatus, IsSource, Between
<1>4. CASE d.status # "NODE_PRODUCED"
  BY <1>1, <1>2, <1>4
<1> QED BY <1>3, <1>4

\* A scalar, staged as a key or passed on, leaves the depth alone.
LEMMA HandleScalarKeeps ==
  ASSUME IsSource(ds), Between(ds), NEW text, HandleScalar(text)
  PROVE  /\ IsSource(ds') /\ Between(ds')
         /\ ended' # "failed" => ended # "failed" /\ ds'.node.depth = ds.node.depth
<1>1. CASE ~have_key
  <2>1. ds' = StageNodeKey(ds, text) /\ ended' = ended
    BY <1>1 DEF HandleScalar
  <2> QED BY <2>1 DEF StageNodeKey, IsSource, Between
<1>2. CASE have_key
  <2>1. EnqueueNode("string", text) /\ "string" \notin Collections
    BY <1>2 DEF HandleScalar, Collections
  <2> QED BY <2>1, EnqueueNodeKeeps
<1> QED BY <1>1, <1>2

LEMMA FrontShape ==
  ASSUME NEW S, NEW s \in Seq(S), s # <<>>
  PROVE  Front(s) \in Seq(S) /\ Len(Front(s)) = Len(s) - 1 /\ Len(s) \in Nat
<1>1. PICK m \in Nat : Len(s) = m + 1
  <2>1. Len(s) \in Nat \ {0}
    BY EmptySeq
  <2> QED BY <2>1
<1>2. \A i \in 1 .. m : s[i] \in S
  BY <1>1, ElementOfSeq
<1>3. /\ SubSeq(s, 1, m) \in Seq(S)
      /\ Len(SubSeq(s, 1, m)) = IF 1 <= m THEN m - 1 + 1 ELSE 0
  BY <1>2, SubSeqProperties
<1> QED BY <1>1, <1>3 DEF Front

\* The places: only the ends of collections change how many there are.
LEMMA AfterValueKeeps ==
  ASSUME NEW at \in Seq({"key", "value", "item"})
  PROVE  /\ AfterValue(at) \in Seq({"key", "value", "item"})
         /\ Len(AfterValue(at)) = Len(at)
<1>1. CASE at # <<>> /\ Last(at) = "value"
  <2>1. /\ Front(at) \in Seq({"key", "value", "item"})
        /\ Len(Front(at)) = Len(at) - 1 /\ Len(at) \in Nat
    BY <1>1, FrontShape
  <2> QED BY <1>1, <2>1, AppendProperties DEF AfterValue
<1>2. CASE ~(at # <<>> /\ Last(at) = "value")
  BY <1>2 DEF AfterValue
<1> QED BY <1>1, <1>2

LEMMA DepthInductive == DepthInv /\ [Next]_vars => DepthInv'
<1> SUFFICES ASSUME DepthInv, [Next]_vars PROVE DepthInv'
  OBVIOUS
<1> DEFINE Place == {"key", "value", "item"}
<1>1. IsSource(ds) /\ Between(ds) /\ places \in Seq(Place) /\ Len(places) \in Nat
  BY LenProperties DEF DepthInv
<1>2. (ended # "failed" /\ "too deep" \notin seen) => ds.node.depth = Len(places)
  BY DEF DepthInv, DepthFollowsDocument
<1>3. ASSUME NEW kind \in Collections, StartCollection(kind)
      PROVE  DepthInv'
  <2>1. PICK place \in Place : places' = Append(places, place)
    BY <1>3 DEF StartCollection
  <2>2. places' \in Seq(Place) /\ Len(places') = Len(places) + 1
    BY <1>1, <2>1, AppendProperties
  <2>3. EnqueueNode(kind, <<>>)
    BY <1>3 DEF StartCollection
  <2>4. /\ IsSource(ds') /\ Between(ds')
        /\ ended' # "failed" =>
             /\ ended # "failed"
             /\ ds'.node.depth = IF ds.node.depth < MaxDepth
                                 THEN ds.node.depth + 1 ELSE ds.node.depth
    BY <1>1, <2>3, EnqueueNodeKeeps
  <2>5. "too deep" \notin seen' => "too deep" \notin seen /\ Len(places) < MaxDepth
    <3>1. seen' = seen \cup RoomLacks(kind, <<>>)
                     \cup (IF Len(places) >= MaxDepth THEN {"too deep"} ELSE {})
      BY <1>3 DEF StartCollection
    <3>2. MaxDepth \in Nat
      BY DataSourceAssumption
    <3>3. CASE Len(places) >= MaxDepth
      BY <3>1, <3>3
    <3>4. CASE ~(Len(places) >= MaxDepth)
      <4>1. Len(places) < MaxDepth
        BY <1>1, <3>2, <3>4
      <4> QED BY <3>1, <3>4, <4>1
    <3> QED BY <3>3, <3>4
  <2> QED BY <1>2, <2>2, <2>4, <2>5 DEF DepthInv, DepthFollowsDocument
<1>4. CASE EndCollection
  <2>1. /\ places # <<>> /\ ds' = DsAscend(ds) /\ places' = AfterValue(Front(places))
        /\ UNCHANGED <<ended, seen>>
    BY <1>4 DEF EndCollection, Ascended
  <2>2. Front(places) \in Seq(Place) /\ Len(Front(places)) = Len(places) - 1
    BY <1>1, <2>1, FrontShape
  <2>3. places' \in Seq(Place) /\ Len(places') = Len(places) - 1
    BY <2>1, <2>2, AfterValueKeeps
  <2>4. /\ IsSource(ds') /\ Between(ds')
        /\ ds'.node.depth = IF ds.node.depth = 0 THEN 0 ELSE ds.node.depth - 1
    BY <1>1, <2>1 DEF DsAscend, IsSource, Between
  <2>5. Len(places) > 0 /\ ds.node.depth \in Nat
    <3>1. Len(places) \in Nat \ {0}
      BY <1>1, <2>1, EmptySeq
    <3> QED BY <1>1, <3>1 DEF IsSource
  <2>6. (ended' # "failed" /\ "too deep" \notin seen') => ds'.node.depth = Len(places')
    <3>1. ASSUME ended' # "failed", "too deep" \notin seen'
          PROVE  ds.node.depth = Len(places)
      BY <1>2, <2>1, <3>1
    <3>2. ds.node.depth = Len(places) => ds'.node.depth = Len(places')
      BY <2>3, <2>4, <2>5
    <3> QED BY <3>1, <3>2
  <2> QED BY <2>3, <2>4, <2>6 DEF DepthInv, DepthFollowsDocument
<1>5. ASSUME NEW text \in Keys, KeyScalar(text)
      PROVE  DepthInv'
  <2>1. /\ places # <<>> /\ HandleScalar(text) /\ places' = Append(Front(places), "value")
        /\ "too deep" \notin seen' => "too deep" \notin seen
    BY <1>5 DEF KeyScalar, IsAt
  <2>2. Front(places) \in Seq(Place) /\ Len(Front(places)) = Len(places) - 1
    BY <1>1, <2>1, FrontShape
  <2>3. places' \in Seq(Place) /\ Len(places') = Len(places)
    <3>1. places' = Append(Front(places), "value") /\ "value" \in Place
      BY <2>1
    <3> QED BY <1>1, <2>2, <3>1, AppendProperties
  <2>4. /\ IsSource(ds') /\ Between(ds')
        /\ ended' # "failed" => ended # "failed" /\ ds'.node.depth = ds.node.depth
    BY <1>1, <2>1, HandleScalarKeeps
  <2> QED BY <1>2, <2>1, <2>3, <2>4 DEF DepthInv, DepthFollowsDocument
<1>6. ASSUME NEW text \in Values, ValueScalar(text)
      PROVE  DepthInv'
  <2>1. /\ HandleScalar(text) /\ places' = AfterValue(places)
        /\ "too deep" \notin seen' => "too deep" \notin seen
    BY <1>6 DEF ValueScalar
  <2>2. places' \in Seq(Place) /\ Len(places') = Len(places)
    BY <1>1, <2>1, AfterValueKeeps
  <2>3. /\ IsSource(ds') /\ Between(ds')
        /\ ended' # "failed" => ended # "failed" /\ ds'.node.depth = ds.node.depth
    BY <1>1, <2>1, HandleScalarKeeps
  <2> QED BY <1>2, <2>1, <2>2, <2>3 DEF DepthInv, DepthFollowsDocument
<1>7. CASE Alias
  <2>1. /\ places' = AfterValue(places) /\ UNCHANGED <<ds, ended>>
        /\ "too deep" \notin seen' => "too deep" \notin seen
    BY <1>7 DEF Alias
  <2>2. places' \in Seq(Place) /\ Len(places') = Len(places)
    BY <1>1, <2>1, AfterValueKeeps
  <2> QED BY <1>1, <1>2, <2>1, <2>2 DEF DepthInv, DepthFollowsDocument, IsSource, Between
<1>8. CASE StreamEnd \/ UNCHANGED vars
  <2>1. UNCHANGED <<ds, places, seen>> /\ (ended' # "failed" => ended # "failed")
    BY <1>8 DEF StreamEnd, IsRunning, vars
  <2> QED BY <1>1, <1>2, <2>1 DEF DepthInv, DepthFollowsDocument, IsSource, Between
<1> QED BY <1>3, <1>4, <1>5, <1>6, <1>7, <1>8 DEF Next

LEMMA DepthInit == Init => DepthInv
<1> SUFFICES ASSUME Init PROVE DepthInv
  OBVIOUS
<1>1. PICK b : ds = NewDataSource(b)
  BY DEF Init
<1>2. IsSource(ds) /\ Between(ds) /\ ds.node.depth = 0
  BY <1>1 DEF NewDataSource, NewNode, IsSource, Between
<1>3. places = <<>> /\ Len(places) = 0 /\ places \in Seq({"key", "value", "item"})
  BY EmptySeq DEF Init
<1> QED BY <1>2, <1>3 DEF DepthInv, DepthFollowsDocument

\* Whatever the document, and whichever of its keys and texts are refused, the depth of
\* the data source's node is the number of collections that are open there, until one is
\* too deep to descend into.
THEOREM DepthFollows == Spec => []DepthFollowsDocument
<1>1. DepthInv => DepthFollowsDocument
  BY DEF DepthInv
<1> QED BY <1>1, DepthInit, DepthInductive, PTL DEF Spec

-----------------------------------------------------------------------------
(* The nodes are numbered as they are passed on, and until the next one is *)
(* produced the data source's node is the one passed on last.              *)

\* A sequence, of whatever its elements are.
Listed(s) == s \in Seq(Range(s))

LEMMA ListedGrows ==
  ASSUME NEW s, Listed(s), NEW x, NEW t, t = Append(s, x)
  PROVE  /\ Listed(t) /\ t # <<>> /\ Len(s) \in Nat /\ Len(t) = Len(s) + 1
         /\ SubSeq(t, 1, Len(s)) = s
         /\ DOMAIN s = 1 .. Len(s) /\ DOMAIN t = 1 .. Len(s) + 1
         /\ \A i \in 1 .. Len(s) : t[i] = s[i]
         /\ t[Len(s) + 1] = x
<1>1. PICK R : R = Range(s)
  OBVIOUS
<1>2. s \in Seq(R)
  BY <1>1 DEF Listed
<1>3. PICK S : S = R \cup {x}
  OBVIOUS
<1>4. s \in Seq(S) /\ x \in S
  BY <1>2, <1>3, SeqMonotonic
<1>5. /\ t \in Seq(S) /\ t # <<>> /\ Len(t) = Len(s) + 1
      /\ \A i \in 1 .. Len(s) : t[i] = s[i]
      /\ t[Len(s) + 1] = x
  BY <1>4, AppendProperties
<1>6. /\ Len(s) \in Nat /\ DOMAIN s = 1 .. Len(s)
      /\ DOMAIN t = 1 .. Len(t)
  BY <1>4, <1>5, LenProperties
<1>7. Listed(t)
  <2>1. Range(t) = S
    <3>1. \A i \in 1 .. Len(s) + 1 : t[i] \in S
      BY <1>5, ElementOfSeq
    <3>2. \A y \in R : \E i \in 1 .. Len(s) + 1 : t[i] = y
      BY <1>1, <1>5, <1>6 DEF Range
    <3>3. Len(s) + 1 \in 1 .. Len(s) + 1
      BY <1>6
    <3>4. \A y \in S : \E i \in 1 .. Len(s) + 1 : t[i] = y
      BY <3>2, <3>3, <1>3, <1>5
    <3> QED BY <3>1, <3>4, <1>5, <1>6 DEF Range
  <2> QED BY <1>5, <2>1 DEF Listed
<1>8. SubSeq(t, 1, Len(s)) = s
  <2>1. \A i \in 1 .. Len(s) : t[i] \in S
    BY <1>4, <1>5, ElementOfSeq
  <2>2. /\ SubSeq(t, 1, Len(s)) \in Seq(S)
        /\ Len(SubSeq(t, 1, Len(s))) = IF 1 <= Len(s) THEN Len(s) - 1 + 1 ELSE 0
        /\ \A i \in 1 .. Len(s) - 1 + 1 : SubSeq(t, 1, Len(s))[i] = t[1 + i - 1]
    BY <1>6, <2>1, SubSeqProperties
  <2>3. PICK u : u = SubSeq(t, 1, Len(s))
    OBVIOUS
  <2>4. u \in Seq(S) /\ Len(u) = Len(s) /\ \A i \in 1 .. Len(s) : u[i] = s[i]
    BY <1>5, <1>6, <2>2, <2>3
  <2> QED BY <1>4, <2>3, <2>4, SeqEqual
<1> QED BY <1>5, <1>6, <1>7, <1>8

\* What the steps after the numbering keep.
Carries(d, e) ==
  /\ e.sequence = d.sequence /\ e.node.id = d.node.id /\ e.node.kind = d.node.kind
  /\ e.node.value # d.node.value => d.node.kind = "string"

LEMMA TakeKeyCarries ==
  ASSUME NEW d, IsSource(d)
  PROVE  Carries(d, TakeKey(d))
<1>1. PICK g : g = AfterGetOChar(d)
  OBVIOUS
<1>2. IsSource(g) /\ Carries(d, g)
  BY <1>1 DEF AfterGetOChar, IsSource, Carries
<1>3. PICK h : h = [g EXCEPT !.key_staging = <<>>]
  OBVIOUS
<1>4. IsSource(h) /\ Carries(d, h)
  BY <1>2, <1>3 DEF IsSource, Carries
<1>5. PICK t : t = GotText(d.boundary)
  OBVIOUS
<1>6. PICK k : k = [h EXCEPT !.node.key = t]
  OBVIOUS
<1>7. Carries(d, k)
  BY <1>4, <1>6 DEF IsSource, Carries
<1>8. TakeKey(d) \in {d, h, k}
  BY <1>1, <1>3, <1>5, <1>6 DEF TakeKey
<1> QED BY <1>4, <1>7, <1>8 DEF Carries

LEMMA TakeValueCarries ==
  ASSUME NEW d, IsSource(d)
  PROVE  Carries(d, TakeValue(d))
<1>1. PICK g : g = AfterGetOChar(d)
  OBVIOUS
<1>2. IsSource(g) /\ Carries(d, g)
  BY <1>1 DEF AfterGetOChar, IsSource, Carries
<1>3. PICK t : t = GotText(d.boundary)
  OBVIOUS
<1>4. PICK v : v = [g EXCEPT !.node.value = t]
  OBVIOUS
<1>5. d.node.kind = "string" => Carries(d, v)
  BY <1>2, <1>4 DEF IsSource, Carries
<1>6. TakeValue(d) = d \/ (d.node.kind = "string" /\ TakeValue(d) \in {g, v})
  BY <1>1, <1>3, <1>4 DEF TakeValue
<1> QED BY <1>2, <1>5, <1>6 DEF Carries

\* A node that is produced has the next number, and only a string has a value.
LEMMA EnqueueNumbers ==
  ASSUME NEW d, IsSource(d), Between(d), NEW kind, NEW value,
         NEW e, e = EnqueueDsNode(d, kind, value)
  PROVE  /\ e.status # "OKAY"
         /\ d.status # "OKAY" => e = d /\ e.status # "NODE_PRODUCED"
         /\ d.status = "OKAY" =>
              /\ e.sequence = d.sequence + 1 /\ e.node.id = d.sequence
              /\ e.node.kind = kind
              /\ e.node.value # NoText => kind = "string"
<1>1. CASE d.status # "OKAY"
  BY <1>1 DEF EnqueueDsNode, Between
<1>2. CASE d.status = "OKAY"
  <2>1. PICK a : a = Numbered(d)
    OBVIOUS
  <2>2. /\ IsSource(a) /\ a.sequence = d.sequence + 1 /\ a.node.id = d.sequence
        /\ a.node.value = NoText /\ a.node.kind = "unset"
    BY <2>1 DEF Numbered, NewNode, IsSource
  <2>3. PICK b : b = PutKey(a)
    OBVIOUS
  <2>4. PICK c : c = PutValue(b, kind, value)
    OBVIOUS
  <2>5. IsSource(b) /\ Carries(a, b)
    BY <2>2, <2>3 DEF PutKey, IsSource, Carries
  <2>6. IsSource(c) /\ Carries(a, c)
    BY <2>4, <2>5 DEF PutValue, IsSource, Carries
  <2>7. PICK f : f = Descend(c, kind)
    OBVIOUS
  <2>8. IsSource(f) /\ Carries(c, f)
    BY <2>6, <2>7 DEF Descend, IsSource, Carries
  <2>9. PICK g : g = SetKind(f, kind)
    OBVIOUS
  <2>10. PICK h : h = Flush(g)
    OBVIOUS
  <2>11. IsSource(g) /\ g.sequence = f.sequence /\ g.node.id = f.node.id
         /\ g.node.value = f.node.value /\ g.node.kind = kind
    BY <2>8, <2>9 DEF SetKind, IsSource
  <2>12. IsSource(h) /\ Carries(g, h) /\ h.node.value = g.node.value
    BY <2>10, <2>11 DEF Flush, IsSource, Carries
  <2>13. PICK k : k = TakeKey(h)
    OBVIOUS
  <2>14. PICK v : v = TakeValue(k)
    OBVIOUS
  <2>15. Between(h)
    <3>1. /\ a.status = "OKAY" /\ IsSource(a)
      BY <1>2, <2>1, NumberedDepth
    <3>2. b.status = "OKAY" /\ c.status = "OKAY"
      BY <2>3, <2>4, <2>5, <3>1, PutDepth
    <3>3. f.status = "OKAY"
      BY <2>6, <2>7, <3>2, DescendDepth
    <3>4. h.status = "OKAY"
      BY <2>8, <2>9, <2>10, <2>11, <3>3, KindFlushDepth
    <3> QED BY <3>4 DEF Between
  <2>16. IsSource(k) /\ Carries(h, k) /\ Between(k)
    BY <2>12, <2>13, <2>15, TakeKeyCarries, TakeKeyDepth
  <2>17. IsSource(v) /\ Carries(k, v) /\ Between(v)
    BY <2>14, <2>16, TakeValueCarries, TakeValueDepth
  <2>18. e = Produce(v)
    BY <1>2, <2>1, <2>3, <2>4, <2>7, <2>9, <2>10, <2>13, <2>14 DEF EnqueueDsNode
  <2>19. e.node = v.node /\ e.sequence = v.sequence /\ e.status # "OKAY"
    BY <2>17, <2>18 DEF Produce, IsSource, Between
  <2>20. v.sequence = d.sequence + 1 /\ v.node.id = d.sequence /\ v.node.kind = kind
    BY <2>2, <2>5, <2>6, <2>8, <2>11, <2>12, <2>16, <2>17 DEF Carries
  <2>21. v.node.value # NoText => kind = "string"
    BY <2>2, <2>5, <2>6, <2>8, <2>11, <2>12, <2>16, <2>17 DEF Carries
  <2> QED BY <1>2, <2>19, <2>20, <2>21
<1> QED BY <1>1, <1>2

IsKind(kind) == kind \in Collections \cup {"string", "unset"}

LastProduced ==
  (ended # "failed" /\ passed # <<>>) =>
    /\ ds.node.id + 1 = Len(passed)
    /\ ds.node.key = passed[Len(passed)].key
    /\ ds.node.value = passed[Len(passed)].value

NumberInv ==
  /\ ds.sequence \in Nat /\ Listed(passed) /\ Len(passed) \in Nat
  /\ ended # "failed" => ds.sequence = Len(passed)
  /\ LastProduced
  /\ ds.node.value # NoText => ds.node.kind = "string"
  /\ IsKind(ds.node.kind)
  /\ status # "running"

\* A step passes nothing on, and says so if it fails, or passes the data source's node
\* on, which is one deeper if it is a collection that could be descended into.
PassesOn ==
  \/ /\ passed' = passed
     /\ (ended = "no" /\ ended' = "failed") => status' \notin {"OKAY", "running"}
     /\ ended' # "failed" =>
          /\ ended # "failed" /\ ds'.node.kind = ds.node.kind
          /\ ds'.node.depth <= ds.node.depth
  \/ /\ passed' = Append(passed, PassedOn(ds')) /\ ended = "no" /\ ended' = "no"
     /\ ds'.node.depth = IF ds'.node.kind \in Collections /\ ds.node.depth < MaxDepth
                         THEN ds.node.depth + 1 ELSE ds.node.depth

LEMMA EnqueueNodeNumbers ==
  ASSUME IsSource(ds), Between(ds), NumberInv, ended = "no",
         NEW kind, IsKind(kind), NEW value, EnqueueNode(kind, value)
  PROVE  NumberInv' /\ PassesOn
<1>1. PICK d : /\ d = EnqueueDsNode(ds, kind, value)
               /\ status' = d.status
               /\ \/ /\ d.status = "NODE_PRODUCED" /\ ds' = ResetDsStatus(d)
                     /\ ended' = ended /\ passed' = Append(passed, PassedOn(d))
                  \/ /\ d.status # "NODE_PRODUCED" /\ ds' = d
                     /\ ended' = "failed" /\ passed' = passed
  BY DEF EnqueueNode
<1>2. IsSource(d) /\ (Between(d) \/ d.status = "NODE_PRODUCED")
  BY <1>1, EnqueueDepth
<1>3. /\ d.status # "OKAY"
      /\ ds.status # "OKAY" => d = ds /\ d.status # "NODE_PRODUCED"
      /\ ds.status = "OKAY" =>
           /\ d.sequence = ds.sequence + 1 /\ d.node.id = ds.sequence
           /\ d.node.kind = kind
           /\ d.node.value # NoText => kind = "string"
  BY <1>1, EnqueueNumbers
<1>4. status' # "running" /\ d.status # "OKAY"
  BY <1>1, <1>2, <1>3 DEF Between
<1>5. ds.sequence \in Nat /\ ds.sequence = Len(passed) /\ Listed(passed)
  BY DEF NumberInv
<1>6. CASE d.status = "NODE_PRODUCED"
  <2>1. PICK x : x = PassedOn(d)
    OBVIOUS
  <2>2. x.key = d.node.key /\ x.value = d.node.value
    BY <2>1 DEF PassedOn
  <2>3. passed' = Append(passed, x) /\ ended' = ended
    BY <1>1, <1>6, <2>1
  <2>4. /\ Listed(passed') /\ Len(passed) \in Nat /\ Len(passed') = Len(passed) + 1
        /\ passed'[Len(passed) + 1] = x
    BY <1>5, <2>3, ListedGrows
  <2>5. ds'.node = d.node /\ ds'.sequence = d.sequence
    BY <1>1, <1>2, <1>6 DEF ResetDsStatus, IsSource
  <2>6. /\ ds'.node.id = Len(passed) /\ ds'.sequence = Len(passed) + 1
        /\ ds'.node.value # NoText => ds'.node.kind = "string"
        /\ IsKind(ds'.node.kind)
    BY <1>3, <1>5, <1>6, <2>5
  <2>7. LastProduced'
    BY <2>2, <2>4, <2>5, <2>6 DEF LastProduced
  <2>8. NumberInv'
    BY <1>4, <2>4, <2>6, <2>7 DEF NumberInv, IsKind
  <2>9. PassedOn(ds') = x
    BY <2>1, <2>5 DEF PassedOn
  <2>10. ds'.node.depth = IF ds'.node.kind \in Collections /\ ds.node.depth < MaxDepth
                         THEN ds.node.depth + 1 ELSE ds.node.depth
    BY <1>1, <1>3, <1>6, <2>5, EnqueueDepth
  <2> QED BY <2>3, <2>8, <2>9, <2>10 DEF PassesOn
<1>7. CASE d.status # "NODE_PRODUCED"
  <2>1. ds' = d /\ ended' = "failed" /\ passed' = passed
    BY <1>1, <1>7
  <2>2. d.sequence \in Nat
    BY <1>3, <1>5
  <2>3. (d.node.value # NoText => d.node.kind = "string") /\ IsKind(d.node.kind)
    BY <1>3 DEF NumberInv
  <2>4. NumberInv'
    BY <1>4, <2>1, <2>2, <2>3 DEF NumberInv, LastProduced, IsKind
  <2> QED BY <1>1, <1>4, <2>1, <2>4 DEF PassesOn
<1> QED BY <1>6, <1>7

LEMMA HandleScalarNumbers ==
  ASSUME IsSource(ds), Between(ds), NumberInv, ended = "no", NEW text, HandleScalar(text)
  PROVE  NumberInv' /\ PassesOn
<1>1. CASE ~have_key
  <2>1. /\ ds' = StageNodeKey(ds, text) /\ status' = ds'.status
        /\ ended' = ended /\ passed' = passed
    BY <1>1 DEF HandleScalar
  <2>2. /\ ds'.node = ds.node /\ ds'.sequence = ds.sequence /\ ds'.status # "running"
        /\ ds.node.depth \in Nat
    BY <2>1 DEF StageNodeKey, IsSource, Between
  <2> QED BY <2>1, <2>2 DEF NumberInv, LastProduced, PassesOn, IsKind
<1>2. CASE have_key
  <2>1. EnqueueNode("string", text) /\ IsKind("string")
    BY <1>2 DEF HandleScalar, IsKind
  <2> QED BY <2>1, EnqueueNodeNumbers
<1> QED BY <1>1, <1>2

LEMMA NumberInductive == DepthInv /\ NumberInv /\ [Next]_vars => NumberInv' /\ PassesOn
<1> SUFFICES ASSUME DepthInv, NumberInv, [Next]_vars PROVE NumberInv' /\ PassesOn
  OBVIOUS
<1>1. IsSource(ds) /\ Between(ds)
  BY DEF DepthInv
<1>2. ASSUME NEW kind \in Collections, StartCollection(kind)
      PROVE  NumberInv' /\ PassesOn
  <2>1. ended = "no" /\ EnqueueNode(kind, <<>>) /\ IsKind(kind)
    BY <1>2 DEF StartCollection, IsRunning, IsKind
  <2> QED BY <1>1, <2>1, EnqueueNodeNumbers
<1>3. CASE EndCollection
  <2>1. /\ ended = "no" /\ ds' = DsAscend(ds) /\ status' # "running"
        /\ UNCHANGED <<ended, passed>>
    BY <1>3 DEF EndCollection, Ascended, IsRunning
  <2>2. /\ ds'.sequence = ds.sequence /\ ds'.node.id = ds.node.id
        /\ ds'.node.key = ds.node.key /\ ds'.node.value = ds.node.value
        /\ ds'.node.kind = ds.node.kind /\ ds'.node.depth <= ds.node.depth
    BY <1>1, <2>1 DEF DsAscend, IsSource
  <2> QED BY <2>1, <2>2 DEF NumberInv, LastProduced, PassesOn, IsKind
<1>4. ASSUME NEW text, HandleScalar(text), ended = "no"
      PROVE  NumberInv' /\ PassesOn
  BY <1>1, <1>4, HandleScalarNumbers
<1>5. CASE Alias \/ StreamEnd
  <2>1. /\ UNCHANGED <<ds, passed>> /\ ended = "no" /\ ended' # "failed"
        /\ status' = StatusSoFar
    BY <1>5 DEF Alias, StreamEnd, IsRunning
  <2> QED BY <1>1, <2>1
         DEF NumberInv, LastProduced, PassesOn, StatusSoFar, IsSource, IsKind
<1>6. CASE UNCHANGED vars
  BY <1>1, <1>6 DEF vars, NumberInv, LastProduced, PassesOn, IsSource, IsKind
<1> QED BY <1>2, <1>3, <1>4, <1>5, <1>6 DEF Next, KeyScalar, ValueScalar, IsRunning

LEMMA NumberInit == Init => NumberInv
<1> SUFFICES ASSUME Init PROVE NumberInv
  OBVIOUS
<1>1. PICK b : ds = NewDataSource(b)
  BY DEF Init
<1>2. ds.sequence = 0 /\ ds.node.value = NoText /\ ds.node.kind = "unset"
  BY <1>1 DEF NewDataSource, NewNode
<1>3. passed = <<>> /\ Len(passed) = 0 /\ passed \in Seq(Range(passed)) /\ status = "OKAY"
  BY EmptySeq DEF Init
<1> QED BY <1>2, <1>3 DEF NumberInv, LastProduced, Listed, IsKind

-----------------------------------------------------------------------------
(* Types: the data source keeps its own, and the histories are bounded.    *)

Kinds == Collections \cup {"string"}
Place == {"key", "value", "item"}

TypeInv ==
  /\ Typed(ds) /\ Between(ds) /\ TypeOK
  /\ Listed(written) /\ ds.sequence <= MaxNodes
  /\ Len(passed) \in Nat

LEMMA EnqueueNodeTypes ==
  ASSUME Typed(ds), Between(ds), NEW kind \in Kinds, NEW value \in Seq(Chars),
         EnqueueNode(kind, value), Listed(passed), Len(passed) <= ds.sequence
  PROVE  /\ Typed(ds') /\ Between(ds') /\ have_key' = FALSE
         /\ status' \in {"NODE_PRODUCED", "KEY_STR_TOO_LONG", "BOUNDARY_RESET"}
         /\ ended' \in {ended, "failed"}
         /\ (ds'.sequence = ds.sequence \/ ds'.sequence = ds.sequence + 1)
         /\ Len(passed') <= ds'.sequence /\ Len(passed') \in Nat
<1>1. PICK d : /\ d = EnqueueDsNode(ds, kind, value)
               /\ have_key' = FALSE /\ status' = d.status
               /\ \/ /\ d.status = "NODE_PRODUCED" /\ ds' = ResetDsStatus(d)
                     /\ ended' = ended /\ passed' = Append(passed, PassedOn(d))
                  \/ /\ d.status # "NODE_PRODUCED" /\ ds' = d
                     /\ ended' = "failed" /\ passed' = passed
  BY DEF EnqueueNode, EndsCall
<1>2. /\ Typed(d)
      /\ ds.status # "OKAY" => d = ds
      /\ ds.status = "OKAY" => /\ d.status \in {"NODE_PRODUCED", "BOUNDARY_RESET"}
                              /\ d.sequence = ds.sequence + 1
  BY <1>1, EnqueueIsTyped DEF Kinds
<1>3. ds.sequence \in Nat /\ Len(passed) \in Nat
  BY ListedGrows DEF Typed
<1>4. CASE d.status = "NODE_PRODUCED"
  <2>1. ds.status = "OKAY" /\ d.sequence = ds.sequence + 1
    BY <1>2, <1>4 DEF Between
  <2>2. Typed(ds') /\ ds'.sequence = d.sequence /\ ds'.status = "OKAY"
    BY <1>1, <1>2, <1>4, ResetIsTyped
  <2>3. Len(passed') = Len(passed) + 1
    BY <1>1, <1>4, ListedGrows
  <2>4. Len(passed') <= ds'.sequence /\ Len(passed') \in Nat
    BY <1>3, <2>1, <2>2, <2>3
  <2> QED BY <1>1, <1>4, <2>1, <2>2, <2>4 DEF Between
<1>5. CASE d.status # "NODE_PRODUCED"
  <2>1. ds' = d /\ ended' = "failed" /\ passed' = passed
    BY <1>1, <1>5
  <2>2. d.status \in {"KEY_STR_TOO_LONG", "BOUNDARY_RESET"}
    <3>1. d.status # "OKAY"
      BY <1>2
    <3> QED BY <1>2, <1>5, <3>1 DEF Typed
  <2>3. d.sequence = ds.sequence \/ d.sequence = ds.sequence + 1
    BY <1>2
  <2> QED BY <1>1, <1>2, <1>3, <2>1, <2>2, <2>3 DEF Between
<1> QED BY <1>4, <1>5

LEMMA HandleScalarTypes ==
  ASSUME Typed(ds), Between(ds), NEW text \in Seq(Chars), HandleScalar(text),
         Listed(passed), Len(passed) <= ds.sequence
  PROVE  /\ Typed(ds') /\ Between(ds') /\ have_key' \in BOOLEAN
         /\ status' \in {"OKAY", "NODE_PRODUCED", "KEY_STR_TOO_LONG", "BOUNDARY_RESET"}
         /\ ended' \in {ended, "failed"}
         /\ (ds'.sequence = ds.sequence \/ ds'.sequence = ds.sequence + 1)
         /\ Len(passed') <= ds'.sequence /\ Len(passed') \in Nat
<1>1. CASE have_key
  <2>1. EnqueueNode("string", text) /\ "string" \in Kinds
    BY <1>1 DEF HandleScalar, Kinds
  <2> QED BY <2>1, EnqueueNodeTypes
<1>2. CASE ~have_key
  <2>1. PICK a : a = StageNodeKey(ds, text)
    OBVIOUS
  <2>2. /\ ds' = a /\ status' = a.status /\ have_key' = TRUE
        /\ ended' = ended /\ passed' = passed
    BY <1>2, <2>1 DEF HandleScalar
  <2>3. /\ Typed(a) /\ a.sequence = ds.sequence
        /\ ds.status # "OKAY" => a = ds
        /\ ds.status = "OKAY" => a.status \in {"OKAY", "KEY_STR_TOO_LONG"}
    BY <2>1, StagedIsTyped
  <2>4. Between(a)
    BY <2>3 DEF Between
  <2>5. Len(passed) \in Nat
    BY ListedGrows
  <2> QED BY <2>2, <2>3, <2>4, <2>5 DEF Between
<1> QED BY <1>1, <1>2

LEMMA TypeInductive == DepthInv /\ NumberInv /\ TypeInv /\ [Next]_vars => TypeInv'
<1> SUFFICES ASSUME DepthInv, NumberInv, TypeInv, [Next]_vars PROVE TypeInv'
  OBVIOUS
<1>1. /\ Typed(ds) /\ Between(ds) /\ Listed(written) /\ Listed(passed)
      /\ ds.sequence \in Nat /\ ds.sequence <= MaxNodes /\ Len(passed) \in Nat
      /\ Len(written) \in Nat /\ Len(written) <= MaxNodes /\ Len(passed) <= ds.sequence
      /\ MaxNodes \in Nat
  BY ListedGrows, DocumentAssumption DEF TypeInv, TypeOK, Typed, NumberInv
<1>2. /\ have_key \in BOOLEAN /\ ended \in {"no", "done", "failed"}
      /\ status \in {"OKAY", "NODE_PRODUCED", "KEY_STR_TOO_LONG", "BOUNDARY_RESET",
                     "NODES_TOO_SHALLOW"}
      /\ seen \subseteq Oddities
  BY DEF TypeInv, TypeOK
<1>3. places' \in Seq(Place)
  BY DepthInductive DEF DepthInv, Place
<1>4. ASSUME NEW x, written' = Append(written, x), MayHoldNode
      PROVE  Listed(written') /\ Len(written') <= MaxNodes
  <2>1. Listed(written') /\ Len(written') = Len(written) + 1
    BY <1>1, <1>4, ListedGrows
  <2> QED BY <1>1, <1>4, <2>1 DEF MayHoldNode
<1>5. ASSUME NEW kind \in Collections, StartCollection(kind) PROVE TypeInv'
  <2>1. /\ EnqueueNode(kind, <<>>) /\ kind \in Kinds /\ <<>> \in Seq(Chars)
        /\ MayHoldNode
        /\ seen' \subseteq Oddities
    BY <1>2, <1>5, EmptySeq DEF StartCollection, Kinds, RoomLacks, Oddities
  <2>2. /\ Typed(ds') /\ Between(ds') /\ have_key' = FALSE
        /\ status' \in {"NODE_PRODUCED", "KEY_STR_TOO_LONG", "BOUNDARY_RESET"}
        /\ ended' \in {ended, "failed"}
        /\ (ds'.sequence = ds.sequence \/ ds'.sequence = ds.sequence + 1)
        /\ Len(passed') <= ds'.sequence /\ Len(passed') \in Nat
    BY <1>1, <2>1, EnqueueNodeTypes
  <2>3. ds'.sequence <= MaxNodes
    <3>1. ds.sequence < MaxNodes
      BY <2>1 DEF MayHoldNode
    <3> QED BY <1>1, <2>2, <3>1
  <2>4. Listed(written') /\ Len(written') <= MaxNodes
    BY <1>4, <1>5 DEF StartCollection
  <2>5. DataSourceType(ds')
    BY <2>2, TypedIsType
  <2> QED BY <1>2, <1>3, <2>1, <2>2, <2>3, <2>4, <2>5 DEF TypeInv, TypeOK, Place
<1>6. ASSUME EndCollection PROVE TypeInv'
  <2>1. PICK a : a = DsAscend(ds)
    OBVIOUS
  <2>2. /\ ds' = a /\ status' \in {"NODES_TOO_SHALLOW", "OKAY"}
        /\ UNCHANGED <<have_key, ended, written, passed, seen>>
    BY <1>6, <2>1 DEF EndCollection, Ascended
  <2>3. Typed(a) /\ a.sequence = ds.sequence /\ a.status = ds.status
    BY <1>1, <2>1, AscendedIsTyped
  <2>4. DataSourceType(a) /\ Between(a)
    BY <1>1, <2>3, TypedIsType DEF Between
  <2> QED BY <1>1, <1>2, <1>3, <2>2, <2>3, <2>4 DEF TypeInv, TypeOK, Place
<1>7. ASSUME NEW text \in Seq(Chars), HandleScalar(text), ds.sequence < MaxNodes,
             Listed(written') /\ Len(written') <= MaxNodes,
             seen' \subseteq Oddities
      PROVE  TypeInv'
  <2>1. /\ Typed(ds') /\ Between(ds') /\ have_key' \in BOOLEAN
        /\ status' \in {"OKAY", "NODE_PRODUCED", "KEY_STR_TOO_LONG", "BOUNDARY_RESET"}
        /\ ended' \in {ended, "failed"}
        /\ (ds'.sequence = ds.sequence \/ ds'.sequence = ds.sequence + 1)
        /\ Len(passed') <= ds'.sequence /\ Len(passed') \in Nat
    BY <1>1, <1>7, HandleScalarTypes
  <2>2. DataSourceType(ds')
    BY <2>1, TypedIsType
  <2>3. ds'.sequence <= MaxNodes
    <3>1. ds.sequence \in Nat /\ MaxNodes \in Nat /\ ds.sequence < MaxNodes
      BY <1>1, <1>7
    <3>2. ds'.sequence = ds.sequence \/ ds'.sequence = ds.sequence + 1
      BY <2>1
    <3> QED BY <3>1, <3>2
  <2> QED BY <1>2, <1>3, <1>7, <2>1, <2>2, <2>3 DEF TypeInv, TypeOK, Place
<1>8. ASSUME NEW text \in Keys, KeyScalar(text) PROVE TypeInv'
  <2>1. text \in Seq(Chars)
    BY DocumentAssumption
  <2>2. /\ HandleScalar(text) /\ ds.sequence < MaxNodes /\ written' = written
        /\ seen' \subseteq Oddities
    BY <1>2, <1>8 DEF KeyScalar, Oddities
  <2> QED BY <1>1, <1>7, <2>1, <2>2
<1>9. ASSUME NEW text \in Values, ValueScalar(text) PROVE TypeInv'
  <2>1. text \in Seq(Chars)
    BY DocumentAssumption
  <2>2. /\ HandleScalar(text) /\ ds.sequence < MaxNodes /\ MayHoldNode
        /\ written' = Append(written, Named("string", text))
        /\ seen' \subseteq Oddities
    BY <1>2, <1>9 DEF ValueScalar, MayHoldNode, RoomLacks, Oddities
  <2>3. Listed(written') /\ Len(written') <= MaxNodes
    BY <1>4, <2>2
  <2> QED BY <1>7, <2>1, <2>2, <2>3
<1>10. ASSUME Alias \/ StreamEnd PROVE TypeInv'
  <2>1. /\ UNCHANGED <<ds, written, passed>> /\ have_key' \in {have_key, FALSE}
        /\ ended' \in {ended, "done"} /\ status' \in {status, "OKAY"}
        /\ seen' \in {seen, seen \cup {"alias"}}
    BY <1>10 DEF Alias, StreamEnd, EndsCall, StatusSoFar
  <2>2. DataSourceType(ds)
    BY <1>1, TypedIsType
  <2> QED BY <1>1, <1>2, <1>3, <2>1, <2>2 DEF TypeInv, TypeOK, Place, Between, Oddities
<1>11. CASE UNCHANGED vars
  BY <1>11 DEF vars, TypeInv, TypeOK, Between
<1> QED BY <1>5, <1>6, <1>8, <1>9, <1>10, <1>11 DEF Next

LEMMA TypeInit == Init => TypeInv
<1> SUFFICES ASSUME Init PROVE TypeInv
  OBVIOUS
<1>1. PICK size \in Sizes : \E b \in Opened(size) : ds = NewDataSource(b)
  BY DEF Init
<1>2. PICK b \in Opened(size) : ds = NewDataSource(b)
  BY <1>1
<1>3. Typed(ds) /\ ds.status = "OKAY" /\ ds.sequence = 0
  BY <1>2, NewIsTyped
<1>4. /\ written = <<>> /\ passed = <<>> /\ Len(written) = 0 /\ Len(passed) = 0
      /\ places \in Seq({"key", "value", "item"}) /\ written \in Seq(Range(written))
  BY EmptySeq DEF Init
<1>5. DataSourceType(ds) /\ Between(ds) /\ MaxNodes \in Nat /\ Listed(written)
  BY <1>3, <1>4, TypedIsType, DocumentAssumption DEF Between, Listed
<1>6. have_key = FALSE /\ status = "OKAY" /\ ended = "no" /\ seen = {}
  BY DEF Init
<1>7. /\ Len(written) <= MaxNodes /\ Len(passed) <= ds.sequence /\ Len(passed) \in Nat
      /\ ds.sequence <= MaxNodes
  BY <1>3, <1>4, <1>5
<1>8. TypeOK
  BY <1>4, <1>5, <1>6, <1>7 DEF TypeOK
<1> QED BY <1>3, <1>5, <1>7, <1>8 DEF TypeInv

\* The driver and its data source keep their types, and the histories their bounds.
THEOREM DriverTypes == Spec => []TypeOK
<1>1. TypeInv => TypeOK
  BY DEF TypeInv
<1> QED BY <1>1, DepthInit, DepthInductive, NumberInit, NumberInductive, TypeInit,
           TypeInductive, PTL DEF Spec

-----------------------------------------------------------------------------
(* The nodes passed on are those of the stream.                            *)

\* Before a value its key is staged, or was too long; elsewhere nothing is staged.
StagedInv ==
  IF IsAt("value")
  THEN /\ have_key
       /\ \/ ds.status = "KEY_STR_TOO_LONG"
          \/ /\ ds.status = "OKAY" /\ ds.key_staging # <<>> /\ key = ds.key_staging
             /\ Len(Encoded(ds.key_staging)) < KeyMax
  ELSE ~have_key /\ ds.status = "OKAY" /\ ds.key_staging = <<>> /\ key = NoText

PassInv ==
  seen = {} =>
    /\ AsWritten
    /\ ended = "no" => passed = written /\ ds.boundary.chars = <<>> /\ StagedInv

\* An encoded text is no shorter than the text.
LEMMA EncodedIsLonger ==
  ASSUME NEW t \in Seq(Chars)
  PROVE  Len(t) <= Len(Encoded(t)) /\ Len(t) \in Nat /\ Len(Encoded(t)) \in Nat
<1>1. Encoded(t) \in Seq(Coded) /\ Converted(Encoded(t)) = t
  BY EncodedIs, ConvertedEncoded
<1>2. Len(Converted(Encoded(t))) <= Len(Encoded(t))
  BY <1>1, ConvertedShrinks
<1> QED BY <1>1, <1>2, LenProperties

\* A node whose key was staged, if it has one, and whose texts find room is passed on
\* with both of them, or the call fails.
LEMMA EnqueueNodePasses ==
  ASSUME Typed(ds), ds.status = "OKAY", ds.boundary.chars = <<>>,
         NEW kind \in Kinds, NEW value \in Values \cup {<<>>},
         kind # "string" => value = <<>>,
         ~IsRefused(ds, kind, value),
         ds.key_staging # <<>> \/ kind # "string",
         EnqueueNode(kind, value)
  PROVE  \/ ended' = "failed" /\ passed' = passed
         \/ /\ ds'.status = "OKAY" /\ ds'.boundary.chars = <<>> /\ ds'.key_staging = <<>>
            /\ have_key' = FALSE /\ ended' = ended
            /\ passed' = Append(passed,
                 [kind |-> kind, depth |-> ds'.node.depth,
                  key |-> IF ds.key_staging = <<>> THEN NoText ELSE ds.key_staging,
                  value |-> Given(value)])
<1>1. PICK d : /\ d = EnqueueDsNode(ds, kind, value)
               /\ have_key' = FALSE
               /\ d.status = "NODE_PRODUCED" =>
                    /\ ds' = ResetDsStatus(d) /\ ended' = ended
                    /\ passed' = Append(passed, PassedOn(d))
               /\ d.status # "NODE_PRODUCED" => ended' = "failed" /\ passed' = passed
  BY DEF EnqueueNode, EndsCall
<1>2. value \in Seq(Chars) /\ kind \in Collections \cup {"string"}
  BY DocumentAssumption, EmptySeq DEF Kinds
<1>3. PICK s : s = ds
  OBVIOUS
<1>4. s.key_staging \in Seq(Chars) /\ IsBoundary(s.boundary) /\ Typed(s)
  BY <1>3 DEF Typed
<1>5. s.key_staging # <<>> =>
        Accepts(s.boundary, s.key_staging, kind, value)
  BY <1>3, <1>4, NotRefused
<1>6. d = EnqueueDsNode(s, kind, value) /\ s.status = "OKAY" /\ s.boundary.chars = <<>>
  BY <1>1, <1>3
<1>7. s.key_staging # <<>> \/ kind # "string"
  BY <1>3
<1>8. /\ Typed(d) /\ d.key_staging = <<>> /\ d.node.kind = kind
      /\ s.boundary.chars = <<>> /\ (s.key_staging # <<>> \/ kind # "string") =>
           d.boundary.chars = <<>>
  <2>1. /\ Typed(d)
        /\ s.status # "OKAY" => d = s
        /\ s.status = "OKAY" =>
             /\ d.status \in {"NODE_PRODUCED", "BOUNDARY_RESET"}
             /\ d.key_staging = <<>> /\ d.sequence = s.sequence + 1
             /\ d.node.id = s.sequence /\ d.node.kind = kind
             /\ s.boundary.chars = <<>> /\ (s.key_staging # <<>> \/ kind # "string") =>
                  d.boundary.chars = <<>>
    <3>1. Typed(s) /\ kind \in Collections \cup {"string"} /\ value \in Seq(Chars)
      BY <1>2, <1>4
    <3>2. d = EnqueueDsNode(s, kind, value)
      BY <1>6
    <3> QED BY ONLY <3>1, <3>2, EnqueueIsTyped, SMTT(60)
  <2>2. s.status = "OKAY"
    BY <1>6
  <2> QED BY <2>1, <2>2
<1>9. /\ d.status = "NODE_PRODUCED" =>
           /\ d.node.key = IF s.key_staging = <<>> THEN NoText ELSE s.key_staging
           /\ d.node.value = IF value = <<>> THEN NoText ELSE value
  <2>1. s.key_staging # <<>> => Accepts(s.boundary, s.key_staging, kind, value)
    BY <1>5
  <2>2. kind # "string" => value = <<>>
    OBVIOUS
  <2>3. /\ Typed(s) /\ s.status = "OKAY" /\ s.boundary.chars = <<>>
        /\ kind \in Collections \cup {"string"} /\ value \in Seq(Chars)
        /\ d = EnqueueDsNode(s, kind, value)
    BY <1>2, <1>4, <1>6
  <2> QED BY ONLY <1>7, <2>1, <2>2, <2>3, EnqueueGives
<1>10. CASE d.status # "NODE_PRODUCED"
  BY <1>1, <1>10
<1>11. CASE d.status = "NODE_PRODUCED"
 <2>1. ds' = ResetDsStatus(d)
   BY <1>1, <1>11
 <2>2. /\ ds'.status = "OKAY" /\ ds'.boundary = d.boundary /\ ds'.node = d.node
       /\ ds'.key_staging = d.key_staging
   BY <1>8, <2>1, ResetIsTyped
 <2>3. PassedOn(d) =
         [kind |-> kind, depth |-> ds'.node.depth,
          key |-> IF ds.key_staging = <<>> THEN NoText ELSE ds.key_staging,
          value |-> Given(value)]
   BY <1>3, <1>8, <1>9, <1>11, <2>2 DEF PassedOn, Given
 <2> QED BY <1>1, <1>6, <1>7, <1>8, <1>11, <2>2, <2>3
<1> QED BY <1>10, <1>11

LEMMA PrefixGrows ==
  ASSUME NEW s, Listed(s), NEW x
  PROVE  IsPrefix(s, s) /\ IsPrefix(s, Append(s, x))
<1>1. PICK t : t = Append(s, x)
  OBVIOUS
<1>2. Len(s) \in Nat /\ Len(t) = Len(s) + 1 /\ SubSeq(t, 1, Len(s)) = s
  BY <1>1, ListedGrows
<1>3. SubSeq(s, 1, Len(s)) = s
  <2>1. s \in Seq(Range(s))
    BY DEF Listed
  <2> QED BY <2>1, SubSeqFull
<1> QED BY <1>1, <1>2, <1>3 DEF IsPrefix

\* Where a stream goes on: at a value after a key, and nowhere else.
LEMMA LastAppended ==
  ASSUME NEW S, NEW s \in Seq(S), NEW x \in S
  PROVE  Append(s, x) # <<>> /\ Last(Append(s, x)) = x
<1>1. Append(s, x) \in Seq(S) /\ Len(Append(s, x)) = Len(s) + 1 /\ Len(s) \in Nat
      /\ Append(s, x)[Len(s) + 1] = x
  BY AppendProperties, LenProperties
<1> QED BY <1>1, EmptySeq DEF Last

LEMMA NotAtValue ==
  ASSUME NEW at \in Seq(Place)
  PROVE  AfterValue(at) = <<>> \/ Last(AfterValue(at)) # "value"
<1>1. CASE at # <<>> /\ Last(at) = "value"
  <2>1. Front(at) \in Seq(Place) /\ "key" \in Place
    BY <1>1, FrontShape DEF Place
  <2>2. Last(Append(Front(at), "key")) = "key"
    BY <2>1, LastAppended
  <2> QED BY <1>1, <2>2 DEF AfterValue
<1>2. CASE ~(at # <<>> /\ Last(at) = "value")
  BY <1>2 DEF AfterValue
<1> QED BY <1>1, <1>2

\* A node that is passed on as the next of the stream, or refused, keeps PassInv.
LEMMA NodePasses ==
  ASSUME TypeInv, PassInv, seen = {}, ended = "no",
         NEW kind \in Kinds, NEW value \in Values \cup {<<>>},
         kind # "string" => value = <<>>,
         kind = "string" => IsAt("value"),
         RoomLacks(kind, value) = {},
         EnqueueNode(kind, value), written' = Append(written, Named(kind, value)),
         key' = NoText, ~IsAt("value")',
         ended' # "failed" => ds'.node.depth = Named(kind, value).depth
  PROVE  PassInv'
<1>1. /\ passed = written /\ ds.boundary.chars = <<>> /\ StagedInv
      /\ Typed(ds) /\ Listed(written)
  BY DEF PassInv, TypeInv
<1>2. IsPrefix(written, written) /\ IsPrefix(written, Append(written, Named(kind, value)))
  BY <1>1, PrefixGrows
<1>3. CASE ds.status = "OKAY"
  <2>1. /\ key = IF ds.key_staging = <<>> THEN NoText ELSE ds.key_staging
        /\ ~IsRefused(ds, kind, value)
        /\ ds.key_staging # <<>> \/ kind # "string"
    BY <1>1, <1>3 DEF StagedInv, RoomLacks
  <2>2. PICK x : x = [kind |-> kind, depth |-> ds'.node.depth,
                      key |-> IF ds.key_staging = <<>> THEN NoText ELSE ds.key_staging,
                      value |-> Given(value)]
    OBVIOUS
  <2>fail. CASE ended' = "failed" /\ passed' = passed
    BY <1>1, <1>2, <2>fail DEF PassInv, AsWritten
  <2>go. CASE ~(ended' = "failed" /\ passed' = passed)
   <3>3. /\ ds'.status = "OKAY" /\ ds'.boundary.chars = <<>> /\ ds'.key_staging = <<>>
         /\ have_key' = FALSE /\ ended' = ended /\ passed' = Append(passed, x)
     BY <1>1, <1>3, <2>1, <2>2, <2>go, EnqueueNodePasses
   <3>4. x = Named(kind, value)
     <4>1. ds'.node.depth = Named(kind, value).depth
       BY <3>3
     <4> QED BY <2>1, <2>2, <4>1 DEF Named
   <3>5. passed' = written'
     BY <1>1, <3>3, <3>4
   <3>6. Listed(written') /\ IsPrefix(written', written')
     <4>1. PICK w : w = Append(written, x)
       OBVIOUS
     <4>2. Listed(w)
       BY <1>1, <4>1, ListedGrows
     <4>3. IsPrefix(w, w)
       BY <4>2, PrefixGrows
     <4> QED BY <3>4, <4>1, <4>2, <4>3
   <3>7. StagedInv'
     BY <3>3 DEF StagedInv
   <3> QED BY <3>3, <3>5, <3>6, <3>7 DEF PassInv, AsWritten
  <2> QED BY <2>fail, <2>go
<1>4. CASE ds.status # "OKAY"
  <2>1. PICK d : /\ d = EnqueueDsNode(ds, kind, value)
                 /\ d.status # "NODE_PRODUCED" => ended' = "failed" /\ passed' = passed
    BY DEF EnqueueNode
  <2>2. d = ds /\ Between(ds)
    BY <1>4, <2>1 DEF EnqueueDsNode, TypeInv
  <2>3. ended' = "failed" /\ passed' = passed
    BY <2>1, <2>2 DEF Between
  <2> QED BY <1>1, <1>2, <2>3 DEF PassInv, AsWritten
<1> QED BY <1>3, <1>4

LEMMA PassInductive ==
  DepthInv /\ TypeInv /\ TypeInv' /\ PassInv /\ [Next]_vars => PassInv'
<1> SUFFICES ASSUME DepthInv, TypeInv, TypeInv', PassInv, [Next]_vars PROVE PassInv'
  OBVIOUS
<1>1. /\ places \in Seq(Place) /\ Len(places) \in Nat /\ DepthInv'
      /\ Typed(ds)
  BY DepthInductive, LenProperties DEF DepthInv, Place, TypeInv
<1>2. (ended' # "failed" /\ "too deep" \notin seen') => ds'.node.depth = Len(places')
  BY <1>1 DEF DepthInv, DepthFollowsDocument
<1>3. CASE UNCHANGED vars
  BY <1>3 DEF vars, PassInv, AsWritten, StagedInv, IsAt
<1>4. ASSUME Next, seen' = {}, seen = {}, ended = "no" PROVE PassInv'
  <2>1. /\ passed = written /\ ds.boundary.chars = <<>> /\ StagedInv
        /\ IsPrefix(passed, written)
    BY <1>4 DEF PassInv, AsWritten
  <2>2. ASSUME NEW kind \in Collections, StartCollection(kind) PROVE PassInv'
    <3>1. /\ EnqueueNode(kind, <<>>) /\ written' = Append(written, Named(kind, <<>>))
          /\ key' = NoText
      BY <2>2 DEF StartCollection
    <3>2. kind \in Kinds /\ kind # "string"
      BY DEF Kinds, Collections
    <3>3. PICK place \in {"key", "item"} : places' = Append(places, place)
      BY <2>2 DEF StartCollection
    <3>4. /\ Last(places') = place /\ Len(places') = Len(places) + 1
      <4>1. place \in Place
        BY DEF Place
      <4> QED BY <1>1, <3>3, <4>1, LastAppended, AppendProperties
    <3>5. ~IsAt("value")'
      BY <3>3, <3>4 DEF IsAt
    <3>6. ended' # "failed" => ds'.node.depth = Named(kind, <<>>).depth
      BY <1>2, <1>4, <3>4 DEF Named
    <3>7. RoomLacks(kind, <<>>) = {}
      BY <1>4, <2>2 DEF StartCollection
    <3> QED BY <1>4, <3>1, <3>2, <3>5, <3>6, <3>7, NodePasses
  <2>3. CASE EndCollection
    <3>1. /\ ~IsAt("value") /\ ds' = DsAscend(ds) /\ places # <<>>
          /\ places' = AfterValue(Front(places))
          /\ UNCHANGED <<have_key, ended, key, written, passed, seen>>
      BY <2>3 DEF EndCollection, Ascended
    <3>2. /\ ds'.status = ds.status /\ ds'.boundary = ds.boundary
          /\ ds'.key_staging = ds.key_staging
      BY <1>1, <3>1 DEF DsAscend, Typed
    <3>3. ~IsAt("value")'
      <4>1. Front(places) \in Seq(Place)
        BY <1>1, <3>1, FrontShape
      <4> QED BY <3>1, <4>1, NotAtValue DEF IsAt
    <3>4. StagedInv'
      BY <2>1, <3>1, <3>2, <3>3 DEF StagedInv
    <3> QED BY <1>4, <2>1, <3>1, <3>2, <3>4 DEF PassInv, AsWritten
  <2>4. ASSUME NEW text \in Keys, KeyScalar(text) PROVE PassInv'
    <3>1. /\ IsAt("key") /\ HandleScalar(text) /\ text # <<>>
          /\ places' = Append(Front(places), "value") /\ key' = text
          /\ written' = written
      <4>1. text # <<>>
        BY <1>4, <2>4 DEF KeyScalar
      <4> QED BY <2>4, <4>1 DEF KeyScalar, Given
    <3>2. ~IsAt("value")
      BY <3>1 DEF IsAt
    <3>3. ~have_key /\ ds.status = "OKAY"
      BY <2>1, <3>2 DEF StagedInv
    <3>4. /\ ds' = StageNodeKey(ds, text) /\ have_key' = TRUE
          /\ UNCHANGED <<ended, passed>>
      BY <3>1, <3>3 DEF HandleScalar
    <3>5. /\ ds'.key_staging = text /\ ds'.boundary = ds.boundary
          /\ \/ ds'.status = "KEY_STR_TOO_LONG"
             \/ ds'.status = "OKAY" /\ ~IsTooLong(text)
      BY <1>1, <3>3, <3>4 DEF StageNodeKey, Typed
    <3>6. ~IsTooLong(text) => Len(Encoded(text)) < KeyMax
      <4>1. text \in Seq(Chars)
        BY DocumentAssumption
      <4>2. Len(Encoded(text)) \in Nat /\ KeyMax \in Nat
        BY <4>1, EncodedIsLonger, DataSourceAssumption
      <4> QED BY <4>2 DEF IsTooLong
    <3>7. IsAt("value")'
      <4>1. Front(places) \in Seq(Place) /\ "value" \in Place
        BY <1>1, <3>1, FrontShape DEF IsAt, Place
      <4> QED BY <3>1, <4>1, LastAppended DEF IsAt
    <3>8. StagedInv'
      BY <3>1, <3>4, <3>5, <3>6, <3>7 DEF StagedInv
    <3> QED BY <1>4, <2>1, <3>1, <3>4, <3>5, <3>8 DEF PassInv, AsWritten
  <2>5. ASSUME NEW text \in Values, ValueScalar(text) PROVE PassInv'
    <3>1. /\ HandleScalar(text) /\ written' = Append(written, Named("string", text))
          /\ places' = AfterValue(places) /\ key' = NoText
      BY <2>5 DEF ValueScalar
    <3>2. IsAt("value")
      BY <1>4, <2>5 DEF ValueScalar
    <3>3. EnqueueNode("string", text)
      BY <2>1, <3>1, <3>2 DEF HandleScalar, StagedInv
    <3>4. ~IsAt("value")'
      BY <1>1, <3>1, NotAtValue DEF IsAt
    <3>5. ended' # "failed" => ds'.node.depth = Named("string", text).depth
      <4>1. Len(places') = Len(places)
        BY <1>1, <3>1, AfterValueKeeps DEF Place
      <4>2. "string" \notin Collections
        BY DEF Collections
      <4>3. Named("string", text).depth = Len(places)
        BY <1>1, <4>2 DEF Named
      <4> QED BY <1>2, <1>4, <4>1, <4>3
    <3>6. "string" \in Kinds
      BY DEF Kinds
    <3>7. RoomLacks("string", text) = {}
      BY <1>4, <2>1, <2>5, <3>2 DEF ValueScalar, StagedInv
    <3> QED BY <1>4, <3>1, <3>2, <3>3, <3>4, <3>5, <3>6, <3>7, NodePasses
  <2>6. ~Alias
    BY <1>4 DEF Alias
  <2>7. CASE StreamEnd
    BY <1>4, <2>1, <2>7 DEF StreamEnd, PassInv, AsWritten
  <2> QED BY <1>4, <2>2, <2>3, <2>4, <2>5, <2>6, <2>7 DEF Next
<1>5. ASSUME Next PROVE ended = "no" /\ seen \subseteq seen'
  BY <1>5 DEF Next, StartCollection, EndCollection, KeyScalar, ValueScalar, Alias, StreamEnd,
              IsRunning
<1>6. ASSUME Next PROVE PassInv'
  <2>1. CASE seen' = {}
    <3>1. seen = {}
      BY <1>5, <1>6, <2>1
    <3> QED BY <1>4, <1>5, <1>6, <2>1, <3>1
  <2> QED BY <2>1 DEF PassInv
<1> QED BY <1>3, <1>6

LEMMA PassInit == Init => PassInv
<1> SUFFICES ASSUME Init PROVE PassInv
  OBVIOUS
<1>1. PICK size \in Sizes : \E b \in Opened(size) : ds = NewDataSource(b)
  BY DEF Init
<1>2. PICK b \in Opened(size) : ds = NewDataSource(b)
  BY <1>1
<1>3. ds.status = "OKAY" /\ ds.key_staging = <<>> /\ ds.boundary.chars = <<>>
  BY <1>2 DEF NewDataSource, Opened
<1>4. /\ written = <<>> /\ passed = written /\ places = <<>> /\ have_key = FALSE
      /\ key = NoText /\ ended = "no"
  BY DEF Init
<1>5. StagedInv
  BY <1>3, <1>4 DEF StagedInv, IsAt
<1>6. IsPrefix(written, written)
  <2>1. Listed(written)
    BY <1>4, EmptySeq DEF Listed
  <2> QED BY <2>1, PrefixGrows
<1> QED BY <1>3, <1>4, <1>5, <1>6 DEF PassInv, AsWritten

\* As long as the stream has no alias, no scalar in a sequence, no empty key, no
\* collection that is too deep and no text that finds no room, the nodes passed on are
\* those of the stream, in order, each with its own key, value and depth, and all of them
\* once the driver is done.  Nothing is assumed of the lengths of the values, nor of the
\* keys but KeyMax.
THEOREM PassesAsWritten == Spec => []PassedAsWritten
<1>1. PassInv => PassedAsWritten
  BY DEF PassInv, PassedAsWritten
<1> QED BY <1>1, DepthInit, DepthInductive, NumberInit, NumberInductive, TypeInit,
           TypeInductive, PassInit, PassInductive, PTL DEF Spec


\* A node is at most as deep as the one before it, or one deeper if it is a collection.
IsCollection(n) == n.kind \in Collections
DepthBefore(s, k) == IF k = 1 THEN 0 ELSE s[k - 1].depth
StepsDown(s, k) ==
  /\ s[k].depth \in Nat
  /\ IsCollection(s[k]) => s[k].depth >= 1 /\ s[k].depth <= DepthBefore(s, k) + 1
  /\ ~IsCollection(s[k]) => s[k].depth <= DepthBefore(s, k)

PathInv ==
  /\ \A k \in 1 .. Len(passed) : StepsDown(passed, k)
  /\ ended # "failed" => ds.node.depth <= DepthBefore(passed, Len(passed) + 1)
  /\ (ended # "failed" /\ passed # <<>>) => ds.node.kind = passed[Len(passed)].kind

LEMMA PathInductive == DepthInv /\ NumberInv /\ PathInv /\ [Next]_vars => PathInv'
<1> SUFFICES ASSUME DepthInv, NumberInv, PathInv, [Next]_vars PROVE PathInv'
  OBVIOUS
<1>1. DepthInv' /\ PassesOn /\ Listed(passed) /\ Len(passed) \in Nat
  BY DepthInductive, NumberInductive DEF NumberInv
<1>2. /\ ds.node.depth \in Nat /\ ds'.node.depth \in Nat /\ MaxDepth \in Nat \ {0}
  BY <1>1, DataSourceAssumption DEF DepthInv, IsSource
<1>3. DepthBefore(passed, Len(passed) + 1) \in Nat
  <2>1. CASE Len(passed) = 0
    BY <2>1 DEF DepthBefore
  <2>2. CASE Len(passed) # 0
    <3>1. Len(passed) \in 1 .. Len(passed) /\ (Len(passed) + 1) - 1 = Len(passed)
      BY <1>1, <2>2
    <3>2. passed[Len(passed)].depth \in Nat
      BY <3>1 DEF PathInv, StepsDown
    <3> QED BY <1>1, <2>2, <3>1, <3>2 DEF DepthBefore
  <2> QED BY <2>1, <2>2
<1>4. CASE /\ passed' = passed
           /\ ended' # "failed" =>
                /\ ended # "failed" /\ ds'.node.kind = ds.node.kind
                /\ ds'.node.depth <= ds.node.depth
  <2>1. ended' # "failed" => ds'.node.depth <= DepthBefore(passed, Len(passed) + 1)
    BY <1>2, <1>3, <1>4 DEF PathInv
  <2> QED BY <1>4, <2>1 DEF PathInv, DepthBefore, StepsDown, IsCollection
<1>5. CASE /\ passed' = Append(passed, PassedOn(ds')) /\ ended = "no" /\ ended' = "no"
           /\ ds'.node.depth = IF ds'.node.kind \in Collections /\ ds.node.depth < MaxDepth
                               THEN ds.node.depth + 1 ELSE ds.node.depth
  <2>1. PICK x : x = PassedOn(ds')
    OBVIOUS
  <2>2. x.depth = ds'.node.depth /\ x.kind = ds'.node.kind
    BY <2>1 DEF PassedOn
  <2>3. passed' = Append(passed, x)
    BY <1>5, <2>1
  <2>4. PICK m \in Nat : m = Len(passed)
    BY <1>1
  <2>5. Len(passed') = m + 1 /\ passed' # <<>>
    BY <1>1, <2>3, <2>4, ListedGrows
  <2>6. \A k \in 1 .. m : passed'[k] = passed[k]
    BY <1>1, <2>3, <2>4, ListedGrows
  <2>7. passed'[m + 1] = x
    BY <1>1, <2>3, <2>4, ListedGrows
  <2>8. PICK t : t = passed'
    OBVIOUS
  <2>9. \A k \in 1 .. m : StepsDown(t, k)
    <3> SUFFICES ASSUME NEW k \in 1 .. m PROVE StepsDown(t, k)
      OBVIOUS
    <3>1. t[k] = passed[k] /\ (k # 1 => t[k - 1] = passed[k - 1])
      BY <2>4, <2>6, <2>8
    <3>2. StepsDown(passed, k)
      BY <2>4 DEF PathInv
    <3> QED BY <3>1, <3>2 DEF StepsDown, DepthBefore, IsCollection
  <2>10. DepthBefore(t, m + 1) = DepthBefore(passed, m + 1) /\ DepthBefore(t, m + 2) = x.depth
    <3>1. m # 0 => t[(m + 1) - 1] = passed[(m + 1) - 1]
      BY <2>4, <2>6, <2>8
    <3>2. m + 2 # 1 /\ (m + 2) - 1 = m + 1
      BY <2>4
    <3> QED BY <2>4, <2>7, <2>8, <3>1, <3>2 DEF DepthBefore
  <2> QED
    <3>1. ds.node.depth <= DepthBefore(t, m + 1)
      BY <1>5, <2>4, <2>10 DEF PathInv
    <3>2. /\ x.kind \in Collections =>
                x.depth >= 1 \/ (x.depth = ds.node.depth /\ ds.node.depth >= MaxDepth)
          /\ x.kind \in Collections => x.depth <= ds.node.depth + 1
          /\ x.kind \notin Collections => x.depth = ds.node.depth
      BY <1>2, <1>5, <2>2
    <3>3. StepsDown(t, m + 1)
      BY <1>2, <1>3, <2>2, <2>4, <2>7, <2>8, <2>10, <3>1, <3>2
         DEF StepsDown, IsCollection
    <3>4. \A k \in 1 .. m + 1 : StepsDown(t, k)
      BY <2>4, <2>9, <3>3
    <3>5. (m + 1) + 1 = m + 2
      BY <2>4
    <3>6. ds'.node.depth <= DepthBefore(t, (m + 1) + 1) /\ ds'.node.kind = t[m + 1].kind
      BY <1>2, <2>2, <2>7, <2>8, <2>10, <3>5
    <3>7. \A k \in 1 .. m + 1 : StepsDown(passed, k)'
      BY <2>8, <3>4 DEF StepsDown, DepthBefore, IsCollection
    <3>8. DepthBefore(passed, (m + 1) + 1)' = DepthBefore(t, (m + 1) + 1)
      BY <2>8 DEF DepthBefore
    <3> QED BY <2>5, <2>8, <3>6, <3>7, <3>8 DEF PathInv
<1> QED BY <1>1, <1>4, <1>5 DEF PassesOn

LEMMA PathInit == Init => PathInv
<1> SUFFICES ASSUME Init PROVE PathInv
  OBVIOUS
<1>1. PICK b : ds = NewDataSource(b)
  BY DEF Init
<1>2. ds.node.depth = 0
  BY <1>1 DEF NewDataSource, NewNode
<1>3. passed = <<>> /\ Len(passed) = 0
  BY EmptySeq DEF Init
<1> QED BY <1>2, <1>3 DEF PathInv, DepthBefore

-----------------------------------------------------------------------------
(* Which nodes have been stored or refused.                                *)

\* The places of the nodes stored; those of the first n nodes are settled, each
\* stored once or refused.
PlacesOf(rows) == {rows[i].id + 1 : i \in DOMAIN rows}
FirstSettled(rows, ref, n) ==
  /\ Listed(rows) /\ \A i \in DOMAIN rows : rows[i].id \in Nat
  /\ PlacesOf(rows) \cup ref = 1 .. n
  /\ PlacesOf(rows) \cap ref = {}
  /\ Len(rows) + Cardinality(ref) = n

LEMMA RefusedFinite ==
  ASSUME NEW rows, NEW ref, NEW n \in Nat, FirstSettled(rows, ref, n)
  PROVE  IsFiniteSet(ref) /\ Cardinality(ref) \in Nat /\ Len(rows) \in Nat
<1>1. IsFiniteSet(1 .. n)
  BY FS_Interval
<1>2. ref \subseteq 1 .. n
  BY DEF FirstSettled
<1>3. IsFiniteSet(ref) /\ Cardinality(ref) \in Nat
  BY <1>1, <1>2, FS_Subset, FS_CardinalityType
<1> QED BY <1>3, LenProperties DEF FirstSettled, Listed

LEMMA PlacesGrow ==
  ASSUME NEW rows, Listed(rows), NEW row, NEW new, new = Append(rows, row)
  PROVE  /\ Listed(new) /\ Len(new) = Len(rows) + 1 /\ Len(rows) \in Nat
         /\ PlacesOf(new) = PlacesOf(rows) \cup {row.id + 1}
         /\ row.id \in Nat /\ (\A i \in DOMAIN rows : rows[i].id \in Nat)
              => \A i \in DOMAIN new : new[i].id \in Nat
<1>1. Listed(new)
  BY ListedGrows
<1>2. /\ Len(rows) \in Nat /\ Len(new) = Len(rows) + 1
      /\ DOMAIN rows = 1 .. Len(rows) /\ DOMAIN new = 1 .. Len(rows) + 1
  BY ListedGrows
<1>3. \A i \in 1 .. Len(rows) : new[i] = rows[i]
  BY ListedGrows
<1>4. new[Len(rows) + 1] = row
  BY ListedGrows
<1>5. DOMAIN new = DOMAIN rows \cup {Len(rows) + 1}
  BY <1>2
<1> QED BY <1>1, <1>2, <1>3, <1>4, <1>5 DEF PlacesOf

\* The next node is stored, or refused; a refused one is stored after all.
LEMMA NextStored ==
  ASSUME NEW rows, NEW ref, NEW n \in Nat, FirstSettled(rows, ref, n),
         NEW row, row.id = n, NEW new, new = Append(rows, row)
  PROVE  FirstSettled(new, ref \ {n + 1}, n + 1) /\ ref \ {n + 1} = ref
<1>1. n + 1 \notin 1 .. n /\ 1 .. n + 1 = (1 .. n) \cup {n + 1}
  OBVIOUS
<1>2. ref \ {n + 1} = ref
  BY <1>1 DEF FirstSettled
<1>3. /\ Listed(new) /\ Len(new) = Len(rows) + 1
      /\ PlacesOf(new) = PlacesOf(rows) \cup {n + 1}
      /\ \A i \in DOMAIN new : new[i].id \in Nat
  <2>1. Listed(rows) /\ \A i \in DOMAIN rows : rows[i].id \in Nat
    BY DEF FirstSettled
  <2>2. Listed(new) /\ Len(new) = Len(rows) + 1
    BY <2>1, PlacesGrow
  <2>3. PlacesOf(new) = PlacesOf(rows) \cup {row.id + 1}
    BY <2>1, PlacesGrow
  <2>4. \A i \in DOMAIN new : new[i].id \in Nat
    BY <2>1, PlacesGrow
  <2> QED BY <2>2, <2>3, <2>4
<1>4. Len(new) + Cardinality(ref) = n + 1
  BY <1>3, RefusedFinite DEF FirstSettled
<1> QED BY <1>1, <1>2, <1>3, <1>4 DEF FirstSettled

LEMMA NextRefused ==
  ASSUME NEW rows, NEW ref, NEW n \in Nat, FirstSettled(rows, ref, n)
  PROVE  FirstSettled(rows, ref \cup {n + 1}, n + 1)
<1>1. n + 1 \notin 1 .. n /\ 1 .. n + 1 = (1 .. n) \cup {n + 1}
  OBVIOUS
<1>2. n + 1 \notin ref /\ n + 1 \notin PlacesOf(rows)
  BY <1>1 DEF FirstSettled
<1>3. Cardinality(ref \cup {n + 1}) = Cardinality(ref) + 1
  BY <1>2, RefusedFinite, FS_AddElement
<1>4. Len(rows) + Cardinality(ref \cup {n + 1}) = n + 1
  BY <1>3, RefusedFinite DEF FirstSettled
<1> QED BY <1>1, <1>2, <1>4 DEF FirstSettled

LEMMA RefusedStored ==
  ASSUME NEW rows, NEW ref, NEW n \in Nat, FirstSettled(rows, ref, n),
         NEW k \in ref, NEW row, row.id \in Nat, row.id + 1 = k,
         NEW new, new = Append(rows, row)
  PROVE  FirstSettled(new, ref \ {k}, n)
<1>1. /\ Listed(new) /\ Len(new) = Len(rows) + 1
      /\ PlacesOf(new) = PlacesOf(rows) \cup {k}
      /\ \A i \in DOMAIN new : new[i].id \in Nat
  <2>1. Listed(rows) /\ \A i \in DOMAIN rows : rows[i].id \in Nat
    BY DEF FirstSettled
  <2>2. Listed(new) /\ Len(new) = Len(rows) + 1
    BY <2>1, PlacesGrow
  <2>3. PlacesOf(new) = PlacesOf(rows) \cup {row.id + 1}
    BY <2>1, PlacesGrow
  <2>4. \A i \in DOMAIN new : new[i].id \in Nat
    BY <2>1, PlacesGrow
  <2> QED BY <2>2, <2>3, <2>4
<1>2. Cardinality(ref \ {k}) = Cardinality(ref) - 1
  BY RefusedFinite, FS_RemoveElement
<1>3. Len(new) + Cardinality(ref \ {k}) = n
  <2>1. PICK c : c = Cardinality(ref)
    OBVIOUS
  <2>2. c \in Nat /\ Len(rows) \in Nat
    BY <2>1, RefusedFinite
  <2>3. Len(rows) + c = n
    BY <2>1 DEF FirstSettled
  <2> QED BY <1>1, <1>2, <2>1, <2>2, <2>3
<1> QED BY <1>1, <1>3 DEF FirstSettled

-----------------------------------------------------------------------------
(* What the queue holds in each of the two loops.                          *)

L == Len(passed)

\* The k-th node passed on, in its slot.
Holds(s, k) ==
  /\ s.id = k
  /\ s.key = "none" <=> passed[k].key = NoText
  /\ s.value = "none" <=> passed[k].value = NoText
IsEmpty(s) == s.id = 0 /\ s.key = "none" /\ s.value = "none"

\* Nothing is read yet, so the k-th slot has the k-th node.
FirstLoop ==
  /\ nodes = <<>> /\ refused = {} /\ out = 0
  /\ in = 0 => stack = <<>>
  /\ \A k \in 1 .. in : k <= L => Holds(slot[k], k)
  /\ ended # "failed"
  /\ phase = "dispatch" => (ended = "no" => in = L)
  /\ phase = "receive" => in = IF ended = "no" THEN L - 1 ELSE L

\* The slot after the last node, if any, has the last node again.
Item(k) == IF k <= L THEN k ELSE L
Settled(n) == FirstSettled(nodes, refused, n)

\* The slots are read one after the other, and are empty after it.
FirstRound ==
  /\ out <= in
  /\ \A k \in 0 .. out - 1 : IsEmpty(slot[k])
  /\ \A k \in out + 1 .. in : Holds(slot[k], Item(k))
  /\ phase = "send" => Settled(Item(out))
  /\ phase = "store" => out >= 1 /\ Holds(node_out, Item(out)) /\ Settled(out - 1)

\* After the last slot the queue starts again with slots that are all empty.
Replay ==
  /\ in = Size
  /\ \A k \in 0 .. Size : IsEmpty(slot[k])
  /\ phase = "store" => IsEmpty(node_out)
  /\ Settled(L)

SecondLoop ==
  /\ L >= 1 /\ in \in {L, L + 1}
  /\ FirstRound \/ Replay

TransferInv ==
  /\ in \in 0 .. Size /\ out \in 0 .. Size /\ DOMAIN slot = 0 .. Size
  /\ phase \in {"dispatch", "receive", "send", "store", "returned"}
  /\ result = "running" <=> phase # "returned"
  /\ phase \in {"dispatch", "receive"} => FirstLoop
  /\ phase \in {"send", "store"} => SecondLoop

RunInv == DepthInv /\ NumberInv /\ TransferInv

TransferStep == [Promise!Next]_(Promise!vars)

-----------------------------------------------------------------------------
(* The first loop. *)

\* Before the first dequeue the queue fills slot by slot.
LEMMA EnqueueAtFirst ==
  ASSUME in \in 0 .. Size, out = 0, DOMAIN slot = 0 .. Size, Size \in Nat \ {0},
         NEW n, n = CollectedNode, n.value # "none" => n.kind = "string",
         Queue!Enqueue(n)
  PROVE  /\ out' = 0 /\ in' \in 0 .. Size /\ DOMAIN slot' = 0 .. Size
         /\ queue_status' \in Queue!Statuses
         /\ queue_status' = "NODES_TOO_SHALLOW" => stack # <<>>
         /\ queue_status' \in {"OKAY", "NODES_TOO_SHALLOW"} =>
              /\ in' = in + 1
              /\ \A k \in 0 .. in : slot'[k] = slot[k]
              /\ slot'[in'].id = n.id
              /\ slot'[in'].key = "none" <=> n.key = "none"
              /\ slot'[in'].value = "none" <=> n.value = "none"
<1>1. /\ Queue!IsFull <=> in = Size
      /\ in # Size => Queue!NextIn = in + 1
  BY DEF Queue!IsFull, Queue!MayStepUp, Queue!MayWrap, Queue!NextIn
<1>2. ASSUME NEW m, in # Size, in' = Queue!NextIn, out' = out,
             slot' = [slot EXCEPT ![Queue!NextIn] = m],
             m.id = n.id,
             m.key = "none" <=> n.key = "none", m.value = "none" <=> n.value = "none"
      PROVE  /\ out' = 0 /\ in' = in + 1 /\ in' \in 0 .. Size /\ DOMAIN slot' = 0 .. Size
             /\ \A k \in 0 .. in : slot'[k] = slot[k]
             /\ slot'[in'].id = n.id
             /\ slot'[in'].key = "none" <=> n.key = "none"
             /\ slot'[in'].value = "none" <=> n.value = "none"
  <2>1. in' = in + 1 /\ in' \in 0 .. Size /\ slot' = [slot EXCEPT ![in + 1] = m]
    BY <1>1, <1>2
  <2>2. in + 1 \in DOMAIN slot /\ \A k \in 0 .. in : k \in DOMAIN slot /\ k # in + 1
    BY <1>2, <2>1
  <2>3. slot'[in'] = m /\ DOMAIN slot' = 0 .. Size
    BY <2>1, <2>2
  <2>4. \A k \in 0 .. in : slot'[k] = slot[k]
    BY <2>1, <2>2
  <2> QED BY <1>2, <2>1, <2>3, <2>4
<1>3. ASSUME NEW k, NEW v, Queue!Place(n, k, v)
      PROVE  /\ out' = 0 /\ in' = in + 1 /\ in' \in 0 .. Size /\ DOMAIN slot' = 0 .. Size
             /\ (k = "none" <=> n.key = "none") /\ (v = "none" <=> n.value = "none") =>
                  /\ \A i \in 0 .. in : slot'[i] = slot[i]
                  /\ slot'[in'].id = n.id
                  /\ slot'[in'].key = "none" <=> n.key = "none"
                  /\ slot'[in'].value = "none" <=> n.value = "none"
  <2>1. PICK m : m = [n EXCEPT !.parent = Queue!ParentFor(n), !.key = k, !.value = v]
    OBVIOUS
  <2>2. m.id = n.id /\ m.key = k /\ m.value = v
    BY <2>1 DEF CollectedNode
  <2>3. /\ in # Size /\ in' = Queue!NextIn /\ out' = out
        /\ slot' = [slot EXCEPT ![Queue!NextIn] = m]
    BY <1>1, <1>3, <2>1 DEF Queue!Place
  <2>4. in' = in + 1 /\ in' \in 0 .. Size /\ DOMAIN slot' = 0 .. Size /\ out' = 0
    BY <1>1, <2>3
  <2> QED BY <1>2, <2>2, <2>3, <2>4
<1>4. CASE Queue!EnqueueFull(n)
  BY <1>4 DEF Queue!EnqueueFull, Queue!queueVars, Queue!Statuses
<1>5. CASE Queue!EnqueueStored(n)
  <2>1. Queue!Place(n, Queue!MovedKey(n), Queue!MovedValue(n)) /\ queue_status' = "OKAY"
    BY <1>5 DEF Queue!EnqueueStored
  <2>2. /\ Queue!MovedKey(n) = "none" <=> n.key = "none"
        /\ Queue!MovedValue(n) = "none" <=> n.value = "none"
    BY DEF Queue!MovedKey, Queue!MovedValue, Queue!HasKey, Queue!HasValue
  <2> QED BY <1>3, <2>1, <2>2 DEF Queue!Statuses
<1>6. CASE Queue!EnqueueRefused(n) \/ Queue!EnqueueAborted(n) \/ Queue!EnqueueNullValue(n)
  <2>1. /\ \E k, v : Queue!Place(n, k, v)
        /\ queue_status' \in {"BUFFER_OVERFLOW", "ABORTED", "CRASHED"}
    BY <1>6 DEF Queue!EnqueueRefused, Queue!EnqueueAborted, Queue!EnqueueNullValue
  <2> QED BY <1>3, <2>1 DEF Queue!Statuses
<1>7. CASE Queue!EnqueueTooShallow(n)
  <2>1. /\ in # Size /\ in' = Queue!NextIn /\ out' = out /\ stack # <<>>
        /\ slot' = [slot EXCEPT ![Queue!NextIn] = n]
        /\ queue_status' = "NODES_TOO_SHALLOW"
    BY <1>1, <1>7 DEF Queue!EnqueueTooShallow, Queue!PopsTooFar
  <2> QED BY <1>2, <2>1 DEF Queue!Statuses
<1>8. CASE Queue!EnqueueWithoutStack(n)
  <2>1. /\ in # Size /\ in' = Queue!NextIn /\ out' = out
        /\ slot' = [slot EXCEPT ![Queue!NextIn] = n]
        /\ queue_status' = "CRASHED"
    BY <1>1, <1>8 DEF Queue!EnqueueWithoutStack
  <2> QED BY <1>2, <2>1 DEF Queue!Statuses
<1> QED BY <1>4, <1>5, <1>6, <1>7, <1>8 DEF Queue!Enqueue

LEMMA NothingSettled == FirstSettled(<<>>, {}, 0)
<1>1. PICK s : s = <<>>
  OBVIOUS
<1>2. s \in Seq(Range(s)) /\ Len(s) = 0 /\ DOMAIN s = {}
  BY <1>1, EmptySeq
<1>3. PlacesOf(s) = {} /\ 1 .. 0 = {}
  BY <1>2 DEF PlacesOf
<1>4. Cardinality({}) = 0
  BY FS_EmptySet
<1> QED BY <1>1, <1>2, <1>3, <1>4 DEF FirstSettled, Listed

\* While the first loop runs, a run that ends has stored nothing.
LEMMA FirstLoopStep ==
  ASSUME nodes = <<>>, refused = {}, nodes' = nodes, refused' = refused,
         passed' = passed, result = "running",
         result' = "running" \/ result' = "DIED" \/ result' \notin {"OKAY", "running"}
  PROVE  TransferStep
<1>1. CASE result' = "running"
  BY <1>1 DEF TransferStep, Promise!vars
<1>2. CASE result' # "running"
  <2>1. ~Promise!HasStored
    BY DEF Promise!HasStored
  <2>2. Promise!Finish
    BY <1>2, <2>1 DEF Promise!Finish
  <2> QED BY <2>2 DEF TransferStep, Promise!Next
<1> QED BY <1>1, <1>2

LEMMA ReceiveTransfers == RunInv /\ Receive => TransferInv' /\ TransferStep
<1> SUFFICES ASSUME RunInv, Receive PROVE TransferInv' /\ TransferStep
  OBVIOUS
<1>1. PICK n : n = CollectedNode
  OBVIOUS
<1>2. /\ Size \in Nat \ {0} /\ in \in 0 .. Size /\ DOMAIN slot = 0 .. Size
      /\ L \in Nat /\ FirstLoop /\ phase = "receive" /\ result = "running"
  BY RunAssumption DEF RunInv, TransferInv, NumberInv, Receive, L
<1>3. /\ Queue!Enqueue(n) /\ AfterReceive
      /\ ds' = ds /\ ended' = ended /\ passed' = passed
      /\ nodes' = nodes /\ refused' = refused
  BY <1>1 DEF Receive, driverVars, tables
<1>4. /\ n.id = ds.node.id + 1
      /\ n.key = "none" <=> ds.node.key = NoText
      /\ n.value = "none" <=> ds.node.value = NoText
      /\ n.value # "none" => n.kind = "string"
  <2>1. ds.node.value # NoText => ds.node.kind = "string"
    BY DEF RunInv, NumberInv
  <2> QED BY <1>1, <2>1 DEF CollectedNode, PlaceOf, Collections
<1>5. /\ out' = 0 /\ in' \in 0 .. Size /\ DOMAIN slot' = 0 .. Size
      /\ queue_status' \in Queue!Statuses
      /\ queue_status' = "NODES_TOO_SHALLOW" => stack # <<>>
      /\ queue_status' \in {"OKAY", "NODES_TOO_SHALLOW"} =>
              /\ in' = in + 1
              /\ \A k \in 0 .. in : slot'[k] = slot[k]
              /\ slot'[in'].id = n.id
              /\ slot'[in'].key = "none" <=> n.key = "none"
              /\ slot'[in'].value = "none" <=> n.value = "none"
  BY <1>1, <1>2, <1>3, <1>4, EnqueueAtFirst DEF FirstLoop
<1>6. ASSUME queue_status' \in {"OKAY", "NODES_TOO_SHALLOW"}
      PROVE  /\ in' = in + 1
             /\ \A k \in 1 .. in : k <= L => Holds(slot'[k], k)
             /\ L >= 1 => Holds(slot'[in'], L)
             /\ in = IF ended = "no" THEN L - 1 ELSE L
  <2>1. \A k \in 1 .. in : slot'[k] = slot[k] /\ (k <= L => Holds(slot[k], k))
    BY <1>2, <1>5, <1>6 DEF FirstLoop
  <2>2. L >= 1 => n.id = L /\ ds.node.key = passed[L].key /\ ds.node.value = passed[L].value
    <3>1. L >= 1 => passed # <<>>
      BY EmptySeq DEF L
    <3> QED BY <1>2, <1>4, <3>1 DEF FirstLoop, RunInv, NumberInv, LastProduced, L
  <2>3. L >= 1 => Holds(slot'[in'], L)
    BY <1>4, <1>5, <1>6, <2>2 DEF Holds
  <2> QED BY <1>2, <1>5, <1>6, <2>1, <2>3 DEF FirstLoop
<1>7. CASE queue_status' = "OKAY"
  <2>1. phase' = "dispatch" /\ result' = "running"
    BY <1>2, <1>3, <1>7 DEF AfterReceive, GoesTo
  <2>2. \A k \in 1 .. in' : k <= L => Holds(slot'[k], k)
    <3> SUFFICES ASSUME NEW k \in 1 .. in', k <= L PROVE Holds(slot'[k], k)
      OBVIOUS
    <3>1. CASE k <= in
      BY <1>2, <1>6, <1>7, <3>1
    <3>2. CASE k > in
      <4>1. in' = in + 1 /\ (in = L - 1 \/ in = L)
        BY <1>6, <1>7
      <4>2. k = in' /\ k = L
        BY <1>2, <3>2, <4>1
      <4> QED BY <1>2, <1>6, <1>7, <4>2
    <3> QED BY <1>2, <3>1, <3>2
  <2>3. FirstLoop'
    <3>1. nodes' = <<>> /\ refused' = {} /\ out' = 0 /\ ended' # "failed"
      BY <1>2, <1>3, <1>5 DEF FirstLoop
    <3>2. in' # 0 /\ (ended' = "no" => in' = L)
      BY <1>2, <1>3, <1>6, <1>7
    <3>3. L' = L
      BY <1>3 DEF L
    <3>4. \A k \in 1 .. in' : k <= L' => Holds(slot[k], k)'
      BY <1>3, <2>2, <3>3 DEF Holds
    <3> QED BY <2>1, <3>1, <3>2, <3>3, <3>4 DEF FirstLoop
  <2>4. TransferInv'
    BY <1>2, <1>5, <2>1, <2>3 DEF TransferInv
  <2>5. TransferStep
    BY <1>2, <1>3, <2>1, FirstLoopStep DEF FirstLoop
  <2> QED BY <2>4, <2>5
<1>8. CASE queue_status' = "NODES_TOO_SHALLOW"
  <2>1. phase' = "send" /\ result' = "running"
    BY <1>2, <1>3, <1>8 DEF AfterReceive, GoesTo
  <2>2. L >= 1 /\ in' \in {L, L + 1}
    BY <1>2, <1>5, <1>6, <1>8 DEF FirstLoop
  <2>3. \A k \in 1 .. in' : Holds(slot'[k], Item(k))
    <3> SUFFICES ASSUME NEW k \in 1 .. in' PROVE Holds(slot'[k], Item(k))
      OBVIOUS
    <3>1. CASE k <= in
      <4>1. k <= L /\ k \in 1 .. in
        BY <1>2, <1>6, <1>8, <3>1
      <4> QED BY <1>6, <1>8, <4>1 DEF Item
    <3>2. CASE k > in
      <4>1. k = in' /\ Item(k) = L
        BY <1>2, <1>6, <1>8, <2>2, <3>2 DEF Item
      <4> QED BY <1>6, <1>8, <2>2, <4>1
    <3> QED BY <1>2, <3>1, <3>2
  <2>4. Item(0) = 0
    BY <1>2 DEF Item
  <2>5. Settled(0)'
    BY <1>2, <1>3, NothingSettled DEF FirstLoop, Settled
  <2>6. FirstRound'
    <3>1. out' = 0 /\ out' <= in' /\ phase' = "send"
      BY <1>5, <2>1
    <3>2. Settled(Item(out))'
      BY <1>3, <2>4, <2>5, <3>1 DEF Settled, Item, L
    <3>3. \A k \in 1 .. in' : Holds(slot[k], Item(k))'
      BY <1>3, <2>3 DEF Holds, Item, L
    <3> QED BY <3>1, <3>2, <3>3 DEF FirstRound
  <2>7. TransferInv'
    BY <1>2, <1>3, <1>5, <2>1, <2>2, <2>6 DEF TransferInv, SecondLoop, L
  <2>8. TransferStep
    BY <1>2, <1>3, <2>1, FirstLoopStep DEF FirstLoop
  <2> QED BY <2>7, <2>8
<1>9. CASE queue_status' \notin {"OKAY", "NODES_TOO_SHALLOW"}
  <2>1. phase' = "returned" /\ result' \notin {"OKAY", "running"}
    <3>1. CASE queue_status' \in {"ABORTED", "CRASHED"}
      BY <1>3, <3>1 DEF AfterReceive, Dies
    <3>2. CASE queue_status' \notin {"ABORTED", "CRASHED"}
      <4>1. phase' = "returned" /\ result' = queue_status'
        BY <1>3, <1>9, <3>2 DEF AfterReceive, Returns
      <4>2. queue_status' # "running"
        BY <1>5 DEF Queue!Statuses
      <4> QED BY <1>9, <4>1, <4>2
    <3> QED BY <3>1, <3>2
  <2>2. TransferInv'
    BY <1>2, <1>5, <2>1 DEF TransferInv
  <2>3. TransferStep
    BY <1>2, <1>3, <2>1, FirstLoopStep DEF FirstLoop
  <2> QED BY <2>2, <2>3
<1> QED BY <1>7, <1>8, <1>9

LEMMA InboundTransfers == RunInv /\ InboundEvent => TransferInv' /\ TransferStep
<1> SUFFICES ASSUME RunInv, InboundEvent PROVE TransferInv' /\ TransferStep
  OBVIOUS
<1>1. /\ Size \in Nat /\ in \in 0 .. Size /\ DOMAIN slot = 0 .. Size
      /\ L \in Nat /\ FirstLoop /\ result = "running" /\ ended = "no" /\ in = L
      /\ out = 0 /\ nodes = <<>> /\ refused = {}
  BY RunAssumption DEF RunInv, TransferInv, FirstLoop, NumberInv, InboundEvent, L
<1>2. /\ in' = in /\ out' = out /\ slot' = slot /\ stack' = stack
      /\ nodes' = nodes /\ refused' = refused
  BY DEF InboundEvent, queueVars, tables
<1>3. NumberInv' /\ PassesOn
  BY NumberInductive DEF RunInv, InboundEvent
<1>4. CASE passed' = passed /\ (ended' = "failed" => status' \notin {"OKAY", "running"})
  <2>1. \/ /\ ended' = "done" /\ phase' = "receive" /\ result' = "running"
        \/ /\ ended' = "no" /\ phase' = "dispatch" /\ result' = "running"
        \/ /\ phase' = "returned" /\ result' \notin {"OKAY", "running"}
    <3>1. status' # "running"
      BY <1>3 DEF NumberInv
    <3> QED BY <1>1, <1>4, <3>1 DEF InboundEvent, GoesTo, Returns
  <2>2. \A k \in 1 .. in' : k <= L' => Holds(slot[k], k)'
    BY <1>1, <1>2, <1>4 DEF FirstLoop, Holds, L
  <2>3. L' = L
    BY <1>4 DEF L
  <2>4. phase' # "returned" => FirstLoop'
    BY <1>1, <1>2, <2>1, <2>2, <2>3 DEF FirstLoop
  <2>5. TransferInv'
    BY <1>1, <1>2, <2>1, <2>4 DEF TransferInv
  <2>6. TransferStep
    BY <1>1, <1>2, <1>4, <2>1, FirstLoopStep
  <2> QED BY <2>5, <2>6
<1>5. CASE passed' = Append(passed, PassedOn(ds')) /\ ended' = "no"
  <2>1. PICK x : passed' = Append(passed, x)
    BY <1>5
  <2>2. Listed(passed)
    BY DEF RunInv, NumberInv
  <2>3. Len(passed') = Len(passed) + 1
    BY <2>1, <2>2, ListedGrows
  <2>4. \A i \in 1 .. Len(passed) : passed'[i] = passed[i]
    BY <2>1, <2>2, ListedGrows
  <2>5. SubSeq(passed', 1, Len(passed)) = passed
    BY <2>1, <2>2, ListedGrows
  <2>6. L' = L + 1 /\ passed' # passed
    BY <1>1, <2>3 DEF L
  <2>7. phase' = "receive" /\ result' = "running" /\ ended' = "no"
    BY <1>1, <1>5, <2>6 DEF InboundEvent, GoesTo
  <2>8. \A k \in 1 .. in' : Holds(slot[k], k)'
    <3> SUFFICES ASSUME NEW k \in 1 .. in' PROVE Holds(slot[k], k)'
      OBVIOUS
    <3>1. k \in 1 .. in /\ k <= L /\ passed'[k] = passed[k]
      BY <1>1, <1>2, <2>4 DEF L
    <3> QED BY <1>1, <1>2, <3>1 DEF FirstLoop, Holds
  <2>9. FirstLoop'
    BY <1>1, <1>2, <2>6, <2>7, <2>8 DEF FirstLoop
  <2>10. TransferInv'
    BY <1>1, <1>2, <2>7, <2>9 DEF TransferInv
  <2>11. Promise!Give
    BY <1>1, <1>2, <2>3, <2>5, <2>7 DEF Promise!Give, Promise!HasStored
  <2> QED BY <2>10, <2>11 DEF TransferStep, Promise!Next
<1> QED BY <1>1, <1>3, <1>4, <1>5 DEF PassesOn

LEMMA AtEndTransfers == RunInv /\ InboundAtEnd => TransferInv' /\ TransferStep
<1> SUFFICES ASSUME RunInv, InboundAtEnd PROVE TransferInv' /\ TransferStep
  OBVIOUS
<1>1. /\ in' = in /\ out' = out /\ slot' = slot /\ nodes' = nodes /\ refused' = refused
      /\ passed' = passed /\ phase' = "returned" /\ result' = "DS_EOF"
  BY DEF InboundAtEnd, Returns, driverVars, queueVars, tables
<1>2. nodes = <<>> /\ refused = {} /\ result = "running"
  BY DEF InboundAtEnd, RunInv, TransferInv, FirstLoop
<1>3. TransferStep
  BY <1>1, <1>2, FirstLoopStep
<1>4. TransferInv'
  BY <1>1 DEF RunInv, TransferInv
<1> QED BY <1>3, <1>4

-----------------------------------------------------------------------------
(* The second loop. *)

\* The count of the promise.
LEMMA SettledMeans ==
  ASSUME NEW n, Settled(n)
  PROVE  Promise!Settled = n
<1>1. Promise!Cardinality(refused) = Cardinality(refused)
  BY DEF Promise!Cardinality, Cardinality
<1>2. Len(nodes) + Cardinality(refused) = n
  BY DEF Settled, FirstSettled
<1> QED BY <1>1, <1>2 DEF Promise!Settled

LEMMA SendTransfers == RunInv /\ Send => TransferInv' /\ TransferStep
<1> SUFFICES ASSUME RunInv, Send PROVE TransferInv' /\ TransferStep
  OBVIOUS
<1>1. /\ Size \in Nat \ {0} /\ in \in 0 .. Size /\ out \in 0 .. Size
      /\ DOMAIN slot = 0 .. Size /\ L \in Nat /\ L >= 1 /\ in \in {L, L + 1}
      /\ FirstRound \/ Replay
      /\ phase = "send" /\ result = "running"
  BY RunAssumption DEF RunInv, TransferInv, SecondLoop, NumberInv, Send, L
<1>2. /\ passed' = passed /\ nodes' = nodes /\ refused' = refused /\ in' = in
      /\ out' = Queue!NextOut /\ node_out' = slot[out']
      /\ slot' = [slot EXCEPT ![out] = Queue!Reset(@)]
      /\ queue_status' = IF Queue!MayReadUp \/ out = Size THEN "OKAY" ELSE "NODE_QUEUE_EMPTY"
  BY DEF Send, Queue!Dequeue, driverVars, tables
<1>3. /\ DOMAIN slot' = 0 .. Size /\ IsEmpty(slot'[out])
      /\ \A k \in 0 .. Size : k # out => slot'[k] = slot[k]
  BY <1>1, <1>2 DEF Queue!Reset, Queue!Blank, IsEmpty
<1>4. L' = L
  BY <1>2 DEF L
<1>5. \/ phase' = "returned" /\ result' = "DIED"
      \/ /\ queue_status' = "NODE_QUEUE_EMPTY"
         /\ phase' = "returned" /\ result' = "OKAY"
      \/ /\ queue_status' = "OKAY" /\ phase' = "store" /\ result' = "running"
  BY <1>1, <1>2 DEF Send, Dies, Returns, GoesTo
<1>6. out' \in 0 .. Size
  BY <1>1, <1>2 DEF Queue!NextOut, Queue!MayReadUp
<1>7. CASE phase' = "returned" /\ result' = "DIED"
  <2>1. Promise!Finish
    BY <1>1, <1>2, <1>7 DEF Promise!Finish
  <2>2. TransferInv'
    BY <1>1, <1>2, <1>3, <1>6, <1>7 DEF TransferInv
  <2> QED BY <2>1, <2>2 DEF TransferStep, Promise!Next
<1>8. CASE /\ queue_status' = "NODE_QUEUE_EMPTY" /\ phase' = "returned" /\ result' = "OKAY"
  <2>1. ~Queue!MayReadUp /\ out # Size
    BY <1>2, <1>8
  <2>2. Settled(L)
    <3>1. CASE FirstRound
      <4>1. out = in /\ Item(out) = L
        BY <1>1, <2>1, <3>1 DEF FirstRound, Queue!MayReadUp, Item
      <4> QED BY <1>1, <3>1, <4>1 DEF FirstRound
    <3> QED BY <1>1, <3>1 DEF Replay
  <2>3. Promise!Settled = Len(passed)
    BY <2>2, SettledMeans DEF L
  <2>4. Promise!Finish
    BY <1>1, <1>2, <1>8, <2>3 DEF Promise!Finish
  <2>5. TransferInv'
    BY <1>1, <1>2, <1>3, <1>6, <1>8 DEF TransferInv
  <2> QED BY <2>4, <2>5 DEF TransferStep, Promise!Next
<1>9. CASE /\ queue_status' = "OKAY" /\ phase' = "store" /\ result' = "running"
  <2>1. Queue!MayReadUp \/ out = Size
    BY <1>2, <1>9
  <2>2. TransferStep
    BY <1>1, <1>2, <1>9 DEF TransferStep, Promise!vars
  <2>3. CASE FirstRound /\ Queue!MayReadUp
    <3>1. out < in /\ out' = out + 1
      BY <1>1, <1>2, <2>3 DEF FirstRound, Queue!MayReadUp, Queue!NextOut
    <3>2. out' \in out + 1 .. in /\ node_out' = slot[out'] /\ Holds(node_out', Item(out'))
      BY <1>1, <1>2, <2>3, <3>1 DEF FirstRound
    <3>3. \A k \in 0 .. out' - 1 : IsEmpty(slot'[k])
      <4> SUFFICES ASSUME NEW k \in 0 .. out' - 1 PROVE IsEmpty(slot'[k])
        OBVIOUS
      <4>1. CASE k = out
        BY <1>3, <4>1
      <4>2. CASE k # out
        <5>1. k \in 0 .. out - 1 /\ k \in 0 .. Size
          BY <1>1, <3>1, <4>2
        <5> QED BY <1>3, <2>3, <4>2, <5>1 DEF FirstRound
      <4> QED BY <4>1, <4>2
    <3>4. \A k \in out' + 1 .. in' : Holds(slot'[k], Item(k))
      <4> SUFFICES ASSUME NEW k \in out' + 1 .. in' PROVE Holds(slot'[k], Item(k))
        OBVIOUS
      <4>1. k \in out + 1 .. in /\ k \in 0 .. Size /\ k # out
        BY <1>1, <1>2, <3>1
      <4> QED BY <1>3, <2>3, <4>1 DEF FirstRound
    <3>5. Settled(out' - 1)
      <4>1. out <= L /\ Item(out) = out /\ out' - 1 = out
        BY <1>1, <3>1 DEF Item
      <4> QED BY <1>1, <2>3, <4>1 DEF FirstRound
    <3>6. FirstRound'
      <4>1. Holds(node_out, Item(out))'
        BY <1>2, <3>2 DEF Holds, Item, L
      <4>2. \A k \in out' + 1 .. in' : Holds(slot[k], Item(k))'
        BY <1>2, <3>4 DEF Holds, Item, L
      <4>3. Settled(out - 1)'
        BY <1>2, <3>5 DEF Settled
      <4>4. \A k \in 0 .. out' - 1 : IsEmpty(slot[k])'
        BY <3>3 DEF IsEmpty
      <4>5. out' <= in' /\ out' >= 1 /\ phase' = "store"
        BY <1>1, <1>2, <1>9, <3>1
      <4> QED BY <4>1, <4>2, <4>3, <4>4, <4>5 DEF FirstRound
    <3> QED BY <1>1, <1>2, <1>3, <1>4, <1>6, <1>9, <2>2, <3>6 DEF TransferInv, SecondLoop
  <2>4. CASE ~(FirstRound /\ Queue!MayReadUp)
    <3>1. in = Size /\ (\A k \in 0 .. Size : k # out => IsEmpty(slot[k])) /\ Settled(L)
          /\ (out' = out => IsEmpty(slot[out]))
      <4>1. CASE Replay
        BY <1>1, <4>1 DEF Replay
      <4>2. CASE FirstRound
        <5>1. out = Size /\ in = Size /\ Item(out) = L
          BY <1>1, <2>1, <2>4, <4>2 DEF FirstRound, Item
        <5>2. \A k \in 0 .. Size : k # out => k \in 0 .. out - 1
          BY <1>1, <5>1
        <5>3. out' # out
          BY <1>1, <1>2, <2>4, <4>2, <5>1 DEF Queue!NextOut
        <5> QED BY <1>1, <4>2, <5>1, <5>2, <5>3 DEF FirstRound
      <4> QED BY <1>1, <4>1, <4>2
    <3>2. \A k \in 0 .. Size : IsEmpty(slot'[k])
      <4> SUFFICES ASSUME NEW k \in 0 .. Size PROVE IsEmpty(slot'[k])
        OBVIOUS
      <4>1. CASE k = out
        BY <1>3, <4>1
      <4>2. CASE k # out
        BY <1>3, <3>1, <4>2
      <4> QED BY <4>1, <4>2
    <3>3. IsEmpty(node_out')
      BY <1>1, <1>2, <1>6, <3>1
    <3>4. Replay'
      <4>1. Settled(L)'
        BY <1>2, <3>1 DEF Settled, L
      <4>2. \A k \in 0 .. Size : IsEmpty(slot[k])'
        BY <3>2 DEF IsEmpty
      <4>3. IsEmpty(node_out)'
        BY <3>3 DEF IsEmpty
      <4> QED BY <1>2, <3>1, <4>1, <4>2, <4>3 DEF Replay
    <3> QED BY <1>1, <1>2, <1>3, <1>4, <1>6, <1>9, <2>2, <3>4 DEF TransferInv, SecondLoop
  <2> QED BY <2>3, <2>4
<1> QED BY <1>5, <1>7, <1>8, <1>9

\* Whether a row with the place k is there.
LEMMA StoredPlaces ==
  ASSUME \A i \in DOMAIN nodes : nodes[i].id \in Nat, NEW k \in Nat \ {0}
  PROVE  k - 1 \in Stored <=> k \in PlacesOf(nodes)
BY DEF Stored, PlacesOf

\* An insert of the row of the k-th node, or what is in its place.
LEMMA InsertShape ==
  ASSUME Listed(nodes), NEW row, nodes' = Append(nodes, row)
  PROVE  /\ Len(nodes') = Len(nodes) + 1 /\ SubSeq(nodes', 1, Len(nodes)) = nodes
         /\ nodes'[Len(nodes')] = row
<1>1. Len(nodes') = Len(nodes) + 1
  BY ListedGrows
<1>2. SubSeq(nodes', 1, Len(nodes)) = nodes
  BY ListedGrows
<1>3. nodes'[Len(nodes) + 1] = row
  BY ListedGrows
<1> QED BY <1>1, <1>2, <1>3

\* The outcome for the node in node_out: it is there, it is inserted, or it fails.
LEMMA StoreOutcomes ==
  ASSUME Store, NEW n, n = node_out
  PROVE  \/ NodeIsThere(n)
         \/ \E k \in BoundKeys(n) : InsertNode(n, k)
         \/ NodeFails(n)
BY DEF Store, StoreNode

LEMMA StoreTransfers == RunInv /\ Store => TransferInv' /\ TransferStep
<1> SUFFICES ASSUME RunInv, Store PROVE TransferInv' /\ TransferStep
  OBVIOUS
<1>1. /\ Size \in Nat \ {0} /\ in \in 0 .. Size /\ out \in 0 .. Size
      /\ DOMAIN slot = 0 .. Size /\ L \in Nat /\ L >= 1 /\ in \in {L, L + 1}
      /\ FirstRound \/ Replay
      /\ phase = "store" /\ result = "running"
  BY RunAssumption DEF RunInv, TransferInv, SecondLoop, NumberInv, Store, L
<1>2. /\ passed' = passed /\ in' = in /\ out' = out /\ slot' = slot /\ node_out' = node_out
      /\ phase' = "send" /\ result' = "running"
  BY <1>1 DEF Store, driverVars, queueVars, GoesTo
<1>3. PICK n : n = node_out
  OBVIOUS
<1>4. \/ NodeIsThere(n)
      \/ \E k \in BoundKeys(n) : InsertNode(n, k)
      \/ NodeFails(n)
  BY <1>3, StoreOutcomes
<1>5. ASSUME NEW m \in Nat, Settled(m) PROVE m \in Nat /\ Promise!Settled = m
             /\ Listed(nodes) /\ \A i \in DOMAIN nodes : nodes[i].id \in Nat
  BY <1>5, SettledMeans DEF Settled, FirstSettled
<1>6. ASSUME NEW k \in 1 .. L, Holds(n, k)
      PROVE  /\ RowId(n.id) = k - 1 /\ Row(n) = k
             /\ BoundValue(n) = passed[k].value /\ BoundKeys(n) \subseteq {passed[k].key, Lost}
  BY <1>1, <1>6 DEF Holds, RowId, Row, BoundValue, BoundKeys
<1>7. CASE FirstRound /\ out <= L
  <2>1. /\ out \in 1 .. L /\ Item(out) = out /\ Holds(n, out) /\ Settled(out - 1)
        /\ out - 1 \in Nat
    BY <1>1, <1>3, <1>7 DEF FirstRound, Item
  <2>2. /\ RowId(n.id) = out - 1 /\ Row(n) = out
        /\ BoundValue(n) = passed[out].value /\ BoundKeys(n) \subseteq {passed[out].key, Lost}
    BY <1>6, <2>1
  <2>3. out - 1 \notin Stored
    <3>1. out \notin 1 .. out - 1 /\ out \in Nat \ {0}
      BY <2>1
    <3>2. out \notin PlacesOf(nodes)
      BY <2>1, <3>1 DEF Settled, FirstSettled
    <3> QED BY <1>5, <2>1, <3>1, <3>2, StoredPlaces
  <2>4. FirstSettled(nodes', refused', out) /\ Promise!Deliver
    <3>1. ASSUME NEW k \in BoundKeys(n), InsertNode(n, k)
          PROVE  FirstSettled(nodes', refused', out) /\ Promise!Deliver
      <4>1. PICK row : row = [id |-> RowId(n.id), key |-> k, value |-> BoundValue(n)]
        OBVIOUS
      <4>2. nodes' = Append(nodes, row) /\ refused' = refused \ {out}
        BY <2>2, <3>1, <4>1 DEF InsertNode
      <4>3. /\ row.id = out - 1 /\ row.value = passed[out].value
            /\ row.key \in {passed[out].key, Lost}
        BY <2>2, <4>1
      <4>4. /\ FirstSettled(nodes', refused \ {(out - 1) + 1}, (out - 1) + 1)
            /\ refused \ {(out - 1) + 1} = refused
        BY <2>1, <4>2, <4>3, NextStored DEF Settled
      <4>5. (out - 1) + 1 = out
        BY <2>1
      <4>6. refused' = refused /\ FirstSettled(nodes', refused', out)
        BY <4>2, <4>4, <4>5
      <4>7. Promise!Stores(out)
        BY <1>5, <2>1, <4>2, <4>3, InsertShape DEF Promise!Stores, Promise!IsRowOf
      <4>8. Promise!Settled = out - 1 /\ Promise!Settled < Len(passed)
        BY <1>5, <2>1 DEF L
      <4>9. Promise!Deliver
        BY <1>1, <1>2, <4>5, <4>6, <4>7, <4>8 DEF Promise!Deliver
      <4> QED BY <4>6, <4>9
    <3>2. ASSUME NodeFails(n)
          PROVE  FirstSettled(nodes', refused', out) /\ Promise!Deliver
      <4>1. nodes' = nodes /\ refused' = refused \cup {out}
        BY <2>2, <3>2 DEF NodeFails
      <4>2. FirstSettled(nodes, refused \cup {(out - 1) + 1}, (out - 1) + 1)
        BY <2>1, NextRefused DEF Settled
      <4>3. (out - 1) + 1 = out
        BY <2>1
      <4>4. Promise!Settled = out - 1 /\ Promise!Settled < Len(passed)
        BY <1>5, <2>1 DEF L
      <4>5. Promise!Deliver
        BY <1>1, <1>2, <4>1, <4>3, <4>4 DEF Promise!Deliver
      <4> QED BY <4>1, <4>2, <4>3, <4>5
    <3>3. ~NodeIsThere(n)
      BY <2>2, <2>3 DEF NodeIsThere
    <3> QED BY <1>4, <3>1, <3>2, <3>3
  <2>5. FirstRound'
    <3>1. Settled(Item(out))'
      BY <1>2, <2>1, <2>4 DEF Settled, Item, L
    <3> QED BY <1>2, <1>7, <3>1 DEF FirstRound, Holds, Item, L
  <2>6. TransferInv'
    BY <1>1, <1>2, <2>5 DEF TransferInv, SecondLoop, L
  <2> QED BY <2>4, <2>6 DEF TransferStep, Promise!Next
<1>8. CASE ~(FirstRound /\ out <= L)
  <2>1. Settled(L)
    <3>1. FirstRound => Settled(L)
      <4>1. FirstRound => out - 1 = L
        BY <1>1, <1>8 DEF FirstRound
      <4> QED BY <1>1, <4>1 DEF FirstRound
    <3> QED BY <1>1, <3>1 DEF Replay
  <2>2. Promise!Settled = Len(passed) /\ Listed(nodes) /\ \A i \in DOMAIN nodes : nodes[i].id \in Nat
    BY <1>1, <1>5, <2>1 DEF L
  <2>3. \A k \in 1 .. L : k - 1 \notin Stored <=> k \in refused
    <3> SUFFICES ASSUME NEW k \in 1 .. L PROVE k - 1 \notin Stored <=> k \in refused
      OBVIOUS
    <3>1. k - 1 \in Stored <=> k \in PlacesOf(nodes)
      BY <2>2, StoredPlaces
    <3> QED BY <2>1, <3>1 DEF Settled, FirstSettled
  <2>4. ASSUME NEW k \in 1 .. L, RowId(n.id) = k - 1, Row(n) = k,
               \A bound \in BoundKeys(n) : \A row :
                  /\ row = [id |-> k - 1, key |-> bound, value |-> BoundValue(n)]
                  /\ nodes' = Append(nodes, row) /\ refused' = refused \ {k} /\ k \in refused
                  => Promise!DeliverLastAgain \/ Promise!DeliverBlank
        PROVE  FirstSettled(nodes', refused', L) /\ TransferStep
    <3>1. CASE NodeIsThere(n)
      <4>1. nodes' = nodes /\ refused' = refused
        BY <3>1 DEF NodeIsThere
      <4> QED BY <1>1, <1>2, <2>1, <4>1 DEF Settled, TransferStep, Promise!vars
    <3>2. CASE NodeFails(n)
      <4>1. nodes' = nodes /\ k \in refused /\ refused' = refused \cup {k}
        BY <2>3, <2>4, <3>2 DEF NodeFails
      <4>2. refused' = refused
        BY <4>1
      <4> QED BY <1>1, <1>2, <2>1, <4>1, <4>2 DEF Settled, TransferStep, Promise!vars
    <3>3. ASSUME NEW bound \in BoundKeys(n), InsertNode(n, bound)
          PROVE  FirstSettled(nodes', refused', L) /\ TransferStep
      <4>1. PICK row : row = [id |-> k - 1, key |-> bound, value |-> BoundValue(n)]
        OBVIOUS
      <4>2. nodes' = Append(nodes, row) /\ k \in refused /\ refused' = refused \ {k}
        BY <2>3, <2>4, <3>3, <4>1 DEF InsertNode
      <4>3. row.id \in Nat /\ row.id + 1 = k
        BY <4>1
      <4>4. FirstSettled(nodes', refused', L)
        BY <1>1, <2>1, <4>2, <4>3, RefusedStored DEF Settled
      <4>5. Promise!DeliverLastAgain \/ Promise!DeliverBlank
        BY <2>4, <4>1, <4>2
      <4> QED BY <4>4, <4>5 DEF TransferStep, Promise!Next
    <3> QED BY <1>4, <3>1, <3>2, <3>3
  <2>5. CASE FirstRound
    <3>1. out = L + 1 /\ Item(out) = L /\ Holds(n, L) /\ L \in 1 .. L
      BY <1>1, <1>3, <1>8, <2>5 DEF FirstRound, Item
    <3>2. /\ RowId(n.id) = L - 1 /\ Row(n) = L
          /\ BoundValue(n) = passed[L].value /\ BoundKeys(n) \subseteq {passed[L].key, Lost}
      BY <1>6, <3>1
    <3>3. ASSUME NEW bound \in BoundKeys(n), NEW row,
                 row = [id |-> L - 1, key |-> bound, value |-> BoundValue(n)],
                 nodes' = Append(nodes, row), refused' = refused \ {L}, L \in refused
          PROVE  Promise!DeliverLastAgain
      <4>1. row.id = L - 1 /\ row.value = passed[L].value /\ row.key \in {passed[L].key, Lost}
        BY <3>2, <3>3
      <4>2. Promise!Stores(L)
        BY <2>2, <3>3, <4>1, InsertShape DEF Promise!Stores, Promise!IsRowOf
      <4> QED BY <1>1, <1>2, <2>2, <3>3, <4>2 DEF Promise!DeliverLastAgain, L
    <3>4. FirstSettled(nodes', refused', L) /\ TransferStep
      BY <2>4, <3>1, <3>2, <3>3
    <3>5. FirstRound'
      <4>1. Settled(Item(out))'
        BY <1>2, <3>1, <3>4 DEF Settled, Item, L
      <4> QED BY <1>2, <2>5, <4>1 DEF FirstRound, Holds, Item, L
    <3> QED BY <1>1, <1>2, <3>4, <3>5 DEF TransferInv, SecondLoop, L
  <2>6. CASE Replay
    <3>1. IsEmpty(n)
      BY <1>1, <1>3, <2>6 DEF Replay
    <3>2. /\ RowId(n.id) = 1 - 1 /\ Row(n) = 1 /\ BoundValue(n) = NoText
          /\ BoundKeys(n) \subseteq {NoText, Lost} /\ 1 \in 1 .. L
      BY <1>1, <3>1 DEF IsEmpty, RowId, Row, BoundValue, BoundKeys
    <3>3. ASSUME NEW bound \in BoundKeys(n), NEW row,
                 row = [id |-> 1 - 1, key |-> bound, value |-> BoundValue(n)],
                 nodes' = Append(nodes, row), refused' = refused \ {1}, 1 \in refused
          PROVE  Promise!DeliverBlank
      <4>1. row = [id |-> 0, key |-> bound, value |-> NoText] /\ bound \in {NoText, Lost}
        BY <3>2, <3>3
      <4> QED BY <1>1, <1>2, <2>2, <3>3, <4>1 DEF Promise!DeliverBlank
    <3>4. FirstSettled(nodes', refused', L) /\ TransferStep
      BY <2>4, <3>2, <3>3
    <3>5. Replay'
      <4>1. Settled(L)'
        BY <1>2, <3>4 DEF Settled, L
      <4> QED BY <1>2, <2>6, <4>1 DEF Replay, IsEmpty
    <3> QED BY <1>1, <1>2, <3>4, <3>5 DEF TransferInv, SecondLoop, L
  <2> QED BY <1>1, <2>5, <2>6
<1> QED BY <1>7, <1>8

-----------------------------------------------------------------------------
(* The run. *)

\* A step of the run is one of the driver, or leaves it alone.
LEMMA RunStepsDriver == [RunNext]_runVars => [Next]_vars
BY DEF RunNext, runVars, InboundEvent, InboundAtEnd, Receive, Send, Store, driverVars, vars

LEMMA RunInit == OpenRun => RunInv /\ Promise!Init
<1> SUFFICES ASSUME OpenRun PROVE RunInv /\ Promise!Init
  OBVIOUS
<1>1. /\ Init /\ Queue!OpenQueue /\ phase = "dispatch" /\ result = "running"
      /\ nodes = <<>> /\ refused = {} /\ ended = "no" /\ passed = <<>> /\ L = 0
  BY EmptySeq DEF OpenRun, Init, L
<1>2. DepthInv /\ NumberInv
  BY <1>1, DepthInit, NumberInit
<1>3. in = 0 /\ out = 0 /\ stack = <<>> /\ DOMAIN slot = 0 .. Size /\ Size \in Nat
  BY <1>1, RunAssumption DEF Queue!OpenQueue, Queue!Slots
<1>4. TransferInv
  BY <1>1, <1>3 DEF TransferInv, FirstLoop
<1> QED BY <1>1, <1>2, <1>4 DEF RunInv, Promise!Init

LEMMA RunInductive == RunInv /\ [RunNext]_runVars => RunInv' /\ TransferStep
<1> SUFFICES ASSUME RunInv, [RunNext]_runVars PROVE RunInv' /\ TransferStep
  OBVIOUS
<1>1. DepthInv' /\ NumberInv'
  BY RunStepsDriver, DepthInductive, NumberInductive DEF RunInv
<1>2. CASE UNCHANGED runVars
  <2>1. TransferInv'
    BY <1>2 DEF RunInv, TransferInv, FirstLoop, SecondLoop, FirstRound, Replay, Settled,
                Holds, IsEmpty, Item, L, runVars, driverVars, queueVars, tables
  <2>2. TransferStep
    BY <1>2 DEF TransferStep, Promise!vars, runVars, driverVars, queueVars, tables
  <2> QED BY <1>1, <2>1, <2>2 DEF RunInv
<1>3. CASE RunNext
  <2>1. TransferInv' /\ TransferStep
    BY <1>3, InboundTransfers, AtEndTransfers, ReceiveTransfers, SendTransfers,
       StoreTransfers DEF RunNext
  <2> QED BY <1>1, <2>1 DEF RunInv
<1> QED BY <1>2, <1>3

\* Whatever the document, the sizes of the queue and of its buffers and the inserts that
\* fail: the nodes that yaml_inbound passes on are stored once each and in their order,
\* with their own values and their own keys or lost ones; a run that returns an error
\* has stored nothing, and one that returns OKAY all but what SQLite refused.
THEOREM RunTransfers == RunSpec => TransferSpec
<1> QED BY RunInit, RunInductive, PTL DEF RunSpec, TransferSpec, Promise!Spec, TransferStep

\* The depth of the data source's node follows the document in a run too.
THEOREM RunDepthFollows == RunSpec => []DepthFollowsDocument
<1>1. OpenRun => Init
  BY DEF OpenRun
<1> QED BY <1>1, RunStepsDriver, DepthFollows, PTL DEF RunSpec, Spec

\* The same within oly_run.
THEOREM RunPassesAsWritten == RunSpec => []PassedAsWritten
<1>1. PassInv => PassedAsWritten
  BY DEF PassInv, PassedAsWritten
<1>2. OpenRun => DepthInv /\ NumberInv /\ TypeInv /\ PassInv
  BY DepthInit, NumberInit, TypeInit, PassInit DEF OpenRun
<1>3. DepthInv /\ NumberInv /\ TypeInv /\ PassInv /\ [RunNext]_runVars =>
        (DepthInv /\ NumberInv /\ TypeInv /\ PassInv)'
  BY RunStepsDriver, DepthInductive, NumberInductive, TypeInductive, PassInductive
<1> QED BY <1>1, <1>2, <1>3, PTL DEF RunSpec

-----------------------------------------------------------------------------
(* The relations: the stack of the queue holds the open collections.       *)

\* Node x is the last of the first k that is a collection at depth d.
IsLatest(x, d, k) ==
  /\ x \in 1 .. k /\ IsCollection(passed[x]) /\ passed[x].depth = d
  /\ \A j \in x + 1 .. k : ~(IsCollection(passed[j]) /\ passed[j].depth = d)

\* The stack after the first m nodes.
OpenStacked(s, m) ==
  /\ s \in Seq(Nat)
  /\ Len(s) = IF m = 0 THEN 0 ELSE passed[m].depth
  /\ \A d \in 1 .. Len(s) : IsLatest(s[d], d, m)

Outer(k) == passed[k].depth - (IF IsCollection(passed[k]) THEN 1 ELSE 0)

LEMMA ParentIsLatest ==
  ASSUME NEW k \in 1 .. L, L \in Nat, NEW x, IsLatest(x, Outer(k), k - 1)
  PROVE  ParentOf(k) = x
<1>1. PICK above : above = {j \in 1 .. k - 1 : /\ IsCollection(passed[j])
                                              /\ passed[j].depth = Outer(k)}
  OBVIOUS
<1>2. ParentOf(k) = IF above = {} THEN 0 ELSE Max(above)
  BY <1>1 DEF ParentOf, Outer, IsCollection
<1>3. x \in above /\ \A j \in above : x >= j
  BY <1>1 DEF IsLatest
<1>4. \A y \in above : (\A j \in above : y >= j) => y = x
  BY <1>1, <1>3
<1>5. Max(above) = x
  BY <1>3, <1>4 DEF Max
<1> QED BY <1>2, <1>3, <1>5

LEMMA NoParentAtTop ==
  ASSUME NEW k \in 1 .. L, L \in Nat, Outer(k) = 0, PathInv
  PROVE  ParentOf(k) = 0
<1>1. \A j \in 1 .. k - 1 : IsCollection(passed[j]) => passed[j].depth # 0
  BY DEF PathInv, StepsDown, L
<1>2. PICK above : above = {j \in 1 .. k - 1 : /\ IsCollection(passed[j])
                                              /\ passed[j].depth = Outer(k)}
  OBVIOUS
<1>3. ParentOf(k) = IF above = {} THEN 0 ELSE Max(above)
  BY <1>2 DEF ParentOf, Outer, IsCollection
<1> QED BY <1>1, <1>2, <1>3

\* The stack that the queue makes for the next node, and the parent it finds there.
LEMMA StackFollowsPath ==
  ASSUME PathInv, ~HasSiblings, L \in Nat \ {0}, in = L - 1,
         NEW n, n.id = L, n.depth = passed[L].depth,
         n.kind = "collection" <=> IsCollection(passed[L]),
         OpenStacked(stack, in),
         IF in = 0 THEN slot[0].depth \in Nat ELSE slot[in].depth = passed[in].depth,
         ~Queue!FollowsNull(n)
  PROVE  /\ ~Queue!PopsTooFar(n) => /\ Queue!ParentFor(n) = ParentOf(L)
                                    /\ OpenStacked(Queue!StackFor(n), L)
         /\ Queue!PopsTooFar(n) => ParentOf(L) = 0
<1>1. PICK q : q = Len(stack)
  OBVIOUS
<1>2. /\ stack \in Seq(Nat) /\ q \in Nat /\ q = IF in = 0 THEN 0 ELSE passed[in].depth
      /\ \A d \in 1 .. q : IsLatest(stack[d], d, L - 1)
      /\ L \in 1 .. L /\ in \in Nat
  BY <1>1, LenProperties DEF OpenStacked
<1>3. /\ DepthBefore(passed, L) = q
      /\ n.depth \in Nat
      /\ IsCollection(passed[L]) => n.depth >= 1 /\ n.depth <= q + 1
      /\ ~IsCollection(passed[L]) => n.depth <= q
  <2>1. DepthBefore(passed, L) = q
    BY <1>2 DEF DepthBefore
  <2> QED BY <1>2, <2>1 DEF PathInv, StepsDown, L
<1>4. q = 0 <=> stack = <<>>
  BY <1>1, <1>2, EmptySeq
<1>5. CASE IsCollection(passed[L])
  <2>1. n.depth = q + 1
    <3>1. CASE in = 0
      BY <1>2, <1>3, <1>5, <3>1
    <3>2. CASE in # 0
      <4>1. L \in 2 .. L /\ passed[L].kind \in Collections /\ L - 1 = in
        BY <1>2, <1>5, <3>2 DEF IsCollection
      <4>2. ~(passed[L].depth <= passed[L - 1].depth)
        BY <4>1 DEF HasSiblings, L
      <4>3. ~(n.depth <= q)
        BY <1>2, <3>2, <4>1, <4>2
      <4> QED BY <1>2, <1>3, <1>5, <4>3
    <3> QED BY <3>1, <3>2
  <2>2. Queue!Rises(n)
    <3>1. CASE in = 0
      BY <1>2, <1>4, <1>5, <3>1 DEF Queue!FollowsNull
    <3>2. CASE in # 0
      BY <1>2, <2>1, <3>2 DEF Queue!Rises, Queue!Prev
    <3> QED BY <3>1, <3>2
  <2>3. PICK t : t = Append(stack, L)
    OBVIOUS
  <2>4. /\ t \in Seq(Nat) /\ Len(t) = q + 1 /\ t[q + 1] = L
        /\ \A d \in 1 .. q : t[d] = stack[d]
    <3>1. stack \in Seq(Nat) /\ L \in Nat /\ q = Len(stack)
      BY <1>1, <1>2
    <3>2. Append(stack, L) \in Seq(Nat) /\ Len(Append(stack, L)) = q + 1
      BY <3>1, AppendProperties
    <3>3. Append(stack, L)[q + 1] = L
      BY <3>1, AppendProperties
    <3>4. \A d \in 1 .. q : Append(stack, L)[d] = stack[d]
      BY <3>1, AppendProperties
    <3> QED BY <2>3, <3>2, <3>3, <3>4
  <2>5. Queue!StackFor(n) = t /\ ~Queue!PopsTooFar(n)
    BY <2>2, <2>3 DEF Queue!StackFor, Queue!PopsTooFar
  <2>6. OpenStacked(t, L)
    <3>1. ASSUME NEW d \in 1 .. q + 1 PROVE IsLatest(t[d], d, L)
      <4>1. CASE d = q + 1
        <5>1. t[d] = L /\ passed[L].depth = d
          BY <2>1, <2>4, <4>1
        <5>2. \A j \in L + 1 .. L : FALSE
          BY <1>2
        <5> QED BY <1>2, <1>5, <5>1, <5>2 DEF IsLatest
      <4>2. CASE d # q + 1
        <5>0. d \in 1 .. q
          BY <1>2, <4>2
        <5>1. d \in 1 .. q /\ t[d] = stack[d] /\ IsLatest(stack[d], d, L - 1)
          BY <1>2, <2>4, <5>0
        <5>2. passed[L].depth # d
          BY <1>2, <2>1, <5>1
        <5> QED BY <1>2, <5>1, <5>2 DEF IsLatest
      <4> QED BY <4>1, <4>2
    <3> QED BY <1>2, <2>1, <2>4, <3>1 DEF OpenStacked
  <2>7. Queue!ParentFor(n) = ParentOf(L)
    <3>1. Outer(L) = q
      BY <1>2, <1>5, <2>1 DEF Outer
    <3>2. Queue!ParentFor(n) = IF q + 1 > 1 THEN t[(q + 1) - 1] ELSE 0
      BY <1>5, <2>4, <2>5 DEF Queue!ParentFor, Queue!FromTop
    <3>3. CASE q = 0
      BY <1>2, <3>1, <3>2, <3>3, NoParentAtTop
    <3>4. CASE q # 0
      <4>1. q \in 1 .. q /\ (q + 1) - 1 = q /\ q + 1 > 1
        BY <1>2, <3>4
      <4>2. Queue!ParentFor(n) = stack[q] /\ IsLatest(stack[q], Outer(L), L - 1)
        BY <1>2, <2>4, <3>1, <3>2, <4>1
      <4> QED BY <1>2, <4>2, ParentIsLatest
    <3> QED BY <3>3, <3>4
  <2> QED BY <2>5, <2>6, <2>7
<1>6. CASE ~IsCollection(passed[L])
  <2>1. n.depth <= q /\ Outer(L) = n.depth
    BY <1>3, <1>6 DEF Outer
  <2>2. /\ ~Queue!Rises(n)
        /\ in # 0 => Queue!Drop(n) = q - n.depth
        /\ in = 0 => Queue!Drop(n) \in Nat
    BY <1>2, <1>3, <2>1 DEF Queue!Rises, Queue!Drop, Queue!Prev
  <2>3. Queue!Drop(n) = q - n.depth
    <3>1. CASE in = 0
      <4>1. stack = <<>> /\ q = 0 /\ n.depth = 0
        BY <1>2, <1>3, <1>4, <2>1, <3>1
      <4>2. ~(Queue!Drop(n) > 0)
        BY <2>2, <4>1 DEF Queue!FollowsNull
      <4> QED BY <2>2, <3>1, <4>1, <4>2
    <3> QED BY <2>2, <3>1
  <2>4. Queue!PopsTooFar(n) => ParentOf(L) = 0
    <3>1. Queue!PopsTooFar(n) => n.depth = 0
      BY <1>1, <1>2, <1>3, <2>1, <2>3 DEF Queue!PopsTooFar
    <3> QED BY <1>2, <2>1, <3>1, NoParentAtTop
  <2>5. PICK t : t = SubSeq(stack, 1, n.depth)
    OBVIOUS
  <2>6. /\ t \in Seq(Nat) /\ Len(t) = n.depth
        /\ \A d \in 1 .. n.depth : t[d] = stack[d]
    <3>1. \A i \in 1 .. n.depth : stack[i] \in Nat
      <4>1. \A i \in 1 .. n.depth : i \in 1 .. Len(stack)
        BY <1>1, <1>2, <1>3, <2>1
      <4> QED BY <1>2, <4>1, ElementOfSeq
    <3>2. /\ SubSeq(stack, 1, n.depth) \in Seq(Nat)
          /\ Len(SubSeq(stack, 1, n.depth)) = IF 1 <= n.depth THEN n.depth - 1 + 1 ELSE 0
          /\ \A i \in 1 .. n.depth - 1 + 1 : SubSeq(stack, 1, n.depth)[i] = stack[1 + i - 1]
      BY <1>3, <3>1, SubSeqProperties
    <3>3. \A i \in 1 .. n.depth : i \in 1 .. n.depth - 1 + 1 /\ 1 + i - 1 = i
      BY <1>3
    <3> QED BY <1>3, <2>5, <3>2, <3>3
  <2>7. Queue!StackFor(n) = t
    <3>1. Len(stack) - Queue!Drop(n) = n.depth
      BY <1>1, <1>2, <1>3, <2>3
    <3> QED BY <2>2, <2>5, <3>1 DEF Queue!StackFor
  <2>8. OpenStacked(t, L)
    <3>1. ASSUME NEW d \in 1 .. n.depth PROVE IsLatest(t[d], d, L)
      <4>1. t[d] = stack[d] /\ IsLatest(stack[d], d, L - 1)
        BY <1>2, <1>3, <2>1, <2>6
      <4> QED BY <1>2, <1>6, <4>1 DEF IsLatest
    <3> QED BY <1>2, <2>6, <3>1 DEF OpenStacked
  <2>9. Queue!ParentFor(n) = ParentOf(L)
    <3>1. Queue!ParentFor(n) = IF n.depth > 0 THEN t[n.depth - 0] ELSE 0
      BY <1>6, <2>6, <2>7 DEF Queue!ParentFor, Queue!FromTop
    <3>2. CASE n.depth = 0
      BY <1>2, <2>1, <3>1, <3>2, NoParentAtTop
    <3>3. CASE n.depth # 0
      <4>1. n.depth \in 1 .. n.depth /\ n.depth \in 1 .. q /\ n.depth - 0 = n.depth
        BY <1>2, <1>3, <2>1, <3>3
      <4>2. Queue!ParentFor(n) = stack[n.depth] /\ IsLatest(stack[n.depth], Outer(L), L - 1)
        BY <1>2, <1>3, <2>1, <2>6, <3>1, <3>3, <4>1
      <4> QED BY <1>2, <4>2, ParentIsLatest
    <3> QED BY <3>2, <3>3
  <2> QED BY <2>4, <2>7, <2>8, <2>9
<1> QED BY <1>5, <1>6

\* A slot has the parent of its node; the last node passed on again has none.
RightParent(s) == s.id \in 0 .. L /\ s.parent = IF s.id = 0 THEN 0 ELSE ParentOf(s.id)
LastAgain(s) == s.id = L /\ s.parent = 0
MayRelate(s) == RightParent(s) \/ LastAgain(s)

FirstParents ==
  /\ relations = {} /\ slot[0].depth \in Nat
  /\ (ended = "no" \/ phase = "receive") => \A k \in 0 .. Size : RightParent(slot[k])
  /\ ended = "no" => /\ OpenStacked(stack, in)
                     /\ in # 0 => slot[in].depth = passed[in].depth

SecondParents ==
  /\ \A k \in 0 .. Size : MayRelate(slot[k])
  /\ phase = "store" => MayRelate(node_out)

GivenRelations ==
  \A r \in relations : r[2] = RowId(ParentOf(r[1] + 1)) \/ r = <<L - 1, 0>>

ParentInv ==
  /\ (phase = "receive" /\ ended = "no") => ds.node.depth = passed[L].depth
  /\ ~HasSiblings =>
       /\ GivenRelations
       /\ phase \in {"dispatch", "receive"} => FirstParents
       /\ phase \in {"send", "store"} => SecondParents

LEMMA PathStays ==
  ASSUME Listed(passed), NEW x, passed' = Append(passed, x)
  PROVE  /\ L \in Nat /\ L' = L + 1 /\ passed'[L + 1] = x
         /\ \A k \in 1 .. L : passed'[k] = passed[k] /\ ParentOf(k)' = ParentOf(k)
         /\ HasSiblings => HasSiblings'
<1>1. L \in Nat /\ L' = L + 1
  BY ListedGrows DEF L
<1>2. passed'[L + 1] = x
  BY ListedGrows DEF L
<1>3. \A k \in 1 .. L : passed'[k] = passed[k]
  BY ListedGrows DEF L
<1>4. \A k \in 1 .. L : ParentOf(k)' = ParentOf(k)
  <2> SUFFICES ASSUME NEW k \in 1 .. L PROVE ParentOf(k)' = ParentOf(k)
    OBVIOUS
  <2>1. \A j \in 1 .. k - 1 : j \in 1 .. L
    BY <1>1
  <2>2. passed'[k] = passed[k] /\ \A j \in 1 .. k - 1 : passed'[j] = passed[j]
    BY <1>3, <2>1
  <2> QED BY <2>2 DEF ParentOf
<1>5. HasSiblings => HasSiblings'
  <2> SUFFICES ASSUME NEW k \in 2 .. L, passed[k].kind \in Collections,
                      passed[k].depth <= passed[k - 1].depth
               PROVE  HasSiblings'
    BY DEF HasSiblings, L
  <2>1. k \in 1 .. L /\ k - 1 \in 1 .. L /\ k \in 2 .. L'
    BY <1>1
  <2> QED BY <1>3, <2>1 DEF HasSiblings, L
<1> QED BY <1>1, <1>2, <1>3, <1>4, <1>5

LEMMA InboundParents == RunInv /\ ParentInv /\ InboundEvent => ParentInv'
<1> SUFFICES ASSUME RunInv, ParentInv, InboundEvent PROVE ParentInv'
  OBVIOUS
<1>1. /\ in' = in /\ slot' = slot /\ stack' = stack /\ relations' = relations
      /\ phase = "dispatch" /\ ended = "no" /\ FirstLoop /\ in = L /\ Listed(passed)
  BY DEF InboundEvent, queueVars, tables, RunInv, TransferInv, FirstLoop, NumberInv
<1>2. PassesOn
  BY NumberInductive DEF RunInv, InboundEvent
<1>3. CASE passed' = passed
  <2>1. \/ ended' = "done" /\ phase' = "receive"
        \/ ended' = "no" /\ phase' = "dispatch"
        \/ phase' = "returned"
    BY <1>3 DEF InboundEvent, GoesTo, Returns
  <2>2. /\ L' = L /\ HasSiblings' = HasSiblings /\ GivenRelations' = GivenRelations
        /\ OpenStacked(stack, in)' = OpenStacked(stack, in)
        /\ \A k \in 0 .. Size : RightParent(slot[k])' = RightParent(slot[k])
    BY <1>1, <1>3 DEF L, HasSiblings, GivenRelations, ParentOf, OpenStacked, IsLatest,
                      RightParent
  <2>3. ASSUME ~HasSiblings, phase' # "returned" PROVE FirstParents'
    BY <1>1, <1>3, <2>1, <2>2, <2>3 DEF ParentInv, FirstParents
  <2> QED BY <2>1, <2>2, <2>3 DEF ParentInv
<1>4. CASE passed' = Append(passed, PassedOn(ds')) /\ ended' = "no"
  <2>0. PICK x : x = PassedOn(ds')
    OBVIOUS
  <2>1. x = PassedOn(ds') /\ x.depth = ds'.node.depth
    BY <2>0 DEF PassedOn
  <2>2. /\ L \in Nat /\ L' = L + 1 /\ passed'[L + 1] = x
        /\ \A k \in 1 .. L : passed'[k] = passed[k] /\ ParentOf(k)' = ParentOf(k)
        /\ HasSiblings => HasSiblings'
    BY <1>1, <1>4, <2>1, PathStays
  <2>3. passed' # passed /\ phase' = "receive" /\ ended' = "no"
    <3>1. passed' # passed
      BY <2>2 DEF L
    <3> QED BY <1>4, <3>1 DEF InboundEvent, GoesTo
  <2>4. ds'.node.depth = passed'[L'].depth
    BY <2>1, <2>2
  <2>5. ASSUME ~HasSiblings PROVE GivenRelations' /\ FirstParents'
    <3>1. /\ relations = {} /\ slot[0].depth \in Nat
          /\ \A k \in 0 .. Size : RightParent(slot[k])
          /\ OpenStacked(stack, in)
          /\ in # 0 => slot[in].depth = passed[in].depth
      BY <1>1, <2>5 DEF ParentInv, FirstParents
    <3>2. GivenRelations'
      BY <1>1, <3>1 DEF GivenRelations
    <3>3. \A k \in 0 .. Size : RightParent(slot[k])'
      <4> SUFFICES ASSUME NEW k \in 0 .. Size PROVE RightParent(slot[k])'
        OBVIOUS
      <4>1. /\ slot[k].id \in 0 .. L
            /\ slot[k].parent = IF slot[k].id = 0 THEN 0 ELSE ParentOf(slot[k].id)
        BY <3>1 DEF RightParent
      <4>2. PICK i \in 0 .. L : i = slot[k].id
        BY <4>1
      <4>3. i \in 0 .. L' /\ (i # 0 => ParentOf(i)' = ParentOf(i))
        BY <2>2
      <4>4. slot'[k].id = i /\ slot'[k].parent = IF i = 0 THEN 0 ELSE ParentOf(i)'
        BY <1>1, <4>1, <4>2, <4>3
      <4> QED BY <4>2, <4>3, <4>4 DEF RightParent, ParentOf
    <3>4. OpenStacked(stack, in)'
      <4>1. in # 0 => in \in 1 .. L
        BY <1>1, <2>2
      <4>2. Len(stack') = IF in' = 0 THEN 0 ELSE passed'[in'].depth
        BY <1>1, <2>2, <3>1, <4>1 DEF OpenStacked
      <4>3. ASSUME NEW d \in 1 .. Len(stack') PROVE IsLatest(stack[d], d, in)'
        <5>1. IsLatest(stack[d], d, in)
          BY <1>1, <3>1 DEF OpenStacked
        <5>2. PICK y : y = stack[d]
          OBVIOUS
        <5>3. /\ y \in 1 .. L /\ IsCollection(passed[y]) /\ passed[y].depth = d
              /\ \A j \in y + 1 .. L : ~(IsCollection(passed[j]) /\ passed[j].depth = d)
          BY <1>1, <5>1, <5>2 DEF IsLatest
        <5>4. \A j \in y + 1 .. L : j \in 1 .. L
          BY <2>2, <5>3
        <5>5. /\ IsCollection(passed'[y]) /\ passed'[y].depth = d
              /\ \A j \in y + 1 .. L : ~(IsCollection(passed'[j]) /\ passed'[j].depth = d)
          BY <2>2, <5>3, <5>4
        <5> QED BY <1>1, <5>2, <5>3, <5>5 DEF IsLatest, IsCollection
      <4> QED BY <1>1, <3>1, <4>2, <4>3 DEF OpenStacked
    <3>5. in' # 0 => slot'[in'].depth = passed'[in'].depth
      <4>1. in # 0 => in \in 1 .. L
        BY <1>1, <2>2
      <4> QED BY <1>1, <2>2, <3>1, <4>1
    <3> QED BY <1>1, <3>1, <3>2, <3>3, <3>4, <3>5 DEF FirstParents
  <2> QED BY <2>2, <2>3, <2>4, <2>5 DEF ParentInv
<1> QED BY <1>2, <1>3, <1>4 DEF PassesOn

\* What an enqueue does to the stack and to the parent of its node.
LEMMA EnqueueParents ==
  ASSUME in \in 0 .. Size, out = 0, DOMAIN slot = 0 .. Size, Size \in Nat \ {0},
         NEW n, n = CollectedNode, Queue!Enqueue(n)
  PROVE  /\ queue_status' \in {"OKAY", "NODES_TOO_SHALLOW"} =>
              \A k \in 0 .. Size : k # in + 1 => slot'[k] = slot[k]
         /\ queue_status' = "OKAY" =>
              /\ ~Queue!PopsTooFar(n) /\ ~Queue!FollowsNull(n)
              /\ stack' = Queue!StackFor(n)
              /\ slot'[in + 1].depth = n.depth /\ slot'[in + 1].parent = Queue!ParentFor(n)
         /\ queue_status' = "NODES_TOO_SHALLOW" =>
              /\ Queue!PopsTooFar(n) /\ ~Queue!FollowsNull(n)
              /\ slot'[in + 1].parent = 0
<1>1. /\ Queue!IsFull <=> in = Size
      /\ in # Size => Queue!NextIn = in + 1 /\ in + 1 \in 0 .. Size
  BY DEF Queue!IsFull, Queue!MayStepUp, Queue!MayWrap, Queue!NextIn
<1>2. n.parent = 0
  BY DEF CollectedNode
<1>3. CASE queue_status' = "OKAY"
  <2>1. Queue!EnqueueStored(n)
    BY <1>3 DEF Queue!Enqueue, Queue!EnqueueFull, Queue!EnqueueRefused, Queue!EnqueueAborted,
                Queue!EnqueueTooShallow, Queue!EnqueueWithoutStack, Queue!EnqueueNullValue
  <2>2. PICK k, v : Queue!Place(n, k, v)
    BY <2>1 DEF Queue!EnqueueStored
  <2>3. PICK m : m = [n EXCEPT !.parent = Queue!ParentFor(n), !.key = k, !.value = v]
    OBVIOUS
  <2>4. m.depth = n.depth /\ m.parent = Queue!ParentFor(n)
    BY <2>3 DEF CollectedNode
  <2>5. /\ ~Queue!PopsTooFar(n) /\ ~Queue!FollowsNull(n) /\ in # Size
        /\ stack' = Queue!StackFor(n) /\ slot' = [slot EXCEPT ![in + 1] = m]
    BY <1>1, <2>2, <2>3 DEF Queue!Place
  <2> QED BY <1>1, <1>3, <2>4, <2>5
<1>4. CASE queue_status' = "NODES_TOO_SHALLOW"
  <2>1. Queue!EnqueueTooShallow(n)
    BY <1>4 DEF Queue!Enqueue, Queue!EnqueueFull, Queue!EnqueueRefused, Queue!EnqueueAborted,
                Queue!EnqueueStored, Queue!EnqueueWithoutStack, Queue!EnqueueNullValue
  <2>2. /\ Queue!PopsTooFar(n) /\ in # Size /\ slot' = [slot EXCEPT ![in + 1] = n]
    BY <1>1, <2>1 DEF Queue!EnqueueTooShallow
  <2>3. ~Queue!FollowsNull(n)
    BY <2>2 DEF Queue!PopsTooFar, Queue!FollowsNull
  <2> QED BY <1>1, <1>2, <1>4, <2>2, <2>3
<1> QED BY <1>3, <1>4

LEMMA ReceiveParents == RunInv /\ PathInv /\ ParentInv /\ Receive => ParentInv'
<1> SUFFICES ASSUME RunInv, PathInv, ParentInv, Receive PROVE ParentInv'
  OBVIOUS
<1>1. PICK n : n = CollectedNode
  OBVIOUS
<1>2. /\ Size \in Nat \ {0} /\ in \in 0 .. Size /\ DOMAIN slot = 0 .. Size /\ out = 0
      /\ L \in Nat /\ phase = "receive" /\ ended # "failed"
      /\ in = 0 => stack = <<>>
      /\ in = IF ended = "no" THEN L - 1 ELSE L
  BY RunAssumption DEF RunInv, TransferInv, FirstLoop, NumberInv, Receive, L
<1>3. /\ Queue!Enqueue(n) /\ AfterReceive
      /\ ds' = ds /\ ended' = ended /\ passed' = passed /\ relations' = relations
  BY <1>1 DEF Receive, driverVars, tables
<1>4. /\ n.id = ds.node.id + 1 /\ n.depth = ds.node.depth
      /\ n.kind = "collection" <=> ds.node.kind \in Collections
      /\ n.value # "none" => n.kind = "string"
  <2>1. (ds.node.value # NoText => ds.node.kind = "string") /\ ds.node.kind # "collection"
    BY DEF RunInv, NumberInv, IsKind, Collections
  <2> QED BY <1>1, <2>1 DEF CollectedNode, PlaceOf, Collections
<1>5. /\ queue_status' = "NODES_TOO_SHALLOW" => stack # <<>>
      /\ queue_status' \in {"OKAY", "NODES_TOO_SHALLOW"} =>
              in' = in + 1 /\ slot'[in + 1].id = n.id
  BY <1>1, <1>2, <1>3, <1>4, EnqueueAtFirst
<1>6. /\ queue_status' \in {"OKAY", "NODES_TOO_SHALLOW"} =>
           \A k \in 0 .. Size : k # in + 1 => slot'[k] = slot[k]
      /\ queue_status' = "OKAY" =>
           /\ ~Queue!PopsTooFar(n) /\ ~Queue!FollowsNull(n)
           /\ stack' = Queue!StackFor(n)
           /\ slot'[in + 1].depth = n.depth /\ slot'[in + 1].parent = Queue!ParentFor(n)
      /\ queue_status' = "NODES_TOO_SHALLOW" =>
           /\ Queue!PopsTooFar(n) /\ ~Queue!FollowsNull(n)
           /\ slot'[in + 1].parent = 0
  BY <1>1, <1>2, <1>3, EnqueueParents
<1>7. /\ L' = L /\ HasSiblings' = HasSiblings /\ GivenRelations' = GivenRelations
      /\ \A k \in 1 .. L : ParentOf(k)' = ParentOf(k)
  BY <1>3 DEF L, HasSiblings, GivenRelations, ParentOf
<1>8. \/ queue_status' = "OKAY" /\ phase' = "dispatch"
      \/ queue_status' = "NODES_TOO_SHALLOW" /\ phase' = "send"
      \/ phase' = "returned"
  BY <1>3 DEF AfterReceive, GoesTo, Dies, Returns
<1>9. L >= 1 => n.id = L /\ (n.kind = "collection" <=> IsCollection(passed[L]))
  <2>1. L >= 1 => passed # <<>>
    BY EmptySeq DEF L
  <2>2. L >= 1 => ds.node.id + 1 = L
    BY <1>2, <2>1 DEF RunInv, NumberInv, LastProduced, L
  <2>3. L >= 1 => ds.node.kind = passed[L].kind
    BY <1>2, <2>1 DEF PathInv, L
  <2> QED BY <1>4, <2>2, <2>3 DEF IsCollection
<1>10. ASSUME ~HasSiblings, queue_status' \in {"OKAY", "NODES_TOO_SHALLOW"}
       PROVE  /\ GivenRelations /\ relations = {} /\ slot'[0].depth \in Nat
              /\ \A k \in 0 .. Size : k # in + 1 => RightParent(slot'[k])
              /\ ended = "no" => RightParent(slot'[in + 1])
              /\ (ended = "no" /\ queue_status' = "OKAY") =>
                   /\ OpenStacked(stack', in')
                   /\ slot'[in'].depth = passed[in'].depth
              /\ (ended # "no" /\ queue_status' = "NODES_TOO_SHALLOW") =>
                   LastAgain(slot'[in + 1])
  <2>1. /\ GivenRelations /\ relations = {} /\ slot[0].depth \in Nat
        /\ \A k \in 0 .. Size : RightParent(slot[k])
        /\ ended = "no" => /\ OpenStacked(stack, in)
                           /\ in # 0 => slot[in].depth = passed[in].depth
    BY <1>2, <1>10 DEF ParentInv, FirstParents
  <2>2. 0 \in 0 .. Size /\ 0 # in + 1
    BY <1>2
  <2>3. slot'[0] = slot[0]
    BY <1>6, <1>10, <2>2
  <2>4. \A k \in 0 .. Size : k # in + 1 => RightParent(slot'[k])
    BY <1>6, <1>10, <2>1
  <2>5. ASSUME ended = "no"
        PROVE  /\ RightParent(slot'[in + 1])
               /\ queue_status' = "OKAY" => /\ OpenStacked(stack', in')
                                            /\ slot'[in'].depth = passed[in'].depth
    <3>1. L \in Nat \ {0} /\ in = L - 1 /\ in + 1 = L
      BY <1>2, <2>5
    <3>2. n.depth = passed[L].depth
      BY <1>2, <1>4, <2>5 DEF ParentInv
    <3>3. IF in = 0 THEN slot[0].depth \in Nat ELSE slot[in].depth = passed[in].depth
      BY <2>1, <2>5
    <3>4. ~Queue!FollowsNull(n)
      BY <1>6, <1>10
    <3>5. n.id = L /\ (n.kind = "collection" <=> IsCollection(passed[L]))
      BY <1>9, <3>1
    <3>6. OpenStacked(stack, in)
      BY <2>1, <2>5
    <3>7. /\ ~Queue!PopsTooFar(n) => /\ Queue!ParentFor(n) = ParentOf(L)
                                     /\ OpenStacked(Queue!StackFor(n), L)
          /\ Queue!PopsTooFar(n) => ParentOf(L) = 0
      BY <1>10, <3>1, <3>2, <3>3, <3>4, <3>5, <3>6, StackFollowsPath
    <3>8. slot'[in + 1].id = L /\ slot'[in + 1].parent = ParentOf(L)
      BY <1>5, <1>6, <1>10, <3>5, <3>7
    <3>9. RightParent(slot'[in + 1])
      BY <3>1, <3>8 DEF RightParent
    <3>10. in' = L
      BY <1>5, <1>10, <3>1
    <3>11. ASSUME queue_status' = "OKAY"
           PROVE  OpenStacked(stack', in') /\ slot'[in'].depth = passed[in'].depth
      BY <1>6, <3>1, <3>2, <3>7, <3>10, <3>11
    <3> QED BY <3>9, <3>11
  <2>6. ASSUME ended # "no", queue_status' = "NODES_TOO_SHALLOW"
        PROVE  LastAgain(slot'[in + 1])
    <3>1. L >= 1
      BY <1>2, <1>5, <2>6
    <3> QED BY <1>5, <1>6, <1>9, <2>6, <3>1 DEF LastAgain
  <2> QED BY <2>1, <2>3, <2>4, <2>5, <2>6
<1>11. ASSUME ~HasSiblings, phase' = "dispatch" PROVE FirstParents' /\ GivenRelations'
  <2>1. queue_status' = "OKAY"
    BY <1>8, <1>11
  <2>2. ended = "no" => OpenStacked(stack, in)'
    <3>1. ended = "no" => OpenStacked(stack', in')
      BY <1>10, <1>11, <2>1
    <3> QED BY <1>3, <3>1 DEF OpenStacked, IsLatest
  <2>3. ended = "no" => \A k \in 0 .. Size : RightParent(slot[k])'
    <3> SUFFICES ASSUME ended = "no", NEW k \in 0 .. Size PROVE RightParent(slot[k])'
      OBVIOUS
    <3>1. RightParent(slot'[k])
      <4>1. CASE k = in + 1
        BY <1>10, <1>11, <2>1, <4>1
      <4>2. CASE k # in + 1
        BY <1>10, <1>11, <2>1, <4>2
      <4> QED BY <4>1, <4>2
    <3> QED BY <1>3, <3>1 DEF RightParent, ParentOf, L
  <2>4. slot'[0].depth \in Nat /\ relations' = {}
    BY <1>3, <1>10, <1>11, <2>1
  <2>5. ended = "no" => (in' # 0 => slot'[in'].depth = passed'[in'].depth)
    BY <1>3, <1>10, <1>11, <2>1
  <2> QED BY <1>3, <1>7, <1>11, <1>10, <2>1, <2>2, <2>3, <2>4, <2>5 DEF FirstParents
<1>12. ASSUME ~HasSiblings, phase' = "send" PROVE SecondParents' /\ GivenRelations'
  <2>1. queue_status' = "NODES_TOO_SHALLOW"
    BY <1>8, <1>12
  <2>2. \A k \in 0 .. Size : MayRelate(slot[k])'
    <3> SUFFICES ASSUME NEW k \in 0 .. Size PROVE MayRelate(slot[k])'
      OBVIOUS
    <3>1. RightParent(slot'[k]) \/ LastAgain(slot'[k])
      <4>1. CASE k = in + 1
        <5>1. ended = "no" => RightParent(slot'[k])
          BY <1>10, <1>12, <2>1, <4>1
        <5>2. ended # "no" => LastAgain(slot'[k])
          BY <1>10, <1>12, <2>1, <4>1
        <5> QED BY <5>1, <5>2
      <4>2. CASE k # in + 1
        BY <1>10, <1>12, <2>1, <4>2
      <4> QED BY <4>1, <4>2
    <3>2. RightParent(slot[k])' \/ LastAgain(slot[k])'
      BY <1>3, <3>1 DEF RightParent, LastAgain, ParentOf, L
    <3> QED BY <3>2 DEF MayRelate
  <2> QED BY <1>7, <1>10, <1>12, <2>1, <2>2 DEF SecondParents
<1>13. ~HasSiblings => GivenRelations'
  BY <1>2, <1>7 DEF ParentInv
<1> QED BY <1>7, <1>8, <1>11, <1>12, <1>13 DEF ParentInv

LEMMA AtEndParents == ParentInv /\ InboundAtEnd => ParentInv'
<1> SUFFICES ASSUME ParentInv, InboundAtEnd PROVE ParentInv'
  OBVIOUS
<1>1. phase' = "returned" /\ passed' = passed /\ relations' = relations
  BY DEF InboundAtEnd, Returns, driverVars, tables
<1>2. HasSiblings' = HasSiblings /\ GivenRelations' = GivenRelations
  BY <1>1 DEF HasSiblings, GivenRelations, ParentOf, L
<1> QED BY <1>1, <1>2 DEF ParentInv

\* A slot that has been read is reset, and one that is read may be any.
LEMMA SendParents == RunInv /\ ParentInv /\ Send => ParentInv'
<1> SUFFICES ASSUME RunInv, ParentInv, Send PROVE ParentInv'
  OBVIOUS
<1>1. /\ Size \in Nat \ {0} /\ in \in 0 .. Size /\ out \in 0 .. Size
      /\ DOMAIN slot = 0 .. Size /\ L \in Nat /\ phase = "send"
  BY RunAssumption DEF RunInv, TransferInv, NumberInv, Send, L
<1>2. /\ passed' = passed /\ relations' = relations
      /\ out' = Queue!NextOut /\ node_out' = slot[out']
      /\ slot' = [slot EXCEPT ![out] = Queue!Reset(@)]
      /\ phase' \in {"store", "returned"}
  BY DEF Send, Queue!Dequeue, driverVars, tables, Returns, Dies, GoesTo
<1>3. out' \in 0 .. Size
  BY <1>1, <1>2 DEF Queue!NextOut, Queue!MayReadUp
<1>4. HasSiblings' = HasSiblings /\ GivenRelations' = GivenRelations
  BY <1>2 DEF HasSiblings, GivenRelations, ParentOf, L
<1>5. ASSUME ~HasSiblings PROVE GivenRelations /\ SecondParents'
  <2>1. GivenRelations /\ \A k \in 0 .. Size : MayRelate(slot[k])
    BY <1>1, <1>5 DEF ParentInv, SecondParents
  <2>2. slot'[out].id = 0 /\ slot'[out].parent = 0
    BY <1>1, <1>2 DEF Queue!Reset, Queue!Blank
  <2>3. \A k \in 0 .. Size : k # out => slot'[k] = slot[k]
    BY <1>1, <1>2
  <2>4. \A k \in 0 .. Size : MayRelate(slot[k])'
    <3> SUFFICES ASSUME NEW k \in 0 .. Size PROVE MayRelate(slot[k])'
      OBVIOUS
    <3>1. CASE k = out
      BY <1>1, <1>2, <2>2, <3>1 DEF MayRelate, RightParent, L
    <3>2. CASE k # out
      <4>1. slot'[k] = slot[k] /\ MayRelate(slot[k])
        BY <2>1, <2>3, <3>2
      <4> QED BY <1>2, <4>1 DEF MayRelate, RightParent, LastAgain, ParentOf, L
    <3> QED BY <3>1, <3>2
  <2>5. MayRelate(node_out)'
    <3>1. PICK k \in 0 .. Size : k = out'
      BY <1>3
    <3>2. MayRelate(slot[k])
      BY <2>1
    <3>3. node_out' = slot[k]
      BY <1>2, <3>1
    <3> QED BY <1>2, <3>2, <3>3 DEF MayRelate, RightParent, LastAgain, ParentOf, L
  <2> QED BY <2>1, <2>4, <2>5 DEF SecondParents
<1> QED BY <1>2, <1>4, <1>5 DEF ParentInv

LEMMA StoreParents == RunInv /\ ParentInv /\ Store => ParentInv'
<1> SUFFICES ASSUME RunInv, ParentInv, Store PROVE ParentInv'
  OBVIOUS
<1>1. L \in Nat /\ L >= 1 /\ phase = "store"
  BY DEF RunInv, TransferInv, SecondLoop, NumberInv, Store, L
<1>2. /\ passed' = passed /\ slot' = slot /\ node_out' = node_out /\ phase' = "send"
      /\ relations' = relations \/ relations' = relations \cup {Relation(node_out)}
  BY DEF Store, driverVars, queueVars, GoesTo, InsertRelation
<1>3. HasSiblings' = HasSiblings
  BY <1>2 DEF HasSiblings
<1>4. ASSUME ~HasSiblings PROVE GivenRelations' /\ SecondParents'
  <2>1. GivenRelations /\ (\A k \in 0 .. Size : MayRelate(slot[k])) /\ MayRelate(node_out)
    BY <1>1, <1>4 DEF ParentInv, SecondParents
  <2>2. PICK n : n = node_out
    OBVIOUS
  <2>3. PICK r : r = Relation(n)
    OBVIOUS
  <2>4. r = <<RowId(n.id), RowId(n.parent)>>
    BY <2>3 DEF Relation
  <2>5. r[2] = RowId(ParentOf(r[1] + 1)) \/ r = <<L - 1, 0>>
    <3>1. CASE RightParent(n) /\ n.id = 0
      <4>1. r[1] = 0 /\ r[2] = 0
        BY <2>4, <3>1 DEF RightParent, RowId
      <4>2. 1 .. 1 - 1 = {}
        OBVIOUS
      <4>3. ParentOf(1) = 0
        BY <4>2 DEF ParentOf
      <4>4. r[1] + 1 = 1
        BY <4>1
      <4> QED BY <4>1, <4>3, <4>4 DEF RowId
    <3>2. CASE RightParent(n) /\ n.id # 0
      <4>1. PICK i \in 1 .. L : i = n.id /\ n.parent = ParentOf(i)
        BY <1>1, <3>2 DEF RightParent
      <4>2. r[1] = i - 1 /\ r[2] = RowId(ParentOf(i))
        BY <2>4, <4>1 DEF RowId
      <4>3. r[1] + 1 = i
        BY <4>1, <4>2
      <4> QED BY <4>2, <4>3
    <3>3. CASE LastAgain(n)
      BY <1>1, <2>4, <3>3 DEF LastAgain, RowId
    <3> QED BY <2>1, <2>2, <3>1, <3>2, <3>3 DEF MayRelate
  <2>6. \A q \in relations' : q \in relations \/ q = r
    BY <1>2, <2>2, <2>3
  <2>7. GivenRelations'
    BY <1>2, <2>1, <2>5, <2>6 DEF GivenRelations, ParentOf, L
  <2>8. \A k \in 0 .. Size : MayRelate(slot[k])'
    BY <1>2, <2>1 DEF MayRelate, RightParent, LastAgain, ParentOf, L
  <2> QED BY <1>2, <2>7, <2>8 DEF SecondParents
<1> QED BY <1>2, <1>3, <1>4 DEF ParentInv

LEMMA ParentInit == OpenRun => ParentInv
<1> SUFFICES ASSUME OpenRun PROVE ParentInv
  OBVIOUS
<1>1. /\ phase = "dispatch" /\ relations = {} /\ L = 0 /\ in = 0 /\ stack = <<>>
      /\ Size \in Nat /\ FreshDepths \subseteq Nat
  BY EmptySeq, RunAssumption DEF OpenRun, Init, L, Queue!OpenQueue
<1>2. PICK d \in FreshDepths : slot = [i \in 0 .. Size |-> Queue!Blank(d)]
  BY DEF OpenRun, Queue!OpenQueue, Queue!Slots
<1>3. \A k \in 0 .. Size : slot[k].id = 0 /\ slot[k].parent = 0 /\ slot[k].depth \in Nat
  BY <1>1, <1>2 DEF Queue!Blank
<1>4. OpenStacked(stack, in)
  <2>1. stack \in Seq(Nat) /\ Len(stack) = 0
    BY <1>1, EmptySeq
  <2>2. \A i \in 1 .. Len(stack) : FALSE
    BY <2>1
  <2> QED BY <1>1, <2>1, <2>2 DEF OpenStacked
<1>5. FirstParents
  <2>1. \A k \in 0 .. Size : RightParent(slot[k])
    BY <1>1, <1>3 DEF RightParent
  <2>2. 0 \in 0 .. Size
    BY <1>1
  <2> QED BY <1>1, <1>3, <1>4, <2>1, <2>2 DEF FirstParents
<1>6. GivenRelations
  BY <1>1 DEF GivenRelations
<1> QED BY <1>1, <1>5, <1>6 DEF ParentInv

RelationInv == RunInv /\ PathInv /\ ParentInv

LEMMA RelationInit == OpenRun => RelationInv
BY RunInit, PathInit, ParentInit DEF OpenRun, RelationInv

LEMMA RelationInductive == RelationInv /\ [RunNext]_runVars => RelationInv'
<1> SUFFICES ASSUME RelationInv, [RunNext]_runVars PROVE RelationInv'
  OBVIOUS
<1>1. RunInv' /\ PathInv'
  BY RunStepsDriver, RunInductive, PathInductive DEF RelationInv, RunInv
<1>2. CASE UNCHANGED runVars
  <2>1. /\ passed' = passed /\ slot' = slot /\ in' = in /\ stack' = stack
        /\ relations' = relations /\ node_out' = node_out /\ phase' = phase
        /\ ended' = ended /\ ds' = ds
    BY <1>2 DEF runVars, driverVars, queueVars, tables
  <2>2. HasSiblings' = HasSiblings /\ GivenRelations' = GivenRelations /\ L' = L
    BY <2>1 DEF HasSiblings, GivenRelations, ParentOf, L
  <2>3. OpenStacked(stack, in)' = OpenStacked(stack, in)
    BY <2>1 DEF OpenStacked, IsLatest
  <2>4. FirstParents' = FirstParents /\ SecondParents' = SecondParents
    BY <2>1, <2>2, <2>3 DEF FirstParents, SecondParents, MayRelate, RightParent, LastAgain,
                            ParentOf, L
  <2>5. ParentInv'
    BY <2>1, <2>2, <2>4 DEF ParentInv, RelationInv
  <2> QED BY <1>1, <2>5 DEF RelationInv
<1>3. CASE RunNext
  <2>1. ParentInv'
    BY <1>3, InboundParents, AtEndParents, ReceiveParents, SendParents, StoreParents
       DEF RunNext, RelationInv
  <2> QED BY <1>1, <2>1 DEF RelationInv
<1> QED BY <1>2, <1>3

\* Whatever the document and the size of the queue: as long as no collection follows its
\* sibling, every relation stored is one of a node and the collection it lies in, or of
\* the last node, sent once more, and node 0.
THEOREM RunRelations == RunSpec => []RelationsTrue
<1>1. RelationInv => RelationsTrue
  <2> SUFFICES ASSUME RelationInv, ~HasSiblings, NEW r \in relations
               PROVE  r[2] = RowId(ParentOf(r[1] + 1)) \/ r = <<Len(passed) - 1, 0>>
    BY DEF RelationsTrue
  <2>1. GivenRelations
    BY DEF RelationInv, ParentInv
  <2> QED BY <2>1 DEF GivenRelations, L
<1> QED BY <1>1, RelationInit, RelationInductive, PTL DEF RunSpec


-----------------------------------------------------------------------------
(* Types of the run: the queue keeps its own.                              *)

RowTypes ==
  /\ relations \subseteq (0 .. MaxNodes) \X (0 .. MaxNodes)
  /\ refused \subseteq 1 .. MaxNodes

RunTypeInv == RunInv /\ TypeInv /\ Queue!QueueType /\ RowTypes

LEMMA QueueNodeFields ==
  ASSUME NEW n \in Queue!Node
  PROVE  /\ n.id \in 0 .. MaxNodes /\ n.parent \in 0 .. MaxNodes /\ n.depth \in Nat
         /\ n.key \in Queue!Places /\ n.value \in Queue!Places
<1>1. Queue!Depths \cup FreshDepths \subseteq Nat
  BY DataSourceAssumption, RunAssumption DEF Queue!Depths
<1> QED BY <1>1 DEF Queue!Node, Queue!Ids

LEMMA QueueSlots ==
  ASSUME Queue!QueueType
  PROVE  /\ ~Queue!IsFull => Queue!NextIn \in Queue!Slots
         /\ in \in Queue!Slots /\ Queue!NextOut \in Queue!Slots
<1>1. Size \in Nat /\ in \in 0 .. Size /\ out \in 0 .. Size
  BY RunAssumption DEF Queue!QueueType, Queue!Slots
<1>2. Queue!NextOut \in 0 .. Size
  BY <1>1 DEF Queue!NextOut, Queue!MayReadUp
<1>3. ~Queue!IsFull => Queue!NextIn \in 0 .. Size
  BY <1>1 DEF Queue!IsFull, Queue!NextIn, Queue!MayStepUp, Queue!MayWrap
<1> QED BY <1>1, <1>2, <1>3 DEF Queue!Slots

\* The stack after a node that is not too shallow, and the node's parent from it.
LEMMA QueueStack ==
  ASSUME Queue!QueueType, NEW n \in Queue!Node, ~Queue!PopsTooFar(n), ~Queue!FollowsNull(n)
  PROVE  Queue!StackFor(n) \in Seq(Queue!Ids) /\ Queue!ParentFor(n) \in Queue!Ids
<1>1. stack \in Seq(Queue!Ids) /\ Len(stack) \in Nat /\ n.id \in Queue!Ids /\ n.depth \in Nat
  BY QueueNodeFields, LenProperties DEF Queue!QueueType, Queue!Ids
<1>2. Queue!Prev.depth \in Nat
  BY QueueNodeFields, QueueSlots DEF Queue!QueueType, Queue!Prev
<1>3. PICK s : s = Queue!StackFor(n)
  OBVIOUS
<1>4. s \in Seq(Queue!Ids)
  <2>1. CASE Queue!Rises(n)
    BY <1>1, <1>3, <2>1, AppendProperties DEF Queue!StackFor
  <2>2. CASE ~Queue!Rises(n)
    <3>1. Queue!Drop(n) \in 0 .. Len(stack)
      <4>1. CASE stack = <<>>
        BY <1>1, <1>2, <2>2, <4>1 DEF Queue!FollowsNull, Queue!Drop, Queue!Rises
      <4>2. CASE stack # <<>>
        BY <1>1, <1>2, <2>2, <4>2 DEF Queue!PopsTooFar, Queue!Drop, Queue!Rises
      <4> QED BY <4>1, <4>2
    <3>2. PICK m \in Nat : m = Len(stack) - Queue!Drop(n) /\ m <= Len(stack)
      BY <1>1, <3>1
    <3>3. SubSeq(stack, 1, m) \in Seq(Queue!Ids)
      <4>1. \A j \in 1 .. m : stack[j] \in Queue!Ids
        BY <1>1, <3>2, ElementOfSeq
      <4> QED BY <4>1, SubSeqProperties
    <3> QED BY <1>3, <2>2, <3>2, <3>3 DEF Queue!StackFor
  <2> QED BY <2>1, <2>2
<1>5. \A k \in {0, 1} : Queue!FromTop(s, k) \in Queue!Ids
  <2>1. ASSUME NEW k \in {0, 1}, Len(s) > k PROVE s[Len(s) - k] \in Queue!Ids
    <3>1. Len(s) \in Nat
      BY <1>4, LenProperties
    <3>2. Len(s) - k \in 1 .. Len(s)
      BY <2>1, <3>1
    <3> QED BY <1>4, <3>2, ElementOfSeq
  <2>2. 0 \in Queue!Ids
    BY RunAssumption DEF Queue!Ids
  <2> QED BY <2>1, <2>2 DEF Queue!FromTop
<1> QED BY <1>3, <1>4, <1>5 DEF Queue!ParentFor

\* What an enqueue that places a node leaves of the string buffer.
LEMMA QueueTexts ==
  ASSUME Queue!QueueType, NEW n
  PROVE  /\ write_a \in 0 .. TextLast
         /\ ~Queue!KeyRefused(n) => Queue!AfterKey(n) \in 0 .. TextLast
         /\ ~Queue!KeyRefused(n) /\ ~Queue!ValueRefused(n) =>
              Queue!AfterText(n) \in 0 .. TextLast
<1>1. /\ write_a \in 0 .. TextLast
      /\ KeyLen \in Nat /\ ValueLen \in Nat /\ TextLast \in Nat
  BY RunAssumption DEF Queue!QueueType
<1>2. ~Queue!KeyRefused(n) => Queue!AfterKey(n) \in 0 .. TextLast
  BY <1>1 DEF Queue!AfterKey, Queue!KeyRefused, Queue!Room
<1>3. ~Queue!KeyRefused(n) /\ ~Queue!ValueRefused(n) => Queue!AfterText(n) \in 0 .. TextLast
  BY <1>1, <1>2 DEF Queue!AfterText, Queue!ValueRefused, Queue!Room
<1> QED BY <1>1, <1>2, <1>3

LEMMA EnqueueQueueType ==
  ASSUME Queue!QueueType, NEW n \in Queue!Node, Queue!Enqueue(n)
  PROVE  Queue!QueueType'
<1>1. /\ in \in Queue!Slots /\ out \in Queue!Slots /\ slot \in [Queue!Slots -> Queue!Node]
      /\ collection_end \in [Queue!Slots -> BOOLEAN] /\ stack \in Seq(Queue!Ids)
      /\ node_out \in Queue!Node
  BY DEF Queue!QueueType
<1>2. /\ n.key \in Queue!Places /\ n.value \in Queue!Places
      /\ Queue!MovedKey(n) \in Queue!Places /\ Queue!MovedValue(n) \in Queue!Places
  BY QueueNodeFields DEF Queue!MovedKey, Queue!MovedValue, Queue!Places
<1>3. CASE Queue!EnqueueFull(n)
  BY <1>3, QueueTexts DEF Queue!EnqueueFull, Queue!queueVars, Queue!Statuses, Queue!QueueType
<1>4. ASSUME NEW k \in Queue!Places, NEW v \in Queue!Places, Queue!Place(n, k, v),
             write_a' \in 0 .. TextLast, queue_status' \in Queue!Statuses
      PROVE  Queue!QueueType'
  <2>1. /\ Queue!NextIn \in Queue!Slots
        /\ Queue!StackFor(n) \in Seq(Queue!Ids) /\ Queue!ParentFor(n) \in Queue!Ids
    BY <1>4, QueueSlots, QueueStack DEF Queue!Place
  <2>2. [n EXCEPT !.parent = Queue!ParentFor(n), !.key = k, !.value = v] \in Queue!Node
    BY <2>1 DEF Queue!Node
  <2>3. slot' \in [Queue!Slots -> Queue!Node] /\ collection_end' \in [Queue!Slots -> BOOLEAN]
    BY <1>1, <1>4, <2>1, <2>2 DEF Queue!Place, Queue!MarksPrev
  <2> QED BY <1>1, <1>4, <2>1, <2>3 DEF Queue!Place, Queue!QueueType
<1>5. CASE Queue!EnqueueStored(n)
  BY <1>2, <1>4, <1>5, QueueTexts DEF Queue!EnqueueStored, Queue!Statuses
<1>6. CASE Queue!EnqueueRefused(n)
  <2>1. queue_status' \in Queue!Statuses
    BY <1>6 DEF Queue!EnqueueRefused, Queue!Statuses
  <2>2. CASE Queue!KeyRefused(n) /\ Queue!Place(n, n.key, n.value) /\ UNCHANGED write_a
    BY <1>2, <1>4, <2>1, <2>2, QueueTexts
  <2>3. CASE Queue!ValueRefused(n) /\ Queue!Place(n, Queue!MovedKey(n), n.value)
             /\ write_a' = Queue!AfterKey(n)
    <3>1. ~Queue!KeyRefused(n)
      BY <2>3 DEF Queue!ValueRefused
    <3> QED BY <1>2, <1>4, <2>1, <2>3, <3>1, QueueTexts
  <2> QED BY <1>6, <2>2, <2>3 DEF Queue!EnqueueRefused
<1>7. CASE Queue!EnqueueAborted(n)
  BY <1>2, <1>4, <1>7, QueueTexts DEF Queue!EnqueueAborted, Queue!Statuses
<1>8. CASE Queue!EnqueueNullValue(n)
  BY <1>2, <1>4, <1>8, QueueTexts DEF Queue!EnqueueNullValue, Queue!Statuses
<1>9. CASE Queue!EnqueueTooShallow(n)
  <2>1. Queue!NextIn \in Queue!Slots
    BY <1>9, QueueSlots DEF Queue!EnqueueTooShallow
  <2>2. SubSeq(stack, 1, 1) \in Seq(Queue!Ids)
    <3>1. stack # <<>>
      BY <1>9 DEF Queue!EnqueueTooShallow, Queue!PopsTooFar
    <3>2. Len(stack) \in Nat \ {0}
      BY <1>1, <3>1, EmptySeq
    <3>3. \A i \in 1 .. 1 : stack[i] \in Queue!Ids
      BY <1>1, <3>2, ElementOfSeq
    <3> QED BY <3>3, SubSeqProperties
  <2>3. slot' \in [Queue!Slots -> Queue!Node] /\ collection_end' \in [Queue!Slots -> BOOLEAN]
    BY <1>1, <1>9, <2>1 DEF Queue!EnqueueTooShallow, Queue!MarksPrev
  <2> QED BY <1>1, <1>9, <2>1, <2>2, <2>3, QueueTexts
          DEF Queue!EnqueueTooShallow, Queue!Statuses, Queue!QueueType
<1>10. CASE Queue!EnqueueWithoutStack(n)
  <2>1. Queue!NextIn \in Queue!Slots
    BY <1>10, QueueSlots DEF Queue!EnqueueWithoutStack
  <2>2. slot' \in [Queue!Slots -> Queue!Node] /\ collection_end' \in [Queue!Slots -> BOOLEAN]
    BY <1>1, <1>10, <2>1 DEF Queue!EnqueueWithoutStack, Queue!MarksPrev
  <2> QED BY <1>1, <1>10, <2>1, <2>2, QueueTexts
          DEF Queue!EnqueueWithoutStack, Queue!Statuses, Queue!QueueType
<1> QED BY <1>3, <1>5, <1>6, <1>7, <1>8, <1>9, <1>10 DEF Queue!Enqueue

LEMMA DequeueQueueType ==
  ASSUME Queue!QueueType, Queue!Dequeue
  PROVE  Queue!QueueType'
<1>1. /\ in \in Queue!Slots /\ out \in Queue!Slots /\ slot \in [Queue!Slots -> Queue!Node]
      /\ collection_end \in [Queue!Slots -> BOOLEAN] /\ stack \in Seq(Queue!Ids)
      /\ write_a \in 0 .. TextLast
  BY DEF Queue!QueueType
<1>2. slot[Queue!NextOut] \in Queue!Node /\ Queue!NextOut \in Queue!Slots
  BY <1>1, QueueSlots
<1>3. Queue!Reset(slot[out]) \in Queue!Node
  <2>1. slot[out] \in Queue!Node /\ 0 \in Queue!Ids
    BY <1>1, RunAssumption DEF Queue!Ids
  <2> QED BY <2>1 DEF Queue!Reset, Queue!Blank, Queue!Node, Queue!Places
<1>4. slot' \in [Queue!Slots -> Queue!Node] /\ collection_end' \in [Queue!Slots -> BOOLEAN]
  BY <1>1, <1>3 DEF Queue!Dequeue
<1> QED BY <1>1, <1>2, <1>4 DEF Queue!Dequeue, Queue!QueueType, Queue!Statuses

\* The node that is passed to the queue: the blank one of a stream without nodes has the
\* first id.
LEMMA CollectedIsNode ==
  ASSUME RunTypeInv, phase = "receive"
  PROVE  CollectedNode \in Queue!Node
<1>1. /\ ended # "failed" /\ DataSourceType(ds) /\ ds.sequence <= MaxNodes
      /\ Len(passed) <= ds.sequence /\ MaxNodes \in Nat \ {0}
  BY RunAssumption DEF RunTypeInv, RunInv, TransferInv, FirstLoop, TypeInv, TypeOK
<1>2. ds.node.id \in Nat /\ ds.sequence \in Nat
  BY DEF RunTypeInv, TypeInv, Typed
<1>3. ds.node.id + 1 \in 0 .. MaxNodes
  <2>1. CASE passed = <<>>
    <3>1. ds.sequence = 0 /\ ds.node.id <= ds.sequence
      BY <1>1, <2>1, EmptySeq DEF RunTypeInv, RunInv, NumberInv, DataSourceType
    <3> QED BY <1>1, <1>2, <3>1
  <2>2. CASE passed # <<>>
    <3>1. ds.node.id + 1 = Len(passed)
      BY <1>1, <2>2 DEF RunTypeInv, RunInv, NumberInv, LastProduced
    <3> QED BY <1>1, <1>2, <3>1
  <2> QED BY <2>1, <2>2
<1>4. /\ ds.node.depth \in 0 .. MaxDepth
      /\ ds.node.kind \in Collections \cup {"string", "unset"}
  BY <1>1 DEF DataSourceType
<1>5. 0 \in 0 .. MaxNodes
  BY <1>1
<1> QED BY <1>3, <1>4, <1>5 DEF CollectedNode, PlaceOf, Queue!Node, Queue!Ids, Queue!Depths,
                               Queue!Kinds, Queue!Places

LEMMA StoreRowTypes ==
  ASSUME RunTypeInv, Store
  PROVE  RowTypes'
<1>1. PICK n : n = node_out
  OBVIOUS
<1>2. n.id \in 0 .. MaxNodes /\ n.parent \in 0 .. MaxNodes /\ MaxNodes \in Nat \ {0}
  BY <1>1, QueueNodeFields, RunAssumption DEF RunTypeInv, Queue!QueueType
<1>3. RowId(n.id) \in 0 .. MaxNodes /\ RowId(n.parent) \in 0 .. MaxNodes /\ Row(n) \in 1 .. MaxNodes
  BY <1>2 DEF RowId, Row
<1>4. /\ relations' \in {relations, relations \cup {Relation(n)}}
      /\ refused' \in {refused, refused \ {Row(n)}, refused \cup {Row(n)}}
  BY <1>1 DEF Store, StoreNode, NodeIsThere, InsertNode, NodeFails, InsertRelation
<1>5. Relation(n) \in (0 .. MaxNodes) \X (0 .. MaxNodes)
  BY <1>3 DEF Relation
<1> QED BY <1>3, <1>4, <1>5 DEF RunTypeInv, RowTypes

LEMMA RunTypeInductive == RunTypeInv /\ [RunNext]_runVars => RunTypeInv'
<1> SUFFICES ASSUME RunTypeInv, [RunNext]_runVars PROVE RunTypeInv'
  OBVIOUS
<1>1. RunInv' /\ TypeInv'
  BY RunInductive, RunStepsDriver, TypeInductive DEF RunTypeInv, RunInv
<1>2. CASE InboundEvent \/ InboundAtEnd \/ UNCHANGED runVars
  <2>1. UNCHANGED <<queueVars, tables>>
    BY <1>2 DEF InboundEvent, InboundAtEnd, runVars
  <2>2. Queue!QueueType' /\ RowTypes'
    BY <2>1 DEF RunTypeInv, Queue!QueueType, RowTypes, queueVars, tables
  <2> QED BY <1>1, <2>2 DEF RunTypeInv
<1>3. CASE Receive
  <2>1. Queue!Enqueue(CollectedNode) /\ phase = "receive" /\ UNCHANGED tables
    BY <1>3 DEF Receive
  <2>2. Queue!QueueType'
    BY <2>1, CollectedIsNode, EnqueueQueueType DEF RunTypeInv
  <2>3. RowTypes'
    BY <2>1 DEF RunTypeInv, RowTypes, tables
  <2> QED BY <1>1, <2>2, <2>3 DEF RunTypeInv
<1>4. CASE Send
  <2>1. Queue!Dequeue /\ UNCHANGED tables
    BY <1>4 DEF Send
  <2>2. Queue!QueueType'
    BY <2>1, DequeueQueueType DEF RunTypeInv
  <2>3. RowTypes'
    BY <2>1 DEF RunTypeInv, RowTypes, tables
  <2> QED BY <1>1, <2>2, <2>3 DEF RunTypeInv
<1>5. CASE Store
  <2>1. RowTypes'
    BY <1>5, StoreRowTypes
  <2>2. Queue!QueueType'
    BY <1>5 DEF Store, RunTypeInv, Queue!QueueType, queueVars
  <2> QED BY <1>1, <2>1, <2>2 DEF RunTypeInv
<1> QED BY <1>2, <1>3, <1>4, <1>5 DEF RunNext

LEMMA RunTypeInit == OpenRun => RunTypeInv
<1> SUFFICES ASSUME OpenRun PROVE RunTypeInv
  OBVIOUS
<1>1. RunInv /\ TypeInv
  BY RunInit, TypeInit DEF OpenRun
<1>2. PICK d \in FreshDepths : slot = [i \in 0 .. Size |-> Queue!Blank(d)]
  BY DEF OpenRun, Queue!OpenQueue, Queue!Slots
<1>3. /\ in = 0 /\ out = 0 /\ stack = <<>> /\ write_a = 0 /\ queue_status = "OKAY"
      /\ node_out = Queue!Blank(0) /\ collection_end \in [Queue!Slots -> BOOLEAN]
      /\ relations = {} /\ refused = {}
  BY DEF OpenRun, Queue!OpenQueue
<1>4. /\ 0 \in Queue!Ids /\ 0 \in Queue!Slots /\ 0 \in 0 .. TextLast
      /\ 0 \in Queue!Depths
  BY RunAssumption, DataSourceAssumption DEF Queue!Ids, Queue!Slots, Queue!Depths
<1>5. Queue!Blank(d) \in Queue!Node /\ Queue!Blank(0) \in Queue!Node
  BY <1>4 DEF Queue!Blank, Queue!Node, Queue!Places
<1>6. slot \in [Queue!Slots -> Queue!Node] /\ stack \in Seq(Queue!Ids)
  BY <1>2, <1>3, <1>5, EmptySeq DEF Queue!Slots
<1>7. Queue!QueueType
  BY <1>3, <1>4, <1>5, <1>6 DEF Queue!QueueType, Queue!Statuses
<1> QED BY <1>1, <1>3, <1>7 DEF RunTypeInv, RowTypes

\* In a run too the driver, the queue and the tables keep their types: node ids, parents
\* and rows stay within those of the nodes passed on, whatever the sizes of the queue and
\* of its buffers and however a call ends.
THEOREM RunTypes == RunSpec => []RunType
<1>1. RunTypeInv => RunType
  BY DEF RunTypeInv, RunType, RunInv, TypeInv, TransferInv, RowTypes
<1> QED BY <1>1, RunTypeInit, RunTypeInductive, PTL DEF RunSpec
=============================================================================
