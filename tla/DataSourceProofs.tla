-------------------------- MODULE DataSourceProofs --------------------------
(***************************************************************************)
(* Proofs about the boundary, for every size that is large enough to hold  *)
(* anything and every text, and about the data source that uses it.        *)
(***************************************************************************)
EXTENDS BoundaryCalls, DataSourceCalls, DataSourceLemmas

-----------------------------------------------------------------------------
(* The layout that open_oly_boundary makes.                                *)

LEMMA EveryLayoutFits ==
  ASSUME NEW size \in Sizes
  PROVE  LayoutFits(size)
<1>1. PICK third \in Nat :
        /\ third >= 3
        /\ size = 3 * third + (size % 3) /\ size % 3 \in 0 .. 2
        /\ CEnd(size) = third - 2 /\ OEnd(size) = third - 2
        /\ OStart(size) = third /\ OEndByte(size) = 3 * third - 4
        /\ Allocated(size) = 3 * third
  BY Thirds
<1>2. OEndByte(size) + 2 * OCharSize <= Allocated(size)
  BY <1>1 DEF OCharSize
<1>3. CEnd(size) + (OEndByte(size) - OStart(size)) < size
  BY <1>1
<1>4. ZeroedGap(size) \subseteq 0 .. Allocated(size) - 1
  <2>1. \A i \in ZeroedGap(size) : i \in Int /\ third - 1 <= i /\ i <= third - 1
    BY <1>1 DEF ZeroedGap
  <2> QED BY <1>1, <2>1
<1>5. OEndByte(size) .. OEndByte(size) + 2 * OCharSize - 1 \subseteq ZeroedTail(size)
  BY <1>1 DEF ZeroedTail, OCharSize
<1> QED
  BY <1>1, <1>2, <1>3, <1>4, <1>5 DEF LayoutFits

\* What open_oly_boundary zeroes behind its allocation is as many bytes as the size is
\* over a multiple of three: NothingOverflows holds for such multiples only, and for
\* the 1024 bytes of the program one byte is written that belongs to something else.
THEOREM OverrunIsRemainder ==
  ASSUME NEW size \in Sizes
  PROVE  /\ ZeroedTail(size) \ (0 .. Allocated(size) - 1)
              = Allocated(size) .. Allocated(size) + (size % 3) - 1
         /\ ZeroesInside(size) <=> size % 3 = 0
<1>1. PICK third \in Nat :
        /\ third >= 3
        /\ size = 3 * third + (size % 3) /\ size % 3 \in 0 .. 2
        /\ OEndByte(size) = 3 * third - 4
        /\ Allocated(size) = 3 * third
  BY Thirds
<1> DEFINE over == size % 3
<1> HIDE DEF over
<1>2. over \in 0 .. 2 /\ size = 3 * third + over
  BY <1>1 DEF over
<1>3. /\ \A i \in Int : i \in ZeroedTail(size) <=> 3 * third - 4 <= i /\ i <= 3 * third + over - 1
      /\ ZeroedTail(size) \subseteq Int
  BY <1>1, <1>2 DEF ZeroedTail
<1>4. ZeroedTail(size) \ (0 .. 3 * third - 1) = 3 * third .. 3 * third + over - 1
  BY <1>1, <1>2, <1>3
<1>5. ZeroedTail(size) \subseteq 0 .. 3 * third - 1 <=> over = 0
  <2>1. CASE over = 0
    BY <1>1, <1>3, <2>1
  <2>2. CASE over # 0
    <3>1. 3 * third \in ZeroedTail(size)
      BY <1>1, <1>2, <1>3, <2>2
    <3> QED BY <1>1, <2>2, <3>1
  <2> QED BY <2>1, <2>2
<1> QED
  BY <1>1, <1>4, <1>5 DEF over, ZeroesInside

-----------------------------------------------------------------------------
(* The texts in a boundary.                                                *)

Item == [text : Seq(Chars) \ {<<>>}, padded : BOOLEAN]
Spelling == [p \in Item |-> Spell(p.text, p.padded)]

\* What was put in is, once converted, the texts end to end, and what can still be got
\* out lies end to end from o_now on; only its last text may be padded.
BatchInv ==
  /\ IsBoundary(boundary)
  /\ pending \in Seq(Item) /\ ready \in Seq(Item)
  /\ Converted(boundary.chars) = Spread(Spelling, pending)
  /\ pending = <<>> <=> boundary.chars = <<>>
  /\ \A k \in 1 .. Len(ready) - 1 : ~ready[k].padded
  /\ ready # <<>> => HoldsAt(boundary, Spread(Spelling, ready), boundary.o_now)

BatchStep == [Batches!Next]_(Batches!vars)

LEMMA SpellingType ==
  /\ IsMap(Spelling, Item, Seq(Plain))
  /\ \A p \in Item : Spelling[p] = Spell(p.text, p.padded)
<1>1. ASSUME NEW p \in Item PROVE Spell(p.text, p.padded) \in Seq(Plain)
  <2>1. p.text \in Seq(Chars) /\ p.padded \in BOOLEAN
    BY DEF Item
  <2> QED BY <2>1, SourceSpells
<1> QED BY <1>1 DEF Spelling, IsMap

LEMMA BatchInit == OpenBoundary => BatchInv /\ Batches!Init
<1> SUFFICES ASSUME OpenBoundary PROVE BatchInv /\ Batches!Init
  OBVIOUS
<1>1. PICK size \in Sizes : boundary \in Opened(size)
  BY DEF OpenBoundary
<1>2. IsBoundary(boundary) /\ boundary.chars = <<>>
  BY <1>1, OpenedIsBoundary
<1>3. pending = <<>> /\ ready = <<>> /\ <<>> \in Seq(Item) /\ Len(<<>>) = 0
  BY EmptySeq DEF OpenBoundary
<1>4. Converted(<<>>) = Spread(Spelling, <<>>)
  BY ConvertedIs, SpreadEmpty, EmptySeq
<1> QED BY <1>2, <1>3, <1>4 DEF BatchInv, Batches!Init

LEMMA PutBatch ==
  ASSUME BatchInv, NEW text \in Texts, NEW padded \in BOOLEAN, Put(text, padded)
  PROVE  BatchInv' /\ BatchStep
<1>1. text \in Seq(Chars) /\ text # <<>>
  BY CallsAssumption
<1>2. PICK s : s = Source(text, padded)
  OBVIOUS
<1>3. s \in Seq(Coded) /\ s \o <<NUL>> \in Seq(Coded)
      /\ Converted(s \o <<NUL>>) = Spell(text, padded)
  BY <1>1, <1>2, SourceSpells
<1>4. PICK after : after = PutCharIn(boundary, s)
  OBVIOUS
<1>5. boundary' = after /\ UNCHANGED <<out, ready>>
  BY <1>2, <1>4 DEF Put
<1>6. /\ IsBoundary(after) /\ after.size = boundary.size
      /\ after.ochars = boundary.ochars /\ after.o_now = boundary.o_now
      /\ Refuses(boundary, s) => after = boundary
      /\ ~Refuses(boundary, s) => after.chars = boundary.chars \o s \o <<NUL>>
  BY <1>3, <1>4, PutKeeps DEF BatchInv
<1>7. ready' # <<>> => HoldsAt(after, Spread(Spelling, ready'), after.o_now)
  BY <1>5, <1>6 DEF BatchInv, HoldsAt
<1>8. CASE Refuses(boundary, s)
  <2>1. pending' = pending /\ status' = "BUFFER_OVERFLOW"
    BY <1>2, <1>8 DEF Put
  <2>2. BatchInv'
    BY <1>5, <1>6, <1>8, <2>1 DEF BatchInv
  <2> QED BY <1>5, <2>1, <2>2 DEF BatchStep, Batches!Next, Batches!Refuse
<1>9. CASE ~Refuses(boundary, s)
  <2>1. PICK item : item = [text |-> text, padded |-> padded]
    OBVIOUS
  <2>2. item \in Item /\ item.text = text /\ item.padded = padded
    BY <1>1, <2>1 DEF Item
  <2>3. pending' = Append(pending, item) /\ status' = "OKAY"
    BY <1>2, <1>9, <2>1 DEF Put
  <2>4. pending \in Seq(Item) /\ boundary.chars \in Seq(Coded)
    BY DEF BatchInv, IsBoundary, BoundaryType, Coded
  <2>5. /\ pending' \in Seq(Item) /\ pending' # <<>>
        /\ Len(pending') = Len(pending) + 1 /\ Batches!Front(pending') = pending
    <3>1. pending' \in Seq(Item) /\ pending' # <<>> /\ Len(pending') = Len(pending) + 1
      BY <2>2, <2>3, <2>4, AppendProperties
    <3>2. Batches!Front(pending') = pending
      BY <2>2, <2>3, <2>4 DEF Batches!Front
    <3> QED BY <3>1, <3>2
  <2>6. PICK sn : sn = s \o <<NUL>>
    OBVIOUS
  <2>7. after.chars = boundary.chars \o sn
    <3>1. (boundary.chars \o s) \o <<NUL>> = boundary.chars \o (s \o <<NUL>>)
      <4>1. PICK c, n : c = boundary.chars /\ n = <<NUL>>
        OBVIOUS
      <4>2. c \in Seq(Coded) /\ n \in Seq(Coded)
        BY <2>4, <4>1, ConvertedNul
      <4>3. (c \o s) \o n = c \o (s \o n)
        BY <1>3, <4>2, ConcatAssociative
      <4> QED BY <4>1, <4>3
    <3> QED BY <1>6, <1>9, <2>6, <3>1
  <2>8. Converted(after.chars) = Converted(boundary.chars) \o Spell(text, padded)
    <3>1. PICK c : c = boundary.chars
      OBVIOUS
    <3>2. Converted(c \o sn) = Converted(c) \o Converted(sn)
      BY <1>3, <2>4, <2>6, <3>1, ConvertedConcat
    <3> QED BY <1>3, <2>6, <2>7, <3>1, <3>2
  <2>9. Spread(Spelling, pending') = Spread(Spelling, pending) \o Spell(text, padded)
    <3>1. Spread(Spelling, Append(pending, item)) = Spread(Spelling, pending) \o Spelling[item]
      BY <2>2, <2>4, SpellingType, SpreadAppend
    <3> QED BY <2>2, <2>3, <3>1, SpellingType
  <2>10. Converted(after.chars) = Spread(Spelling, pending')
    BY <2>8, <2>9 DEF BatchInv
  <2>11. after.chars # <<>>
    <3>1. Len(sn) = Len(s) + 1 /\ sn \in Seq(Coded)
      <4>1. Len(s \o <<NUL>>) = Len(s) + Len(<<NUL>>)
        BY <1>3, ConvertedNul, ConcatProperties
      <4> QED BY <1>3, <2>6, <4>1
    <3>2. Len(after.chars) = Len(boundary.chars) + Len(sn)
      BY <2>4, <2>7, <3>1, ConcatProperties
    <3>3. Len(boundary.chars) \in Nat /\ Len(s) \in Nat
      BY <1>3, <2>4, LenProperties
    <3>4. Len(sn) \in Nat \ {0}
      BY <3>1, <3>3
    <3>5. Len(after.chars) \in Nat \ {0}
      BY <3>2, <3>3, <3>4
    <3> QED BY <3>5, EmptySeq
  <2>12. BatchInv'
    BY <1>5, <1>6, <1>7, <2>5, <2>10, <2>11 DEF BatchInv
  <2> QED BY <1>5, <2>3, <2>5, <2>12 DEF BatchStep, Batches!Next, Batches!Put
<1> QED BY <1>8, <1>9

\* A flush keeps the texts up to the first padded one, which start the converted ones.
LEMMA UpToPaddedIs ==
  ASSUME NEW texts \in Seq(Item)
  PROVE  \E first, rest \in Seq(Item) :
           /\ Batches!UpToPadded(texts) = first /\ texts = first \o rest
           /\ \A k \in 1 .. Len(first) - 1 : ~first[k].padded
<1> DEFINE Padded == {i \in 1 .. Len(texts) : texts[i].padded}
<1>1. Len(texts) \in Nat /\ Padded \subseteq Nat
  BY LenProperties
<1>4. Batches!UpToPadded(texts) =
        IF Padded = {} \/ Min(Padded) = 0 THEN texts ELSE SubSeq(texts, 1, Min(Padded))
  BY DEF Batches!UpToPadded, Batches!SelectInSeq, Batches!Min, Min
<1>2. CASE Padded = {}
  <2>1. Batches!UpToPadded(texts) = texts
    BY <1>2, <1>4
  <2>2. \A k \in 1 .. Len(texts) - 1 : ~texts[k].padded
    BY <1>1, <1>2
  <2>3. texts = texts \o <<>> /\ <<>> \in Seq(Item)
    BY ConcatEmptySeq, EmptySeq
  <2> QED BY <2>1, <2>2, <2>3
<1>3. CASE Padded # {}
  <2>1. PICK k \in Padded : \A i \in Padded : k <= i
    <3> HIDE DEF Padded
    <3> QED BY <1>1, <1>3, LeastNumber
  <2>2. Min(Padded) = k
    <3> HIDE DEF Padded
    <3> QED BY <1>1, <2>1, LeastIs
  <2>3. k \in 1 .. Len(texts) /\ k # 0
    BY <2>1
  <2>4. Batches!UpToPadded(texts) = SubSeq(texts, 1, k)
    BY <1>3, <1>4, <2>2, <2>3
  <2>5. PICK first, rest : first = SubSeq(texts, 1, k) /\ rest = SubSeq(texts, k + 1, Len(texts))
    OBVIOUS
  <2>6. first \in Seq(Item) /\ rest \in Seq(Item)
    BY <1>1, <2>3, <2>5, SubSeqProperties, LenProperties
  <2>7. texts = first \o rest
    <3>1. SubSeq(texts, 1, k) \o SubSeq(texts, k + 1, Len(texts)) = SubSeq(texts, 1, Len(texts))
      BY <1>1, <2>3, ConcatAdjacentSubSeq
    <3> QED BY <2>5, <3>1, SubSeqFull
  <2>8. Len(first) = k /\ \A i \in 1 .. k : first[i] = texts[i]
    BY <1>1, <2>3, <2>5
  <2>9. \A i \in 1 .. Len(first) - 1 : ~first[i].padded
    <3> TAKE i \in 1 .. Len(first) - 1
    <3>1. i \in 1 .. k /\ i \in 1 .. Len(texts) /\ ~(k <= i)
      BY <1>1, <2>3, <2>8
    <3> QED BY <2>1, <2>8, <3>1
  <2> QED BY <2>4, <2>5, <2>6, <2>7, <2>9
<1> QED BY <1>2, <1>3

LEMMA FlushBatch ==
  ASSUME BatchInv, FlushTexts
  PROVE  BatchInv' /\ BatchStep
<1>1. PICK after : after = FlushInbound(boundary)
  OBVIOUS
<1>2. boundary' = after /\ pending' = <<>> /\ UNCHANGED out
  BY <1>1 DEF FlushTexts
<1>3. /\ IsBoundary(after) /\ after.chars = <<>>
      /\ IsFlushed(boundary) => after = boundary
      /\ ~IsFlushed(boundary) => after.o_now = 0 /\ HoldsAt(after, Converted(boundary.chars), 0)
  BY <1>1, FlushKeeps DEF BatchInv
<1>4. Converted(<<>>) = Spread(Spelling, <<>>) /\ <<>> \in Seq(Item)
  BY ConvertedIs, SpreadEmpty, EmptySeq
<1>5. CASE IsFlushed(boundary)
  <2>1. pending = <<>> /\ ready' = ready /\ status' = "BUFFER_EMPTY"
    BY <1>5 DEF FlushTexts, BatchInv, IsFlushed
  <2>2. BatchInv'
    BY <1>2, <1>3, <1>4, <1>5, <2>1 DEF BatchInv
  <2> QED BY <1>2, <2>1, <2>2 DEF BatchStep, Batches!Next, Batches!FlushNothing
<1>6. CASE ~IsFlushed(boundary)
  <2>1. /\ pending # <<>> /\ status' = "OKAY"
        /\ ready' = Batches!UpToPadded(pending)
    BY <1>6 DEF FlushTexts, BatchInv, IsFlushed
  <2>2. PICK first \in Seq(Item), rest \in Seq(Item) :
          /\ ready' = first /\ pending = first \o rest
          /\ \A k \in 1 .. Len(first) - 1 : ~first[k].padded
    BY <2>1, UpToPaddedIs DEF BatchInv
  <2>3. Spread(Spelling, pending) = Spread(Spelling, first) \o Spread(Spelling, rest)
    <3>1. Spread(Spelling, first \o rest) = Spread(Spelling, first) \o Spread(Spelling, rest)
      BY SpellingType, SpreadConcat
    <3> QED BY <2>2, <3>1
  <2>4. Spread(Spelling, first) \in Seq(Plain) /\ Spread(Spelling, rest) \in Seq(Plain)
    BY SpellingType, SpreadType
  <2>5. HoldsAt(after, Spread(Spelling, first), after.o_now)
    BY <1>3, <1>6, <2>3, <2>4, HoldsStart DEF BatchInv
  <2>6. BatchInv'
    BY <1>2, <1>3, <1>4, <2>2, <2>5 DEF BatchInv
  <2> QED BY <1>2, <2>1, <2>6 DEF BatchStep, Batches!Next, Batches!Flush
<1> QED BY <1>5, <1>6

LEMMA SpreadIsLong ==
  ASSUME NEW next \in Item, NEW more \in Seq(Item)
  PROVE  Len(Spread(Spelling, <<next>> \o more)) >= 2
<1>1. PICK one : one = <<next>>
  OBVIOUS
<1>2. one \in Seq(Item)
  BY <1>1
<1>3. Spread(Spelling, one \o more) = Spread(Spelling, one) \o Spread(Spelling, more)
  BY <1>2, SpellingType, SpreadConcat
<1>4. next.text \in Seq(Chars) /\ Len(next.text) \in Nat \ {0} /\ next.padded \in BOOLEAN
  BY EmptySeq DEF Item
<1>5. PICK spelt, later : /\ spelt = Spell(next.text, next.padded)
                          /\ later = Spread(Spelling, more)
  OBVIOUS
<1>6. Spread(Spelling, one) = spelt
  BY <1>1, <1>5, SpellingType, SpreadOne
<1>7. spelt \in Seq(Plain)
  BY <1>4, <1>5, SourceSpells
<1>8. later \in Seq(Plain)
  BY <1>5, SpellingType, SpreadType
<1>9. Len(spelt \o later) = Len(spelt) + Len(later)
  BY <1>7, <1>8, ConcatProperties
<1>10. Len(spelt) >= 2
  <2>1. next.text \in Seq(Plain) /\ <<NUL>> \in Seq(Plain) /\ <<NUL, NUL>> \in Seq(Plain)
    BY <1>4 DEF Plain
  <2>2. Len(next.text \o <<NUL>>) = Len(next.text) + 1
    <3>1. Len(next.text \o <<NUL>>) = Len(next.text) + Len(<<NUL>>)
      BY <2>1, ConcatProperties
    <3> QED BY <3>1
  <2>3. Len(next.text \o <<NUL, NUL>>) = Len(next.text) + 2
    <3>1. Len(next.text \o <<NUL, NUL>>) = Len(next.text) + Len(<<NUL, NUL>>)
      BY <2>1, ConcatProperties
    <3> QED BY <3>1
  <2> QED BY <1>4, <1>5, <2>2, <2>3 DEF Spell
<1>11. Len(later) \in Nat /\ Len(spelt) \in Nat
  BY <1>7, <1>8, LenProperties
<1> QED BY <1>1, <1>3, <1>5, <1>6, <1>9, <1>10, <1>11

LEMMA GetBatch ==
  ASSUME BatchInv, Get
  PROVE  BatchInv' /\ BatchStep
<1>1. PICK after : after = AfterGet(boundary)
  OBVIOUS
<1>2. /\ boundary' = after /\ pending' = pending
      /\ status' = GetStatus(boundary) /\ out' = GotText(boundary)
      /\ ready' = IF ready # <<>> /\ status' = "OKAY" THEN Tail(ready) ELSE ready
  BY <1>1 DEF Get
<1>3. /\ IsBoundary(after) /\ after.size = boundary.size
      /\ after.chars = boundary.chars /\ after.ochars = boundary.ochars
      /\ after.o_now = IF GetStatus(boundary) = "OKAY"
                       THEN boundary.o_now + NextLen(boundary) + 1 ELSE boundary.o_now
  BY <1>1, GetKeeps DEF BatchInv
<1>4. CASE ready = <<>>
  <2>1. ready' = ready
    BY <1>2, <1>4
  <2>2. BatchInv'
    BY <1>2, <1>3, <1>4, <2>1 DEF BatchInv
  <2> QED BY <1>2, <1>4, <2>1, <2>2 DEF BatchStep, Batches!Next, Batches!GetBeyond
<1>5. CASE ready # <<>>
  <2>1. PICK head, tail : head = Head(ready) /\ tail = Tail(ready)
    OBVIOUS
  <2>2. /\ head \in Item /\ tail \in Seq(Item) /\ Len(tail) = Len(ready) - 1
        /\ Len(ready) \in Nat /\ Len(ready) >= 1 /\ head = ready[1]
        /\ \A k \in 1 .. Len(tail) : tail[k] = ready[k + 1]
    <3>1. ready \in Seq(Item)
      BY DEF BatchInv
    <3>2. head \in Item /\ tail \in Seq(Item) /\ Len(tail) = Len(ready) - 1
      BY <1>5, <2>1, <3>1, HeadTailProperties
    <3>3. Len(ready) \in Nat \ {0}
      BY <1>5, <3>1, EmptySeq
    <3>4. \A k \in 1 .. Len(tail) : tail[k] = ready[k + 1]
      BY <1>5, <2>1, <3>1, HeadTailProperties
    <3> QED BY <2>1, <3>1, <3>2, <3>3, <3>4
  <2>3. ready = <<head>> \o tail
    BY <1>5, <2>1, <2>2 DEF BatchInv
  <2>4. /\ head.text \in Seq(Chars) /\ head.text # <<>> /\ head.padded \in BOOLEAN
        /\ Len(head.text) \in Nat \ {0}
    BY <2>2, EmptySeq DEF Item
  <2>5. PICK after_text : after_text = IF head.padded THEN <<NUL>> ELSE <<>>
    OBVIOUS
  <2>6. PICK later : later = Spread(Spelling, tail)
    OBVIOUS
  <2>7. later \in Seq(Plain) /\ after_text \in Seq(Plain)
    <3>1. later \in Seq(Plain)
      BY <2>2, <2>6, SpellingType, SpreadType
    <3>2. after_text \in Seq(Plain)
      <4>1. <<NUL>> \in Seq(Plain) /\ <<>> \in Seq(Plain)
        BY DEF Plain
      <4> QED BY <2>5, <4>1
    <3> QED BY <3>1, <3>2
  <2>8. PICK rest : rest = after_text \o later
    OBVIOUS
  <2>9. rest \in Seq(Plain)
    BY <2>7, <2>8, ConcatProperties
  <2>10. Spread(Spelling, ready) = head.text \o <<NUL>> \o rest
    <3>1. Spread(Spelling, ready) = Spell(head.text, head.padded) \o later
      <4>1. PICK one : one = <<head>>
        OBVIOUS
      <4>2. one \in Seq(Item)
        BY <2>2, <4>1
      <4>3. Spread(Spelling, one \o tail) = Spread(Spelling, one) \o Spread(Spelling, tail)
        BY <2>2, <4>2, SpellingType, SpreadConcat
      <4>4. Spread(Spelling, one) = Spell(head.text, head.padded)
        <5>1. Spread(Spelling, <<head>>) = Spelling[head]
          BY <2>2, SpellingType, SpreadOne
        <5> QED BY <2>2, <4>1, <5>1, SpellingType
      <4> QED BY <2>3, <2>6, <4>1, <4>3, <4>4
    <3>2. Spell(head.text, head.padded) = (head.text \o <<NUL>>) \o after_text
      BY <2>4, <2>5, SpellEnds
    <3>3. PICK tn : tn = head.text \o <<NUL>>
      OBVIOUS
    <3>4. tn \in Seq(Plain)
      BY <2>4, <3>3, SourceSpells DEF Spell
    <3>5. (tn \o after_text) \o later = tn \o (after_text \o later)
      BY <2>7, <3>4, ConcatAssociative
    <3> QED BY <2>8, <3>1, <3>2, <3>3, <3>5
  <2>11. /\ NextLen(boundary) = Len(head.text) /\ NextText(boundary) = head.text
         /\ boundary.o_now + Len(head.text) + 1 + Len(rest) <= OEnd(boundary.size)
         /\ HoldsAt(boundary, rest, boundary.o_now + Len(head.text) + 1)
    <3>1. HoldsAt(boundary, head.text \o <<NUL>> \o rest, boundary.o_now)
      BY <1>5, <2>10 DEF BatchInv
    <3> QED BY <2>4, <2>9, <3>1, NextIs DEF BatchInv
  <2>12. GetStatus(boundary) \in {"OKAY", "BOUNDARY_RESET"}
    BY <2>4, <2>11 DEF GetStatus
  <2>13. tail # <<>> => ~head.padded /\ rest = later
    <3> SUFFICES ASSUME tail # <<>> PROVE ~head.padded /\ rest = later
      OBVIOUS
    <3>1. Len(tail) \in Nat \ {0}
      BY <2>2, EmptySeq
    <3>2. 1 \in 1 .. Len(ready) - 1
      BY <2>2, <3>1
    <3>3. ~head.padded
      BY <2>2, <3>2 DEF BatchInv
    <3>4. after_text = <<>>
      BY <2>5, <3>3
    <3> QED BY <2>7, <2>8, <3>3, <3>4, ConcatEmptySeq
  <2>14. CASE GetStatus(boundary) = "OKAY"
    <3>1. ready' = tail /\ out' = head.text /\ status' = "OKAY"
      BY <1>2, <1>5, <2>1, <2>11, <2>14 DEF GotText
    <3>2. after.o_now = boundary.o_now + Len(head.text) + 1
      BY <1>3, <2>11, <2>14
    <3>3. tail # <<>> => HoldsAt(after, later, after.o_now)
      BY <1>3, <2>11, <2>13, <3>2 DEF HoldsAt
    <3>4. \A k \in 1 .. Len(tail) - 1 : ~tail[k].padded
      <4> TAKE k \in 1 .. Len(tail) - 1
      <4>1. k \in 1 .. Len(tail) /\ k + 1 \in 1 .. Len(ready) - 1
        BY <2>2
      <4> QED BY <2>2, <4>1 DEF BatchInv
    <3>5. BatchInv'
      BY <1>2, <1>3, <2>2, <2>6, <3>1, <3>3, <3>4 DEF BatchInv
    <3> QED BY <1>2, <1>5, <2>1, <3>1, <3>5 DEF BatchStep, Batches!Next, Batches!Get
  <2>15. CASE GetStatus(boundary) = "BOUNDARY_RESET"
    <3>1. ready' = ready /\ status' = "BOUNDARY_RESET" /\ after = boundary
      BY <1>1, <1>2, <2>15 DEF AfterGet
    <3>2. BatchInv'
      BY <1>2, <3>1 DEF BatchInv
    <3>3. tail = <<>>
      <4> SUFFICES ASSUME tail # <<>> PROVE FALSE
        OBVIOUS
      <4>1. rest = later
        BY <2>13
      <4>2. PICK next \in Item, more \in Seq(Item) : tail = <<next>> \o more
        <5>1. Head(tail) \in Item /\ Tail(tail) \in Seq(Item) /\ tail = <<Head(tail)>> \o Tail(tail)
          BY <2>2, HeadTailProperties
        <5> QED BY <5>1
      <4>3. Len(later) >= 2
        BY <2>6, <4>2, SpreadIsLong
      <4>4. boundary.o_now \in Nat /\ OEnd(boundary.size) \in Nat /\ Len(later) \in Nat
        BY <2>7, EndIsPositive, LenProperties DEF BatchInv, IsBoundary, BoundaryType
      <4>5. boundary.o_now + NextLen(boundary) + 1 < OEnd(boundary.size)
        BY <2>4, <2>11, <4>1, <4>3, <4>4
      <4> QED BY <2>4, <2>11, <2>15, <4>5 DEF GetStatus
    <3>4. Len(ready) = 1
      BY <2>2, <3>3
    <3> QED BY <1>2, <3>1, <3>2, <3>4 DEF BatchStep, Batches!Next, Batches!Withhold
  <2> QED BY <2>12, <2>14, <2>15
<1> QED BY <1>4, <1>5

LEMMA BatchInductive == BatchInv /\ [BoundaryNext]_boundaryVars => BatchInv' /\ BatchStep
<1> SUFFICES ASSUME BatchInv, [BoundaryNext]_boundaryVars PROVE BatchInv' /\ BatchStep
  OBVIOUS
<1>1. CASE UNCHANGED boundaryVars
  BY <1>1 DEF boundaryVars, BatchInv, BatchStep, Batches!vars
<1> QED BY <1>1, PutBatch, FlushBatch, GetBatch DEF BoundaryNext

\* For every buffer_max_size of nine bytes or more, open_oly_boundary lays its two
\* halves apart and inside the allocation, zeroes what ends them, and its assertions hold.
THEOREM LayoutAlwaysHolds == BoundarySpec => []LayoutHolds
<1>1. BatchInv => LayoutHolds
  BY EveryLayoutFits DEF BatchInv, IsBoundary, BoundaryType, LayoutHolds
<1> QED BY <1>1, BatchInit, BatchInductive, PTL DEF BoundarySpec

\* However many texts are put in before a flush, and whatever their encoding takes, what
\* flush_inbound converts ends short of the last terminator, for every size.
THEOREM ConversionAlwaysFits == BoundarySpec => []ConversionFits
<1>1. BatchInv => ConversionFits
  <2> SUFFICES ASSUME BatchInv PROVE ConversionFits
    OBVIOUS
  <2>1. boundary.chars \in Seq(Coded) /\ Len(boundary.chars) <= CEnd(boundary.size)
    BY DEF BatchInv, IsBoundary, BoundaryType, Coded
  <2>2. CEnd(boundary.size) = OEnd(boundary.size) /\ OEnd(boundary.size) \in Nat
    BY EndIsPositive DEF BatchInv, IsBoundary, BoundaryType
  <2>3. Len(Converted(boundary.chars)) <= Len(boundary.chars)
    BY <2>1, ConvertedShrinks
  <2>4. Len(Converted(boundary.chars)) \in Nat /\ Len(boundary.chars) \in Nat
    BY <2>1, ConvertedIs, LenProperties
  <2> QED BY <2>1, <2>2, <2>3, <2>4 DEF ConversionFits
<1> QED BY <1>1, BatchInit, BatchInductive, PTL DEF BoundarySpec

\* The boundary is what TextBatches promises: get hands out the texts that were put in
\* before the flush, whole and in their order, and only the last may be withheld.
THEOREM BoundaryIsBatches == BoundarySpec => BatchSpec
BY BatchInit, BatchInductive, PTL DEF BoundarySpec, BatchSpec, Batches!Spec, BatchStep

-----------------------------------------------------------------------------
(* The data source and its driver.                                         *)

\* While every string has a key, each enqueue empties the boundary.
SourceInv ==
  /\ Typed(ds)
  /\ ~keyless => ds.boundary.chars = <<>>
  /\ NodeAsGiven

LEMMA SourceInit == Init => SourceInv
<1> SUFFICES ASSUME Init PROVE SourceInv
  OBVIOUS
<1>1. PICK size \in Sizes : \E b \in Opened(size) : ds = NewDataSource(b)
  BY DEF Init
<1>2. PICK b \in Opened(size) : ds = NewDataSource(b)
  BY <1>1
<1>3. Typed(ds) /\ ds.status = "OKAY" /\ ds.boundary.chars = <<>>
  BY <1>2, NewIsTyped
<1> QED BY <1>3 DEF SourceInv, NodeAsGiven

LEMMA EnqueueAsGiven ==
  ASSUME SourceInv, NEW kind \in Collections \cup {"string"}, NEW value \in Seq(Chars),
         kind # "string" => value = <<>>, Enqueue(kind, value)
  PROVE  SourceInv'
<1>1. PICK e : e = EnqueueDsNode(ds, kind, value)
  OBVIOUS
<1>2. ds' = e
  BY <1>1 DEF Enqueue
<1>3. /\ Typed(e)
      /\ ds.status # "OKAY" => e = ds
      /\ ds.status = "OKAY" =>
           (ds.boundary.chars = <<>> /\ (ds.key_staging # <<>> \/ kind # "string") =>
              e.boundary.chars = <<>>)
  <2>1. Typed(ds)
    BY DEF SourceInv
  <2>2. PICK d : d = ds
    OBVIOUS
  <2>3. Typed(d) /\ e = EnqueueDsNode(d, kind, value)
    BY <1>1, <2>1, <2>2
  <2>4. /\ Typed(e)
        /\ d.status # "OKAY" => e = d
        /\ d.status = "OKAY" =>
             (d.boundary.chars = <<>> /\ (d.key_staging # <<>> \/ kind # "string") =>
                e.boundary.chars = <<>>)
    BY <2>3, EnqueueIsTyped
  <2> QED BY <2>2, <2>4
<1>4. CASE ds.status # "OKAY"
  <2>1. ds' = ds /\ UNCHANGED history
    BY <1>2, <1>3, <1>4 DEF Enqueue
  <2> QED BY <2>1 DEF SourceInv, NodeAsGiven, history
<1>5. CASE ds.status = "OKAY"
  <2>1. /\ given' = [key |-> Given(ds.key_staging), value |-> Given(value)]
        /\ refused' = IsRefused(ds, kind, value)
        /\ keyless' = (keyless \/ (kind = "string" /\ ~HasStagedKey(ds)))
    BY <1>5 DEF Enqueue, Remember
  <2>2. ~keyless' => /\ ds.boundary.chars = <<>>
                     /\ ds.key_staging # <<>> \/ kind # "string"
    BY <2>1 DEF SourceInv, HasStagedKey
  <2>3. ASSUME e.status = "NODE_PRODUCED", ~refused', ~keyless'
        PROVE  e.node.key = given'.key /\ e.node.value = given'.value
    <3>1. ds.key_staging # <<>> => Accepts(ds.boundary, ds.key_staging, kind, value)
      BY <2>1, <2>3, NotRefused DEF SourceInv
    <3>2. /\ e.node.key = IF ds.key_staging = <<>> THEN NoText ELSE ds.key_staging
          /\ e.node.value = IF value = <<>> THEN NoText ELSE value
      BY <1>1, <1>5, <2>2, <2>3, <3>1, EnqueueGives DEF SourceInv
    <3> QED BY <2>1, <3>2 DEF Given
  <2> QED BY <1>2, <1>3, <1>5, <2>2, <2>3 DEF SourceInv, NodeAsGiven
<1> QED BY <1>4, <1>5

LEMMA SourceInductive == SourceInv /\ [Next]_vars => SourceInv'
<1> SUFFICES ASSUME SourceInv, [Next]_vars PROVE SourceInv'
  OBVIOUS
<1>1. ASSUME NEW key \in Keys, StageKey(key) PROVE SourceInv'
  <2>1. key \in Seq(Chars)
    BY DriverAssumption
  <2>2. PICK a : a = StageNodeKey(ds, key)
    OBVIOUS
  <2>3. ds' = a /\ UNCHANGED history
    BY <1>1, <2>2 DEF StageKey
  <2>4. /\ Typed(a) /\ a.boundary = ds.boundary
        /\ a.node = ds.node /\ (a.status = "NODE_PRODUCED" => ds.status = "NODE_PRODUCED")
    BY <2>1, <2>2, StagedIsTyped DEF SourceInv
  <2> QED BY <2>3, <2>4 DEF SourceInv, NodeAsGiven, history
<1>2. ASSUME NEW kind \in Collections, Enqueue(kind, <<>>) PROVE SourceInv'
  <2>1. <<>> \in Seq(Chars)
    BY EmptySeq
  <2> QED BY <1>2, <2>1, EnqueueAsGiven
<1>3. ASSUME NEW value \in Values, Enqueue("string", value) PROVE SourceInv'
  <2>1. value \in Seq(Chars)
    BY DriverAssumption
  <2> QED BY <1>3, <2>1, EnqueueAsGiven
<1>4. ASSUME ResetStatus PROVE SourceInv'
  <2>1. PICK a : a = ResetDsStatus(ds)
    OBVIOUS
  <2>2. Typed(a) /\ a.boundary = ds.boundary /\ a.status = "OKAY"
    BY <2>1, ResetIsTyped DEF SourceInv
  <2> QED BY <1>4, <2>1, <2>2 DEF ResetStatus, SourceInv, NodeAsGiven, history
<1>5. ASSUME Ascend PROVE SourceInv'
  <2>1. PICK a : a = DsAscend(ds)
    OBVIOUS
  <2>2. /\ Typed(a) /\ a.boundary = ds.boundary /\ a.status = ds.status
        /\ a.node.key = ds.node.key /\ a.node.value = ds.node.value
    BY <2>1, AscendedIsTyped DEF SourceInv
  <2> QED BY <1>5, <2>1, <2>2 DEF Ascend, SourceInv, NodeAsGiven
<1>6. CASE UNCHANGED vars
  BY <1>6 DEF vars, history, SourceInv, NodeAsGiven
<1> QED BY <1>1, <1>2, <1>3, <1>4, <1>5, <1>6 DEF Next

\* As long as every string has a key, a node that is passed on has the key that was
\* staged for it and the value it was enqueued with, never those of a neighbour, for
\* every boundary, key and value, also after texts that enqueue_ds_node refused.
THEOREM NodesAreAsGiven == Spec => []NodeAsGiven
<1>1. SourceInv => NodeAsGiven
  BY DEF SourceInv
<1> QED BY <1>1, SourceInit, SourceInductive, PTL DEF Spec
=============================================================================
