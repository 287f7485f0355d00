-------------------------- MODULE DataSourceLemmas --------------------------
(***************************************************************************)
(* Lemmas about the operators of Boundary and DataSource: sequences joined *)
(* end to end, the conversion there and back, both by induction over       *)
(* sequences that grow by Append, and what each operation of a boundary    *)
(* leaves in it.                                                           *)
(***************************************************************************)
EXTENDS DataSource, SequenceTheorems, WellFoundedInduction, TLAPS

-----------------------------------------------------------------------------
(* Induction over sets of numbers and of sequences.                        *)

Below == {p \in Nat \X Nat : p[1] < p[2]}

LEMMA BelowIsWellFounded == IsWellFoundedOn(Below, Nat)
<1>1. IsWellFoundedOn(OpToRel(<, Nat), Nat)
  BY NatLessThanWellFounded
<1>2. OpToRel(<, Nat) = Below
  BY DEF OpToRel, Below
<1> QED BY <1>1, <1>2

LEMMA LeastNumber ==
  ASSUME NEW S, S \subseteq Nat, S # {}
  PROVE  \E x \in S : \A y \in S : x <= y
<1>1. PICK x \in S : \A y \in S : <<y, x>> \notin Below
  BY BelowIsWellFounded, WFMin
<1>2. \A y \in S : ~(y < x)
  BY <1>1 DEF Below
<1> QED BY <1>2

LEMMA NumberInduction ==
  ASSUME NEW T, 0 \in T, \A n \in Nat : n \in T => n + 1 \in T
  PROVE  Nat \subseteq T
<1> SUFFICES ASSUME Nat \ T # {} PROVE FALSE
  OBVIOUS
<1>1. PICK x \in Nat \ T : \A y \in Nat \ T : x <= y
  BY LeastNumber
<1>2. x # 0
  OBVIOUS
<1>3. x - 1 \in Nat \ T
  BY <1>2
<1> QED BY <1>1, <1>3

LEMMA AppendInduction ==
  ASSUME NEW S, NEW T, <<>> \in T,
         \A s \in Seq(S), x \in S : s \in T => Append(s, x) \in T
  PROVE  Seq(S) \subseteq T
<1> DEFINE N == {n \in Nat : \A s \in Seq(S) : Len(s) = n => s \in T}
<1>1. 0 \in N
  BY EmptySeq
<1>2. ASSUME NEW n \in Nat, n \in N PROVE n + 1 \in N
  <2> SUFFICES ASSUME NEW s \in Seq(S), Len(s) = n + 1 PROVE s \in T
    OBVIOUS
  <2>1. s # <<>>
    BY EmptySeq
  <2>2. PICK r \in Seq(S), x \in S : s = Append(r, x)
    BY <2>1, SequenceEmptyOrAppend
  <2>3. Len(r) = n
    BY <2>2, AppendProperties, LenProperties
  <2> QED BY <1>2, <2>2, <2>3
<1>3. Nat \subseteq N
  <2> HIDE DEF N
  <2> QED BY <1>1, <1>2, NumberInduction
<1> QED BY <1>3, LenProperties

LEMMA PairConcat ==
  ASSUME NEW S, NEW x \in S, NEW y \in S
  PROVE  <<x>> \o <<y>> = <<x, y>>
<1>1. PICK a, b, c : a = <<x>> /\ b = <<y>> /\ c = <<x, y>>
  OBVIOUS
<1>2. a \in Seq(S) /\ b \in Seq(S) /\ c \in Seq(S) /\ Len(a) = 1 /\ Len(b) = 1 /\ Len(c) = 2
  BY <1>1
<1>3. PICK ab : ab = a \o b
  OBVIOUS
<1>4. ab \in Seq(S)
  BY <1>2, <1>3, ConcatProperties
<1>5. Len(ab) = Len(a) + Len(b)
  BY <1>2, <1>3, ConcatProperties
<1>6. \A i \in 1 .. Len(a) + Len(b) : ab[i] = IF i <= Len(a) THEN a[i] ELSE b[i - Len(a)]
  BY <1>2, <1>3, ConcatProperties
<1>7. ab[1] = c[1]
  <2>1. 1 \in 1 .. Len(a) + Len(b) /\ 1 <= Len(a) /\ a[1] = c[1]
    BY <1>1, <1>2
  <2> QED BY <1>6, <2>1
<1>8. ab[2] = c[2]
  <2>1. 2 \in 1 .. Len(a) + Len(b) /\ ~(2 <= Len(a)) /\ 2 - Len(a) = 1 /\ b[1] = c[2]
    BY <1>1, <1>2
  <2> QED BY <1>6, <2>1
<1>9. Len(ab) = 2 /\ \A i \in 1 .. 2 : ab[i] = c[i]
  BY <1>2, <1>5, <1>7, <1>8
<1>10. ab = c
  BY <1>2, <1>4, <1>9
<1> QED BY <1>1, <1>3, <1>10

-----------------------------------------------------------------------------
(* FlattenSeq.                                                             *)

Flattens(g, s, n) == g = [i \in 1 .. n |-> IF i = 1 THEN s[i] ELSE g[i - 1] \o s[i]]

LEMMA FlattensExists ==
  ASSUME NEW s, NEW n \in Nat
  PROVE  \E g : Flattens(g, s, n)
<1> DEFINE N == {k \in Nat : \E g : Flattens(g, s, k)}
<1>1. 0 \in N
  <2>1. Flattens(<<>>, s, 0)
    BY DEF Flattens
  <2> QED BY <2>1
<1>2. ASSUME NEW k \in Nat, k \in N PROVE k + 1 \in N
  <2>1. PICK g : Flattens(g, s, k)
    BY <1>2
  <2> DEFINE e == IF k = 0 THEN s[k + 1] ELSE g[k] \o s[k + 1]
             h == [i \in 1 .. k + 1 |-> IF i = k + 1 THEN e ELSE g[i]]
  <2>2. \A i \in 1 .. k : g[i] = IF i = 1 THEN s[i] ELSE g[i - 1] \o s[i]
    BY <2>1 DEF Flattens
  <2>3. \A i \in 1 .. k + 1 : h[i] = IF i = 1 THEN s[i] ELSE h[i - 1] \o s[i]
    <3> TAKE i \in 1 .. k + 1
    <3>1. CASE i = k + 1 /\ k = 0
      BY <3>1
    <3>2. CASE i = k + 1 /\ k # 0
      <4>1. h[i - 1] = g[k] /\ i # 1
        BY <3>2
      <4> QED BY <3>2, <4>1
    <3>3. CASE i \in 1 .. k
      <4>1. i # 1 => h[i - 1] = g[i - 1]
        BY <3>3
      <4>2. h[i] = g[i]
        BY <3>3
      <4> QED BY <2>2, <3>3, <4>1, <4>2
    <3> QED BY <3>1, <3>2, <3>3
  <2>4. h = [i \in 1 .. k + 1 |-> IF i = 1 THEN s[i] ELSE h[i - 1] \o s[i]]
    <3>1. h = [i \in 1 .. k + 1 |-> h[i]]
      OBVIOUS
    <3> HIDE DEF h
    <3> QED BY <2>3, <3>1
  <2>5. Flattens(h, s, k + 1)
    BY <2>4 DEF Flattens
  <2> HIDE DEF h
  <2> QED BY <2>5
<1>3. Nat \subseteq N
  <2> HIDE DEF N
  <2> QED BY <1>1, <1>2, NumberInduction
<1> QED BY <1>3

AgreeUpTo(s, t, m) == \A i \in 1 .. m : s[i] = t[i]

LEMMA FlattensAgree ==
  ASSUME NEW s, NEW t, NEW m \in Nat, NEW n \in Nat, m <= n, AgreeUpTo(s, t, m),
         NEW g, Flattens(g, s, m), NEW h, Flattens(h, t, n)
  PROVE  AgreeUpTo(g, h, m)
<1> USE DEF AgreeUpTo
<1> DEFINE N == {k \in Nat : k \in 1 .. m => g[k] = h[k]}
<1>1. \A i \in 1 .. m : g[i] = IF i = 1 THEN s[i] ELSE g[i - 1] \o s[i]
  BY DEF Flattens
<1>2. \A i \in 1 .. n : h[i] = IF i = 1 THEN t[i] ELSE h[i - 1] \o t[i]
  BY DEF Flattens
<1>3. 0 \in N
  OBVIOUS
<1>4. ASSUME NEW k \in Nat, k \in N PROVE k + 1 \in N
  <2> SUFFICES ASSUME k + 1 \in 1 .. m PROVE g[k + 1] = h[k + 1]
    OBVIOUS
  <2>1. k + 1 \in 1 .. n /\ (k + 1) - 1 = k /\ s[k + 1] = t[k + 1]
    OBVIOUS
  <2>2. CASE k = 0
    BY <1>1, <1>2, <2>1, <2>2
  <2>3. CASE k # 0
    <3>1. g[k] = h[k] /\ k + 1 # 1
      BY <1>4, <2>3
    <3> QED BY <1>1, <1>2, <2>1, <3>1
  <2> QED BY <2>2, <2>3
<1>5. Nat \subseteq N
  <2> HIDE DEF N
  <2> QED BY <1>3, <1>4, NumberInduction
<1> QED BY <1>5

LEMMA FlattenIs ==
  ASSUME NEW s, Len(s) \in Nat \ {0}
  PROVE  \E g : Flattens(g, s, Len(s)) /\ FlattenSeq(s) = g[Len(s)]
<1> DEFINE g == CHOOSE f : f = [i \in 1 .. Len(s) |-> IF i = 1 THEN s[i] ELSE f[i - 1] \o s[i]]
<1>1. FlattenSeq(s) = g[Len(s)]
  BY DEF FlattenSeq
<1>2. \E f : f = [i \in 1 .. Len(s) |-> IF i = 1 THEN s[i] ELSE f[i - 1] \o s[i]]
  BY FlattensExists DEF Flattens
<1>3. Flattens(g, s, Len(s))
  BY <1>2 DEF Flattens
<1> QED BY <1>1, <1>3

LEMMA FlattenEmpty == FlattenSeq(<<>>) = <<>>
BY DEF FlattenSeq

LEMMA FlattenAppend ==
  ASSUME NEW S, NEW s \in Seq(Seq(S)), NEW x \in Seq(S)
  PROVE  FlattenSeq(Append(s, x)) = FlattenSeq(s) \o x
<1> DEFINE n == Len(s)
           t == Append(s, x)
<1>1. /\ n \in Nat /\ t \in Seq(Seq(S)) /\ Len(t) = n + 1
      /\ t[n + 1] = x /\ \A i \in 1 .. n : s[i] = t[i]
  BY AppendProperties, LenProperties
<1>2. PICK h : Flattens(h, t, n + 1) /\ FlattenSeq(t) = h[n + 1]
  <2>1. Len(t) \in Nat \ {0}
    BY <1>1
  <2>2. \E h : Flattens(h, t, Len(t)) /\ FlattenSeq(t) = h[Len(t)]
    BY <2>1, FlattenIs
  <2> QED BY <1>1, <2>2
<1>3. \A i \in 1 .. n + 1 : h[i] = IF i = 1 THEN t[i] ELSE h[i - 1] \o t[i]
  BY <1>2 DEF Flattens
<1>4. CASE n = 0
  <2>1. s = <<>>
    BY <1>4, EmptySeq
  <2>2. FlattenSeq(t) = x
    BY <1>1, <1>2, <1>3, <1>4
  <2> QED BY <2>1, <2>2, FlattenEmpty, ConcatEmptySeq
<1>5. CASE n # 0
  <2>1. PICK g : Flattens(g, s, n) /\ FlattenSeq(s) = g[n]
    BY <1>1, <1>5, FlattenIs
  <2>2. g[n] = h[n]
    <3>1. AgreeUpTo(g, h, n)
      <4>1. n \in Nat /\ n + 1 \in Nat /\ n <= n + 1 /\ AgreeUpTo(s, t, n)
        BY <1>1 DEF AgreeUpTo
      <4> HIDE DEF n, t
      <4> QED BY <1>2, <2>1, <4>1, FlattensAgree
    <3> QED BY <1>1, <1>5, <3>1 DEF AgreeUpTo
  <2>3. h[n + 1] = h[n] \o t[n + 1]
    <3>1. n + 1 \in 1 .. n + 1 /\ n + 1 # 1 /\ (n + 1) - 1 = n
      BY <1>1, <1>5
    <3> QED BY <1>3, <3>1
  <2> QED BY <1>1, <1>2, <2>1, <2>2, <2>3
<1> QED BY <1>4, <1>5

\* What is joined end to end is of the parts' type, and what is added at the end of the
\* list, or put before it, ends up there.
LEMMA FlattenType ==
  ASSUME NEW S
  PROVE  \A s \in Seq(Seq(S)) : FlattenSeq(s) \in Seq(S)
<1> DEFINE T == {s \in Seq(Seq(S)) : FlattenSeq(s) \in Seq(S)}
<1>1. <<>> \in T
  BY FlattenEmpty, EmptySeq
<1>2. ASSUME NEW s \in Seq(Seq(S)), NEW x \in Seq(S), s \in T
      PROVE  Append(s, x) \in T
  <2>1. Append(s, x) \in Seq(Seq(S))
    BY AppendProperties
  <2>2. FlattenSeq(Append(s, x)) = FlattenSeq(s) \o x
    BY FlattenAppend
  <2>3. FlattenSeq(s) \o x \in Seq(S)
    BY <1>2, ConcatProperties
  <2> QED BY <2>1, <2>2, <2>3
<1> HIDE DEF T
<1>3. Seq(Seq(S)) \subseteq T
  BY <1>1, <1>2, AppendInduction
<1> QED BY <1>3 DEF T

LEMMA ConcatAppend ==
  ASSUME NEW S, NEW s \in Seq(S), NEW t \in Seq(S), NEW x \in S
  PROVE  s \o Append(t, x) = Append(s \o t, x)
<1>1. Append(t, x) = t \o <<x>> /\ <<x>> \in Seq(S)
  BY AppendIsConcat
<1>2. s \o t \in Seq(S)
  BY ConcatProperties
<1>3. Append(s \o t, x) = (s \o t) \o <<x>>
  BY <1>2, AppendIsConcat
<1>4. (s \o t) \o <<x>> = s \o (t \o <<x>>)
  BY <1>1, ConcatAssociative
<1> QED BY <1>1, <1>3, <1>4

LEMMA FlattenConcat ==
  ASSUME NEW S, NEW s \in Seq(Seq(S))
  PROVE  \A t \in Seq(Seq(S)) : FlattenSeq(s \o t) = FlattenSeq(s) \o FlattenSeq(t)
<1> DEFINE T == {t \in Seq(Seq(S)) : FlattenSeq(s \o t) = FlattenSeq(s) \o FlattenSeq(t)}
<1>1. <<>> \in T
  <2>1. FlattenSeq(s) \in Seq(S) /\ s \o <<>> = s /\ <<>> \in Seq(Seq(S))
    BY FlattenType, ConcatEmptySeq, EmptySeq
  <2>2. FlattenSeq(s) \o <<>> = FlattenSeq(s)
    BY <2>1, ConcatEmptySeq
  <2> QED BY <2>1, <2>2, FlattenEmpty
<1>2. ASSUME NEW t \in Seq(Seq(S)), NEW x \in Seq(S), t \in T
      PROVE  Append(t, x) \in T
  <2>1. Append(t, x) \in Seq(Seq(S)) /\ s \o t \in Seq(Seq(S))
    BY AppendProperties, ConcatProperties
  <2>2. s \o Append(t, x) = Append(s \o t, x)
    BY ConcatAppend
  <2>3. FlattenSeq(Append(s \o t, x)) = FlattenSeq(s \o t) \o x
    BY <2>1, FlattenAppend
  <2>4. FlattenSeq(Append(t, x)) = FlattenSeq(t) \o x
    BY FlattenAppend
  <2>5. (FlattenSeq(s) \o FlattenSeq(t)) \o x = FlattenSeq(s) \o (FlattenSeq(t) \o x)
    <3>1. FlattenSeq(s) \in Seq(S) /\ FlattenSeq(t) \in Seq(S)
      BY FlattenType
    <3> QED BY <3>1, ConcatAssociative
  <2> QED BY <1>2, <2>1, <2>2, <2>3, <2>4, <2>5
<1> HIDE DEF T
<1>3. Seq(Seq(S)) \subseteq T
  BY <1>1, <1>2, AppendInduction
<1> QED BY <1>3 DEF T

LEMMA FlattenOne ==
  ASSUME NEW S, NEW x \in Seq(S)
  PROVE  FlattenSeq(<<x>>) = x
<1>1. <<>> \in Seq(Seq(S)) /\ Append(<<>>, x) = <<x>>
  BY EmptySeq
<1>2. FlattenSeq(Append(<<>>, x)) = FlattenSeq(<<>>) \o x
  BY <1>1, FlattenAppend
<1>3. <<>> \o x = x
  BY ConcatEmptySeq
<1> QED BY <1>1, <1>2, <1>3, FlattenEmpty

-----------------------------------------------------------------------------
(* A sequence whose elements are replaced by sequences.                    *)

IsMap(f, S, R) == f \in [S -> R]
Mapped(f, s) == [i \in DOMAIN s |-> f[s[i]]]
Spread(f, s) == FlattenSeq(Mapped(f, s))

LEMMA MappedType ==
  ASSUME NEW S, NEW R, NEW f, IsMap(f, S, R), NEW s \in Seq(S)
  PROVE  Mapped(f, s) \in Seq(R) /\ Len(Mapped(f, s)) = Len(s)
<1>1. Len(s) \in Nat /\ DOMAIN s = 1 .. Len(s) /\ \A i \in 1 .. Len(s) : s[i] \in S
  BY LenProperties
<1>2. Mapped(f, s) \in [1 .. Len(s) -> R]
  BY <1>1 DEF Mapped, IsMap
<1> QED BY <1>1, <1>2

LEMMA MappedConcat ==
  ASSUME NEW S, NEW R, NEW f, IsMap(f, S, R), NEW s \in Seq(S), NEW t \in Seq(S)
  PROVE  Mapped(f, s \o t) = Mapped(f, s) \o Mapped(f, t)
<1>1. /\ Len(s) \in Nat /\ DOMAIN s = 1 .. Len(s)
      /\ Len(t) \in Nat /\ DOMAIN t = 1 .. Len(t)
  BY LenProperties
<1>2. PICK u : u = s \o t
  OBVIOUS
<1>3. u \in Seq(S)
  BY <1>2, ConcatProperties
<1>4. Len(u) = Len(s) + Len(t) /\ DOMAIN u = 1 .. Len(s) + Len(t)
  BY <1>2, <1>3, ConcatProperties, LenProperties
<1>5. \A i \in 1 .. Len(s) + Len(t) : u[i] = IF i <= Len(s) THEN s[i] ELSE t[i - Len(s)]
  BY <1>2, ConcatProperties
<1>6. PICK fs, ft, fu : fs = Mapped(f, s) /\ ft = Mapped(f, t) /\ fu = Mapped(f, u)
  OBVIOUS
<1>7. fs \in Seq(R) /\ Len(fs) = Len(s)
  BY <1>6, MappedType
<1>8. ft \in Seq(R) /\ Len(ft) = Len(t)
  BY <1>6, MappedType
<1>9. fu \in Seq(R) /\ Len(fu) = Len(s) + Len(t)
  BY <1>3, <1>4, <1>6, MappedType
<1>10. fs \o ft \in Seq(R) /\ Len(fs \o ft) = Len(s) + Len(t)
  <2>1. fs \o ft \in Seq(R)
    BY <1>7, <1>8, ConcatProperties
  <2>2. Len(fs \o ft) = Len(fs) + Len(ft)
    BY <1>7, <1>8, ConcatProperties
  <2> QED BY <1>7, <1>8, <2>1, <2>2
<1>11. \A i \in 1 .. Len(s) + Len(t) :
         (fs \o ft)[i] = IF i <= Len(s) THEN fs[i] ELSE ft[i - Len(s)]
  BY <1>7, <1>8, ConcatProperties
<1>12. ASSUME NEW i \in 1 .. Len(s) + Len(t) PROVE fu[i] = (fs \o ft)[i]
  <2>1. fu[i] = f[u[i]]
    BY <1>4, <1>6 DEF Mapped
  <2>2. CASE i <= Len(s)
    <3>1. i \in DOMAIN s /\ u[i] = s[i]
      BY <1>1, <1>5, <2>2
    <3>2. fs[i] = f[s[i]]
      BY <1>6, <3>1 DEF Mapped
    <3> QED BY <1>11, <2>1, <2>2, <3>1, <3>2
  <2>3. CASE ~(i <= Len(s))
    <3>1. i - Len(s) \in DOMAIN t /\ u[i] = t[i - Len(s)]
      BY <1>1, <1>5, <2>3
    <3>2. ft[i - Len(s)] = f[t[i - Len(s)]]
      BY <1>6, <3>1 DEF Mapped
    <3> QED BY <1>11, <2>1, <2>3, <3>1, <3>2
  <2> QED BY <2>2, <2>3
<1>13. fu = fs \o ft
  BY <1>9, <1>10, <1>12, SeqEqual
<1> QED BY <1>2, <1>6, <1>13

LEMMA SpreadType ==
  ASSUME NEW S, NEW R, NEW f, IsMap(f, S, Seq(R)), NEW s \in Seq(S)
  PROVE  Spread(f, s) \in Seq(R)
<1>1. Mapped(f, s) \in Seq(Seq(R))
  BY MappedType
<1> QED BY <1>1, FlattenType DEF Spread

LEMMA SpreadConcat ==
  ASSUME NEW S, NEW R, NEW f, IsMap(f, S, Seq(R)), NEW s \in Seq(S), NEW t \in Seq(S)
  PROVE  Spread(f, s \o t) = Spread(f, s) \o Spread(f, t)
<1>1. Mapped(f, s) \in Seq(Seq(R)) /\ Mapped(f, t) \in Seq(Seq(R))
  BY MappedType
<1>2. Mapped(f, s \o t) = Mapped(f, s) \o Mapped(f, t)
  BY MappedConcat
<1> QED BY <1>1, <1>2, FlattenConcat DEF Spread

LEMMA SpreadEmpty ==
  ASSUME NEW f
  PROVE  Spread(f, <<>>) = <<>>
<1>1. Mapped(f, <<>>) = <<>>
  BY DEF Mapped
<1> QED BY <1>1, FlattenEmpty DEF Spread

LEMMA SpreadOne ==
  ASSUME NEW S, NEW R, NEW f, IsMap(f, S, Seq(R)), NEW x \in S
  PROVE  Spread(f, <<x>>) = f[x]
<1>1. Mapped(f, <<x>>) = <<f[x]>>
  BY DEF Mapped
<1>2. f[x] \in Seq(R)
  BY DEF IsMap
<1>3. FlattenSeq(<<f[x]>>) = f[x]
  BY <1>2, FlattenOne
<1> QED BY <1>1, <1>3 DEF Spread

LEMMA SpreadAppend ==
  ASSUME NEW S, NEW R, NEW f, IsMap(f, S, Seq(R)), NEW s \in Seq(S), NEW x \in S
  PROVE  Spread(f, Append(s, x)) = Spread(f, s) \o f[x]
<1>1. PICK t : t = <<x>>
  OBVIOUS
<1>2. Append(s, x) = s \o t /\ t \in Seq(S)
  BY <1>1, AppendIsConcat
<1>3. Spread(f, s \o t) = Spread(f, s) \o Spread(f, t)
  BY <1>2, SpreadConcat
<1>4. Spread(f, t) = f[x]
  BY <1>1, SpreadOne
<1> QED BY <1>2, <1>3, <1>4

-----------------------------------------------------------------------------
(* The conversion.                                                         *)

Plain == Chars \cup {NUL}
Coded == Chars \cup {Trail, NUL}
Code == [c \in Chars |-> IF c \in Wide THEN <<c, Trail>> ELSE <<c>>]
Decode == [c \in Coded |-> IF c = Trail THEN <<>> ELSE <<c>>]

LEMMA CodeType == IsMap(Code, Chars, Seq(Coded)) /\ IsMap(Decode, Coded, Seq(Plain))
<1>1. \A c \in Chars : <<c, Trail>> \in Seq(Coded) /\ <<c>> \in Seq(Coded)
  BY DEF Coded
<1>2. \A c \in Coded : c # Trail => <<c>> \in Seq(Plain)
  BY DEF Coded, Plain
<1>3. <<>> \in Seq(Plain)
  BY EmptySeq
<1> QED BY <1>1, <1>2, <1>3 DEF Code, Decode, IsMap

LEMMA EncodedIs ==
  ASSUME NEW t \in Seq(Chars)
  PROVE  Encoded(t) = Spread(Code, t) /\ Encoded(t) \in Seq(Coded)
<1>1. \A i \in DOMAIN t : t[i] \in Chars
  BY LenProperties
<1>2. Mapped(Code, t) = [i \in DOMAIN t |->
                           IF t[i] \in Wide THEN <<t[i], Trail>> ELSE <<t[i]>>]
  BY <1>1 DEF Mapped, Code
<1> QED BY <1>2, CodeType, SpreadType DEF Encoded, Spread

LEMMA ConvertedIs ==
  ASSUME NEW s \in Seq(Coded)
  PROVE  Converted(s) = Spread(Decode, s) /\ Converted(s) \in Seq(Plain)
<1>1. \A i \in DOMAIN s : s[i] \in Coded
  BY LenProperties
<1>2. Mapped(Decode, s) = [i \in DOMAIN s |-> IF s[i] = Trail THEN <<>> ELSE <<s[i]>>]
  BY <1>1 DEF Mapped, Decode
<1> QED BY <1>2, CodeType, SpreadType DEF Converted, Spread

\* Conversion makes nothing longer.
LEMMA ConvertedShrinks ==
  \A s \in Seq(Coded) : Len(Converted(s)) <= Len(s)
<1> DEFINE T == {s \in Seq(Coded) : Len(Spread(Decode, s)) <= Len(s)}
<1>1. <<>> \in T
  BY SpreadEmpty, EmptySeq
<1>2. ASSUME NEW s \in Seq(Coded), NEW x \in Coded, s \in T
      PROVE  Append(s, x) \in T
  <2>1. Append(s, x) \in Seq(Coded) /\ Len(Append(s, x)) = Len(s) + 1 /\ Len(s) \in Nat
    BY AppendProperties, LenProperties
  <2>2. Spread(Decode, Append(s, x)) = Spread(Decode, s) \o Decode[x]
    BY CodeType, SpreadAppend
  <2>3. Spread(Decode, s) \in Seq(Plain) /\ Decode[x] \in Seq(Plain)
    <3>1. Spread(Decode, s) \in Seq(Plain)
      BY CodeType, SpreadType
    <3>2. Decode[x] \in Seq(Plain)
      BY CodeType DEF IsMap
    <3> QED BY <3>1, <3>2
  <2>4. Len(Spread(Decode, s) \o Decode[x]) = Len(Spread(Decode, s)) + Len(Decode[x])
    BY <2>3, ConcatProperties
  <2>5. Len(Spread(Decode, s)) \in Nat
    BY <2>3, LenProperties
  <2>6. Len(Decode[x]) \in 0 .. 1
    BY DEF Decode
  <2> QED BY <1>2, <2>1, <2>2, <2>4, <2>5, <2>6
<1> HIDE DEF T
<1>3. Seq(Coded) \subseteq T
  BY <1>1, <1>2, AppendInduction
<1> QED BY <1>3, ConvertedIs DEF T

LEMMA ConvertedConcat ==
  ASSUME NEW s \in Seq(Coded), NEW t \in Seq(Coded)
  PROVE  Converted(s \o t) = Converted(s) \o Converted(t)
<1>1. PICK u : u = s \o t
  OBVIOUS
<1>2. u \in Seq(Coded)
  BY <1>1, ConcatProperties
<1>3. Spread(Decode, s \o t) = Spread(Decode, s) \o Spread(Decode, t)
  BY CodeType, SpreadConcat
<1> QED BY <1>1, <1>2, <1>3, ConvertedIs

LEMMA ConvertedNul == Converted(<<NUL>>) = <<NUL>> /\ <<NUL>> \in Seq(Coded)
<1>1. NUL \in Coded /\ Decode[NUL] = <<NUL>> /\ <<NUL>> \in Seq(Coded)
  BY BoundaryAssumption DEF Coded, Decode
<1> QED BY <1>1, ConvertedIs, CodeType, SpreadOne

\* A text comes back from its encoding.
LEMMA ConvertedEncoded ==
  \A t \in Seq(Chars) : Converted(Encoded(t)) = t
<1> DEFINE T == {t \in Seq(Chars) : Spread(Decode, Spread(Code, t)) = t}
<1>1. <<>> \in T
  BY SpreadEmpty, EmptySeq
<1>2. ASSUME NEW t \in Seq(Chars), NEW c \in Chars, t \in T
      PROVE  Append(t, c) \in T
  <2>1. Append(t, c) \in Seq(Chars) /\ Append(t, c) = t \o <<c>>
    BY AppendProperties, AppendIsConcat
  <2>2. Spread(Code, Append(t, c)) = Spread(Code, t) \o Code[c]
    BY CodeType, SpreadAppend
  <2>3. Spread(Code, t) \in Seq(Coded)
    BY CodeType, SpreadType
  <2>4. Code[c] \in Seq(Coded)
    BY CodeType DEF IsMap
  <2>5. Spread(Decode, Spread(Code, t) \o Code[c])
          = Spread(Decode, Spread(Code, t)) \o Spread(Decode, Code[c])
    <3>1. PICK s, r : s = Spread(Code, t) /\ r = Code[c]
      OBVIOUS
    <3>2. s \in Seq(Coded) /\ r \in Seq(Coded)
      BY <2>3, <2>4, <3>1
    <3>3. Spread(Decode, s \o r) = Spread(Decode, s) \o Spread(Decode, r)
      BY <3>2, CodeType, SpreadConcat
    <3> QED BY <3>1, <3>3
  <2>6. Spread(Decode, Code[c]) = <<c>>
    <3>1. c \in Coded /\ Trail \in Coded /\ Decode[c] = <<c>> /\ Decode[Trail] = <<>>
      BY BoundaryAssumption DEF Coded, Decode
    <3>2. <<c>> \in Seq(Coded) /\ <<c, Trail>> = Append(<<c>>, Trail)
      BY <3>1
    <3>3. Spread(Decode, <<c>>) = <<c>>
      BY <3>1, CodeType, SpreadOne
    <3>4. Spread(Decode, Append(<<c>>, Trail)) = <<c>> \o <<>>
      <4>1. PICK s, x : s = <<c>> /\ x = Trail
        OBVIOUS
      <4>2. s \in Seq(Coded) /\ x \in Coded
        BY <3>1, <3>2, <4>1
      <4>3. Spread(Decode, Append(s, x)) = Spread(Decode, s) \o Decode[x]
        BY <4>2, CodeType, SpreadAppend
      <4> QED BY <3>1, <3>3, <4>1, <4>3
    <3>5. <<c>> \o <<>> = <<c>>
      OBVIOUS
    <3> QED BY <3>2, <3>3, <3>4, <3>5 DEF Code
  <2> QED BY <1>2, <2>1, <2>2, <2>5, <2>6
<1> HIDE DEF T
<1>3. Seq(Chars) \subseteq T
  BY <1>1, <1>2, AppendInduction
<1>4. ASSUME NEW t \in Seq(Chars)
      PROVE  Converted(Encoded(t)) = Spread(Decode, Spread(Code, t))
  BY EncodedIs, ConvertedIs
<1> QED BY <1>3, <1>4 DEF T

-----------------------------------------------------------------------------
(* A boundary: its layout, and what its operations leave in it.            *)

\* The layout counted in thirds of the size.
LEMMA Thirds ==
  ASSUME NEW size \in Sizes
  PROVE  \E third \in Nat :
           /\ third >= 3
           /\ size = 3 * third + (size % 3) /\ size % 3 \in 0 .. 2
           /\ MaxCharacters(size) = third
           /\ CEnd(size) = third - 2 /\ OEnd(size) = third - 2
           /\ OStart(size) = third /\ OEndByte(size) = 3 * third - 4
           /\ Allocated(size) = 3 * third
<1>1. size \in Nat /\ size >= 9
  BY BoundaryAssumption
<1>2. PICK third \in Nat : third = size \div 3
  BY <1>1
<1>3. /\ size = 3 * third + (size % 3) /\ size % 3 \in 0 .. 2 /\ third >= 3
  <2>1. \A n \in Nat : n = 3 * (n \div 3) + (n % 3) /\ n % 3 \in 0 .. 2
    OBVIOUS
  <2>2. size = 3 * third + (size % 3) /\ size % 3 \in 0 .. 2
    BY <1>1, <1>2, <2>1
  <2>3. third >= 3
    BY <1>1, <2>2
  <2> QED BY <2>2, <2>3
<1>4. MaxCharacters(size) = third
  BY <1>2 DEF MaxCharacters, MinCharSize, OCharSize
<1>5. CEnd(size) = third - 2 /\ OEnd(size) = third - 2
  BY <1>3, <1>4 DEF CEnd, OEnd, MinCharSize
<1>6. OStart(size) = third
  BY <1>5 DEF OStart, MinCharSize
<1>7. OEndByte(size) = 3 * third - 4
  BY <1>4, <1>6 DEF OEndByte, OCharSize
<1>8. Allocated(size) = 3 * third
  BY <1>4 DEF Allocated, OCharSize, MinCharSize
<1> QED BY <1>3, <1>4, <1>5, <1>6, <1>7, <1>8

LEMMA EndIsPositive ==
  ASSUME NEW size \in Sizes
  PROVE  OEnd(size) \in Nat /\ OEnd(size) >= 1 /\ CEnd(size) = OEnd(size)
BY Thirds

\* Between two calls the OChars end with two terminators that nothing overwrites.
IsBoundary(b) ==
  /\ DOMAIN b = {"size", "chars", "ochars", "o_now"}
  /\ BoundaryType(b)
  /\ b.ochars[OEnd(b.size)] = NUL /\ b.ochars[OEnd(b.size) + 1] = NUL

\* The OChars hold o from place at on.
HoldsAt(b, o, at) ==
  /\ at + Len(o) <= OEnd(b.size)
  /\ \A i \in 1 .. Len(o) : b.ochars[at + (i - 1)] = o[i]

\* What a text becomes in the OChars.
Spell(text, padded) == IF padded THEN text \o <<NUL, NUL>> ELSE text \o <<NUL>>

LEMMA OpenedIsBoundary ==
  ASSUME NEW size \in Sizes, NEW b \in Opened(size)
  PROVE  IsBoundary(b) /\ b.chars = <<>> /\ b.size = size
<1>1. PICK o \in [Cells(size) -> {Junk, NUL}] :
        /\ \A i \in Cells(size) : i >= OEnd(size) => o[i] = NUL
        /\ b = [size |-> size, chars |-> <<>>, ochars |-> o, o_now |-> 0]
  BY DEF Opened
<1>2. OEnd(size) \in Nat /\ OEnd(size) >= 1 /\ CEnd(size) = OEnd(size)
  BY EndIsPositive
<1>3. o[OEnd(size)] = NUL /\ o[OEnd(size) + 1] = NUL
  BY <1>1, <1>2 DEF Cells
<1>4. o \in [Cells(size) -> Chars \cup {NUL, Junk}]
  BY <1>1
<1>5. <<>> \in Seq(Chars \cup {Trail, NUL}) /\ Len(<<>>) <= CEnd(size)
  BY <1>2, EmptySeq
<1>6. DOMAIN b = {"size", "chars", "ochars", "o_now"}
  BY <1>1
<1> QED BY <1>1, <1>2, <1>3, <1>4, <1>5, <1>6 DEF IsBoundary, BoundaryType

LEMMA SourceSpells ==
  ASSUME NEW text \in Seq(Chars), NEW padded \in BOOLEAN
  PROVE  /\ Source(text, padded) \in Seq(Coded)
         /\ Source(text, padded) \o <<NUL>> \in Seq(Coded)
         /\ Converted(Source(text, padded) \o <<NUL>>) = Spell(text, padded)
         /\ Spell(text, padded) \in Seq(Plain)
<1>1. Encoded(text) \in Seq(Coded) /\ Converted(Encoded(text)) = text
  BY EncodedIs, ConvertedEncoded
<1>2. Converted(<<NUL>>) = <<NUL>> /\ <<NUL>> \in Seq(Coded)
  BY ConvertedNul
<1>3. PICK e, n : e = Encoded(text) /\ n = <<NUL>>
  OBVIOUS
<1>4. e \o n \in Seq(Coded) /\ Converted(e \o n) = text \o n
  BY <1>1, <1>2, <1>3, ConcatProperties, ConvertedConcat
<1>5. (e \o n) \o n \in Seq(Coded) /\ Converted((e \o n) \o n) = (text \o n) \o n
  BY <1>2, <1>3, <1>4, ConcatProperties, ConvertedConcat
<1>6. text \in Seq(Plain) /\ n \in Seq(Plain)
  BY <1>3 DEF Plain
<1>7. (text \o n) \o n = text \o (n \o n) /\ n \o n = <<NUL, NUL>>
  <2>1. (text \o n) \o n = text \o (n \o n)
    BY <1>6, ConcatAssociative
  <2>2. n \o n = <<NUL, NUL>>
    BY <1>3, PairConcat
  <2> QED BY <2>1, <2>2
<1>8. text \o n \in Seq(Plain) /\ (text \o n) \o n \in Seq(Plain)
  BY <1>6, ConcatProperties
<1>9. CASE padded
  BY <1>3, <1>4, <1>5, <1>7, <1>8, <1>9 DEF Source, Spell
<1>10. CASE ~padded
  BY <1>1, <1>3, <1>4, <1>8, <1>10 DEF Source, Spell
<1> QED BY <1>9, <1>10

LEMMA PutKeeps ==
  ASSUME NEW b, IsBoundary(b), NEW s \in Seq(Coded), NEW after, after = PutCharIn(b, s)
  PROVE  /\ IsBoundary(after)
         /\ after.size = b.size /\ after.ochars = b.ochars /\ after.o_now = b.o_now
         /\ Refuses(b, s) => after = b
         /\ ~Refuses(b, s) => after.chars = b.chars \o s \o <<NUL>>
<1>1. CASE Refuses(b, s)
  BY <1>1 DEF PutCharIn
<1>2. CASE ~Refuses(b, s)
  <2>1. PICK n : n = <<NUL>>
    OBVIOUS
  <2>2. n \in Seq(Coded) /\ Len(n) = 1
    BY <2>1, ConvertedNul
  <2>3. b.chars \in Seq(Coded) /\ Len(b.chars) \in Nat /\ Len(s) \in Nat
    BY LenProperties DEF IsBoundary, BoundaryType, Coded
  <2>4. CEnd(b.size) \in Nat
    BY EndIsPositive DEF IsBoundary, BoundaryType
  <2>5. b.chars \o s \in Seq(Coded)
    BY <2>3, ConcatProperties
  <2>6. Len(b.chars \o s) = Len(b.chars) + Len(s)
    BY <2>3, ConcatProperties
  <2>7. (b.chars \o s) \o n \in Seq(Coded)
    BY <2>2, <2>5, ConcatProperties
  <2>8. Len((b.chars \o s) \o n) = Len(b.chars \o s) + 1
    <3>1. PICK bs : bs = b.chars \o s
      OBVIOUS
    <3>2. bs \in Seq(Coded)
      BY <2>5, <3>1
    <3>3. Len(bs \o n) = Len(bs) + Len(n)
      BY <2>2, <3>2, ConcatProperties
    <3> QED BY <2>2, <3>1, <3>3
  <2>9. Len((b.chars \o s) \o n) <= CEnd(b.size)
    BY <1>2, <2>3, <2>4, <2>6, <2>8 DEF Refuses
  <2>10. PICK chars : chars = (b.chars \o s) \o n
    OBVIOUS
  <2>11. after = [b EXCEPT !.chars = chars]
    BY <1>2, <2>1, <2>10 DEF PutCharIn
  <2>12. /\ DOMAIN after = DOMAIN b /\ after.chars = chars
         /\ after.size = b.size /\ after.ochars = b.ochars /\ after.o_now = b.o_now
    BY <2>11 DEF IsBoundary
  <2>13. IsBoundary(after)
    BY <2>7, <2>9, <2>10, <2>12 DEF IsBoundary, BoundaryType, Coded
  <2> QED BY <1>2, <2>1, <2>10, <2>12, <2>13
<1> QED BY <1>1, <1>2

LEMMA FlushKeeps ==
  ASSUME NEW b, IsBoundary(b), NEW after, after = FlushInbound(b)
  PROVE  /\ IsBoundary(after) /\ after.size = b.size /\ after.chars = <<>>
         /\ IsFlushed(b) => after = b
         /\ ~IsFlushed(b) => after.o_now = 0 /\ HoldsAt(after, Converted(b.chars), 0)
<1>1. CASE IsFlushed(b)
  BY <1>1 DEF FlushInbound, IsFlushed
<1>2. CASE ~IsFlushed(b)
  <2>1. PICK o : o = Converted(b.chars)
    OBVIOUS
  <2>2. b.chars \in Seq(Coded) /\ Len(b.chars) \in Nat /\ Len(b.chars) <= CEnd(b.size)
    BY LenProperties DEF IsBoundary, BoundaryType, Coded
  <2>3. o \in Seq(Plain) /\ Len(o) <= Len(b.chars)
    BY <2>1, <2>2, ConvertedIs, ConvertedShrinks
  <2>4. Len(o) \in Nat /\ \A i \in 1 .. Len(o) : o[i] \in Plain
    BY <2>3, LenProperties
  <2>5. b.size \in Sizes /\ b.ochars \in [Cells(b.size) -> Chars \cup {NUL, Junk}]
    BY DEF IsBoundary, BoundaryType
  <2>6. OEnd(b.size) \in Nat /\ CEnd(b.size) = OEnd(b.size)
    BY <2>5, EndIsPositive
  <2>7. PICK oc : oc = [i \in DOMAIN b.ochars |->
                          IF i < Len(o) THEN o[i + 1] ELSE b.ochars[i]]
    OBVIOUS
  <2>8. after = [b EXCEPT !.chars = <<>>, !.ochars = oc, !.o_now = 0]
    BY <1>2, <2>1, <2>7 DEF FlushInbound
  <2>9. /\ DOMAIN after = DOMAIN b /\ after.size = b.size /\ after.chars = <<>>
        /\ after.ochars = oc /\ after.o_now = 0
    BY <2>8 DEF IsBoundary
  <2>10. oc \in [Cells(b.size) -> Chars \cup {NUL, Junk}]
    <3>1. DOMAIN oc = Cells(b.size)
      BY <2>5, <2>7
    <3>2. ASSUME NEW i \in Cells(b.size) PROVE oc[i] \in Chars \cup {NUL, Junk}
      <4>1. i \in Nat
        BY <2>6 DEF Cells
      <4>2. CASE i < Len(o)
        <5>1. i + 1 \in 1 .. Len(o)
          BY <2>4, <4>1, <4>2
        <5> QED BY <2>4, <2>5, <2>7, <4>2, <5>1 DEF Plain
      <4>3. CASE ~(i < Len(o))
        BY <2>5, <2>7, <4>3
      <4> QED BY <4>2, <4>3
    <3>3. oc = [i \in DOMAIN oc |-> oc[i]]
      BY <2>7
    <3> QED BY <3>1, <3>2, <3>3
  <2>11. \A i \in Cells(b.size) : ~(i < Len(o)) => oc[i] = b.ochars[i]
    BY <2>5, <2>7
  <2>12. oc[OEnd(b.size)] = NUL /\ oc[OEnd(b.size) + 1] = NUL
    <3>1. /\ OEnd(b.size) \in Cells(b.size) /\ ~(OEnd(b.size) < Len(o))
          /\ OEnd(b.size) + 1 \in Cells(b.size) /\ ~(OEnd(b.size) + 1 < Len(o))
      BY <2>2, <2>3, <2>4, <2>6 DEF Cells
    <3> QED BY <2>11, <3>1 DEF IsBoundary
  <2>13. <<>> \in Seq(Chars \cup {Trail, NUL}) /\ Len(<<>>) <= CEnd(b.size)
    BY <2>6, EmptySeq
  <2>14. IsBoundary(after)
    BY <2>5, <2>6, <2>9, <2>10, <2>12, <2>13 DEF IsBoundary, BoundaryType
  <2>15. \A i \in 1 .. Len(o) : oc[0 + (i - 1)] = o[i]
    <3> TAKE i \in 1 .. Len(o)
    <3>1. i - 1 \in Cells(b.size) /\ i - 1 < Len(o) /\ (i - 1) + 1 = i /\ 0 + (i - 1) = i - 1
      BY <2>2, <2>3, <2>4, <2>6 DEF Cells
    <3> QED BY <2>5, <2>7, <3>1
  <2>16. HoldsAt(after, o, 0)
    BY <2>2, <2>3, <2>4, <2>6, <2>9, <2>15 DEF HoldsAt
  <2> QED BY <1>2, <2>1, <2>9, <2>14, <2>16
<1> QED BY <1>1, <1>2

LEMMA LeastIs ==
  ASSUME NEW S, S \subseteq Nat, NEW x \in S, \A y \in S : x <= y
  PROVE  Min(S) = x
<1>1. \A z \in S : (\A y \in S : z <= y) => z = x
  BY DEF Min
<1> QED BY <1>1 DEF Min

\* The terminators at which the text at o_now may end.
Terminators(b) == {i \in DOMAIN b.ochars : i >= b.o_now /\ b.ochars[i] = NUL}

LEMMA NextLenIs ==
  ASSUME NEW b, IsBoundary(b), NEW n \in Nat,
         b.o_now + n <= OEnd(b.size), b.ochars[b.o_now + n] = NUL,
         \A i \in 0 .. n - 1 : b.ochars[b.o_now + i] # NUL
  PROVE  NextLen(b) = n
<1>1. OEnd(b.size) \in Nat /\ b.o_now \in Nat /\ DOMAIN b.ochars = 0 .. OEnd(b.size) + 1
  BY EndIsPositive DEF IsBoundary, BoundaryType, Cells
<1>2. Terminators(b) \subseteq Nat /\ b.o_now + n \in Terminators(b)
  BY <1>1 DEF Terminators
<1>3. \A y \in Terminators(b) : b.o_now + n <= y
  <2> TAKE y \in Terminators(b)
  <2>1. y \in Nat /\ y >= b.o_now /\ b.ochars[y] = NUL
    BY <1>1 DEF Terminators
  <2>2. CASE y < b.o_now + n
    <3>1. y - b.o_now \in 0 .. n - 1 /\ b.o_now + (y - b.o_now) = y
      BY <1>1, <2>1, <2>2
    <3> QED BY <2>1, <3>1
  <2> QED BY <1>1, <2>1, <2>2
<1>4. Min(Terminators(b)) = b.o_now + n
  BY <1>2, <1>3, LeastIs
<1> QED BY <1>1, <1>4 DEF NextLen, Terminators

LEMMA NextLenBounded ==
  ASSUME NEW b, IsBoundary(b)
  PROVE  /\ NextLen(b) \in Nat /\ b.o_now + NextLen(b) <= OEnd(b.size)
         /\ NextText(b) \in Seq(Chars \cup {Junk}) /\ Len(NextText(b)) = NextLen(b)
<1>1. /\ OEnd(b.size) \in Nat /\ b.o_now \in 0 .. OEnd(b.size)
      /\ DOMAIN b.ochars = 0 .. OEnd(b.size) + 1
      /\ b.ochars \in [0 .. OEnd(b.size) + 1 -> Chars \cup {NUL, Junk}]
  BY EndIsPositive DEF IsBoundary, BoundaryType, Cells
<1>2. Terminators(b) \subseteq Nat /\ OEnd(b.size) \in Terminators(b)
  BY <1>1 DEF Terminators, IsBoundary
<1>3. PICK least \in Terminators(b) : \A y \in Terminators(b) : least <= y
  BY <1>2, LeastNumber
<1>4. Min(Terminators(b)) = least
  BY <1>2, <1>3, LeastIs
<1>5. least \in Nat /\ least >= b.o_now /\ least <= OEnd(b.size)
  BY <1>2, <1>3 DEF Terminators
<1>6. NextLen(b) = least - b.o_now
  BY <1>4 DEF NextLen, Terminators
<1>7. NextLen(b) \in Nat /\ b.o_now + NextLen(b) <= OEnd(b.size)
  BY <1>1, <1>5, <1>6
<1>8. ASSUME NEW i \in 1 .. NextLen(b)
      PROVE  b.ochars[b.o_now + (i - 1)] \in Chars \cup {Junk}
  <2>1. b.o_now + (i - 1) \in DOMAIN b.ochars /\ b.o_now + (i - 1) >= b.o_now
    BY <1>1, <1>7
  <2>2. b.o_now + (i - 1) \notin Terminators(b)
    BY <1>1, <1>3, <1>5, <1>6
  <2>3. b.ochars[b.o_now + (i - 1)] # NUL
    BY <2>1, <2>2 DEF Terminators
  <2> QED BY <1>1, <2>1, <2>3
<1>9. NextText(b) \in [1 .. NextLen(b) -> Chars \cup {Junk}]
  BY <1>8 DEF NextText
<1> QED BY <1>7, <1>9

LEMMA GetKeeps ==
  ASSUME NEW b, IsBoundary(b), NEW after, after = AfterGet(b)
  PROVE  /\ IsBoundary(after) /\ after.size = b.size
         /\ after.chars = b.chars /\ after.ochars = b.ochars
         /\ after.o_now = IF GetStatus(b) = "OKAY" THEN b.o_now + NextLen(b) + 1 ELSE b.o_now
<1>1. CASE GetStatus(b) # "OKAY"
  BY <1>1 DEF AfterGet
<1>2. CASE GetStatus(b) = "OKAY"
  <2>1. NextLen(b) \in Nat /\ b.o_now + NextLen(b) + 1 < OEnd(b.size)
    BY <1>2, NextLenBounded DEF GetStatus
  <2>2. b.o_now \in Nat /\ OEnd(b.size) \in Nat
    BY EndIsPositive DEF IsBoundary, BoundaryType
  <2>3. b.o_now + NextLen(b) + 1 \in 0 .. OEnd(b.size)
    BY <2>1, <2>2
  <2>4. PICK now : now = b.o_now + NextLen(b) + 1
    OBVIOUS
  <2>5. after = [b EXCEPT !.o_now = now]
    BY <1>2, <2>4 DEF AfterGet
  <2>6. /\ DOMAIN after = DOMAIN b /\ after.size = b.size /\ after.chars = b.chars
        /\ after.ochars = b.ochars /\ after.o_now = now
    BY <2>5 DEF IsBoundary
  <2>7. IsBoundary(after)
    BY <2>3, <2>4, <2>6 DEF IsBoundary, BoundaryType
  <2> QED BY <1>2, <2>4, <2>6, <2>7
<1> QED BY <1>1, <1>2

\* A text that lies at o_now with its terminator is what get finds.
LEMMA NextIs ==
  ASSUME NEW b, IsBoundary(b), NEW text \in Seq(Chars), NEW rest \in Seq(Plain),
         HoldsAt(b, text \o <<NUL>> \o rest, b.o_now)
  PROVE  /\ NextLen(b) = Len(text) /\ NextText(b) = text
         /\ b.o_now + Len(text) + 1 + Len(rest) <= OEnd(b.size)
         /\ HoldsAt(b, rest, b.o_now + Len(text) + 1)
<1>1. PICK n : n = <<NUL>>
  OBVIOUS
<1>2. /\ n \in Seq(Plain) /\ Len(n) = 1 /\ n[1] = NUL
      /\ text \in Seq(Plain) /\ Len(text) \in Nat /\ Len(rest) \in Nat
  BY <1>1, LenProperties DEF Plain
<1>3. PICK tn : tn = text \o n
  OBVIOUS
<1>4. tn \in Seq(Plain)
  BY <1>2, <1>3, ConcatProperties
<1>5. Len(tn) = Len(text) + 1
  <2>1. Len(text \o n) = Len(text) + Len(n)
    BY <1>2, ConcatProperties
  <2> QED BY <1>2, <1>3, <2>1
<1>6. \A i \in 1 .. Len(text) + 1 :
        tn[i] = IF i <= Len(text) THEN text[i] ELSE n[i - Len(text)]
  BY <1>2, <1>3, ConcatProperties
<1>7. PICK o : o = tn \o rest
  OBVIOUS
<1>8. Len(o) = Len(text) + 1 + Len(rest)
  <2>1. Len(tn \o rest) = Len(tn) + Len(rest)
    BY <1>4, ConcatProperties
  <2> QED BY <1>5, <1>7, <2>1
<1>9. \A i \in 1 .. Len(text) + 1 + Len(rest) :
        o[i] = IF i <= Len(text) + 1 THEN tn[i] ELSE rest[i - (Len(text) + 1)]
  BY <1>2, <1>4, <1>5, <1>7, ConcatProperties
<1>10. /\ b.o_now + Len(o) <= OEnd(b.size)
       /\ \A i \in 1 .. Len(o) : b.ochars[b.o_now + (i - 1)] = o[i]
  BY <1>1, <1>3, <1>7 DEF HoldsAt
<1>11. b.o_now \in Nat /\ OEnd(b.size) \in Nat
  BY EndIsPositive DEF IsBoundary, BoundaryType
<1>12. \A i \in 1 .. Len(text) : b.ochars[b.o_now + (i - 1)] = text[i]
  <2> TAKE i \in 1 .. Len(text)
  <2>1. /\ i \in 1 .. Len(o) /\ i \in 1 .. Len(text) + 1 + Len(rest)
        /\ i \in 1 .. Len(text) + 1 /\ i <= Len(text) + 1 /\ i <= Len(text)
    BY <1>2, <1>8
  <2> QED BY <1>6, <1>9, <1>10, <2>1
<1>13. b.ochars[b.o_now + Len(text)] = NUL
  <2>1. PICK i : i = Len(text) + 1
    OBVIOUS
  <2>2. /\ i \in 1 .. Len(o) /\ i \in 1 .. Len(text) + 1 + Len(rest)
        /\ i \in 1 .. Len(text) + 1 /\ ~(i <= Len(text)) /\ i <= Len(text) + 1
        /\ i - Len(text) = 1 /\ b.o_now + (i - 1) = b.o_now + Len(text)
    BY <1>2, <1>8, <1>11, <2>1
  <2>3. b.ochars[b.o_now + (i - 1)] = o[i] /\ o[i] = tn[i] /\ tn[i] = n[1]
    BY <1>6, <1>9, <1>10, <2>2
  <2> QED BY <1>2, <2>2, <2>3
<1>14. \A i \in 1 .. Len(rest) : b.ochars[(b.o_now + Len(text) + 1) + (i - 1)] = rest[i]
  <2> TAKE i \in 1 .. Len(rest)
  <2>1. PICK j : j = Len(text) + 1 + i
    OBVIOUS
  <2>2. /\ j \in 1 .. Len(o) /\ j \in 1 .. Len(text) + 1 + Len(rest)
        /\ ~(j <= Len(text) + 1) /\ j - (Len(text) + 1) = i
        /\ b.o_now + (j - 1) = (b.o_now + Len(text) + 1) + (i - 1)
    BY <1>2, <1>8, <1>11, <2>1
  <2>3. b.ochars[b.o_now + (j - 1)] = o[j] /\ o[j] = rest[j - (Len(text) + 1)]
    BY <1>9, <1>10, <2>2
  <2> QED BY <2>2, <2>3
<1>15. \A i \in 1 .. Len(text) : text[i] \in Chars
  BY LenProperties
<1>16. NextLen(b) = Len(text)
  <2>1. \A i \in 0 .. Len(text) - 1 : b.ochars[b.o_now + i] # NUL
    <3> TAKE i \in 0 .. Len(text) - 1
    <3>1. i + 1 \in 1 .. Len(text) /\ b.o_now + ((i + 1) - 1) = b.o_now + i
      BY <1>2, <1>11
    <3>2. b.ochars[b.o_now + i] = text[i + 1]
      BY <1>12, <3>1
    <3> QED BY <1>15, <3>1, <3>2, BoundaryAssumption
  <2>2. b.o_now + Len(text) <= OEnd(b.size)
    BY <1>2, <1>8, <1>10, <1>11
  <2> QED BY <1>2, <1>13, <2>1, <2>2, NextLenIs
<1>17. NextText(b) = text
  <2>1. NextText(b) = [i \in 1 .. Len(text) |-> b.ochars[b.o_now + (i - 1)]]
    BY <1>16 DEF NextText
  <2>2. text = [i \in 1 .. Len(text) |-> text[i]]
    BY LenProperties
  <2> QED BY <1>12, <2>1, <2>2
<1>18. HoldsAt(b, rest, b.o_now + Len(text) + 1)
  BY <1>2, <1>8, <1>10, <1>11, <1>14 DEF HoldsAt
<1> QED BY <1>2, <1>8, <1>10, <1>11, <1>16, <1>17, <1>18

LEMMA HoldsStart ==
  ASSUME NEW b, IsBoundary(b), NEW o \in Seq(Plain), NEW rest \in Seq(Plain), NEW at \in Nat,
         HoldsAt(b, o \o rest, at)
  PROVE  HoldsAt(b, o, at)
<1>1. Len(o) \in Nat /\ Len(rest) \in Nat /\ OEnd(b.size) \in Nat
  BY LenProperties, EndIsPositive DEF IsBoundary, BoundaryType
<1>2. PICK u : u = o \o rest
  OBVIOUS
<1>3. Len(u) = Len(o) + Len(rest)
  BY <1>2, ConcatProperties
<1>4. \A i \in 1 .. Len(o) + Len(rest) : u[i] = IF i <= Len(o) THEN o[i] ELSE rest[i - Len(o)]
  BY <1>2, ConcatProperties
<1>5. at + Len(u) <= OEnd(b.size) /\ \A i \in 1 .. Len(u) : b.ochars[at + (i - 1)] = u[i]
  BY <1>2 DEF HoldsAt
<1>6. \A i \in 1 .. Len(o) : b.ochars[at + (i - 1)] = o[i]
  BY <1>1, <1>3, <1>4, <1>5
<1> QED BY <1>1, <1>3, <1>5, <1>6 DEF HoldsAt

LEMMA SpellEnds ==
  ASSUME NEW text \in Seq(Chars), NEW padded \in BOOLEAN
  PROVE  Spell(text, padded) = (text \o <<NUL>>) \o (IF padded THEN <<NUL>> ELSE <<>>)
<1>1. PICK n : n = <<NUL>>
  OBVIOUS
<1>2. n \in Seq(Plain) /\ text \in Seq(Plain)
  BY <1>1 DEF Plain
<1>3. (text \o n) \o n = text \o (n \o n)
  BY <1>2, ConcatAssociative
<1>4. n \o n = <<NUL, NUL>>
  BY <1>1, PairConcat
<1>5. text \o n \in Seq(Plain)
  BY <1>2, ConcatProperties
<1>6. (text \o n) \o <<>> = text \o n
  BY <1>5, ConcatEmptySeq
<1> QED BY <1>1, <1>3, <1>4, <1>6 DEF Spell

-----------------------------------------------------------------------------
(* One call of enqueue_ds_node.                                            *)

IsNode(n) ==
  /\ DOMAIN n = {"id", "depth", "has_key", "kind", "key", "value"}
  /\ n.depth \in 0 .. MaxDepth
  /\ n.kind \in Collections \cup {"string", "unset"}
  /\ n.has_key \in BOOLEAN
  /\ n.key = NoText \/ (n.key \in Seq(Chars \cup {Junk}) /\ n.has_key)
  /\ n.value = NoText \/ (n.value \in Seq(Chars \cup {Junk}) /\ n.kind = "string")

Typed(d) ==
  /\ DOMAIN d = {"status", "key_staging", "boundary", "node", "sequence"}
  /\ d.status \in {"OKAY", "NODE_PRODUCED", "KEY_STR_TOO_LONG", "BOUNDARY_RESET"}
  /\ d.key_staging \in Seq(Chars)
  /\ IsBoundary(d.boundary)
  /\ IsNode(d.node)
  /\ d.sequence \in Nat /\ d.node.id \in Nat /\ d.node.id <= d.sequence

LEMMA TypedIsType ==
  ASSUME NEW d, Typed(d)
  PROVE  DataSourceType(d)
BY DEF Typed, IsNode, IsBoundary, DataSourceType

LEMMA NewIsTyped ==
  ASSUME NEW size \in Sizes, NEW b \in Opened(size), NEW d, d = NewDataSource(b)
  PROVE  /\ Typed(d) /\ d.status = "OKAY" /\ d.key_staging = <<>> /\ d.boundary = b
         /\ d.sequence = 0 /\ b.chars = <<>> /\ b.size = size
<1>1. IsBoundary(b) /\ b.chars = <<>> /\ b.size = size
  BY OpenedIsBoundary
<1>2. IsNode(NewNode) /\ NewNode.id = 0
  BY DataSourceAssumption DEF IsNode, NewNode
<1>3. <<>> \in Seq(Chars)
  BY EmptySeq
<1> QED BY <1>1, <1>2, <1>3 DEF Typed, NewDataSource

LEMMA StagedIsTyped ==
  ASSUME NEW d, Typed(d), NEW text \in Seq(Chars), NEW after, after = StageNodeKey(d, text)
  PROVE  /\ Typed(after) /\ after.boundary = d.boundary /\ after.node = d.node
         /\ after.sequence = d.sequence
         /\ d.status # "OKAY" => after = d
         /\ d.status = "OKAY" => /\ after.key_staging = text
                                 /\ after.status = IF IsTooLong(text) THEN "KEY_STR_TOO_LONG"
                                                   ELSE "OKAY"
BY DEF Typed, StageNodeKey

LEMMA ResetIsTyped ==
  ASSUME NEW d, Typed(d), NEW after, after = ResetDsStatus(d)
  PROVE  /\ Typed(after) /\ after.boundary = d.boundary /\ after.node = d.node
         /\ after.sequence = d.sequence /\ after.key_staging = d.key_staging
         /\ after.status = "OKAY"
BY DEF Typed, ResetDsStatus

LEMMA AscendedIsTyped ==
  ASSUME NEW d, Typed(d), NEW after, after = DsAscend(d)
  PROVE  /\ Typed(after) /\ after.boundary = d.boundary
         /\ after.node.key = d.node.key /\ after.node.value = d.node.value
         /\ after.sequence = d.sequence /\ after.key_staging = d.key_staging
         /\ after.status = d.status
<1>1. CASE d.node.depth = 0
  BY <1>1 DEF DsAscend
<1>2. CASE d.node.depth # 0
  <2>1. PICK n : n = [d.node EXCEPT !.depth = @ - 1]
    OBVIOUS
  <2>2. after = [d EXCEPT !.node = n]
    BY <1>2, <2>1 DEF DsAscend
  <2>3. IsNode(n) /\ n.id = d.node.id /\ n.key = d.node.key /\ n.value = d.node.value
    BY <1>2, <2>1, DataSourceAssumption DEF IsNode, Typed
  <2> QED BY <2>2, <2>3 DEF Typed
<1> QED BY <1>1, <1>2

\* The boundary of a data source on its way through an enqueue of value under key.
PutKeyIn(b, key) == IF key # <<>> THEN PutCharIn(b, Source(key, FALSE)) ELSE b
PutBoth(b, key, kind, value) ==
  IF kind = "string" THEN PutCharIn(PutKeyIn(b, key), Source(value, TRUE))
  ELSE PutKeyIn(b, key)
Filled(b, key, kind, value) ==
  IF key # <<>> THEN FlushInbound(PutBoth(b, key, kind, value))
  ELSE PutBoth(b, key, kind, value)

\* The data source when everything has been put in and nothing is taken out yet.
FilledSource(d, kind, value) ==
  Flush(SetKind(Descend(PutValue(PutKey(Numbered(d)), kind, value), kind), kind))

LEMMA FilledSourceIs ==
  ASSUME NEW d, Typed(d), d.status = "OKAY", NEW kind \in Collections \cup {"string"},
         NEW value, NEW h, h = FilledSource(d, kind, value),
         IsBoundary(Filled(d.boundary, d.key_staging, kind, value))
  PROVE  /\ Typed(h) /\ h.status = "OKAY" /\ h.key_staging = d.key_staging
         /\ h.boundary = Filled(d.boundary, d.key_staging, kind, value)
         /\ h.sequence = d.sequence + 1
         /\ h.node.id = d.sequence /\ h.node.kind = kind
         /\ d.key_staging # <<>> => h.node.has_key
         /\ h.node.key = NoText /\ h.node.value = NoText
<1>1. PICK n : n = [NewNode EXCEPT !.id = d.sequence, !.depth = d.node.depth,
                                   !.has_key = d.node.has_key \/ HasStagedKey(d)]
  OBVIOUS
<1>2. /\ IsNode(n) /\ n.id = d.sequence /\ n.key = NoText /\ n.value = NoText
      /\ d.key_staging # <<>> => n.has_key
      /\ n.depth = d.node.depth
  <2>1. n.has_key = (d.node.has_key \/ HasStagedKey(d)) /\ d.node.has_key \in BOOLEAN
    BY <1>1 DEF NewNode, Typed, IsNode
  <2>2. HasStagedKey(d) => n.has_key = TRUE
    BY <2>1
  <2> QED BY <1>1, <2>1, <2>2 DEF IsNode, NewNode, Typed, HasStagedKey
<1>3. PICK a : a = [d EXCEPT !.node = n, !.sequence = @ + 1]
  OBVIOUS
<1>4. a = Numbered(d)
  BY <1>1, <1>3 DEF Numbered
<1>5. /\ DOMAIN a = DOMAIN d /\ a.status = "OKAY" /\ a.key_staging = d.key_staging
      /\ a.node = n /\ a.boundary = d.boundary /\ a.sequence = d.sequence + 1
  BY <1>3 DEF Typed
<1>6. PICK b : b = PutKey(a)
  OBVIOUS
<1>7. /\ DOMAIN b = DOMAIN d /\ b.status = "OKAY" /\ b.key_staging = d.key_staging
      /\ b.node = n /\ b.boundary = PutKeyIn(d.boundary, d.key_staging)
      /\ b.sequence = d.sequence + 1
  BY <1>5, <1>6 DEF PutKey, PutKeyIn, HasStagedKey, Typed
<1>8. PICK c : c = PutValue(b, kind, value)
  OBVIOUS
<1>9. /\ DOMAIN c = DOMAIN d /\ c.status = "OKAY" /\ c.key_staging = d.key_staging
      /\ c.node = n /\ c.boundary = PutBoth(d.boundary, d.key_staging, kind, value)
      /\ c.sequence = d.sequence + 1
  BY <1>7, <1>8 DEF PutValue, PutBoth, Typed
<1>10. PICK m : m = IF kind \in Collections /\ n.depth < MaxDepth
                    THEN [n EXCEPT !.depth = @ + 1] ELSE n
  OBVIOUS
<1>11. /\ IsNode(m) /\ m.id = d.sequence /\ m.key = NoText /\ m.value = NoText
       /\ m.has_key = n.has_key
  <2>1. CASE ~(kind \in Collections /\ n.depth < MaxDepth)
    BY <1>2, <1>10, <2>1
  <2>2. CASE kind \in Collections /\ n.depth < MaxDepth
    <3>1. m = [n EXCEPT !.depth = @ + 1]
      BY <1>10, <2>2
    <3>2. /\ DOMAIN m = DOMAIN n /\ m.id = n.id /\ m.key = n.key /\ m.value = n.value
          /\ m.has_key = n.has_key /\ m.kind = n.kind /\ m.depth = n.depth + 1
      BY <1>2, <3>1 DEF IsNode
    <3>3. m.depth \in 0 .. MaxDepth
      BY <1>2, <2>2, <3>2, DataSourceAssumption DEF IsNode
    <3> QED BY <1>2, <3>2, <3>3 DEF IsNode
  <2> QED BY <2>1, <2>2
<1>12. PICK f : f = Descend(c, kind)
  OBVIOUS
<1>13. /\ DOMAIN f = DOMAIN d /\ f.status = "OKAY" /\ f.key_staging = d.key_staging
       /\ f.node = m /\ f.boundary = c.boundary /\ f.sequence = d.sequence + 1
  BY <1>9, <1>10, <1>12 DEF Descend, Typed
<1>14. PICK k : k = [m EXCEPT !.kind = kind]
  OBVIOUS
<1>15. /\ IsNode(k) /\ k.id = d.sequence /\ k.key = NoText /\ k.value = NoText
       /\ k.has_key = n.has_key /\ k.kind = kind
  BY <1>11, <1>14 DEF IsNode
<1>16. PICK g : g = SetKind(f, kind)
  OBVIOUS
<1>17. /\ DOMAIN g = DOMAIN d /\ g.status = "OKAY" /\ g.key_staging = d.key_staging
       /\ g.node = k /\ g.boundary = c.boundary /\ g.sequence = d.sequence + 1
  BY <1>13, <1>14, <1>16 DEF SetKind, Typed
<1>18. h = Flush(g)
  BY <1>4, <1>6, <1>8, <1>12, <1>16 DEF FilledSource
<1>19. /\ DOMAIN h = DOMAIN d /\ h.status = "OKAY" /\ h.key_staging = d.key_staging
       /\ h.node = k /\ h.sequence = d.sequence + 1
       /\ h.boundary = Filled(d.boundary, d.key_staging, kind, value)
  BY <1>9, <1>17, <1>18 DEF Flush, HasStagedKey, Filled, Typed
<1>20. d.sequence \in Nat
  BY DEF Typed
<1> QED BY <1>2, <1>15, <1>19, <1>20 DEF Typed

\* What get_ochar_out leaves behind: a text, or one of two statuses.
StatusAfter(b) == IF GetStatus(b) = "BOUNDARY_RESET" THEN "BOUNDARY_RESET" ELSE "OKAY"

LEMMA GotIsText ==
  ASSUME NEW b, IsBoundary(b)
  PROVE  GotText(b) = NoText \/ GotText(b) \in Seq(Chars \cup {Junk})
BY NextLenBounded DEF GotText

LEMMA TakeKeyIs ==
  ASSUME NEW h, Typed(h), h.status = "OKAY", NEW t, t = TakeKey(h),
         h.key_staging # <<>> => h.node.has_key
  PROVE  /\ Typed(t) /\ t.key_staging = <<>> /\ t.sequence = h.sequence
         /\ t.node.id = h.node.id /\ t.node.kind = h.node.kind /\ t.node.value = h.node.value
         /\ h.key_staging = <<>> => t = h
         /\ h.key_staging # <<>> =>
              /\ t.boundary = AfterGet(h.boundary) /\ t.status = StatusAfter(h.boundary)
              /\ t.status = "OKAY" => t.node.key = GotText(h.boundary)
<1>1. CASE h.key_staging = <<>>
  BY <1>1 DEF TakeKey, HasStagedKey
<1>2. CASE h.key_staging # <<>>
  <2>1. PICK b, s, text : /\ b = AfterGet(h.boundary) /\ s = StatusAfter(h.boundary)
                          /\ text = GotText(h.boundary)
    OBVIOUS
  <2>2. IsBoundary(b) /\ s \in {"OKAY", "BOUNDARY_RESET"}
    BY <2>1, GetKeeps DEF StatusAfter, Typed
  <2>3. text = NoText \/ text \in Seq(Chars \cup {Junk})
    BY <2>1, GotIsText DEF Typed
  <2>4. PICK got : got = [AfterGetOChar(h) EXCEPT !.key_staging = <<>>]
    OBVIOUS
  <2>5. /\ DOMAIN got = DOMAIN h /\ got.status = s /\ got.key_staging = <<>>
        /\ got.boundary = b /\ got.node = h.node /\ got.sequence = h.sequence
    BY <2>1, <2>4 DEF AfterGetOChar, StatusAfter, Typed
  <2>6. PICK n : n = [h.node EXCEPT !.key = text]
    OBVIOUS
  <2>7. /\ IsNode(n) /\ n.key = text /\ n.id = h.node.id /\ n.kind = h.node.kind
        /\ n.value = h.node.value
    BY <1>2, <2>3, <2>6 DEF IsNode, Typed
  <2>8. <<>> \in Seq(Chars)
    BY EmptySeq
  <2>9. CASE s = "OKAY"
    <3>1. t = [got EXCEPT !.node = n]
      BY <1>2, <2>1, <2>4, <2>5, <2>6, <2>9 DEF TakeKey, HasStagedKey, Typed
    <3> QED BY <1>2, <2>1, <2>2, <2>5, <2>7, <2>8, <2>9, <3>1 DEF Typed
  <2>10. CASE s # "OKAY"
    <3>1. t = got
      BY <1>2, <2>4, <2>5, <2>10 DEF TakeKey, HasStagedKey
    <3> QED BY <1>2, <2>1, <2>2, <2>5, <2>8, <2>10, <3>1 DEF Typed
  <2> QED BY <2>9, <2>10
<1> QED BY <1>1, <1>2

LEMMA TakeValueIs ==
  ASSUME NEW t, Typed(t), t.status \in {"OKAY", "BOUNDARY_RESET"}, NEW v, v = TakeValue(t)
  PROVE  /\ Typed(v) /\ v.key_staging = t.key_staging /\ v.sequence = t.sequence
         /\ v.node.id = t.node.id /\ v.node.kind = t.node.kind /\ v.node.key = t.node.key
         /\ v.status \in {"OKAY", "BOUNDARY_RESET"}
         /\ v.boundary.chars = t.boundary.chars
         /\ t.status # "OKAY" \/ t.node.kind # "string" => v = t
         /\ t.status = "OKAY" /\ t.node.kind = "string" =>
              /\ v.status = StatusAfter(t.boundary)
              /\ v.status = "OKAY" => v.node.value = GotText(t.boundary)
<1>1. CASE t.status # "OKAY" \/ t.node.kind # "string"
  BY <1>1 DEF TakeValue
<1>2. CASE t.status = "OKAY" /\ t.node.kind = "string"
  <2>1. PICK b, s, text : /\ b = AfterGet(t.boundary) /\ s = StatusAfter(t.boundary)
                          /\ text = GotText(t.boundary)
    OBVIOUS
  <2>2. IsBoundary(b) /\ s \in {"OKAY", "BOUNDARY_RESET"} /\ b.chars = t.boundary.chars
    BY <2>1, GetKeeps DEF StatusAfter, Typed
  <2>3. text = NoText \/ text \in Seq(Chars \cup {Junk})
    BY <2>1, GotIsText DEF Typed
  <2>4. PICK got : got = AfterGetOChar(t)
    OBVIOUS
  <2>5. /\ DOMAIN got = DOMAIN t /\ got.status = s /\ got.key_staging = t.key_staging
        /\ got.boundary = b /\ got.node = t.node /\ got.sequence = t.sequence
    BY <2>1, <2>4 DEF AfterGetOChar, StatusAfter, Typed
  <2>6. PICK n : n = [t.node EXCEPT !.value = text]
    OBVIOUS
  <2>7. /\ IsNode(n) /\ n.value = text /\ n.id = t.node.id /\ n.kind = t.node.kind
        /\ n.key = t.node.key
    BY <1>2, <2>3, <2>6 DEF IsNode, Typed
  <2>8. CASE s = "OKAY"
    <3>1. v = [got EXCEPT !.node = n]
      BY <1>2, <2>1, <2>4, <2>5, <2>6, <2>8 DEF TakeValue, Typed
    <3> QED BY <1>2, <2>1, <2>2, <2>5, <2>7, <2>8, <3>1 DEF Typed
  <2>9. CASE s # "OKAY"
    <3>1. v = got
      BY <1>2, <2>4, <2>5, <2>9 DEF TakeValue
    <3> QED BY <1>2, <2>1, <2>2, <2>5, <2>9, <3>1 DEF Typed
  <2> QED BY <2>8, <2>9
<1> QED BY <1>1, <1>2

\* A key and a value that are accepted by an empty boundary lie in its OChars.
Entry(kind, value) == IF kind = "string" THEN Spell(value, TRUE) ELSE <<>>
Accepts(b, key, kind, value) ==
  /\ ~Refuses(b, Source(key, FALSE))
  /\ kind = "string" => ~Refuses(PutKeyIn(b, key), Source(value, TRUE))

LEMMA NotRefused ==
  ASSUME NEW d, Typed(d), NEW kind, NEW value, ~IsRefused(d, kind, value),
         d.key_staging # <<>>
  PROVE  Accepts(d.boundary, d.key_staging, kind, value)
<1>1. PutKey(d).boundary = PutKeyIn(d.boundary, d.key_staging)
  BY DEF PutKey, PutKeyIn, HasStagedKey, Typed
<1> QED BY <1>1 DEF IsRefused, Accepts, HasStagedKey

LEMMA FilledIs ==
  ASSUME NEW b, IsBoundary(b), NEW key \in Seq(Chars), NEW value \in Seq(Chars), NEW kind,
         NEW f, f = Filled(b, key, kind, value)
  PROVE  /\ IsBoundary(f) /\ f.size = b.size
         /\ b.chars = <<>> /\ (key # <<>> \/ kind # "string") => f.chars = <<>>
         /\ b.chars = <<>> /\ key # <<>> /\ Accepts(b, key, kind, value) =>
              f.o_now = 0 /\ HoldsAt(f, key \o <<NUL>> \o Entry(kind, value), 0)
<1>1. PICK sk, sv : sk = Source(key, FALSE) /\ sv = Source(value, TRUE)
  OBVIOUS
<1>2. PICK kn, vn : kn = sk \o <<NUL>> /\ vn = sv \o <<NUL>>
  OBVIOUS
<1>3. /\ sk \in Seq(Coded) /\ kn \in Seq(Coded)
      /\ Converted(kn) = Spell(key, FALSE) /\ Spell(key, FALSE) \in Seq(Plain)
  BY <1>1, <1>2, SourceSpells
<1>4. /\ sv \in Seq(Coded) /\ vn \in Seq(Coded)
      /\ Converted(vn) = Spell(value, TRUE) /\ Spell(value, TRUE) \in Seq(Plain)
  BY <1>1, <1>2, SourceSpells
<1>5. PICK p : p = PutKeyIn(b, key)
  OBVIOUS
<1>6. /\ IsBoundary(p) /\ p.size = b.size
      /\ key = <<>> => p = b
      /\ key # <<>> /\ ~Refuses(b, sk) => p.chars = b.chars \o sk \o <<NUL>>
  BY <1>1, <1>3, <1>5, PutKeeps DEF PutKeyIn
<1>7. PICK q : q = PutBoth(b, key, kind, value)
  OBVIOUS
<1>8. /\ IsBoundary(q) /\ q.size = b.size
      /\ kind # "string" => q = p
      /\ kind = "string" /\ ~Refuses(p, sv) => q.chars = p.chars \o sv \o <<NUL>>
  BY <1>1, <1>4, <1>5, <1>6, <1>7, PutKeeps DEF PutBoth
<1>9. CASE key = <<>>
  BY <1>5, <1>6, <1>7, <1>8, <1>9 DEF Filled
<1>10. CASE key # <<>>
  <2>1. f = FlushInbound(q)
    BY <1>7, <1>10 DEF Filled
  <2>2. /\ IsBoundary(f) /\ f.size = b.size /\ f.chars = <<>>
        /\ ~IsFlushed(q) => f.o_now = 0 /\ HoldsAt(f, Converted(q.chars), 0)
    BY <1>8, <2>1, FlushKeeps
  <2>3. ASSUME b.chars = <<>>, Accepts(b, key, kind, value)
        PROVE  f.o_now = 0 /\ HoldsAt(f, key \o <<NUL>> \o Entry(kind, value), 0)
    <3>1. p.chars = kn
      <4>1. p.chars = (<<>> \o sk) \o <<NUL>>
        BY <1>1, <1>6, <1>10, <2>3 DEF Accepts
      <4>2. <<>> \o sk = sk
        BY <1>3, ConcatEmptySeq
      <4> QED BY <1>2, <4>1, <4>2
    <3>2. Len(kn) \in Nat \ {0}
      <4>1. Len(sk \o <<NUL>>) = Len(sk) + Len(<<NUL>>)
        BY <1>3, ConvertedNul, ConcatProperties
      <4>2. Len(sk) \in Nat
        BY <1>3, LenProperties
      <4> QED BY <1>2, <4>1, <4>2
    <3>3. PICK ks, e : ks = Spell(key, FALSE) /\ e = Entry(kind, value)
      OBVIOUS
    <3>4. ks = key \o <<NUL>>
      BY <3>3 DEF Spell
    <3>5. Converted(q.chars) = ks \o e /\ q.chars # <<>>
      <4>1. CASE kind # "string"
        <5>1. q.chars = kn /\ e = <<>>
          BY <1>8, <3>1, <3>3, <4>1 DEF Entry
        <5>2. ks \o <<>> = ks
          BY <1>3, <3>3, ConcatEmptySeq
        <5>3. kn # <<>>
          BY <3>2, EmptySeq
        <5> QED BY <1>3, <3>3, <5>1, <5>2, <5>3
      <4>2. CASE kind = "string"
        <5>1. q.chars = (kn \o sv) \o <<NUL>>
          BY <1>1, <1>5, <1>8, <2>3, <3>1, <4>2 DEF Accepts
        <5>2. (kn \o sv) \o <<NUL>> = kn \o (sv \o <<NUL>>)
          BY <1>3, <1>4, ConvertedNul, ConcatAssociative
        <5>3. q.chars = kn \o vn
          BY <1>2, <5>1, <5>2
        <5>4. Converted(kn \o vn) = Converted(kn) \o Converted(vn)
          BY <1>3, <1>4, ConvertedConcat
        <5>5. Len(kn \o vn) = Len(kn) + Len(vn)
          BY <1>3, <1>4, ConcatProperties
        <5>6. Len(vn) \in Nat
          BY <1>4, LenProperties
        <5>7. Len(q.chars) \in Nat \ {0}
          BY <3>2, <5>3, <5>5, <5>6
        <5>8. q.chars # <<>>
          BY <5>7, EmptySeq
        <5>9. e = Spell(value, TRUE)
          BY <3>3, <4>2 DEF Entry
        <5> QED BY <1>3, <1>4, <3>3, <5>3, <5>4, <5>8, <5>9
      <4> QED BY <4>1, <4>2
    <3>6. ~IsFlushed(q)
      BY <3>5 DEF IsFlushed
    <3> QED BY <2>2, <3>3, <3>4, <3>5, <3>6
  <2> QED BY <1>10, <2>2, <2>3
<1> QED BY <1>9, <1>10

\* The first text goes out with all that follows it still in place, and so does the
\* second: a text that is there at all can only be withheld when it is the last.
LEMMA FirstGoesOut ==
  ASSUME NEW b, IsBoundary(b), NEW key \in Seq(Chars), key # <<>>, NEW rest \in Seq(Plain),
         HoldsAt(b, key \o <<NUL>> \o rest, b.o_now),
         rest # <<>> \/ b.o_now + Len(key) + 1 < OEnd(b.size)
  PROVE  /\ GetStatus(b) = "OKAY" /\ GotText(b) = key
         /\ HoldsAt(AfterGet(b), rest, AfterGet(b).o_now)
<1>1. /\ NextLen(b) = Len(key) /\ NextText(b) = key
      /\ b.o_now + Len(key) + 1 + Len(rest) <= OEnd(b.size)
      /\ HoldsAt(b, rest, b.o_now + Len(key) + 1)
  BY NextIs
<1>2. Len(key) \in Nat \ {0} /\ Len(rest) \in Nat
  BY EmptySeq, LenProperties
<1>3. b.o_now \in Nat /\ OEnd(b.size) \in Nat
  BY EndIsPositive DEF IsBoundary, BoundaryType
<1>4. b.o_now + Len(key) + 1 < OEnd(b.size)
  <2>1. CASE rest # <<>>
    <3>1. Len(rest) \in Nat \ {0}
      BY <2>1, EmptySeq, LenProperties
    <3> QED BY <1>1, <1>2, <1>3, <3>1
  <2> QED BY <2>1
<1>5. GetStatus(b) = "OKAY"
  BY <1>1, <1>2, <1>4 DEF GetStatus
<1>6. GotText(b) = key
  BY <1>1, <1>5 DEF GotText
<1>7. PICK a : a = AfterGet(b)
  OBVIOUS
<1>8. a.size = b.size /\ a.ochars = b.ochars /\ a.o_now = b.o_now + Len(key) + 1
  BY <1>1, <1>5, <1>7, GetKeeps
<1>9. HoldsAt(a, rest, a.o_now)
  BY <1>1, <1>8 DEF HoldsAt
<1> QED BY <1>5, <1>6, <1>7, <1>9

LEMMA ValueGoesOut ==
  ASSUME NEW b, IsBoundary(b), NEW value \in Seq(Chars), HoldsAt(b, Spell(value, TRUE), b.o_now)
  PROVE  /\ StatusAfter(b) = "OKAY"
         /\ GotText(b) = IF value = <<>> THEN NoText ELSE value
<1>1. PICK n : n = <<NUL>>
  OBVIOUS
<1>2. n \in Seq(Plain) /\ n # <<>>
  BY <1>1, EmptySeq DEF Plain
<1>3. HoldsAt(b, value \o <<NUL>> \o n, b.o_now)
  <2>1. Spell(value, TRUE) = (value \o <<NUL>>) \o (IF TRUE THEN <<NUL>> ELSE <<>>)
    BY SpellEnds
  <2> QED BY <1>1, <2>1
<1>4. CASE value # <<>>
  BY <1>2, <1>3, <1>4, FirstGoesOut DEF StatusAfter
<1>5. CASE value = <<>>
  <2>1. NextLen(b) = 0
    BY <1>2, <1>3, <1>5, NextIs, EmptySeq
  <2> QED BY <1>5, <2>1 DEF StatusAfter, GetStatus, GotText
<1> QED BY <1>4, <1>5

\* A call on a status other than OKAY does nothing; any other call uses up its key,
\* and ends with a node or with BOUNDARY_RESET.
LEMMA EnqueueIsTyped ==
  ASSUME NEW d, Typed(d), NEW kind \in Collections \cup {"string"}, NEW value \in Seq(Chars),
         NEW e, e = EnqueueDsNode(d, kind, value)
  PROVE  /\ Typed(e)
         /\ d.status # "OKAY" => e = d
         /\ d.status = "OKAY" =>
              /\ e.status \in {"NODE_PRODUCED", "BOUNDARY_RESET"}
              /\ e.key_staging = <<>> /\ e.sequence = d.sequence + 1
              /\ e.node.id = d.sequence /\ e.node.kind = kind
              /\ d.boundary.chars = <<>> /\ (d.key_staging # <<>> \/ kind # "string") =>
                   e.boundary.chars = <<>>
<1>1. CASE d.status # "OKAY"
  BY <1>1 DEF EnqueueDsNode
<1>2. CASE d.status = "OKAY"
  <2>1. PICK f : f = Filled(d.boundary, d.key_staging, kind, value)
    OBVIOUS
  <2>2. /\ IsBoundary(f) /\ f.size = d.boundary.size
        /\ d.boundary.chars = <<>> /\ (d.key_staging # <<>> \/ kind # "string") => f.chars = <<>>
    BY <2>1, FilledIs DEF Typed
  <2>3. PICK h : h = FilledSource(d, kind, value)
    OBVIOUS
  <2>4. /\ Typed(h) /\ h.status = "OKAY" /\ h.key_staging = d.key_staging
        /\ h.boundary = f /\ h.sequence = d.sequence + 1
        /\ h.node.id = d.sequence /\ h.node.kind = kind
        /\ d.key_staging # <<>> => h.node.has_key
    <3>1. IsBoundary(Filled(d.boundary, d.key_staging, kind, value))
      BY <2>1, <2>2
    <3>2. /\ Typed(h) /\ h.status = "OKAY" /\ h.key_staging = d.key_staging
          /\ h.boundary = Filled(d.boundary, d.key_staging, kind, value)
          /\ h.sequence = d.sequence + 1 /\ h.node.id = d.sequence /\ h.node.kind = kind
          /\ d.key_staging # <<>> => h.node.has_key
      BY <1>2, <2>3, <3>1, FilledSourceIs
    <3> QED BY <2>1, <3>2
  <2>5. PICK t : t = TakeKey(h)
    OBVIOUS
  <2>6. /\ Typed(t) /\ t.key_staging = <<>> /\ t.sequence = h.sequence
        /\ t.node.id = h.node.id /\ t.node.kind = h.node.kind
        /\ t.status \in {"OKAY", "BOUNDARY_RESET"} /\ t.boundary.chars = f.chars
    <3>1. /\ Typed(t) /\ t.key_staging = <<>> /\ t.sequence = h.sequence
          /\ t.node.id = h.node.id /\ t.node.kind = h.node.kind
          /\ h.key_staging = <<>> => t = h
          /\ h.key_staging # <<>> => t.boundary = AfterGet(f) /\ t.status = StatusAfter(f)
      BY <2>4, <2>5, TakeKeyIs
    <3>2. AfterGet(f).chars = f.chars
      BY <2>2, GetKeeps
    <3> QED BY <2>4, <3>1, <3>2 DEF StatusAfter
  <2>7. PICK v : v = TakeValue(t)
    OBVIOUS
  <2>8. /\ Typed(v) /\ v.key_staging = <<>> /\ v.sequence = h.sequence
        /\ v.node.id = h.node.id /\ v.node.kind = h.node.kind
        /\ v.status \in {"OKAY", "BOUNDARY_RESET"} /\ v.boundary.chars = f.chars
    BY <2>6, <2>7, TakeValueIs
  <2>9. e = Produce(v)
    BY <1>2, <2>3, <2>5, <2>7 DEF EnqueueDsNode, FilledSource
  <2>10. /\ DOMAIN e = DOMAIN v /\ e.key_staging = v.key_staging /\ e.boundary = v.boundary
         /\ e.node = v.node /\ e.sequence = v.sequence
         /\ e.status = IF v.status = "OKAY" THEN "NODE_PRODUCED" ELSE v.status
    BY <2>8, <2>9 DEF Produce, Typed
  <2>11. Typed(e)
    BY <2>8, <2>10 DEF Typed
  <2> QED BY <1>2, <2>2, <2>4, <2>8, <2>10, <2>11
<1> QED BY <1>1, <1>2

\* From an empty boundary a node that is produced has its own key and value.
LEMMA EnqueueGives ==
  ASSUME NEW d, Typed(d), d.status = "OKAY", d.boundary.chars = <<>>,
         NEW kind \in Collections \cup {"string"}, NEW value \in Seq(Chars),
         kind # "string" => value = <<>>,
         d.key_staging # <<>> => Accepts(d.boundary, d.key_staging, kind, value),
         d.key_staging # <<>> \/ kind # "string",
         NEW e, e = EnqueueDsNode(d, kind, value)
  PROVE  /\ e.status = "NODE_PRODUCED" =>
              /\ e.node.key = IF d.key_staging = <<>> THEN NoText ELSE d.key_staging
              /\ e.node.value = IF value = <<>> THEN NoText ELSE value
         /\ \/ d.key_staging = <<>> \/ kind = "string"
            \/ Len(d.key_staging) + 1 < OEnd(d.boundary.size)
            => e.status = "NODE_PRODUCED"
<1>1. PICK key : key = d.key_staging
  OBVIOUS
<1>2. PICK f : f = Filled(d.boundary, key, kind, value)
  OBVIOUS
<1>3. /\ IsBoundary(f) /\ f.size = d.boundary.size /\ key \in Seq(Chars)
      /\ key # <<>> => f.o_now = 0 /\ HoldsAt(f, key \o <<NUL>> \o Entry(kind, value), 0)
  BY <1>1, <1>2, FilledIs DEF Typed
<1>4. PICK h : h = FilledSource(d, kind, value)
  OBVIOUS
<1>5. /\ Typed(h) /\ h.status = "OKAY" /\ h.key_staging = key /\ h.boundary = f
      /\ h.node.kind = kind /\ h.node.key = NoText /\ h.node.value = NoText
      /\ key # <<>> => h.node.has_key
  BY <1>1, <1>2, <1>3, <1>4, FilledSourceIs
<1>6. PICK t : t = TakeKey(h)
  OBVIOUS
<1>7. /\ Typed(t) /\ t.node.kind = kind /\ t.node.value = NoText
      /\ key = <<>> => t = h
      /\ key # <<>> => /\ t.boundary = AfterGet(f) /\ t.status = StatusAfter(f)
                       /\ t.status = "OKAY" => t.node.key = GotText(f)
  BY <1>5, <1>6, TakeKeyIs
<1>8. t.status \in {"OKAY", "BOUNDARY_RESET"}
  BY <1>5, <1>7 DEF StatusAfter
<1>9. PICK v : v = TakeValue(t)
  OBVIOUS
<1>10. /\ v.node.key = t.node.key /\ v.status \in {"OKAY", "BOUNDARY_RESET"}
       /\ t.status # "OKAY" \/ kind # "string" => v = t
       /\ t.status = "OKAY" /\ kind = "string" =>
            /\ v.status = StatusAfter(t.boundary)
            /\ v.status = "OKAY" => v.node.value = GotText(t.boundary)
  BY <1>7, <1>8, <1>9, TakeValueIs
<1>11. e = Produce(v)
  BY <1>4, <1>6, <1>9 DEF EnqueueDsNode, FilledSource
<1>12. Typed(v)
  BY <1>7, <1>8, <1>9, TakeValueIs
<1>13. e.node = v.node /\ (e.status = "NODE_PRODUCED" <=> v.status = "OKAY")
  BY <1>10, <1>11, <1>12 DEF Produce, Typed
<1>14. CASE key = <<>>
  <2>1. kind # "string" /\ value = <<>>
    BY <1>1, <1>14
  <2> QED BY <1>1, <1>5, <1>7, <1>10, <1>13, <1>14, <2>1
<1>15. CASE key # <<>>
  <2>1. PICK rest : rest = Entry(kind, value)
    OBVIOUS
  <2>2. rest \in Seq(Plain)
    BY <2>1, SourceSpells, EmptySeq DEF Entry
  <2>3. HoldsAt(f, key \o <<NUL>> \o rest, f.o_now) /\ f.o_now = 0
    BY <1>3, <1>15, <2>1
  <2>4. CASE kind = "string"
    <3>1. rest = Spell(value, TRUE)
      BY <2>1, <2>4 DEF Entry
    <3>2. rest # <<>>
      <4>1. Len(value \o <<NUL, NUL>>) = Len(value) + Len(<<NUL, NUL>>)
        <5>1. value \in Seq(Plain) /\ <<NUL, NUL>> \in Seq(Plain)
          BY DEF Plain
        <5> QED BY <5>1, ConcatProperties
      <4>2. Len(value) \in Nat
        BY LenProperties
      <4>3. Len(rest) # 0
        BY <3>1, <4>1, <4>2 DEF Spell
      <4> QED BY <4>3, EmptySeq
    <3>3. /\ GetStatus(f) = "OKAY" /\ GotText(f) = key
          /\ HoldsAt(AfterGet(f), rest, AfterGet(f).o_now)
      BY <1>3, <1>15, <2>2, <2>3, <3>2, FirstGoesOut
    <3>4. t.status = "OKAY" /\ t.node.key = key /\ t.boundary = AfterGet(f)
      BY <1>7, <1>15, <3>3 DEF StatusAfter
    <3>5. /\ StatusAfter(t.boundary) = "OKAY"
          /\ GotText(t.boundary) = IF value = <<>> THEN NoText ELSE value
      BY <1>7, <3>1, <3>3, <3>4, ValueGoesOut DEF Typed
    <3> QED BY <1>1, <1>10, <1>13, <1>15, <2>4, <3>4, <3>5
  <2>5. CASE kind # "string"
    <3>1. value = <<>> /\ v = t /\ rest = <<>>
      BY <1>10, <2>1, <2>5 DEF Entry
    <3>2. NextLen(f) = Len(key) /\ NextText(f) = key
      BY <1>3, <2>2, <2>3, NextIs
    <3>3. GetStatus(f) = "OKAY" => GotText(f) = key
      BY <3>2 DEF GotText
    <3>4. Len(key) \in Nat \ {0}
      BY <1>3, <1>15, EmptySeq
    <3>5. GetStatus(f) \in {"OKAY", "BOUNDARY_RESET"}
      BY <3>2, <3>4 DEF GetStatus
    <3>6. t.status = "OKAY" => t.node.key = key
      BY <1>7, <1>15, <3>3, <3>5 DEF StatusAfter
    <3>7. Len(key) + 1 < OEnd(f.size) => t.status = "OKAY"
      <4> SUFFICES ASSUME Len(key) + 1 < OEnd(f.size) PROVE t.status = "OKAY"
        OBVIOUS
      <4>1. f.o_now + NextLen(f) + 1 < OEnd(f.size)
        BY <2>3, <3>2, <3>4
      <4>2. GetStatus(f) = "OKAY"
        BY <3>2, <3>4, <4>1 DEF GetStatus
      <4> QED BY <1>7, <1>15, <4>2 DEF StatusAfter
    <3> QED BY <1>1, <1>3, <1>7, <1>13, <1>15, <2>5, <3>1, <3>6, <3>7
  <2> QED BY <2>4, <2>5
<1> QED BY <1>14, <1>15
=============================================================================
