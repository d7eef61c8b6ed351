---------------------------- MODULE SequenceLemmas ----------------------------
(***************************************************************************)
(* Facts about sequences (queues, waiting lines and idle lists) and about  *)
(* least elements.                                                         *)
(***************************************************************************)
EXTENDS SequencesExt, TLAPS, FiniteSetTheorems, FunctionTheorems, SequenceTheorems,
        WellFoundedInduction

\* A set of fresh connections put in some order.
LEMMA SetToSeqFacts ==
  ASSUME NEW S, IsFiniteSet(S)
  PROVE  SetToSeq(S) \in Seq(S) /\ IsInjective(SetToSeq(S)) /\ ToSet(SetToSeq(S)) = S
<1>1. PICK f : f \in Bijection(1..Cardinality(S), S)
  BY FS_CardinalityType DEF ExistsBijection
<1>2. f \in [1..Cardinality(S) -> S] /\ IsInjective(f)
  BY <1>1 DEF Bijection, Injection
<1>3. /\ SetToSeq(S) \in [1..Cardinality(S) -> S]
      /\ IsInjective(SetToSeq(S))
  BY <1>2 DEF SetToSeq
<1>4. SetToSeq(S) \in Seq(S)
  BY <1>3, FS_CardinalityType, SeqDef
<1>5. ToSet(SetToSeq(S)) = S
  <2>. DEFINE g == SetToSeq(S)
              T == ToSet(g)
  <2>1. T \subseteq S /\ IsFiniteSet(T) /\ Cardinality(S) \in Nat
    BY <1>3, FS_Subset, FS_CardinalityType DEF ToSet
  <2>2. g \in Bijection(1..Cardinality(S), T)
    BY <1>3 DEF ToSet, IsInjective, Bijection, Injection, Surjection
  <2>3. Cardinality(T) = Cardinality(S)
    BY <2>1, <2>2, FS_CountingElements DEF ExistsBijection
  <2>. QED
    BY <2>1, <2>3, FS_Subset
<1>. QED
  BY <1>3, <1>4, <1>5

LEMMA ReverseFacts ==
  ASSUME NEW S, NEW s \in Seq(S)
  PROVE  /\ Reverse(s) \in Seq(S) /\ Len(Reverse(s)) = Len(s)
         /\ \A i \in 1..Len(s) : Reverse(s)[i] = s[Len(s) - i + 1]
BY DEF Reverse

LEMMA RemoveAtType ==
  ASSUME NEW S, NEW s \in Seq(S), NEW i \in 1..Len(s)
  PROVE  RemoveAt(s, i) \in Seq(S)
<1>1. SubSeq(s, 1, i - 1) \in Seq(S)
  OBVIOUS
<1>2. SubSeq(s, i + 1, Len(s)) \in Seq(S)
  OBVIOUS
<1>. QED
  BY <1>1, <1>2 DEF RemoveAt

-----------------------------------------------------------------------------
(* The elements of sequences without repetition *)

LEMMA ElemsType == ASSUME NEW S, NEW s \in Seq(S) PROVE ToSet(s) \subseteq S
BY LenProperties, ElementOfSeq DEF ToSet

LEMMA ElemsEmpty == ToSet(<<>>) = {} /\ IsInjective(<<>>)
BY DEF ToSet, IsInjective

LEMMA ElemsConcat ==
  ASSUME NEW S, NEW s \in Seq(S), NEW t \in Seq(S)
  PROVE  /\ ToSet(s \o t) = ToSet(s) \cup ToSet(t)
         /\ IsInjective(s) /\ IsInjective(t) /\ ToSet(s) \cap ToSet(t) = {}
              => IsInjective(s \o t)
<1>1. /\ DOMAIN s = 1..Len(s) /\ DOMAIN t = 1..Len(t)
      /\ Len(s) \in Nat /\ Len(t) \in Nat
      /\ DOMAIN (s \o t) = 1..(Len(s) + Len(t))
      /\ \A i \in 1..(Len(s) + Len(t)) :
           (s \o t)[i] = IF i <= Len(s) THEN s[i] ELSE t[i - Len(s)]
  BY ConcatProperties, LenProperties
<1>2. ToSet(s \o t) \subseteq ToSet(s) \cup ToSet(t)
  <2>1. ASSUME NEW i \in 1..(Len(s) + Len(t))
        PROVE  (s \o t)[i] \in ToSet(s) \cup ToSet(t)
    <3>1. CASE i <= Len(s)
      BY <1>1, <3>1 DEF ToSet
    <3>2. CASE i > Len(s)
      <4>1. i - Len(s) \in 1..Len(t) /\ (s \o t)[i] = t[i - Len(s)]
        BY <1>1, <3>2
      <4>. QED
        BY <1>1, <4>1 DEF ToSet
    <3>. QED
      BY <1>1, <3>1, <3>2
  <2>. QED
    BY <1>1, <2>1 DEF ToSet
<1>3. ToSet(s) \subseteq ToSet(s \o t)
  <2>1. ASSUME NEW i \in 1..Len(s)
        PROVE  i \in DOMAIN (s \o t) /\ (s \o t)[i] = s[i]
    BY <1>1
  <2>. QED
    BY <1>1, <2>1 DEF ToSet
<1>4. ToSet(t) \subseteq ToSet(s \o t)
  <2>1. ASSUME NEW i \in 1..Len(t)
        PROVE  Len(s) + i \in DOMAIN (s \o t) /\ (s \o t)[Len(s) + i] = t[i]
    BY <1>1
  <2>. QED
    BY <1>1, <2>1 DEF ToSet
<1>5. ASSUME IsInjective(s), IsInjective(t), ToSet(s) \cap ToSet(t) = {}
      PROVE  IsInjective(s \o t)
  <2>1. \A i \in 1..Len(s), j \in 1..Len(t) : s[i] # t[j]
    BY <1>1, <1>5 DEF ToSet
  <2>2. ASSUME NEW i \in 1..(Len(s) + Len(t)), NEW j \in 1..(Len(s) + Len(t)),
               (s \o t)[i] = (s \o t)[j]
        PROVE  i = j
    <3>1. CASE i <= Len(s) /\ j <= Len(s)
      BY <1>1, <1>5, <2>2, <3>1 DEF IsInjective
    <3>2. CASE i > Len(s) /\ j > Len(s)
      <4>1. i - Len(s) \in DOMAIN t /\ j - Len(s) \in DOMAIN t
            /\ t[i - Len(s)] = t[j - Len(s)]
        BY <1>1, <2>2, <3>2
      <4>2. i - Len(s) = j - Len(s)
        BY <1>5, <4>1 DEF IsInjective
      <4>. QED
        BY <1>1, <4>2
    <3>3. CASE i <= Len(s) /\ j > Len(s)
      <4>1. i \in 1..Len(s) /\ j - Len(s) \in 1..Len(t) /\ s[i] = t[j - Len(s)]
        BY <1>1, <2>2, <3>3
      <4>. QED
        BY <2>1, <4>1
    <3>4. CASE i > Len(s) /\ j <= Len(s)
      <4>1. j \in 1..Len(s) /\ i - Len(s) \in 1..Len(t) /\ s[j] = t[i - Len(s)]
        BY <1>1, <2>2, <3>4
      <4>. QED
        BY <2>1, <4>1
    <3>. QED
      BY <1>1, <3>1, <3>2, <3>3, <3>4
  <2>. QED
    BY <1>1, <2>2 DEF IsInjective
<1>. QED
  BY <1>2, <1>3, <1>4, <1>5

\* put_nowait
LEMMA ElemsCons ==
  ASSUME NEW S, NEW c \in S, NEW s \in Seq(S)
  PROVE  /\ <<c>> \o s \in Seq(S) /\ ToSet(<<c>> \o s) = {c} \cup ToSet(s)
         /\ IsInjective(s) /\ c \notin ToSet(s) => IsInjective(<<c>> \o s)
<1>1. <<c>> \in Seq(S) /\ ToSet(<<c>>) = {c} /\ IsInjective(<<c>>)
  BY DEF ToSet, IsInjective
<1>2. <<c>> \o s \in Seq(S)
  BY <1>1, ConcatProperties
<1>3. /\ ToSet(<<c>> \o s) = ToSet(<<c>>) \cup ToSet(s)
      /\ IsInjective(<<c>>) /\ IsInjective(s) /\ ToSet(<<c>>) \cap ToSet(s) = {}
           => IsInjective(<<c>> \o s)
  BY <1>1, ElemsConcat
<1>. QED
  BY <1>1, <1>2, <1>3

LEMMA ElemsAppend ==
  ASSUME NEW S, NEW s \in Seq(S), NEW x \in S
  PROVE  /\ Append(s, x) \in Seq(S) /\ ToSet(Append(s, x)) = ToSet(s) \cup {x}
         /\ IsInjective(s) /\ x \notin ToSet(s) => IsInjective(Append(s, x))
<1>1. /\ Append(s, x) \in Seq(S) /\ Len(s) \in Nat /\ DOMAIN s = 1..Len(s)
      /\ DOMAIN Append(s, x) = 1..(Len(s) + 1)
      /\ \A i \in 1..Len(s) : Append(s, x)[i] = s[i]
      /\ Append(s, x)[Len(s) + 1] = x
  BY AppendProperties, LenProperties
<1>2. 1..(Len(s) + 1) = 1..Len(s) \cup {Len(s) + 1}
  BY <1>1
<1>3. ToSet(Append(s, x)) = ToSet(s) \cup {x}
  BY <1>1, <1>2 DEF ToSet
<1>4. ASSUME IsInjective(s), x \notin ToSet(s) PROVE IsInjective(Append(s, x))
  BY <1>1, <1>2, <1>4 DEF ToSet, IsInjective
<1>. QED
  BY <1>1, <1>3, <1>4

\* get_nowait
LEMMA ElemsTail ==
  ASSUME NEW S, NEW s \in Seq(S), s # <<>>, IsInjective(s)
  PROVE  /\ Head(s) \in ToSet(s) /\ ToSet(Tail(s)) \subseteq ToSet(s)
         /\ Head(s) \notin ToSet(Tail(s)) /\ IsInjective(Tail(s))
<1>1. /\ Len(s) \in Nat /\ Len(s) > 0 /\ DOMAIN s = 1..Len(s)
      /\ DOMAIN Tail(s) = 1..(Len(s) - 1)
      /\ \A i \in 1..(Len(s) - 1) : Tail(s)[i] = s[i + 1]
      /\ Head(s) = s[1]
  BY HeadTailProperties, LenProperties, EmptySeq
<1>. QED
  BY <1>1 DEF ToSet, IsInjective

LEMMA ElemsExactTail ==
  ASSUME NEW S, NEW s \in Seq(S), s # <<>>, IsInjective(s)
  PROVE  ToSet(Tail(s)) = ToSet(s) \ {Head(s)}
<1>1. /\ Len(s) \in Nat /\ Len(s) > 0 /\ DOMAIN s = 1..Len(s)
      /\ DOMAIN Tail(s) = 1..(Len(s) - 1)
      /\ \A i \in 1..(Len(s) - 1) : Tail(s)[i] = s[i + 1]
      /\ Head(s) = s[1]
  BY HeadTailProperties, LenProperties, EmptySeq
<1>2. ASSUME NEW i \in DOMAIN s, s[i] # Head(s) PROVE s[i] \in ToSet(Tail(s))
  <2>1. i - 1 \in DOMAIN Tail(s) /\ Tail(s)[i - 1] = s[i]
    BY <1>1, <1>2
  <2>. QED
    BY <2>1 DEF ToSet
<1>. QED
  BY <1>2, ElemsTail DEF ToSet

LEMMA ElemsReverse ==
  ASSUME NEW S, NEW s \in Seq(S)
  PROVE  ToSet(Reverse(s)) = ToSet(s) /\ (IsInjective(s) => IsInjective(Reverse(s)))
<1>1. /\ Len(s) \in Nat /\ DOMAIN s = 1..Len(s) /\ DOMAIN Reverse(s) = 1..Len(s)
      /\ \A i \in 1..Len(s) : Reverse(s)[i] = s[Len(s) - i + 1]
  BY ReverseFacts, LenProperties
<1>2. \A i \in 1..Len(s) : Len(s) - i + 1 \in 1..Len(s)
  BY <1>1
<1>3. ToSet(Reverse(s)) = ToSet(s)
  <2>1. ASSUME NEW i \in 1..Len(s) PROVE s[i] \in ToSet(Reverse(s))
    <3>1. Len(s) - (Len(s) - i + 1) + 1 = i
      BY <1>1
    <3>2. Reverse(s)[Len(s) - i + 1] = s[i]
      BY <1>1, <1>2, <3>1
    <3>. QED
      BY <1>1, <1>2, <3>2 DEF ToSet
  <2>2. ASSUME NEW i \in 1..Len(s) PROVE Reverse(s)[i] \in ToSet(s)
    BY <1>1, <1>2 DEF ToSet
  <2>3. ToSet(s) \subseteq ToSet(Reverse(s))
    BY <1>1, <2>1 DEF ToSet
  <2>4. ToSet(Reverse(s)) \subseteq ToSet(s)
    BY <1>1, <2>2 DEF ToSet
  <2>. QED
    BY <2>3, <2>4
<1>4. ASSUME IsInjective(s) PROVE IsInjective(Reverse(s))
  <2>1. ASSUME NEW i \in 1..Len(s), NEW j \in 1..Len(s), Reverse(s)[i] = Reverse(s)[j]
        PROVE  i = j
    <3>1. Len(s) - i + 1 = Len(s) - j + 1
      BY <1>1, <1>2, <1>4, <2>1 DEF IsInjective
    <3>. QED
      BY <1>1, <3>1
  <2>. QED
    BY <1>1, <2>1 DEF IsInjective
<1>. QED
  BY <1>3, <1>4

\* A sequence cut at its i-th element.
LEMMA ElemsCut ==
  ASSUME NEW S, NEW s \in Seq(S), IsInjective(s), NEW i \in DOMAIN s
  PROVE  LET l == SubSeq(s, 1, i - 1)
             r == SubSeq(s, i + 1, Len(s))
         IN  /\ s[i] \in S /\ l \in Seq(S) /\ r \in Seq(S)
             /\ IsInjective(l) /\ IsInjective(r)
             /\ ToSet(l) \cap ToSet(r) = {} /\ s[i] \notin ToSet(l) \cup ToSet(r)
             /\ ToSet(l) \cup ToSet(r) \cup {s[i]} = ToSet(s)
<1>. DEFINE l == SubSeq(s, 1, i - 1)
            r == SubSeq(s, i + 1, Len(s))
<1>1. Len(s) \in Nat /\ DOMAIN s = 1..Len(s) /\ i \in 1..Len(s) /\ s[i] \in S
  BY LenProperties, ElementOfSeq
<1>2. /\ l \in Seq(S) /\ DOMAIN l = 1..(i - 1) /\ \A j \in 1..(i - 1) : l[j] = s[j]
  BY <1>1
<1>3. /\ r \in Seq(S) /\ DOMAIN r = 1..(Len(s) - i)
      /\ \A j \in 1..(Len(s) - i) : r[j] = s[i + j]
  BY <1>1
<1>. HIDE DEF l, r
<1>4. IsInjective(l) /\ ToSet(l) \subseteq ToSet(s)
  BY <1>1, <1>2 DEF IsInjective, ToSet
<1>5. \A j \in 1..(Len(s) - i) : i + j \in 1..Len(s) /\ i + j > i
  BY <1>1
<1>6. IsInjective(r) /\ ToSet(r) \subseteq ToSet(s)
  <2>1. ASSUME NEW j \in 1..(Len(s) - i), NEW k \in 1..(Len(s) - i), r[j] = r[k]
        PROVE  j = k
    <3>1. i + j = i + k
      BY <1>1, <1>3, <1>5, <2>1 DEF IsInjective
    <3>. QED
      BY <1>1, <3>1
  <2>. QED
    BY <1>1, <1>3, <1>5, <2>1 DEF IsInjective, ToSet
<1>7. ToSet(l) \cap ToSet(r) = {}
  <2>1. ASSUME NEW j \in 1..(i - 1), NEW k \in 1..(Len(s) - i) PROVE l[j] # r[k]
    <3>1. j \in 1..Len(s) /\ i + k \in 1..Len(s) /\ j # i + k
      BY <1>1, <1>5
    <3>. QED
      BY <1>1, <1>2, <1>3, <3>1 DEF IsInjective
  <2>. QED
    BY <1>2, <1>3, <2>1 DEF ToSet
<1>8. s[i] \in ToSet(s)
  BY <1>1 DEF ToSet
<1>9. s[i] \notin ToSet(l)
  <2>1. \A j \in 1..(i - 1) : j \in 1..Len(s) /\ j # i
    BY <1>1
  <2>. QED
    BY <1>1, <1>2, <2>1 DEF IsInjective, ToSet
<1>10. s[i] \notin ToSet(r)
  <2>1. \A j \in 1..(Len(s) - i) : i + j # i
    BY <1>1
  <2>. QED
    BY <1>1, <1>3, <1>5, <2>1 DEF IsInjective, ToSet
<1>11. ASSUME NEW k \in DOMAIN s PROVE s[k] \in ToSet(l) \cup ToSet(r) \cup {s[i]}
  <2>1. CASE k < i
    BY <1>1, <1>2, <2>1 DEF ToSet
  <2>2. CASE k > i
    <3>1. k - i \in 1..(Len(s) - i) /\ i + (k - i) = k
      BY <1>1, <2>2
    <3>. QED
      BY <1>3, <3>1 DEF ToSet
  <2>. QED
    BY <1>1, <2>1, <2>2
<1>12. ToSet(l) \cup ToSet(r) \cup {s[i]} = ToSet(s)
  BY <1>4, <1>6, <1>8, <1>11 DEF ToSet
<1>. QED
  BY <1>1, <1>2, <1>3, <1>4, <1>6, <1>7, <1>9, <1>10, <1>12 DEF l, r

LEMMA ElemsRemoveAt ==
  ASSUME NEW S, NEW s \in Seq(S), IsInjective(s), NEW i \in DOMAIN s
  PROVE  ToSet(RemoveAt(s, i)) = ToSet(s) \ {s[i]} /\ IsInjective(RemoveAt(s, i))
<1>. DEFINE l == SubSeq(s, 1, i - 1)
            r == SubSeq(s, i + 1, Len(s))
<1>1. /\ l \in Seq(S) /\ r \in Seq(S) /\ IsInjective(l) /\ IsInjective(r)
      /\ ToSet(l) \cap ToSet(r) = {} /\ s[i] \notin ToSet(l) \cup ToSet(r)
      /\ ToSet(l) \cup ToSet(r) \cup {s[i]} \subseteq ToSet(s)
  BY ElemsCut
<1>2. ASSUME NEW j \in DOMAIN s, j # i PROVE s[j] \in ToSet(l) \cup ToSet(r)
  <2>1. Len(s) \in Nat /\ DOMAIN s = 1..Len(s) /\ i \in 1..Len(s) /\ j \in 1..Len(s)
    BY LenProperties
  <2>2. CASE j < i
    <3>1. j \in DOMAIN l /\ l[j] = s[j]
      BY <2>1, <2>2
    <3>. QED
      BY <3>1 DEF ToSet
  <2>3. CASE j > i
    <3>1. j - i \in DOMAIN r /\ r[j - i] = s[j]
      BY <2>1, <2>3
    <3>. QED
      BY <3>1 DEF ToSet
  <2>. QED
    BY <1>2, <2>1, <2>2, <2>3
<1>3. ToSet(s) \subseteq ToSet(l) \cup ToSet(r) \cup {s[i]}
  BY <1>2 DEF ToSet
<1>4. RemoveAt(s, i) = l \o r
  BY DEF RemoveAt
<1>. HIDE DEF l, r
<1>. QED
  BY <1>1, <1>3, <1>4, ElemsConcat
-----------------------------------------------------------------------------
\* A finite set of integers has a least element: remove one from a set that has none, as
\* small as possible by inclusion.
LEMMA LeastOfFinite ==
  ASSUME NEW U, U \subseteq Int, IsFiniteSet(U), U # {}
  PROVE  \E m \in U : \A n \in U : m <= n
<1>. DEFINE HasLeast(V) == \E m \in V : \A n \in V : m <= n
            Bad == {V \in FiniteSubsetsOf(Int) : V # {} /\ ~HasLeast(V)}
<1>. SUFFICES ASSUME ~HasLeast(U) PROVE FALSE
  OBVIOUS
<1>1. U \in Bad
  BY DEF FiniteSubsetsOf
<1>2. PICK V \in Bad : \A W \in Bad : <<W, V>> \notin StrictSubsetOrdering(Int)
  <2>. HIDE DEF Bad
  <2>1. Bad \subseteq FiniteSubsetsOf(Int)
    BY DEF Bad
  <2>. QED
    BY <1>1, <2>1, WFMin, FS_StrictSubsetOrderingWellFounded
<1>3. V \subseteq Int /\ IsFiniteSet(V) /\ V # {}
  BY DEF FiniteSubsetsOf
<1>4. PICK x \in V : TRUE
  BY <1>3
<1>5. V \ {x} \notin Bad
  BY <1>2, <1>3, <1>4 DEF StrictSubsetOrdering
<1>6. V \ {x} = {} \/ HasLeast(V \ {x})
  BY <1>3, <1>5, FS_RemoveElement DEF FiniteSubsetsOf
<1>7. HasLeast(V)
  <2>1. CASE V \ {x} = {}
    BY <1>3, <1>4, <2>1
  <2>2. CASE HasLeast(V \ {x})
    <3>1. PICK m \in V \ {x} : \A n \in V \ {x} : m <= n
      BY <2>2
    <3>2. CASE m <= x
      BY <1>3, <3>1, <3>2
    <3>3. CASE ~(m <= x)
      BY <1>3, <1>4, <3>1, <3>3
    <3>. QED
      BY <3>2, <3>3
  <2>. QED
    BY <1>6, <2>1, <2>2
<1>. QED
  BY <1>7

\* One of finitely many things has the least value.
LEMMA LeastValue ==
  ASSUME NEW U, IsFiniteSet(U), U # {}, NEW f \in [U -> Int]
  PROVE  \E u \in U : \A v \in U : f[u] <= f[v]
<1>. DEFINE V == {f[u] : u \in U}
<1>1. f \in Surjection(U, V)
  BY DEF Surjection
<1>2. IsFiniteSet(V) /\ V \subseteq Int /\ V # {}
  BY <1>1, FS_Surjection
<1>3. PICK m \in V : \A n \in V : m <= n
  BY <1>2, LeastOfFinite
<1>. QED
  BY <1>3

-----------------------------------------------------------------------------
(* How often an element occurs after a position *)

After(s, k, x) == {i \in DOMAIN s : i > k /\ s[i] = x}

LEMMA AfterFinite ==
  ASSUME NEW S, NEW s \in Seq(S), NEW k \in Nat, NEW x
  PROVE  /\ IsFiniteSet(After(s, k, x)) /\ Cardinality(After(s, k, x)) \in Nat
         /\ k >= Len(s) => Cardinality(After(s, k, x)) = 0
<1>1. Len(s) \in Nat /\ DOMAIN s = 1..Len(s)
  BY LenProperties
<1>2. IsFiniteSet(1..Len(s)) /\ After(s, k, x) \in SUBSET (1..Len(s))
  BY <1>1, FS_Interval DEF After
<1>3. IsFiniteSet(After(s, k, x))
  BY <1>2, FS_Subset
<1>4. k >= Len(s) => After(s, k, x) = {}
  BY <1>1 DEF After
<1>. QED
  BY <1>3, <1>4, FS_CardinalityType, FS_EmptySet

\* One position further, the element passed occurs once less, the others as often.
LEMMA AfterNext ==
  ASSUME NEW S, NEW s \in Seq(S), NEW k \in Nat, k < Len(s), NEW x
  PROVE  Cardinality(After(s, k, x))
           = Cardinality(After(s, k + 1, x)) + (IF x = s[k + 1] THEN 1 ELSE 0)
<1>. DEFINE A == After(s, k, x)
            B == After(s, k + 1, x)
<1>1. k + 1 \in DOMAIN s /\ DOMAIN s \subseteq Nat
  BY LenProperties
<1>2. x = s[k + 1] => A = B \cup {k + 1} /\ k + 1 \notin B
  BY <1>1 DEF After
<1>3. x # s[k + 1] => A = B
  BY <1>1 DEF After
<1>4. IsFiniteSet(B) /\ Cardinality(B) \in Nat
  BY AfterFinite
<1>. HIDE DEF A, B
<1>5. x = s[k + 1] => Cardinality(A) = Cardinality(B) + 1
  BY <1>2, <1>4, FS_AddElement
<1>6. x # s[k + 1] => Cardinality(A) = Cardinality(B) + 0
  BY <1>3, <1>4
<1>. QED
  BY <1>5, <1>6 DEF A, B

\* list.append
LEMMA AfterAppend ==
  ASSUME NEW S, NEW s \in Seq(S), NEW y \in S, NEW k \in Nat, NEW x
  PROVE  Cardinality(After(s, k, x)) <= Cardinality(After(Append(s, y), k, x))
<1>1. /\ Append(s, y) \in Seq(S) /\ Len(s) \in Nat /\ DOMAIN s = 1..Len(s)
      /\ DOMAIN Append(s, y) = 1..(Len(s) + 1)
      /\ \A i \in 1..Len(s) : Append(s, y)[i] = s[i]
  BY AppendProperties, LenProperties
<1>2. After(s, k, x) \in SUBSET After(Append(s, y), k, x)
  BY <1>1 DEF After
<1>. QED
  BY <1>1, <1>2, AfterFinite, FS_Subset

\* The entries before the one removed stay where they are, those after it move up.
LEMMA RemoveAtEntries ==
  ASSUME NEW S, NEW s \in Seq(S), NEW j \in 1..Len(s)
  PROVE  /\ RemoveAt(s, j) \in Seq(S) /\ DOMAIN RemoveAt(s, j) = 1..(Len(s) - 1)
         /\ \A i \in 1..(Len(s) - 1) :
              RemoveAt(s, j)[i] = IF i < j THEN s[i] ELSE s[i + 1]
<1>. DEFINE u == SubSeq(s, 1, j - 1)
            v == SubSeq(s, j + 1, Len(s))
<1>1. Len(s) \in Nat /\ DOMAIN s = 1..Len(s)
  BY LenProperties
<1>2. u \in Seq(S) /\ DOMAIN u = 1..(j - 1) /\ \A i \in 1..(j - 1) : u[i] = s[i]
  BY <1>1
<1>3. /\ v \in Seq(S) /\ DOMAIN v = 1..(Len(s) - j)
      /\ \A i \in 1..(Len(s) - j) : v[i] = s[j + i]
  BY <1>1
<1>. HIDE DEF u, v
<1>4. Len(u) = j - 1 /\ Len(v) = Len(s) - j
  <2>1. \A m, n \in Nat : 1..m = 1..n => m = n
    OBVIOUS
  <2>2. j - 1 \in Nat /\ Len(s) - j \in Nat
    BY <1>1
  <2>. QED
    BY <1>2, <1>3, <2>1, <2>2, LenProperties
<1>5. /\ u \o v \in Seq(S) /\ DOMAIN (u \o v) = 1..(Len(s) - 1)
      /\ \A i \in 1..(Len(s) - 1) :
           (u \o v)[i] = IF i <= j - 1 THEN u[i] ELSE v[i - (j - 1)]
  <2>1. /\ u \o v \in Seq(S) /\ Len(u \o v) = Len(u) + Len(v)
        /\ \A i \in 1..(Len(u) + Len(v)) :
             (u \o v)[i] = IF i <= Len(u) THEN u[i] ELSE v[i - Len(u)]
    BY <1>2, <1>3, ConcatProperties
  <2>2. Len(u) + Len(v) = Len(s) - 1
    BY <1>1, <1>4
  <2>. QED
    BY <1>4, <2>1, <2>2, LenProperties
<1>6. ASSUME NEW i \in 1..(Len(s) - 1)
      PROVE  (u \o v)[i] = IF i < j THEN s[i] ELSE s[i + 1]
  <2>1. CASE i < j
    <3>1. i \in 1..(j - 1) /\ i <= j - 1
      BY <1>1, <2>1
    <3>. QED
      BY <1>2, <1>5, <2>1, <3>1
  <2>2. CASE ~(i < j)
    <3>1. /\ ~(i <= j - 1) /\ ~(i < j)
          /\ i - (j - 1) \in 1..(Len(s) - j) /\ j + (i - (j - 1)) = i + 1
      BY <1>1, <2>2
    <3>2. (u \o v)[i] = v[i - (j - 1)]
      BY <1>5, <3>1
    <3>3. v[i - (j - 1)] = s[j + (i - (j - 1))]
      BY <1>3, <3>1
    <3>. QED
      BY <3>1, <3>2, <3>3
  <2>. QED
    BY <2>1, <2>2
<1>7. RemoveAt(s, j) = u \o v
  BY DEF RemoveAt, u, v
<1>. QED
  BY <1>5, <1>6, <1>7

\* An entry removed, before the position or after it, costs at most one occurrence after
\* it, of one element: its own, or that of the entry which the removal moves across the
\* position.
LEMMA AfterRemoveAt ==
  ASSUME NEW S, NEW s \in Seq(S), NEW j \in 1..Len(s), NEW k \in Nat
  PROVE  \E g \in S : \A x :
           Cardinality(After(s, k, x)) <=
             Cardinality(After(RemoveAt(s, j), k, x)) + (IF x = g THEN 1 ELSE 0)
<1>. DEFINE r == RemoveAt(s, j)
            d == IF j > k THEN j ELSE k + 1
            Shift(i) == IF i < j THEN i ELSE i - 1
<1>1. Len(s) \in Nat /\ DOMAIN s = 1..Len(s) /\ d \in Nat /\ j \in 1..Len(s)
  BY LenProperties
<1>2. /\ r \in Seq(S) /\ DOMAIN r = 1..(Len(s) - 1)
      /\ \A i \in 1..(Len(s) - 1) : r[i] = IF i < j THEN s[i] ELSE s[i + 1]
  BY RemoveAtEntries
<1>. HIDE DEF r
\* every other entry after the position stays after it
<1>3. ASSUME NEW x
      PROVE  Cardinality(After(s, k, x) \ {d}) <= Cardinality(After(r, k, x))
  <2>. DEFINE A == After(s, k, x) \ {d}
              B == After(r, k, x)
              f == [i \in A |-> Shift(i)]
  <2>1. ASSUME NEW i \in A PROVE Shift(i) \in B
    <3>1. i \in 1..Len(s) /\ i > k /\ s[i] = x /\ i # d
      BY <1>1 DEF After
    <3>2. CASE i < j
      BY <1>1, <1>2, <3>1, <3>2 DEF After
    <3>3. CASE i > j
      <4>1. /\ i - 1 \in 1..(Len(s) - 1) /\ i - 1 > k
            /\ ~(i - 1 < j) /\ ~(i < j) /\ (i - 1) + 1 = i
        BY <1>1, <3>1, <3>3
      <4>. QED
        BY <1>2, <3>1, <4>1 DEF After
    <3>4. i # j
      BY <3>1
    <3>. QED
      BY <1>1, <3>1, <3>2, <3>3, <3>4
  <2>2. ASSUME NEW i \in A, NEW l \in A, Shift(i) = Shift(l) PROVE i = l
    <3>1. i \in Nat /\ l \in Nat /\ i > k /\ l > k /\ i # d /\ l # d
      BY <1>1 DEF After
    <3>. HIDE DEF A
    <3>2. i # j /\ l # j
      BY <3>1
    <3>. QED
      BY <2>2, <3>1, <3>2
  <2>3. f \in Injection(A, B)
    <3>. HIDE DEF A, B, Shift
    <3>. QED
      BY <2>1, <2>2 DEF Injection, IsInjective
  <2>4. IsFiniteSet(A) /\ IsFiniteSet(B)
    BY <1>2, AfterFinite, FS_RemoveElement
  <2>. HIDE DEF A, B, f
  <2>5. Cardinality(A) <= Cardinality(B)
    BY <2>3, <2>4, FS_Injection
  <2>. QED
    BY <2>5 DEF A, B
\* and the entry at d is one occurrence of one element
<1>4. \E g \in S : d <= Len(s) => g = s[d]
  <2>1. d >= 1 /\ s[1] \in S
    BY <1>1, ElementOfSeq
  <2>. HIDE DEF d
  <2>2. d <= Len(s) => s[d] \in S
    BY <1>1, <2>1, ElementOfSeq
  <2>. QED
    BY <2>1, <2>2
<1>5. PICK g \in S : d <= Len(s) => g = s[d]
  BY <1>4
<1>. HIDE DEF d
<1>6. ASSUME NEW x
      PROVE  Cardinality(After(s, k, x)) <=
               Cardinality(After(r, k, x)) + (IF x = g THEN 1 ELSE 0)
  <2>1. d \in After(s, k, x) => x = g
    BY <1>1, <1>5 DEF After
  <2>2. Cardinality(After(s, k, x)) \in Nat /\ Cardinality(After(r, k, x)) \in Nat
    BY <1>2, AfterFinite
  <2>3. Cardinality(After(s, k, x) \ {d})
          = IF d \in After(s, k, x) THEN Cardinality(After(s, k, x)) - 1
                                    ELSE Cardinality(After(s, k, x))
    BY AfterFinite, FS_RemoveElement
  <2>4. Cardinality(After(s, k, x) \ {d}) <= Cardinality(After(r, k, x))
    BY <1>3
  <2>5. CASE x = g
    BY <2>2, <2>3, <2>4, <2>5
  <2>6. CASE x # g
    BY <2>1, <2>2, <2>3, <2>4, <2>6
  <2>. QED
    BY <2>5, <2>6
<1>. QED
  BY <1>6 DEF r

\* list.remove of an element of the list: one of its entries goes.
LEMMA RemoveFirstAt ==
  ASSUME NEW S, NEW s \in Seq(S), NEW x \in ToSet(s)
  PROVE  \E j \in 1..Len(s) : RemoveFirst(s, x) = RemoveAt(s, j)
<1>. DEFINE I == {i \in 1..Len(s) : s[i] = x}
<1>1. Len(s) \in Nat /\ DOMAIN s = 1..Len(s)
  BY LenProperties
<1>2. I # {} /\ I \in SUBSET (1..Len(s))
  BY <1>1 DEF ToSet
<1>3. IsFiniteSet(I) /\ I \subseteq Int
  <2>1. IsFiniteSet(1..Len(s)) /\ 1..Len(s) \subseteq Int
    BY <1>1, FS_Interval
  <2>. HIDE DEF I
  <2>. QED
    BY <1>2, <2>1, FS_Subset
<1>4. \E m \in I : \A n \in I : m <= n
  <2>. HIDE DEF I
  <2>. QED
    BY <1>2, <1>3, LeastOfFinite
<1>5. Min(I) \in I
  BY <1>4 DEF Min
<1>6. RemoveFirst(s, x) = RemoveAt(s, Min(I))
  BY <1>2 DEF RemoveFirst, SelectInSeq
<1>. QED
  BY <1>5, <1>6
====
