-------------------------- MODULE ModeCallsProofs --------------------------
(***************************************************************************)
(* What the sequences of names that the modes build contain: the elements  *)
(* of a sequence at some of its places, the members of a set in some       *)
(* order, the first place of a text with a given token.                    *)
(***************************************************************************)
EXTENDS ModeCalls, FiniteSetTheorems, WellFoundedInduction, TLAPS

\* A set of naturals has a least member.
LEMMA Least ==
    ASSUME NEW S, S \subseteq Nat, S # {}
    PROVE  \E i \in S : \A j \in S : i <= j
<1>1. PICK i \in S : \A j \in S : <<j, i>> \notin OpToRel(<, Nat)
  BY WFMin, NatLessThanWellFounded, Zenon
<1>2. \A j \in S : ~(j < i)
  BY <1>1, Zenon DEF OpToRel
<1>3. QED
  BY <1>2

\* A place comes after fewer others than a later one.
LEMMA RanksDiffer ==
    ASSUME NEW I, IsFiniteSet(I), I \subseteq Nat, NEW i \in I, NEW j \in I, i < j
    PROVE  Cardinality({k \in I : k <= i}) # Cardinality({k \in I : k <= j})
<1> DEFINE below(n) == {k \in I : k <= n}
<1>1. i \in Nat /\ j \in Nat
  OBVIOUS
<1>2. ASSUME NEW k \in below(i) PROVE k \in below(j)
  <2>1. k \in I /\ k \in Nat /\ k <= i
    OBVIOUS
  <2>2. QED
    BY <1>1, <2>1
<1>3. j \in below(j) /\ j \notin below(i)
  BY <1>1
<1>4. IsFiniteSet(below(j))
  BY FS_Subset
<1>5. below(i) \in SUBSET below(j) /\ below(i) # below(j)
  BY <1>2, <1>3
<1> HIDE DEF below
<1>6. Cardinality(below(j)) # Cardinality(below(i))
  BY <1>4, <1>5, FS_Subset, Zenon
<1>7. QED
  BY <1>6 DEF below

\* The members of a set of places, by rank.
LEMMA Ranks ==
    ASSUME NEW I, IsFiniteSet(I), I \subseteq Nat
    PROVE  /\ Cardinality(I) \in Nat
           /\ \A k \in 1 .. Cardinality(I) : \E i \in I : Cardinality({j \in I : j <= i}) = k
           /\ \A i \in I : Cardinality({j \in I : j <= i}) \in 1 .. Cardinality(I)
<1> DEFINE below(i) == {j \in I : j <= i}
           rank == [i \in I |-> Cardinality(below(i))]
<1>1. Cardinality(I) \in Nat
  BY FS_CardinalityType
<1>2. ASSUME NEW i \in I
      PROVE  /\ IsFiniteSet(below(i)) /\ Cardinality(below(i)) \in 1 .. Cardinality(I)
  <2>1. IsFiniteSet(below(i)) /\ Cardinality(below(i)) <= Cardinality(I)
    BY FS_Subset
  <2>2. Cardinality(below(i)) \in Nat
    BY <2>1, FS_CardinalityType
  <2>3. i \in below(i)
    OBVIOUS
  <2>4. Cardinality(below(i)) # 0
    BY <2>1, <2>3, FS_EmptySet
  <2>5. QED
    BY <1>1, <2>1, <2>2, <2>4
<1>3. \A i, j \in I : i < j => rank[i] # rank[j]
  BY RanksDiffer
<1>4. rank \in [I -> 1 .. Cardinality(I)]
  BY <1>2
<1>5. \A i, j \in I : rank[i] = rank[j] => i = j
  <2> SUFFICES ASSUME NEW i \in I, NEW j \in I, rank[i] = rank[j], i # j PROVE FALSE
    OBVIOUS
  <2>1. i < j \/ j < i
    OBVIOUS
  <2>2. QED
    BY <1>3, <2>1
<1>6. rank \in Injection(I, 1 .. Cardinality(I))
  BY <1>4, <1>5, Zenon DEF Injection, IsInjective
<1>7. IsFiniteSet(1 .. Cardinality(I)) /\ Cardinality(1 .. Cardinality(I)) = Cardinality(I)
  BY <1>1, FS_Interval
<1>8. rank \in Surjection(I, 1 .. Cardinality(I))
  BY <1>6, <1>7, FS_Injection, Zenon
<1>9. \A k \in 1 .. Cardinality(I) : \E i \in I : rank[i] = k
  BY <1>8, Zenon DEF Surjection
<1>10. QED
  BY <1>1, <1>2, <1>9

LEMMA AtPlacesIs ==
    ASSUME NEW T, NEW s \in Seq(T), NEW I \in SUBSET DOMAIN s
    PROVE  /\ AtPlaces(s, I) \in Seq(T)
           /\ Len(AtPlaces(s, I)) = Cardinality(I)
           /\ ToSet(AtPlaces(s, I)) = {s[i] : i \in I}
           /\ (\A i, j \in I : s[i] = s[j] => i = j) => IsInjective(AtPlaces(s, I))
<1> DEFINE rank(i) == Cardinality({j \in I : j <= i})
           place(k) == CHOOSE i \in I : rank(i) = k
           r == AtPlaces(s, I)
<1>1. I \subseteq Nat /\ IsFiniteSet(I)
  <2>1. Len(s) \in Nat /\ DOMAIN s = 1 .. Len(s)
    OBVIOUS
  <2>2. IsFiniteSet(1 .. Len(s))
    BY <2>1, FS_Interval
  <2>3. QED
    BY <2>1, <2>2, FS_Subset
<1>2. /\ Cardinality(I) \in Nat
      /\ \A k \in 1 .. Cardinality(I) : \E i \in I : rank(i) = k
      /\ \A i \in I : rank(i) \in 1 .. Cardinality(I)
  BY <1>1, Ranks
<1> HIDE DEF rank
<1>3. \A k \in 1 .. Cardinality(I) : place(k) \in I /\ rank(place(k)) = k
  BY <1>2
<1>4. r = [k \in 1 .. Cardinality(I) |-> s[place(k)]]
  BY DEF AtPlaces, rank
<1>5. \A i \in I : place(rank(i)) = i
  <2> SUFFICES ASSUME NEW i \in I PROVE place(rank(i)) = i
    OBVIOUS
  <2> DEFINE j == place(rank(i))
  <2>1. j \in I /\ rank(j) = rank(i)
    BY <1>2, <1>3
  <2> HIDE DEF j
  <2>2. \A a, b \in I : a < b => rank(a) # rank(b)
    BY <1>1, RanksDiffer, Zenon DEF rank
  <2>3. i \in Nat /\ j \in Nat
    BY <1>1, <2>1
  <2>4. QED
    BY <2>1, <2>2, <2>3 DEF j
<1> HIDE DEF place, r
<1>6. \A i \in I : i \in DOMAIN s /\ s[i] \in T
  BY <1>1
<1>7. r \in Seq(T) /\ Len(r) = Cardinality(I) /\ DOMAIN r = 1 .. Cardinality(I)
  BY <1>2, <1>3, <1>4, <1>6
<1>8. ToSet(r) = {s[i] : i \in I}
  <2>1. ASSUME NEW k \in DOMAIN r PROVE \E i \in I : r[k] = s[i]
    BY <1>3, <1>4, <1>7
  <2>2. ASSUME NEW i \in I PROVE \E k \in DOMAIN r : r[k] = s[i]
    <3>1. rank(i) \in DOMAIN r /\ r[rank(i)] = s[i]
      BY <1>2, <1>4, <1>5, <1>7
    <3>2. QED
      BY <3>1
  <2>3. QED
    BY <2>1, <2>2 DEF ToSet
<1>9. ASSUME \A i, j \in I : s[i] = s[j] => i = j PROVE IsInjective(r)
  <2> SUFFICES ASSUME NEW a \in DOMAIN r, NEW b \in DOMAIN r, r[a] = r[b] PROVE a = b
    BY DEF IsInjective
  <2>1. place(a) = place(b)
    BY <1>3, <1>4, <1>7, <1>9
  <2>2. QED
    BY <1>3, <1>7, <2>1
<1>10. QED
  BY <1>7, <1>8, <1>9 DEF r

LEMMA OnlyIs ==
    ASSUME NEW s \in Seq(Names), NEW S, S \subseteq Names
    PROVE  /\ Only[s][S] \in Seq(Names)
           /\ ToSet(Only[s][S]) = ToSet(s) \cap S
           /\ IsInjective(s) => IsInjective(Only[s][S])
<1> DEFINE I == {i \in DOMAIN s : s[i] \in S}
<1>1. Only[s][S] = AtPlaces(s, I)
  BY DEF Only
<1>2. I \in SUBSET DOMAIN s
  OBVIOUS
<1>3. {s[i] : i \in I} = ToSet(s) \cap S
  BY DEF ToSet
<1>4. IsInjective(s) => \A i, j \in I : s[i] = s[j] => i = j
  BY DEF IsInjective
<1> HIDE DEF I
<1>5. QED
  BY <1>1, <1>2, <1>3, <1>4, AtPlacesIs

LEMMA DistinctIs ==
    ASSUME NEW s \in Seq(Names)
    PROVE  /\ Distinct[s] \in Seq(Names)
           /\ ToSet(Distinct[s]) = ToSet(s)
           /\ IsInjective(Distinct[s])
<1> DEFINE I == {i \in DOMAIN s : \A j \in 1 .. i - 1 : s[j] # s[i]}
<1>1. Distinct[s] = AtPlaces(s, I)
  BY DEF Distinct
<1>2. I \in SUBSET DOMAIN s
  OBVIOUS
<1>3. ASSUME NEW n \in DOMAIN s PROVE \E i \in I : s[i] = s[n]
  <2> DEFINE J == {i \in DOMAIN s : s[i] = s[n]}
  <2>1. J \subseteq Nat /\ n \in J
    OBVIOUS
  <2>2. PICK i \in J : \A j \in J : i <= j
    BY <2>1, Least
  <2>3. i \in 1 .. Len(s) /\ s[i] = s[n]
    BY <2>2
  <2>4. ASSUME NEW j \in 1 .. i - 1 PROVE s[j] # s[i]
    <3>1. j \in DOMAIN s /\ j < i
      BY <2>3
    <3>2. QED
      BY <2>2, <2>3, <3>1
  <2>5. QED
    BY <2>3, <2>4
<1>4. {s[i] : i \in I} = ToSet(s)
  BY <1>2, <1>3 DEF ToSet
<1>5. ASSUME NEW i \in I, NEW j \in I, s[i] = s[j] PROVE i = j
  <2>1. i \in 1 .. Len(s) /\ j \in 1 .. Len(s)
    OBVIOUS
  <2>2. ~(i < j) /\ ~(j < i)
    BY <1>5, <2>1
  <2>3. QED
    BY <2>1, <2>2
<1>6. \A i, j \in I : s[i] = s[j] => i = j
  BY <1>5, Zenon
<1> HIDE DEF I
<1>7. /\ AtPlaces(s, I) \in Seq(Names)
      /\ ToSet(AtPlaces(s, I)) = {s[i] : i \in I}
      /\ IsInjective(AtPlaces(s, I))
  BY <1>2, <1>6, AtPlacesIs
<1>8. QED
  BY <1>1, <1>4, <1>7, Zenon

LEMMA WithoutIs ==
    ASSUME NEW s \in Seq(Names), NEW a
    PROVE  /\ Without(s, a) \in Seq(Names)
           /\ ToSet(Without(s, a)) = ToSet(s) \ {a}
           /\ IsInjective(s) => IsInjective(Without(s, a))
<1>1. ToSet(s) \ {a} \subseteq Names
  BY DEF ToSet
<1>2. ToSet(s) \cap (ToSet(s) \ {a}) = ToSet(s) \ {a}
  OBVIOUS
<1>3. QED
  BY <1>1, <1>2, OnlyIs DEF Without

-----------------------------------------------------------------------------
(* Sequences and the sets of their members                                  *)

LEMMA EmptyIs ==
    ASSUME NEW T, NEW s \in Seq(T)
    PROVE  /\ ToSet(s) \subseteq T
           /\ s = <<>> <=> ToSet(s) = {}
           /\ ToSet(<<>>) = {}
<1>1. DOMAIN s = 1 .. Len(s) /\ Len(s) \in Nat /\ \A i \in DOMAIN s : s[i] \in T
  OBVIOUS
<1>2. s # <<>> => 1 \in DOMAIN s
  BY <1>1
<1>3. ToSet(<<>>) = {}
  BY DEF ToSet
<1>4. QED
  BY <1>1, <1>2, <1>3 DEF ToSet

LEMMA ConcatIs ==
    ASSUME NEW T, NEW s \in Seq(T), NEW t \in Seq(T)
    PROVE  /\ s \o t \in Seq(T)
           /\ ToSet(s \o t) = ToSet(s) \cup ToSet(t)
           /\ IsInjective(s) /\ IsInjective(t) /\ ToSet(s) \cap ToSet(t) = {}
                => IsInjective(s \o t)
<1> DEFINE r == s \o t
<1>1. /\ r \in Seq(T) /\ DOMAIN r = 1 .. Len(s) + Len(t)
      /\ Len(s) \in Nat /\ Len(t) \in Nat
      /\ \A i \in DOMAIN r : r[i] = IF i <= Len(s) THEN s[i] ELSE t[i - Len(s)]
  OBVIOUS
<1> HIDE DEF r
<1>2. ASSUME NEW i \in DOMAIN r PROVE r[i] \in ToSet(s) \cup ToSet(t)
  <2>1. CASE i <= Len(s)
    BY <1>1, <2>1 DEF ToSet
  <2>2. CASE i > Len(s)
    <3>1. i - Len(s) \in 1 .. Len(t) /\ r[i] = t[i - Len(s)]
      BY <1>1, <2>2
    <3>2. QED
      BY <3>1 DEF ToSet
  <2>3. QED
    BY <1>1, <2>1, <2>2
<1>3. ASSUME NEW i \in DOMAIN s PROVE s[i] \in ToSet(r)
  <2>1. i \in DOMAIN r /\ r[i] = s[i]
    BY <1>1
  <2>2. QED
    BY <2>1 DEF ToSet
<1>4. ASSUME NEW i \in DOMAIN t PROVE t[i] \in ToSet(r)
  <2>1. i + Len(s) \in DOMAIN r /\ r[i + Len(s)] = t[i]
    BY <1>1
  <2>2. QED
    BY <2>1 DEF ToSet
<1>5. ToSet(r) = ToSet(s) \cup ToSet(t)
  BY <1>2, <1>3, <1>4 DEF ToSet
<1>6. ASSUME IsInjective(s), IsInjective(t), ToSet(s) \cap ToSet(t) = {},
             NEW i \in DOMAIN r, NEW j \in DOMAIN r, r[i] = r[j]
      PROVE  i = j
  <2>1. \A k \in DOMAIN s, l \in DOMAIN t : s[k] # t[l]
    BY <1>6 DEF ToSet
  <2>2. CASE i <= Len(s) /\ j <= Len(s)
    BY <1>1, <1>6, <2>2 DEF IsInjective
  <2>3. CASE i > Len(s) /\ j > Len(s)
    <3>1. i - Len(s) \in DOMAIN t /\ j - Len(s) \in DOMAIN t
      BY <1>1, <2>3
    <3>2. t[i - Len(s)] = t[j - Len(s)]
      BY <1>1, <1>6, <2>3
    <3>3. i - Len(s) = j - Len(s)
      BY <1>6, <3>1, <3>2 DEF IsInjective
    <3>4. QED
      BY <1>1, <3>3
  <2>4. ASSUME NEW k \in DOMAIN r, NEW l \in DOMAIN r, k <= Len(s), l > Len(s)
        PROVE  r[k] # r[l]
    <3>1. k \in DOMAIN s /\ l - Len(s) \in DOMAIN t
      BY <1>1, <2>4
    <3>2. r[k] = s[k] /\ r[l] = t[l - Len(s)]
      BY <1>1, <2>4
    <3>3. QED
      BY <2>1, <3>1, <3>2
  <2>5. QED
    BY <1>1, <1>6, <2>2, <2>3, <2>4
<1>7. QED
  BY <1>1, <1>5, <1>6 DEF r, IsInjective

LEMMA AppendIs ==
    ASSUME NEW T, NEW s \in Seq(T), NEW x \in T
    PROVE  /\ Append(s, x) \in Seq(T)
           /\ ToSet(Append(s, x)) = ToSet(s) \cup {x}
           /\ IsInjective(s) /\ x \notin ToSet(s) => IsInjective(Append(s, x))
<1>1. <<x>> \in Seq(T) /\ Append(s, x) = s \o <<x>>
  OBVIOUS
<1>2. ToSet(<<x>>) = {x} /\ IsInjective(<<x>>)
  BY DEF ToSet, IsInjective
<1>3. x \notin ToSet(s) => ToSet(s) \cap {x} = {}
  OBVIOUS
<1> DEFINE e == <<x>>
<1> HIDE DEF e
<1>4. e \in Seq(T)
  BY <1>1 DEF e
<1>5. /\ s \o e \in Seq(T) /\ ToSet(s \o e) = ToSet(s) \cup ToSet(e)
      /\ IsInjective(s) /\ IsInjective(e) /\ ToSet(s) \cap ToSet(e) = {}
           => IsInjective(s \o e)
  BY <1>4, ConcatIs
<1>6. QED
  BY <1>1, <1>2, <1>3, <1>5, Zenon DEF e

LEMMA HeadTailIs ==
    ASSUME NEW T, NEW s \in Seq(T), s # <<>>
    PROVE  /\ Head(s) \in ToSet(s) /\ Tail(s) \in Seq(T)
           /\ ToSet(s) = {Head(s)} \cup ToSet(Tail(s))
           /\ IsInjective(s) => Head(s) \notin ToSet(Tail(s)) /\ IsInjective(Tail(s))
<1>1. /\ Len(s) \in Nat \ {0} /\ DOMAIN s = 1 .. Len(s) /\ Head(s) = s[1] /\ Tail(s) \in Seq(T)
      /\ DOMAIN Tail(s) = 1 .. Len(s) - 1 /\ \A i \in DOMAIN Tail(s) : Tail(s)[i] = s[i + 1]
  OBVIOUS
<1>2. Head(s) \in ToSet(s)
  BY <1>1 DEF ToSet
<1>3. ASSUME NEW i \in DOMAIN Tail(s) PROVE i + 1 \in DOMAIN s /\ Tail(s)[i] = s[i + 1]
  BY <1>1
<1>4. ASSUME NEW i \in DOMAIN s, i # 1 PROVE s[i] \in ToSet(Tail(s))
  <2>1. i - 1 \in DOMAIN Tail(s) /\ Tail(s)[i - 1] = s[i]
    BY <1>1, <1>4
  <2>2. QED
    BY <2>1 DEF ToSet
<1>5. ToSet(s) = {Head(s)} \cup ToSet(Tail(s))
  BY <1>1, <1>2, <1>3, <1>4 DEF ToSet
<1>6. ASSUME IsInjective(s) PROVE Head(s) \notin ToSet(Tail(s)) /\ IsInjective(Tail(s))
  <2>1. ASSUME NEW i \in DOMAIN Tail(s) PROVE Tail(s)[i] # s[1]
    BY <1>1, <1>3, <1>6 DEF IsInjective
  <2>2. ASSUME NEW i \in DOMAIN Tail(s), NEW j \in DOMAIN Tail(s), Tail(s)[i] = Tail(s)[j]
        PROVE  i = j
    <3>1. i + 1 = j + 1
      BY <1>3, <1>6, <2>2 DEF IsInjective
    <3>2. QED
      BY <1>1, <3>1
  <2>3. QED
    BY <1>1, <2>1, <2>2 DEF ToSet, IsInjective
<1>7. QED
  BY <1>1, <1>2, <1>5, <1>6

LEMMA MembersFinite ==
    ASSUME NEW T, NEW s \in Seq(T)
    PROVE  IsFiniteSet(ToSet(s)) /\ Cardinality(ToSet(s)) <= Len(s)
<1>1. Len(s) \in Nat /\ DOMAIN s = 1 .. Len(s)
  OBVIOUS
<1>2. s \in Surjection(1 .. Len(s), ToSet(s))
  BY <1>1 DEF Surjection, ToSet
<1>3. IsFiniteSet(1 .. Len(s)) /\ Cardinality(1 .. Len(s)) = Len(s)
  BY <1>1, FS_Interval
<1>4. QED
  BY <1>2, <1>3, FS_Surjection

\* SetToSeq lists a finite set without repetition.
LEMMA SetToSeqIs ==
    ASSUME NEW S, IsFiniteSet(S)
    PROVE  /\ SetToSeq(S) \in Seq(S)
           /\ ToSet(SetToSeq(S)) = S
           /\ IsInjective(SetToSeq(S))
           /\ Len(SetToSeq(S)) = Cardinality(S)
<1> DEFINE n == Cardinality(S)
<1>1. n \in Nat /\ ExistsBijection(1 .. n, S)
  BY FS_CardinalityType
<1>2. \E f \in [1 .. n -> S] : IsInjective(f)
  BY <1>1 DEF ExistsBijection, Bijection, Injection
<1>3. SetToSeq(S) \in [1 .. n -> S] /\ IsInjective(SetToSeq(S))
  BY <1>2 DEF SetToSeq
<1>4. SetToSeq(S) \in Injection(1 .. n, S)
  BY <1>3, Zenon DEF Injection
<1>5. IsFiniteSet(1 .. n) /\ Cardinality(1 .. n) = n
  BY <1>1, FS_Interval
<1> HIDE DEF n
<1>6. SetToSeq(S) \in Surjection(1 .. n, S)
  BY <1>4, <1>5, FS_Injection DEF n
<1>7. \A x \in S : \E i \in 1 .. n : SetToSeq(S)[i] = x
  BY <1>6 DEF Surjection
<1>8. SetToSeq(S) \in Seq(S) /\ Len(SetToSeq(S)) = n
  BY <1>1, <1>3
<1>9. ToSet(SetToSeq(S)) = S
  BY <1>1, <1>3, <1>7 DEF ToSet
<1>10. QED
  BY <1>3, <1>8, <1>9 DEF n
=============================================================================
