------------------------------ MODULE DataLemmas ------------------------------
(***************************************************************************)
(* Ranks in a finite set of numbers: a page of a replay is the set of the  *)
(* lowest ranks, the newest images and turns are those of the highest.     *)
(* Sequences behind one another: a channel and a queue, calls done and     *)
(* calls to do.                                                            *)
(***************************************************************************)
EXTENDS Integers, Sequences, FiniteSets, FunctionTheorems, FiniteSetTheorems,
        SequenceTheorems, TLAPS

Rank(S, e) == Cardinality({f \in S : f < e})

LEMMA RankAscends ==
    ASSUME NEW S \in SUBSET Nat, IsFiniteSet(S), NEW e \in S, NEW g \in S, e < g
    PROVE  Rank(S, e) < Rank(S, g)
<1> DEFINE below == {f \in S : f < e}
           belowG == {f \in S : f < g}
<1>1. /\ IsFiniteSet(below) /\ Cardinality(below) \in Nat
      /\ IsFiniteSet(belowG) /\ Cardinality(belowG) \in Nat
  BY FS_Subset, FS_CardinalityType
<1>2. Cardinality(below \cup {e}) = Cardinality(below) + 1
  <2>1. e \notin below
    OBVIOUS
  <2> QED
    BY <1>1, <2>1, FS_AddElement
<1>3. below \cup {e} \subseteq belowG
  <2>1. ASSUME NEW f \in S, f < e
        PROVE  f < g
    <3>1. e \in Nat /\ f \in Nat /\ g \in Nat
      OBVIOUS
    <3> QED
      BY <2>1, <3>1
  <2> QED
    BY <2>1
<1>4. Cardinality(below \cup {e}) <= Cardinality(belowG)
  BY <1>1, <1>3, FS_Subset
<1> HIDE DEF below, belowG
<1> QED
  BY <1>1, <1>2, <1>4 DEF Rank, below, belowG

LEMMA RankType ==
    ASSUME NEW S \in SUBSET Nat, IsFiniteSet(S), NEW e \in S
    PROVE  /\ Cardinality(S) \in Nat
           /\ Rank(S, e) \in 0..(Cardinality(S) - 1)
<1> DEFINE below == {f \in S : f < e}
<1>1. /\ IsFiniteSet(below) /\ Cardinality(below) \in Nat
      /\ Cardinality(S) \in Nat
  BY FS_Subset, FS_CardinalityType
<1>2. Cardinality(below \cup {e}) = Cardinality(below) + 1
  <2>1. e \notin below
    OBVIOUS
  <2> QED
    BY <1>1, <2>1, FS_AddElement
<1>3. below \cup {e} \subseteq S
  OBVIOUS
<1>4. Cardinality(below \cup {e}) <= Cardinality(S)
  BY <1>3, FS_Subset
<1> HIDE DEF below
<1> QED
  BY <1>1, <1>2, <1>4 DEF Rank, below

RankOf(S) == [e \in S |-> Rank(S, e)]

(* Every rank below the cardinality is the rank of one element. *)
LEMMA RankBijection ==
    ASSUME NEW S \in SUBSET Nat, IsFiniteSet(S)
    PROVE  /\ RankOf(S) \in Bijection(S, 0..(Cardinality(S) - 1))
           /\ \A r \in 0..(Cardinality(S) - 1) : \E e \in S : Rank(S, e) = r
<1> DEFINE ranks == 0..(Cardinality(S) - 1)
<1>1. Cardinality(S) \in Nat
  BY FS_CardinalityType
<1>2. IsFiniteSet(ranks) /\ Cardinality(ranks) = Cardinality(S)
  <2> DEFINE n == Cardinality(S)
  <2>1. n - 1 \in Int
    BY <1>1
  <2> HIDE DEF n
  <2>2. /\ IsFiniteSet(0..(n - 1))
        /\ Cardinality(0..(n - 1)) = IF 0 > n - 1 THEN 0 ELSE (n - 1) - 0 + 1
    BY <2>1, FS_Interval
  <2> QED
    BY <1>1, <2>2 DEF n
<1>3. RankOf(S) \in [S -> ranks]
  BY RankType DEF RankOf
<1>4. \A e, g \in S : RankOf(S)[e] = RankOf(S)[g] => e = g
  <2> SUFFICES ASSUME NEW e \in S, NEW g \in S, e # g
               PROVE  Rank(S, e) # Rank(S, g)
    BY DEF RankOf
  <2>1. Rank(S, e) \in Nat /\ Rank(S, g) \in Nat
    BY <1>1, RankType
  <2>2. CASE e < g
    BY <2>1, <2>2, RankAscends
  <2>3. CASE g < e
    BY <2>1, <2>3, RankAscends
  <2> QED
    BY <2>2, <2>3
<1> HIDE DEF ranks
<1>5. RankOf(S) \in Injection(S, ranks)
  BY <1>3, <1>4, Fun_IsInj
<1>6. RankOf(S) \in Surjection(S, ranks)
  BY <1>2, <1>5, FS_Injection
<1>7. RankOf(S) \in Bijection(S, ranks)
  BY <1>5, <1>6, Fun_IsBij
<1>8. \A r \in ranks : \E e \in S : Rank(S, e) = r
  <2>1. \A r \in ranks : \E e \in S : RankOf(S)[e] = r
    BY <1>6, Fun_SurjectionProperties
  <2> QED
    BY <2>1 DEF RankOf
<1> QED
  BY <1>7, <1>8 DEF ranks

LEMMA LeastElement ==
    ASSUME NEW S \in SUBSET Nat, IsFiniteSet(S), S # {}
    PROVE  \E e \in S : \A f \in S : e <= f
<1>1. Cardinality(S) \in Nat \ {0}
  BY FS_CardinalityType, FS_EmptySet
<1>2. 0 \in 0..(Cardinality(S) - 1)
  BY <1>1
<1>3. PICK e \in S : Rank(S, e) = 0
  BY <1>2, RankBijection
<1>4. ASSUME NEW f \in S, f < e
      PROVE  FALSE
  <2>1. Rank(S, f) < Rank(S, e) /\ Rank(S, f) \in Nat
    BY <1>1, <1>4, RankAscends, RankType
  <2> QED
    BY <1>3, <2>1
<1> QED
  BY <1>4

LEMMA GreatestElement ==
    ASSUME NEW S \in SUBSET Nat, IsFiniteSet(S), S # {}
    PROVE  \E e \in S : \A f \in S : f <= e
<1>1. Cardinality(S) \in Nat \ {0}
  BY FS_CardinalityType, FS_EmptySet
<1>2. Cardinality(S) - 1 \in 0..(Cardinality(S) - 1)
  BY <1>1
<1>3. PICK e \in S : Rank(S, e) = Cardinality(S) - 1
  BY <1>2, RankBijection
<1>4. ASSUME NEW f \in S, e < f
      PROVE  FALSE
  <2>1. Rank(S, e) < Rank(S, f) /\ Rank(S, f) \in 0..(Cardinality(S) - 1)
    BY <1>4, RankAscends, RankType
  <2> QED
    BY <1>1, <1>3, <2>1
<1> QED
  BY <1>4

(* A set with 0 that has with each number the next one has all of them:     *)
(* the least that it misses would follow one that it has.                  *)
LEMMA NaturalsReached ==
    ASSUME NEW G, 0 \in G, \A n \in Nat : n \in G => n + 1 \in G
    PROVE  Nat \subseteq G
<1> SUFFICES ASSUME NEW n \in Nat, n \notin G
             PROVE  FALSE
  OBVIOUS
<1> DEFINE missed == {m \in 0..n : m \notin G}
<1>1. missed \in SUBSET Nat /\ IsFiniteSet(missed) /\ missed # {}
  <2>1. IsFiniteSet(0..n) /\ missed \subseteq 0..n /\ n \in missed
    BY FS_Interval
  <2> QED
    BY <2>1, FS_Subset
<1>2. PICK e \in missed : \A f \in missed : e <= f
  <2> HIDE DEF missed
  <2> QED
    BY <1>1, LeastElement
<1>3. e # 0 /\ e \in 0..n /\ e \notin G
  OBVIOUS
<1>4. e - 1 \in Nat /\ e - 1 \in 0..n /\ (e - 1) + 1 = e
  BY <1>3
<1>5. e - 1 \notin missed
  <2> HIDE DEF missed
  <2> QED
    BY <1>2, <1>4, <1>3
<1> QED
  BY <1>3, <1>4, <1>5

Lowest(S, n) == {e \in S : Rank(S, e) < n}

(* There are n elements of the n lowest ranks, or all. *)
LEMMA LowestCardinality ==
    ASSUME NEW S \in SUBSET Nat, IsFiniteSet(S), NEW n \in Nat
    PROVE  /\ IsFiniteSet(Lowest(S, n))
           /\ n <= Cardinality(S) => Cardinality(Lowest(S, n)) = n
           /\ Cardinality(S) <= n => Lowest(S, n) = S
<1>1. Cardinality(S) \in Nat
  BY FS_CardinalityType
<1>2. IsFiniteSet(Lowest(S, n))
  BY FS_Subset DEF Lowest
<1>3. ASSUME n <= Cardinality(S)
      PROVE  Cardinality(Lowest(S, n)) = n
  <2> DEFINE f == [e \in Lowest(S, n) |-> Rank(S, e)]
             ranks == 0..(n - 1)
  <2>1. IsFiniteSet(ranks) /\ Cardinality(ranks) = n
    BY FS_Interval
  <2>2. f \in [Lowest(S, n) -> ranks]
    <3>1. \A e \in Lowest(S, n) : Rank(S, e) \in Nat /\ Rank(S, e) < n
      BY <1>1, RankType DEF Lowest
    <3> QED
      BY <3>1
  <2>3. \A r \in ranks : \E e \in Lowest(S, n) : f[e] = r
    <3> SUFFICES ASSUME NEW r \in ranks
                 PROVE  \E e \in Lowest(S, n) : Rank(S, e) = r
      OBVIOUS
    <3>1. r \in 0..(Cardinality(S) - 1) /\ r < n
      BY <1>1, <1>3
    <3>2. PICK e \in S : Rank(S, e) = r
      BY <3>1, RankBijection
    <3> QED
      BY <3>1, <3>2 DEF Lowest
  <2>4. \A a, b \in Lowest(S, n) : f[a] = f[b] => a = b
    <3>1. \A a, b \in S : RankOf(S)[a] = RankOf(S)[b] => a = b
      BY RankBijection, Fun_BijectionProperties
    <3> QED
      BY <3>1 DEF Lowest, RankOf
  <2> HIDE DEF f, ranks
  <2>5. f \in Bijection(Lowest(S, n), ranks)
    BY <2>2, <2>3, <2>4, Fun_IsBij
  <2>6. ExistsBijection(Lowest(S, n), ranks)
    BY <2>5, Fun_ExistsBij
  <2> QED
    BY <1>2, <2>1, <2>6, FS_Bijection
<1>4. ASSUME Cardinality(S) <= n
      PROVE  Lowest(S, n) = S
  <2>1. \A e \in S : Rank(S, e) < n
    BY <1>1, <1>4, RankType
  <2> QED
    BY <2>1 DEF Lowest
<1> QED
  BY <1>2, <1>3, <1>4

-----------------------------------------------------------------------------
(* Two sequences one behind the other: what leaves the second joins the    *)
(* first, and what leaves the first leaves the whole.                      *)

LEMMA HeadMoves ==
    ASSUME NEW S, NEW q \in Seq(S), NEW c \in Seq(S), c # <<>>
    PROVE  Append(q, Head(c)) \o Tail(c) = q \o c
<1>1. Head(c) \in S /\ Tail(c) \in Seq(S)
  BY HeadTailProperties
<1>2. Append(q, Head(c)) = q \o <<Head(c)>> /\ <<Head(c)>> \in Seq(S)
  BY <1>1, AppendIsConcat
<1>3. (q \o <<Head(c)>>) \o Tail(c) = q \o (<<Head(c)>> \o Tail(c))
  BY <1>1, <1>2, ConcatAssociative, SMTT(30)
<1>4. <<Head(c)>> \o Tail(c) = c
  <2> DEFINE d == <<Head(c)>> \o Tail(c)
  <2>1. /\ d \in Seq(S)
        /\ Len(d) = 1 + Len(Tail(c))
        /\ \A i \in 1..1 + Len(Tail(c)) : d[i] = IF i <= 1 THEN <<Head(c)>>[i] ELSE Tail(c)[i - 1]
    <3>1. Len(<<Head(c)>>) = 1
      OBVIOUS
    <3> QED
      BY <1>1, <1>2, <3>1, ConcatProperties
  <2>2. /\ Len(Tail(c)) = Len(c) - 1
        /\ \A i \in 1..Len(Tail(c)) : Tail(c)[i] = c[i + 1]
        /\ Head(c) = c[1]
        /\ Len(c) \in Nat
    BY HeadTailProperties
  <2>3. ASSUME NEW i \in 1..Len(c)
        PROVE  d[i] = c[i]
    <3>1. CASE i = 1
      BY <2>1, <2>2, <3>1
    <3>2. CASE i > 1
      <4>1. i - 1 \in 1..Len(Tail(c)) /\ i \in 1..1 + Len(Tail(c))
        BY <2>2, <3>2
      <4>2. d[i] = Tail(c)[i - 1]
        BY <2>1, <3>2, <4>1
      <4>3. Tail(c)[i - 1] = c[i - 1 + 1]
        BY <2>2, <4>1
      <4> QED
        BY <4>2, <4>3
    <3> QED
      BY <3>1, <3>2
  <2> HIDE DEF d
  <2>4. Len(d) = Len(c)
    BY <2>1, <2>2
  <2>5. d = c
    BY <2>1, <2>3, <2>4, SeqEqual
  <2> QED
    BY <2>5 DEF d
<1> QED
  BY <1>2, <1>3, <1>4

LEMMA HeadOfConcat ==
    ASSUME NEW S, NEW q \in Seq(S), NEW c \in Seq(S), q # <<>>
    PROVE  /\ q \o c \in Seq(S)
           /\ q \o c # <<>>
           /\ Head(q \o c) = Head(q)
           /\ Tail(q) \o c = Tail(q \o c)
<1> DEFINE both == q \o c
           rest == Tail(q) \o c
<1>1. /\ Tail(q) \in Seq(S)
      /\ Len(Tail(q)) = Len(q) - 1
      /\ \A i \in 1..Len(Tail(q)) : Tail(q)[i] = q[i + 1]
      /\ Len(q) \in Nat \ {0}
      /\ Len(c) \in Nat
      /\ Head(q) = q[1]
  BY HeadTailProperties, EmptySeq
<1>2. /\ both \in Seq(S)
      /\ Len(both) = Len(q) + Len(c)
      /\ \A i \in 1..Len(q) + Len(c) : both[i] = IF i <= Len(q) THEN q[i] ELSE c[i - Len(q)]
  BY ConcatProperties
<1>3. /\ rest \in Seq(S)
      /\ Len(rest) = Len(Tail(q)) + Len(c)
      /\ \A i \in 1..Len(Tail(q)) + Len(c) :
            rest[i] = IF i <= Len(Tail(q)) THEN Tail(q)[i] ELSE c[i - Len(Tail(q))]
  BY <1>1, ConcatProperties
<1> HIDE DEF both, rest
<1>4. both # <<>> /\ Head(both) = both[1] /\ 1 \in 1..Len(q) + Len(c)
  BY <1>1, <1>2, EmptySeq
<1>5. Head(both) = Head(q)
  BY <1>1, <1>2, <1>4
<1>6. /\ Tail(both) \in Seq(S)
      /\ Len(Tail(both)) = Len(both) - 1
      /\ \A i \in 1..Len(Tail(both)) : Tail(both)[i] = both[i + 1]
  BY <1>2, <1>4, HeadTailProperties
<1>7. Len(rest) = Len(Tail(both))
  BY <1>1, <1>2, <1>3, <1>6
<1>8. ASSUME NEW i \in 1..Len(rest)
      PROVE  rest[i] = Tail(both)[i]
  <2>1. i \in 1..Len(Tail(q)) + Len(c) /\ i + 1 \in 1..Len(q) + Len(c) /\ i \in 1..Len(Tail(both))
    BY <1>1, <1>2, <1>3, <1>6, <1>7
  <2>2. Tail(both)[i] = both[i + 1]
    BY <1>6, <2>1
  <2>3. CASE i <= Len(Tail(q))
    BY <1>1, <1>2, <1>3, <2>1, <2>2, <2>3
  <2>4. CASE ~ (i <= Len(Tail(q)))
    <3>1. rest[i] = c[i - Len(Tail(q))]
      BY <1>3, <2>1, <2>4
    <3>2. both[i + 1] = c[i + 1 - Len(q)]
      BY <1>1, <1>2, <2>1, <2>4
    <3>3. i - Len(Tail(q)) = i + 1 - Len(q)
      BY <1>1
    <3> QED
      BY <2>2, <3>1, <3>2, <3>3
  <2> QED
    BY <2>3, <2>4
<1>9. rest = Tail(both)
  BY <1>3, <1>6, <1>7, <1>8, SeqEqual
<1> QED
  BY <1>2, <1>4, <1>5, <1>9 DEF both, rest

LEMMA ConcatAppend ==
    ASSUME NEW S, NEW q \in Seq(S), NEW c \in Seq(S), NEW m \in S
    PROVE  q \o Append(c, m) = Append(q \o c, m)
<1>1. <<m>> \in Seq(S) /\ q \o c \in Seq(S)
  BY ConcatProperties
<1>2. Append(c, m) = c \o <<m>> /\ Append(q \o c, m) = (q \o c) \o <<m>>
  BY <1>1, AppendIsConcat
<1>3. (q \o c) \o <<m>> = q \o (c \o <<m>>)
  BY <1>1, ConcatAssociative, SMTT(30)
<1> QED
  BY <1>2, <1>3
=============================================================================
