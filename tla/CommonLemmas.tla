---------------------------- MODULE CommonLemmas ----------------------------
(***************************************************************************)
(* Facts that the proofs of several components need: about finite sets,     *)
(* about the filter of SeqOps, about sequences without repetitions, about   *)
(* the concatenation of sequences, about sums over finite sets, and about   *)
(* the operations of a reorderer.                                          *)
(***************************************************************************)
EXTENDS ReordererOps, SeqOps, SequencesExt, TLAPS, FiniteSetTheorems, SequenceTheorems

\* A non-empty set of numbers has a least element.
LEMMA LeastExists ==
    ASSUME NEW S \in SUBSET Nat, S # {}
    PROVE  \E m \in S : \A b \in S : m <= b
<1> DEFINE R == OpToRel(<, Nat)
<1>1. \E m \in S : \A b \in S : ~ (<<b, m>> \in R)
  <2>1. IsWellFoundedOn(R, Nat)
    BY NatLessThanWellFounded
  <2> HIDE DEF R
  <2> QED BY <2>1, WFMin
<1>2. \A b, m \in Nat : <<b, m>> \in R <=> b < m
  BY DEF OpToRel
<1> HIDE DEF R
<1>3. PICK m \in S : \A b \in S : ~ (<<b, m>> \in R)
  BY <1>1
<1>4. \A b \in S : b \in Nat /\ m \in Nat /\ ~ (b < m)
  BY <1>2, <1>3
<1> QED BY <1>4

LEMMA IntervalCardinality ==
    ASSUME NEW m \in Nat PROVE IsFiniteSet(1 .. m) /\ Cardinality(1 .. m) = m
<1>1. IsFiniteSet(1 .. m) /\ Cardinality(1 .. m) = IF 1 > m THEN 0 ELSE m - 1 + 1
  BY FS_Interval
<1> QED BY <1>1

LEMMA PlacesFinite ==
    ASSUME NEW T, NEW s \in Seq(T), NEW S
    PROVE  /\ IsFiniteSet(Places(s, S))
           /\ Cardinality(Places(s, S)) \in Nat
           /\ Cardinality(Places(s, S)) <= Len(s)
<1>1. IsFiniteSet(1 .. Len(s)) /\ Cardinality(1 .. Len(s)) = Len(s)
  BY IntervalCardinality
<1>2. Places(s, S) \in SUBSET (1 .. Len(s))
  BY DEF Places
<1> QED BY <1>1, <1>2, FS_Subset, FS_CardinalityType

Upto(s, S, i) == {j \in Places(s, S) : j <= i}

LEMMA UptoFacts ==
    ASSUME NEW T, NEW s \in Seq(T), NEW S, NEW i \in Places(s, S)
    PROVE  /\ IsFiniteSet(Upto(s, S, i))
           /\ Rank(s, S, i) = Cardinality(Upto(s, S, i))
           /\ Rank(s, S, i) \in 1 .. Cardinality(Places(s, S))
<1> DEFINE U == Upto(s, S, i)
<1>1. U \in SUBSET Places(s, S) /\ i \in U
  BY DEF Places, Upto
<1>2. /\ IsFiniteSet(U) /\ Cardinality(U) \in Nat
      /\ Cardinality(U) <= Cardinality(Places(s, S)) /\ Cardinality(Places(s, S)) \in Nat
  BY <1>1, PlacesFinite, FS_Subset, FS_CardinalityType
<1>3. Cardinality(U) # 0
  BY <1>1, <1>2, FS_EmptySet
<1>4. Rank(s, S, i) = Cardinality(U)
  BY DEF Rank, Upto
<1> QED BY <1>2, <1>3, <1>4

\* Every place of an element that stays has a number of its own ...
LEMMA RankInjective ==
    ASSUME NEW T, NEW s \in Seq(T), NEW S,
           NEW i \in Places(s, S), NEW j \in Places(s, S), Rank(s, S, i) = Rank(s, S, j)
    PROVE  i = j
<1>1. ASSUME NEW a \in Places(s, S), NEW b \in Places(s, S), a < b,
             Rank(s, S, a) = Rank(s, S, b)
      PROVE  FALSE
  <2>1. Upto(s, S, a) \in SUBSET Upto(s, S, b) /\ b \in Upto(s, S, b) /\ b \notin Upto(s, S, a)
    BY <1>1 DEF Places, Upto
  <2>2. IsFiniteSet(Upto(s, S, b)) /\ Cardinality(Upto(s, S, a)) = Cardinality(Upto(s, S, b))
    BY <1>1, UptoFacts
  <2> QED BY <2>1, <2>2, FS_Subset
<1>2. i \in Int /\ j \in Int
  BY DEF Places
<1> QED BY <1>1, <1>2

\* ... and every number up to their count is the number of one.
LEMMA RankSurjective ==
    ASSUME NEW T, NEW s \in Seq(T), NEW S,
           NEW n \in 1 .. Cardinality(Places(s, S))
    PROVE  \E i \in Places(s, S) : Rank(s, S, i) = n
<1> DEFINE idx == Places(s, S)
           c == Cardinality(idx)
           f == [i \in idx |-> Rank(s, S, i)]
<1>1. c \in Nat /\ IsFiniteSet(idx)
  BY PlacesFinite
<1>2. f \in Injection(idx, 1 .. c)
  <2>1. f \in [idx -> 1 .. c]
    BY UptoFacts
  <2>2. \A i, j \in idx : f[i] = f[j] => i = j
    BY RankInjective
  <2> QED BY <2>1, <2>2 DEF Injection, IsInjective
<1>3. IsFiniteSet(1 .. c) /\ Cardinality(1 .. c) = c
  <2> HIDE DEF c
  <2> QED BY <1>1, IntervalCardinality
<1>4. f \in Surjection(idx, 1 .. c)
  BY <1>2, <1>3, FS_Injection
<1>5. \E i \in idx : f[i] = n
  BY <1>4 DEF Surjection
<1> QED BY <1>5

\* What Filter keeps, and that it repeats nothing.
LEMMA FilterFacts ==
    ASSUME NEW T, NEW s \in Seq(T), NEW S
    PROVE  /\ Filter(s, S) \in Seq(T)
           /\ Len(Filter(s, S)) <= Len(s)
           /\ ToSet(Filter(s, S)) = ToSet(s) \cap S
           /\ (\A i, j \in 1 .. Len(s) : s[i] = s[j] => i = j) =>
              \A i, j \in 1 .. Len(Filter(s, S)) : Filter(s, S)[i] = Filter(s, S)[j] => i = j
<1> DEFINE idx == Places(s, S)
           c == Cardinality(idx)
           pos == [n \in 1 .. c |-> CHOOSE i \in idx : Rank(s, S, i) = n]
           g == Filter(s, S)
<1>1. c \in Nat /\ c <= Len(s)
  BY PlacesFinite
<1>2. \A n \in 1 .. c : pos[n] \in idx /\ Rank(s, S, pos[n]) = n
  BY RankSurjective
<1>3. idx \subseteq 1 .. Len(s) /\ \A i \in idx : s[i] \in S
  BY DEF Places
<1>4. g = [n \in 1 .. c |-> s[pos[n]]]
  BY DEF Filter
<1> HIDE DEF idx, c, pos, g
<1>5. \A n \in 1 .. c : pos[n] \in 1 .. Len(s) /\ s[pos[n]] \in S
  BY <1>2, <1>3
<1>6. g \in Seq(T) /\ Len(g) = c
  <2>1. \A n \in 1 .. c : s[pos[n]] \in T
    BY <1>5
  <2>2. g \in [1 .. c -> T]
    BY <1>4, <2>1
  <2> QED BY <1>1, <2>2
<1>7. ToSet(g) = ToSet(s) \cap S
  <2>1. \A n \in 1 .. c : g[n] \in ToSet(s) \cap S
    <3>1. \A n \in 1 .. c : s[pos[n]] \in ToSet(s)
      BY <1>5 DEF ToSet
    <3> QED BY <1>4, <1>5, <3>1
  <2>2. ASSUME NEW i \in 1 .. Len(s), s[i] \in S PROVE \E n \in 1 .. c : g[n] = s[i]
    <3> DEFINE n == Rank(s, S, i)
    <3>1. i \in idx
      BY <2>2 DEF idx, Places
    <3>2. n \in 1 .. c
      BY <3>1, UptoFacts DEF idx, c
    <3>3. pos[n] = i
      BY <1>2, <3>1, <3>2, RankInjective DEF idx
    <3> QED BY <1>4, <3>2, <3>3
  <2>3. DOMAIN g = 1 .. c /\ DOMAIN s = 1 .. Len(s)
    BY <1>6
  <2> QED BY <2>1, <2>2, <2>3 DEF ToSet
<1>8. ASSUME \A i, j \in 1 .. Len(s) : s[i] = s[j] => i = j,
             NEW m \in 1 .. c, NEW n \in 1 .. c, g[m] = g[n]
      PROVE  m = n
  <2>1. pos[m] = pos[n]
    BY <1>2, <1>3, <1>4, <1>8
  <2> QED BY <1>2, <2>1
<1> QED BY <1>1, <1>6, <1>7, <1>8 DEF g

-----------------------------------------------------------------------------
\* A sequence without repetitions.
Distinct(q) == \A i, j \in 1 .. Len(q) : q[i] = q[j] => i = j

LEMMA AppendFacts ==
    ASSUME NEW T, NEW q \in Seq(T), NEW e \in T
    PROVE  /\ Append(q, e) \in Seq(T)
           /\ ToSet(Append(q, e)) = ToSet(q) \cup {e}
           /\ Distinct(q) /\ e \notin ToSet(q) => Distinct(Append(q, e))
<1> DEFINE a == Append(q, e)
<1>1. /\ a \in Seq(T) /\ Len(a) = Len(q) + 1 /\ Len(q) \in Nat
      /\ \A i \in 1 .. Len(q) : a[i] = q[i]
      /\ a[Len(q) + 1] = e
  OBVIOUS
<1>2. DOMAIN a = 1 .. Len(q) + 1 /\ DOMAIN q = 1 .. Len(q)
  BY <1>1
<1> HIDE DEF a
<1>3. ToSet(a) = ToSet(q) \cup {e}
  <2>1. \A i \in 1 .. Len(q) + 1 : i \in 1 .. Len(q) \/ i = Len(q) + 1
    BY <1>1
  <2>2. Len(q) + 1 \in 1 .. Len(q) + 1 /\ 1 .. Len(q) \subseteq 1 .. Len(q) + 1
    BY <1>1
  <2> QED BY <1>1, <1>2, <2>1, <2>2 DEF ToSet
<1>4. ASSUME Distinct(q), e \notin ToSet(q) PROVE Distinct(a)
  <2>1. \A i \in 1 .. Len(q) : q[i] # e
    BY <1>2, <1>4 DEF ToSet
  <2>2. \A i \in 1 .. Len(a) : i \in 1 .. Len(q) \/ i = Len(q) + 1
    BY <1>1
  <2> QED BY <1>1, <1>4, <2>1, <2>2 DEF Distinct
<1> QED BY <1>1, <1>3, <1>4 DEF a

LEMMA HeadTailFacts ==
    ASSUME NEW T, NEW q \in Seq(T), q # << >>
    PROVE  /\ Tail(q) \in Seq(T) /\ Head(q) \in T
           /\ ToSet(q) = {Head(q)} \cup ToSet(Tail(q))
           /\ Distinct(q) => Distinct(Tail(q)) /\ Head(q) \notin ToSet(Tail(q))
<1> DEFINE u == Tail(q)
<1>1. /\ u \in Seq(T) /\ Len(q) \in Nat \ {0} /\ Len(u) = Len(q) - 1
      /\ \A i \in 1 .. Len(q) - 1 : u[i] = q[i + 1]
      /\ Head(q) = q[1] /\ Head(q) \in T
  BY HeadTailProperties
<1>2. DOMAIN u = 1 .. Len(q) - 1 /\ DOMAIN q = 1 .. Len(q)
  BY <1>1
<1> HIDE DEF u
<1>3. ToSet(q) = {Head(q)} \cup ToSet(u)
  <2>1. \A i \in 1 .. Len(q) : i = 1 \/ (i - 1 \in 1 .. Len(q) - 1 /\ q[i] = u[i - 1])
    BY <1>1
  <2>2. \A i \in 1 .. Len(q) - 1 : i + 1 \in 1 .. Len(q)
    BY <1>1
  <2>3. 1 \in 1 .. Len(q)
    BY <1>1
  <2>4. \A i \in 1 .. Len(q) : q[i] = Head(q) \/ q[i] \in ToSet(u)
    BY <1>1, <1>2, <2>1 DEF ToSet
  <2>5. Head(q) \in ToSet(q)
    BY <1>1, <1>2, <2>3 DEF ToSet
  <2>6. \A i \in 1 .. Len(q) - 1 : u[i] \in ToSet(q)
    BY <1>1, <1>2, <2>2 DEF ToSet
  <2> QED BY <1>2, <2>4, <2>5, <2>6 DEF ToSet
<1>4. ASSUME Distinct(q) PROVE Distinct(u) /\ Head(q) \notin ToSet(u)
  <2>1. \A i \in 1 .. Len(q) - 1 : i + 1 \in 1 .. Len(q) /\ 1 \in 1 .. Len(q) /\ i + 1 # 1
    BY <1>1
  <2>2. Distinct(u)
    BY <1>1, <1>4, <2>1 DEF Distinct
  <2>3. Head(q) \notin ToSet(u)
    BY <1>1, <1>2, <1>4, <2>1 DEF Distinct, ToSet
  <2> QED BY <2>2, <2>3
<1> QED BY <1>1, <1>3, <1>4 DEF u

\* What remains of a list when the first occurrence of e is taken out; of a
\* list without repetitions that is everything but e.
LEMMA RemoveFirstFacts ==
    ASSUME NEW T, NEW q \in Seq(T), NEW e
    PROVE  /\ RemoveFirst(q, e) \in Seq(T)
           /\ ToSet(RemoveFirst(q, e)) \subseteq ToSet(q)
           /\ Distinct(q) => /\ Distinct(RemoveFirst(q, e))
                             /\ ToSet(RemoveFirst(q, e)) = ToSet(q) \ {e}
<1> DEFINE I == {i \in 1 .. Len(q) : q[i] = e}
           f == RemoveFirst(q, e)
<1>0. Len(q) \in Nat /\ DOMAIN q = 1 .. Len(q)
  OBVIOUS
<1>1. CASE I = {}
  <2>1. f = q
    BY <1>1 DEF RemoveFirst
  <2>2. e \notin ToSet(q)
    BY <1>0, <1>1 DEF ToSet
  <2> QED BY <2>1, <2>2
<1>2. CASE I # {}
  <2>1. Min(I) \in I
    <3>1. \E m \in I : \A b \in I : m <= b
      <4>1. I \in SUBSET Nat
        BY <1>0
      <4> HIDE DEF I
      <4> QED BY <1>2, <4>1, LeastExists
    <3> HIDE DEF I
    <3> QED BY <3>1 DEF Min
  <2>2. PICK k \in 1 .. Len(q) : q[k] = e /\ f = RemoveAt(q, k)
    <3>1. f = RemoveAt(q, Min(I))
      BY <1>2 DEF RemoveFirst, SelectInSeq
    <3> HIDE DEF f
    <3> QED BY <2>1, <3>1
  <2> HIDE DEF f
  <2> DEFINE a == SubSeq(q, 1, k - 1)
             b == SubSeq(q, k + 1, Len(q))
  <2>4. a \in Seq(T) /\ Len(a) = k - 1 /\ \A i \in 1 .. k - 1 : a[i] = q[i]
    <3>1. \A i \in 1 .. k - 1 : q[i] \in T
      BY <1>0, <2>2
    <3> QED BY <1>0, <2>2, <3>1, SubSeqProperties
  <2>5. b \in Seq(T) /\ Len(b) = Len(q) - k /\ \A i \in 1 .. Len(q) - k : b[i] = q[k + i]
    <3>1. \A i \in k + 1 .. Len(q) : q[i] \in T
      BY <1>0, <2>2
    <3>2. /\ b \in Seq(T) /\ Len(b) = IF k + 1 <= Len(q) THEN Len(q) - (k + 1) + 1 ELSE 0
          /\ \A i \in 1 .. Len(q) - (k + 1) + 1 : b[i] = q[k + 1 + i - 1]
      BY <1>0, <2>2, <3>1, SubSeqProperties
    <3> HIDE DEF b
    <3>3. Len(b) = Len(q) - k
      BY <1>0, <2>2, <3>2
    <3>4. ASSUME NEW i \in 1 .. Len(q) - k PROVE b[i] = q[k + i]
      <4>1. i \in 1 .. Len(q) - (k + 1) + 1 /\ k + 1 + i - 1 = k + i
        BY <1>0, <2>2
      <4> QED BY <3>2, <4>1
    <3> QED BY <3>2, <3>3, <3>4
  <2>6. f = a \o b
    BY <2>2 DEF RemoveAt
  <2> HIDE DEF a, b
  <2>7. /\ f \in Seq(T) /\ Len(f) = Len(q) - 1
        /\ \A i \in 1 .. Len(q) - 1 : f[i] = IF i < k THEN q[i] ELSE q[i + 1]
    <3>1. /\ f \in Seq(T) /\ Len(f) = Len(a) + Len(b)
          /\ \A i \in 1 .. Len(a) + Len(b) : f[i] = IF i <= Len(a) THEN a[i] ELSE b[i - Len(a)]
      BY <2>4, <2>5, <2>6, ConcatProperties
    <3>2. Len(a) + Len(b) = Len(q) - 1
      BY <1>0, <2>2, <2>4, <2>5
    <3>3. ASSUME NEW i \in 1 .. Len(q) - 1, i < k PROVE f[i] = q[i]
      BY <1>0, <2>2, <2>4, <3>1, <3>2, <3>3
    <3>4. ASSUME NEW i \in 1 .. Len(q) - 1, ~(i < k) PROVE f[i] = q[i + 1]
      <4>1. i - (k - 1) \in 1 .. Len(q) - k /\ k + (i - (k - 1)) = i + 1 /\ ~(i <= Len(a))
        BY <1>0, <2>2, <2>4, <3>4
      <4>2. f[i] = b[i - (k - 1)]
        BY <2>4, <3>1, <3>2, <4>1
      <4>3. b[i - (k - 1)] = q[k + (i - (k - 1))]
        BY <2>5, <4>1
      <4> QED BY <4>1, <4>2, <4>3
    <3> QED BY <3>1, <3>2, <3>3, <3>4
  <2>8. DOMAIN f = 1 .. Len(q) - 1
    BY <1>0, <2>7
  <2>9. \A i \in 1 .. Len(q) - 1 : \E j \in 1 .. Len(q) \ {k} :
           f[i] = q[j] /\ j = IF i < k THEN i ELSE i + 1
    BY <1>0, <2>2, <2>7
  <2>10. ToSet(f) \subseteq ToSet(q)
    BY <1>0, <2>8, <2>9 DEF ToSet
  <2>11. ASSUME Distinct(q) PROVE Distinct(f) /\ ToSet(f) = ToSet(q) \ {e}
    <3>1. Distinct(f)
      <4> SUFFICES ASSUME NEW i \in 1 .. Len(q) - 1, NEW j \in 1 .. Len(q) - 1, f[i] = f[j]
                   PROVE  i = j
        BY <2>7 DEF Distinct
      <4>1. PICK x \in 1 .. Len(q) : f[i] = q[x] /\ x = IF i < k THEN i ELSE i + 1
        BY <2>9
      <4>2. PICK y \in 1 .. Len(q) : f[j] = q[y] /\ y = IF j < k THEN j ELSE j + 1
        BY <2>9
      <4>3. x = y
        BY <2>11, <4>1, <4>2 DEF Distinct
      <4> QED BY <1>0, <2>2, <4>1, <4>2, <4>3
    <3>2. e \notin ToSet(f)
      <4>1. \A j \in 1 .. Len(q) \ {k} : q[j] # e
        BY <2>2, <2>11 DEF Distinct
      <4> QED BY <2>8, <2>9, <4>1 DEF ToSet
    <3>3. ASSUME NEW j \in 1 .. Len(q), q[j] # e PROVE q[j] \in ToSet(f)
      <4>1. j # k
        BY <2>2, <3>3
      <4> DEFINE i == IF j < k THEN j ELSE j - 1
      <4>2. i \in 1 .. Len(q) - 1 /\ (IF i < k THEN i ELSE i + 1) = j
        BY <1>0, <2>2, <4>1
      <4>3. f[i] = q[j]
        BY <2>7, <4>2
      <4> QED BY <2>8, <4>2, <4>3 DEF ToSet
    <3> QED BY <1>0, <2>10, <3>1, <3>2, <3>3 DEF ToSet
  <2> QED BY <2>7, <2>10, <2>11 DEF f
<1> QED BY <1>1, <1>2

\* The concatenation of two lists that have nothing in common.
LEMMA ConcatDistinct ==
    ASSUME NEW T, NEW q \in Seq(T), NEW w \in Seq(T)
    PROVE  /\ ToSet(q \o w) = ToSet(q) \cup ToSet(w)
           /\ Distinct(q) /\ Distinct(w) /\ ToSet(q) \cap ToSet(w) = {} => Distinct(q \o w)
<1> DEFINE z == q \o w
<1>1. /\ z \in Seq(T) /\ Len(z) = Len(q) + Len(w)
      /\ \A i \in 1 .. Len(q) + Len(w) : z[i] = IF i <= Len(q) THEN q[i] ELSE w[i - Len(q)]
  BY ConcatProperties
<1>2. /\ Len(q) \in Nat /\ Len(w) \in Nat /\ DOMAIN q = 1 .. Len(q) /\ DOMAIN w = 1 .. Len(w)
      /\ DOMAIN z = 1 .. Len(q) + Len(w)
  BY <1>1
<1> HIDE DEF z
<1>3. \A i \in 1 .. Len(q) : i \in 1 .. Len(q) + Len(w) /\ z[i] = q[i]
  BY <1>1, <1>2
<1>4. \A i \in 1 .. Len(w) : Len(q) + i \in 1 .. Len(q) + Len(w) /\ z[Len(q) + i] = w[i]
  <2> TAKE i \in 1 .. Len(w)
  <2>1. Len(q) + i \in 1 .. Len(q) + Len(w) /\ ~(Len(q) + i <= Len(q)) /\ Len(q) + i - Len(q) = i
    BY <1>2
  <2> QED BY <1>1, <2>1
<1>5. \A i \in 1 .. Len(q) + Len(w) :
         \/ i \in 1 .. Len(q) /\ z[i] = q[i]
         \/ i - Len(q) \in 1 .. Len(w) /\ z[i] = w[i - Len(q)] /\ i > Len(q)
  BY <1>1, <1>2
<1>6. ToSet(z) = ToSet(q) \cup ToSet(w)
  <2>1. ToSet(z) \subseteq ToSet(q) \cup ToSet(w)
    BY <1>2, <1>5 DEF ToSet
  <2>2. ToSet(q) \subseteq ToSet(z)
    BY <1>2, <1>3 DEF ToSet
  <2>3. ToSet(w) \subseteq ToSet(z)
    BY <1>2, <1>4 DEF ToSet
  <2> QED BY <2>1, <2>2, <2>3
<1>7. ASSUME Distinct(q), Distinct(w), ToSet(q) \cap ToSet(w) = {} PROVE Distinct(z)
  <2>1. \A i \in 1 .. Len(q) : \A j \in 1 .. Len(w) : q[i] # w[j]
    BY <1>2, <1>7 DEF ToSet
  <2> SUFFICES ASSUME NEW i \in 1 .. Len(q) + Len(w), NEW j \in 1 .. Len(q) + Len(w), z[i] = z[j]
               PROVE  i = j
    BY <1>1 DEF Distinct
  <2>2. CASE i \in 1 .. Len(q) /\ j \in 1 .. Len(q)
    BY <1>3, <1>7, <2>2 DEF Distinct
  <2>3. CASE i > Len(q) /\ j > Len(q)
    <3>1. i - Len(q) \in 1 .. Len(w) /\ j - Len(q) \in 1 .. Len(w)
          /\ w[i - Len(q)] = w[j - Len(q)]
      BY <1>2, <1>5, <2>3
    <3>2. i - Len(q) = j - Len(q)
      BY <1>7, <3>1 DEF Distinct
    <3> QED BY <1>2, <3>2
  <2> QED BY <1>2, <1>5, <2>1, <2>2, <2>3
<1> QED BY <1>6, <1>7 DEF z

-----------------------------------------------------------------------------
(* What the operations of a reorderer do, and the loop that drains it, while *)
(* sequence numbers stay below the end of the number space.                 *)

FrameSeq == 0 .. SeqSpace - 2

\* A reorderer whose numbers cannot wrap, with nothing below nextSeq.
SaneReorderer(r) == r.buffer \subseteq FrameSeq /\ \A b \in r.buffer : b >= r.nextSeq

LEMMA Bounds == SeqSpace \in Nat /\ SeqSpace > 1 /\ FrameSeq \subseteq SeqNum /\ SeqNum \subseteq Nat
BY SeqSpaceAssumption DEF FrameSeq, SeqNum

\* A gap is skipped up to the lowest buffered number.
LEMMA SkipSpec ==
    ASSUME NEW r \in ReordererType, SaneReorderer(r), r.buffer # {}, r.nextSeq \notin r.buffer
    PROVE  Skipped(r).nextSeq \in r.buffer /\ Skipped(r).nextSeq > r.nextSeq
<1>1. r.buffer \in SUBSET Nat /\ r.nextSeq \in Nat
  BY SeqSpaceAssumption DEF ReordererType, SeqNum
<1> DEFINE m == CHOOSE z \in r.buffer : IsLowest(r, z)
<1>2. m \in r.buffer
  <2>1. \E z \in r.buffer : IsLowest(r, z)
    BY <1>1, LeastExists DEF IsLowest
  <2> QED BY <2>1
<1>3. m > r.nextSeq
  BY <1>1, <1>2 DEF SaneReorderer
<1>4. skipToLowest(r) = [r EXCEPT !.nextSeq = m]
  BY <1>3 DEF skipToLowest
<1>5. Skipped(r).nextSeq = m
  <2> HIDE DEF m
  <2> QED BY <1>4 DEF Skipped, ReordererType
<1> QED BY <1>2, <1>3, <1>5

\* Where a drain begins and ends: it takes buffered numbers only.
LEMMA DrainRange ==
    ASSUME NEW r \in ReordererType, SaneReorderer(r)
    PROVE  /\ DrainFrom(r) \in SeqNum /\ DrainTo(r) \in SeqNum
           /\ r.nextSeq <= DrainFrom(r) /\ DrainFrom(r) <= DrainTo(r)
           /\ Ready(r) \/ GapExpired(r) => DrainFrom(r) < DrainTo(r) /\ DrainTo(r) \notin r.buffer
           /\ ~Ready(r) /\ ~GapExpired(r) => DrainFrom(r) = r.nextSeq /\ DrainTo(r) = r.nextSeq
           /\ Ready(r) => DrainFrom(r) = r.nextSeq
           /\ GapExpired(r) => \A b \in r.buffer : b >= DrainFrom(r)
           /\ Drained(r) \subseteq r.buffer
<1> DEFINE d == DrainFrom(r)
<1>1. r.buffer \subseteq FrameSeq /\ r.nextSeq \in SeqNum /\ \A b \in r.buffer : b >= r.nextSeq
  BY DEF ReordererType, SaneReorderer
<1>2. CASE ~Ready(r) /\ ~GapExpired(r)
  <2>1. d = r.nextSeq /\ DrainTo(r) = r.nextSeq
    BY <1>2 DEF DrainFrom, DrainTo
  <2>2. r.nextSeq \in SeqNum /\ r.nextSeq \in Int
    BY <1>1, SeqSpaceAssumption DEF SeqNum
  <2>3. r.nextSeq <= r.nextSeq /\ r.nextSeq .. r.nextSeq - 1 = {}
    BY <2>2
  <2>4. Drained(r) = {}
    BY <2>1, <2>3 DEF Drained
  <2> QED BY <1>2, <2>1, <2>2, <2>3, <2>4 DEF Ready, GapExpired
<1>3. CASE Ready(r) \/ GapExpired(r)
  <2>1. d \in r.buffer /\ r.nextSeq <= d /\ (Ready(r) => d = r.nextSeq)
        /\ (GapExpired(r) => \A b \in r.buffer : b >= d)
    <3>1. CASE Ready(r)
      <4>1. d = r.nextSeq /\ ~GapExpired(r)
        BY <3>1 DEF DrainFrom, GapExpired
      <4> QED BY <1>1, <3>1, <4>1, Bounds DEF Ready
    <3>2. CASE GapExpired(r) /\ ~Ready(r)
      <4>1. d = Skipped(r).nextSeq
        BY <3>2 DEF DrainFrom
      <4>2. d \in r.buffer /\ d > r.nextSeq
        BY <3>2, <4>1, SkipSpec DEF GapExpired, Ready
      <4>3. \A b \in r.buffer : b >= d
        <5>1. r.buffer \in SUBSET Nat /\ r.buffer # {} /\ r.nextSeq \in Nat
          BY <1>1, <4>2, Bounds
        <5> DEFINE m == CHOOSE z \in r.buffer : IsLowest(r, z)
        <5>2. m \in r.buffer /\ IsLowest(r, m)
          <6>1. \E z \in r.buffer : IsLowest(r, z)
            BY <5>1, LeastExists DEF IsLowest
          <6> QED BY <6>1
        <5>3. Skipped(r).nextSeq \in {m, r.nextSeq}
          <6> HIDE DEF m
          <6>1. skipToLowest(r) \in {[r EXCEPT !.nextSeq = m], r}
            BY DEF skipToLowest, m
          <6> QED BY <6>1 DEF Skipped, ReordererType
        <5>4. d = m
          BY <3>2, <4>1, <4>2, <5>3 DEF Ready
        <5> HIDE DEF m, d
        <5> QED BY <5>1, <5>2, <5>4 DEF IsLowest
      <4> QED BY <1>1, <3>2, <4>2, <4>3, Bounds
    <3> QED BY <1>3, <3>1, <3>2
  <2> HIDE DEF d
  <2>2. d \in FrameSeq /\ d \in Nat /\ r.nextSeq \in Nat
    BY <1>1, <2>1, Bounds
  <2> DEFINE Out == {n \in d .. SeqSpace : n \notin r.buffer}
  <2>3. \E n \in Out : \A b \in Out : n <= b
    <3>1. Out \in SUBSET Nat
      BY <2>2, Bounds
    <3>2. SeqSpace - 1 \in Out
      BY <1>1, <2>2, Bounds DEF FrameSeq
    <3> HIDE DEF Out
    <3> QED BY <3>1, <3>2, LeastExists
  <2>4. PICK n \in Out : \A b \in Out : n <= b
    BY <2>3
  <2>5. IsDrainEnd(r, n)
    <3>1. n \in d .. SeqSpace /\ n \notin r.buffer
      BY <2>4
    <3>2. ASSUME NEW i \in d .. n - 1 PROVE i \in r.buffer
      <4>1. i \in d .. SeqSpace /\ ~(n <= i)
        BY <2>2, <3>1, Bounds
      <4> QED BY <2>4, <4>1
    <3> QED BY <3>1, <3>2 DEF IsDrainEnd, d
  <2> DEFINE e == DrainTo(r)
  <2>6. e \in d .. SeqSpace /\ IsDrainEnd(r, e)
    <3>1. e = CHOOSE x \in DrainFrom(r) .. SeqSpace : IsDrainEnd(r, x)
      BY <1>3 DEF DrainTo
    <3>2. n \in DrainFrom(r) .. SeqSpace
      BY <2>4 DEF d
    <3> QED BY <2>5, <3>1, <3>2 DEF d
  <2>7. e # d /\ e \notin r.buffer
    BY <2>1, <2>6 DEF IsDrainEnd, d
  <2>8. e # SeqSpace
    <3>1. e = SeqSpace => SeqSpace - 1 \in d .. e - 1
      BY <2>2, Bounds DEF FrameSeq
    <3>2. SeqSpace - 1 \notin r.buffer
      BY <1>1, Bounds DEF FrameSeq
    <3> QED BY <2>6, <3>1, <3>2 DEF IsDrainEnd, d
  <2> HIDE DEF e
  <2>9. e \in SeqNum /\ d < e /\ d \in SeqNum
    BY <2>2, <2>6, <2>7, <2>8, Bounds DEF SeqNum
  <2>10. d <= e
    BY <2>2, <2>9, Bounds
  <2>11. Drained(r) \subseteq r.buffer
    BY <2>6 DEF IsDrainEnd, Drained, e, d
  <2> QED BY <1>3, <2>1, <2>7, <2>9, <2>10, <2>11, Zenon DEF d, e
<1> QED BY <1>2, <1>3

\* The reorderer after a drain: nextSeq is past what was taken, and nothing
\* that stays buffered lies below it.
LEMMA DrainSpec ==
    ASSUME NEW r \in ReordererType, SaneReorderer(r)
    PROVE  /\ Drain(r) \in ReordererType /\ SaneReorderer(Drain(r))
           /\ Drain(r).nextSeq = DrainTo(r) /\ Drain(r).buffer \subseteq r.buffer
<1> DEFINE d == DrainFrom(r)
           e == DrainTo(r)
<1>1. /\ d \in SeqNum /\ e \in SeqNum /\ r.nextSeq <= d /\ d <= e
      /\ Ready(r) \/ GapExpired(r) => d < e /\ e \notin r.buffer
      /\ ~Ready(r) /\ ~GapExpired(r) => d = r.nextSeq /\ e = r.nextSeq
      /\ Ready(r) => d = r.nextSeq
      /\ GapExpired(r) => \A b \in r.buffer : b >= d
  BY DrainRange
<1>2. r.buffer \subseteq FrameSeq /\ r.nextSeq \in SeqNum /\ \A b \in r.buffer : b >= r.nextSeq
  BY DEF ReordererType, SaneReorderer
<1>3. Drained(r) = d .. e - 1
  BY DEF Drained
<1> HIDE DEF d, e
<1>4. d \in Nat /\ e \in Nat /\ r.nextSeq \in Nat /\ e % SeqSpace = e
  <2>1. e \in 0 .. SeqSpace - 1 /\ d \in Nat /\ r.nextSeq \in Nat
    BY <1>1, <1>2, Bounds DEF SeqNum
  <2> QED BY <2>1, Bounds
<1>5. CASE ~Ready(r) /\ ~GapExpired(r)
  <2>1. Drained(r) = {} /\ e = r.nextSeq
    BY <1>1, <1>3, <1>4, <1>5
  <2>2. Drain(r) = Next(r)
    BY <2>1 DEF Drain
  <2>3. Next(r) \in {r, [r EXCEPT !.waitingSince = "zero"], [r EXCEPT !.waitingSince = "recent"]}
    <3>1. CASE r.buffer = {}
      BY <1>5, <3>1 DEF Next
    <3>2. CASE r.buffer # {} /\ r.waitingSince = "zero"
      BY <1>5, <3>2 DEF Next
    <3>3. CASE r.buffer # {} /\ r.waitingSince = "recent"
      BY <1>5, <3>3 DEF Next
    <3>4. r.buffer # {} => r.waitingSince \in {"zero", "recent"}
      BY <1>5 DEF GapExpired, ReordererType, Timer
    <3> QED BY <3>1, <3>2, <3>3, <3>4
  <2>4. Next(r) \in ReordererType /\ Next(r).nextSeq = r.nextSeq /\ Next(r).buffer = r.buffer
    BY <2>3 DEF ReordererType, Timer
  <2> QED BY <1>2, <2>1, <2>2, <2>4 DEF SaneReorderer, e
<1>6. CASE Ready(r) \/ GapExpired(r)
  <2> DEFINE rest == r.buffer \ Drained(r)
             w == IF rest = {} THEN "zero" ELSE "recent"
  <2>1. d \in Drained(r)
    BY <1>1, <1>3, <1>4, <1>6
  <2>2. Drain(r) = [nextSeq |-> e, buffer |-> rest, waitingSince |-> w]
    <3>1. Drained(r) # {}
      BY <2>1
    <3> QED BY <1>4, <3>1 DEF Drain, e
  <2>3. w \in Timer
    BY DEF Timer
  <2>4. ASSUME NEW b \in rest PROVE b \in FrameSeq /\ b \in SeqNum /\ b >= e
    <3>1. b \in r.buffer /\ b \notin d .. e - 1 /\ b \in FrameSeq /\ b \in SeqNum /\ b \in Nat
      BY <1>2, <1>3, Bounds
    <3>2. b >= d
      BY <1>1, <1>2, <1>6, <3>1
    <3> QED BY <1>4, <3>1, <3>2
  <2> HIDE DEF rest, w
  <2>5. Drain(r) \in ReordererType /\ Drain(r).buffer = rest /\ Drain(r).nextSeq = e
    BY <1>1, <2>2, <2>3, <2>4 DEF ReordererType
  <2>6. rest \subseteq r.buffer
    BY DEF rest
  <2> QED BY <2>4, <2>5, <2>6 DEF SaneReorderer, e
<1> QED BY <1>5, <1>6

\* A frame that is not late is buffered.
LEMMA InsertSpec ==
    ASSUME NEW r \in ReordererType, SaneReorderer(r), NEW q \in FrameSeq
    PROVE  /\ Insert(r, q) \in ReordererType /\ SaneReorderer(Insert(r, q))
           /\ Insert(r, q).nextSeq = r.nextSeq /\ Insert(r, q).buffer \subseteq r.buffer \cup {q}
<1>1. q \in SeqNum /\ q \in Nat /\ r.nextSeq \in Nat
  BY Bounds DEF ReordererType
<1> QED BY <1>1 DEF Insert, ReordererType, SaneReorderer

-----------------------------------------------------------------------------
\* The concatenation of a sequence of sequences.

\* The concatenations of the first sequences of ss.
Partial(g, ss, m) ==
    g = [i \in 1 .. m |-> IF i = 1 THEN ss[i] ELSE g[i - 1] \o ss[i]]

Summable(ss, m) == \E g : Partial(g, ss, m)

LEMMA PartialExists ==
    ASSUME NEW T, NEW ss \in Seq(Seq(T)), ss # <<>>
    PROVE  Summable(ss, Len(ss))
<1> DEFINE Bad == {m \in 1 .. Len(ss) : ~ Summable(ss, m)}
<1>1. Len(ss) \in Nat \ {0}
  OBVIOUS
<1> SUFFICES ASSUME Bad # {} PROVE FALSE
  BY <1>1
<1>2. PICK m \in Bad : \A b \in Bad : m <= b
  <2>1. Bad \in SUBSET Nat
    OBVIOUS
  <2> HIDE DEF Bad
  <2> QED BY <2>1, LeastExists
<1>3. CASE m = 1
  <2>1. Partial([i \in 1 .. 1 |-> ss[i]], ss, 1)
    BY DEF Partial
  <2> QED BY <1>2, <1>3, <2>1 DEF Summable
<1>4. CASE m # 1
  <2>1. m - 1 \in 1 .. Len(ss) /\ m - 1 \notin Bad
    BY <1>2, <1>4
  <2>2. PICK g : Partial(g, ss, m - 1)
    BY <2>1 DEF Summable
  <2> DEFINE h == [i \in 1 .. m |-> IF i = m THEN g[m - 1] \o ss[m] ELSE g[i]]
  <2>3. \A i \in 1 .. m : h[i] = IF i = 1 THEN ss[i] ELSE h[i - 1] \o ss[i]
    <3> SUFFICES ASSUME NEW i \in 1 .. m PROVE h[i] = IF i = 1 THEN ss[i] ELSE h[i - 1] \o ss[i]
      OBVIOUS
    <3>1. CASE i = m
      <4>1. m - 1 \in 1 .. m /\ m - 1 # m
        BY <1>4, <1>2
      <4> QED BY <1>4, <3>1, <4>1
    <3>2. CASE i # m
      <4>1. i \in 1 .. m - 1 /\ h[i] = g[i]
        BY <3>2, <1>2
      <4>2. g[i] = IF i = 1 THEN ss[i] ELSE g[i - 1] \o ss[i]
        BY <2>2, <4>1 DEF Partial
      <4>3. i # 1 => i - 1 \in 1 .. m /\ i - 1 # m
        BY <4>1, <1>2
      <4> QED BY <4>1, <4>2, <4>3
    <3> QED BY <3>1, <3>2
  <2>4. h = [i \in 1 .. m |-> IF i = 1 THEN ss[i] ELSE h[i - 1] \o ss[i]]
    BY <2>3
  <2> HIDE DEF h
  <2>5. Partial(h, ss, m)
    BY <2>4 DEF Partial
  <2> QED BY <1>2, <2>5 DEF Summable
<1> QED BY <1>3, <1>4

LEMMA FlattenPartial ==
    ASSUME NEW T, NEW ss \in Seq(Seq(T)), ss # <<>>
    PROVE  \E g : Partial(g, ss, Len(ss)) /\ FlattenSeq(ss) = g[Len(ss)]
<1> DEFINE g == CHOOSE g : Partial(g, ss, Len(ss))
<1>1. Partial(g, ss, Len(ss))
  BY PartialExists DEF Summable
<1>2. Len(ss) # 0
  OBVIOUS
<1>3. FlattenSeq(ss) = g[Len(ss)]
  BY <1>2 DEF FlattenSeq, Partial
<1> QED BY <1>1, <1>3

\* The elements of the sequences follow each other.
Blocks(fs, ss, off, m) ==
    /\ off[0] = 0 /\ off[m] = Len(fs)
    /\ \A j \in 1 .. m : off[j] = off[j - 1] + Len(ss[j])
    /\ \A j \in 1 .. m : \A r \in 1 .. Len(ss[j]) :
          off[j - 1] + r \in DOMAIN fs /\ fs[off[j - 1] + r] = ss[j][r]
    /\ \A k \in DOMAIN fs : \E j \in 1 .. m : \E r \in 1 .. Len(ss[j]) : k = off[j - 1] + r

LEMMA ConcatFacts ==
    ASSUME NEW T, NEW s \in Seq(T), NEW t \in Seq(T)
    PROVE  /\ s \o t \in Seq(T) /\ Len(s \o t) = Len(s) + Len(t)
           /\ Len(s) \in Nat /\ Len(t) \in Nat
           /\ DOMAIN s = 1 .. Len(s) /\ DOMAIN (s \o t) = 1 .. Len(s) + Len(t)
           /\ \A i \in 1 .. Len(s) : (s \o t)[i] = s[i]
           /\ \A r \in 1 .. Len(t) : (s \o t)[Len(s) + r] = t[r]
OBVIOUS

LEMMA BlocksGrow ==
    ASSUME NEW T, NEW ss \in Seq(Seq(T)), NEW off, NEW k \in 2 .. Len(ss),
           NEW a \in Seq(T), Blocks(a, ss, off, k - 1), NEW b \in Seq(T), b = ss[k],
           off[k] = Len(a \o b)
    PROVE  Blocks(a \o b, ss, off, k)
<1> DEFINE c == a \o b
<1>1. /\ Len(c) = Len(a) + Len(b) /\ Len(a) \in Nat /\ Len(b) \in Nat
      /\ DOMAIN a = 1 .. Len(a) /\ DOMAIN c = 1 .. Len(a) + Len(b)
      /\ \A i \in 1 .. Len(a) : c[i] = a[i]
      /\ \A r \in 1 .. Len(b) : c[Len(a) + r] = b[r]
  BY ConcatFacts
<1> HIDE DEF c
<1>2. off[0] = 0 /\ off[k - 1] = Len(a) /\ off[k] = Len(c)
  BY DEF Blocks, c
<1>3. \A j \in 1 .. k : off[j] = off[j - 1] + Len(ss[j])
  <2>1. \A j \in 1 .. k - 1 : off[j] = off[j - 1] + Len(ss[j])
    BY DEF Blocks
  <2>2. off[k] = off[k - 1] + Len(ss[k])
    BY <1>1, <1>2
  <2> QED BY <2>1, <2>2
<1>4. ASSUME NEW j \in 1 .. k, NEW r \in 1 .. Len(ss[j])
      PROVE  off[j - 1] + r \in DOMAIN c /\ c[off[j - 1] + r] = ss[j][r]
  <2>1. CASE j = k
    <3>1. r \in 1 .. Len(b) /\ off[j - 1] = Len(a) /\ ss[j] = b
      BY <1>2, <2>1
    <3>2. Len(a) + r \in DOMAIN c /\ c[Len(a) + r] = b[r]
      <4>1. PICK x, y : x = Len(a) /\ y = Len(b)
        OBVIOUS
      <4>2. x \in Nat /\ y \in Nat /\ r \in 1 .. y /\ DOMAIN c = 1 .. x + y
        BY <1>1, <3>1, <4>1
      <4>3. x + r \in 1 .. x + y
        BY <4>2
      <4> QED BY <1>1, <3>1, <4>1, <4>2, <4>3
    <3> QED BY <3>1, <3>2
  <2>2. CASE j # k
    <3>1. j \in 1 .. k - 1
      BY <2>2
    <3>2. off[j - 1] + r \in DOMAIN a /\ a[off[j - 1] + r] = ss[j][r]
      BY <3>1 DEF Blocks
    <3> QED BY <1>1, <3>2
  <2> QED BY <2>1, <2>2
<1>5. ASSUME NEW i \in DOMAIN c
      PROVE  \E j \in 1 .. k : \E r \in 1 .. Len(ss[j]) : i = off[j - 1] + r
  <2>1. CASE i \in DOMAIN a
    <3>1. PICK j \in 1 .. k - 1 : \E r \in 1 .. Len(ss[j]) : i = off[j - 1] + r
      BY <2>1 DEF Blocks
    <3> QED BY <3>1
  <2>2. CASE i \notin DOMAIN a
    <3>0. i \in 1 .. Len(a) + Len(b) /\ i \notin 1 .. Len(a)
      BY <1>1, <2>2
    <3>1. i - Len(a) \in 1 .. Len(b) /\ i = Len(a) + (i - Len(a))
      BY <1>1, <3>0
    <3>2. \E r \in 1 .. Len(ss[k]) : i = off[k - 1] + r
      BY <1>2, <3>1
    <3> QED BY <3>2
  <2> QED BY <2>1, <2>2
<1>6. Blocks(c, ss, off, k)
  BY <1>2, <1>3, <1>4, <1>5 DEF Blocks
<1> QED BY <1>6 DEF c

LEMMA PartialBlocks ==
    ASSUME NEW T, NEW ss \in Seq(Seq(T)), NEW g, Partial(g, ss, Len(ss)),
           NEW off, off = [j \in 0 .. Len(ss) |-> IF j = 0 THEN 0 ELSE Len(g[j])],
           NEW m \in 1 .. Len(ss)
    PROVE  g[m] \in Seq(T) /\ Blocks(g[m], ss, off, m)
<1> DEFINE Good(k) == g[k] \in Seq(T) /\ Blocks(g[k], ss, off, k)
<1> DEFINE Bad == {k \in 1 .. Len(ss) : ~ Good(k)}
<1>1. \A i \in 1 .. Len(ss) : g[i] = IF i = 1 THEN ss[i] ELSE g[i - 1] \o ss[i]
  BY DEF Partial
<1>2. Good(1)
  <2>0. 1 \in 1 .. Len(ss) /\ ss[1] \in Seq(T)
    OBVIOUS
  <2>1. 1 \in 1 .. Len(ss) /\ g[1] = ss[1] /\ ss[1] \in Seq(T)
    BY <1>1, <2>0
  <2>2. off[0] = 0 /\ off[1] = Len(ss[1])
    BY <2>1
  <2>3. /\ Len(ss[1]) \in Nat /\ DOMAIN ss[1] = 1 .. Len(ss[1])
        /\ \A r \in 1 .. Len(ss[1]) : 0 + r = r
    BY <2>1
  <2>4. \A j : j \in 1 .. 1 => j = 1 /\ off[j - 1] = 0
    BY <2>2
  <2>5. Blocks(ss[1], ss, off, 1)
    BY <2>2, <2>3, <2>4 DEF Blocks
  <2> QED BY <2>1, <2>5
<1>3. ASSUME NEW k \in 2 .. Len(ss), Good(k - 1) PROVE Good(k)
  <2>1. k \in 1 .. Len(ss) /\ k - 1 \in 1 .. Len(ss) /\ k # 1 /\ ss[k] \in Seq(T)
    OBVIOUS
  <2>2. g[k] = g[k - 1] \o ss[k] /\ g[k - 1] \in Seq(T) /\ Blocks(g[k - 1], ss, off, k - 1)
    BY <1>1, <1>3, <2>1
  <2>3. off[k] = Len(g[k])
    BY <2>1
  <2>4. g[k] \in Seq(T)
    BY <2>1, <2>2, ConcatFacts
  <2>5. Blocks(g[k], ss, off, k)
    BY <2>1, <2>2, <2>3, BlocksGrow
  <2> QED BY <2>4, <2>5
<1> SUFFICES ASSUME Bad # {} PROVE FALSE
  <2> HIDE DEF Good
  <2>1. Good(m)
    OBVIOUS
  <2> QED BY <2>1 DEF Good
<1> HIDE DEF Good
<1>4. PICK k \in Bad : \A b \in Bad : k <= b
  <2>1. Bad \in SUBSET Nat
    OBVIOUS
  <2> HIDE DEF Bad
  <2> QED BY <2>1, LeastExists
<1>5. k # 1
  BY <1>2, <1>4
<1>6. k - 1 \in 1 .. Len(ss) /\ k - 1 \notin Bad
  BY <1>4, <1>5
<1>7. k \in 2 .. Len(ss) /\ Good(k - 1)
  BY <1>4, <1>5, <1>6
<1> QED BY <1>3, <1>4, <1>7

\* FlattenSeq gives the elements of the sequences one after the other.
LEMMA FlattenBlocks ==
    ASSUME NEW T, NEW ss \in Seq(Seq(T)), ss # <<>>
    PROVE  /\ FlattenSeq(ss) \in Seq(T)
           /\ \E off \in [0 .. Len(ss) -> Nat] : Blocks(FlattenSeq(ss), ss, off, Len(ss))
<1>1. PICK g : Partial(g, ss, Len(ss)) /\ FlattenSeq(ss) = g[Len(ss)]
  BY FlattenPartial
<1>2. PICK off : off = [j \in 0 .. Len(ss) |-> IF j = 0 THEN 0 ELSE Len(g[j])]
  OBVIOUS
<1>3. \A m \in 1 .. Len(ss) : g[m] \in Seq(T) /\ Blocks(g[m], ss, off, m)
  BY <1>1, <1>2, PartialBlocks
<1>4. Len(ss) \in 1 .. Len(ss)
  OBVIOUS
<1>5. off \in [0 .. Len(ss) -> Nat]
  BY <1>2, <1>3
<1> QED BY <1>1, <1>3, <1>4, <1>5

-----------------------------------------------------------------------------
(* Ranks and filtered sequences, step by step.                             *)

\* The rank of a place counts the places up to it.
LEMMA RankFinite ==
    ASSUME NEW T, NEW s \in Seq(T), NEW S
    PROVE  /\ \A n \in Nat : IsFiniteSet(Upto(s, S, n)) /\ Cardinality(Upto(s, S, n)) \in Nat
           /\ \A n : Rank(s, S, n) = Cardinality(Upto(s, S, n))
<1>1. IsFiniteSet(Places(s, S)) /\ Places(s, S) \subseteq 1 .. Len(s)
  BY PlacesFinite DEF Places
<1>2. \A n \in Nat : IsFiniteSet(Upto(s, S, n)) /\ Cardinality(Upto(s, S, n)) \in Nat
  <2> SUFFICES ASSUME NEW n \in Nat
               PROVE  IsFiniteSet(Upto(s, S, n)) /\ Cardinality(Upto(s, S, n)) \in Nat
    OBVIOUS
  <2>1. Upto(s, S, n) \in SUBSET Places(s, S)
    BY DEF Upto
  <2> QED BY <1>1, <2>1, FS_Subset, FS_CardinalityType
<1>3. \A n : Rank(s, S, n) = Cardinality(Upto(s, S, n))
  BY DEF Rank, Upto
<1> QED BY <1>2, <1>3

LEMMA RankNext ==
    ASSUME NEW T, NEW s \in Seq(T), NEW S, NEW n \in Nat, n < Len(s), NEW m, m = n + 1
    PROVE  Rank(s, S, m) = IF s[m] \in S THEN Rank(s, S, n) + 1 ELSE Rank(s, S, n)
<1>1. m \in Nat /\ m \in 1 .. Len(s)
  OBVIOUS
<1>2. CASE s[m] \in S
  <2>1. m \in Places(s, S)
    BY <1>1, <1>2 DEF Places
  <2>2. Upto(s, S, m) = Upto(s, S, n) \cup {m}
    BY <1>1, <2>1 DEF Upto, Places
  <2>3. m \notin Upto(s, S, n)
    BY <1>1 DEF Upto
  <2>4. Cardinality(Upto(s, S, m)) = Cardinality(Upto(s, S, n)) + 1
    <3>1. IsFiniteSet(Upto(s, S, n))
      BY RankFinite
    <3> QED BY <2>2, <2>3, <3>1, FS_AddElement
  <2>5. Rank(s, S, m) = Cardinality(Upto(s, S, m)) /\ Rank(s, S, n) = Cardinality(Upto(s, S, n))
    BY RankFinite
  <2> QED BY <1>2, <2>4, <2>5
<1>3. CASE s[m] \notin S
  <2>1. m \notin Places(s, S)
    BY <1>3 DEF Places
  <2>2. Upto(s, S, m) = Upto(s, S, n)
    BY <1>1, <2>1 DEF Upto, Places
  <2>3. Rank(s, S, m) = Cardinality(Upto(s, S, m)) /\ Rank(s, S, n) = Cardinality(Upto(s, S, n))
    BY RankFinite
  <2> QED BY <1>3, <2>2, <2>3
<1> QED BY <1>2, <1>3

LEMMA RankZero ==
    ASSUME NEW T, NEW s \in Seq(T), NEW S PROVE Rank(s, S, 0) = 0
<1>1. Upto(s, S, 0) = {}
  BY DEF Upto, Places
<1>2. Rank(s, S, 0) = Cardinality(Upto(s, S, 0))
  BY RankFinite
<1> QED BY <1>1, <1>2, FS_EmptySet

\* An element that stays is found at its rank.
LEMMA FilterAtRank ==
    ASSUME NEW T, NEW s \in Seq(T), NEW S
    PROVE  /\ Filter(s, S) \in Seq(T)
           /\ Len(Filter(s, S)) = Cardinality(Places(s, S))
           /\ \A i \in Places(s, S) : /\ Rank(s, S, i) \in 1 .. Len(Filter(s, S))
                                      /\ Filter(s, S)[Rank(s, S, i)] = s[i]
           /\ \A n \in 1 .. Len(Filter(s, S)) :
                 \E i \in Places(s, S) : Rank(s, S, i) = n /\ Filter(s, S)[n] = s[i]
<1> DEFINE c == Cardinality(Places(s, S))
           pos == [n \in 1 .. c |-> CHOOSE i \in Places(s, S) : Rank(s, S, i) = n]
           g == Filter(s, S)
<1>1. c \in Nat /\ g \in Seq(T)
  BY PlacesFinite, FilterFacts
<1>2. \A n \in 1 .. c : pos[n] \in Places(s, S) /\ Rank(s, S, pos[n]) = n
  BY RankSurjective
<1>3. g = [n \in 1 .. c |-> s[pos[n]]]
  BY DEF Filter
<1> HIDE DEF pos, g, c
<1>4. Len(g) = c
  <2>1. DOMAIN g = 1 .. c
    BY <1>3
  <2> QED BY <1>1, <2>1
<1>5. ASSUME NEW i \in Places(s, S)
      PROVE  Rank(s, S, i) \in 1 .. c /\ g[Rank(s, S, i)] = s[i]
  <2>1. Rank(s, S, i) \in 1 .. c
    BY UptoFacts DEF c
  <2>2. pos[Rank(s, S, i)] = i
    BY <1>2, <2>1, RankInjective
  <2> QED BY <1>3, <2>1, <2>2
<1>6. \A n \in 1 .. c : \E i \in Places(s, S) : Rank(s, S, i) = n /\ g[n] = s[i]
  BY <1>2, <1>3
<1> QED BY <1>1, <1>4, <1>5, <1>6 DEF g, c

\* Nothing is filtered out when everything stays.
LEMMA FilterAll ==
    ASSUME NEW T, NEW s \in Seq(T), NEW S, \A i \in 1 .. Len(s) : s[i] \in S
    PROVE  Filter(s, S) = s
<1>1. Places(s, S) = 1 .. Len(s) /\ Len(s) \in Nat
  BY DEF Places
<1>2. Cardinality(Places(s, S)) = Len(s)
  BY <1>1, IntervalCardinality
<1>3. ASSUME NEW i \in 1 .. Len(s) PROVE Rank(s, S, i) = i
  <2>1. i \in Int /\ 1 \in Int /\ i >= 1 /\ i <= Len(s)
    BY <1>1
  <2>2. {j \in Places(s, S) : j <= i} = 1 .. i
    BY <1>1, <2>1
  <2>3. Cardinality(1 .. i) = i
    <3>1. Cardinality(1 .. i) = i - 1 + 1
      BY <2>1, IntervalCardinality
    <3> QED BY <2>1, <3>1
  <2> QED BY <2>2, <2>3 DEF Rank
<1>4. Filter(s, S) \in Seq(T) /\ Len(Filter(s, S)) = Len(s)
  BY <1>2, FilterAtRank
<1>5. \A i \in 1 .. Len(s) : Filter(s, S)[i] = s[i]
  BY <1>1, <1>3, FilterAtRank
<1> QED BY <1>4, <1>5

\* What is appended goes to the end of what the filter keeps.
LEMMA FilterAppend ==
    ASSUME NEW T, NEW s \in Seq(T), NEW e \in T, NEW S
    PROVE  /\ Len(Filter(s, S)) <= Len(Filter(Append(s, e), S))
           /\ \A n \in 1 .. Len(Filter(s, S)) : Filter(Append(s, e), S)[n] = Filter(s, S)[n]
           /\ \A n \in 0 .. Len(s) : Rank(Append(s, e), S, n) = Rank(s, S, n)
<1> DEFINE a == Append(s, e)
<1>1. /\ a \in Seq(T) /\ Len(a) = Len(s) + 1 /\ Len(s) \in Nat
      /\ \A i \in 1 .. Len(s) : a[i] = s[i]
  OBVIOUS
<1> HIDE DEF a
<1>2. ASSUME NEW n \in 0 .. Len(s) PROVE Rank(a, S, n) = Rank(s, S, n)
  <2>1. \A j : j \in Places(a, S) /\ j <= n <=> j \in Places(s, S) /\ j <= n
    <3> SUFFICES ASSUME NEW j
                 PROVE  j \in Places(a, S) /\ j <= n <=> j \in Places(s, S) /\ j <= n
      OBVIOUS
    <3>1. j \in 1 .. Len(a) /\ j <= n <=> j \in 1 .. Len(s) /\ j <= n
      BY <1>1
    <3> QED BY <1>1, <3>1 DEF Places
  <2>2. {j \in Places(a, S) : j <= n} = {j \in Places(s, S) : j <= n}
    BY <2>1
  <2> QED BY <2>2 DEF Rank
<1>3. Places(s, S) \subseteq Places(a, S)
  BY <1>1 DEF Places
<1>4. Cardinality(Places(s, S)) <= Cardinality(Places(a, S))
  BY <1>1, <1>3, PlacesFinite, FS_Subset
<1>5. Len(Filter(s, S)) <= Len(Filter(a, S))
  BY <1>1, <1>4, FilterAtRank
<1>6. ASSUME NEW n \in 1 .. Len(Filter(s, S)) PROVE Filter(a, S)[n] = Filter(s, S)[n]
  <2>1. PICK i \in Places(s, S) : Rank(s, S, i) = n /\ Filter(s, S)[n] = s[i]
    BY FilterAtRank
  <2>2. i \in Places(a, S) /\ i \in 1 .. Len(s) /\ i \in 0 .. Len(s)
    BY <1>3 DEF Places
  <2>3. Filter(a, S)[Rank(a, S, i)] = a[i]
    BY <1>1, <2>2, FilterAtRank
  <2> QED BY <1>1, <1>2, <2>1, <2>2, <2>3
<1> QED BY <1>2, <1>5, <1>6 DEF a

-----------------------------------------------------------------------------
(* Sequences of numbers, joined and split.                                 *)

LEMMA ConcatNat ==
    ASSUME NEW s \in Seq(Nat), NEW t \in Seq(Nat)
    PROVE  /\ s \o t \in Seq(Nat) /\ Len(s \o t) = Len(s) + Len(t)
           /\ Len(s) \in Nat /\ Len(t) \in Nat
           /\ \A i \in 1 .. Len(s) : (s \o t)[i] = s[i]
           /\ \A i \in 1 .. Len(t) : (s \o t)[Len(s) + i] = t[i]
OBVIOUS

LEMMA ConcatAssocNat ==
    ASSUME NEW s \in Seq(Nat), NEW t \in Seq(Nat), NEW u \in Seq(Nat)
    PROVE  s \o (t \o u) = (s \o t) \o u
<1>1. PICK a, b, c, d : a = s \o t /\ b = t \o u /\ c = a \o u /\ d = s \o b
  OBVIOUS
<1>2. PICK k, l, m : k = Len(s) /\ l = Len(t) /\ m = Len(u)
  OBVIOUS
<1>3. /\ a \in Seq(Nat) /\ Len(a) = k + l /\ k \in Nat /\ l \in Nat
      /\ \A i \in 1 .. k : a[i] = s[i]
      /\ \A i \in 1 .. l : a[k + i] = t[i]
  BY <1>1, <1>2, ConcatNat
<1>4. /\ b \in Seq(Nat) /\ Len(b) = l + m /\ m \in Nat
      /\ \A i \in 1 .. l : b[i] = t[i]
      /\ \A i \in 1 .. m : b[l + i] = u[i]
  BY <1>1, <1>2, ConcatNat
<1>5. /\ c \in Seq(Nat) /\ Len(c) = k + l + m
      /\ \A i \in 1 .. k + l : c[i] = a[i]
      /\ \A i \in 1 .. m : c[k + l + i] = u[i]
  <2>1. /\ c \in Seq(Nat) /\ Len(c) = Len(a) + Len(u)
        /\ \A i \in 1 .. Len(a) : c[i] = a[i]
        /\ \A i \in 1 .. Len(u) : c[Len(a) + i] = u[i]
    <3>1. c = a \o u
      BY <1>1
    <3> QED BY <1>3, <3>1, ConcatNat
  <2> QED BY <1>2, <1>3, <2>1
<1>6. /\ d \in Seq(Nat) /\ Len(d) = k + (l + m)
      /\ \A i \in 1 .. k : d[i] = s[i]
      /\ \A i \in 1 .. l + m : d[k + i] = b[i]
  <2>1. /\ d \in Seq(Nat) /\ Len(d) = Len(s) + Len(b)
        /\ \A i \in 1 .. Len(s) : d[i] = s[i]
        /\ \A i \in 1 .. Len(b) : d[Len(s) + i] = b[i]
    <3>1. d = s \o b
      BY <1>1
    <3> QED BY <1>4, <3>1, ConcatNat
  <2> QED BY <1>2, <1>4, <2>1
<1>7. ASSUME NEW i \in 1 .. Len(c) PROVE c[i] = d[i]
  <2>0. i \in 1 .. k + l + m
    BY <1>5
  <2>1. CASE i <= k
    <3>1. i \in 1 .. k /\ i \in 1 .. k + l
      BY <1>3, <2>0, <2>1
    <3> QED BY <1>3, <1>5, <1>6, <3>1
  <2>2. CASE i > k /\ i <= k + l
    <3>1. PICK j : j = i - k
      OBVIOUS
    <3>2. j \in 1 .. l /\ j \in 1 .. l + m /\ i = k + j /\ i \in 1 .. k + l
      BY <1>3, <1>4, <2>0, <2>2, <3>1
    <3>3. c[i] = t[j]
      BY <1>3, <1>5, <3>2
    <3>4. d[i] = t[j]
      BY <1>4, <1>6, <3>2
    <3> QED BY <3>3, <3>4
  <2>3. CASE i > k + l
    <3>1. PICK j : j = i - (k + l)
      OBVIOUS
    <3>2. j \in 1 .. m /\ i = k + l + j
      BY <1>3, <1>4, <2>0, <2>3, <3>1
    <3>3. l + j \in 1 .. l + m /\ i = k + (l + j)
      BY <1>3, <1>4, <3>2
    <3>4. c[i] = u[j]
      BY <1>5, <3>2
    <3>5. d[i] = u[j]
      BY <1>4, <1>6, <3>2, <3>3
    <3> QED BY <3>4, <3>5
  <2> QED BY <1>3, <2>0, <2>1, <2>2, <2>3
<1>8. Len(c) = Len(d)
  BY <1>3, <1>4, <1>5, <1>6
<1>9. c = d
  BY <1>5, <1>6, <1>7, <1>8, SeqEqual
<1> QED BY <1>1, <1>9

LEMMA SplitNat ==
    ASSUME NEW s \in Seq(Nat), NEW k \in 0 .. Len(s)
    PROVE  /\ SubSeq(s, 1, k) \in Seq(Nat) /\ Len(SubSeq(s, 1, k)) = k
           /\ SubSeq(s, k + 1, Len(s)) \in Seq(Nat) /\ Len(SubSeq(s, k + 1, Len(s))) = Len(s) - k
           /\ \A i \in 1 .. k : SubSeq(s, 1, k)[i] = s[i]
           /\ \A i \in 1 .. Len(s) - k : SubSeq(s, k + 1, Len(s))[i] = s[k + i]
           /\ s = SubSeq(s, 1, k) \o SubSeq(s, k + 1, Len(s))
<1> DEFINE a == SubSeq(s, 1, k)
           b == SubSeq(s, k + 1, Len(s))
<1>1. /\ a \in Seq(Nat) /\ Len(a) = k /\ b \in Seq(Nat) /\ Len(b) = Len(s) - k
      /\ \A i \in 1 .. k : a[i] = s[i]
      /\ \A i \in 1 .. Len(s) - k : b[i] = s[k + i]
      /\ k \in Nat /\ Len(s) \in Nat /\ k <= Len(s)
  <2>1. k \in Nat /\ Len(s) \in Nat /\ k <= Len(s)
    OBVIOUS
  <2>2. a \in Seq(Nat) /\ Len(a) = k /\ \A i \in 1 .. k : a[i] = s[i]
    OBVIOUS
  <2>3. b \in Seq(Nat) /\ Len(b) = Len(s) - k
    <3>1. k + 1 \in 1 .. Len(s) + 1 /\ Len(s) \in k .. Len(s)
      BY <2>1
    <3>2. \A i \in k + 1 .. Len(s) : s[i] \in Nat
      BY <2>1
    <3>3. k + 1 \in Int /\ Len(s) \in Int
      BY <2>1
    <3>4. /\ b \in Seq(Nat)
          /\ Len(b) = IF k + 1 <= Len(s) THEN Len(s) - (k + 1) + 1 ELSE 0
      BY <3>2, <3>3, SubSeqProperties
    <3> HIDE DEF b
    <3> QED BY <2>1, <3>4
  <2>4. \A i \in 1 .. Len(s) - k : b[i] = s[k + i]
    BY <2>1
  <2> QED BY <2>1, <2>2, <2>3, <2>4
<1> HIDE DEF a, b
<1>2. PICK c : c = a \o b
  OBVIOUS
<1>3. /\ c \in Seq(Nat) /\ Len(c) = Len(a) + Len(b)
      /\ \A i \in 1 .. Len(a) : c[i] = a[i]
      /\ \A i \in 1 .. Len(b) : c[Len(a) + i] = b[i]
  BY <1>1, <1>2, ConcatNat
<1>4. Len(c) = Len(s)
  BY <1>1, <1>3
<1>5. ASSUME NEW i \in 1 .. Len(s) PROVE c[i] = s[i]
  <2>1. CASE i <= k
    <3>1. i \in 1 .. Len(a) /\ i \in 1 .. k
      BY <1>1, <2>1
    <3> QED BY <1>1, <1>3, <3>1
  <2>2. CASE ~ (i <= k)
    <3>1. PICK j : j = i - k
      OBVIOUS
    <3>2. j \in 1 .. Len(b) /\ j \in 1 .. Len(s) - k /\ i = k + j
      BY <1>1, <2>2, <3>1
    <3> QED BY <1>1, <1>3, <3>2
  <2> QED BY <2>1, <2>2
<1>6. s = c
  BY <1>3, <1>4, <1>5, SeqEqual
<1> QED BY <1>1, <1>2, <1>6 DEF a, b

-----------------------------------------------------------------------------
(* Sums over finite sets.                                                  *)

Total(w, S) == MapThenSumSet(LAMBDA x : w[x], S)

\* The element MapThenSumSet takes first, and the partial sums it computes.
First(s) == CHOOSE x \in s : TRUE
Sums(g, w, S) ==
    \A s \in SUBSET S : g[s] = IF s = {} THEN 0 ELSE w[First(s)] + g[s \ {First(s)}]

\* A property of the subsets of a finite set holds if it holds of each that has
\* it for all its proper subsets: otherwise a least one would be without it.
LEMMA LeastSubset ==
    ASSUME NEW S, IsFiniteSet(S), NEW B \in SUBSET SUBSET S, B # {}
    PROVE  \E s \in B : \A t \in SUBSET s : t # s => t \notin B
<1> DEFINE C == {Cardinality(s) : s \in B}
<1>1. \A s \in SUBSET S : IsFiniteSet(s) /\ Cardinality(s) \in Nat
  BY FS_Subset, FS_CardinalityType
<1>2. PICK m \in C : \A c \in C : m <= c
  <2>1. C \in SUBSET Nat /\ C # {}
    BY <1>1
  <2> HIDE DEF C
  <2> QED BY <2>1, LeastExists
<1>3. PICK s \in B : m = Cardinality(s)
  OBVIOUS
<1>4. ASSUME NEW t \in SUBSET s, t # s PROVE t \notin B
  <2>1. IsFiniteSet(s) /\ Cardinality(t) \in Nat /\ Cardinality(s) \in Nat
    BY <1>1
  <2>2. Cardinality(t) <= Cardinality(s) /\ Cardinality(t) # Cardinality(s)
    BY <1>4, <2>1, FS_Subset
  <2>3. ASSUME t \in B PROVE FALSE
    BY <1>2, <1>3, <2>1, <2>2, <2>3
  <2> QED BY <2>3
<1> QED BY <1>4

LEMMA FirstIn == ASSUME NEW s, s # {} PROVE First(s) \in s /\ s \ {First(s)} # s
BY DEF First

\* The subsets that are no larger than m, and the partial sums over them.
Small(S, m) == {s \in SUBSET S : Cardinality(s) <= m}
SmallSums(g, w, S, m) ==
    g = [s \in Small(S, m) |-> IF s = {} THEN 0 ELSE w[First(s)] + g[s \ {First(s)}]]

LEMMA SmallFacts ==
    ASSUME NEW S, IsFiniteSet(S), NEW m \in Nat, NEW s \in Small(S, m)
    PROVE  /\ s \in Small(S, m + 1)
           /\ s # {} => m > 0 /\ s \ {First(s)} \in Small(S, m - 1) /\ s \ {First(s)} \in Small(S, m)
<1>1. /\ s \in SUBSET S /\ IsFiniteSet(s) /\ Cardinality(s) \in Nat /\ Cardinality(s) <= m
  BY FS_Subset, FS_CardinalityType DEF Small
<1>2. s \in Small(S, m + 1)
  BY <1>1 DEF Small
<1>3. ASSUME s # {}
      PROVE  m > 0 /\ s \ {First(s)} \in Small(S, m - 1) /\ s \ {First(s)} \in Small(S, m)
  <2>1. First(s) \in s
    BY <1>3, FirstIn
  <2>2. Cardinality(s \ {First(s)}) = Cardinality(s) - 1
    BY <1>1, <2>1, FS_RemoveElement
  <2>3. Cardinality(s) # 0
    BY <1>1, <1>3, FS_EmptySet
  <2>4. s \ {First(s)} \in SUBSET S
    BY <1>1
  <2> HIDE DEF First
  <2> QED BY <1>1, <2>2, <2>3, <2>4 DEF Small
<1> QED BY <1>2, <1>3

LEMMA SmallSumsExist ==
    ASSUME NEW S, IsFiniteSet(S), NEW w, NEW n \in Nat
    PROVE  \E g : SmallSums(g, w, S, n)
<1> DEFINE Bad == {m \in Nat : ~ \E g : SmallSums(g, w, S, m)}
<1> SUFFICES ASSUME Bad # {} PROVE FALSE
  OBVIOUS
<1>1. PICK m \in Bad : \A b \in Bad : m <= b
  <2>1. Bad \in SUBSET Nat
    OBVIOUS
  <2> HIDE DEF Bad
  <2> QED BY <2>1, LeastExists
<1>2. CASE m = 0
  <2> DEFINE g == [s \in Small(S, m) |-> 0]
  <2>1. \A s \in Small(S, m) : s = {}
    <3> SUFFICES ASSUME NEW s \in Small(S, m), s # {} PROVE FALSE
      OBVIOUS
    <3>1. m \in Nat /\ ~ (m > 0)
      BY <1>2
    <3>2. m > 0
      BY <3>1, SmallFacts
    <3> QED BY <3>1, <3>2
  <2>2. SmallSums(g, w, S, m)
    BY <2>1 DEF SmallSums
  <2> QED BY <1>1, <2>2
<1>3. CASE m # 0
  <2>1. m - 1 \in Nat /\ m - 1 + 1 = m /\ ~ (m <= m - 1)
    BY <1>1, <1>3
  <2>2. PICK k \in Nat : k = m - 1 /\ k + 1 = m
    BY <2>1
  <2>3. PICK g : SmallSums(g, w, S, k)
    BY <1>1, <2>1, <2>2
  <2> DEFINE V(f, s) == IF s = {} THEN 0 ELSE w[First(s)] + f[s \ {First(s)}]
  <2> DEFINE h == [s \in Small(S, m) |-> V(g, s)]
  <2>4. \A s \in Small(S, k) : s \in Small(S, m) /\ g[s] = V(g, s)
    BY <2>2, <2>3, SmallFacts DEF SmallSums
  <2>5. \A s \in Small(S, k) : h[s] = g[s]
    BY <2>4
  <2>6. \A s \in Small(S, m) : s # {} => s \ {First(s)} \in Small(S, k)
    BY <1>1, <2>2, SmallFacts
  <2>7. \A s \in Small(S, m) : V(g, s) = V(h, s)
    BY <2>5, <2>6
  <2>8. h = [s \in Small(S, m) |-> V(h, s)]
    BY <2>7
  <2>9. SmallSums(h, w, S, m)
    BY <2>8 DEF SmallSums
  <2> QED BY <1>1, <2>9
<1> QED BY <1>2, <1>3

LEMMA TotalSums ==
    ASSUME NEW S, IsFiniteSet(S), NEW w
    PROVE  \E g : Sums(g, w, S) /\ Total(w, S) = g[S]
<1>1. Small(S, Cardinality(S)) = SUBSET S /\ Cardinality(S) \in Nat
  <2>1. Cardinality(S) \in Nat
    BY FS_CardinalityType
  <2>2. \A s \in SUBSET S : Cardinality(s) <= Cardinality(S)
    BY FS_Subset
  <2> QED BY <2>1, <2>2 DEF Small
<1> DEFINE Rec(g) == g = [s \in SUBSET S |-> IF s = {} THEN 0 ELSE w[First(s)] + g[s \ {First(s)}]]
<1> DEFINE g == CHOOSE g : Rec(g)
<1>2. Rec(g)
  <2>1. PICK f : SmallSums(f, w, S, Cardinality(S))
    BY <1>1, SmallSumsExist
  <2>2. Rec(f)
    BY <1>1, <2>1 DEF SmallSums
  <2> QED BY <2>2
<1>3. Total(w, S) = g[S]
  BY DEF Total, MapThenSumSet, MapThenFoldSet, First
<1> HIDE DEF g
<1>4. Sums(g, w, S)
  BY <1>2 DEF Sums
<1> QED BY <1>3, <1>4

\* A sum is a natural number, does not depend on the order of summation, and is
\* the same within a larger set.
LEMMA SumsNat ==
    ASSUME NEW S, IsFiniteSet(S), NEW w \in [S -> Nat], NEW g, Sums(g, w, S)
    PROVE  \A s \in SUBSET S : g[s] \in Nat
<1> DEFINE B == {s \in SUBSET S : g[s] \notin Nat}
<1> SUFFICES ASSUME B # {} PROVE FALSE
  OBVIOUS
<1>1. PICK s \in B : \A t \in SUBSET s : t # s => t \notin B
  <2> HIDE DEF B
  <2>1. B \in SUBSET SUBSET S
    BY DEF B
  <2> QED BY <2>1, LeastSubset
<1>2. s \in SUBSET S /\ g[s] \notin Nat /\ g[s] = IF s = {} THEN 0 ELSE w[First(s)] + g[s \ {First(s)}]
  BY DEF Sums
<1>3. CASE s # {}
  <2>1. First(s) \in s /\ s \ {First(s)} # s
    BY <1>3, FirstIn
  <2>2. PICK r \in SUBSET s : r = s \ {First(s)}
    OBVIOUS
  <2>3. g[r] \in Nat
    BY <1>1, <1>2, <2>1, <2>2
  <2>4. w[First(s)] \in Nat
    BY <1>2, <2>1
  <2> QED BY <1>2, <1>3, <2>2, <2>3, <2>4
<1> QED BY <1>2, <1>3

LEMMA SumsRemove ==
    ASSUME NEW S, IsFiniteSet(S), NEW w \in [S -> Nat], NEW g, Sums(g, w, S)
    PROVE  \A s \in SUBSET S : \A x \in s : g[s] = w[x] + g[s \ {x}]
<1> DEFINE B == {s \in SUBSET S : \E x \in s : g[s] # w[x] + g[s \ {x}]}
<1> SUFFICES ASSUME B # {} PROVE FALSE
  OBVIOUS
<1>1. PICK s \in B : \A t \in SUBSET s : t # s => t \notin B
  <2> HIDE DEF B
  <2>1. B \in SUBSET SUBSET S
    BY DEF B
  <2> QED BY <2>1, LeastSubset
<1>2. PICK x \in s : g[s] # w[x] + g[s \ {x}]
  OBVIOUS
<1>3. PICK c : c = First(s)
  OBVIOUS
<1>4. c \in s /\ s \in SUBSET S /\ g[s] = w[c] + g[s \ {c}]
  BY <1>2, <1>3, FirstIn DEF Sums
<1>5. c # x
  BY <1>2, <1>4
<1>6. g[s \ {c}] = w[x] + g[(s \ {c}) \ {x}]
  BY <1>1, <1>4, <1>5
<1>7. g[s \ {x}] = w[c] + g[(s \ {x}) \ {c}]
  BY <1>1, <1>2, <1>4, <1>5
<1>8. (s \ {c}) \ {x} = (s \ {x}) \ {c}
  OBVIOUS
<1>9. w[x] \in Nat /\ w[c] \in Nat /\ g[(s \ {x}) \ {c}] \in Nat
  BY <1>4, SumsNat
<1>10. PICK a, b, z \in Nat : a = w[x] /\ b = w[c] /\ z = g[(s \ {x}) \ {c}]
  BY <1>9
<1>11. g[s] = b + (a + z) /\ w[x] + g[s \ {x}] = a + (b + z)
  BY <1>4, <1>6, <1>7, <1>8, <1>10
<1>12. b + (a + z) = a + (b + z)
  BY <1>10
<1> QED BY <1>2, <1>11, <1>12

LEMMA SumsAgree ==
    ASSUME NEW S, IsFiniteSet(S), NEW T \in SUBSET S, NEW w, NEW g, Sums(g, w, S),
           NEW h, Sums(h, w, T)
    PROVE  g[T] = h[T]
<1> DEFINE B == {s \in SUBSET T : g[s] # h[s]}
<1> SUFFICES ASSUME B # {} PROVE FALSE
  OBVIOUS
<1>1. PICK s \in B : \A t \in SUBSET s : t # s => t \notin B
  <2> HIDE DEF B
  <2>1. B \in SUBSET SUBSET S
    BY DEF B
  <2> QED BY <2>1, LeastSubset
<1>2. /\ g[s] = IF s = {} THEN 0 ELSE w[First(s)] + g[s \ {First(s)}]
      /\ h[s] = IF s = {} THEN 0 ELSE w[First(s)] + h[s \ {First(s)}]
  BY DEF Sums
<1>3. s # {} => g[s \ {First(s)}] = h[s \ {First(s)}]
  BY <1>1, FirstIn
<1> QED BY <1>2, <1>3

LEMMA TotalFacts ==
    ASSUME NEW S, IsFiniteSet(S), NEW w \in [S -> Nat]
    PROVE  /\ Total(w, {}) = 0
           /\ \A T \in SUBSET S : Total(w, T) \in Nat
           /\ \A T \in SUBSET S : \A x \in T : Total(w, T) = w[x] + Total(w, T \ {x})
<1>1. PICK g : Sums(g, w, S)
  BY TotalSums
<1>2. \A T \in SUBSET S : Total(w, T) = g[T]
  <2> SUFFICES ASSUME NEW T \in SUBSET S PROVE Total(w, T) = g[T]
    OBVIOUS
  <2>1. IsFiniteSet(T)
    BY FS_Subset
  <2>2. PICK h : Sums(h, w, T) /\ Total(w, T) = h[T]
    BY <2>1, TotalSums
  <2> QED BY <1>1, <2>2, SumsAgree
<1>3. g[{}] = 0
  BY <1>1 DEF Sums
<1>4. \A T \in SUBSET S : g[T] \in Nat
  BY <1>1, SumsNat
<1>5. ASSUME NEW T \in SUBSET S, NEW x \in T PROVE g[T] = w[x] + g[T \ {x}]
  BY <1>1, SumsRemove
<1> QED BY <1>2, <1>3, <1>4, <1>5

LEMMA TotalAdd ==
    ASSUME NEW S, IsFiniteSet(S), NEW w \in [S -> Nat], NEW T \in SUBSET S, NEW x \in S \ T
    PROVE  Total(w, T \cup {x}) = Total(w, T) + w[x]
<1>1. (T \cup {x}) \ {x} = T /\ T \cup {x} \in SUBSET S /\ x \in T \cup {x}
  OBVIOUS
<1>2. Total(w, T \cup {x}) = w[x] + Total(w, T)
  BY <1>1, TotalFacts
<1>3. w[x] \in Nat /\ Total(w, T) \in Nat
  BY TotalFacts
<1> QED BY <1>2, <1>3

LEMMA TotalGrows ==
    ASSUME NEW S, IsFiniteSet(S), NEW w \in [S -> Nat]
    PROVE  \A U \in SUBSET S : \A V \in SUBSET U : Total(w, V) <= Total(w, U)
<1> DEFINE B == {U \in SUBSET S : \E V \in SUBSET U : ~ (Total(w, V) <= Total(w, U))}
<1> SUFFICES ASSUME B # {} PROVE FALSE
  OBVIOUS
<1>1. PICK U \in B : \A t \in SUBSET U : t # U => t \notin B
  <2> HIDE DEF B
  <2>1. B \in SUBSET SUBSET S
    BY DEF B
  <2> QED BY <2>1, LeastSubset
<1>2. PICK V \in SUBSET U : ~ (Total(w, V) <= Total(w, U))
  OBVIOUS
<1>3. Total(w, V) \in Nat /\ Total(w, U) \in Nat
  BY TotalFacts
<1>4. PICK x \in U : x \notin V
  BY <1>2, <1>3
<1>5. PICK R \in SUBSET U : R = U \ {x}
  OBVIOUS
<1>6. Total(w, V) <= Total(w, R)
  BY <1>1, <1>4, <1>5
<1>7. Total(w, U) = w[x] + Total(w, R) /\ w[x] \in Nat /\ Total(w, R) \in Nat
  BY <1>5, TotalFacts
<1> QED BY <1>2, <1>3, <1>6, <1>7
=============================================================================
