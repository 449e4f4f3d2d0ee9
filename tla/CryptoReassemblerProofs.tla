---------------------- MODULE CryptoReassemblerProofs ----------------------
(***************************************************************************)
(* Proofs about the reassembler: whatever fragments are added to it, in    *)
(* whatever order, its contiguous data is the beginning of the stream.     *)
(* What the walks over its fragments compute is shown by induction over    *)
(* the order of the map, a set of indices at a time (Upwards).             *)
(***************************************************************************)
EXTENDS CryptoReassembler, FiniteSetTheorems, SequenceTheorems, TLAPS

-----------------------------------------------------------------------------
(* Induction over data, by a least counterexample *)

\* A set of naturals that is not empty has a least element.
LEMMA LeastElement ==
  ASSUME NEW T, T \subseteq Nat, T # {}
  PROVE  \E m \in T : \A k \in T : m <= k
<1>1. PICK m \in T : \A k \in T : ~(<<k, m>> \in OpToRel(<, Nat))
  BY NatLessThanWellFounded, WFMin
<1>2. ASSUME NEW k \in T PROVE m <= k
  <2>1. m \in Nat /\ k \in Nat
    OBVIOUS
  <2>2. k < m => <<k, m>> \in OpToRel(<, Nat)
    BY <2>1, Zenon DEF OpToRel
  <2>3. ~(k < m)
    BY <1>1, <2>2
  <2> QED
    BY <2>1, <2>3
<1> QED
  BY <1>2

\* What holds of 0 and of every number whose predecessor it holds of.
LEMMA Upwards ==
  ASSUME NEW n \in Nat, NEW P \in SUBSET (0..n), 0 \in P,
         \A i \in 1..n : i - 1 \in P => i \in P
  PROVE  P = 0..n
<1> DEFINE T == (0..n) \ P
<1>1. T = {}
  <2> SUFFICES ASSUME T # {} PROVE FALSE
    OBVIOUS
  <2>0. T \subseteq Nat
    OBVIOUS
  <2>1. PICK m \in T : \A k \in T : m <= k
    <3> HIDE DEF T
    <3> QED
      BY <2>0, LeastElement
  <2>2. m \in 0..n /\ m \notin P /\ m # 0
    OBVIOUS
  <2>3. m \in 1..n /\ m - 1 \in 0..n /\ ~(m <= m - 1)
    BY <2>2
  <2>4. m - 1 \in P
    <3>1. m - 1 \notin T
      <4> HIDE DEF T
      <4> QED
        BY <2>1, <2>3
    <3> QED
      BY <2>3, <3>1
  <2> QED
    BY <2>2, <2>3, <2>4
<1> QED
  BY <1>1

\* The values of a recursion over n steps, each a function on V.
Recursion(a, n, V, base, step) ==
  a \in [0..n -> V] /\ a[0] = base /\ \A i \in 1..n : a[i] = step[i][a[i - 1]]

\* A recursion over a sequence of steps, each a function on V, defines a function.
LEMMA StepsDefined ==
  ASSUME NEW n \in Nat, NEW V, NEW base \in V, NEW step \in [1..n -> [V -> V]]
  PROVE  \E a : Recursion(a, n, V, base, step)
<1> DEFINE Upto(m, a) == Recursion(a, m, V, base, step)
           P == {m \in 0..n : \E a : Upto(m, a)}
<1>1. 0 \in P
  <2> DEFINE a == [i \in 0..0 |-> base]
  <2>1. Upto(0, a)
    BY DEF Recursion
  <2>2. \E e : Upto(0, e)
    <3> HIDE DEF Upto
    <3> QED
      BY <2>1
  <2> QED
    BY <2>2
<1>2. ASSUME NEW m \in 1..n, m - 1 \in P PROVE m \in P
  <2>1. PICK a : Upto(m - 1, a)
    BY <1>2
  <2> DEFINE v == step[m][a[m - 1]]
             b == [i \in 0..m |-> IF i = m THEN v ELSE a[i]]
  <2>2. m - 1 \in 0..(m - 1) /\ a \in [0..(m - 1) -> V] /\ a[0] = base
        /\ \A i \in 1..(m - 1) : a[i] = step[i][a[i - 1]]
    BY <2>1 DEF Recursion
  <2>3. v \in V
    BY <2>2
  <2> HIDE DEF v
  <2>4. b \in [0..m -> V]
    BY <2>2, <2>3
  <2>5. b[0] = base
    BY <2>2
  <2>6. ASSUME NEW i \in 1..m PROVE b[i] = step[i][b[i - 1]]
    <3>1. b[i - 1] = a[i - 1]
      OBVIOUS
    <3>2. CASE i = m
      BY <3>1, <3>2 DEF v
    <3>3. CASE i # m
      <4>1. i \in 1..(m - 1) /\ b[i] = a[i]
        BY <3>3
      <4> QED
        BY <2>2, <3>1, <4>1
    <3> QED
      BY <3>2, <3>3
  <2>7. Upto(m, b)
    BY <2>4, <2>5, <2>6 DEF Recursion
  <2>8. \E e : Upto(m, e)
    <3> HIDE DEF Upto
    <3> QED
      BY <2>7
  <2>9. m \in 0..n
    OBVIOUS
  <2> QED
    BY <2>8, <2>9, Zenon
<1>3. P = 0..n
  <2> HIDE DEF P
  <2>1. P \in SUBSET (0..n)
    BY DEF P
  <2> QED
    BY <1>1, <1>2, <2>1, Upwards
<1>4. n \in P
  <2> HIDE DEF P
  <2> QED
    BY <1>3
<1> QED
  BY <1>4, Zenon

-----------------------------------------------------------------------------
(* Fragments *)

Fragments == {Fragment(offset, len) : offset \in Nat, len \in Nat \ {0}}

(* The bytes that a set of fragments covers.                               *)
CoveredBy(F) == UNION {f.offset..(FragEnd(f) - 1) : f \in F}

(* What a BTreeMap keeps, and what add_fragment keeps besides.             *)
Keyed(F) == \A f, g \in F : f.offset = g.offset => f = g
Disjoint(F) == \A f, g \in F : f # g => ~Overlaps(f, g)

LEMMA FragmentOf ==
  ASSUME NEW f \in Fragments
  PROVE  /\ f.offset \in Nat /\ f.data \in Seq(Nat) /\ Len(f.data) \in Nat \ {0}
         /\ FragEnd(f) \in Nat /\ FragEnd(f) = f.offset + Len(f.data)
         /\ \A i \in 1..Len(f.data) : f.data[i] = f.offset + i - 1
<1>1. PICK offset \in Nat, len \in Nat \ {0} : f = Fragment(offset, len)
  BY DEF Fragments
<1> DEFINE d == [i \in 1..len |-> offset + i - 1]
<1>2. f.offset = offset /\ f.data = d
  BY <1>1 DEF Fragment
<1>3. d \in Seq(Nat) /\ Len(d) = len /\ \A i \in 1..len : d[i] = offset + i - 1
  OBVIOUS
<1> QED
  BY <1>2, <1>3 DEF FragEnd

LEMMA DisjointIsKeyed ==
  ASSUME NEW F \in SUBSET Fragments, Disjoint(F)
  PROVE  Keyed(F)
<1> SUFFICES ASSUME NEW f \in F, NEW g \in F, f.offset = g.offset, f # g
             PROVE  Overlaps(f, g)
  BY DEF Keyed, Disjoint
<1> QED
  BY FragmentOf DEF Overlaps

-----------------------------------------------------------------------------
(* The order of the map *)

Ascending(s, F) ==
  LET Index == 1..Cardinality(F) IN
  s \in [Index -> F] /\ \A i, j \in Index : i < j => s[i].offset < s[j].offset

\* Of finitely many fragments one begins last.
LEMMA LastFragment ==
  ASSUME NEW n \in Nat, NEW F \in SUBSET Fragments, IsFiniteSet(F), Cardinality(F) = n, n # 0
  PROVE  \E m \in F : \A f \in F : f.offset <= m.offset
<1> DEFINE Good(G) == \E m \in G : \A f \in G : f.offset <= m.offset
           P == {k \in 0..n : \A G \in SUBSET Fragments :
                   IsFiniteSet(G) /\ Cardinality(G) = k /\ k # 0 => Good(G)}
<1>1. 0 \in P
  OBVIOUS
<1>2. ASSUME NEW k \in 1..n, k - 1 \in P PROVE k \in P
  <2> SUFFICES ASSUME NEW G \in SUBSET Fragments, IsFiniteSet(G), Cardinality(G) = k
               PROVE  Good(G)
    BY <1>2
  <2>1. G # {}
    BY <1>2, FS_EmptySet
  <2>2. PICK x \in G : TRUE
    BY <2>1
  <2> DEFINE H == G \ {x}
  <2>3. IsFiniteSet(H) /\ Cardinality(H) = k - 1 /\ H \in SUBSET Fragments
    BY FS_RemoveElement
  <2>4. \A f \in G : f.offset \in Nat
    BY FragmentOf
  <2>5. CASE k = 1
    <3>1. H = {}
      BY <2>3, <2>5, FS_EmptySet
    <3>2. \A f \in G : f = x
      BY <3>1
    <3> QED
      BY <2>4, <3>2
  <2>6. CASE k # 1
    <3>1. Good(H)
      BY <1>2, <2>3, <2>6
    <3>2. PICK m \in H : \A f \in H : f.offset <= m.offset
      BY <3>1
    <3>3. CASE x.offset <= m.offset
      <4>1. \A f \in G : f.offset <= m.offset
        BY <3>2, <3>3
      <4> QED
        BY <4>1
    <3>4. CASE ~(x.offset <= m.offset)
      <4>1. \A f \in G : f.offset <= x.offset
        BY <2>4, <3>2, <3>4
      <4> QED
        BY <4>1
    <3> QED
      BY <3>3, <3>4
  <2> QED
    BY <2>5, <2>6
<1>3. P = 0..n
  <2> HIDE DEF P
  <2>1. P \in SUBSET (0..n)
    BY DEF P
  <2> QED
    BY <1>1, <1>2, <2>1, Upwards
<1>4. n \in P
  BY <1>3
<1> QED
  BY <1>4

LEMMA OrderExists ==
  ASSUME NEW n \in Nat, NEW F \in SUBSET Fragments, IsFiniteSet(F), Cardinality(F) = n, Keyed(F)
  PROVE  \E s : Ascending(s, F)
<1> DEFINE P == {k \in 0..n : \A G \in SUBSET Fragments :
                   IsFiniteSet(G) /\ Cardinality(G) = k /\ Keyed(G) => \E s : Ascending(s, G)}
<1>1. 0 \in P
  <2> SUFFICES ASSUME NEW G \in SUBSET Fragments, IsFiniteSet(G), Cardinality(G) = 0
               PROVE  \E s : Ascending(s, G)
    OBVIOUS
  <2> DEFINE s == [i \in 1..0 |-> {}]
  <2>1. 1..0 = {}
    OBVIOUS
  <2>2. s \in [1..0 -> G]
    BY <2>1
  <2>3. \A i, j \in 1..0 : i < j => s[i].offset < s[j].offset
    BY <2>1
  <2>4. Ascending(s, G)
    BY <2>2, <2>3 DEF Ascending
  <2> QED
    BY <2>4
<1>2. ASSUME NEW k \in 1..n, k - 1 \in P PROVE k \in P
  <2> SUFFICES ASSUME NEW G \in SUBSET Fragments, IsFiniteSet(G), Cardinality(G) = k, Keyed(G)
               PROVE  \E s : Ascending(s, G)
    OBVIOUS
  <2>1. PICK m \in G : \A f \in G : f.offset <= m.offset
    BY LastFragment
  <2> DEFINE H == G \ {m}
  <2>2. IsFiniteSet(H) /\ Cardinality(H) = k - 1 /\ H \in SUBSET Fragments /\ Keyed(H)
    BY FS_RemoveElement DEF Keyed
  <2>3. PICK t : Ascending(t, H)
    BY <1>2, <2>2
  <2>4. t \in [1..(k - 1) -> H] /\ \A i, j \in 1..(k - 1) : i < j => t[i].offset < t[j].offset
    BY <2>2, <2>3 DEF Ascending
  <2>5. \A f \in H : f.offset < m.offset
    <3> SUFFICES ASSUME NEW f \in H PROVE f.offset < m.offset
      OBVIOUS
    <3>1. f.offset \in Nat /\ m.offset \in Nat /\ f.offset <= m.offset /\ f.offset # m.offset
      BY <2>1, FragmentOf DEF Keyed
    <3> QED
      BY <3>1
  <2> DEFINE s == [i \in 1..k |-> IF i = k THEN m ELSE t[i]]
  <2>6. s \in [1..k -> G]
    BY <2>4
  <2>7. ASSUME NEW i \in 1..k, NEW j \in 1..k, i < j PROVE s[i].offset < s[j].offset
    <3>1. i \in 1..(k - 1) /\ s[i] = t[i] /\ t[i] \in H
      BY <2>4, <2>7
    <3>2. CASE j = k
      BY <2>5, <3>1, <3>2
    <3>3. CASE j # k
      <4>1. j \in 1..(k - 1) /\ s[j] = t[j]
        BY <3>3
      <4> QED
        BY <2>4, <2>7, <3>1, <4>1
    <3> QED
      BY <3>2, <3>3
  <2>8. Ascending(s, G)
    BY <2>6, <2>7 DEF Ascending
  <2> QED
    BY <2>8
<1>3. P = 0..n
  <2> HIDE DEF P
  <2>1. P \in SUBSET (0..n)
    BY DEF P
  <2> QED
    BY <1>1, <1>2, <2>1, Upwards
<1>4. n \in P
  BY <1>3
<1> QED
  BY <1>4

\* The order of the map goes through all fragments, by ascending offsets.
LEMMA InOrderOf ==
  ASSUME NEW F \in SUBSET Fragments, IsFiniteSet(F), Keyed(F)
  PROVE  LET s == InOrder(F)
             n == Cardinality(F)
         IN /\ n \in Nat /\ s \in [1..n -> F] /\ s \in Seq(F) /\ Len(s) = n
            /\ \A i, j \in 1..n : i < j => s[i].offset < s[j].offset
            /\ \A f \in F : \E i \in 1..n : s[i] = f
<1> DEFINE s == InOrder(F)
           n == Cardinality(F)
<1>1. n \in Nat
  BY FS_CardinalityType
<1>2. Ascending(s, F)
  <2>1. \E t : Ascending(t, F)
    BY <1>1, OrderExists
  <2> QED
    BY <2>1 DEF Ascending, InOrder
<1> HIDE DEF s, n
<1>3. s \in [1..n -> F] /\ \A i, j \in 1..n : i < j => s[i].offset < s[j].offset
  BY <1>2 DEF Ascending, n
<1>4. s \in Seq(F) /\ Len(s) = n
  BY <1>1, <1>3
<1>5. s \in Injection(1..n, F)
  <2> SUFFICES ASSUME NEW i \in 1..n, NEW j \in 1..n, s[i] = s[j] PROVE i = j
    BY <1>3 DEF Injection, IsInjective
  <2>1. s[i].offset \in Nat /\ s[j].offset \in Nat /\ s[i].offset = s[j].offset
    BY <1>3, FragmentOf
  <2> QED
    BY <1>1, <1>3, <2>1
<1>6. Cardinality(1..n) = n
  BY <1>1, FS_Interval
<1>7. s \in Surjection(1..n, F)
  BY <1>5, <1>6, FS_Injection DEF n
<1>8. \A f \in F : \E i \in 1..n : s[i] = f
  BY <1>7 DEF Surjection
<1> QED
  BY <1>1, <1>3, <1>4, <1>8 DEF s, n

-----------------------------------------------------------------------------
(* The walks over the fragments *)

\* The walk of update_contiguous_offset reaches the first byte that is not covered.
LEMMA ContiguousOffsetOf ==
  ASSUME NEW F \in SUBSET Fragments, IsFiniteSet(F), Keyed(F),
         NEW from \in Nat, 0..(from - 1) \subseteq CoveredBy(F)
  PROVE  LET c == ContiguousOffset(F, from)
         IN c \in Nat /\ c \notin CoveredBy(F) /\ 0..(c - 1) \subseteq CoveredBy(F)
<1> DEFINE s == InOrder(F)
           n == Cardinality(F)
<1>1. /\ n \in Nat /\ s \in [1..n -> F] /\ Len(s) = n
      /\ \A i, j \in 1..n : i < j => s[i].offset < s[j].offset
      /\ \A f \in F : \E i \in 1..n : s[i] = f
  BY InOrderOf
<1> HIDE DEF s, n
<1>2. \A i \in 1..n : s[i] \in F /\ s[i].offset \in Nat /\ FragEnd(s[i]) \in Nat
  BY <1>1, FragmentOf
<1>3. PICK a \in [0..n -> Nat] : a[0] = from /\ \A i \in 1..n : a[i] = Extend(a[i - 1], s[i])
  <2> DEFINE step == [i \in 1..n |-> [c \in Nat |-> Extend(c, s[i])]]
  <2>1. step \in [1..n -> [Nat -> Nat]]
    BY <1>2 DEF Extend
  <2>2. PICK a : Recursion(a, n, Nat, from, step)
    <3> HIDE DEF step
    <3>1. n \in Nat /\ from \in Nat
      BY <1>1
    <3> QED
      BY <2>1, <3>1, StepsDefined
  <2>3. \A i \in 1..n : a[i - 1] \in Nat /\ a[i] = step[i][a[i - 1]]
    BY <1>1, <2>2 DEF Recursion
  <2>4. \A i \in 1..n : a[i] = Extend(a[i - 1], s[i])
    BY <2>3
  <2> QED
    BY <2>2, <2>4 DEF Recursion
<1>4. ContiguousOffset(F, from) = a[n]
  <2> DEFINE b == CHOOSE f : f = [i \in 0..n |-> IF i = 0 THEN from ELSE Extend(f[i - 1], s[i])]
  <2>1. a = [i \in 0..n |-> IF i = 0 THEN from ELSE Extend(a[i - 1], s[i])]
    BY <1>1, <1>3
  <2>2. b = [i \in 0..n |-> IF i = 0 THEN from ELSE Extend(b[i - 1], s[i])]
    BY <2>1
  <2>3. ContiguousOffset(F, from) = b[n]
    BY <1>1 DEF ContiguousOffset, s
  <2> HIDE DEF b
  <2> DEFINE P == {i \in 0..n : a[i] = b[i]}
  <2>4. 0 \in P
    BY <1>1, <1>3, <2>2
  <2>5. ASSUME NEW i \in 1..n, i - 1 \in P PROVE i \in P
    <3>1. i \in 0..n /\ i # 0 /\ a[i - 1] = b[i - 1]
      BY <2>5
    <3>2. b[i] = Extend(b[i - 1], s[i])
      BY <2>2, <3>1
    <3> QED
      BY <1>3, <3>1, <3>2
  <2>6. P = 0..n
    <3> HIDE DEF P
    <3>1. P \in SUBSET (0..n) /\ n \in Nat
      BY <1>1 DEF P
    <3>2. \A i \in 1..n : i - 1 \in P => i \in P
      BY <2>5
    <3> QED
      BY <2>4, <3>1, <3>2, Upwards
  <2>7. n \in P
    <3> HIDE DEF P
    <3> QED
      BY <1>1, <2>6
  <2>8. a[n] = b[n]
    BY <2>7
  <2> QED
    BY <2>3, <2>8
<1> DEFINE Passed(i) ==
             /\ 0..(a[i] - 1) \subseteq CoveredBy(F)
             /\ \A j \in 1..i : s[j].offset <= a[i] => FragEnd(s[j]) <= a[i]
           P == {i \in 0..n : Passed(i)}
<1>5. 0 \in P
  BY <1>1, <1>3
<1>6. ASSUME NEW i \in 1..n, i - 1 \in P PROVE i \in P
  <2> DEFINE c == a[i - 1]
             f == s[i]
  <2>1. i - 1 \in 0..n /\ i \in 0..n /\ c \in Nat /\ a[i] = Extend(c, f) /\ Passed(i - 1)
    BY <1>1, <1>3, <1>6
  <2>2. f \in F /\ f.offset \in Nat /\ FragEnd(f) \in Nat
    BY <1>2
  <2>3. \A j \in 1..(i - 1) : j \in 1..n /\ s[j].offset < f.offset
    BY <1>1
  <2> HIDE DEF c, f
  <2>4. CASE f.offset <= c /\ FragEnd(f) > c
    <3>1. a[i] = FragEnd(f)
      BY <2>1, <2>4 DEF Extend
    <3>2. 0..(a[i] - 1) \subseteq CoveredBy(F)
      <4> SUFFICES ASSUME NEW p \in 0..(a[i] - 1) PROVE p \in CoveredBy(F)
        OBVIOUS
      <4>1. CASE p < c
        BY <2>1, <4>1 DEF c
      <4>2. CASE ~(p < c)
        <5>1. p \in f.offset..(FragEnd(f) - 1)
          BY <2>1, <2>2, <2>4, <3>1, <4>2
        <5> QED
          BY <2>2, <5>1 DEF CoveredBy
      <4> QED
        BY <4>1, <4>2
    <3>3. ASSUME NEW j \in 1..i, s[j].offset <= a[i] PROVE FragEnd(s[j]) <= a[i]
      <4>1. CASE j = i
        BY <2>2, <3>1, <4>1 DEF f
      <4>2. CASE j # i
        <5>1. j \in 1..(i - 1)
          BY <4>2
        <5>2. s[j].offset < f.offset /\ s[j].offset \in Nat /\ FragEnd(s[j]) \in Nat
          BY <1>2, <2>3, <5>1
        <5>3. s[j].offset <= c
          BY <2>1, <2>2, <2>4, <5>2
        <5>4. FragEnd(s[j]) <= c
          BY <2>1, <5>1, <5>3 DEF c
        <5> QED
          BY <2>1, <2>2, <2>4, <3>1, <5>2, <5>4
      <4> QED
        BY <4>1, <4>2
    <3> QED
      BY <2>1, <3>2, <3>3
  <2>5. CASE ~(f.offset <= c /\ FragEnd(f) > c)
    <3>1. a[i] = c
      BY <2>1, <2>5 DEF Extend
    <3>2. ASSUME NEW j \in 1..i, s[j].offset <= c PROVE FragEnd(s[j]) <= c
      <4>1. CASE j = i
        BY <2>1, <2>2, <2>5, <3>2, <4>1 DEF f
      <4>2. CASE j # i
        <5>1. j \in 1..(i - 1)
          BY <4>2
        <5> QED
          BY <2>1, <3>2, <5>1 DEF c
      <4> QED
        BY <4>1, <4>2
    <3> QED
      BY <2>1, <3>1, <3>2 DEF c
  <2> QED
    BY <2>4, <2>5
<1>7. P = 0..n
  <2> HIDE DEF P
  <2>1. P \in SUBSET (0..n) /\ n \in Nat
    BY <1>1 DEF P
  <2>2. \A i \in 1..n : i - 1 \in P => i \in P
    BY <1>6
  <2> QED
    BY <1>5, <2>1, <2>2, Upwards
<1>8. Passed(n) /\ a[n] \in Nat
  <2>1. n \in P
    <3> HIDE DEF P
    <3> QED
      BY <1>1, <1>7
  <2>2. a[n] \in Nat
    BY <1>1, <1>3
  <2> QED
    BY <2>1, <2>2
<1>9. a[n] \notin CoveredBy(F)
  <2> SUFFICES ASSUME NEW f \in F, a[n] \in f.offset..(FragEnd(f) - 1) PROVE FALSE
    BY DEF CoveredBy
  <2>1. PICK i \in 1..n : s[i] = f
    BY <1>1
  <2>2. f.offset \in Nat /\ FragEnd(f) \in Nat /\ f.offset <= a[n] /\ a[n] < FragEnd(f)
    BY <1>8, FragmentOf
  <2>3. FragEnd(f) <= a[n]
    BY <1>8, <2>1, <2>2
  <2> QED
    BY <1>8, <2>2, <2>3
<1> QED
  BY <1>4, <1>8, <1>9


-----------------------------------------------------------------------------
(* What a reassembler is, whatever was added to it *)

Buffers == [fragments : SUBSET Fragments, contiguous_offset : Nat, current_buffer_size : Nat]

BufferOK(b) ==
  /\ b \in Buffers /\ IsFiniteSet(b.fragments) /\ Disjoint(b.fragments)
  /\ b.contiguous_offset \notin CoveredBy(b.fragments)
  /\ 0..(b.contiguous_offset - 1) \subseteq CoveredBy(b.fragments)
  /\ IsFiniteSet(CoveredBy(b.fragments))
  /\ b.current_buffer_size = Cardinality(CoveredBy(b.fragments))
  /\ b.current_buffer_size <= max_buffer_size

\* The first m bytes of the stream, and how a fragment that covers the next one adds its end.
Prefix(m) == [i \in 1..m |-> i - 1]

LEMMA PrefixOf ==
  ASSUME NEW m \in Nat
  PROVE  Prefix(m) \in Seq(Nat) /\ Len(Prefix(m)) = m /\ \A i \in 1..m : Prefix(m)[i] = i - 1
BY DEF Prefix

LEMMA PrefixGrows ==
  ASSUME NEW m \in Nat, NEW f \in Fragments, f.offset <= m, m < FragEnd(f)
  PROVE  Prefix(m) \o SubSeq(f.data, m - f.offset + 1, Len(f.data)) = Prefix(FragEnd(f))
<1> DEFINE k == m - f.offset + 1
           l == Len(f.data)
           e == FragEnd(f)
           d == f.data
           x == Prefix(m)
           y == SubSeq(d, k, l)
<1>1. /\ f.offset \in Nat /\ l \in Nat /\ e \in Nat /\ e = f.offset + l
      /\ \A i \in 1..l : d[i] = f.offset + i - 1
  BY FragmentOf
<1>2. k \in Int /\ k >= 1 /\ k <= l /\ l - k + 1 = e - m /\ f.offset + k = m + 1
  BY <1>1
<1>3. x \in Seq(Nat) /\ Len(x) = m /\ \A i \in 1..m : x[i] = i - 1
  BY PrefixOf
<1>4. Prefix(e) \in Seq(Nat) /\ Len(Prefix(e)) = e /\ \A i \in 1..e : Prefix(e)[i] = i - 1
  BY <1>1, PrefixOf
<1> HIDE DEF k, l, e, d, x
<1>5. \A i \in k..l : d[i] \in Nat
  BY <1>1, <1>2
<1>6. y \in Seq(Nat) /\ Len(y) = e - m /\ \A i \in 1..(e - m) : y[i] = d[k + i - 1]
  <2>1. /\ y \in Seq(Nat) /\ Len(y) = IF k <= l THEN l - k + 1 ELSE 0
        /\ \A i \in 1..(l - k + 1) : y[i] = d[k + i - 1]
    BY <1>1, <1>2, <1>5, SubSeqProperties
  <2> HIDE DEF y
  <2> QED
    BY <1>2, <2>1
<1> HIDE DEF y
<1>7. \A i \in 1..(e - m) : y[i] = m + i - 1
  <2> SUFFICES ASSUME NEW i \in 1..(e - m) PROVE y[i] = m + i - 1
    OBVIOUS
  <2>1. k + i - 1 \in 1..l
    BY <1>1, <1>2
  <2>2. y[i] = f.offset + (k + i - 1) - 1
    BY <1>1, <1>6, <2>1
  <2> QED
    BY <1>1, <1>2, <2>2
<1>8. m < e
  BY DEF e
<1>9. /\ x \o y \in Seq(Nat) /\ Len(x \o y) = e
      /\ \A i \in 1..e : (x \o y)[i] = IF i <= m THEN x[i] ELSE y[i - m]
  <2>1. /\ x \o y \in Seq(Nat) /\ Len(x \o y) = Len(x) + Len(y)
        /\ \A i \in 1..(Len(x) + Len(y)) : (x \o y)[i] = IF i <= Len(x) THEN x[i] ELSE y[i - Len(x)]
    BY <1>3, <1>6, ConcatProperties
  <2>2. Len(x) + Len(y) = e
    BY <1>1, <1>3, <1>6
  <2> QED
    BY <1>3, <2>1, <2>2
<1>10. \A i \in 1..e : (x \o y)[i] = i - 1
  <2> SUFFICES ASSUME NEW i \in 1..e PROVE (x \o y)[i] = i - 1
    OBVIOUS
  <2>1. CASE i <= m
    BY <1>1, <1>3, <1>9, <2>1
  <2>2. CASE ~(i <= m)
    <3>1. i - m \in 1..(e - m)
      BY <1>1, <2>2
    <3>2. y[i - m] = m + (i - m) - 1
      BY <1>7, <3>1
    <3>3. (x \o y)[i] = y[i - m]
      BY <1>9, <2>2
    <3>4. i \in Int /\ m + (i - m) - 1 = i - 1
      BY <1>1
    <3> QED
      BY <3>2, <3>3, <3>4
  <2> QED
    BY <2>1, <2>2
<1>11. x \o y = Prefix(e)
  <2> DEFINE v == x \o y
             w == Prefix(e)
  <2>1. v \in Seq(Nat) /\ w \in Seq(Nat) /\ Len(v) = Len(w)
    BY <1>4, <1>9
  <2>2. \A i \in 1..Len(v) : v[i] = w[i]
    BY <1>4, <1>9, <1>10
  <2> HIDE DEF v, w
  <2>3. v = w
    BY <2>1, <2>2, SeqEqual
  <2> QED
    BY <2>3 DEF v, w
<1> QED
  BY <1>11 DEF x, y, k, l, d, e

\* The walk of get_contiguous_data returns the bytes up to the contiguous offset.
LEMMA ContiguousDataOf ==
  ASSUME NEW b, BufferOK(b)
  PROVE  ContiguousData(b) = [i \in 1..b.contiguous_offset |-> i - 1]
<1> DEFINE F == b.fragments
           limit == b.contiguous_offset
           s == InOrder(F)
           n == Cardinality(F)
<1>1. /\ F \in SUBSET Fragments /\ IsFiniteSet(F) /\ Keyed(F)
      /\ limit \in Nat /\ limit \notin CoveredBy(F) /\ 0..(limit - 1) \subseteq CoveredBy(F)
  BY DisjointIsKeyed DEF BufferOK, Buffers
<1>2. /\ n \in Nat /\ s \in [1..n -> F] /\ Len(s) = n
      /\ \A i, j \in 1..n : i < j => s[i].offset < s[j].offset
      /\ \A f \in F : \E i \in 1..n : s[i] = f
  BY <1>1, InOrderOf
<1>3. ContiguousData(b) =
        LET r == CHOOSE g : g = [i \in 0..Len(s) |-> IF i = 0 THEN <<>> ELSE Take(g[i - 1], s[i], limit)]
        IN r[Len(s)]
  BY DEF ContiguousData
<1> HIDE DEF s, n, F, limit
<1>4. \A i \in 1..n : s[i] \in F /\ s[i] \in Fragments
  BY <1>1, <1>2
\* One step takes a prefix to a prefix that no more than reaches the limit.
<1>5. ASSUME NEW m \in Nat, m <= limit, NEW f \in F
      PROVE  Take(Prefix(m), f, limit)
               = Prefix(IF m < limit /\ f.offset <= m /\ FragEnd(f) > m THEN FragEnd(f) ELSE m)
             /\ (m < limit /\ f.offset <= m => FragEnd(f) <= limit)
  <2>1. /\ f.offset \in Nat /\ f.data \in Seq(Nat) /\ Len(f.data) \in Nat \ {0}
        /\ FragEnd(f) \in Nat /\ FragEnd(f) = f.offset + Len(f.data)
        /\ \A i \in 1..Len(f.data) : f.data[i] = f.offset + i - 1
    BY <1>1, FragmentOf
  <2>2. Prefix(m) \in Seq(Nat) /\ Len(Prefix(m)) = m /\ \A i \in 1..m : Prefix(m)[i] = i - 1
    BY PrefixOf
  <2>3. m < limit /\ f.offset <= m => FragEnd(f) <= limit
    <3> SUFFICES ASSUME m < limit, f.offset <= m, FragEnd(f) > limit PROVE FALSE
      BY <1>1, <2>1
    <3>1. limit \in f.offset..(FragEnd(f) - 1)
      BY <1>1, <2>1
    <3> QED
      BY <1>1, <3>1 DEF CoveredBy
  <2>4. CASE m < limit /\ f.offset <= m /\ FragEnd(f) > m
    <3>1. Take(Prefix(m), f, limit) = Prefix(m) \o SubSeq(f.data, m - f.offset + 1, Len(f.data))
      BY <2>2, <2>4 DEF Take
    <3>2. f \in Fragments
      BY <1>1
    <3>3. Take(Prefix(m), f, limit) = Prefix(FragEnd(f))
      BY <2>4, <3>1, <3>2, PrefixGrows
    <3> QED
      BY <2>3, <2>4, <3>3
  <2>5. CASE ~(m < limit /\ f.offset <= m /\ FragEnd(f) > m)
    BY <2>2, <2>3, <2>5 DEF Take
  <2> QED
    BY <2>4, <2>5
\* How far the walk has come after each fragment.
<1> DEFINE Reach(m, f) == IF m < limit /\ f.offset <= m /\ FragEnd(f) > m THEN FragEnd(f) ELSE m
<1>6. ASSUME NEW m \in 0..limit, NEW f \in F
      PROVE  Reach(m, f) \in 0..limit /\ Take(Prefix(m), f, limit) = Prefix(Reach(m, f))
  <2>1. f.offset \in Nat /\ FragEnd(f) \in Nat
    BY <1>1, FragmentOf
  <2> QED
    BY <1>1, <1>5, <2>1
<1>7. PICK a \in [0..n -> 0..limit] : a[0] = 0 /\ \A i \in 1..n : a[i] = Reach(a[i - 1], s[i])
  <2> DEFINE step == [i \in 1..n |-> [m \in 0..limit |-> Reach(m, s[i])]]
  <2>1. step \in [1..n -> [0..limit -> 0..limit]]
    <3> HIDE DEF Reach
    <3> QED
      BY <1>4, <1>6
  <2>2. 0 \in 0..limit
    BY <1>1
  <2>3. PICK a : Recursion(a, n, 0..limit, 0, step)
    <3> HIDE DEF step
    <3>1. n \in Nat
      BY <1>2
    <3> QED
      BY <2>1, <2>2, <3>1, StepsDefined
  <2>4. \A i \in 1..n : a[i - 1] \in 0..limit /\ a[i] = step[i][a[i - 1]]
    <3> HIDE DEF step
    <3> QED
      BY <1>2, <2>3 DEF Recursion
  <2>5. \A i \in 1..n : a[i] = Reach(a[i - 1], s[i])
    <3> HIDE DEF Reach
    <3> QED
      BY <2>4
  <2> QED
    BY <2>3, <2>5 DEF Recursion
<1>8. ContiguousData(b) = Prefix(a[n])
  <2> DEFINE r == CHOOSE g : g = [i \in 0..n |-> IF i = 0 THEN <<>> ELSE Take(g[i - 1], s[i], limit)]
             h == [i \in 0..n |-> Prefix(a[i])]
  <2>1. \A i \in 1..n : h[i] = Take(h[i - 1], s[i], limit)
    <3> SUFFICES ASSUME NEW i \in 1..n PROVE h[i] = Take(h[i - 1], s[i], limit)
      OBVIOUS
    <3>1. i \in 0..n /\ i - 1 \in 0..n /\ a[i - 1] \in 0..limit
      BY <1>2, <1>7
    <3>2. Prefix(a[i]) = Take(Prefix(a[i - 1]), s[i], limit)
      <4> HIDE DEF Reach
      <4> QED
        BY <1>4, <1>6, <1>7, <3>1
    <3> QED
      BY <3>1, <3>2
  <2>2. h[0] = <<>>
    <3>1. h[0] = Prefix(0)
      BY <1>2, <1>7
    <3>2. Prefix(0) = <<>>
      BY DEF Prefix
    <3> QED
      BY <3>1, <3>2
  <2>3. h = [i \in 0..n |-> IF i = 0 THEN <<>> ELSE Take(h[i - 1], s[i], limit)]
    <3>1. h = [i \in 0..n |-> h[i]]
      OBVIOUS
    <3> HIDE DEF h
    <3>2. \A i \in 0..n : h[i] = IF i = 0 THEN <<>> ELSE Take(h[i - 1], s[i], limit)
      BY <1>2, <2>1, <2>2
    <3> QED
      BY <3>1, <3>2
  <2> HIDE DEF h
  <2>4. r = [i \in 0..n |-> IF i = 0 THEN <<>> ELSE Take(r[i - 1], s[i], limit)]
    BY <2>3
  <2>5. ContiguousData(b) = r[n]
    BY <1>2, <1>3
  <2> HIDE DEF r
  <2> DEFINE P == {i \in 0..n : h[i] = r[i]}
  <2>6. 0 \in P
    BY <1>2, <2>2, <2>4
  <2>7. ASSUME NEW i \in 1..n, i - 1 \in P PROVE i \in P
    <3>1. i \in 0..n /\ i # 0 /\ h[i - 1] = r[i - 1]
      BY <2>7
    <3>2. r[i] = Take(r[i - 1], s[i], limit)
      BY <2>4, <3>1
    <3> QED
      BY <2>1, <3>1, <3>2
  <2>8. P = 0..n
    <3> HIDE DEF P
    <3>1. P \in SUBSET (0..n)
      BY DEF P
    <3> QED
      BY <1>2, <2>6, <2>7, <3>1, Upwards
  <2>9. h[n] = Prefix(a[n])
    BY <1>2 DEF h
  <2>10. h[n] = r[n]
    BY <1>2, <2>8
  <2> QED
    BY <2>5, <2>9, <2>10
<1> DEFINE Passed(i) ==
             a[i] < limit => \A j \in 1..i : s[j].offset <= a[i] => FragEnd(s[j]) <= a[i]
           P == {i \in 0..n : Passed(i)}
<1>9. 0 \in P
  BY <1>2
<1>10. ASSUME NEW i \in 1..n, i - 1 \in P PROVE i \in P
  <2> SUFFICES ASSUME a[i] < limit, NEW j \in 1..i, s[j].offset <= a[i]
               PROVE  FragEnd(s[j]) <= a[i]
    BY <1>2
  <2> DEFINE c == a[i - 1]
             f == s[i]
  <2>1. /\ i - 1 \in 0..n /\ i \in 0..n /\ c \in 0..limit /\ a[i] \in 0..limit
        /\ a[i] = Reach(c, f) /\ Passed(i - 1)
    BY <1>2, <1>7, <1>10
  <2>2. f \in F /\ f.offset \in Nat /\ FragEnd(f) \in Nat
    BY <1>1, <1>4, FragmentOf
  <2>3. j \in 1..n /\ s[j].offset \in Nat /\ FragEnd(s[j]) \in Nat
    <3>1. j \in 1..n
      BY <1>2
    <3> QED
      BY <1>4, <3>1, FragmentOf
  <2>4. j # i => j \in 1..(i - 1) /\ s[j].offset < f.offset
    BY <1>2, <2>3
  <2>5. j # i /\ c < limit /\ s[j].offset <= c => FragEnd(s[j]) <= c
    BY <2>1, <2>4
  <2>6. j = i => s[j] = f
    OBVIOUS
  <2> HIDE DEF c, f
  <2>7. c < limit
    BY <1>1, <2>1, <2>2
  <2>8. CASE f.offset <= c /\ FragEnd(f) > c
    <3>1. a[i] = FragEnd(f)
      BY <2>1, <2>7, <2>8
    <3>2. j # i => s[j].offset <= c
      BY <2>1, <2>2, <2>3, <2>4, <2>8
    <3> QED
      BY <1>1, <2>1, <2>2, <2>3, <2>5, <2>6, <2>7, <2>8, <3>1, <3>2
  <2>9. CASE ~(f.offset <= c /\ FragEnd(f) > c)
    <3>1. a[i] = c
      BY <2>1, <2>9
    <3> QED
      BY <1>1, <2>1, <2>2, <2>3, <2>5, <2>6, <2>7, <2>9, <3>1
  <2> QED
    BY <2>8, <2>9
<1>11. P = 0..n
  <2> HIDE DEF P
  <2>1. P \in SUBSET (0..n) /\ n \in Nat
    BY <1>2 DEF P
  <2>2. \A i \in 1..n : i - 1 \in P => i \in P
    BY <1>10
  <2> QED
    BY <1>9, <2>1, <2>2, Upwards
<1>12. Passed(n) /\ a[n] \in 0..limit
  <2>1. n \in P
    <3> HIDE DEF P
    <3> QED
      BY <1>2, <1>11
  <2>2. a[n] \in 0..limit
    BY <1>2, <1>7
  <2> QED
    BY <2>1, <2>2
<1>13. a[n] = limit
  <2> SUFFICES ASSUME a[n] < limit PROVE FALSE
    <3>1. limit \in Nat /\ a[n] \in 0..limit
      BY <1>1, <1>12
    <3> QED
      BY <3>1
  <2>1. a[n] \in CoveredBy(F)
    BY <1>1, <1>12
  <2>2. PICK f \in F : a[n] \in f.offset..(FragEnd(f) - 1)
    BY <2>1 DEF CoveredBy
  <2>3. PICK i \in 1..n : s[i] = f
    BY <1>2
  <2>4. f.offset \in Nat /\ FragEnd(f) \in Nat /\ f.offset <= a[n] /\ a[n] < FragEnd(f)
    BY <1>1, <1>12, <2>2, FragmentOf
  <2>5. FragEnd(f) <= a[n]
    BY <1>12, <2>3, <2>4
  <2> QED
    BY <1>12, <2>4, <2>5
<1> QED
  BY <1>8, <1>13 DEF Prefix, limit

LEMMA NewReassemblerOK == BufferOK(NewReassembler)
<1>1. CoveredBy({}) = {}
  BY DEF CoveredBy
<1>2. IsFiniteSet({}) /\ Cardinality({}) = 0
  BY FS_EmptySet
<1>3. NewReassembler \in Buffers
  BY DEF NewReassembler, Buffers
<1> QED
  BY <1>1, <1>2, <1>3, BufferAssumption DEF BufferOK, NewReassembler, Disjoint

\* A fragment is stored whole or not at all, and what is stored stays disjoint, counted
\* and contiguous up to its offset.
LEMMA AddFragmentOK ==
  ASSUME NEW b, BufferOK(b), NEW f \in Fragments
  PROVE  BufferOK(AddFragment(b, f))
<1>1. /\ b \in Buffers /\ b.fragments \in SUBSET Fragments /\ IsFiniteSet(b.fragments)
      /\ Disjoint(b.fragments)
      /\ b.contiguous_offset \in Nat /\ b.current_buffer_size \in Nat
  BY DEF BufferOK, Buffers
<1>2. /\ f.offset \in Nat /\ Len(f.data) \in Nat \ {0} /\ FragEnd(f) \in Nat
      /\ FragEnd(f) = f.offset + Len(f.data)
  BY FragmentOf
<1>3. CASE b.current_buffer_size + Len(f.data) > max_buffer_size \/ \E g \in b.fragments : Overlaps(f, g)
  BY <1>3 DEF AddFragment
<1>4. CASE /\ ~(b.current_buffer_size + Len(f.data) > max_buffer_size)
           /\ ~\E g \in b.fragments : Overlaps(f, g)
  <2> DEFINE F == b.fragments \union {f}
             c == ContiguousOffset(F, b.contiguous_offset)
             I == f.offset..(FragEnd(f) - 1)
             C == CoveredBy(b.fragments)
             d == [fragments |-> F, contiguous_offset |-> c,
                   current_buffer_size |-> b.current_buffer_size + Len(f.data)]
  <2>1. ASSUME NEW g \in b.fragments PROVE g.offset # f.offset
    <3>1. g.offset \in Nat /\ FragEnd(g) \in Nat /\ g.offset < FragEnd(g) /\ f.offset < FragEnd(f)
      <4>1. g \in Fragments
        BY <1>1
      <4>2. g.offset \in Nat /\ Len(g.data) \in Nat \ {0} /\ FragEnd(g) = g.offset + Len(g.data)
        BY <4>1, FragmentOf
      <4> QED
        BY <1>2, <4>2
    <3>2. ~(f.offset < FragEnd(g) /\ FragEnd(f) > g.offset)
      BY <1>4 DEF Overlaps
    <3> QED
      BY <1>2, <3>1, <3>2
  <2>2. AddFragment(b, f) = d
    <3>1. AddFragment(b, f) = Stored(b, f)
      BY <1>4 DEF AddFragment
    <3>2. Stored(b, f) = [b EXCEPT !.fragments = F, !.current_buffer_size = @ + Len(f.data),
                                   !.contiguous_offset = ContiguousOffset(F, @)]
      BY <2>1 DEF Stored
    <3> HIDE DEF F
    <3> QED
      BY <1>1, <3>1, <3>2 DEF Buffers
  <2>3. F \in SUBSET Fragments /\ IsFiniteSet(F)
    BY <1>1, FS_AddElement
  <2>4. Disjoint(F)
    <3> SUFFICES ASSUME NEW g \in F, NEW h \in F, g # h PROVE ~Overlaps(g, h)
      BY DEF Disjoint
    <3>1. CASE g \in b.fragments /\ h \in b.fragments
      BY <1>1, <3>1 DEF Disjoint
    <3>2. CASE g = f
      BY <1>4, <3>2
    <3>3. CASE h = f
      <4>1. g \in b.fragments
        BY <3>3
      <4>2. ~Overlaps(f, g)
        BY <1>4, <4>1
      <4>3. g.offset \in Nat /\ FragEnd(g) \in Nat
        BY <1>1, <4>1, FragmentOf
      <4> QED
        BY <1>2, <3>3, <4>2, <4>3 DEF Overlaps
    <3> QED
      BY <3>1, <3>2, <3>3
  <2>5. CoveredBy(F) = C \union I
    BY DEF CoveredBy
  <2>6. C \cap I = {}
    <3> SUFFICES ASSUME NEW g \in b.fragments, NEW p \in g.offset..(FragEnd(g) - 1), p \in I
                 PROVE  FALSE
      BY DEF CoveredBy
    <3>1. g.offset \in Nat /\ FragEnd(g) \in Nat
      BY <1>1, FragmentOf
    <3>2. f.offset < FragEnd(g) /\ FragEnd(f) > g.offset
      BY <1>2, <3>1
    <3> QED
      BY <1>4, <3>2 DEF Overlaps
  <2>7. IsFiniteSet(I) /\ Cardinality(I) = Len(f.data)
    <3> DEFINE x == f.offset
               y == FragEnd(f) - 1
    <3>1. x \in Int /\ y \in Int /\ ~(x > y) /\ (y - x) + 1 = Len(f.data)
      BY <1>2
    <3> HIDE DEF x, y
    <3>2. IsFiniteSet(x..y) /\ Cardinality(x..y) = IF x > y THEN 0 ELSE (y - x) + 1
      BY <3>1, FS_Interval
    <3> QED
      BY <3>1, <3>2 DEF x, y
  <2>8. IsFiniteSet(C) /\ Cardinality(C) = b.current_buffer_size
    BY DEF BufferOK
  <2>9. IsFiniteSet(CoveredBy(F)) /\ Cardinality(CoveredBy(F)) = b.current_buffer_size + Len(f.data)
    <3>1. /\ IsFiniteSet(C \union I)
          /\ Cardinality(C \union I) = Cardinality(C) + Cardinality(I) - Cardinality(C \cap I)
      <4> HIDE DEF C, I
      <4> QED
        BY <2>7, <2>8, FS_Union
    <3>2. Cardinality(C \cap I) = 0
      BY <2>6, FS_EmptySet
    <3>3. Cardinality(C \union I) = b.current_buffer_size + Len(f.data) - 0
      BY <2>7, <2>8, <3>1, <3>2
    <3> HIDE DEF C, I, F
    <3> QED
      BY <1>1, <1>2, <2>5, <3>1, <3>3
  <2>10. c \in Nat /\ c \notin CoveredBy(F) /\ 0..(c - 1) \subseteq CoveredBy(F)
    <3>1. 0..(b.contiguous_offset - 1) \subseteq CoveredBy(F)
      BY <2>5 DEF BufferOK
    <3>2. Keyed(F)
      BY <2>3, <2>4, DisjointIsKeyed
    <3> HIDE DEF F
    <3> QED
      BY <1>1, <2>3, <3>1, <3>2, ContiguousOffsetOf
  <2> HIDE DEF F, c
  <2>11. d.fragments = F /\ d.contiguous_offset = c
         /\ d.current_buffer_size = b.current_buffer_size + Len(f.data)
    OBVIOUS
  <2>12. d \in Buffers
    BY <1>1, <1>2, <2>3, <2>10 DEF Buffers
  <2>13. b.current_buffer_size + Len(f.data) <= max_buffer_size
    BY <1>1, <1>2, <1>4, BufferAssumption
  <2> HIDE DEF d
  <2>14. BufferOK(d)
    BY <2>3, <2>4, <2>9, <2>10, <2>11, <2>12, <2>13 DEF BufferOK
  <2> QED
    BY <2>2, <2>14
<1> QED
  BY <1>3, <1>4

\* So does any sequence of fragments.
LEMMA AddAllOK ==
  ASSUME NEW b, BufferOK(b), NEW s, NEW n \in Nat, Len(s) = n, \A i \in 1..n : s[i] \in Fragments
  PROVE  BufferOK(AddAll(b, s))
<1> DEFINE V == {x \in Buffers : BufferOK(x)}
           step == [i \in 1..n |-> [x \in V |-> AddFragment(x, s[i])]]
<1>1. b \in V
  BY DEF BufferOK
<1>2. \A i \in 1..n : \A x \in V : AddFragment(x, s[i]) \in V
  <2> SUFFICES ASSUME NEW i \in 1..n, NEW x \in V PROVE AddFragment(x, s[i]) \in V
    OBVIOUS
  <2>1. BufferOK(AddFragment(x, s[i]))
    BY AddFragmentOK
  <2> QED
    BY <2>1 DEF BufferOK
<1>3. step \in [1..n -> [V -> V]]
  BY <1>2
<1>4. PICK a : Recursion(a, n, V, b, step)
  <2> HIDE DEF step, V
  <2> QED
    BY <1>1, <1>3, StepsDefined
<1>5. \A i \in 1..n : a[i - 1] \in V /\ a[i] = step[i][a[i - 1]]
  <2> HIDE DEF step, V
  <2> QED
    BY <1>4 DEF Recursion
<1>6. a[0] = b /\ \A i \in 1..n : a[i] = AddFragment(a[i - 1], s[i])
  <2> HIDE DEF V
  <2> QED
    BY <1>4, <1>5 DEF Recursion
<1> DEFINE r == CHOOSE g : g = [i \in 0..n |-> IF i = 0 THEN b ELSE AddFragment(g[i - 1], s[i])]
           P == {i \in 0..n : a[i] = r[i]}
<1> HIDE DEF V, step
<1>7. a = [i \in 0..n |-> IF i = 0 THEN b ELSE AddFragment(a[i - 1], s[i])]
  <2>1. \A i \in 0..n : a[i] = IF i = 0 THEN b ELSE AddFragment(a[i - 1], s[i])
    BY <1>6
  <2>2. a \in [0..n -> V]
    BY <1>4 DEF Recursion
  <2> QED
    BY <2>1, <2>2
<1>8. r = [i \in 0..n |-> IF i = 0 THEN b ELSE AddFragment(r[i - 1], s[i])]
  BY <1>7
<1>9. AddAll(b, s) = r[n]
  BY DEF AddAll
<1> HIDE DEF r
<1>10. 0 \in P
  BY <1>6, <1>8
<1>11. ASSUME NEW i \in 1..n, i - 1 \in P PROVE i \in P
  <2>1. i \in 0..n /\ i # 0 /\ a[i - 1] = r[i - 1]
    BY <1>11
  <2>2. r[i] = AddFragment(r[i - 1], s[i])
    BY <1>8, <2>1
  <2> QED
    BY <1>6, <2>1, <2>2
<1>12. P = 0..n
  <2> HIDE DEF P
  <2>1. P \in SUBSET (0..n)
    BY DEF P
  <2> QED
    BY <1>10, <1>11, <2>1, Upwards
<1>13. a[n] = r[n] /\ a[n] \in V
  BY <1>4, <1>12 DEF Recursion
<1> QED
  BY <1>9, <1>13 DEF V

=============================================================================
