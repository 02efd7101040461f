--------------------------- MODULE EvidenceProofs ---------------------------
(***************************************************************************)
(* Theorems about SemanticReuse and Decisions, for every value of their    *)
(* constants.                                                              *)
(***************************************************************************)
EXTENDS SemanticReuse, Decisions, FiniteSetTheorems, WellFoundedInduction, TLAPS

-----------------------------------------------------------------------------
(* Induction over numbers *)

\* A non-empty set of natural numbers has a least element.
LEMMA LeastNumber ==
  ASSUME NEW S, S \subseteq Nat, S # {}
  PROVE  \E n \in S : \A m \in S : n <= m
<1>1. PICK n \in S : \A m \in S : ~(<<m, n>> \in OpToRel(<, Nat))
  BY NatLessThanWellFounded, WFMin
<1>2. \A m \in S : <<m, n>> \in OpToRel(<, Nat) <=> m < n
  BY DEF OpToRel
<1>3. \A m \in S : ~(m < n)
  BY <1>1, <1>2
<1>4. \A m \in S : m \in Nat /\ n \in Nat
  OBVIOUS
<1>5. \A m \in S : n <= m
  BY <1>3, <1>4
<1> QED BY <1>5

\* Induction: a set with 0 that is closed under successors up to n holds 0 .. n.
LEMMA CountsUp ==
  ASSUME NEW n \in Nat, NEW S, 0 \in S, \A k \in 0 .. (n - 1) : k \in S => k + 1 \in S
  PROVE  \A k \in 0 .. n : k \in S
<1> SUFFICES ASSUME NEW j \in 0 .. n, j \notin S PROVE FALSE
  OBVIOUS
<1> DEFINE T == {k \in 0 .. n : k \notin S}
<1>1. PICK k \in T : \A m \in T : k <= m
  <2>1. T \subseteq Nat /\ T # {}
    OBVIOUS
  <2> QED BY <2>1, LeastNumber
<1>2. k # 0 /\ k - 1 \in 0 .. (n - 1)
  OBVIOUS
<1>3. k - 1 \in S
  BY <1>1, <1>2
<1>4. (k - 1) + 1 \in S
  BY <1>2, <1>3
<1> QED BY <1>4, <1>1

\* The greatest number of a set of numbers up to n.
LEMMA MaxIsGreatest ==
  ASSUME NEW n \in Nat, NEW S, S \subseteq 1 .. n, S # {}
  PROVE  Max(S) \in S /\ \A y \in S : y <= Max(S)
<1> DEFINE T == {k \in Nat : n - k \in S}
<1>1. T \subseteq Nat /\ T # {}
  <2>1. PICK x \in S : TRUE
    OBVIOUS
  <2>2. n - x \in Nat /\ n - (n - x) = x
    BY <2>1
  <2>3. n - x \in T
    BY <2>2
  <2> QED BY <2>3
<1> HIDE DEF T
<1>2. PICK k \in T : \A m \in T : k <= m
  BY <1>1, LeastNumber
<1>3. n - k \in S /\ k \in Nat
  BY <1>2 DEF T
<1>4. \A y \in S : n - k >= y
  <2> SUFFICES ASSUME NEW y \in S PROVE n - k >= y
    OBVIOUS
  <2>1. y \in 1 .. n
    OBVIOUS
  <2>2. n - y \in Nat /\ n - (n - y) = y
    BY <2>1
  <2>3. n - y \in T
    BY <2>2 DEF T
  <2>4. k <= n - y
    BY <1>2, <2>3
  <2> QED BY <2>4, <2>1, <1>3
<1>5. \E x \in S : \A y \in S : x >= y
  BY <1>3, <1>4
<1>6. Max(S) \in S /\ \A y \in S : Max(S) >= y
  BY <1>5 DEF Max
<1>7. \A y \in S : y \in 1 .. n
  OBVIOUS
<1> QED BY <1>6, <1>7

\* SetToSeq enumerates a finite set.
LEMMA Enumerates ==
  ASSUME NEW S, IsFiniteSet(S)
  PROVE  /\ Cardinality(S) \in Nat
         /\ SetToSeq(S) \in [1 .. Cardinality(S) -> S]
         /\ SetToSeq(S) \in Seq(S) /\ Len(SetToSeq(S)) = Cardinality(S)
         /\ DOMAIN SetToSeq(S) = 1 .. Cardinality(S)
         /\ \A x \in S : \E k \in 1 .. Cardinality(S) : SetToSeq(S)[k] = x
<1> DEFINE n == Cardinality(S)
<1>1. n \in Nat /\ ExistsBijection(1 .. n, S)
  BY FS_CardinalityType
<1>2. PICK f : f \in Bijection(1 .. n, S)
  BY <1>1 DEF ExistsBijection
<1>3. f \in [1 .. n -> S] /\ IsInjective(f)
  BY <1>2 DEF Bijection, Injection, Surjection, IsInjective
<1>4. SetToSeq(S) \in [1 .. n -> S] /\ IsInjective(SetToSeq(S))
  BY <1>3 DEF SetToSeq
<1> DEFINE g == SetToSeq(S)
<1>5. g \in Injection(1 .. n, S)
  BY <1>4 DEF Injection, IsInjective
<1>6. IsFiniteSet(1 .. n) /\ Cardinality(1 .. n) = n
  BY <1>1, FS_Interval
<1>7. g \in Surjection(1 .. n, S)
  BY <1>5, <1>6, FS_Injection
<1>8. \A x \in S : \E k \in 1 .. n : g[k] = x
  BY <1>7 DEF Surjection
<1>9. g \in Seq(S) /\ Len(g) = n /\ DOMAIN g = 1 .. n
  <2> HIDE DEF n
  <2> QED BY <1>1, <1>4
<1> QED BY <1>1, <1>4, <1>8, <1>9

-----------------------------------------------------------------------------
(* The planner: its order of selections *)

\* Bit masks are well ordered: every set of masks has a least one.
LEMMA LeastMask ==
  ASSUME NEW n \in Nat, NEW F, F \subseteq SUBSET (1 .. n), F # {}
  PROVE  \E m \in F : \A k \in F : k = m \/ BitsLess(m, k)
<1> DEFINE P(j) == \A G \in SUBSET (SUBSET (1 .. j)) :
                     G # {} => \E m \in G : \A k \in G : k = m \/ BitsLess(m, k)
           S == {j \in Nat : P(j)}
<1>1. 0 \in S
  <2>1. SUBSET (1 .. 0) = {{}}
    OBVIOUS
  <2>2. P(0)
    BY <2>1
  <2> QED BY <2>2
<1>2. ASSUME NEW j \in 0 .. (n - 1), j \in S PROVE j + 1 \in S
  <2>0. j \in Nat /\ j + 1 \in Nat /\ P(j) /\ 1 .. (j + 1) = (1 .. j) \cup {j + 1} /\ j + 1 \notin 1 .. j
    BY <1>2
  <2> SUFFICES ASSUME NEW G \in SUBSET (SUBSET (1 .. (j + 1))), G # {}
               PROVE  \E m \in G : \A k \in G : k = m \/ BitsLess(m, k)
    BY <2>0
  <2> DEFINE x == j + 1
  <2>1. CASE \E a \in G : x \notin a
    <3> DEFINE H == {a \in G : x \notin a}
    <3>1. H \in SUBSET (SUBSET (1 .. j)) /\ H # {}
      BY <2>0, <2>1
    <3>2. PICK m \in H : \A k \in H : k = m \/ BitsLess(m, k)
      BY <2>0, <3>1
    <3>3. ASSUME NEW k \in G, k \notin H PROVE BitsLess(m, k)
      <4>1. x \in k /\ x \notin m
        BY <3>3, <3>2
      <4> DEFINE d == (m \ k) \cup (k \ m)
      <4>2. d \subseteq 1 .. x /\ x \in d /\ x \in Nat
        BY <4>1, <2>0, <3>1
      <4>3. Max(d) \in d /\ \A y \in d : y <= Max(d)
        BY <4>2, MaxIsGreatest
      <4>4. Max(d) = x
        <5> HIDE DEF d
        <5>1. x <= Max(d)
          BY <4>2, <4>3
        <5>2. Max(d) \in 1 .. x
          BY <4>2, <4>3
        <5> QED BY <5>1, <5>2, <4>2
      <4> QED BY <4>1, <4>2, <4>4 DEF BitsLess
    <3> QED BY <3>2, <3>3
  <2>2. CASE \A a \in G : x \in a
    <3> DEFINE H == {a \ {x} : a \in G}
    <3>1. H \in SUBSET (SUBSET (1 .. j)) /\ H # {}
      <4>1. \A a \in G : a \ {x} \in SUBSET (1 .. j)
        BY <2>0
      <4> QED BY <4>1
    <3>2. PICK h \in H : \A k \in H : k = h \/ BitsLess(h, k)
      BY <2>0, <3>1
    <3>3. PICK m \in G : h = m \ {x}
      BY <3>2
    <3>4. ASSUME NEW k \in G PROVE k = m \/ BitsLess(m, k)
      <4>1. k \ {x} \in H
        OBVIOUS
      <4>2. x \in k /\ x \in m
        BY <2>2
      <4>3. CASE k \ {x} = h
        <5>1. k = (k \ {x}) \cup {x} /\ m = (m \ {x}) \cup {x}
          BY <4>2
        <5> QED BY <5>1, <4>3, <3>3
      <4>4. CASE BitsLess(h, k \ {x})
        <5>1. (h \ (k \ {x})) \cup ((k \ {x}) \ h) = (m \ k) \cup (k \ m)
          BY <3>3, <4>2
        <5> DEFINE d == (m \ k) \cup (k \ m)
        <5>2. d # {} /\ Max(d) \in k \ {x}
          BY <4>4, <5>1 DEF BitsLess
        <5> QED BY <5>2 DEF BitsLess
      <4> QED BY <4>1, <3>2, <4>3, <4>4
    <3> QED BY <3>4
  <2> QED BY <2>1, <2>2
<1> HIDE DEF S
<1>3. n \in S
  BY <1>1, <1>2, CountsUp
<1>4. P(n)
  BY <1>3 DEF S
<1> QED BY <1>4

-----------------------------------------------------------------------------
(* The planner: costs *)

AnyOf(s) == CHOOSE x \in s : TRUE

\* The cost of a selection, as IsBestCover has it.
CostOf(candidates, s) == MapThenSumSet(LAMBDA k : candidates[k].cost, s)

SumAt(f, candidates, s) ==
  IF s = {} THEN 0 ELSE candidates[AnyOf(s)].cost + f[s \ {AnyOf(s)}]

\* f sums the costs of the subsets of S.
Sums(f, candidates, S) == \A s \in SUBSET S : f[s] = SumAt(f, candidates, s)

IsSum(f, candidates, S) == Sums(f, candidates, S) /\ f = [s \in SUBSET S |-> f[s]]

\* The subsets of a finite set without one of their members are smaller.
LEMMA SmallerSubset ==
  ASSUME NEW S, IsFiniteSet(S), NEW s \in SUBSET S, NEW x \in s
  PROVE  /\ IsFiniteSet(s) /\ Cardinality(s) \in Nat /\ s \ {x} \in SUBSET S
         /\ Cardinality(s \ {x}) = Cardinality(s) - 1 /\ Cardinality(s \ {x}) \in Nat
<1>1. IsFiniteSet(s)
  BY FS_Subset
<1>2. IsFiniteSet(s \ {x}) /\ Cardinality(s \ {x}) = Cardinality(s) - 1
  BY <1>1, FS_RemoveElement
<1> QED BY <1>1, <1>2, FS_CardinalityType

\* There is such a sum.
LEMMA SumsExist ==
  ASSUME NEW candidates, NEW S, IsFiniteSet(S)
  PROVE  \E f : IsSum(f, candidates, S)
<1> DEFINE Small(n) == {s \in SUBSET S : Cardinality(s) <= n}
           P(n) == \E f : \A s \in Small(n) : f[s] = SumAt(f, candidates, s)
           N == {n \in Nat : P(n)}
           k == Cardinality(S)
<1>0. k \in Nat /\ \A s \in SUBSET S : Cardinality(s) \in Nat /\ Cardinality(s) <= k
  BY FS_Subset, FS_CardinalityType
<1>1. 0 \in N
  <2> DEFINE f == [s \in SUBSET S |-> 0]
  <2>1. ASSUME NEW s \in Small(0) PROVE f[s] = SumAt(f, candidates, s)
    <3>1. IsFiniteSet(s) /\ Cardinality(s) = 0
      BY <1>0, FS_Subset
    <3>2. s = {}
      BY <3>1, FS_EmptySet
    <3> QED BY <3>2 DEF SumAt
  <2> HIDE DEF f
  <2> QED BY <2>1
<1>2. ASSUME NEW n \in 0 .. (k - 1), n \in N PROVE n + 1 \in N
  <2>1. n \in Nat
    OBVIOUS
  <2>2. PICK f : \A s \in Small(n) : f[s] = SumAt(f, candidates, s)
    BY <1>2
  <2> DEFINE g == [s \in SUBSET S |-> IF Cardinality(s) <= n THEN f[s] ELSE SumAt(f, candidates, s)]
  <2>3. \A s \in Small(n) : g[s] = f[s]
    OBVIOUS
  <2>4. \A s \in SUBSET S : g[s] = SumAt(f, candidates, s)
    BY <2>2
  <2>5. ASSUME NEW s \in Small(n + 1) PROVE SumAt(g, candidates, s) = SumAt(f, candidates, s)
    <3>1. CASE s = {}
      BY <3>1 DEF SumAt
    <3>2. CASE s # {}
      <4> DEFINE x == AnyOf(s)
      <4>1. x \in s
        BY <3>2 DEF AnyOf
      <4> HIDE DEF x
      <4>2. s \ {x} \in SUBSET S /\ Cardinality(s \ {x}) = Cardinality(s) - 1
        BY <4>1, SmallerSubset
      <4>3. s \ {x} \in Small(n)
        BY <1>0, <2>1, <4>2
      <4>4. g[s \ {x}] = f[s \ {x}]
        BY <2>3, <4>3
      <4> QED BY <4>4 DEF SumAt, x
    <3> QED BY <3>1, <3>2
  <2>6. \A s \in Small(n + 1) : s \in SUBSET S
    OBVIOUS
  <2> HIDE DEF g, Small
  <2>7. \A s \in Small(n + 1) : g[s] = SumAt(g, candidates, s)
    BY <2>4, <2>5, <2>6
  <2> QED BY <2>1, <2>7
<1>3. k \in 0 .. k
  BY <1>0
<1> HIDE DEF N
<1>4. k \in N
  BY <1>0, <1>1, <1>2, <1>3, CountsUp
<1>5. PICK f : \A s \in Small(k) : f[s] = SumAt(f, candidates, s)
  BY <1>4 DEF N
<1>6. Small(k) = SUBSET S
  BY <1>0
<1> DEFINE h == [s \in SUBSET S |-> f[s]]
<1>7. ASSUME NEW s \in SUBSET S PROVE h[s] = SumAt(h, candidates, s)
  <2>1. h[s] = SumAt(f, candidates, s)
    BY <1>5, <1>6
  <2>2. s \ {AnyOf(s)} \in SUBSET S
    OBVIOUS
  <2>3. h[s \ {AnyOf(s)}] = f[s \ {AnyOf(s)}]
    BY <2>2
  <2> HIDE DEF h
  <2> QED BY <2>1, <2>3 DEF SumAt
<1>8. h = [s \in SUBSET S |-> h[s]]
  OBVIOUS
<1> HIDE DEF h
<1>9. Sums(h, candidates, S)
  BY <1>7 DEF Sums
<1> QED BY <1>8, <1>9 DEF IsSum

\* A sum does not depend on the set its subsets are taken from.
LEMMA SumsAgree ==
  ASSUME NEW candidates, NEW S, IsFiniteSet(S), NEW f, Sums(f, candidates, S),
         NEW T, NEW g, Sums(g, candidates, T), NEW r, r \subseteq S, r \subseteq T
  PROVE  f[r] = g[r]
<1> DEFINE N == {n \in Nat : \A s \in SUBSET r : Cardinality(s) <= n => f[s] = g[s]}
           k == Cardinality(r)
<1>0. IsFiniteSet(r) /\ k \in Nat
  BY FS_Subset, FS_CardinalityType
<1>1. \A s \in SUBSET r : f[s] = SumAt(f, candidates, s) /\ g[s] = SumAt(g, candidates, s)
  BY DEF Sums
<1>2. \A s \in SUBSET r : Cardinality(s) \in Nat /\ IsFiniteSet(s)
  BY <1>0, FS_Subset, FS_CardinalityType
<1>3. 0 \in N
  <2> SUFFICES ASSUME NEW s \in SUBSET r, Cardinality(s) <= 0 PROVE f[s] = g[s]
    OBVIOUS
  <2>1. s = {}
    BY <1>2, FS_EmptySet
  <2> QED BY <1>1, <2>1 DEF SumAt
<1>4. ASSUME NEW n \in 0 .. (k - 1), n \in N PROVE n + 1 \in N
  <2>1. n \in Nat /\ n + 1 \in Nat
    OBVIOUS
  <2> SUFFICES ASSUME NEW s \in SUBSET r, Cardinality(s) <= n + 1 PROVE f[s] = g[s]
    BY <2>1
  <2>2. CASE s = {}
    BY <1>1, <2>2 DEF SumAt
  <2>3. CASE s # {}
    <3> DEFINE x == AnyOf(s)
    <3>1. x \in s
      BY <2>3 DEF AnyOf
    <3> HIDE DEF x
    <3>2. s \ {x} \in SUBSET r /\ Cardinality(s \ {x}) = Cardinality(s) - 1
      BY <1>0, <3>1, SmallerSubset
    <3>3. Cardinality(s \ {x}) <= n
      BY <1>2, <2>1, <3>2
    <3>4. f[s \ {x}] = g[s \ {x}]
      BY <1>4, <3>2, <3>3
    <3> QED BY <1>1, <2>3, <3>4 DEF SumAt, x
  <2> QED BY <2>2, <2>3
<1>5. k \in 0 .. k /\ k <= k
  BY <1>0
<1> HIDE DEF N
<1>6. k \in N
  BY <1>0, <1>3, <1>4, <1>5, CountsUp
<1> QED BY <1>5, <1>6 DEF N

\* A sum can be taken in any order.
LEMMA SumsInAnyOrder ==
  ASSUME NEW candidates, NEW S, IsFiniteSet(S), NEW f, Sums(f, candidates, S),
         \A x \in S : candidates[x].cost \in Nat
  PROVE  \A s \in SUBSET S : /\ f[s] \in Nat
                             /\ \A x \in s : f[s] = candidates[x].cost + f[s \ {x}]
<1> DEFINE Fine(s) == /\ f[s] \in Nat
                      /\ \A x \in s : f[s] = candidates[x].cost + f[s \ {x}]
           N == {n \in Nat : \A s \in SUBSET S : Cardinality(s) <= n => Fine(s)}
           k == Cardinality(S)
<1>0. k \in Nat /\ \A s \in SUBSET S : /\ IsFiniteSet(s) /\ Cardinality(s) \in Nat
                                       /\ Cardinality(s) <= k
  BY FS_Subset, FS_CardinalityType
<1>1. \A s \in SUBSET S : f[s] = SumAt(f, candidates, s)
  BY DEF Sums
<1>2. f[{}] = 0
  BY <1>1 DEF SumAt
<1>3. 0 \in N
  <2> SUFFICES ASSUME NEW s \in SUBSET S, Cardinality(s) <= 0 PROVE Fine(s)
    OBVIOUS
  <2>1. s = {}
    BY <1>0, FS_EmptySet
  <2> QED BY <1>2, <2>1
<1>4. ASSUME NEW n \in 0 .. (k - 1), n \in N PROVE n + 1 \in N
  <2>1. n \in Nat /\ n + 1 \in Nat
    OBVIOUS
  <2> SUFFICES ASSUME NEW s \in SUBSET S, Cardinality(s) <= n + 1 PROVE Fine(s)
    BY <2>1
  <2>2. CASE s = {}
    BY <1>2, <2>2
  <2>3. CASE s # {}
    <3> DEFINE c == AnyOf(s)
    <3>1. c \in s
      BY <2>3 DEF AnyOf
    <3>2. f[s] = candidates[c].cost + f[s \ {c}]
      BY <1>1, <2>3 DEF SumAt
    <3> HIDE DEF c
    <3>3. \A x \in s : Fine(s \ {x})
      <4> SUFFICES ASSUME NEW x \in s PROVE Fine(s \ {x})
        OBVIOUS
      <4>1. s \ {x} \in SUBSET S /\ Cardinality(s \ {x}) = Cardinality(s) - 1
        BY SmallerSubset
      <4>2. Cardinality(s \ {x}) <= n
        BY <1>0, <2>1, <4>1
      <4> HIDE DEF Fine
      <4> QED BY <1>4, <4>1, <4>2
    <3>4. \A x \in s : candidates[x].cost \in Nat
      OBVIOUS
    <3>5. f[s] \in Nat
      BY <3>1, <3>2, <3>3, <3>4
    <3>6. ASSUME NEW x \in s PROVE f[s] = candidates[x].cost + f[s \ {x}]
      <4>1. CASE x = c
        BY <3>2, <4>1
      <4>2. CASE x # c
        <5>1. c \in s \ {x} /\ x \in s \ {c} /\ (s \ {x}) \ {c} = (s \ {c}) \ {x}
          BY <3>1, <4>2
        <5> DEFINE rest == f[(s \ {x}) \ {c}]
        <5>2. f[s \ {x}] = candidates[c].cost + rest
          BY <3>1, <3>3, <5>1
        <5>3. f[s \ {c}] = candidates[x].cost + rest
          BY <3>1, <3>3, <5>1
        <5>4. rest \in Nat
          <6>1. (s \ {x}) \ {c} \in SUBSET S /\ Cardinality((s \ {x}) \ {c}) <= n
            <7>1. s \ {x} \in SUBSET S /\ Cardinality(s \ {x}) = Cardinality(s) - 1
              BY SmallerSubset
            <7>2. (s \ {x}) \ {c} \in SUBSET S
                  /\ Cardinality((s \ {x}) \ {c}) = Cardinality(s \ {x}) - 1
              <8> DEFINE less == s \ {x}
              <8>1. less \in SUBSET S /\ c \in less
                BY <5>1, <7>1
              <8> HIDE DEF less
              <8>2. less \ {c} \in SUBSET S /\ Cardinality(less \ {c}) = Cardinality(less) - 1
                BY <8>1, SmallerSubset
              <8> QED BY <8>2 DEF less
            <7> QED BY <1>0, <2>1, <7>1, <7>2
          <6> QED BY <1>4, <6>1
        <5>5. candidates[x].cost \in Nat /\ candidates[c].cost \in Nat
          BY <3>1, <3>4
        <5> HIDE DEF rest
        <5> QED BY <3>2, <5>2, <5>3, <5>4, <5>5
      <4> QED BY <4>1, <4>2
    <3> QED BY <3>5, <3>6
  <2> QED BY <2>2, <2>3
<1>5. k \in 0 .. k
  BY <1>0
<1> HIDE DEF N
<1>6. k \in N
  BY <1>0, <1>3, <1>4, <1>5, CountsUp
<1>7. \A s \in SUBSET S : Fine(s)
  <2> HIDE DEF Fine
  <2> QED BY <1>0, <1>6 DEF N
<1> QED BY <1>7

CostsIn(candidates, k) == \A x \in 1 .. k : candidates[x].cost \in Nat

CostsAdd(candidates, k) ==
  /\ CostOf(candidates, {}) = 0
  /\ \A s \in SUBSET (1 .. k) :
       /\ CostOf(candidates, s) \in Nat
       /\ \A x \in s : CostOf(candidates, s) = candidates[x].cost + CostOf(candidates, s \ {x})

\* The cost of a selection is the sum of its candidates' costs.
LEMMA CostAdds ==
  ASSUME NEW k \in Nat, NEW candidates, CostsIn(candidates, k)
  PROVE  CostsAdd(candidates, k)
<1> DEFINE S == 1 .. k
<1>1. IsFiniteSet(S) /\ \A x \in S : candidates[x].cost \in Nat
  BY FS_Interval DEF CostsIn
<1> HIDE DEF S
<1>2. PICK f : IsSum(f, candidates, S)
  BY <1>1, SumsExist
<1>2a. Sums(f, candidates, S)
  BY <1>2 DEF IsSum
<1>3. ASSUME NEW s \in SUBSET S PROVE CostOf(candidates, s) = f[s]
  <2> DEFINE g == CHOOSE g : g = [r \in SUBSET s |->
                    IF r = {} THEN 0
                    ELSE candidates[CHOOSE x \in r : TRUE].cost + g[r \ {CHOOSE x \in r : TRUE}]]
  <2>1. CostOf(candidates, s) = g[s]
    BY DEF CostOf, MapThenSumSet, MapThenFoldSet
  <2>2. IsFiniteSet(s)
    BY <1>1, FS_Subset
  <2>3. PICK h : IsSum(h, candidates, s)
    <3> HIDE DEF g
    <3> QED BY <2>2, SumsExist
  <2>3a. Sums(h, candidates, s) /\ h = [r \in SUBSET s |-> h[r]]
    BY <2>3 DEF IsSum
  <2>4. h = [r \in SUBSET s |-> SumAt(h, candidates, r)]
    <3>1. \A r \in SUBSET s : h[r] = SumAt(h, candidates, r)
      BY <2>3a DEF Sums
    <3> QED BY <2>3a, <3>1
  <2>5. g = [r \in SUBSET s |-> SumAt(g, candidates, r)]
    BY <2>4 DEF SumAt, AnyOf
  <2> HIDE DEF g
  <2>6. Sums(g, candidates, s)
    BY <2>5 DEF Sums
  <2>7. f[s] = g[s]
    <3>1. s \subseteq S /\ s \subseteq s
      OBVIOUS
    <3> QED BY <1>1, <1>2a, <2>6, <3>1, SumsAgree
  <2> QED BY <2>1, <2>7
<1>4. \A s \in SUBSET S : /\ f[s] \in Nat
                          /\ \A x \in s : f[s] = candidates[x].cost + f[s \ {x}]
  BY <1>1, <1>2a, SumsInAnyOrder
<1>6. {} \in SUBSET S /\ \A s \in SUBSET S : \A x \in s : s \ {x} \in SUBSET S
  OBVIOUS
<1>5. f[{}] = 0
  BY <1>2a, <1>6 DEF Sums, SumAt
<1>7. /\ CostOf(candidates, {}) = 0
      /\ \A s \in SUBSET S :
           /\ CostOf(candidates, s) \in Nat
           /\ \A x \in s : CostOf(candidates, s)
                             = candidates[x].cost + CostOf(candidates, s \ {x})
  BY <1>3, <1>4, <1>5, <1>6
<1> QED BY <1>7 DEF S, CostsAdd

-----------------------------------------------------------------------------
(* The planner: the order of selections *)

\* The size of a selection is a number.
LEMMA SelectionSize ==
  ASSUME NEW k \in Nat, NEW s \in SUBSET (1 .. k)
  PROVE  IsFiniteSet(s) /\ Cardinality(s) \in Nat /\ Cardinality(s) <= k
<1>1. IsFiniteSet(1 .. k) /\ Cardinality(1 .. k) = k
  BY FS_Interval
<1>2. IsFiniteSet(s) /\ Cardinality(s) <= k
  BY <1>1, FS_Subset
<1> QED BY <1>2, FS_CardinalityType

\* A selection a is as good as b in a pass.
AtMost(pass, candidates, a, b) ==
  IF pass = "validity" THEN Cardinality(a) <= Cardinality(b)
  ELSE \/ CostOf(candidates, a) < CostOf(candidates, b)
       \/ /\ CostOf(candidates, a) = CostOf(candidates, b)
          /\ Cardinality(a) <= Cardinality(b)

\* Its size and its cost are numbers.
LEMMA SelectionNumbers ==
  ASSUME NEW k \in Nat, NEW candidates, CostsIn(candidates, k), NEW s \in SUBSET (1 .. k)
  PROVE  Cardinality(s) \in Nat /\ CostOf(candidates, s) \in Nat
<1>1. CostOf(candidates, s) \in Nat
  BY CostAdds DEF CostsAdd
<1> QED BY <1>1, SelectionSize

LEMMA AtMostTransitive ==
  ASSUME NEW k \in Nat, NEW candidates, CostsIn(candidates, k), NEW pass,
         NEW a \in SUBSET (1 .. k), NEW b \in SUBSET (1 .. k), NEW c \in SUBSET (1 .. k),
         AtMost(pass, candidates, a, b), AtMost(pass, candidates, b, c)
  PROVE  AtMost(pass, candidates, a, c)
<1>1. /\ Cardinality(a) \in Nat /\ CostOf(candidates, a) \in Nat
      /\ Cardinality(b) \in Nat /\ CostOf(candidates, b) \in Nat
      /\ Cardinality(c) \in Nat /\ CostOf(candidates, c) \in Nat
  BY SelectionNumbers
<1> QED BY <1>1 DEF AtMost

\* One candidate more adds its cost and one to the size.
LEMMA OneMore ==
  ASSUME NEW k \in Nat, NEW candidates, CostsIn(candidates, k),
         NEW s \in SUBSET (1 .. k), NEW x \in 1 .. k, x \notin s
  PROVE  /\ s \cup {x} \in SUBSET (1 .. k)
         /\ Cardinality(s \cup {x}) = Cardinality(s) + 1
         /\ CostOf(candidates, s \cup {x}) = candidates[x].cost + CostOf(candidates, s)
<1>1. s \cup {x} \in SUBSET (1 .. k) /\ x \in s \cup {x} /\ (s \cup {x}) \ {x} = s
  OBVIOUS
<1>2. Cardinality(s \cup {x}) = Cardinality(s) + 1
  BY SelectionSize, FS_AddElement
<1>3. \A r \in SUBSET (1 .. k) : \A y \in r :
        CostOf(candidates, r) = candidates[y].cost + CostOf(candidates, r \ {y})
  <2>1. CostsAdd(candidates, k)
    BY CostAdds
  <2> QED BY <2>1 DEF CostsAdd
<1> DEFINE r == s \cup {x}
<1>4. r \in SUBSET (1 .. k) /\ x \in r /\ r \ {x} = s
  BY <1>1
<1> HIDE DEF r
<1>5. CostOf(candidates, r) = candidates[x].cost + CostOf(candidates, r \ {x})
  BY <1>3, <1>4
<1>6. CostOf(candidates, r) = candidates[x].cost + CostOf(candidates, s)
  BY <1>4, <1>5
<1> QED BY <1>1, <1>2, <1>6 DEF r

\* The order is kept by one candidate more, which is never better than without.
LEMMA AtMostOneMore ==
  ASSUME NEW k \in Nat, NEW candidates, CostsIn(candidates, k), NEW pass,
         NEW a \in SUBSET (1 .. k), NEW b \in SUBSET (1 .. k), NEW x \in 1 .. k,
         x \notin a, x \notin b, AtMost(pass, candidates, a, b)
  PROVE  AtMost(pass, candidates, a \cup {x}, b \cup {x})
<1>1. /\ Cardinality(a) \in Nat /\ CostOf(candidates, a) \in Nat
      /\ Cardinality(b) \in Nat /\ CostOf(candidates, b) \in Nat
  BY SelectionNumbers
<1>2. /\ Cardinality(a \cup {x}) = Cardinality(a) + 1
      /\ CostOf(candidates, a \cup {x}) = candidates[x].cost + CostOf(candidates, a)
  BY OneMore
<1>3. /\ Cardinality(b \cup {x}) = Cardinality(b) + 1
      /\ CostOf(candidates, b \cup {x}) = candidates[x].cost + CostOf(candidates, b)
  BY OneMore
<1>4. candidates[x].cost \in Nat
  BY DEF CostsIn
<1> QED BY <1>1, <1>2, <1>3, <1>4 DEF AtMost

LEMMA AtMostWithMore ==
  ASSUME NEW k \in Nat, NEW candidates, CostsIn(candidates, k), NEW pass,
         NEW a \in SUBSET (1 .. k), NEW x \in 1 .. k, x \notin a
  PROVE  AtMost(pass, candidates, a, a \cup {x})
<1>1. Cardinality(a) \in Nat /\ CostOf(candidates, a) \in Nat /\ candidates[x].cost \in Nat
  BY SelectionNumbers DEF CostsIn
<1>2. /\ Cardinality(a \cup {x}) = Cardinality(a) + 1
      /\ CostOf(candidates, a \cup {x}) = candidates[x].cost + CostOf(candidates, a)
  BY OneMore
<1> QED BY <1>1, <1>2 DEF AtMost

-----------------------------------------------------------------------------
(* The planner: the best of some states *)

FoundIn(states) == {s \in states : s.found}

Passes == {"validity", "economics"}

\* A selection from the first k candidates with its cost.
PricedState(s, candidates, k) ==
  /\ s.selected \in SUBSET (1 .. k)
  /\ s = [found |-> TRUE, selected |-> s.selected, cost |-> CostOf(candidates, s.selected)]

LEMMA PricedNumbers ==
  ASSUME NEW k \in Nat, NEW candidates, CostsIn(candidates, k), NEW s, PricedState(s, candidates, k)
  PROVE  /\ s.selected \in SUBSET (1 .. k) /\ Cardinality(s.selected) \in Nat
         /\ s.cost \in Nat /\ s.cost = CostOf(candidates, s.selected)
<1>1. s.selected \in SUBSET (1 .. k) /\ s.cost = CostOf(candidates, s.selected)
  BY DEF PricedState
<1> QED BY <1>1, SelectionNumbers

\* Among such states there is one with the fewest candidates and the least mask.
LEMMA FewestExists ==
  ASSUME NEW k \in Nat, NEW candidates, NEW X, X # {}, \A s \in X : PricedState(s, candidates, k)
  PROVE  \E s \in X : \A t \in X : t = s \/ FewerThan(s, t)
<1> DEFINE sizes == {Cardinality(s.selected) : s \in X}
<1>1. sizes \subseteq Nat /\ sizes # {}
  BY SelectionSize DEF PricedState
<1>2. PICK c \in sizes : \A d \in sizes : c <= d
  <2> HIDE DEF sizes
  <2> QED BY <1>1, LeastNumber
<1> DEFINE least == {s \in X : Cardinality(s.selected) = c}
           F == {s.selected : s \in least}
<1>3. F \subseteq SUBSET (1 .. k) /\ F # {}
  BY <1>2 DEF PricedState
<1>4. PICK m \in F : \A j \in F : j = m \/ BitsLess(m, j)
  <2> HIDE DEF F
  <2> QED BY <1>3, LeastMask
<1>5. PICK s \in least : s.selected = m
  BY <1>4
<1>6. ASSUME NEW t \in X PROVE t = s \/ FewerThan(s, t)
  <2>1. Cardinality(s.selected) = c /\ Cardinality(t.selected) \in sizes
    BY <1>5
  <2>2. c \in Nat /\ Cardinality(t.selected) \in Nat /\ c <= Cardinality(t.selected)
    BY <1>1, <1>2, <2>1
  <2>3. CASE Cardinality(t.selected) # c
    BY <2>1, <2>2, <2>3 DEF FewerThan
  <2>4. CASE Cardinality(t.selected) = c
    <3>1. t.selected \in F
      BY <2>4
    <3>2. t.selected = m \/ BitsLess(m, t.selected)
      BY <3>1, <1>4
    <3>3. t.selected = s.selected => t = s
      BY <1>5 DEF PricedState
    <3> QED BY <3>2, <3>3, <1>5, <2>1, <2>4 DEF FewerThan
  <2> QED BY <2>3, <2>4
<1> QED BY <1>5, <1>6

\* There is a best state in both passes.
LEMMA BestExists ==
  ASSUME NEW k \in Nat, NEW candidates, CostsIn(candidates, k),
         NEW X, X # {}, \A s \in X : PricedState(s, candidates, k), NEW pass \in Passes
  PROVE  \E s \in X : \A t \in X : t = s \/ Better(pass, s, t)
<1>1. CASE pass = "validity"
  BY <1>1, FewestExists DEF Better
<1>2. CASE pass # "validity"
  <2> DEFINE costs == {s.cost : s \in X}
  <2>1. costs \subseteq Nat /\ costs # {}
    BY PricedNumbers
  <2>2. PICK c \in costs : \A d \in costs : c <= d
    <3> HIDE DEF costs
    <3> QED BY <2>1, LeastNumber
  <2> DEFINE cheapest == {s \in X : s.cost = c}
  <2>3. cheapest # {} /\ \A s \in cheapest : PricedState(s, candidates, k)
    BY <2>2
  <2>4. PICK s \in cheapest : \A t \in cheapest : t = s \/ FewerThan(s, t)
    <3> HIDE DEF cheapest
    <3> QED BY <2>3, FewestExists
  <2>5. ASSUME NEW t \in X PROVE t = s \/ Better(pass, s, t)
    <3>1. s.cost = c /\ t.cost \in costs
      BY <2>4
    <3>2. c \in Nat /\ t.cost \in Nat /\ c <= t.cost
      BY <2>1, <2>2, <3>1
    <3>3. CASE t.cost = c
      <4>1. t = s \/ FewerThan(s, t)
        BY <2>4, <3>3
      <4> QED BY <1>2, <3>1, <3>3, <4>1 DEF Better, CheaperThan
    <3>4. CASE t.cost # c
      BY <1>2, <3>1, <3>2, <3>4 DEF Better, CheaperThan
    <3> QED BY <3>3, <3>4
  <2> QED BY <2>4, <2>5
<1> QED BY <1>1, <1>2

\* Best takes one that is as good as each.
LEMMA BestOfPriced ==
  ASSUME NEW k \in Nat, NEW candidates, CostsIn(candidates, k),
         NEW X, FoundIn(X) # {}, \A s \in FoundIn(X) : PricedState(s, candidates, k),
         NEW pass \in Passes
  PROVE  /\ Best(X, pass) \in FoundIn(X)
         /\ \A t \in FoundIn(X) : AtMost(pass, candidates, Best(X, pass).selected, t.selected)
<1> DEFINE found == FoundIn(X)
           best == Best(X, pass)
<1>1. \E s \in found : \A t \in found : t = s \/ Better(pass, s, t)
  <2> HIDE DEF found
  <2> QED BY BestExists DEF found
<1>2. best = CHOOSE s \in found : \A t \in found : t = s \/ Better(pass, s, t)
  BY DEF Best, FoundIn
<1> HIDE DEF found, best
<1>3. best \in found /\ \A t \in found : t = best \/ Better(pass, best, t)
  BY <1>1, <1>2
<1>4. ASSUME NEW t \in found PROVE AtMost(pass, candidates, best.selected, t.selected)
  <2>1. /\ best.selected \in SUBSET (1 .. k) /\ Cardinality(best.selected) \in Nat
        /\ best.cost \in Nat /\ best.cost = CostOf(candidates, best.selected)
    BY <1>3, PricedNumbers DEF found
  <2>2. /\ t.selected \in SUBSET (1 .. k) /\ Cardinality(t.selected) \in Nat
        /\ t.cost \in Nat /\ t.cost = CostOf(candidates, t.selected)
    BY PricedNumbers DEF found
  <2>3. t = best \/ Better(pass, best, t)
    BY <1>3
  <2> QED BY <2>1, <2>2, <2>3 DEF AtMost, Better, CheaperThan, FewerThan
<1> QED BY <1>3, <1>4 DEF found, best

-----------------------------------------------------------------------------
(* The planner: its rounds *)

StartStates(n) == [mask \in Masks(n) |-> IF mask = {} THEN Root ELSE NoState]

\* f holds the states after the candidates of each subset of the first k.
Folded(f, n, candidates, pass, k) ==
  f = [s \in SUBSET (1 .. k) |->
         IF s = {} THEN StartStates(n)
         ELSE Round(f[s \ {Max(s)}], n, Max(s), candidates[Max(s)], pass)]

\* The folding relation at one candidate.
LEMMA FoldedAt ==
  ASSUME NEW f, NEW n, NEW candidates, NEW pass, NEW k, Folded(f, n, candidates, pass, k),
         NEW s, s \subseteq 1 .. k
  PROVE  f[s] = IF s = {} THEN StartStates(n)
                ELSE Round(f[s \ {Max(s)}], n, Max(s), candidates[Max(s)], pass)
BY DEF Folded

\* A fold of the first candidates goes on with the next one.
LEMMA FoldedFrom ==
  ASSUME NEW f, NEW n, NEW candidates, NEW pass, NEW k \in Nat, Folded(f, n, candidates, pass, k)
  PROVE  \E g : Folded(g, n, candidates, pass, k + 1)
<1> DEFINE x == k + 1
           g == [s \in SUBSET (1 .. x) |->
                   IF x \notin s THEN f[s] ELSE Round(f[s \ {x}], n, x, candidates[x], pass)]
           h == [s \in SUBSET (1 .. x) |->
                   IF s = {} THEN StartStates(n)
                   ELSE Round(g[s \ {Max(s)}], n, Max(s), candidates[Max(s)], pass)]
<1>1. x \in Nat /\ 1 .. x = (1 .. k) \cup {x} /\ x \notin 1 .. k
  OBVIOUS
<1>2. \A s : s \subseteq 1 .. k => g[s] = f[s]
  BY <1>1
<1>3. ASSUME NEW s \in SUBSET (1 .. x) PROVE g[s] = h[s]
  <2>1. CASE s = {}
    BY <2>1, <1>2, FoldedAt
  <2>2. CASE s # {} /\ x \notin s
    <3>1. s \subseteq 1 .. k
      BY <1>1, <2>2
    <3>2. Max(s) \in s
      BY <3>1, <2>2, MaxIsGreatest
    <3>3. g[s] = Round(f[s \ {Max(s)}], n, Max(s), candidates[Max(s)], pass)
      BY <3>1, <1>2, <2>2, FoldedAt
    <3>4. g[s \ {Max(s)}] = f[s \ {Max(s)}]
      <4>1. s \ {Max(s)} \subseteq 1 .. k
        BY <3>1
      <4> QED BY <4>1, <1>2
    <3>5. h[s] = Round(g[s \ {Max(s)}], n, Max(s), candidates[Max(s)], pass)
      BY <2>2
    <3> QED BY <3>3, <3>4, <3>5
  <2>3. CASE x \in s
    <3>1. Max(s) = x
      <4>1. Max(s) \in s /\ \A y \in s : y <= Max(s)
        BY <1>1, <2>3, MaxIsGreatest
      <4>2. x <= Max(s) /\ Max(s) \in 1 .. x
        BY <4>1, <2>3
      <4> QED BY <4>2, <1>1
    <3>2. s \ {x} \subseteq 1 .. k
      BY <1>1
    <3>3. g[s \ {x}] = f[s \ {x}]
      BY <3>2, <1>2
    <3>4. g[s] = Round(f[s \ {x}], n, x, candidates[x], pass)
      BY <2>3
    <3>5. h[s] = Round(g[s \ {x}], n, x, candidates[x], pass)
      BY <3>1, <2>3
    <3> QED BY <3>3, <3>4, <3>5
  <2> QED BY <2>1, <2>2, <2>3
<1>4. g = [s \in SUBSET (1 .. x) |-> g[s]] /\ h = [s \in SUBSET (1 .. x) |-> h[s]]
  OBVIOUS
<1> HIDE DEF g
<1>5. g = h
  <2> HIDE DEF h
  <2> QED BY <1>3, <1>4
<1>6. Folded(g, n, candidates, pass, x)
  BY <1>5 DEF Folded
<1> QED BY <1>6

\* There is a fold of all the candidates.
LEMMA FoldedExists ==
  ASSUME NEW n, NEW candidates, NEW pass, NEW k \in Nat
  PROVE  \E f : Folded(f, n, candidates, pass, k)
<1> DEFINE S == {j \in Nat : \E f : Folded(f, n, candidates, pass, j)}
<1>1. 0 \in S
  <2>1. SUBSET (1 .. 0) = {{}}
    OBVIOUS
  <2>2. Folded([s \in SUBSET (1 .. 0) |-> StartStates(n)], n, candidates, pass, 0)
    BY <2>1 DEF Folded
  <2> QED BY <2>2
<1>2. \A j \in 0 .. (k - 1) : j \in S => j + 1 \in S
  BY FoldedFrom
<1> HIDE DEF S
<1>3. k \in S
  BY <1>1, <1>2, CountsUp
<1> QED BY <1>3 DEF S

\* Rounds takes the candidates one by one, from the first to the last.
LEMMA RoundsFold ==
  ASSUME NEW n, NEW candidates, NEW pass, NEW k \in Nat, DOMAIN candidates = 1 .. k
  PROVE  \E f : Folded(f, n, candidates, pass, k) /\ Rounds(n, candidates, pass) = f[1 .. k]
<1> DEFINE f == CHOOSE f : f = [s \in SUBSET (1 .. k) |->
                  IF s = {} THEN StartStates(n)
                  ELSE Round(f[s \ {Max(s)}], n, Max(s), candidates[Max(s)], pass)]
<1>1. Folded(f, n, candidates, pass, k)
  <2>1. \E g : g = [s \in SUBSET (1 .. k) |->
                  IF s = {} THEN StartStates(n)
                  ELSE Round(g[s \ {Max(s)}], n, Max(s), candidates[Max(s)], pass)]
    <3>1. PICK g : Folded(g, n, candidates, pass, k)
      BY FoldedExists
    <3> QED BY <3>1 DEF Folded
  <2> QED BY <2>1 DEF Folded
<1>2. Rounds(n, candidates, pass) = f[1 .. k]
  BY DEF Rounds, MapThenFoldSet, StartStates
<1> QED BY <1>1, <1>2

\* After a candidate the states are one round further.
LEMMA FoldedNext ==
  ASSUME NEW f, NEW n, NEW candidates, NEW pass, NEW k \in Nat, Folded(f, n, candidates, pass, k),
         NEW j \in 0 .. (k - 1)
  PROVE  f[1 .. (j + 1)] = Round(f[1 .. j], n, j + 1, candidates[j + 1], pass)
<1> DEFINE s == 1 .. (j + 1)
<1>1. s \subseteq 1 .. k /\ s # {} /\ j + 1 \in Nat /\ j + 1 \in s
  <2>1. j + 1 \in Nat /\ j + 1 <= k
    OBVIOUS
  <2>2. j + 1 \in s
    BY <2>1
  <2>3. s \subseteq 1 .. k
    BY <2>1
  <2> QED BY <2>1, <2>2, <2>3
<1>2. Max(s) = j + 1
  <2>1. Max(s) \in s /\ \A y \in s : y <= Max(s)
    BY <1>1, MaxIsGreatest
  <2>2. j + 1 <= Max(s) /\ Max(s) \in 1 .. (j + 1)
    BY <2>1, <1>1
  <2> QED BY <2>2
<1>3. s \ {j + 1} = 1 .. j
  OBVIOUS
<1>4. f[s] = Round(f[s \ {Max(s)}], n, Max(s), candidates[Max(s)], pass)
  <2> HIDE DEF s
  <2>1. s \subseteq 1 .. k /\ s # {}
    BY <1>1
  <2>2. f[s] = IF s = {} THEN StartStates(n)
               ELSE Round(f[s \ {Max(s)}], n, Max(s), candidates[Max(s)], pass)
    BY <2>1 DEF Folded
  <2> QED BY <2>1, <2>2
<1>5. f[s] = Round(f[1 .. j], n, j + 1, candidates[j + 1], pass)
  <2> HIDE DEF s
  <2> QED BY <1>2, <1>3, <1>4
<1> QED BY <1>5

-----------------------------------------------------------------------------
(* The planner: what its states promise *)

\* Candidates 1 .. k for n obligations.  The resolver offers them free of cost;
\* with costs, the budget must not be what decides.
PricedCandidates(candidates, n, k) ==
  /\ DOMAIN candidates = 1 .. k
  /\ \A j \in 1 .. k : candidates[j].covers \subseteq 1 .. n /\ candidates[j].cost \in Nat
  /\ (\A j \in 1 .. k : candidates[j].cost = 0) \/ k <= MaxArtifacts

\* A state for a mask is a selection within the budget that covers exactly the
\* mask.
StateFits(s, mask, candidates, k) ==
  /\ PricedState(s, candidates, k)
  /\ Coverage(candidates, s.selected) = mask
  /\ Cardinality(s.selected) <= MaxArtifacts

\* For what a selection covers there is a state that is as good.
Reached(states, candidates, pass, s) ==
  /\ states[Coverage(candidates, s)].found
  /\ AtMost(pass, candidates, states[Coverage(candidates, s)].selected, s)

\* The states after k candidates.
StatesFit(states, n, candidates, k) ==
  \A mask \in Masks(n) : states[mask].found => StateFits(states[mask], mask, candidates, k)

StatesReach(states, candidates, pass, k) ==
  \A s \in SUBSET (1 .. k) : Cardinality(s) <= MaxArtifacts => Reached(states, candidates, pass, s)

LEMMA CoverageIsAMask ==
  ASSUME NEW n, NEW k \in Nat, NEW candidates, PricedCandidates(candidates, n, k),
         NEW s \in SUBSET (1 .. k)
  PROVE  Coverage(candidates, s) \in Masks(n)
BY DEF Coverage, Masks, PricedCandidates

LEMMA PricesAreCosts ==
  ASSUME NEW n, NEW k \in Nat, NEW candidates, PricedCandidates(candidates, n, k)
  PROVE  CostsIn(candidates, k)
BY DEF PricedCandidates, CostsIn

\* The cost of free candidates is nothing.
LEMMA FreeSelection ==
  ASSUME NEW k \in Nat, NEW candidates, \A x \in 1 .. k : candidates[x].cost = 0,
         NEW s \in SUBSET (1 .. k)
  PROVE  CostOf(candidates, s) = 0
<1> DEFINE N == {n \in Nat : \A r \in SUBSET (1 .. k) :
                    Cardinality(r) <= n => CostOf(candidates, r) = 0}
<1>1. CostsIn(candidates, k)
  BY DEF CostsIn
<1>2. CostsAdd(candidates, k)
  BY <1>1, CostAdds
<1>3. 0 \in N
  <2> SUFFICES ASSUME NEW r \in SUBSET (1 .. k), Cardinality(r) <= 0
               PROVE  CostOf(candidates, r) = 0
    OBVIOUS
  <2>1. IsFiniteSet(r) /\ Cardinality(r) = 0
    BY SelectionSize
  <2>2. r = {}
    BY <2>1, FS_EmptySet
  <2> QED BY <1>2, <2>2 DEF CostsAdd
<1>4. ASSUME NEW j \in 0 .. (k - 1), j \in N PROVE j + 1 \in N
  <2>1. j \in Nat /\ j + 1 \in Nat
    OBVIOUS
  <2> SUFFICES ASSUME NEW r \in SUBSET (1 .. k), Cardinality(r) <= j + 1
               PROVE  CostOf(candidates, r) = 0
    BY <2>1
  <2>2. CASE r = {}
    BY <1>2, <2>2 DEF CostsAdd
  <2>3. CASE r # {}
    <3>1. PICK x : x \in r
      BY <2>3
    <3>2. IsFiniteSet(1 .. k)
      BY FS_Interval
    <3>3. /\ Cardinality(r) \in Nat /\ r \ {x} \in SUBSET (1 .. k)
          /\ Cardinality(r \ {x}) = Cardinality(r) - 1
      BY <3>1, <3>2, SmallerSubset
    <3>4. Cardinality(r \ {x}) <= j
      BY <2>1, <3>3
    <3>5. CostOf(candidates, r \ {x}) = 0
      BY <1>4, <3>3, <3>4
    <3>6. CostOf(candidates, r) = candidates[x].cost + CostOf(candidates, r \ {x})
      BY <1>2, <3>1 DEF CostsAdd
    <3>7. candidates[x].cost = 0
      BY <3>1
    <3> QED BY <3>5, <3>6, <3>7
  <2> QED BY <2>2, <2>3
<1>5. k \in 0 .. k /\ Cardinality(s) <= k
  BY SelectionSize
<1> HIDE DEF N
<1>6. k \in N
  BY <1>3, <1>4, <1>5, CountsUp
<1> QED BY <1>5, <1>6 DEF N

\* What a round chooses from, for one mask.
Options(states, n, number, candidate, mask) ==
  {states[mask]} \cup
  {[found |-> TRUE, selected |-> states[m].selected \cup {number},
    cost |-> states[m].cost + candidate.cost]
     : m \in {m \in Masks(n) :
                /\ candidate.covers # {} /\ m \cup candidate.covers = mask
                /\ states[m].found
                /\ Cardinality(states[m].selected) < MaxArtifacts}}

\* A round takes the best of the options at each mask.
LEMMA RoundChooses ==
  ASSUME NEW states, NEW n, NEW number, NEW candidate, NEW pass
  PROVE  Round(states, n, number, candidate, pass)
           = [mask \in Masks(n) |-> Best(Options(states, n, number, candidate, mask), pass)]
BY DEF Round, Options

\* A candidate more covers its part more.
LEMMA CoverageOfOneMore ==
  ASSUME NEW candidates, NEW selected, NEW number
  PROVE  Coverage(candidates, selected \cup {number})
           = Coverage(candidates, selected) \cup candidates[number].covers
BY DEF Coverage

\* The options of a round fit their mask when the states before it do.
LEMMA OptionsFit ==
  ASSUME NEW n \in Nat, NEW k \in Nat, NEW candidates, PricedCandidates(candidates, n, k),
         NEW j \in 0 .. (k - 1), NEW states, StatesFit(states, n, candidates, j),
         NEW mask \in Masks(n), NEW s \in Options(states, n, j + 1, candidates[j + 1], mask), s.found
  PROVE  StateFits(s, mask, candidates, j + 1)
<1>1. \A x : x \in SUBSET (1 .. j) => x \in SUBSET (1 .. (j + 1)) /\ x \in SUBSET (1 .. k)
  OBVIOUS
<1>2. CASE s = states[mask]
  <2>1. StateFits(s, mask, candidates, j)
    BY <1>2 DEF StatesFit
  <2> QED BY <2>1, <1>1 DEF StateFits, PricedState
<1>3. CASE s # states[mask]
  <2>1. PICK m \in Masks(n) :
          /\ m \cup candidates[j + 1].covers = mask /\ states[m].found
          /\ Cardinality(states[m].selected) < MaxArtifacts
          /\ s = [found |-> TRUE, selected |-> states[m].selected \cup {j + 1},
                  cost |-> states[m].cost + candidates[j + 1].cost]
    BY <1>3 DEF Options
  <2> DEFINE r == states[m].selected
  <2>2. PricedState(states[m], candidates, j) /\ Coverage(candidates, r) = m
    BY <2>1 DEF StatesFit, StateFits
  <2>3. states[m].cost = CostOf(candidates, r) /\ r \in SUBSET (1 .. j) /\ r \in SUBSET (1 .. k)
    BY <1>1, <2>2 DEF PricedState
  <2> HIDE DEF r
  <2>4. j + 1 \in 1 .. k /\ j + 1 \notin r /\ j + 1 \in 1 .. (j + 1)
    <3>1. j + 1 \in 1 .. k /\ j + 1 \notin 1 .. j /\ j + 1 \in 1 .. (j + 1)
      OBVIOUS
    <3> QED BY <2>3, <3>1
  <2>5. CostsIn(candidates, k)
    BY PricesAreCosts
  <2>6. /\ Cardinality(r \cup {j + 1}) = Cardinality(r) + 1
        /\ CostOf(candidates, r \cup {j + 1}) = candidates[j + 1].cost + CostOf(candidates, r)
    BY <2>3, <2>4, <2>5, OneMore
  <2>7. /\ Cardinality(r) \in Nat /\ CostOf(candidates, r) \in Nat
        /\ candidates[j + 1].cost \in Nat /\ MaxArtifacts \in Nat
    BY <2>3, <2>4, <2>5, SelectionNumbers, MaxArtifactsAssumption DEF CostsIn
  <2>8. s = [found |-> TRUE, selected |-> r \cup {j + 1}, cost |-> CostOf(candidates, r \cup {j + 1})]
    <3>1. CostOf(candidates, r) + candidates[j + 1].cost = CostOf(candidates, r \cup {j + 1})
      BY <2>6, <2>7
    <3> QED BY <2>1, <2>3, <3>1 DEF r
  <2>9. Cardinality(r \cup {j + 1}) <= MaxArtifacts
    <3>1. Cardinality(r) < MaxArtifacts
      BY <2>1 DEF r
    <3> QED BY <2>6, <2>7, <3>1
  <2>10. Coverage(candidates, r \cup {j + 1}) = mask
    <3>1. Coverage(candidates, r \cup {j + 1}) = Coverage(candidates, r) \cup candidates[j + 1].covers
      BY CoverageOfOneMore
    <3> QED BY <2>1, <2>2, <3>1 DEF r
  <2>11. r \cup {j + 1} \in SUBSET (1 .. (j + 1))
    BY <1>1, <2>3, <2>4
  <2> DEFINE q == r \cup {j + 1}
  <2>12. /\ s = [found |-> TRUE, selected |-> q, cost |-> CostOf(candidates, q)]
         /\ q \in SUBSET (1 .. (j + 1)) /\ Coverage(candidates, q) = mask
         /\ Cardinality(q) <= MaxArtifacts
    BY <2>8, <2>9, <2>10, <2>11
  <2> HIDE DEF q
  <2>13. s.selected = q
    BY <2>12
  <2> QED BY <2>12, <2>13 DEF StateFits, PricedState
<1> QED BY <1>2, <1>3

\* A round keeps the states fitting.
LEMMA RoundFits ==
  ASSUME NEW n \in Nat, NEW k \in Nat, NEW candidates, PricedCandidates(candidates, n, k),
         NEW j \in 0 .. (k - 1), NEW states, StatesFit(states, n, candidates, j),
         NEW pass \in Passes, NEW mask \in Masks(n), NEW next,
         next = Best(Options(states, n, j + 1, candidates[j + 1], mask), pass)
  PROVE  /\ next.found => StateFits(next, mask, candidates, j + 1)
         /\ \A t \in FoundIn(Options(states, n, j + 1, candidates[j + 1], mask)) :
              /\ next.found
              /\ AtMost(pass, candidates, next.selected, t.selected)
<1> DEFINE O == Options(states, n, j + 1, candidates[j + 1], mask)
<1>1. j + 1 \in Nat /\ CostsIn(candidates, j + 1)
  <2>1. j + 1 \in Nat /\ \A x \in 1 .. (j + 1) : x \in 1 .. k
    OBVIOUS
  <2>2. CostsIn(candidates, k)
    BY PricesAreCosts
  <2> QED BY <2>1, <2>2 DEF CostsIn
<1>2. \A s \in FoundIn(O) : StateFits(s, mask, candidates, j + 1) /\ s.found
  BY OptionsFit DEF FoundIn
<1>3. \A s \in FoundIn(O) : PricedState(s, candidates, j + 1)
  BY <1>2 DEF StateFits
<1>4. next = Best(O, pass)
  OBVIOUS
<1> HIDE DEF O
<1>5. CASE FoundIn(O) = {}
  <2>1. next = NoState
    BY <1>4, <1>5 DEF Best, FoundIn
  <2>2. ~next.found
    BY <2>1 DEF NoState
  <2> QED BY <1>5, <2>2 DEF O
<1>6. CASE FoundIn(O) # {}
  <2>1. /\ next \in FoundIn(O)
        /\ \A t \in FoundIn(O) : AtMost(pass, candidates, next.selected, t.selected)
    BY <1>1, <1>3, <1>4, <1>6, BestOfPriced
  <2> QED BY <1>2, <2>1 DEF O
<1> QED BY <1>5, <1>6

\* The selection at a mask can be extended when one as good is within the budget.
LEMMA BudgetAllows ==
  ASSUME NEW n \in Nat, NEW k \in Nat, NEW candidates, PricedCandidates(candidates, n, k),
         NEW j \in 0 .. (k - 1), NEW pass \in Passes,
         NEW a \in SUBSET (1 .. j), NEW b \in SUBSET (1 .. j),
         AtMost(pass, candidates, a, b), Cardinality(b) < MaxArtifacts
  PROVE  Cardinality(a) < MaxArtifacts
<1>1. a \in SUBSET (1 .. k) /\ b \in SUBSET (1 .. k) /\ j \in Nat
  OBVIOUS
<1>2. Cardinality(a) \in Nat /\ Cardinality(b) \in Nat /\ Cardinality(a) <= j /\ MaxArtifacts \in Nat
  BY <1>1, SelectionSize, MaxArtifactsAssumption
<1>3. CASE k <= MaxArtifacts
  BY <1>2, <1>3
<1>4. CASE \A x \in 1 .. k : candidates[x].cost = 0
  <2>1. CostOf(candidates, a) = 0 /\ CostOf(candidates, b) = 0
    BY <1>1, <1>4, FreeSelection
  <2>2. Cardinality(a) <= Cardinality(b)
    BY <2>1 DEF AtMost
  <2> QED BY <1>2, <2>2
<1> QED BY <1>3, <1>4 DEF PricedCandidates

\* A round reaches what the selections with one candidate more cover.
LEMMA RoundReaches ==
  ASSUME NEW n \in Nat, NEW k \in Nat, NEW candidates, PricedCandidates(candidates, n, k),
         NEW j \in 0 .. (k - 1), NEW states, StatesFit(states, n, candidates, j),
         NEW pass \in Passes, StatesReach(states, candidates, pass, j),
         NEW s \in SUBSET (1 .. (j + 1)), Cardinality(s) <= MaxArtifacts, NEW next,
         next = Best(Options(states, n, j + 1, candidates[j + 1], Coverage(candidates, s)), pass)
  PROVE  next.found /\ AtMost(pass, candidates, next.selected, s)
<1> DEFINE mask == Coverage(candidates, s)
           candidate == candidates[j + 1]
           O == Options(states, n, j + 1, candidate, mask)
<1>0. /\ s \in SUBSET (1 .. k) /\ j + 1 \in 1 .. k /\ j + 1 \notin 1 .. j
      /\ \A x : (x \in SUBSET (1 .. (j + 1)) \/ x \in SUBSET (1 .. j)) => x \in SUBSET (1 .. k)
  OBVIOUS
<1>1. CostsIn(candidates, k) /\ mask \in Masks(n)
  BY <1>0, PricesAreCosts, CoverageIsAMask
<1>2. /\ next.found => StateFits(next, mask, candidates, j + 1)
      /\ \A t \in FoundIn(O) : next.found /\ AtMost(pass, candidates, next.selected, t.selected)
  BY <1>1, RoundFits
<1> DEFINE r == s \ {j + 1}
<1>3. /\ r \in SUBSET (1 .. j) /\ r \in SUBSET (1 .. k)
      /\ Cardinality(r) \in Nat /\ Cardinality(s) \in Nat /\ MaxArtifacts \in Nat
  <2>1. r \in SUBSET (1 .. j) /\ r \in SUBSET (1 .. k)
    OBVIOUS
  <2> QED BY <1>0, <2>1, SelectionSize, MaxArtifactsAssumption
\* A state as good as a selection that is as good as s, with the coverage of s,
\* is enough.
<1>4. ASSUME NEW t \in FoundIn(O), t.selected \in SUBSET (1 .. k),
             AtMost(pass, candidates, t.selected, s)
      PROVE  next.found /\ AtMost(pass, candidates, next.selected, s)
  <2>1. next.found /\ AtMost(pass, candidates, next.selected, t.selected)
    BY <1>2
  <2>2. next.selected \in SUBSET (1 .. k)
    BY <1>0, <1>2, <2>1 DEF StateFits, PricedState
  <2> QED BY <1>0, <1>1, <1>4, <2>1, <2>2, AtMostTransitive
\* What the states before the round already had.
<1>5. ASSUME NEW q \in SUBSET (1 .. j), Cardinality(q) <= MaxArtifacts,
             Coverage(candidates, q) = mask, AtMost(pass, candidates, q, s)
      PROVE  next.found /\ AtMost(pass, candidates, next.selected, s)
  <2>1. states[mask].found /\ AtMost(pass, candidates, states[mask].selected, q)
    BY <1>5 DEF StatesReach, Reached
  <2>2. states[mask].selected \in SUBSET (1 .. k) /\ q \in SUBSET (1 .. k)
    BY <1>0, <1>1, <2>1 DEF StatesFit, StateFits, PricedState
  <2>3. AtMost(pass, candidates, states[mask].selected, s)
    BY <1>0, <1>1, <1>5, <2>1, <2>2, AtMostTransitive
  <2>4. states[mask] \in FoundIn(O)
    BY <2>1 DEF Options, FoundIn
  <2> QED BY <1>4, <2>2, <2>3, <2>4
<1>6. CASE j + 1 \notin s
  <2>1. r = s /\ AtMost(pass, candidates, r, s)
    BY <1>0, <1>1, <1>3, <1>6, SelectionNumbers DEF AtMost
  <2> QED BY <1>3, <1>5, <2>1
<1>7. CASE j + 1 \in s
  <2>1. s = r \cup {j + 1} /\ j + 1 \notin r
    BY <1>7
  <2> HIDE DEF r
  <2>2. mask = Coverage(candidates, r) \cup candidate.covers
    BY <2>1, CoverageOfOneMore
  <2>3. Cardinality(s) = Cardinality(r) + 1
    BY <1>0, <1>1, <1>3, <2>1, OneMore
  <2>4. Cardinality(r) < MaxArtifacts /\ Cardinality(r) <= MaxArtifacts
    BY <1>3, <2>3
  <2>5. CASE candidate.covers = {}
    <3>1. AtMost(pass, candidates, r, s) /\ Coverage(candidates, r) = mask
      BY <1>0, <1>1, <1>3, <2>1, <2>2, <2>5, AtMostWithMore
    <3> QED BY <1>3, <1>5, <2>4, <3>1
  <2>6. CASE candidate.covers # {}
    <3> DEFINE m == Coverage(candidates, r)
               old == states[m].selected
    <3>1. m \in Masks(n) /\ states[m].found /\ AtMost(pass, candidates, old, r)
      BY <1>3, <2>4, CoverageIsAMask DEF StatesReach, Reached
    <3>2. old \in SUBSET (1 .. j) /\ old \in SUBSET (1 .. k) /\ j + 1 \notin old
      BY <1>0, <3>1 DEF StatesFit, StateFits, PricedState
    <3>3. Cardinality(old) < MaxArtifacts
      <4> HIDE DEF old
      <4> QED BY <1>3, <2>4, <3>1, <3>2, BudgetAllows
    <3> DEFINE t == [found |-> TRUE, selected |-> old \cup {j + 1},
                     cost |-> states[m].cost + candidate.cost]
    <3>4. t \in O
      BY <2>2, <2>6, <3>1, <3>3 DEF Options
    <3>5. t.found /\ t.selected = old \cup {j + 1}
      OBVIOUS
    <3> HIDE DEF t, old
    <3>6. t \in FoundIn(O) /\ t.selected \in SUBSET (1 .. k)
      BY <1>0, <3>2, <3>4, <3>5 DEF FoundIn
    <3>7. AtMost(pass, candidates, old \cup {j + 1}, r \cup {j + 1})
      BY <1>0, <1>1, <1>3, <2>1, <3>1, <3>2, AtMostOneMore
    <3>8. AtMost(pass, candidates, t.selected, s)
      BY <2>1, <3>5, <3>7
    <3> QED BY <1>4, <3>6, <3>8
  <2> QED BY <2>5, <2>6
<1> QED BY <1>6, <1>7

\* The states after the last candidate fit, and none is missing.
LEMMA RoundsFit ==
  ASSUME NEW n \in Nat, NEW k \in Nat, NEW candidates, PricedCandidates(candidates, n, k),
         NEW pass \in Passes
  PROVE  /\ StatesFit(Rounds(n, candidates, pass), n, candidates, k)
         /\ StatesReach(Rounds(n, candidates, pass), candidates, pass, k)
<1>1. PICK f : Folded(f, n, candidates, pass, k) /\ Rounds(n, candidates, pass) = f[1 .. k]
  BY RoundsFold DEF PricedCandidates
<1> DEFINE S == {j \in 0 .. k : /\ StatesFit(f[1 .. j], n, candidates, j)
                                /\ StatesReach(f[1 .. j], candidates, pass, j)}
<1>2. 0 \in S
  <2>1. 1 .. 0 = {} /\ {} \subseteq 1 .. k
    OBVIOUS
  <2>2. f[{}] = StartStates(n)
    BY <1>1, <2>1, FoldedAt
  <2>3. {} \in Masks(n) /\ \A mask \in Masks(n) :
          StartStates(n)[mask] = IF mask = {} THEN Root ELSE NoState
    BY DEF Masks, StartStates
  <2>4. CostOf(candidates, {}) = 0
    BY PricesAreCosts, CostAdds DEF CostsAdd
  <2>5. Cardinality({}) = 0 /\ MaxArtifacts \in Nat
    BY FS_EmptySet, MaxArtifactsAssumption
  <2>6. StateFits(Root, {}, candidates, 0) /\ Root.found /\ Root.selected = {}
    <3>1. /\ Root.found /\ Root.selected = {} /\ {} \in SUBSET (1 .. 0)
          /\ Root = [found |-> TRUE, selected |-> {}, cost |-> CostOf(candidates, {})]
      BY <2>4 DEF Root
    <3>2. PricedState(Root, candidates, 0)
      BY <3>1 DEF PricedState
    <3>3. Coverage(candidates, {}) = {} /\ Cardinality({}) <= MaxArtifacts
      BY <2>5 DEF Coverage
    <3> QED BY <3>1, <3>2, <3>3 DEF StateFits
  <2>7. ~NoState.found
    BY DEF NoState
  <2>8. StatesFit(StartStates(n), n, candidates, 0)
    BY <2>3, <2>6, <2>7 DEF StatesFit
  <2>9. Coverage(candidates, {}) = {} /\ AtMost(pass, candidates, {}, {})
    BY <2>4, <2>5 DEF Coverage, AtMost
  <2>10. StatesReach(StartStates(n), candidates, pass, 0)
    <3>1. \A s \in SUBSET (1 .. 0) : s = {}
      BY <2>1
    <3>2. StartStates(n)[{}] = Root
      BY <2>3
    <3>3. Reached(StartStates(n), candidates, pass, {})
      BY <2>6, <2>9, <3>2 DEF Reached
    <3> QED BY <3>1, <3>3 DEF StatesReach
  <2> QED BY <2>1, <2>2, <2>8, <2>10
<1>3. ASSUME NEW j \in 0 .. (k - 1), j \in S PROVE j + 1 \in S
  <2> DEFINE states == f[1 .. j]
             next == f[1 .. (j + 1)]
             O(mask) == Options(states, n, j + 1, candidates[j + 1], mask)
  <2>1. StatesFit(states, n, candidates, j) /\ StatesReach(states, candidates, pass, j)
    BY <1>3
  <2>2. next = Round(states, n, j + 1, candidates[j + 1], pass)
    BY <1>1, FoldedNext
  <2> HIDE DEF states, next
  <2>3. \A mask \in Masks(n) : next[mask] = Best(O(mask), pass)
    BY <2>2, RoundChooses
  <2>4. StatesFit(next, n, candidates, j + 1)
    BY <2>1, <2>3, RoundFits DEF StatesFit
  <2>5. StatesReach(next, candidates, pass, j + 1)
    <3> SUFFICES ASSUME NEW s \in SUBSET (1 .. (j + 1)), Cardinality(s) <= MaxArtifacts
                 PROVE  Reached(next, candidates, pass, s)
      BY DEF StatesReach
    <3>1. s \in SUBSET (1 .. k)
      OBVIOUS
    <3>2. Coverage(candidates, s) \in Masks(n)
      BY <3>1, CoverageIsAMask
    <3> DEFINE new == next[Coverage(candidates, s)]
    <3>3. new = Best(O(Coverage(candidates, s)), pass)
      BY <2>3, <3>2
    <3> HIDE DEF new
    <3>4. new.found /\ AtMost(pass, candidates, new.selected, s)
      BY <2>1, <3>3, RoundReaches
    <3> QED BY <3>4 DEF Reached, new
  <2>6. j + 1 \in 0 .. k
    OBVIOUS
  <2> QED BY <2>4, <2>5, <2>6 DEF next
<1> HIDE DEF S
<1>4. k \in S
  BY <1>2, <1>3, CountsUp
<1> QED BY <1>1, <1>4 DEF S

-----------------------------------------------------------------------------
(* The planner: its plans *)

MasksFound(n, states) == {m \in Masks(n) : states[m].found}

\* The size of a mask is a number up to the number of obligations.
LEMMA MaskSize ==
  ASSUME NEW n \in Nat, NEW m \in Masks(n)
  PROVE  Cardinality(m) \in 0 .. n
<1>1. IsFiniteSet(1 .. n) /\ Cardinality(1 .. n) = n
  BY FS_Interval
<1>2. IsFiniteSet(m) /\ Cardinality(m) <= n
  BY <1>1, FS_Subset DEF Masks
<1>3. Cardinality(m) \in Nat
  BY <1>2, FS_CardinalityType
<1> QED BY <1>2, <1>3

\* best_partial_mask finds a mask that has a state, with the largest coverage.
LEMMA PartialMaskIsFound ==
  ASSUME NEW n \in Nat, NEW k \in Nat, NEW candidates, NEW states, states[{}].found,
         StatesFit(states, n, candidates, k)
  PROVE  /\ BestPartialMask(n, states) \in MasksFound(n, states)
         /\ \A j \in MasksFound(n, states) :
              Cardinality(j) <= Cardinality(BestPartialMask(n, states))
<1> DEFINE found == MasksFound(n, states)
           Size(m) == Cardinality(states[m].selected)
           Beats(m, j) ==
             \/ Cardinality(m) > Cardinality(j)
             \/ /\ Cardinality(m) = Cardinality(j)
                /\ \/ Size(m) < Size(j)
                   \/ Size(m) = Size(j) /\ BitsLess(m, j)
           chosen == BestPartialMask(n, states)
<1>1. {} \in found
  BY DEF MasksFound, Masks
<1>2. \A m \in found : m \in Masks(n) /\ Cardinality(m) \in 0 .. n /\ Size(m) \in Nat
  <2> SUFFICES ASSUME NEW m \in found
               PROVE  m \in Masks(n) /\ Cardinality(m) \in 0 .. n /\ Size(m) \in Nat
    OBVIOUS
  <2>1. m \in Masks(n) /\ states[m].found
    BY DEF MasksFound
  <2>2. states[m].selected \in SUBSET (1 .. k)
    BY <2>1 DEF StatesFit, StateFits, PricedState
  <2> QED BY <2>1, <2>2, MaskSize, SelectionSize
<1> DEFINE gaps == {n - Cardinality(m) : m \in found}
<1>3. gaps \subseteq Nat /\ gaps # {}
  <2> HIDE DEF found, Size
  <2> QED BY <1>1, <1>2
<1>4. PICK g \in gaps : \A h \in gaps : g <= h
  <2> HIDE DEF gaps
  <2> QED BY <1>3, LeastNumber
<1> DEFINE largest == {m \in found : n - Cardinality(m) = g}
           sizes == {Size(m) : m \in largest}
<1>5. sizes \subseteq Nat /\ sizes # {}
  <2> HIDE DEF found, Size
  <2> QED BY <1>2, <1>4
<1>6. PICK c \in sizes : \A d \in sizes : c <= d
  <2> HIDE DEF sizes
  <2> QED BY <1>5, LeastNumber
<1> DEFINE F == {m \in largest : Size(m) = c}
<1>7. F \subseteq SUBSET (1 .. n) /\ F # {}
  <2> HIDE DEF found, Size
  <2> QED BY <1>2, <1>6 DEF Masks
<1>8. PICK m \in F : \A j \in F : j = m \/ BitsLess(m, j)
  <2> HIDE DEF F
  <2> QED BY <1>7, LeastMask
<1>9. ASSUME NEW j \in found PROVE j = m \/ Beats(m, j)
  <2> HIDE DEF found, Size, chosen
  <2>1. m \in found /\ n - Cardinality(m) = g /\ Size(m) = c
    BY <1>8
  <2>2. n - Cardinality(j) \in gaps /\ Cardinality(m) \in 0 .. n /\ Cardinality(j) \in 0 .. n
    BY <1>2, <2>1
  <2>3. g <= n - Cardinality(j)
    BY <1>4, <2>2
  <2>4. CASE n - Cardinality(j) # g
    BY <2>1, <2>2, <2>3, <2>4
  <2>5. CASE n - Cardinality(j) = g
    <3>1. Cardinality(m) = Cardinality(j)
      BY <2>1, <2>2, <2>5
    <3>2. j \in largest /\ Size(j) \in sizes /\ Size(j) \in Nat /\ c \in Nat
      BY <2>5, <1>2, <1>5, <1>6
    <3>3. c <= Size(j)
      BY <3>2, <1>6
    <3>4. CASE Size(j) # c
      BY <3>1, <3>2, <3>3, <3>4, <2>1
    <3>5. CASE Size(j) = c
      <4>1. j \in F
        BY <3>2, <3>5
      <4> QED BY <4>1, <1>8, <3>1, <3>5, <2>1
    <3> QED BY <3>4, <3>5
  <2> QED BY <2>4, <2>5
<1>10. \E x \in found : \A j \in found : j = x \/ Beats(x, j)
  BY <1>8, <1>9
<1>11. chosen = CHOOSE x \in found : \A j \in found : j = x \/ Beats(x, j)
  BY DEF BestPartialMask, MasksFound
<1>12. \A x, j \in found : Beats(x, j) => Cardinality(j) <= Cardinality(x)
  <2> HIDE DEF found, Size, chosen
  <2> QED BY <1>2
<1> HIDE DEF found, Beats, chosen
<1>13. chosen \in found /\ \A j \in found : j = chosen \/ Beats(chosen, j)
  BY <1>10, <1>11
<1>14. \A j \in found : Cardinality(j) <= Cardinality(chosen)
  <2> SUFFICES ASSUME NEW j \in found PROVE Cardinality(j) <= Cardinality(chosen)
    OBVIOUS
  <2>1. Cardinality(j) \in 0 .. n
    BY <1>2
  <2>2. Cardinality(j) <= Cardinality(j)
    BY <2>1
  <2> QED BY <1>12, <1>13, <2>2
<1> QED BY <1>13, <1>14 DEF found, chosen

\* The mask that is chosen from the states after the last candidate: it has a
\* state, and none with a state is larger.
LEMMA ValidMaskFits ==
  ASSUME NEW n \in Nat, NEW k \in Nat, NEW candidates, PricedCandidates(candidates, n, k),
         NEW need, need.count = n, NEW states, StatesFit(states, n, candidates, k),
         StatesReach(states, candidates, "validity", k)
  PROVE  /\ ValidMask(need, states) \in MasksFound(n, states)
         /\ \A j \in MasksFound(n, states) : Cardinality(j) <= Cardinality(ValidMask(need, states))
<1>1. states[{}].found
  <2>1. {} \in SUBSET (1 .. k) /\ Cardinality({}) <= MaxArtifacts /\ Coverage(candidates, {}) = {}
    BY FS_EmptySet, MaxArtifactsAssumption DEF Coverage
  <2>2. Reached(states, candidates, "validity", {})
    BY <2>1 DEF StatesReach
  <2> QED BY <2>1, <2>2 DEF Reached
<1> DEFINE chosen == BestPartialMask(n, states)
           found == MasksFound(n, states)
<1>2. chosen \in found /\ \A j \in found : Cardinality(j) <= Cardinality(chosen)
  BY <1>1, PartialMaskIsFound
<1> HIDE DEF chosen
<1>3. CASE ~need.residual /\ states[1 .. n].found
  <2>1. ValidMask(need, states) = 1 .. n
    BY <1>3 DEF ValidMask
  <2>2. 1 .. n \in found
    BY <1>3 DEF MasksFound, Masks
  <2>3. Cardinality(1 .. n) = n
    BY FS_Interval
  <2>4. \A j \in found : Cardinality(j) <= n
    BY MaskSize DEF MasksFound
  <2> QED BY <2>1, <2>2, <2>3, <2>4
<1>4. CASE ~(~need.residual /\ states[1 .. n].found)
  <2>1. ValidMask(need, states) = chosen
    BY <1>4 DEF ValidMask, chosen
  <2> QED BY <1>2, <2>1
<1> QED BY <1>3, <1>4

\* A selection of a plan: what it covers, that nothing within the budget covers
\* more, and that nothing else that covers as much is better.
SelectionIsBest(mask, selected, candidates, n, k) ==
  /\ mask \in Masks(n)
  /\ selected \in SUBSET (1 .. k)
  /\ Coverage(candidates, selected) = mask
  /\ \A s \in SUBSET (1 .. k) : Cardinality(s) <= MaxArtifacts =>
       /\ Cardinality(Coverage(candidates, s)) <= Cardinality(mask)
       /\ Coverage(candidates, s) = mask => AtMost("economics", candidates, selected, s)

\* The plan's mask and selection, and the advice's.
LEMMA PlansAreBest ==
  ASSUME NEW n \in Nat, NEW k \in Nat, NEW candidates, PricedCandidates(candidates, n, k),
         NEW need, need.count = n, NEW mask, mask = PlanValidity(need, candidates).covered
  PROVE  /\ SelectionIsBest(mask, PlanEconomics(need, candidates, mask), candidates, n, k)
         /\ PlanValidity(need, candidates).selected \in SUBSET (1 .. k)
         /\ Coverage(candidates, PlanValidity(need, candidates).selected) = mask
<1> DEFINE v == Rounds(n, candidates, "validity")
           e == Rounds(n, candidates, "economics")
<1>1. StatesFit(v, n, candidates, k) /\ StatesReach(v, candidates, "validity", k)
  BY RoundsFit DEF Passes
<1>2. StatesFit(e, n, candidates, k) /\ StatesReach(e, candidates, "economics", k)
  BY RoundsFit DEF Passes
<1>3. PlanValidity(need, candidates) = StateAt(v, ValidMask(need, v))
  BY DEF PlanValidity, PlanFromStates
<1>4. PlanEconomics(need, candidates, mask) = e[mask].selected
  BY DEF PlanEconomics
<1> HIDE DEF v, e
<1>5. mask = ValidMask(need, v) /\ PlanValidity(need, candidates).selected = v[mask].selected
  BY <1>3 DEF StateAt
<1>6. mask \in MasksFound(n, v) /\ \A j \in MasksFound(n, v) : Cardinality(j) <= Cardinality(mask)
  BY <1>1, <1>5, ValidMaskFits
<1>7. mask \in Masks(n) /\ StateFits(v[mask], mask, candidates, k)
  BY <1>1, <1>6 DEF MasksFound, StatesFit
<1>8. /\ v[mask].selected \in SUBSET (1 .. k) /\ Coverage(candidates, v[mask].selected) = mask
      /\ Cardinality(v[mask].selected) <= MaxArtifacts
  BY <1>7 DEF StateFits, PricedState
<1>9. e[mask].found
  BY <1>2, <1>8 DEF StatesReach, Reached
<1>10. e[mask].selected \in SUBSET (1 .. k) /\ Coverage(candidates, e[mask].selected) = mask
  BY <1>2, <1>7, <1>9 DEF StatesFit, StateFits, PricedState
<1>11. ASSUME NEW s \in SUBSET (1 .. k), Cardinality(s) <= MaxArtifacts
       PROVE  /\ Cardinality(Coverage(candidates, s)) <= Cardinality(mask)
              /\ Coverage(candidates, s) = mask => AtMost("economics", candidates, e[mask].selected, s)
  <2>1. Reached(v, candidates, "validity", s) /\ Reached(e, candidates, "economics", s)
    BY <1>1, <1>2, <1>11 DEF StatesReach
  <2>2. Coverage(candidates, s) \in Masks(n)
    BY CoverageIsAMask
  <2>3. Coverage(candidates, s) \in MasksFound(n, v)
    BY <2>1, <2>2 DEF Reached, MasksFound
  <2> QED BY <1>6, <2>1, <2>3 DEF Reached
<1> QED BY <1>4, <1>5, <1>7, <1>8, <1>10, <1>11 DEF SelectionIsBest

-----------------------------------------------------------------------------
(* The planner: what its plans promise *)

\* The certificate names, for each covered obligation, a selected candidate that
\* satisfies it.
LEMMA StepsSatisfy ==
  ASSUME NEW k \in Nat, NEW candidates, NEW selected \in SUBSET (1 .. k), NEW covered,
         Coverage(candidates, selected) = covered, NEW o \in covered, NEW steps,
         steps = SatisfactionSteps(covered, candidates, selected)
  PROVE  /\ o \in DOMAIN steps
         /\ steps[o] \in selected /\ o \in candidates[steps[o]].covers
<1> DEFINE holders == {x \in selected : o \in candidates[x].covers}
<1>1. holders # {}
  BY DEF Coverage
<1>2. holders \subseteq Nat
  <2>1. \A x \in 1 .. k : x \in Nat
    OBVIOUS
  <2> QED BY <2>1
<1>3. \E x \in selected : o \in candidates[x].covers
  BY <1>1
<1>4. o \in DOMAIN steps /\ steps[o] = Min(holders)
  BY <1>3 DEF SatisfactionSteps
<1>5. Min(holders) \in holders
  <2> HIDE DEF holders
  <2>1. \E x \in holders : \A y \in holders : x <= y
    BY <1>1, <1>2, LeastNumber
  <2> QED BY <2>1 DEF Min
<1> QED BY <1>4, <1>5

\* The fields of a plan.
IsPlan(plan, need, candidates, covered, selected, full) ==
  /\ plan.covered = covered /\ plan.selected = selected
  /\ plan.kind = Kind(need, candidates, selected, full)
  /\ plan.certified = full
  /\ plan.steps = SatisfactionSteps(covered, candidates, selected)

IsFull(need, covered) == covered = 1 .. need.count /\ ~need.residual

LEMMA PlanFields ==
  ASSUME NEW need, NEW candidates, NEW covered, NEW selected
  PROVE  IsPlan(PlanOf(need, candidates, covered, selected), need, candidates, covered, selected,
                IsFull(need, covered))
<1> DEFINE full == covered = 1 .. need.count /\ ~need.residual
           missing == (1 .. need.count) \ covered
           kind == Kind(need, candidates, selected, full)
           steps == SatisfactionSteps(covered, candidates, selected)
<1>1. PlanOf(need, candidates, covered, selected)
        = [covered |-> covered, missing |-> missing, selected |-> selected, kind |-> kind,
           certified |-> full, steps |-> steps]
  BY DEF PlanOf
<1>2. full = IsFull(need, covered)
  BY DEF IsFull
<1>3. kind = Kind(need, candidates, selected, IsFull(need, covered))
  BY <1>2
<1> HIDE DEF full, missing, kind, steps
<1>4. /\ PlanOf(need, candidates, covered, selected).covered = covered
      /\ PlanOf(need, candidates, covered, selected).selected = selected
      /\ PlanOf(need, candidates, covered, selected).kind = kind
      /\ PlanOf(need, candidates, covered, selected).steps = steps
  BY <1>1
<1>5. \A p, a, b, c, d, f, g :
        p = [covered |-> a, missing |-> b, selected |-> c, kind |-> d,
             certified |-> f, steps |-> g] => p.certified = f
  OBVIOUS
<1>6. PlanOf(need, candidates, covered, selected).certified = full
  BY <1>1, <1>5, Zenon
<1> QED BY <1>2, <1>3, <1>4, <1>6 DEF IsPlan, steps

\* The kind of a full plan, and of one that is not.
LEMMA KindsAreHonest ==
  ASSUME NEW k \in Nat, NEW need, NEW candidates, DOMAIN candidates = 1 .. k,
         NEW selected \in SUBSET (1 .. k), NEW full \in BOOLEAN,
         NEW kind, kind = Kind(need, candidates, selected, full)
  PROVE  /\ kind \in {"exact", "coverage", "composite"} <=> full /\ selected # {}
         /\ kind = "exact" => \E j \in 1 .. k : selected = {j} /\ candidates[j].exact
<1>1. kind \in {"exact", "coverage", "composite"} <=> full /\ selected # {}
  BY DEF Kind
<1>2. ASSUME kind = "exact" PROVE \E j \in 1 .. k : selected = {j} /\ candidates[j].exact
  <2>1. selected # {} /\ ~(Cardinality(selected) > 1) /\ \E j \in selected : candidates[j].exact
    BY <1>2 DEF Kind
  <2>2. IsFiniteSet(selected) /\ Cardinality(selected) \in Nat
    BY SelectionSize
  <2>3. Cardinality(selected) # 0
    BY <2>1, <2>2, FS_EmptySet
  <2>4. Cardinality(selected) = 1
    BY <2>1, <2>2, <2>3
  <2>5. PICK x : selected = {x}
    BY <2>2, <2>4, FS_Singleton
  <2> QED BY <2>1, <2>5
<1> QED BY <1>1, <1>2

\* The plan is the cheapest of those with the largest coverage, its kind is
\* honest, its certificate replays, and the advice covers as much.
PlanHolds(need, candidates, plan, advice) ==
  /\ SelectionCoversMask(candidates, plan) /\ IsBestCover(candidates, plan)
  /\ KindIsHonest(need, candidates, plan)
  /\ Replays(need, candidates, plan)
  /\ advice.covered = plan.covered

LEMMA PlannerIsRight ==
  ASSUME NEW n \in Nat, NEW k \in Nat, NEW candidates, PricedCandidates(candidates, n, k),
         NEW need, need.count = n
  PROVE  PlanHolds(need, candidates, Plan(need, candidates), ClaimPlan(need, candidates))
<1> DEFINE mask == PlanValidity(need, candidates).covered
           selected == PlanEconomics(need, candidates, mask)
           plan == Plan(need, candidates)
           advice == ClaimPlan(need, candidates)
           full == IsFull(need, mask)
<1>1. SelectionIsBest(mask, selected, candidates, n, k)
  BY PlansAreBest
<1>2. plan = PlanOf(need, candidates, mask, selected)
  BY DEF Plan, CheapestPlan
<1>3. advice.covered = mask
  BY DEF ClaimPlan, AdviceFrom, AdvisedPlan
<1> HIDE DEF selected, mask, advice
<1>4. IsPlan(PlanOf(need, candidates, mask, selected), need, candidates, mask, selected, full)
  BY PlanFields
<1>5. IsPlan(plan, need, candidates, mask, selected, full)
  BY <1>2, <1>4
<1> HIDE DEF plan
<1>6. full \in BOOLEAN /\ (full <=> mask = 1 .. n /\ ~need.residual)
  BY DEF IsFull
<1> HIDE DEF full
<1>7. /\ plan.covered = mask /\ plan.selected = selected
      /\ plan.kind = Kind(need, candidates, selected, full)
      /\ plan.steps = SatisfactionSteps(mask, candidates, selected)
  BY <1>5 DEF IsPlan
<1>8. plan.certified <=> full
  BY <1>5, Zenon DEF IsPlan
<1>9. /\ mask \in Masks(n) /\ selected \in SUBSET (1 .. k)
      /\ Coverage(candidates, selected) = mask /\ DOMAIN candidates = 1 .. k
  BY <1>1 DEF SelectionIsBest, PricedCandidates
<1>10. SelectionCoversMask(candidates, plan)
  BY <1>7, <1>9 DEF SelectionCoversMask
<1>11. IsBestCover(candidates, plan)
  <2>1. ASSUME NEW s \in Selections(candidates)
        PROVE  /\ Cardinality(Coverage(candidates, s)) <= Cardinality(plan.covered)
               /\ Coverage(candidates, s) = plan.covered
                    => \/ CostOf(candidates, plan.selected) < CostOf(candidates, s)
                       \/ /\ CostOf(candidates, plan.selected) = CostOf(candidates, s)
                          /\ Cardinality(plan.selected) <= Cardinality(s)
    <3>1. s \in SUBSET (1 .. k) /\ Cardinality(s) <= MaxArtifacts
      BY <1>9 DEF Selections
    <3> QED BY <1>1, <1>7, <3>1 DEF SelectionIsBest, AtMost
  <2> QED BY <2>1 DEF IsBestCover, CostOf
<1>12. KindIsHonest(need, candidates, plan)
  <2>1. /\ plan.kind \in {"exact", "coverage", "composite"} <=> full /\ selected # {}
        /\ plan.kind = "exact" => \E j \in 1 .. k : selected = {j} /\ candidates[j].exact
    BY <1>6, <1>7, <1>9, KindsAreHonest
  <2>2. ASSUME plan.kind = "exact"
        PROVE  \E j \in DOMAIN candidates :
                 plan.selected = {j} /\ candidates[j].exact /\ candidates[j].covers = 1 .. need.count
    <3>1. PICK j \in 1 .. k : selected = {j} /\ candidates[j].exact
      BY <2>1, <2>2
    <3>2. full
      BY <2>1, <2>2
    <3>3. Coverage(candidates, {j}) = candidates[j].covers
      BY DEF Coverage
    <3>4. candidates[j].covers = 1 .. need.count
      BY <1>6, <1>9, <3>1, <3>2, <3>3
    <3> QED BY <1>7, <1>9, <3>1, <3>4
  <2> QED BY <1>7, <1>8, <2>1, <2>2 DEF KindIsHonest
<1>13. Replays(need, candidates, plan)
  <2> SUFFICES ASSUME full
               PROVE  /\ ~need.residual
                      /\ \A o \in 1 .. need.count :
                           /\ o \in DOMAIN plan.steps
                           /\ plan.steps[o] \in plan.selected /\ o \in candidates[plan.steps[o]].covers
    BY <1>8 DEF Replays
  <2>1. mask = 1 .. need.count /\ ~need.residual
    BY <1>6
  <2> QED BY <1>7, <1>9, <2>1, StepsSatisfy
<1>14. advice.covered = plan.covered
  BY <1>3, <1>7
<1>15. PlanHolds(need, candidates, plan, advice)
  BY <1>10, <1>11, <1>12, <1>13, <1>14 DEF PlanHolds
<1> QED BY <1>15 DEF plan, advice

\* Candidates as the resolver offers them, free of cost.
FreeCandidates(candidates, n, k) ==
  /\ DOMAIN candidates = 1 .. k
  /\ \A j \in 1 .. k : candidates[j].covers \subseteq 1 .. n /\ candidates[j].cost = 0

LEMMA FreeIsPriced ==
  ASSUME NEW n, NEW k, NEW candidates, FreeCandidates(candidates, n, k)
  PROVE  PricedCandidates(candidates, n, k)
BY DEF FreeCandidates, PricedCandidates

\* A plan covers what it says: what is not missing is covered by a selected
\* candidate.
PlanCovers(plan, candidates, n, k) ==
  /\ plan.selected \subseteq 1 .. k
  /\ plan.missing \subseteq 1 .. n
  /\ \A o \in 1 .. n : o \in plan.missing \/ \E j \in plan.selected : o \in candidates[j].covers

\* The plan from artifacts selects what covers all but the missing obligations.
LEMMA PlanIsACover ==
  ASSUME NEW n \in Nat, NEW k \in Nat, NEW candidates, FreeCandidates(candidates, n, k),
         NEW need, need.count = n
  PROVE  PlanCovers(Plan(need, candidates), candidates, n, k)
<1> DEFINE mask == PlanValidity(need, candidates).covered
           selected == PlanEconomics(need, candidates, mask)
           plan == Plan(need, candidates)
<1>1. SelectionIsBest(mask, selected, candidates, n, k)
  BY FreeIsPriced, PlansAreBest
<1>2. plan = PlanOf(need, candidates, mask, selected)
  BY DEF Plan, CheapestPlan
<1> HIDE DEF mask, selected
<1>3. mask \subseteq 1 .. n /\ selected \subseteq 1 .. k /\ Coverage(candidates, selected) = mask
  BY <1>1 DEF SelectionIsBest, Masks
<1>4. plan.selected = selected /\ plan.missing = (1 .. n) \ mask
  BY <1>2 DEF PlanOf
<1> HIDE DEF plan
<1>5. \A o \in mask : \E j \in plan.selected : o \in candidates[j].covers
  BY <1>3, <1>4 DEF Coverage
<1>6. PlanCovers(plan, candidates, n, k)
  BY <1>3, <1>4, <1>5 DEF PlanCovers
<1> QED BY <1>6 DEF plan

IsAdvice(plan, n, covered, selected, claims) ==
  /\ plan.selected = selected /\ plan.missing = (1 .. n) \ covered
  /\ plan.claims = claims /\ plan.found = (claims # {})
  /\ plan.kind \in {"partial", "claim", "claim composite"}

\* The fields of an advice.
LEMMA AdviceFields ==
  ASSUME NEW need, NEW candidates, NEW covered, NEW selected, NEW claims
  PROVE  IsAdvice(AdvisedPlan(need, candidates, covered, selected, claims),
                  need.count, covered, selected, claims)
<1> DEFINE obligations == UNION {candidates[k].covers : k \in claims}
           kind == IF covered # 1 .. need.count THEN "partial"
                   ELSE IF claims = selected /\ Cardinality(claims) = 1
                   THEN "claim" ELSE "claim composite"
           missing == (1 .. need.count) \ covered
           found == claims # {}
<1>1. AdvisedPlan(need, candidates, covered, selected, claims)
        = [found |-> found, covered |-> covered, missing |-> missing, selected |-> selected,
           claims |-> claims, obligations |-> obligations, kind |-> kind]
  BY DEF AdvisedPlan
<1>2. kind \in {"partial", "claim", "claim composite"}
  OBVIOUS
<1> HIDE DEF obligations, kind, missing, found
<1>3. /\ AdvisedPlan(need, candidates, covered, selected, claims).selected = selected
      /\ AdvisedPlan(need, candidates, covered, selected, claims).missing = missing
      /\ AdvisedPlan(need, candidates, covered, selected, claims).claims = claims
      /\ AdvisedPlan(need, candidates, covered, selected, claims).found = found
      /\ AdvisedPlan(need, candidates, covered, selected, claims).kind = kind
  BY <1>1
<1> QED BY <1>2, <1>3 DEF missing, found, IsAdvice

\* The advice from claims is a cover too, and says which of its candidates are
\* claims.
AdviceCovers(plan, candidates, n, k) ==
  /\ PlanCovers(plan, candidates, n, k)
  /\ plan.claims = {j \in plan.selected : candidates[j].claims}
  /\ plan.found = (plan.claims # {})
  /\ plan.kind \in {"partial", "claim", "claim composite"}

\* ClaimPlan is such an advice.
LEMMA AdviceIsACover ==
  ASSUME NEW n \in Nat, NEW k \in Nat, NEW candidates, FreeCandidates(candidates, n, k),
         NEW need, need.count = n
  PROVE  AdviceCovers(ClaimPlan(need, candidates), candidates, n, k)
<1> DEFINE mask == PlanValidity(need, candidates).covered
           selected == PlanValidity(need, candidates).selected
           plan == ClaimPlan(need, candidates)
           claims == {j \in selected : candidates[j].claims}
<1>1. /\ SelectionIsBest(mask, PlanEconomics(need, candidates, mask), candidates, n, k)
      /\ selected \in SUBSET (1 .. k) /\ Coverage(candidates, selected) = mask
  BY FreeIsPriced, PlansAreBest
<1>2. mask \subseteq 1 .. n
  BY <1>1 DEF SelectionIsBest, Masks
<1>3. plan = AdvisedPlan(need, candidates, mask, selected, claims)
  BY DEF ClaimPlan, AdviceFrom
<1> HIDE DEF mask, selected, claims
<1>4. IsAdvice(plan, n, mask, selected, claims)
  BY <1>3, AdviceFields
<1> HIDE DEF plan
<1>5. /\ plan.selected = selected /\ plan.missing = (1 .. n) \ mask
      /\ plan.claims = claims
  BY <1>4 DEF IsAdvice
<1>6. plan.found = (plan.claims # {}) /\ plan.kind \in {"partial", "claim", "claim composite"}
  BY <1>4 DEF IsAdvice
<1>7. \A o \in mask : \E j \in plan.selected : o \in candidates[j].covers
  BY <1>1, <1>5 DEF Coverage
<1>8. PlanCovers(plan, candidates, n, k)
  BY <1>1, <1>2, <1>5, <1>7 DEF PlanCovers
<1>9. plan.claims = {j \in plan.selected : candidates[j].claims}
  BY <1>5 DEF claims
<1> QED BY <1>6, <1>8, <1>9 DEF AdviceCovers, plan

-----------------------------------------------------------------------------
(* Claim proofs *)

Proves(c, o) == \E p \in c.obligations : Satisfies(p, o)

\* A proof of one obligation has a claim that satisfies it.
LEMMA ProofsSatisfy ==
  ASSUME NEW material, NEW o, NEW tree, NEW proof \in ProofsOf(material, o, tree)
  PROVE  \E c \in proof : Proves(c, o)
<1> DEFINE fresh == Satisfying(material, o, tree)
<1>1. \A c \in fresh : Proves(c, o)
  BY DEF Satisfying, Proves
<1> HIDE DEF fresh
<1>2. CASE o.predicate # "flow"
  <2>1. PICK c \in fresh : proof = {c}
    BY <1>2 DEF ProofsOf, SingleProofs, fresh
  <2> QED BY <2>1, <1>1
<1>3. CASE o.predicate = "flow"
  <2>1. proof \subseteq fresh /\ FlowRoles \subseteq {c.claim.step.role : c \in proof}
    BY <1>3 DEF ProofsOf, FlowProofs, fresh
  <2>2. "producer" \in FlowRoles
    BY DEF FlowRoles
  <2>3. PICK c \in proof : TRUE
    BY <2>1, <2>2
  <2> QED BY <2>1, <2>3, <1>1
<1> QED BY <1>2, <1>3

\* So has a selected proof of a single obligation.
LEMMA ClaimProofSatisfies ==
  ASSUME NEW need, NEW o, NEW material, NEW tree,
         NEW proof \in ClaimProofsFor(need, {o}, material, tree)
  PROVE  \E c \in proof : Proves(c, o)
<1>1. PICK f \in [{o} -> UNION {ProofsOf(material, x, tree) : x \in {o}}] :
        proof = UNION Range(f) /\ f[o] \in ProofsOf(material, o, tree)
  BY DEF ClaimProofsFor
<1>2. PICK c \in f[o] : Proves(c, o)
  BY <1>1, ProofsSatisfy
<1>3. f[o] \in Range(f)
  BY <1>1 DEF Range
<1>4. c \in proof
  BY <1>1, <1>2, <1>3
<1> QED BY <1>2, <1>4

\* What satisfies an obligation satisfies all that this one satisfies.
LEMMA SatisfiesTransitive ==
  ASSUME NEW p, NEW q, NEW r, Satisfies(p, q), Satisfies(q, r)
  PROVE  Satisfies(p, r)
BY DEF Satisfies

-----------------------------------------------------------------------------
(* Manifests *)

ArtifactKinds == {"code_location", "behavior_trace", "test_plan"}

\* What the validator reads at a location depends on its file only.
LEMMA SameFile ==
  ASSUME NEW t1, NEW t2, NEW l, l.path \in DOMAIN t1, l.path \in DOMAIN t2,
         t1[l.path] = t2[l.path], NEW subject, NEW ranged
  PROVE  /\ LocationValid(t1, l) <=> LocationValid(t2, l)
         /\ SymbolObserved(t1, l) <=> SymbolObserved(t2, l)
         /\ MatchesSubject(t1, l, subject, ranged) <=> MatchesSubject(t2, l, subject, ranged)
         /\ PrimaryCovers(t1, l, subject) <=> PrimaryCovers(t2, l, subject)
<1>1. RangeWords(t1, l) = RangeWords(t2, l)
  BY DEF RangeWords
<1>2. LocationValid(t1, l) <=> LocationValid(t2, l)
  BY DEF LocationValid
<1>3. SymbolObserved(t1, l) <=> SymbolObserved(t2, l)
  BY DEF SymbolObserved
<1>4. \A r : MatchesSubject(t1, l, subject, r) <=> MatchesSubject(t2, l, subject, r)
  BY <1>1 DEF MatchesSubject
<1>5. PrimaryCovers(t1, l, subject) <=> PrimaryCovers(t2, l, subject)
  BY <1>3, <1>4 DEF PrimaryCovers
<1> QED BY <1>2, <1>3, <1>4, <1>5

\* The two trees have the same file at each of the paths.
SameAt(paths, t1, t2) ==
  \A p \in paths : p \in DOMAIN t1 /\ p \in DOMAIN t2 /\ t1[p] = t2[p]

\* So does what it reads of the evidence of a test plan.
LEMMA SameProof ==
  ASSUME NEW t1, NEW t2, NEW plan, NEW subject, NEW closing \in BOOLEAN,
         SameAt(plan.evidence, t1, t2), SameAt(ProofFiles(t1, plan, closing), t1, t2)
  PROVE  /\ ProofValid(t1, plan, subject, closing) => ProofValid(t2, plan, subject, closing)
         /\ ProofFiles(t2, plan, closing) = ProofFiles(t1, plan, closing)
<1>1. \A form : ManifestsWith(t1, plan.evidence, form) = ManifestsWith(t2, plan.evidence, form)
  BY DEF ManifestsWith, SameAt
<1>2. \A form : ManifestsWith(t1, plan.evidence, form) \subseteq plan.evidence
  BY DEF ManifestsWith
<1>3. DeclaredTargets(t1, plan.evidence) = DeclaredTargets(t2, plan.evidence)
  BY <1>1, <1>2 DEF DeclaredTargets, SameAt
<1>4. ProofFiles(t2, plan, closing) = ProofFiles(t1, plan, closing)
  BY <1>3 DEF ProofFiles
<1>5. ASSUME closing, TargetCloses(t1, plan) PROVE TargetCloses(t2, plan)
  <2>1. closing /\ plan.target # {} => DeclaredTargets(t1, plan.evidence) \subseteq DOMAIN t2
    BY DEF ProofFiles, SameAt
  <2> QED BY <1>1, <1>3, <1>5, <2>1 DEF TargetCloses
<1>6. UNION {Range(t1[p].words) : p \in plan.evidence} = UNION {Range(t2[p].words) : p \in plan.evidence}
  BY DEF SameAt
<1>7. plan.evidence \subseteq DOMAIN t2
  BY DEF SameAt
<1> QED BY <1>4, <1>5, <1>6, <1>7 DEF ProofValid

\* An artifact that validated in one tree validates again in every tree in which
\* the files of its manifest are unchanged, for every obligation it covers and
\* whatever part of the files it was seen to read is read again.
LEMMA ManifestSuffices ==
  ASSUME NEW a, a.kind \in ArtifactKinds, NEW t1, NEW t2, NEW closing \in BOOLEAN,
         NEW trace, NEW later, later.files \subseteq trace.files, NEW first, NEW second,
         Validates(first, a, t1, trace, closing), second.subject = first.subject,
         DependenciesFresh(Manifest(a, t1, trace, closing).files, t2),
         \E o \in second.obligations : Satisfies(Derived(a, second.subject), o)
  PROVE  Validates(second, a, t2, later, closing)
<1> DEFINE paths == DependencyPaths(a, t1, trace, closing)
           subject == first.subject
<1>1. /\ a.kind = "test_plan" => Proposable(a) /\ ProofValid(t1, a, subject, closing)
      /\ \A k \in DOMAIN Locations(a) : LocationValid(t1, Locations(a)[k])
      /\ Covers(a, t1, subject)
      /\ paths # {} /\ paths \subseteq DOMAIN t1
  BY DEF Validates
<1>2. SameAt(paths, t1, t2)
  <2>1. Manifest(a, t1, trace, closing).files = [p \in paths |-> t1[p]]
    BY DEF Manifest, Restrict
  <2> HIDE DEF paths
  <2> QED BY <1>1, <2>1 DEF DependenciesFresh, SameAt
<1>3. CASE a.kind = "test_plan"
  <2>1. paths = ProofFiles(t1, a, closing) /\ DependencyPaths(a, t2, later, closing) = ProofFiles(t2, a, closing)
    BY <1>3 DEF DependencyPaths
  <2>2. a.evidence \subseteq paths
    BY <2>1 DEF ProofFiles
  <2>3. SameAt(a.evidence, t1, t2) /\ SameAt(ProofFiles(t1, a, closing), t1, t2)
    BY <1>2, <2>1, <2>2 DEF SameAt
  <2>4. ProofValid(t2, a, subject, closing) /\ ProofFiles(t2, a, closing) = ProofFiles(t1, a, closing)
    BY <1>1, <1>3, <2>3, SameProof
  <2>5. Locations(a) = <<>>
    BY <1>3 DEF Locations
  <2>6. Covers(a, t2, subject)
    BY <1>3 DEF Covers
  <2>7. DependencyPaths(a, t2, later, closing) = paths
    BY <2>1, <2>4
  <2>8. paths \subseteq DOMAIN t2
    BY <1>2 DEF SameAt
  <2> HIDE DEF paths
  <2>9. \A k \in DOMAIN Locations(a) : LocationValid(t2, Locations(a)[k])
    BY <2>5
  <2> QED BY <1>1, <1>3, <2>4, <2>6, <2>7, <2>8, <2>9 DEF Validates
<1>4. CASE a.kind # "test_plan"
  <2> DEFINE named == {Locations(a)[k].path : k \in DOMAIN Locations(a)}
  <2>1. /\ named \subseteq paths /\ later.files \subseteq paths
        /\ DependencyPaths(a, t2, later, closing) = named \cup later.files
    BY <1>4 DEF DependencyPaths
  <2>2. \A k \in DOMAIN Locations(a) :
          /\ Locations(a)[k].path \in DOMAIN t1 /\ Locations(a)[k].path \in DOMAIN t2
          /\ t1[Locations(a)[k].path] = t2[Locations(a)[k].path]
    <3> HIDE DEF paths
    <3> QED BY <1>2, <2>1 DEF SameAt
  <2>3. \A k \in DOMAIN Locations(a) : LocationValid(t2, Locations(a)[k])
    BY <1>1, <2>2, SameFile
  <2>4. Covers(a, t2, subject) /\ named # {}
    <3>1. CASE a.kind = "code_location"
      <4>1. Locations(a) = a.locations
        BY <3>1 DEF Locations
      <4>2. ~a.gaps /\ \E k \in DOMAIN a.locations : PrimaryCovers(t1, a.locations[k], subject)
        BY <1>1, <3>1 DEF Covers
      <4>3. PICK k \in DOMAIN a.locations : PrimaryCovers(t1, a.locations[k], subject)
        BY <4>2
      <4>4. PrimaryCovers(t2, a.locations[k], subject)
        BY <4>1, <4>3, <2>2, SameFile
      <4>5. named # {}
        BY <4>1, <4>3
      <4> HIDE DEF named
      <4> QED BY <3>1, <4>2, <4>4, <4>5 DEF Covers
    <3>2. CASE a.kind = "behavior_trace"
      <4>1. Locations(a) = [k \in DOMAIN a.steps |-> a.steps[k].location]
        BY <3>2 DEF Locations
      <4>2. ~a.gaps /\ a.scenario = "default" /\ FlowCovers(t1, a.steps, subject)
        BY <1>1, <3>2 DEF Covers
      <4>3. \A k \in DOMAIN a.steps : k \in DOMAIN Locations(a) /\ Locations(a)[k] = a.steps[k].location
        BY <4>1
      <4>4. \A k \in DOMAIN a.steps :
              /\ SymbolObserved(t1, a.steps[k].location) <=> SymbolObserved(t2, a.steps[k].location)
              /\ MatchesSubject(t1, a.steps[k].location, subject, FALSE)
                   <=> MatchesSubject(t2, a.steps[k].location, subject, FALSE)
        BY <4>3, <2>2, SameFile
      <4>5. FlowCovers(t2, a.steps, subject)
        BY <4>2, <4>4 DEF FlowCovers
      <4>6. named # {}
        <5>1. PICK k \in DOMAIN a.steps : TRUE
          BY <4>2 DEF FlowCovers
        <5> QED BY <5>1, <4>3
      <4> HIDE DEF named
      <4> QED BY <3>2, <4>2, <4>5, <4>6 DEF Covers
    <3> QED BY <1>4, <3>1, <3>2 DEF ArtifactKinds
  <2>5. named \cup later.files \subseteq DOMAIN t2
    BY <1>2, <2>1 DEF SameAt
  <2> HIDE DEF named, paths
  <2> QED BY <1>4, <2>1, <2>3, <2>4, <2>5 DEF Validates
<1> QED BY <1>3, <1>4

-----------------------------------------------------------------------------
(* The inductive invariant of a call *)

IsSequence(s) == s \in Seq(Range(s))

\* How an artifact had to be validated: a worker's plan closes on its target.
ClosedFor(a, closing) == closing \/ OfDeclaredPlan(a)

\* A certificate stands by itself: its artifact validates in the files of its
\* manifest, about the subject of a need.
StandsFor(c, subject) ==
  \E n \in SemanticNeeds, closing \in BOOLEAN :
    /\ n.subject = subject /\ ClosedFor(c.artifact, closing)
    /\ Validates(Fragment(n, c.coverage, {}), c.artifact, c.manifest.files, Unobserved, closing)

\* It does, unless the validation was torn.
Sound(c, torn) ==
  /\ c.artifact.kind \in ArtifactKinds
  /\ \E n \in SemanticNeeds :
       /\ c.coverage = {Derived(c.artifact, n.subject)}
       /\ c \in torn \/ StandsFor(c, n.subject)

CertifiesFor(c, o) == \E p \in c.coverage : Satisfies(p, o)

FreshCovers(o) == \E f \in reuse.fresh : CertifiesFor(f.certificate, o)

\* An obligation is covered by a selected artifact among the fresh candidates, or
\* by a selected claim.
SelectionCovers(o) ==
  \/ \E f \in reuse.fresh : /\ f.certificate.artifact \in reuse.decision.artifacts
                            /\ CertifiesFor(f.certificate, o)
  \/ \E c \in reuse.decision.claims : Proves(c, o)

CallRecord ==
  reuse = [phase |-> reuse.phase, calls |-> reuse.calls, need |-> reuse.need,
           captured |-> reuse.captured, seen |-> reuse.seen, worth |-> reuse.worth,
           bootstrap |-> reuse.bootstrap, found |-> reuse.found, fresh |-> reuse.fresh,
           decision |-> reuse.decision, fragment |-> reuse.fragment,
           declared |-> reuse.declared, results |-> reuse.results,
           observed |-> reuse.observed, certified |-> reuse.certified,
           outcome |-> reuse.outcome]

DecisionRecord ==
  LET d == reuse.decision
  IN  d = [resolution |-> d.resolution, authoritative |-> d.authoritative,
           eligible |-> d.eligible, allowed |-> d.allowed, artifacts |-> d.artifacts,
           claims |-> d.claims, missing |-> d.missing]

TablesRecord ==
  evidence = [artifacts |-> evidence.artifacts, origins |-> evidence.origins,
              certificates |-> evidence.certificates, claims |-> evidence.claims,
              relations |-> evidence.relations, torn |-> evidence.torn]

TablesSound ==
  /\ TablesRecord /\ IsSequence(evidence.artifacts) /\ IsSequence(evidence.certificates)
  /\ \A c \in Range(evidence.certificates) : Sound(c, evidence.torn)

CallShaped ==
  /\ CallRecord /\ DecisionRecord
  /\ reuse.phase # "idle" => reuse.need \in SemanticNeeds
  /\ reuse.phase = "contradiction" => reuse.fragment = reuse.need.required

Publishing == reuse.phase \in {"publish", "certify", "certify_declared", "claim shadow"}

ResultsShaped ==
  /\ Publishing =>
       /\ IsSequence(reuse.results) /\ reuse.declared \subseteq DeclaredPlans
       /\ \A k \in DOMAIN reuse.results : reuse.results[k].artifact.kind \in ArtifactKinds
  /\ reuse.phase \in {"certify", "certify_declared"} => reuse.results # <<>>
  /\ reuse.phase = "certify_declared" => OfDeclaredPlan(Head(reuse.results).artifact)

CandidatesCertified ==
  /\ reuse.phase \in {"freshness", "claims", "plan", "decided"} =>
       /\ IsFiniteSet(reuse.found)
       /\ \A f \in reuse.found : f.certificate \in Range(evidence.certificates)
  /\ reuse.phase \in {"claims", "plan", "decided"} => reuse.fresh \subseteq reuse.found

\* The certificate agreed with the files as they were read for it.
FreshAsRead(c) == \E tree \in reuse.seen : DependenciesFresh(c.manifest.files, tree)

FreshAreFresh ==
  reuse.phase \in {"claims", "plan"} => \A f \in reuse.fresh : FreshAsRead(f.certificate)

Decides == reuse.decision.authoritative \/ reuse.decision.eligible

DecisionCovers ==
  reuse.phase = "decided" /\ Decides =>
    /\ \A o \in reuse.need.required : o \in reuse.decision.missing \/ SelectionCovers(o)
    /\ reuse.decision.missing = {} /\ ~FromClaims =>
         \A o \in reuse.need.required :
           \E f \in reuse.fresh : /\ f.certificate.artifact \in reuse.decision.artifacts
                                  /\ CertifiesFor(f.certificate, o)
                                  /\ FreshAsRead(f.certificate)

DeliveryCovers ==
  reuse.phase = "deliver" /\ ~FromClaims =>
    /\ reuse.need \in SemanticNeeds
    /\ \A o \in reuse.need.required :
         \E c \in Range(evidence.certificates) :
            /\ c.artifact \in reuse.decision.artifacts /\ CertifiesFor(c, o)
            /\ FreshAsRead(c)

ReuseInv ==
  /\ TablesSound /\ CallShaped /\ ResultsShaped /\ CandidatesCertified /\ FreshAreFresh
  /\ DecisionCovers /\ DeliveryCovers /\ FragmentAndReuseCoverTheNeed

\* What the validator accepts in the files that are hashed gets a certificate that
\* stands by itself.
LEMMA CertificatesStand ==
  ASSUME NEW n \in SemanticNeeds, NEW obligations, NEW inputs, NEW a, a.kind \in ArtifactKinds,
         NEW tree, NEW trace, NEW closing \in BOOLEAN, ClosedFor(a, closing),
         Validates(Fragment(n, obligations, inputs), a, tree, trace, closing)
  PROVE  StandsFor(Certificate(Fragment(n, obligations, inputs), a, tree, trace, closing), n.subject)
<1> DEFINE first == Fragment(n, obligations, inputs)
           c == Certificate(first, a, tree, trace, closing)
           derived == Derived(a, n.subject)
           second == Fragment(n, {derived}, {})
           files == Manifest(a, tree, trace, closing).files
<1>1. /\ c.artifact = a /\ c.coverage = {derived} /\ c.manifest.files = files
  BY DEF Certificate, Fragment
<1>2. first.subject = n.subject /\ second.subject = n.subject /\ second.obligations = {derived}
  BY DEF Fragment
<1>3. Satisfies(derived, derived)
  BY DEF Satisfies
<1>4. DependenciesFresh(files, files)
  BY DEF DependenciesFresh
<1> HIDE DEF derived, files
<1>5. Validates(second, a, files, Unobserved, closing)
  <2>1. second.subject = first.subject
    BY <1>2
  <2>2. \E o \in second.obligations : Satisfies(Derived(a, second.subject), o)
    BY <1>2, <1>3 DEF derived
  <2>3. DependenciesFresh(Manifest(a, tree, trace, closing).files, files)
    BY <1>4 DEF files
  <2>4. Validates(first, a, tree, trace, closing)
    OBVIOUS
  <2> HIDE DEF first, second
  <2>5. Unobserved.files \subseteq trace.files
    BY DEF Unobserved
  <2> QED BY <2>1, <2>2, <2>3, <2>4, <2>5, ManifestSuffices
<1> HIDE DEF c
<1>7. StandsFor(c, n.subject)
  BY <1>1, <1>5 DEF StandsFor
<1> QED BY <1>7 DEF c

\* In every tree that has the files of its manifest, the artifact of a certificate
\* that stands by itself validates for each obligation of a need that the
\* certificate covers.
LEMMA SoundStaysValid ==
  ASSUME NEW c, Sound(c, evidence.torn), reuse.need \in SemanticNeeds,
         NEW o \in reuse.need.required, CertifiesFor(c, o), NEW tree,
         DependenciesFresh(c.manifest.files, tree), c \notin evidence.torn
  PROVE  HoldsFor(c.artifact, o, tree)
<1> DEFINE need == reuse.need
<1>0. PICK m \in SemanticNeeds :
        c.coverage = {Derived(c.artifact, m.subject)} /\ StandsFor(c, m.subject)
  BY DEF Sound
<1>1. PICK n \in SemanticNeeds, closing \in BOOLEAN :
        /\ n.subject = m.subject /\ ClosedFor(c.artifact, closing)
        /\ Validates(Fragment(n, c.coverage, {}), c.artifact, c.manifest.files, Unobserved, closing)
  BY <1>0 DEF StandsFor
<1> DEFINE derived == Derived(c.artifact, n.subject)
           first == Fragment(n, c.coverage, {})
           second == Fragment(need, {o}, {})
<1>2. Satisfies(derived, o)
  BY <1>0, <1>1 DEF CertifiesFor
<1>3. derived.subject = n.subject.name
  BY DEF Derived, Obligation
<1>4. n.subject = need.subject
  BY <1>2, <1>3, NeedsAssumption DEF Satisfies
<1>5. /\ first.subject = n.subject /\ second.subject = n.subject /\ second.obligations = {o}
  BY <1>4 DEF Fragment
<1>6. \E q \in second.obligations : Satisfies(Derived(c.artifact, second.subject), q)
  BY <1>2, <1>5
<1> DEFINE paths == DependencyPaths(c.artifact, c.manifest.files, Unobserved, closing)
<1>7. DependenciesFresh(Manifest(c.artifact, c.manifest.files, Unobserved, closing).files, tree)
  <2>1. paths \subseteq DOMAIN c.manifest.files
    BY <1>1 DEF Validates
  <2>2. Manifest(c.artifact, c.manifest.files, Unobserved, closing).files
          = [p \in paths |-> c.manifest.files[p]]
    BY DEF Manifest, Restrict
  <2> HIDE DEF paths
  <2> QED BY <2>1, <2>2 DEF DependenciesFresh
<1>8. Validates(first, c.artifact, c.manifest.files, Unobserved, closing)
      /\ c.artifact.kind \in ArtifactKinds
  BY <1>1 DEF Sound
<1>9. second.subject = first.subject
  BY <1>5
<1> HIDE DEF first, second, derived, paths
<1>10. Validates(second, c.artifact, tree, Unobserved, closing)
  BY <1>6, <1>7, <1>8, <1>9, ManifestSuffices
<1> QED BY <1>1, <1>10 DEF HoldsFor, ClosedFor, second

\* A sequence has finitely many members.
LEMMA RangeIsFinite ==
  ASSUME NEW s, IsSequence(s)
  PROVE  IsFiniteSet(Range(s))
<1>1. Len(s) \in Nat /\ DOMAIN s = 1 .. Len(s)
  BY DEF IsSequence
<1>2. s \in Surjection(1 .. Len(s), Range(s))
  BY <1>1 DEF Surjection, Range, IsSequence
<1>3. IsFiniteSet(1 .. Len(s))
  BY <1>1, FS_Interval
<1> QED BY <1>2, <1>3, FS_Surjection

\* The image of a finite set under a function is finite.
LEMMA ImageIsFinite ==
  ASSUME NEW S, IsFiniteSet(S), NEW f, S \subseteq DOMAIN f
  PROVE  IsFiniteSet({f[x] : x \in S})
<1> DEFINE g == [x \in S |-> f[x]]
<1>1. g \in Surjection(S, {f[x] : x \in S})
  BY DEF Surjection
<1> QED BY <1>1, FS_Surjection

\* Appending keeps a sequence, and adds one member.
LEMMA AppendsOne ==
  ASSUME NEW s, IsSequence(s), NEW x
  PROVE  IsSequence(Append(s, x)) /\ Range(Append(s, x)) = Range(s) \cup {x}
<1> DEFINE T == Range(s) \cup {x}
           t == Append(s, x)
<1>1. s \in Seq(T) /\ Len(s) \in Nat /\ DOMAIN s = 1 .. Len(s)
  BY DEF IsSequence, Range
<1>2. t \in Seq(T) /\ Len(t) = Len(s) + 1 /\ DOMAIN t = 1 .. Len(s) + 1
      /\ \A k \in 1 .. Len(s) + 1 : t[k] = IF k = Len(s) + 1 THEN x ELSE s[k]
  BY <1>1
<1> HIDE DEF T, t
<1>3. Range(t) = T
  <2>1. \A y \in Range(t) : y \in T
    BY <1>1, <1>2 DEF Range, T
  <2>2. \A y \in Range(s) : y \in Range(t)
    <3> SUFFICES ASSUME NEW k \in DOMAIN s PROVE s[k] \in Range(t)
      BY DEF Range
    <3>1. k \in 1 .. Len(s) + 1 /\ k # Len(s) + 1
      BY <1>1
    <3> QED BY <1>2, <3>1 DEF Range
  <2>3. x \in Range(t)
    <3>1. Len(s) + 1 \in 1 .. Len(s) + 1
      BY <1>1
    <3> QED BY <1>2, <3>1 DEF Range
  <2> QED BY <2>1, <2>2, <2>3 DEF T
<1>4. IsSequence(t)
  BY <1>2, <1>3 DEF IsSequence
<1> QED BY <1>3, <1>4 DEF t, T

-----------------------------------------------------------------------------
(* What a plan for the running call selects *)

PlanHypotheses == IsFiniteSet(reuse.fresh) /\ IsFiniteSet(reuse.need.required)

\* The obligations are numbered.
LEMMA RequiredNumbered ==
  ASSUME PlanHypotheses
  PROVE  /\ Len(Required) \in Nat /\ PlannerNeed.count = Len(Required)
         /\ DOMAIN Required = 1 .. Len(Required)
         /\ \A o \in reuse.need.required : \E k \in 1 .. Len(Required) : Required[k] = o
<1>1. IsFiniteSet(reuse.need.required)
  BY DEF PlanHypotheses
<1> QED BY <1>1, Enumerates DEF Required, PlannerNeed

FreshCount == Cardinality(reuse.fresh)

\* The artifact candidates of the planner are the fresh certificates.
LEMMA ArtifactsAreFree ==
  ASSUME PlanHypotheses
  PROVE  /\ FreshCount \in Nat
         /\ FreeCandidates(ArtifactCandidates, Len(Required), FreshCount)
         /\ ArtifactCandidates \in Seq(Range(ArtifactCandidates))
         /\ Len(ArtifactCandidates) = FreshCount
         /\ \A j \in 1 .. FreshCount :
              /\ SetToSeq(reuse.fresh)[j] \in reuse.fresh
              /\ ArtifactCandidates[j].covers
                   = CoversOf(SetToSeq(reuse.fresh)[j].certificate.coverage)
              /\ ArtifactCandidates[j].claims = FALSE
<1> DEFINE fresh == SetToSeq(reuse.fresh)
<1>1. IsFiniteSet(reuse.fresh)
  BY DEF PlanHypotheses
<1>2. /\ FreshCount \in Nat /\ fresh \in [1 .. FreshCount -> reuse.fresh]
      /\ DOMAIN fresh = 1 .. FreshCount
  BY <1>1, Enumerates DEF FreshCount
<1>3. ArtifactCandidates =
        [j \in 1 .. FreshCount |->
           [covers |-> CoversOf(fresh[j].certificate.coverage), exact |-> fresh[j].exact,
            cost |-> 0, claims |-> FALSE]]
  BY <1>2 DEF ArtifactCandidates
<1> HIDE DEF fresh
<1>4. DOMAIN ArtifactCandidates = 1 .. FreshCount
  BY <1>3
<1>5. \A j \in 1 .. FreshCount :
        /\ fresh[j] \in reuse.fresh
        /\ ArtifactCandidates[j].covers = CoversOf(fresh[j].certificate.coverage)
        /\ ArtifactCandidates[j].claims = FALSE /\ ArtifactCandidates[j].cost = 0
  BY <1>2, <1>3
<1>6. \A coverage : CoversOf(coverage) \subseteq 1 .. Len(Required)
  BY RequiredNumbered DEF CoversOf
<1>7. FreeCandidates(ArtifactCandidates, Len(Required), FreshCount)
  BY <1>4, <1>5, <1>6 DEF FreeCandidates
<1>8. /\ ArtifactCandidates \in Seq(Range(ArtifactCandidates))
      /\ Len(ArtifactCandidates) = FreshCount
  <2>1. ArtifactCandidates \in [1 .. FreshCount -> Range(ArtifactCandidates)]
    BY <1>3, <1>4 DEF Range
  <2> QED BY <2>1, <1>2
<1> QED BY <1>2, <1>5, <1>7, <1>8 DEF fresh

\* So are the claim components behind them, each for one obligation.
ComponentsFollow(all, components) ==
  /\ FreeCandidates(all, Len(Required), FreshCount + Len(components))
  /\ \A j \in 1 .. FreshCount : all[j] = ArtifactCandidates[j]
  /\ \A j \in FreshCount + 1 .. FreshCount + Len(components) :
       /\ j - FreshCount \in 1 .. Len(components)
       /\ all[j].covers = CoversOf({components[j - FreshCount][2]})
       /\ all[j].claims = TRUE

\* The elements of two lists put together.
LEMMA TwoLists ==
  ASSUME NEW T, NEW a \in Seq(T), NEW b \in Seq(T)
  PROVE  /\ DOMAIN (a \o b) = 1 .. Len(a) + Len(b)
         /\ \A j \in 1 .. Len(a) + Len(b) :
              (a \o b)[j] = IF j <= Len(a) THEN a[j] ELSE b[j - Len(a)]
OBVIOUS

\* Together with the artifact candidates they are what the planner gets.
LEMMA ComponentsAreFree ==
  ASSUME PlanHypotheses, NEW components, IsSequence(components)
  PROVE  ComponentsFollow(WithComponents(ArtifactCandidates, components), components)
<1> DEFINE m == Len(components)
           all == WithComponents(ArtifactCandidates, components)
           Told(c) == [covers |-> CoversOf({c[2]}), exact |-> FALSE, cost |-> 0, claims |-> TRUE]
           told == [k \in DOMAIN components |-> Told(components[k])]
           T == Range(ArtifactCandidates) \cup {told[k] : k \in DOMAIN components}
<1>1. m \in Nat /\ DOMAIN components = 1 .. m
  BY DEF IsSequence
<1>2. /\ FreshCount \in Nat
      /\ FreeCandidates(ArtifactCandidates, Len(Required), FreshCount)
      /\ ArtifactCandidates \in Seq(Range(ArtifactCandidates))
      /\ Len(ArtifactCandidates) = FreshCount
  BY ArtifactsAreFree
<1>3. told \in Seq(T) /\ Len(told) = m
  <2>1. told \in [1 .. m -> T]
    BY <1>1
  <2> HIDE DEF told, T
  <2> QED BY <1>1, <2>1
<1>4. ArtifactCandidates \in Seq(T)
  <2>1. ArtifactCandidates \in [1 .. FreshCount -> T]
    BY <1>2
  <2> HIDE DEF T
  <2> QED BY <1>2, <2>1
<1>5. all = ArtifactCandidates \o told
  BY DEF WithComponents
<1>6. \A k \in 1 .. m : told[k] = Told(components[k])
  BY <1>1
<1> HIDE DEF told, T, all, m
<1>7. /\ DOMAIN all = 1 .. FreshCount + m
      /\ \A j \in 1 .. FreshCount + m :
           all[j] = IF j <= FreshCount THEN ArtifactCandidates[j] ELSE told[j - FreshCount]
  <2>1. /\ DOMAIN (ArtifactCandidates \o told) = 1 .. Len(ArtifactCandidates) + Len(told)
        /\ \A j \in 1 .. Len(ArtifactCandidates) + Len(told) :
             (ArtifactCandidates \o told)[j] =
               IF j <= Len(ArtifactCandidates) THEN ArtifactCandidates[j]
                                               ELSE told[j - Len(ArtifactCandidates)]
    BY <1>3, <1>4, TwoLists
  <2> QED BY <1>2, <1>3, <1>5, <2>1
<1>8. \A j \in 1 .. FreshCount : all[j] = ArtifactCandidates[j]
  BY <1>1, <1>2, <1>7
<1>9. \A j \in FreshCount + 1 .. FreshCount + m :
        /\ j - FreshCount \in 1 .. m
        /\ all[j] = Told(components[j - FreshCount])
  <2> HIDE DEF Told
  <2> SUFFICES ASSUME NEW j \in FreshCount + 1 .. FreshCount + m
               PROVE  j - FreshCount \in 1 .. m /\ all[j] = Told(components[j - FreshCount])
    OBVIOUS
  <2>1. j \in 1 .. FreshCount + m /\ ~(j <= FreshCount) /\ j - FreshCount \in 1 .. m
    BY <1>1, <1>2
  <2>2. all[j] = told[j - FreshCount]
    BY <1>7, <2>1
  <2> QED BY <1>6, <2>1, <2>2
<1>10. \A j \in FreshCount + 1 .. FreshCount + m :
        /\ j - FreshCount \in 1 .. m
        /\ all[j].covers = CoversOf({components[j - FreshCount][2]})
        /\ all[j].claims = TRUE /\ all[j].cost = 0
  <2>1. \A c : Told(c).covers = CoversOf({c[2]}) /\ Told(c).cost = 0
    OBVIOUS
  <2>2. \A c : Told(c).claims = TRUE
    OBVIOUS
  <2> HIDE DEF Told
  <2> QED BY <1>9, <2>1, <2>2
<1>11. \A coverage : CoversOf(coverage) \subseteq 1 .. Len(Required)
  BY RequiredNumbered DEF CoversOf
<1>12. \A j \in 1 .. FreshCount + m : all[j].covers \subseteq 1 .. Len(Required) /\ all[j].cost = 0
  <2> SUFFICES ASSUME NEW j \in 1 .. FreshCount + m
               PROVE  all[j].covers \subseteq 1 .. Len(Required) /\ all[j].cost = 0
    OBVIOUS
  <2>1. CASE j \in 1 .. FreshCount
    BY <2>1, <1>2, <1>8 DEF FreeCandidates
  <2>2. CASE j \in FreshCount + 1 .. FreshCount + m
    BY <2>2, <1>10, <1>11
  <2>3. j \in 1 .. FreshCount \/ j \in FreshCount + 1 .. FreshCount + m
    BY <1>1, <1>2
  <2> QED BY <2>1, <2>2, <2>3
<1>13. FreeCandidates(all, Len(Required), FreshCount + m)
  BY <1>7, <1>12 DEF FreeCandidates
<1> QED BY <1>8, <1>10, <1>13 DEF ComponentsFollow, all, m

\* An obligation is among the missing of a plan, or covered by a fresh certificate
\* that the plan selects.
LEMMA PlanSelects ==
  ASSUME PlanHypotheses, NEW plan,
         PlanCovers(plan, ArtifactCandidates, Len(Required), FreshCount),
         NEW o \in reuse.need.required
  PROVE  \/ o \in {Required[k] : k \in plan.missing}
         \/ \E f \in reuse.fresh :
              /\ f.certificate.artifact
                   \in {SetToSeq(reuse.fresh)[k].certificate.artifact : k \in plan.selected}
              /\ CertifiesFor(f.certificate, o)
<1>1. PICK k \in 1 .. Len(Required) : Required[k] = o
  BY RequiredNumbered
<1>2. CASE k \in plan.missing
  BY <1>1, <1>2
<1>3. CASE k \notin plan.missing
  <2>1. PICK j \in plan.selected : k \in ArtifactCandidates[j].covers
    BY <1>3 DEF PlanCovers
  <2>2. j \in 1 .. FreshCount
    BY DEF PlanCovers
  <2>3. /\ SetToSeq(reuse.fresh)[j] \in reuse.fresh
        /\ k \in CoversOf(SetToSeq(reuse.fresh)[j].certificate.coverage)
    BY <2>1, <2>2, ArtifactsAreFree
  <2>4. CertifiesFor(SetToSeq(reuse.fresh)[j].certificate, o)
    BY <1>1, <2>3 DEF CoversOf, CertifiesFor
  <2> QED BY <2>3, <2>4
<1> QED BY <1>2, <1>3

\* With components, it may also be proved by the claims of the one selected for it.
LEMMA AdviceSelects ==
  ASSUME PlanHypotheses, NEW components, IsSequence(components), NEW plan, NEW all,
         all = WithComponents(ArtifactCandidates, components),
         PlanCovers(plan, all, Len(Required), FreshCount + Len(components)),
         plan.claims = {j \in plan.selected : all[j].claims},
         NEW proof, DOMAIN proof = plan.claims,
         \A j \in plan.claims : proof[j] \in ComponentProofs(components[j - FreshCount]),
         NEW o \in reuse.need.required
  PROVE  \/ o \in {Required[k] : k \in plan.missing}
         \/ \E f \in reuse.fresh :
              /\ f.certificate.artifact
                   \in {SetToSeq(reuse.fresh)[k].certificate.artifact
                           : k \in plan.selected \ plan.claims}
              /\ CertifiesFor(f.certificate, o)
         \/ \E c \in UNION Range(proof) : Proves(c, o)
<1> DEFINE m == Len(components)
<1>0. m \in Nat /\ FreshCount \in Nat
  BY ArtifactsAreFree DEF IsSequence
<1>1. PICK k \in 1 .. Len(Required) : Required[k] = o
  BY RequiredNumbered
<1>2. CASE k \in plan.missing
  BY <1>1, <1>2
<1>3. CASE k \notin plan.missing
  <2>1. PICK j \in plan.selected : k \in all[j].covers
    BY <1>3 DEF PlanCovers
  <2>2. j \in 1 .. FreshCount + m
    BY DEF PlanCovers
  <2>3. CASE j \in 1 .. FreshCount
    <3>1. all[j] = ArtifactCandidates[j]
      BY <2>3, ComponentsAreFree DEF ComponentsFollow
    <3>2. /\ SetToSeq(reuse.fresh)[j] \in reuse.fresh
          /\ k \in CoversOf(SetToSeq(reuse.fresh)[j].certificate.coverage)
      BY <2>1, <2>3, <3>1, ArtifactsAreFree
    <3>3. all[j].claims = FALSE
      BY <2>3, <3>1, ArtifactsAreFree
    <3>4. j \in plan.selected \ plan.claims
      BY <2>1, <3>3
    <3>5. CertifiesFor(SetToSeq(reuse.fresh)[j].certificate, o)
      BY <1>1, <3>2 DEF CoversOf, CertifiesFor
    <3> QED BY <3>2, <3>4, <3>5
  <2>4. CASE j \in FreshCount + 1 .. FreshCount + m
    <3> DEFINE component == components[j - FreshCount]
    <3>1. all[j].covers = CoversOf({component[2]}) /\ all[j].claims = TRUE
      BY <2>4, ComponentsAreFree DEF ComponentsFollow
    <3>2. j \in plan.claims
      BY <3>1
    <3>3. proof[j] \in ComponentProofs(component)
      BY <3>2
    <3>4. Satisfies(component[2], o)
      BY <1>1, <2>1, <3>1 DEF CoversOf
    <3> HIDE DEF component
    <3>5. PICK c \in proof[j] : Proves(c, component[2])
      BY <3>3, ClaimProofSatisfies DEF ComponentProofs
    <3>6. Proves(c, o)
      BY <3>4, <3>5, SatisfiesTransitive DEF Proves
    <3>7. c \in UNION Range(proof)
      BY <3>2, <3>5 DEF Range
    <3> QED BY <3>6, <3>7
  <2>5. j \in 1 .. FreshCount \/ j \in FreshCount + 1 .. FreshCount + m
    BY <1>0, <2>2
  <2> QED BY <2>3, <2>4, <2>5
<1> QED BY <1>2, <1>3

-----------------------------------------------------------------------------
(* The invariant is inductive *)

\* Steps of the environment leave the tables and the call alone.
LEMMA EnvironmentKeepsReuse ==
  ASSUME ReuseInv, UNCHANGED <<evidence, reuse>>
  PROVE  ReuseInv'
<1> USE DEF FreshCovers, FreshAsRead, Decides, SelectionCovers, FromClaims, Publishing
<1>1. TablesSound' /\ CallShaped' /\ ResultsShaped'
  BY DEF ReuseInv, TablesSound, TablesRecord, CallShaped, CallRecord, DecisionRecord, ResultsShaped
<1>2. CandidatesCertified' /\ FreshAreFresh'
  BY DEF ReuseInv, CandidatesCertified, FreshAreFresh
<1>3. DecisionCovers'
  BY DEF ReuseInv, DecisionCovers
<1>4. DeliveryCovers' /\ FragmentAndReuseCoverTheNeed'
  BY DEF ReuseInv, DeliveryCovers, FragmentAndReuseCoverTheNeed
<1> QED BY <1>1, <1>2, <1>3, <1>4 DEF ReuseInv

\* Only the tables matter once no call is running.
LEMMA IdleKeepsReuse ==
  ASSUME TablesSound', reuse'.phase = "idle", CallRecord', DecisionRecord'
  PROVE  ReuseInv'
BY DEF ReuseInv, CallShaped, ResultsShaped, Publishing, CandidatesCertified, FreshAreFresh,
       DecisionCovers, DeliveryCovers, FragmentAndReuseCoverTheNeed

\* Sound tables stay sound while nobody writes.
LEMMA TablesKept ==
  ASSUME TablesSound, UNCHANGED evidence
  PROVE  TablesSound'
BY DEF TablesSound, TablesRecord

\* A call that returns leaves the tables as they are.
LEMMA OverKeepsReuse ==
  ASSUME ReuseInv, UNCHANGED evidence, NEW kind, reuse' = Over(kind)
  PROVE  ReuseInv'
<1>1. TablesSound'
  BY TablesKept DEF ReuseInv
<1>2. reuse'.phase = "idle" /\ CallRecord'
  BY DEF Over, Idle, CallRecord
<1>3. reuse'.decision = NoDecision
  BY DEF Over, Idle
<1>4. DecisionRecord'
  BY <1>3 DEF DecisionRecord, NoDecision
<1> QED BY <1>1, <1>2, <1>4, IdleKeepsReuse

\* At the start of a call there is nothing but the need.
LEMMA StartKeepsReuse ==
  ASSUME ReuseInv, StartResolve
  PROVE  ReuseInv'
<1>1. PICK n \in SemanticNeeds, prices \in ReusePrices :
        reuse' = [Idle EXCEPT !.phase = "contradiction", !.calls = reuse.calls + 1,
                             !.need = n, !.captured = source.tree, !.worth = prices.worth,
                             !.bootstrap = prices.bootstrap, !.fragment = n.required]
  BY DEF StartResolve
<1>2. /\ CallRecord' /\ reuse'.phase = "contradiction" /\ reuse'.need = n
      /\ reuse'.fragment = n.required /\ reuse'.decision = NoDecision
  BY <1>1 DEF Idle, CallRecord
<1>3. TablesSound'
  BY TablesKept DEF ReuseInv, StartResolve, AtPhase
<1>4. DecisionRecord'
  BY <1>2 DEF DecisionRecord, NoDecision
<1>5. CallShaped'
  BY <1>2, <1>4 DEF CallShaped
<1> QED BY <1>2, <1>3, <1>5 DEF ReuseInv, ResultsShaped, Publishing, CandidatesCertified, FreshAreFresh,
            DecisionCovers, DeliveryCovers, FragmentAndReuseCoverTheNeed

\* A refused need goes to the worker whole.
LEMMA ContradictionKeepsReuse ==
  ASSUME ReuseInv, CheckContradiction
  PROVE  ReuseInv'
<1>1. reuse.phase = "contradiction" /\ UNCHANGED evidence
  BY DEF CheckContradiction, AtPhase
<1>2. TablesSound'
  BY <1>1, TablesKept DEF ReuseInv
<1>3. CallRecord /\ DecisionRecord /\ reuse.need \in SemanticNeeds /\ reuse.fragment = reuse.need.required
  BY <1>1 DEF ReuseInv, CallShaped
<1>4. CASE reuse' = [reuse EXCEPT !.phase = "lookup"]
  <2>1. CallRecord' /\ reuse'.phase = "lookup" /\ UNCHANGED <<reuse.need, reuse.decision>>
    BY <1>3, <1>4 DEF CallRecord
  <2>2. CallShaped'
    BY <1>3, <2>1 DEF CallShaped, DecisionRecord
  <2> QED BY <1>2, <2>1, <2>2 DEF ReuseInv, ResultsShaped, Publishing, CandidatesCertified, FreshAreFresh,
              DecisionCovers, DeliveryCovers, FragmentAndReuseCoverTheNeed
<1>5. ASSUME NEW resolution, reuse' = [reuse EXCEPT !.phase = "worker",
                                                    !.decision.resolution = resolution]
      PROVE  ReuseInv'
  <2>1. CallRecord' /\ reuse'.phase = "worker" /\ UNCHANGED <<reuse.need, reuse.fragment>>
        /\ reuse'.decision = [reuse.decision EXCEPT !.resolution = resolution]
    BY <1>3, <1>5 DEF CallRecord
  <2>2. DecisionRecord'
    BY <1>3, <2>1 DEF DecisionRecord
  <2>3. CallShaped'
    BY <1>3, <2>1, <2>2 DEF CallShaped
  <2>4. FragmentAndReuseCoverTheNeed'
    BY <1>3, <2>1 DEF FragmentAndReuseCoverTheNeed
  <2> QED BY <1>2, <2>1, <2>3, <2>4 DEF ReuseInv, ResultsShaped, Publishing, CandidatesCertified,
              FreshAreFresh, DecisionCovers, DeliveryCovers
<1> QED BY <1>4, <1>5 DEF CheckContradiction

\* The candidates of a lookup are stored certificates, finitely many.
LEMMA LoadKeepsReuse ==
  ASSUME ReuseInv, LoadCandidates
  PROVE  ReuseInv'
<1>1. reuse.phase = "lookup" /\ UNCHANGED evidence
  BY DEF LoadCandidates, AtPhase
<1>2. TablesSound'
  BY <1>1, TablesKept DEF ReuseInv
<1>3. CallRecord /\ DecisionRecord /\ reuse.need \in SemanticNeeds
  BY <1>1 DEF ReuseInv, CallShaped
<1> DEFINE need == reuse.need
           exact == {Request(Fragment(need, need.required, {}), reuse.captured, KindOf(o.predicate))
                       : o \in need.required}
           S == {c \in Range(evidence.certificates) :
                   /\ c.world = need.world
                   /\ \E o \in need.required, p \in c.coverage :
                        o.predicate = p.predicate /\ o.subject = p.subject}
           f == [c \in S |-> [certificate |-> c,
                              exact |-> \E r \in exact : <<c.artifact, r>> \in evidence.origins]]
<1>4. reuse' = [reuse EXCEPT !.phase = "freshness", !.found = {f[c] : c \in S}]
  <2>1. {f[c] : c \in S} = {[certificate |-> c,
                             exact |-> \E r \in exact : <<c.artifact, r>> \in evidence.origins] : c \in S}
    OBVIOUS
  <2> QED BY <2>1 DEF LoadCandidates
<1>5. IsFiniteSet({f[c] : c \in S})
  <2>1. IsFiniteSet(Range(evidence.certificates))
    BY RangeIsFinite DEF ReuseInv, TablesSound
  <2>2. IsFiniteSet(S)
    BY <2>1, FS_Subset
  <2>3. S \subseteq DOMAIN f
    OBVIOUS
  <2> HIDE DEF S, f
  <2> QED BY <2>2, <2>3, ImageIsFinite
<1>6. \A x \in {f[c] : c \in S} : x.certificate \in Range(evidence.certificates)
  <2> DEFINE IsExact(c) == \E r \in exact : <<c.artifact, r>> \in evidence.origins
  <2>1. \A c \in S : f[c] = [certificate |-> c, exact |-> IsExact(c)]
    OBVIOUS
  <2>2. \A c \in S : c \in Range(evidence.certificates)
    OBVIOUS
  <2> HIDE DEF IsExact, S, f
  <2>3. \A c, x : [certificate |-> c, exact |-> x].certificate = c
    OBVIOUS
  <2>4. \A c \in S : f[c].certificate = c
    BY <2>1, <2>3, Zenon
  <2> QED BY <2>2, <2>4
<1> HIDE DEF f, S
<1>7. /\ CallRecord' /\ reuse'.phase = "freshness" /\ UNCHANGED <<reuse.need, reuse.decision>>
      /\ reuse'.found = {f[c] : c \in S}
  BY <1>3, <1>4 DEF CallRecord
<1>8. CallShaped'
  BY <1>3, <1>7 DEF CallShaped, DecisionRecord
<1>9. CandidatesCertified'
  BY <1>1, <1>5, <1>6, <1>7 DEF CandidatesCertified
<1> QED BY <1>2, <1>7, <1>8, <1>9 DEF ReuseInv, ResultsShaped, Publishing, FreshAreFresh,
            DecisionCovers, DeliveryCovers, FragmentAndReuseCoverTheNeed

\* A usable certificate agrees with the files as they were read for it.
LEMMA FilterKeepsReuse ==
  ASSUME ReuseInv, FilterFresh
  PROVE  ReuseInv'
<1>1. reuse.phase = "freshness" /\ UNCHANGED evidence
  BY DEF FilterFresh
<1>2. TablesSound'
  BY <1>1, TablesKept DEF ReuseInv
<1>3. /\ CallRecord /\ DecisionRecord /\ reuse.need \in SemanticNeeds /\ IsFiniteSet(reuse.found)
      /\ \A f \in reuse.found : f.certificate \in Range(evidence.certificates)
  BY <1>1 DEF ReuseInv, CallShaped, CandidatesCertified
<1>0. PICK read \in [reuse.found -> Readings] :
        LET new == {f \in reuse.found :
                      UsableCandidate(f.certificate, read[f], reuse.captured)}
        IN  Filtered(new, {read[f] : f \in new})
  BY DEF FilterFresh
<1> DEFINE fresh == {f \in reuse.found :
                       UsableCandidate(f.certificate, read[f], reuse.captured)}
           trees == {read[f] : f \in fresh}
           covers == \A o \in reuse.need.required : \E f \in fresh :
                       \E p \in f.certificate.coverage : Satisfies(p, o)
<1>4. reuse' = [reuse EXCEPT !.phase = IF covers THEN "plan" ELSE "claims",
                             !.fresh = fresh, !.seen = trees]
  BY <1>0 DEF Filtered
<1>5. \A f \in fresh : DependenciesFresh(f.certificate.manifest.files, read[f])
  BY DEF UsableCandidate, UsableAlone, FreshWith
<1>6. fresh \subseteq reuse.found
  OBVIOUS
<1>6a. \A f \in fresh : \E tree \in trees : DependenciesFresh(f.certificate.manifest.files, tree)
  <2> HIDE DEF fresh
  <2> QED BY <1>5
<1> HIDE DEF fresh, trees
<1>7. /\ CallRecord' /\ UNCHANGED <<reuse.need, reuse.decision, reuse.found>>
      /\ reuse'.phase = (IF covers THEN "plan" ELSE "claims") /\ reuse'.fresh = fresh
      /\ reuse'.seen = trees
  <2> HIDE DEF covers
  <2> QED BY <1>3, <1>4 DEF CallRecord
<1> HIDE DEF covers
<1>8. CallShaped'
  BY <1>3, <1>7 DEF CallShaped, DecisionRecord
<1>9. CandidatesCertified'
  BY <1>1, <1>3, <1>6, <1>7 DEF CandidatesCertified
<1>10. FreshAreFresh'
  BY <1>6a, <1>7 DEF FreshAreFresh, FreshAsRead
<1>11. reuse'.phase \in {"plan", "claims"}
  BY <1>7
<1> QED BY <1>2, <1>8, <1>9, <1>10, <1>11 DEF ReuseInv, ResultsShaped, Publishing,
            DecisionCovers, DeliveryCovers, FragmentAndReuseCoverTheNeed

\* The origins of claim components have rows, so there are finitely many.
LEMMA ComponentsAreFinite ==
  ASSUME IsSequence(evidence.artifacts), IsFiniteSet(reuse.need.required)
  PROVE  IsFiniteSet(ClaimComponents) /\ IsSequence(SetToSeq(ClaimComponents))
<1> DEFINE rows == Range(evidence.artifacts)
           f == [row \in rows |-> row.artifact]
           stored == {f[row] : row \in rows}
<1>1. IsFiniteSet(rows)
  BY RangeIsFinite
<1>2. IsFiniteSet(stored)
  <2>1. rows \subseteq DOMAIN f
    OBVIOUS
  <2> HIDE DEF rows, f
  <2> QED BY <1>1, <2>1, ImageIsFinite
<1>3. EligibleOrigins \subseteq stored
  <2>1. \A a \in EligibleOrigins : Stored(a)
    BY DEF EligibleOrigins
  <2>2. \A a : Stored(a) => a \in stored
    BY DEF Stored, Range
  <2> QED BY <2>1, <2>2
<1> HIDE DEF stored
<1>4. IsFiniteSet(EligibleOrigins)
  BY <1>2, <1>3, FS_Subset
<1>5. IsFiniteSet(EligibleOrigins \X reuse.need.required)
  BY <1>4, FS_Product
<1>6. ClaimComponents \subseteq EligibleOrigins \X reuse.need.required
  BY DEF ClaimComponents
<1>7. IsFiniteSet(ClaimComponents)
  BY <1>5, <1>6, FS_Subset
<1> DEFINE s == SetToSeq(ClaimComponents)
<1>8. s \in Seq(ClaimComponents) /\ \A x \in ClaimComponents : \E k \in DOMAIN s : s[k] = x
  BY <1>7, Enumerates
<1> HIDE DEF s
<1>9. Range(s) = ClaimComponents
  BY <1>8 DEF Range
<1>10. IsSequence(s)
  BY <1>8, <1>9 DEF IsSequence
<1> QED BY <1>7, <1>10 DEF s

\* What the planner needs of the invariant.
LEMMA PlanningIsFinite ==
  ASSUME ReuseInv, reuse.phase \in {"claims", "plan"}
  PROVE  PlanHypotheses
<1>1. IsFiniteSet(reuse.found) /\ reuse.fresh \subseteq reuse.found
  BY DEF ReuseInv, CandidatesCertified
<1>2. reuse.need \in SemanticNeeds
  BY DEF ReuseInv, CallShaped
<1>3. IsFiniteSet(reuse.need.required)
  BY <1>2, NeedsAssumption
<1> QED BY <1>1, <1>3, FS_Subset DEF PlanHypotheses

\* An advice that decides nothing leaves the call to the planner.
LEMMA NoAdviceKeepsReuse ==
  ASSUME ReuseInv, reuse.phase = "claims", UNCHANGED evidence,
         reuse' = [reuse EXCEPT !.phase = "plan"]
  PROVE  ReuseInv'
<1>1. TablesSound'
  BY TablesKept DEF ReuseInv
<1>2. /\ CallRecord /\ DecisionRecord /\ reuse.need \in SemanticNeeds
      /\ CandidatesCertified /\ FreshAreFresh
  BY DEF ReuseInv, CallShaped
<1>3. /\ CallRecord' /\ reuse'.phase = "plan"
      /\ UNCHANGED <<reuse.need, reuse.decision, reuse.found, reuse.fresh, reuse.seen>>
  BY <1>2 DEF CallRecord
<1>4. CallShaped'
  BY <1>2, <1>3 DEF CallShaped, DecisionRecord
<1>5. CandidatesCertified'
  BY <1>2, <1>3 DEF CandidatesCertified
<1>6. FreshAreFresh'
  BY <1>2, <1>3 DEF FreshAreFresh, FreshAsRead
<1> QED BY <1>1, <1>3, <1>4, <1>5, <1>6 DEF ReuseInv, ResultsShaped, Publishing,
            DecisionCovers, DeliveryCovers, FragmentAndReuseCoverTheNeed

\* A decision from claims covers the need together with what it says is missing.
LEMMA ClaimDecisionKeepsReuse ==
  ASSUME ReuseInv, reuse.phase = "claims", UNCHANGED evidence,
         NEW components, IsSequence(components), NEW plan,
         plan = ClaimPlan(PlannerNeed, WithComponents(ArtifactCandidates, components)),
         plan.found, NEW proof, DOMAIN proof = plan.claims,
         \A k \in plan.claims : proof[k] \in ComponentProofs(components[k - Len(ArtifactCandidates)]),
         NEW allowed, DecideFromClaims(plan, proof, allowed)
  PROVE  ReuseInv'
<1>1. TablesSound'
  BY TablesKept DEF ReuseInv
<1>2. /\ CallRecord /\ DecisionRecord /\ reuse.need \in SemanticNeeds
      /\ CandidatesCertified /\ FreshAreFresh
  BY DEF ReuseInv, CallShaped
<1>3. PlanHypotheses
  BY PlanningIsFinite
<1> DEFINE all == WithComponents(ArtifactCandidates, components)
           artifacts == {SetToSeq(reuse.fresh)[k].certificate.artifact
                           : k \in plan.selected \ plan.claims}
           claims == UNION Range(proof)
           missing == {Required[k] : k \in plan.missing}
           authoritative == allowed /\ "claim" \in reuse.worth
           resolution == IF authoritative THEN plan.kind ELSE Unserved
           phase == IF authoritative \/ reuse.fresh = {} THEN "decided" ELSE "plan"
<1>4. /\ PlanCovers(plan, all, Len(Required), FreshCount + Len(components))
      /\ plan.claims = {j \in plan.selected : all[j].claims} /\ plan.claims # {}
      /\ plan.kind \in {"partial", "claim", "claim composite"}
  <2> DEFINE n == Len(Required)
             k == FreshCount + Len(components)
  <2>1. FreshCount \in Nat /\ Len(components) \in Nat
    BY <1>3, ArtifactsAreFree DEF IsSequence
  <2>2. k \in Nat
    BY <2>1
  <2>3. n \in Nat /\ PlannerNeed.count = n
    BY <1>3, RequiredNumbered
  <2>4. ComponentsFollow(all, components)
    BY <1>3, ComponentsAreFree
  <2>5. plan = ClaimPlan(PlannerNeed, all)
    OBVIOUS
  <2> HIDE DEF all
  <2>6. FreeCandidates(all, n, k)
    BY <2>4 DEF ComponentsFollow
  <2> HIDE DEF n, k
  <2>7. AdviceCovers(ClaimPlan(PlannerNeed, all), all, n, k)
    BY <2>2, <2>3, <2>6, AdviceIsACover
  <2>8. AdviceCovers(plan, all, n, k)
    BY <2>5, <2>7
  <2>9. plan.claims # {}
    BY <2>8 DEF AdviceCovers
  <2> QED BY <2>8, <2>9 DEF AdviceCovers, n, k
<1>5. Len(ArtifactCandidates) = FreshCount
  BY <1>3, ArtifactsAreFree
<1>6. \A o \in reuse.need.required :
        \/ o \in missing
        \/ \E f \in reuse.fresh : /\ f.certificate.artifact \in artifacts
                                  /\ CertifiesFor(f.certificate, o)
        \/ \E c \in claims : Proves(c, o)
  BY <1>3, <1>4, <1>5, AdviceSelects
<1>7. claims # {}
  <2>1. PICK k \in plan.claims : TRUE
    BY <1>4
  <2> DEFINE component == components[k - Len(ArtifactCandidates)]
  <2>2. proof[k] \in ComponentProofs(component)
    OBVIOUS
  <2> HIDE DEF component
  <2>3. PICK c \in proof[k] : Proves(c, component[2])
    BY <2>2, ClaimProofSatisfies DEF ComponentProofs
  <2> QED BY <2>1, <2>3 DEF Range
<1> HIDE DEF artifacts, claims, missing, all
<1>8. reuse' = [reuse EXCEPT
        !.phase = phase,
        !.decision = [resolution |-> resolution, authoritative |-> authoritative,
                      eligible |-> allowed, allowed |-> allowed, artifacts |-> artifacts,
                      claims |-> claims, missing |-> missing]]
  BY DEF DecideFromClaims, artifacts, claims, missing
<1>9. resolution \notin {"exact", "coverage", "composite"}
  BY <1>4 DEF Unserved
<1>10. authoritative => allowed
  OBVIOUS
<1>11. phase \in {"decided", "plan"}
  OBVIOUS
<1> HIDE DEF resolution, authoritative, phase
<1>12. /\ CallRecord' /\ reuse'.phase = phase
       /\ UNCHANGED <<reuse.need, reuse.found, reuse.fresh, reuse.seen>>
       /\ reuse'.decision = [resolution |-> resolution, authoritative |-> authoritative,
                             eligible |-> allowed, allowed |-> allowed, artifacts |-> artifacts,
                             claims |-> claims, missing |-> missing]
  BY <1>2, <1>8 DEF CallRecord
<1>13. /\ DecisionRecord' /\ reuse'.decision.resolution = resolution
       /\ reuse'.decision.artifacts = artifacts /\ reuse'.decision.claims = claims
       /\ reuse'.decision.missing = missing
  BY <1>12 DEF DecisionRecord
<1>14. reuse'.decision.authoritative = authoritative /\ reuse'.decision.eligible = allowed
       /\ reuse'.decision.allowed = allowed
  BY <1>12
<1>15. CallShaped'
  BY <1>2, <1>11, <1>12, <1>13 DEF CallShaped
<1>16. CandidatesCertified'
  BY <1>2, <1>12 DEF CandidatesCertified
<1>17. FreshAreFresh'
  BY <1>2, <1>11, <1>12 DEF FreshAreFresh, FreshAsRead
<1>18. ASSUME Decides' PROVE FromClaims'
  <2>1. reuse'.decision.allowed
    BY <1>10, <1>14, <1>18 DEF Decides
  <2> QED BY <1>7, <1>9, <1>13, <2>1 DEF FromClaims
<1>19. \A o \in reuse'.need.required : o \in reuse'.decision.missing \/ SelectionCovers(o)'
  BY <1>6, <1>12, <1>13 DEF SelectionCovers
<1>20. DecisionCovers'
  BY <1>18, <1>19 DEF DecisionCovers
<1> QED BY <1>1, <1>11, <1>12, <1>15, <1>16, <1>17, <1>20 DEF ReuseInv, ResultsShaped, Publishing,
            DeliveryCovers, FragmentAndReuseCoverTheNeed

\* The claim advisory, whichever way it ends.
LEMMA AdviseKeepsReuse ==
  ASSUME ReuseInv, AdviseClaims
  PROVE  ReuseInv'
<1> DEFINE components == SetToSeq(ClaimComponents)
           plan == ClaimPlan(PlannerNeed, WithComponents(ArtifactCandidates, components))
<1>1. reuse.phase = "claims" /\ UNCHANGED evidence
  BY DEF AdviseClaims, AtPhase
<1>2. CASE reuse' = [reuse EXCEPT !.phase = "plan"]
  BY <1>1, <1>2, NoAdviceKeepsReuse
<1>3. CASE plan.found /\
           \E proof \in [plan.claims -> UNION {ComponentProofs(c) : c \in Range(components)}] :
             /\ \A k \in plan.claims :
                  proof[k] \in ComponentProofs(components[k - Len(ArtifactCandidates)])
             /\ DecideFromClaims(plan, proof, ClaimModesAllow(plan))
  <2>1. IsSequence(components)
    <3>1. IsFiniteSet(reuse.need.required)
      BY <1>1, PlanningIsFinite DEF PlanHypotheses
    <3> QED BY <3>1, ComponentsAreFinite DEF ReuseInv, TablesSound
  <2>2. PICK proof \in [plan.claims -> UNION {ComponentProofs(c) : c \in Range(components)}] :
             /\ \A k \in plan.claims :
                  proof[k] \in ComponentProofs(components[k - Len(ArtifactCandidates)])
             /\ DecideFromClaims(plan, proof, ClaimModesAllow(plan))
    BY <1>3
  <2>3. DOMAIN proof = plan.claims
    OBVIOUS
  <2>4. plan = ClaimPlan(PlannerNeed, WithComponents(ArtifactCandidates, components))
    OBVIOUS
  <2> HIDE DEF plan, components
  <2> QED BY <1>1, <1>3, <2>1, <2>2, <2>3, <2>4, ClaimDecisionKeepsReuse
<1> QED BY <1>2, <1>3 DEF AdviseClaims, AdviseOn, AdviseFrom, AdviceNotStored

\* So does a decision from artifacts; a full one selects what was just compared
\* with the files.
LEMMA PlanDecisionKeepsReuse ==
  ASSUME ReuseInv, reuse.phase = "plan", UNCHANGED evidence,
         DecideFromPlan(ArtifactCandidates, Plan(PlannerNeed, ArtifactCandidates))
  PROVE  ReuseInv'
<1>1. TablesSound'
  BY TablesKept DEF ReuseInv
<1>2. /\ CallRecord /\ DecisionRecord /\ reuse.need \in SemanticNeeds
      /\ CandidatesCertified /\ FreshAreFresh
  BY DEF ReuseInv, CallShaped
<1>3. PlanHypotheses
  BY PlanningIsFinite
<1> DEFINE plan == Plan(PlannerNeed, ArtifactCandidates)
<1>4. PlanCovers(plan, ArtifactCandidates, Len(Required), FreshCount)
  <2>1. Len(Required) \in Nat /\ PlannerNeed.count = Len(Required)
    BY <1>3, RequiredNumbered
  <2>2. FreshCount \in Nat /\ FreeCandidates(ArtifactCandidates, Len(Required), FreshCount)
    BY <1>3, ArtifactsAreFree
  <2> QED BY <2>1, <2>2, PlanIsACover
<1> DEFINE artifacts == {SetToSeq(reuse.fresh)[k].certificate.artifact : k \in plan.selected}
           missing == {Required[k] : k \in plan.missing}
           eligible == /\ plan.kind # "miss" /\ Replays(PlannerNeed, ArtifactCandidates, plan)
                       /\ "artifact" \in authority.modes
           authoritative == eligible /\ "artifact" \in reuse.worth
           resolution == IF authoritative THEN plan.kind ELSE "bypass"
<1>5. reuse' = [reuse EXCEPT
        !.phase = "decided",
        !.decision = [@ EXCEPT
                        !.resolution = resolution, !.authoritative = authoritative,
                        !.eligible = eligible, !.artifacts = artifacts, !.missing = missing]]
  BY DEF DecideFromPlan
<1> HIDE DEF plan
<1>6. \A o \in reuse.need.required :
        \/ o \in missing
        \/ \E f \in reuse.fresh : /\ f.certificate.artifact \in artifacts
                                  /\ CertifiesFor(f.certificate, o)
  BY <1>3, <1>4, PlanSelects
<1> HIDE DEF artifacts, missing, eligible, authoritative, resolution
<1>7. /\ CallRecord' /\ reuse'.phase = "decided"
      /\ UNCHANGED <<reuse.need, reuse.found, reuse.fresh, reuse.seen>>
      /\ reuse'.decision = [reuse.decision EXCEPT
                              !.resolution = resolution, !.authoritative = authoritative,
                              !.eligible = eligible, !.artifacts = artifacts, !.missing = missing]
  BY <1>2, <1>5 DEF CallRecord
<1>8. DecisionRecord' /\ reuse'.decision.artifacts = artifacts /\ reuse'.decision.missing = missing
  BY <1>2, <1>7 DEF DecisionRecord
<1>9. CallShaped'
  BY <1>2, <1>7, <1>8 DEF CallShaped
<1>10. CandidatesCertified'
  BY <1>2, <1>7 DEF CandidatesCertified
<1>11. FreshAreFresh'
  BY <1>7 DEF FreshAreFresh
<1>12. \A o \in reuse'.need.required : o \in reuse'.decision.missing \/ SelectionCovers(o)'
  BY <1>6, <1>7, <1>8 DEF SelectionCovers
<1>13. ASSUME reuse'.decision.missing = {}, NEW o \in reuse'.need.required
       PROVE  \E f \in reuse'.fresh : /\ f.certificate.artifact \in reuse'.decision.artifacts
                                      /\ CertifiesFor(f.certificate, o)
                                      /\ FreshAsRead(f.certificate)'
  <2>1. \A q \in reuse.need.required :
          \E f \in reuse.fresh : /\ f.certificate.artifact \in artifacts
                                 /\ CertifiesFor(f.certificate, q)
    BY <1>6, <1>8, <1>13
  <2>2. \A f \in reuse.fresh : FreshAsRead(f.certificate)
    BY <1>2 DEF FreshAreFresh
  <2>3. PICK f \in reuse.fresh : f.certificate.artifact \in artifacts /\ CertifiesFor(f.certificate, o)
    BY <1>7, <2>1
  <2>4. FreshAsRead(f.certificate)'
    BY <1>7, <2>2 DEF FreshAsRead
  <2> QED BY <2>3, <2>4, <1>7, <1>8
<1>14. DecisionCovers'
  BY <1>12, <1>13 DEF DecisionCovers
<1> QED BY <1>1, <1>7, <1>9, <1>10, <1>11, <1>14 DEF ReuseInv, ResultsShaped, Publishing,
            DeliveryCovers, FragmentAndReuseCoverTheNeed

\* The planner, with fresh candidates or without.
LEMMA PlanKeepsReuse ==
  ASSUME ReuseInv, PlanArtifacts
  PROVE  ReuseInv'
<1>1. reuse.phase = "plan" /\ UNCHANGED evidence
  BY DEF PlanArtifacts, AtPhase
<1>2. CASE reuse' = Over("failed")
  BY <1>1, <1>2, OverKeepsReuse
<1>3. CASE DecideFromPlan(ArtifactCandidates, Plan(PlannerNeed, ArtifactCandidates))
  BY <1>1, <1>3, PlanDecisionKeepsReuse
<1>4. CASE reuse' = [reuse EXCEPT !.phase = "decided",
                                  !.decision = [NoDecision EXCEPT !.resolution = Unserved]]
  <2>1. TablesSound'
    BY <1>1, TablesKept DEF ReuseInv
  <2>2. CallRecord /\ reuse.need \in SemanticNeeds /\ CandidatesCertified
    BY <1>1 DEF ReuseInv, CallShaped
  <2>3. /\ CallRecord' /\ reuse'.phase = "decided"
        /\ UNCHANGED <<reuse.need, reuse.found, reuse.fresh>>
        /\ reuse'.decision = [NoDecision EXCEPT !.resolution = Unserved]
    BY <1>4, <2>2 DEF CallRecord
  <2>4. DecisionRecord'
    BY <2>3 DEF DecisionRecord, NoDecision
  <2>5. ~Decides'
    BY <2>3 DEF Decides, NoDecision
  <2>6. CandidatesCertified'
    BY <1>1, <2>2, <2>3 DEF CandidatesCertified
  <2>7. CallShaped'
    BY <2>2, <2>3, <2>4 DEF CallShaped
  <2> QED BY <2>1, <2>3, <2>5, <2>6, <2>7 DEF ReuseInv, ResultsShaped, Publishing, FreshAreFresh,
              DecisionCovers, DeliveryCovers, FragmentAndReuseCoverTheNeed
<1> QED BY <1>2, <1>3, <1>4 DEF PlanArtifacts, PlanNotStored

\* What a settled call keeps.
LEMMA SettledCall ==
  ASSUME ReuseInv, UNCHANGED evidence, NEW phase \in {"deliver", "worker"}, NEW fragment,
         NEW decision, Settle(phase, fragment, decision), reuse.need \in SemanticNeeds,
         decision = [resolution |-> decision.resolution, authoritative |-> decision.authoritative,
                     eligible |-> decision.eligible, allowed |-> decision.allowed,
                     artifacts |-> decision.artifacts, claims |-> decision.claims,
                     missing |-> decision.missing]
  PROVE  /\ TablesSound' /\ CallShaped' /\ ResultsShaped' /\ CandidatesCertified'
         /\ FreshAreFresh' /\ DecisionCovers'
         /\ reuse'.phase = phase /\ reuse'.fragment = fragment /\ reuse'.decision = decision
         /\ UNCHANGED <<reuse.need, reuse.seen>>
<1>1. TablesSound'
  BY TablesKept DEF ReuseInv
<1>2. /\ CallRecord' /\ reuse'.phase = phase /\ reuse'.fragment = fragment
      /\ reuse'.decision = decision /\ UNCHANGED <<reuse.need, reuse.seen>>
  BY DEF Settle, Idle, CallRecord
<1>3. CallShaped'
  BY <1>2 DEF CallShaped, DecisionRecord
<1> QED BY <1>1, <1>2, <1>3 DEF ResultsShaped, Publishing, CandidatesCertified, FreshAreFresh, DecisionCovers

\* The orchestrator delivers what covers the need, or gives the worker the rest.
LEMMA ConsultKeepsReuse ==
  ASSUME ReuseInv, Consult
  PROVE  ReuseInv'
<1> DEFINE d == reuse.decision
<1>1. reuse.phase = "decided" /\ UNCHANGED evidence
  BY DEF Consult, AtPhase
<1>2. /\ reuse.need \in SemanticNeeds /\ CandidatesCertified /\ DecisionCovers /\ DecisionRecord
  BY <1>1 DEF ReuseInv, CallShaped
<1>3. \A f \in reuse.fresh : f.certificate \in Range(evidence.certificates)
  BY <1>1, <1>2 DEF CandidatesCertified
<1>0. PICK calibration \in BOOLEAN :
        IF Taken(calibration) /\ d.missing = {} THEN Settle("deliver", {}, d)
        ELSE IF Taken(calibration) /\ d.missing # reuse.need.required
        THEN Settle("worker", d.missing, d)
        ELSE Settle("worker", reuse.need.required, Refused)
  BY DEF Consult
<1>4. Taken(calibration) => Decides
  BY DEF Taken, Decides
<1>5. CASE Taken(calibration) /\ d.missing = {} /\ Settle("deliver", {}, d)
  <2>1. /\ TablesSound' /\ CallShaped' /\ ResultsShaped' /\ CandidatesCertified'
        /\ FreshAreFresh' /\ DecisionCovers'
        /\ reuse'.phase = "deliver" /\ reuse'.decision = d
        /\ UNCHANGED <<reuse.need, reuse.seen>>
    BY <1>1, <1>2, <1>5, SettledCall DEF DecisionRecord
  <2>2. FromClaims' = FromClaims
    BY <2>1 DEF FromClaims
  <2>3. ASSUME ~FromClaims, NEW o \in reuse.need.required
        PROVE  \E c \in Range(evidence.certificates) :
                  /\ c.artifact \in d.artifacts /\ CertifiesFor(c, o)
                  /\ FreshAsRead(c)
    BY <1>1, <1>2, <1>3, <1>4, <1>5, <2>3 DEF DecisionCovers
  <2>4. DeliveryCovers'
    BY <1>1, <1>2, <2>1, <2>2, <2>3 DEF DeliveryCovers, FreshAsRead
  <2> QED BY <2>1, <2>4 DEF ReuseInv, FragmentAndReuseCoverTheNeed
<1>6. CASE Taken(calibration) /\ Settle("worker", d.missing, d)
  <2>1. /\ TablesSound' /\ CallShaped' /\ ResultsShaped' /\ CandidatesCertified'
        /\ FreshAreFresh' /\ DecisionCovers'
        /\ reuse'.phase = "worker" /\ reuse'.decision = d /\ reuse'.fragment = d.missing
        /\ UNCHANGED <<reuse.need, reuse.seen>>
    BY <1>1, <1>2, <1>6, SettledCall DEF DecisionRecord
  <2>2. \A o \in reuse.need.required : o \in d.missing \/ SelectionCovers(o)
    BY <1>1, <1>2, <1>4, <1>6 DEF DecisionCovers
  <2>3. FragmentAndReuseCoverTheNeed'
    <3> SUFFICES ASSUME NEW o \in reuse.need.required
                 PROVE  \/ o \in d.missing
                        \/ \E c \in Range(evidence.certificates) : c.artifact \in d.artifacts
                             /\ \E p \in c.coverage : Satisfies(p, o)
                        \/ \E c \in d.claims : \E p \in c.obligations : Satisfies(p, o)
      BY <1>1, <2>1 DEF FragmentAndReuseCoverTheNeed
    <3> QED BY <1>3, <2>2 DEF SelectionCovers, CertifiesFor, Proves
  <2> QED BY <2>1, <2>3 DEF ReuseInv, DeliveryCovers
<1>7. CASE Settle("worker", reuse.need.required, Refused)
  <2>1. Refused = [resolution |-> Refused.resolution, authoritative |-> Refused.authoritative,
                   eligible |-> Refused.eligible, allowed |-> Refused.allowed,
                   artifacts |-> Refused.artifacts, claims |-> Refused.claims,
                   missing |-> Refused.missing]
    <3>1. ASSUME NEW r, NEW x, x = [NoDecision EXCEPT !.resolution = r]
          PROVE  x = [resolution |-> x.resolution, authoritative |-> x.authoritative,
                      eligible |-> x.eligible, allowed |-> x.allowed,
                      artifacts |-> x.artifacts, claims |-> x.claims, missing |-> x.missing]
      BY <3>1 DEF NoDecision
    <3>2. Refused = [NoDecision EXCEPT !.resolution = reuse.decision.resolution]
      BY DEF Refused
    <3> QED BY <3>1, <3>2
  <2>2. /\ TablesSound' /\ CallShaped' /\ ResultsShaped' /\ CandidatesCertified'
        /\ FreshAreFresh' /\ DecisionCovers'
        /\ reuse'.phase = "worker" /\ reuse'.fragment = reuse.need.required
        /\ UNCHANGED <<reuse.need, reuse.seen>>
    BY <1>1, <1>2, <1>7, <2>1, SettledCall
  <2>3. FragmentAndReuseCoverTheNeed'
    BY <2>2 DEF FragmentAndReuseCoverTheNeed
  <2> QED BY <2>2, <2>3 DEF ReuseInv, DeliveryCovers
<1> QED BY <1>0, <1>5, <1>6, <1>7

\* A delivery returns.
LEMMA DeliverKeepsReuse ==
  ASSUME ReuseInv, DeliverEvidence
  PROVE  ReuseInv'
<1>1. UNCHANGED evidence /\ \E kind : reuse' = Over(kind)
  BY DEF DeliverEvidence, AtPhase
<1> QED BY <1>1, OverKeepsReuse

\* A worker's result is a list of artifacts.
LEMMA WorkerKeepsReuse ==
  ASSUME ReuseInv, WorkerResult
  PROVE  ReuseInv'
<1>1. reuse.phase = "worker" /\ UNCHANGED evidence
  BY DEF WorkerResult, AtPhase
<1>2. CASE reuse' = Over("failed")
  BY <1>1, <1>2, OverKeepsReuse
<1>3. ASSUME NEW r \in WorkerResults, NEW declared \in {{}} \cup {{plan} : plan \in DeclaredPlans},
             NEW observed,
             reuse' = [reuse EXCEPT !.phase = "publish", !.declared = declared, !.results = r,
                                    !.observed = observed]
      PROVE  ReuseInv'
  <2>1. TablesSound'
    BY <1>1, TablesKept DEF ReuseInv
  <2>2. /\ CallRecord /\ DecisionRecord /\ reuse.need \in SemanticNeeds
        /\ FragmentAndReuseCoverTheNeed
    BY <1>1 DEF ReuseInv, CallShaped
  <2>3. /\ CallRecord' /\ reuse'.phase = "publish" /\ reuse'.results = r
        /\ reuse'.declared = declared /\ declared \subseteq DeclaredPlans
        /\ UNCHANGED <<reuse.need, reuse.decision, reuse.fragment>>
    BY <1>3, <2>2 DEF CallRecord
  <2>4. CallShaped'
    BY <2>2, <2>3 DEF CallShaped, DecisionRecord
  <2>5. ResultsShaped'
    BY <2>3, ResultsAssumption DEF ResultsShaped, Publishing, IsSequence, ArtifactKinds
  <2>6. FragmentAndReuseCoverTheNeed'
    BY <1>1, <2>2, <2>3 DEF FragmentAndReuseCoverTheNeed
  <2> QED BY <2>1, <2>3, <2>4, <2>5, <2>6 DEF ReuseInv, CandidatesCertified, FreshAreFresh,
              DecisionCovers, DeliveryCovers
<1> QED BY <1>2, <1>3 DEF WorkerResult

\* A step of publishing keeps the need covered when certificates are only added.
LEMMA PublishingKeepsReuse ==
  ASSUME ReuseInv, TablesSound', Publishing,
         Range(evidence.certificates) \subseteq Range(evidence'.certificates),
         CallRecord', Publishing', ResultsShaped',
         UNCHANGED <<reuse.need, reuse.decision, reuse.fragment>>
  PROVE  ReuseInv'
<1>1. DecisionRecord /\ reuse.need \in SemanticNeeds /\ FragmentAndReuseCoverTheNeed
  BY DEF ReuseInv, CallShaped, Publishing
<1>2. CallShaped'
  BY <1>1 DEF CallShaped, DecisionRecord, Publishing
<1>3. FragmentAndReuseCoverTheNeed'
  BY <1>1 DEF FragmentAndReuseCoverTheNeed, Publishing
<1> QED BY <1>2, <1>3 DEF ReuseInv, Publishing, CandidatesCertified, FreshAreFresh,
            DecisionCovers, DeliveryCovers

\* The rest of a worker's artifacts.
LEMMA RestOfResults ==
  ASSUME NEW s, IsSequence(s), s # <<>>, \A k \in DOMAIN s : s[k].artifact.kind \in ArtifactKinds
  PROVE  /\ Head(s).artifact.kind \in ArtifactKinds /\ IsSequence(Tail(s))
         /\ \A k \in DOMAIN Tail(s) : Tail(s)[k].artifact.kind \in ArtifactKinds
<1>1. s \in Seq(Range(s)) /\ Len(s) \in Nat /\ Len(s) # 0 /\ DOMAIN s = 1 .. Len(s)
  BY DEF IsSequence
<1>2. Head(s) = s[1] /\ 1 \in DOMAIN s
  BY <1>1
<1> DEFINE t == Tail(s)
<1>3. t \in Seq(Range(s)) /\ Len(t) = Len(s) - 1 /\ DOMAIN t = 1 .. Len(s) - 1
      /\ \A k \in 1 .. Len(s) - 1 : t[k] = s[k + 1]
  BY <1>1
<1> HIDE DEF t
<1>4. \A k \in DOMAIN t : k + 1 \in DOMAIN s /\ t[k] = s[k + 1]
  BY <1>1, <1>3
<1>5. t \in [1 .. Len(t) -> Range(t)] /\ Len(t) \in Nat
  BY <1>3 DEF Range
<1>6. IsSequence(t)
  BY <1>5 DEF IsSequence
<1> QED BY <1>2, <1>4, <1>6 DEF t

\* The next artifact of a worker, or the test plan that replaces its own.
LEMMA ReadKeepsReuse ==
  ASSUME ReuseInv, ReadArtifact \/ DeclareTests
  PROVE  ReuseInv'
<1>1. reuse.phase = "publish" /\ UNCHANGED evidence
  BY DEF ReadArtifact, DeclareTests, AtPhase
<1>2. /\ CallRecord /\ IsSequence(reuse.results) /\ reuse.declared \subseteq DeclaredPlans
      /\ \A k \in DOMAIN reuse.results : reuse.results[k].artifact.kind \in ArtifactKinds
  BY <1>1 DEF ReuseInv, CallShaped, ResultsShaped, Publishing
<1>3. TablesSound'
  BY <1>1, TablesKept DEF ReuseInv
<1>4. CASE reuse.results # <<>> /\ reuse' = [reuse EXCEPT !.results = Tail(@)]
  <2>1. /\ IsSequence(Tail(reuse.results))
        /\ \A k \in DOMAIN Tail(reuse.results) :
              Tail(reuse.results)[k].artifact.kind \in ArtifactKinds
    BY <1>2, <1>4, RestOfResults
  <2>2. /\ CallRecord' /\ reuse'.phase = "publish" /\ reuse'.results = Tail(reuse.results)
        /\ UNCHANGED <<reuse.need, reuse.decision, reuse.fragment, reuse.declared>>
    BY <1>1, <1>2, <1>4 DEF CallRecord
  <2>3. ResultsShaped'
    BY <1>2, <2>1, <2>2 DEF ResultsShaped, Publishing
  <2> QED BY <1>1, <1>3, <2>2, <2>3, PublishingKeepsReuse DEF Publishing
<1>5. CASE reuse.results # <<>> /\ reuse' = [reuse EXCEPT !.phase = "certify"]
  <2>2. /\ CallRecord' /\ reuse'.phase = "certify"
        /\ UNCHANGED <<reuse.need, reuse.decision, reuse.fragment, reuse.declared, reuse.results>>
    BY <1>1, <1>2, <1>5 DEF CallRecord
  <2>3. ResultsShaped'
    BY <1>2, <1>5, <2>2 DEF ResultsShaped, Publishing
  <2> QED BY <1>1, <1>3, <2>2, <2>3, PublishingKeepsReuse DEF Publishing
<1>6. ASSUME NEW plan \in reuse.declared, NEW paths,
             reuse' = [reuse EXCEPT
               !.phase = "certify_declared", !.declared = {},
               !.results = <<[artifact |-> ParentOwned(plan, paths), trace |-> Unobserved]>>]
      PROVE  ReuseInv'
  <2> DEFINE a == ParentOwned(plan, paths)
             r == [artifact |-> a, trace |-> Unobserved]
  <2>1. a.kind = "test_plan" /\ a.evidence = paths
    BY DEF ParentOwned
  <2>2. OfDeclaredPlan(a)
    <3>1. a = ParentOwned(plan, a.evidence) /\ plan \in DeclaredPlans
      BY <1>2, <2>1
    <3> HIDE DEF a
    <3> QED BY <2>1, <3>1 DEF OfDeclaredPlan
  <2>3. r.artifact = a
    OBVIOUS
  <2>4. reuse' = [reuse EXCEPT !.phase = "certify_declared", !.declared = {}, !.results = <<r>>]
    BY <1>6
  <2> HIDE DEF a, r
  <2>5. /\ CallRecord' /\ reuse'.phase = "certify_declared" /\ reuse'.results = <<r>>
        /\ reuse'.declared = {} /\ UNCHANGED <<reuse.need, reuse.decision, reuse.fragment>>
    BY <1>2, <2>4 DEF CallRecord
  <2>6. /\ IsSequence(<<r>>) /\ <<r>> # <<>> /\ Head(<<r>>) = r
        /\ \A k \in DOMAIN <<r>> : <<r>>[k] = r
    BY DEF IsSequence, Range
  <2>7. ResultsShaped'
    BY <2>1, <2>2, <2>3, <2>5, <2>6 DEF ResultsShaped, Publishing, ArtifactKinds
  <2> QED BY <1>1, <1>3, <2>5, <2>7, PublishingKeepsReuse DEF Publishing
<1>7. CASE DeclareTests
  BY <1>6, <1>7 DEF DeclareTests
<1> QED BY <1>4, <1>5, <1>7 DEF ReadArtifact

\* Where no tree met had another file, all readings have the same.
LEMMA ReadingsAgree ==
  ASSUME NEW p, \A t1, t2 \in source.met : ~(p \in DOMAIN t1 /\ (p \in DOMAIN t2 => t1[p] # t2[p])),
         NEW r1 \in Readings, NEW r2 \in Readings, p \in DOMAIN r1
  PROVE  p \in DOMAIN r2 /\ r1[p] = r2[p]
<1> DEFINE paths == UNION {DOMAIN tree : tree \in source.met}
<1>1. PICK at1 \in [paths -> source.met] :
        r1 = [q \in {q \in DOMAIN at1 : q \in DOMAIN at1[q]} |-> at1[q][q]]
  BY DEF Readings
<1>2. PICK at2 \in [paths -> source.met] :
        r2 = [q \in {q \in DOMAIN at2 : q \in DOMAIN at2[q]} |-> at2[q][q]]
  BY DEF Readings
<1> HIDE DEF paths
<1>3. p \in paths /\ at1[p] \in source.met /\ p \in DOMAIN at1[p] /\ r1[p] = at1[p][p]
  BY <1>1
<1>4. at2[p] \in source.met
  BY <1>2, <1>3
<1>5. p \in DOMAIN at2[p] /\ at2[p][p] = at1[p][p]
  BY <1>3, <1>4
<1> QED BY <1>2, <1>3, <1>5

\* The certificate of a validation that was not torn stands by itself.
LEMMA CertifiedIsSound ==
  ASSUME reuse.need \in SemanticNeeds, NEW r, r.artifact.kind \in ArtifactKinds,
         NEW validated \in Readings, NEW hashed \in Readings, NEW closing \in BOOLEAN,
         r.artifact.kind = "test_plan" => hashed = validated, ClosedFor(r.artifact, closing),
         Validates(WorkerFragment, r.artifact, validated, r.trace, closing),
         ~Changed(r.artifact, r.trace)
  PROVE  StandsFor(Certificate(WorkerFragment, r.artifact, hashed, r.trace, closing),
                   reuse.need.subject)
<1> DEFINE a == r.artifact
           paths == DependencyPaths(a, validated, r.trace, closing)
<1>1. Manifest(a, hashed, r.trace, closing) = Manifest(a, validated, r.trace, closing)
  <2>1. CASE a.kind = "test_plan"
    BY <2>1
  <2>2. CASE a.kind # "test_plan"
    <3>1. /\ DependencyPaths(a, hashed, r.trace, closing) = paths
          /\ DependencyPaths(a, source.tree, r.trace, TRUE) = paths
      BY <2>2 DEF DependencyPaths
    <3>2. paths \subseteq DOMAIN validated
      BY DEF Validates
    <3> HIDE DEF paths
    <3>3. \A p \in paths : \A t1, t2 \in source.met :
            ~(p \in DOMAIN t1 /\ (p \in DOMAIN t2 => t1[p] # t2[p]))
      BY <2>2, <3>1 DEF Changed
    <3>4. \A p \in paths : p \in DOMAIN hashed /\ validated[p] = hashed[p]
      BY <3>2, <3>3, ReadingsAgree
    <3>5. [p \in paths |-> hashed[p]] = [p \in paths |-> validated[p]]
      BY <3>4
    <3> QED BY <3>1, <3>5 DEF Manifest, Restrict, paths
  <2> QED BY <2>1, <2>2
<1>2. Certificate(WorkerFragment, a, hashed, r.trace, closing)
        = Certificate(WorkerFragment, a, validated, r.trace, closing)
  BY <1>1 DEF Certificate
<1>3. StandsFor(Certificate(WorkerFragment, a, validated, r.trace, closing), reuse.need.subject)
  BY CertificatesStand DEF WorkerFragment
<1> QED BY <1>2, <1>3

\* What is published is a certificate the validator gave.
LEMMA PublishedTables ==
  ASSUME TablesSound, NEW certificate, NEW torn, NEW request,
         evidence' = WithTorn(Published(certificate, request), certificate, torn),
         Sound(certificate, IF torn THEN evidence.torn \cup {certificate} ELSE evidence.torn)
  PROVE  TablesSound' /\ Range(evidence.certificates) \subseteq Range(evidence'.certificates)
<1> DEFINE row == [artifact |-> certificate.artifact, manifest |-> certificate.manifest]
           artifacts == WithArtifact(evidence.artifacts, row)
           certificates == IF certificate \in Range(evidence.certificates)
                           THEN evidence.certificates ELSE Append(evidence.certificates, certificate)
           known == IF torn THEN evidence.torn \cup {certificate} ELSE evidence.torn
<1>1. /\ TablesRecord /\ IsSequence(evidence.artifacts) /\ IsSequence(evidence.certificates)
      /\ \A c \in Range(evidence.certificates) : Sound(c, evidence.torn)
  BY DEF TablesSound
<1>2. Published(certificate, request)
        = [evidence EXCEPT !.artifacts = artifacts,
                           !.origins = @ \cup {<<certificate.artifact, request>>},
                           !.certificates = certificates]
  BY DEF Published
<1>3. IsSequence(artifacts)
  <2> HIDE DEF row
  <2>1. artifacts = evidence.artifacts \/ artifacts = Append(evidence.artifacts, row)
    BY DEF WithArtifact
  <2> QED BY <1>1, <2>1, AppendsOne
<1>4. \A c : Sound(c, evidence.torn) => Sound(c, known)
  BY DEF Sound
<1>5. /\ IsSequence(certificates) /\ Range(evidence.certificates) \subseteq Range(certificates)
      /\ \A c \in Range(certificates) : Sound(c, known)
  <2> HIDE DEF known
  <2>1. Sound(certificate, known)
    BY DEF known
  <2> QED BY <1>1, <1>4, <2>1, AppendsOne
<1> HIDE DEF artifacts, certificates
<1>6. /\ TablesRecord' /\ evidence'.artifacts = artifacts /\ evidence'.certificates = certificates
      /\ evidence'.torn = known
  BY <1>1, <1>2 DEF TablesRecord, WithTorn
<1> HIDE DEF known
<1> QED BY <1>3, <1>5, <1>6 DEF TablesSound

\* An artifact is published with a sound certificate, or not at all.
LEMMA PublishKeepsReuse ==
  ASSUME ReuseInv, PublishArtifact
  PROVE  ReuseInv'
<1> DEFINE r == Head(reuse.results)
           closing == reuse.phase = "certify"
           rest == [reuse EXCEPT !.phase = "publish", !.results = Tail(@)]
<1>1. reuse.phase \in {"certify", "certify_declared"}
  BY DEF PublishArtifact
<1>2. /\ CallRecord /\ TablesSound /\ reuse.need \in SemanticNeeds /\ IsSequence(reuse.results)
      /\ reuse.results # <<>> /\ reuse.declared \subseteq DeclaredPlans
      /\ \A k \in DOMAIN reuse.results : reuse.results[k].artifact.kind \in ArtifactKinds
      /\ reuse.phase = "certify_declared" => OfDeclaredPlan(r.artifact)
  BY <1>1 DEF ReuseInv, CallShaped, ResultsShaped, Publishing
<1>3. /\ r.artifact.kind \in ArtifactKinds /\ IsSequence(Tail(reuse.results))
      /\ \A k \in DOMAIN Tail(reuse.results) : Tail(reuse.results)[k].artifact.kind \in ArtifactKinds
  BY <1>2, RestOfResults
<1>4. CASE reuse' = rest /\ UNCHANGED evidence
  <2>1. /\ CallRecord' /\ reuse'.phase = "publish" /\ reuse'.results = Tail(reuse.results)
        /\ UNCHANGED <<reuse.need, reuse.decision, reuse.fragment, reuse.declared>>
    BY <1>2, <1>4 DEF CallRecord
  <2>2. ResultsShaped'
    BY <1>2, <1>3, <2>1 DEF ResultsShaped, Publishing
  <2>3. TablesSound'
    BY <1>2, <1>4, TablesKept
  <2> QED BY <1>1, <1>4, <2>1, <2>2, <2>3, PublishingKeepsReuse DEF Publishing
<1>5. CASE reuse' = Over("failed") /\ UNCHANGED evidence
  BY <1>5, OverKeepsReuse
<1>6. closing \in BOOLEAN /\ ClosedFor(r.artifact, closing)
  BY <1>1, <1>2 DEF ClosedFor
<1>7. ASSUME NEW validated \in Readings, NEW hashed \in Readings,
             r.artifact.kind = "test_plan" => hashed = validated,
             Validates(WorkerFragment, r.artifact, validated, r.trace, closing),
             NEW certificate, NEW request,
             certificate = Certificate(WorkerFragment, r.artifact, hashed, r.trace, closing),
             evidence' = WithTorn(Published(certificate, request), certificate,
                                  Changed(r.artifact, r.trace)),
             reuse' = [rest EXCEPT !.phase = "claim shadow", !.certified = Append(@, certificate)]
      PROVE  ReuseInv'
  <2> DEFINE torn == Changed(r.artifact, r.trace)
             known == IF torn THEN evidence.torn \cup {certificate} ELSE evidence.torn
  <2>1. /\ certificate.artifact = r.artifact
        /\ certificate.coverage = {Derived(r.artifact, reuse.need.subject)}
    BY <1>7 DEF Certificate, WorkerFragment, Fragment
  <2>2. torn \/ StandsFor(certificate, reuse.need.subject)
    <3> HIDE DEF closing, r
    <3> QED BY <1>2, <1>3, <1>6, <1>7, CertifiedIsSound
  <2> HIDE DEF torn
  <2>3. Sound(certificate, known)
    <3> HIDE DEF r
    <3> QED BY <1>2, <1>3, <2>1, <2>2 DEF Sound
  <2>4. TablesSound' /\ Range(evidence.certificates) \subseteq Range(evidence'.certificates)
    BY <1>2, <1>7, <2>3, PublishedTables DEF torn
  <2>5. /\ CallRecord' /\ reuse'.phase = "claim shadow" /\ reuse'.results = Tail(reuse.results)
        /\ UNCHANGED <<reuse.need, reuse.decision, reuse.fragment, reuse.declared>>
    BY <1>2, <1>7 DEF CallRecord
  <2>6. ResultsShaped'
    BY <1>2, <1>3, <2>5 DEF ResultsShaped, Publishing
  <2> QED BY <1>1, <2>4, <2>5, <2>6, PublishingKeepsReuse DEF Publishing
<1>8. ASSUME NEW validated \in Readings, NEW hashed \in Readings,
             r.artifact.kind = "test_plan" => hashed = validated,
             Certify(r, validated, hashed, closing)
      PROVE  ReuseInv'
  <2> HIDE DEF r, closing
  <2> QED BY <1>4, <1>5, <1>7, <1>8 DEF Certify, RecordRejection
<1> QED BY <1>4, <1>5, <1>8 DEF PublishArtifact, RecordRejection

\* Publishing claims adds to the claim tables only.
LEMMA ClaimShadowKeepsReuse ==
  ASSUME ReuseInv, PublishClaims
  PROVE  ReuseInv'
<1> DEFINE c == Last(reuse.certified)
<1>1. reuse.phase = "claim shadow" /\ reuse' = [reuse EXCEPT !.phase = "publish"]
  BY DEF PublishClaims
<1>2. CallRecord /\ TablesSound /\ ResultsShaped
  BY DEF ReuseInv, CallShaped
<1>3. UNCHANGED evidence \/ evidence' = WithRelations(WithClaims(evidence, c), c)
  BY DEF PublishClaims
<1> HIDE DEF c
<1>4. TablesRecord' /\ UNCHANGED <<evidence.artifacts, evidence.certificates, evidence.torn>>
  BY <1>2, <1>3 DEF TablesSound, TablesRecord, WithRelations, WithClaims
<1>5. TablesSound'
  BY <1>2, <1>4 DEF TablesSound
<1>6. /\ CallRecord' /\ reuse'.phase = "publish"
      /\ UNCHANGED <<reuse.need, reuse.decision, reuse.fragment, reuse.results, reuse.declared>>
  BY <1>1, <1>2 DEF CallRecord
<1>7. ResultsShaped'
  BY <1>1, <1>2, <1>6 DEF ResultsShaped, Publishing
<1>8. Range(evidence.certificates) \subseteq Range(evidence'.certificates)
  BY <1>4
<1> QED BY <1>1, <1>5, <1>6, <1>7, <1>8, PublishingKeepsReuse DEF Publishing

\* After the worker the call returns.
LEMMA FinishKeepsReuse ==
  ASSUME ReuseInv, FinishWorker
  PROVE  ReuseInv'
<1>1. UNCHANGED evidence /\ \E kind : reuse' = Over(kind)
  BY DEF FinishWorker, AtPhase
<1> QED BY <1>1, OverKeepsReuse

\* The empty tables are sound.
LEMMA ReuseInvInitially ==
  ASSUME ReuseInit
  PROVE  ReuseInv
<1>1. reuse.phase = "idle" /\ CallRecord /\ reuse.decision = NoDecision
  BY DEF ReuseInit, Idle, CallRecord
<1>2. DecisionRecord
  BY <1>1 DEF DecisionRecord, NoDecision
<1>3. /\ TablesRecord /\ evidence.artifacts = <<>> /\ evidence.certificates = <<>>
  BY DEF ReuseInit, TablesRecord
<1>4. Range(<<>>) = {} /\ IsSequence(<<>>)
  BY DEF Range, IsSequence
<1>5. TablesSound
  BY <1>3, <1>4 DEF TablesSound
<1> QED BY <1>1, <1>2, <1>5 DEF ReuseInv, CallShaped, ResultsShaped, Publishing, CandidatesCertified,
           FreshAreFresh, DecisionCovers, DeliveryCovers, FragmentAndReuseCoverTheNeed

\* The tables hold certificates that stand by themselves, and a call's selection
\* covers what it does not call missing.
THEOREM ReuseIsInductive == ReuseSpec => []ReuseInv
<1>1. ReuseInit => ReuseInv
  BY ReuseInvInitially
<1>2. ReuseInv /\ [ReuseNext]_reuseVars => ReuseInv'
  <2> SUFFICES ASSUME ReuseInv, [ReuseNext]_reuseVars PROVE ReuseInv'
    OBVIOUS
  <2>1. CASE EditSource \/ RecordContradiction \/ SetCapabilityMode \/ UNCHANGED reuseVars
    <3>1. UNCHANGED <<evidence, reuse>>
      BY <2>1 DEF EditSource, RecordContradiction, SetCapabilityMode, reuseVars
    <3> QED BY <3>1, EnvironmentKeepsReuse
  <2>2. CASE StartResolve
    BY <2>2, StartKeepsReuse
  <2>3. CASE CheckContradiction
    BY <2>3, ContradictionKeepsReuse
  <2>4. CASE LoadCandidates
    BY <2>4, LoadKeepsReuse
  <2>5. CASE FilterFresh
    BY <2>5, FilterKeepsReuse
  <2>6. CASE AdviseClaims
    BY <2>6, AdviseKeepsReuse
  <2>7. CASE PlanArtifacts
    BY <2>7, PlanKeepsReuse
  <2>8. CASE Consult
    BY <2>8, ConsultKeepsReuse
  <2>9. CASE DeliverEvidence
    BY <2>9, DeliverKeepsReuse
  <2>10. CASE WorkerResult
    BY <2>10, WorkerKeepsReuse
  <2>11. CASE PublishArtifact
    BY <2>11, PublishKeepsReuse
  <2>12. CASE PublishClaims
    BY <2>12, ClaimShadowKeepsReuse
  <2>13. CASE FinishWorker
    BY <2>13, FinishKeepsReuse
  <2>14. CASE ReadArtifact \/ DeclareTests
    BY <2>14, ReadKeepsReuse
  <2> QED BY <2>1, <2>2, <2>3, <2>4, <2>5, <2>6, <2>7, <2>8, <2>9, <2>10, <2>11, <2>12, <2>13, <2>14
          DEF ReuseNext
<1> QED BY <1>1, <1>2, PTL DEF ReuseSpec

\* Reused evidence held when it was read: what is delivered instead of running a
\* worker, and not from claims, would validate again in the files as the resolver
\* read them, for every required obligation, unless one of its files changed while
\* it was validated (resolve_for_route never validates again).
THEOREM ReuseHolds == ReuseSpec => []ReusedEvidenceHolds
<1>1. ReuseInv => ReusedEvidenceHolds
  <2> SUFFICES ASSUME ReuseInv, reuse.phase = "deliver", ~FromClaims,
                      NEW o \in reuse.need.required
               PROVE  \E a \in reuse.decision.artifacts :
                        \/ \E tree \in reuse.seen : HoldsFor(a, o, tree)
                        \/ \E c \in evidence.torn : c.artifact = a
    BY DEF ReusedEvidenceHolds
  <2>1. reuse.need \in SemanticNeeds
    BY DEF ReuseInv, DeliveryCovers
  <2>2. PICK c \in Range(evidence.certificates) :
          c.artifact \in reuse.decision.artifacts /\ CertifiesFor(c, o) /\ FreshAsRead(c)
    BY DEF ReuseInv, DeliveryCovers
  <2>3. PICK tree \in reuse.seen : DependenciesFresh(c.manifest.files, tree)
    BY <2>2 DEF FreshAsRead
  <2>4. Sound(c, evidence.torn)
    BY DEF ReuseInv, TablesSound
  <2>5. c \in evidence.torn \/ HoldsFor(c.artifact, o, tree)
    BY <2>1, <2>2, <2>3, <2>4, SoundStaysValid
  <2> QED BY <2>2, <2>5
<1> QED BY <1>1, ReuseIsInductive, PTL

\* The fragment a worker gets and the evidence reused beside it cover the need
\* together, until the worker's artifacts are published
\* (resolve_with_worker_policy builds the fragment from the plan's missing mask).
THEOREM FragmentsCompleteTheNeed == ReuseSpec => []FragmentAndReuseCoverTheNeed
<1>1. ReuseInv => FragmentAndReuseCoverTheNeed
  BY DEF ReuseInv
<1> QED BY <1>1, ReuseIsInductive, PTL

-----------------------------------------------------------------------------
(* Patches *)

IsTree(tree) ==
  /\ tree \in [DOMAIN tree -> Range(tree)]
  /\ \A p \in DOMAIN tree : p \in Seq(Range(p)) /\ tree[p].kind # "absent"

\* An entry is NoEntry exactly where the tree has none.
LEMMA EntryAbsent ==
  ASSUME NEW tree, IsTree(tree), NEW p
  PROVE  Entry(tree, p) = NoEntry <=> p \notin DOMAIN tree
<1>1. NoEntry.kind = "absent"
  BY DEF NoEntry
<1> QED BY <1>1 DEF Entry, IsTree

\* The content that is written at a changed path is the one observed there.
LEMMA ContentWritten ==
  ASSUME NEW before, NEW after, NEW p \in ChangedPaths(before, after)
  PROVE  LET f == CHOOSE f \in ObservedFiles(before, after) : f.path = p
         IN  /\ f.path = p /\ f.before = Entry(before, p) /\ f.after = Entry(after, p)
<1> DEFINE files == ObservedFiles(before, after)
           File(q) == [path |-> q, operation |-> Operation(before, after, q),
                       before |-> Entry(before, q), after |-> Entry(after, q)]
           f == CHOOSE f \in files : f.path = p
<1>1. File(p) \in files /\ File(p).path = p
  BY DEF ObservedFiles
<1>2. f \in files /\ f.path = p
  BY <1>1
<1>3. \A g \in files : \E q \in ChangedPaths(before, after) : g = File(q)
  BY DEF ObservedFiles
<1>4. PICK q \in ChangedPaths(before, after) : f = File(q)
  BY <1>2, <1>3
<1>5. q = p
  BY <1>2, <1>4
<1>6. f = File(p)
  BY <1>4, <1>5
<1>7. File(p).before = Entry(before, p) /\ File(p).after = Entry(after, p)
  OBVIOUS
<1> HIDE DEF f, File
<1>8. f.path = p /\ f.before = Entry(before, p) /\ f.after = Entry(after, p)
  BY <1>2, <1>6, <1>7
<1> QED BY <1>8 DEF f

\* The written paths are the changed ones.
LEMMA WrittenPaths ==
  ASSUME NEW before, NEW after
  PROVE  {f.path : f \in ObservedFiles(before, after)} = ChangedPaths(before, after)
<1> DEFINE File(q) == [path |-> q, operation |-> Operation(before, after, q),
                       before |-> Entry(before, q), after |-> Entry(after, q)]
<1>1. ObservedFiles(before, after) = {File(q) : q \in ChangedPaths(before, after)}
  BY DEF ObservedFiles
<1>2. \A q : File(q).path = q
  OBVIOUS
<1> HIDE DEF File
<1> QED BY <1>1, <1>2

\* What is written at the changed paths of a tree makes it the other one.
LEMMA WritingLeads ==
  ASSUME NEW from, NEW to, IsTree(from), IsTree(to), NEW changed,
         changed = {p \in DOMAIN from \cup DOMAIN to : Entry(from, p) # Entry(to, p)}
  PROVE  [p \in {p \in DOMAIN from \cup changed :
                   IF p \in changed THEN Entry(to, p) # NoEntry ELSE TRUE}
            |-> IF p \in changed THEN Entry(to, p) ELSE from[p]] = to
<1> DEFINE kept == {p \in DOMAIN from \cup changed :
                      IF p \in changed THEN Entry(to, p) # NoEntry ELSE TRUE}
<1>1. \A p \in DOMAIN from \cup DOMAIN to : p \notin changed => Entry(from, p) = Entry(to, p)
  OBVIOUS
<1>2. \A p : Entry(from, p) = NoEntry <=> p \notin DOMAIN from
  BY EntryAbsent
<1>3. \A p : Entry(to, p) = NoEntry <=> p \notin DOMAIN to
  BY EntryAbsent
<1>4. changed \subseteq DOMAIN from \cup DOMAIN to
  OBVIOUS
<1> HIDE DEF NoEntry
<1>5. kept = DOMAIN to
  <2>1. ASSUME NEW p \in kept PROVE p \in DOMAIN to
    BY <1>1, <1>2, <1>3, <2>1
  <2>2. ASSUME NEW p \in DOMAIN to PROVE p \in kept
    BY <1>1, <1>2, <1>3, <2>2
  <2> QED BY <2>1, <2>2
<1>6. \A p \in DOMAIN to : Entry(to, p) = to[p]
  BY DEF Entry
<1>7. \A p \in DOMAIN from : Entry(from, p) = from[p]
  BY DEF Entry
<1>8. \A p \in DOMAIN to : to[p] = IF p \in changed THEN Entry(to, p) ELSE from[p]
  <2> SUFFICES ASSUME NEW p \in DOMAIN to, p \notin changed PROVE to[p] = from[p]
    BY <1>6
  <2> QED BY <1>1, <1>2, <1>3, <1>6, <1>7
<1>9. to = [p \in DOMAIN to |-> to[p]]
  BY DEF IsTree
<1> QED BY <1>5, <1>8, <1>9

\* Writing the observed files over the tree before gives the tree after, and back.
LEMMA PatchLeads ==
  ASSUME NEW before, NEW after, IsTree(before), IsTree(after)
  PROVE  /\ WriteFiles(before, ObservedFiles(before, after), "after") = after
         /\ WriteFiles(after, ObservedFiles(before, after), "before") = before
<1> DEFINE files == ObservedFiles(before, after)
           changed == ChangedPaths(before, after)
           To(p) == (CHOOSE f \in files : f.path = p).after
           Back(p) == (CHOOSE f \in files : f.path = p).before
<1>1. {f.path : f \in files} = changed
  BY WrittenPaths
<1>2. \A p \in changed : To(p) = Entry(after, p) /\ Back(p) = Entry(before, p)
  BY ContentWritten
<1>3. /\ changed = {p \in DOMAIN before \cup DOMAIN after : Entry(before, p) # Entry(after, p)}
      /\ changed = {p \in DOMAIN after \cup DOMAIN before : Entry(after, p) # Entry(before, p)}
  BY DEF ChangedPaths
<1>4. WriteFiles(before, files, "after")
        = [p \in {p \in DOMAIN before \cup changed : IF p \in changed THEN To(p) # NoEntry ELSE TRUE}
             |-> IF p \in changed THEN To(p) ELSE before[p]]
  <2> HIDE DEF files, changed
  <2> QED BY <1>1 DEF WriteFiles
<1>5. WriteFiles(after, files, "before")
        = [p \in {p \in DOMAIN after \cup changed : IF p \in changed THEN Back(p) # NoEntry ELSE TRUE}
             |-> IF p \in changed THEN Back(p) ELSE after[p]]
  <2> HIDE DEF files, changed
  <2> QED BY <1>1 DEF WriteFiles
<1> HIDE DEF files, changed, To, Back
<1>6. WriteFiles(before, files, "after")
        = [p \in {p \in DOMAIN before \cup changed :
                    IF p \in changed THEN Entry(after, p) # NoEntry ELSE TRUE}
             |-> IF p \in changed THEN Entry(after, p) ELSE before[p]]
  <2>1. {p \in DOMAIN before \cup changed : IF p \in changed THEN To(p) # NoEntry ELSE TRUE}
          = {p \in DOMAIN before \cup changed : IF p \in changed THEN Entry(after, p) # NoEntry ELSE TRUE}
    BY <1>2
  <2> QED BY <1>2, <1>4, <2>1
<1>7. WriteFiles(after, files, "before")
        = [p \in {p \in DOMAIN after \cup changed :
                    IF p \in changed THEN Entry(before, p) # NoEntry ELSE TRUE}
             |-> IF p \in changed THEN Entry(before, p) ELSE after[p]]
  <2>1. {p \in DOMAIN after \cup changed : IF p \in changed THEN Back(p) # NoEntry ELSE TRUE}
          = {p \in DOMAIN after \cup changed : IF p \in changed THEN Entry(before, p) # NoEntry ELSE TRUE}
    BY <1>2
  <2> QED BY <1>2, <1>5, <2>1
<1>8. WriteFiles(before, files, "after") = after
  BY <1>3, <1>6, WritingLeads
<1>9. WriteFiles(after, files, "before") = before
  BY <1>3, <1>7, WritingLeads
<1> QED BY <1>8, <1>9 DEF files

\* A path inside a scope is the scope's, or has it as a proper beginning.
LEMMA WithinScope ==
  ASSUME NEW path, path \in Seq(Range(path)), NEW scope, scope.path \in Seq(Range(scope.path)),
         scope.path # <<>>, IsWithin(path, scope)
  PROVE  \/ path = scope.path
         \/ scope.subtree /\ \E k \in 1..(Len(path) - 1) : SubSeq(path, 1, k) = scope.path
<1>1. Len(path) \in Nat /\ Len(scope.path) \in Nat /\ Len(scope.path) # 0
  OBVIOUS
<1>2. CASE path = scope.path
  BY <1>2
<1>3. CASE scope.subtree /\ Len(path) > Len(scope.path) /\ SubSeq(path, 1, Len(scope.path)) = scope.path
  <2> DEFINE k == Len(scope.path)
  <2>1. k \in 1 .. (Len(path) - 1)
    BY <1>1, <1>3
  <2> QED BY <1>3, <2>1
<1> QED BY <1>2, <1>3 DEF IsWithin

\* An observed patch is faithful.
LEMMA ObservedIsFaithful ==
  ASSUME NEW allowed, NEW before, NEW after, NEW declared, IsTree(before), IsTree(after),
         \A n \in DOMAIN allowed : allowed[n].path \in Seq(Range(allowed[n].path))
  PROVE  PatchIsFaithful(allowed, before, after, ObservePatch(allowed, before, after, declared))
<1> DEFINE patch == ObservePatch(allowed, before, after, declared)
           files == ObservedFiles(before, after)
<1>1. CASE ~(AcceptsScopes(allowed) /\ Observable(allowed, before, after))
  <2>1. patch.files = {}
    BY <1>1 DEF ObservePatch
  <2> QED BY <2>1 DEF PatchIsFaithful
<1>2. CASE AcceptsScopes(allowed) /\ Observable(allowed, before, after)
  <2>1. patch.files = files
    BY <1>2 DEF ObservePatch
  <2>2. /\ WriteFiles(before, files, "after") = after /\ WriteFiles(after, files, "before") = before
    BY PatchLeads
  <2>3. \A f \in files : \E p \in ChangedPaths(before, after) :
          f.path = p /\ f.before = Entry(before, p) /\ f.after = Entry(after, p)
    BY DEF ObservedFiles
  <2>4. ASSUME NEW f \in files
        PROVE  /\ ~IsProtected(f.path)
               /\ \E n \in DOMAIN allowed :
                    LET scope == allowed[n] IN
                    \/ f.path = scope.path
                    \/ scope.subtree /\ \E k \in 1..(Len(f.path) - 1) :
                                          SubSeq(f.path, 1, k) = scope.path
               /\ f.before.kind # "symlink" /\ f.after.kind # "symlink"
    <3>1. PICK p \in ChangedPaths(before, after) :
            f.path = p /\ f.before = Entry(before, p) /\ f.after = Entry(after, p)
      BY <2>3
    <3>2. /\ ~IsProtected(p) /\ InSomeScope(p, allowed)
          /\ Entry(before, p).kind # "symlink" /\ Entry(after, p).kind # "symlink"
      BY <1>2 DEF Observable
    <3>3. p \in Seq(Range(p))
      BY DEF ChangedPaths, IsTree
    <3>4. PICK n \in DOMAIN allowed : IsWithin(p, allowed[n])
      BY <3>2 DEF InSomeScope
    <3>5. allowed[n].path # <<>>
      BY <1>2 DEF AcceptsScopes, IsSafe
    <3>6. \/ p = allowed[n].path
          \/ allowed[n].subtree /\ \E k \in 1..(Len(p) - 1) : SubSeq(p, 1, k) = allowed[n].path
      BY <3>3, <3>4, <3>5, WithinScope
    <3> QED BY <3>1, <3>2, <3>6
  <2> HIDE DEF patch, files
  <2> QED BY <2>1, <2>2, <2>4 DEF PatchIsFaithful, patch
<1> QED BY <1>1, <1>2

-----------------------------------------------------------------------------
(* Verdicts *)

IsTurn(turn) ==
  /\ IsFiniteSet(turn.sources) /\ \A s \in turn.sources : s.plan \in Nat
  /\ turn.evidence \in Seq(Range(turn.evidence))

\* A turn has finitely many plans, and numbers identify them.
LEMMA PlansAreFinite ==
  ASSUME NEW turn, IsTurn(turn)
  PROVE  /\ IsFiniteSet(PlansOf(turn.sources)) /\ PlansOf(turn.sources) \subseteq Nat
         /\ Cardinality(PlansOf(turn.sources)) \in Nat
<1> DEFINE single == {t \in turn.sources : t.single}
           f == [s \in single |-> s.plan]
<1>1. IsFiniteSet(single)
  BY FS_Subset DEF IsTurn
<1>2. f \in Surjection(single, PlansOf(turn.sources))
  BY DEF Surjection, PlansOf
<1>3. IsFiniteSet(PlansOf(turn.sources))
  BY <1>1, <1>2, FS_Surjection
<1>4. PlansOf(turn.sources) \subseteq Nat
  BY DEF PlansOf, IsTurn
<1> QED BY <1>3, <1>4, FS_CardinalityType

\* The evidence of a plan is a finite set of places in a list.
LEMMA EvidenceIsFinite ==
  ASSUME NEW turn, IsTurn(turn), NEW plan
  PROVE  /\ IsFiniteSet(EvidenceOf(turn, plan)) /\ EvidenceOf(turn, plan) \subseteq Nat
         /\ EvidenceOf(turn, plan) \subseteq DOMAIN turn.evidence
<1>1. DOMAIN turn.evidence = 1 .. Len(turn.evidence) /\ Len(turn.evidence) \in Nat
  BY DEF IsTurn
<1>2. IsFiniteSet(1 .. Len(turn.evidence))
  BY <1>1, FS_Interval
<1>3. EvidenceOf(turn, plan) \subseteq 1 .. Len(turn.evidence)
  BY <1>1 DEF EvidenceOf
<1>4. IsFiniteSet(EvidenceOf(turn, plan))
  BY <1>2, <1>3, FS_Subset
<1> QED BY <1>1, <1>3, <1>4

\* What normalisation leaves of a verdict.
LEMMA NormalizedFacts ==
  ASSUME NEW turn
  PROVE  LET v == NormalizedVerdict(turn) IN
         /\ v \in {turn.verdict, "inconclusive"}
         /\ v \in {"verified", "repairable"} =>
              /\ turn.ended /\ turn.verdict = v
              /\ turn.sources # {} =>
                   PlansProven(turn) /\ ~OverCap(turn.sources) /\ ~UndeclaredEvidence(turn)
         /\ v = "verified" =>
              /\ turn.covers = "addressed" /\ ~turn.findings /\ ~turn.gaps
              /\ ~OverCap(turn.sources)
<1> DEFINE taken == TakenVerdict(turn)
           tested == IF TestExpected(turn.sources) /\ ~PlansProven(turn)
                          /\ taken \in {"verified", "repairable"}
                     THEN "inconclusive" ELSE taken
           bounded == IF turn.ended /\ (OverCap(turn.sources) \/ UndeclaredEvidence(turn))
                      THEN "inconclusive" ELSE tested
           v == NormalizedVerdict(turn)
<1>1. v = IF bounded = "verified" /\ (turn.covers # "addressed" \/ HasFindings(turn) \/ turn.gaps)
          THEN "inconclusive" ELSE bounded
  BY DEF NormalizedVerdict
<1>2. taken = "inconclusive" \/ (taken = turn.verdict /\ turn.ended)
  BY DEF TakenVerdict
<1>3. turn.findings => HasFindings(turn)
  BY DEF HasFindings
<1>4. TestExpected(turn.sources) <=> turn.sources # {}
  BY DEF TestExpected
<1> HIDE DEF taken, v
<1>5. v \in {turn.verdict, "inconclusive"}
  BY <1>1, <1>2
<1>6. ASSUME v \in {"verified", "repairable"}
      PROVE  /\ turn.ended /\ turn.verdict = v
             /\ turn.sources # {} =>
                  PlansProven(turn) /\ ~OverCap(turn.sources) /\ ~UndeclaredEvidence(turn)
             /\ ~OverCap(turn.sources)
  BY <1>1, <1>2, <1>4, <1>6
<1>7. ASSUME v = "verified"
      PROVE  turn.covers = "addressed" /\ ~turn.findings /\ ~turn.gaps
  BY <1>1, <1>3, <1>7
<1> QED BY <1>5, <1>6, <1>7 DEF v

\* A verdict that stands was earned.
LEMMA VerdictEarned ==
  ASSUME NEW turn, IsTurn(turn)
  PROVE  VerdictIsEarned(turn, NormalizedVerdict(turn))
<1> DEFINE v == NormalizedVerdict(turn)
           plans == PlansOf(turn.sources)
           ran(p) == {n \in DOMAIN turn.evidence : turn.evidence[n].plan = p}
<1>1. /\ v \in {turn.verdict, "inconclusive"}
      /\ v \in {"verified", "repairable"} =>
           /\ turn.ended /\ turn.verdict = v
           /\ turn.sources # {} =>
                PlansProven(turn) /\ ~OverCap(turn.sources) /\ ~UndeclaredEvidence(turn)
      /\ v = "verified" => turn.covers = "addressed" /\ ~turn.findings /\ ~turn.gaps
  BY NormalizedFacts
<1> HIDE DEF v
<1>2. ASSUME v \in {"verified", "repairable"}, turn.sources # {}
      PROVE  /\ plans # {} /\ Cardinality(plans) <= MaxVerifierPlans
             /\ turn.trusted
             /\ \A s \in turn.sources : s.single => s.usable /\ s.plan \notin turn.unsupported
             /\ \A p \in plans : \E n \in ran(p) :
                  /\ ran(p) = {n}
                  /\ turn.evidence[n].patched /\ turn.evidence[n].valid
             /\ \A m, n \in DOMAIN turn.evidence :
                  turn.evidence[m].id = turn.evidence[n].id => m = n
  <2>1. PlansProven(turn) /\ ~OverCap(turn.sources) /\ ~UndeclaredEvidence(turn) /\ turn.ended
    BY <1>1, <1>2
  <2>2. plans # {} /\ \A p \in plans : PlanPassed(turn, p)
    BY <2>1 DEF PlansProven
  <2>3. Cardinality(plans) <= MaxVerifierPlans
    BY <2>1, PlansAreFinite, VerdictTasksAssumption DEF OverCap
  <2>4. turn.trusted
    BY <2>2 DEF PlanPassed, PlanAvailable
  <2>5. \A s \in turn.sources : s.single => s.plan \in plans
    BY DEF PlansOf
  <2>6. \A s \in turn.sources : s.single => s.usable /\ s.plan \notin turn.unsupported
    BY <2>2, <2>5 DEF PlanPassed, PlanAvailable, PlanUsable, CommandSupported
  <2>7. \A p : EvidenceOf(turn, p) = ran(p)
    BY <2>1 DEF EvidenceOf
  <2> HIDE DEF plans, ran
  <2>8. ASSUME NEW p \in plans
        PROVE  \E n \in ran(p) : /\ ran(p) = {n}
                                 /\ turn.evidence[n].patched /\ turn.evidence[n].valid
    <3>1. PlanPassed(turn, p)
      BY <2>2
    <3>2. /\ Cardinality(ran(p)) = 1
          /\ \A n \in ran(p) : turn.evidence[n].patched /\ turn.evidence[n].valid
      BY <2>7, <3>1 DEF PlanPassed
    <3>3. IsFiniteSet(ran(p))
      BY <2>7, EvidenceIsFinite
    <3>4. \E n : ran(p) = {n}
      BY <3>2, <3>3, FS_Singleton
    <3> QED BY <3>2, <3>4
  <2>9. ASSUME NEW m \in DOMAIN turn.evidence, NEW n \in DOMAIN turn.evidence,
               turn.evidence[m].id = turn.evidence[n].id
        PROVE  m = n
    <3> DEFINE p == turn.evidence[m].plan
               q == turn.evidence[n].plan
    <3>1. p \in plans /\ q \in plans
      BY <1>2, <2>1 DEF UndeclaredEvidence, TestExpected, plans
    <3>2. m \in ran(p) /\ n \in ran(q)
      BY DEF ran
    <3>3. CASE p = q
      BY <2>8, <3>1, <3>2, <3>3
    <3>4. ASSUME NEW a \in plans, NEW b \in plans, NEW i \in ran(a), NEW j \in ran(b),
                 a < b, turn.evidence[i].id = turn.evidence[j].id
          PROVE  FALSE
      <4>1. PlanPassed(turn, b) /\ PlanPassed(turn, a)
        BY <2>2
      <4>2. turn.evidence[j].id \notin UsedBefore(turn, b)
        BY <2>7, <4>1 DEF PlanPassed
      <4>3. Cardinality(EvidenceOf(turn, a)) = 1
        BY <4>1 DEF PlanPassed
      <4>4. i \in EvidenceOf(turn, a)
        BY <2>7
      <4>5. turn.evidence[i].id \in UsedBefore(turn, b)
        BY <3>4, <4>3, <4>4 DEF UsedBefore, plans
      <4> QED BY <3>4, <4>2, <4>5
    <3>5. p \in Nat /\ q \in Nat
      BY <3>1, PlansAreFinite DEF plans
    <3>6. p = q \/ p < q \/ q < p
      BY <3>5
    <3> HIDE DEF p, q
    <3> QED BY <2>9, <3>1, <3>2, <3>3, <3>4, <3>6
  <2> QED BY <2>2, <2>3, <2>4, <2>6, <2>8, <2>9
<1>3. {s.plan : s \in {t \in turn.sources : t.single}} = plans
  BY DEF PlansOf
<1> HIDE DEF plans
<1>4. VerdictIsEarned(turn, v)
  BY <1>1, <1>2, <1>3 DEF VerdictIsEarned
<1> QED BY <1>4 DEF v

-----------------------------------------------------------------------------
(* The artifact of a verdict *)

UpTo(plans, plan) == {p \in plans : p <= plan}

NthPlan(plans, n) == CHOOSE plan \in plans : Cardinality(UpTo(plans, plan)) = n

\* A smaller plan has fewer plans up to it.
LEMMA RankGrows ==
  ASSUME NEW plans, plans \subseteq Nat, IsFiniteSet(plans), NEW a \in plans, NEW b \in plans, a < b
  PROVE  Cardinality(UpTo(plans, a)) < Cardinality(UpTo(plans, b))
<1>0. \A p \in plans : p \in Nat
  OBVIOUS
<1>a. \A p \in plans : p <= a => p <= b
  BY <1>0
<1>b. b <= b /\ ~(b <= a)
  BY <1>0
<1>1. UpTo(plans, a) \subseteq UpTo(plans, b) /\ b \in UpTo(plans, b) /\ b \notin UpTo(plans, a)
  BY <1>a, <1>b DEF UpTo
<1>2. IsFiniteSet(UpTo(plans, b))
  BY FS_Subset DEF UpTo
<1>3. /\ IsFiniteSet(UpTo(plans, a)) /\ Cardinality(UpTo(plans, a)) <= Cardinality(UpTo(plans, b))
      /\ Cardinality(UpTo(plans, b)) = Cardinality(UpTo(plans, a)) => UpTo(plans, b) = UpTo(plans, a)
  BY <1>1, <1>2, FS_Subset
<1>4. Cardinality(UpTo(plans, a)) \in Nat /\ Cardinality(UpTo(plans, b)) \in Nat
  BY <1>2, <1>3, FS_CardinalityType
<1> QED BY <1>1, <1>3, <1>4

\* Every rank has a plan.
LEMMA NthPlanExists ==
  ASSUME NEW plans, plans \subseteq Nat, IsFiniteSet(plans), NEW n \in 1 .. Cardinality(plans)
  PROVE  NthPlan(plans, n) \in plans /\ Cardinality(UpTo(plans, NthPlan(plans, n))) = n
<1> DEFINE k == Cardinality(plans)
           rank == [p \in plans |-> Cardinality(UpTo(plans, p))]
<1>1. k \in Nat
  BY FS_CardinalityType
<1>2. \A p \in plans : Cardinality(UpTo(plans, p)) \in 1 .. k
  <2> SUFFICES ASSUME NEW p \in plans PROVE Cardinality(UpTo(plans, p)) \in 1 .. k
    OBVIOUS
  <2>1. UpTo(plans, p) \subseteq plans /\ p \in UpTo(plans, p)
    BY DEF UpTo
  <2>2. IsFiniteSet(UpTo(plans, p)) /\ Cardinality(UpTo(plans, p)) <= k
    BY <2>1, FS_Subset
  <2>3. Cardinality(UpTo(plans, p)) \in Nat /\ Cardinality(UpTo(plans, p)) # 0
    BY <2>1, <2>2, FS_CardinalityType, FS_EmptySet
  <2> QED BY <1>1, <2>2, <2>3
<1>3. rank \in Injection(plans, 1 .. k)
  <2>1. rank \in [plans -> 1 .. k]
    BY <1>2
  <2>2. ASSUME NEW a \in plans, NEW b \in plans, rank[a] = rank[b] PROVE a = b
    <3>1. a \in Nat /\ b \in Nat
      OBVIOUS
    <3>2. rank[a] = Cardinality(UpTo(plans, a)) /\ rank[b] = Cardinality(UpTo(plans, b))
          /\ rank[a] \in 1 .. k
      BY <1>2
    <3> HIDE DEF rank, k
    <3>a. a < b => Cardinality(UpTo(plans, a)) < Cardinality(UpTo(plans, b))
      BY RankGrows
    <3>b. b < a => Cardinality(UpTo(plans, b)) < Cardinality(UpTo(plans, a))
      BY RankGrows
    <3>c. rank[a] \in Int
      BY <1>1, <3>2
    <3>d. /\ Cardinality(UpTo(plans, a)) = Cardinality(UpTo(plans, b))
          /\ Cardinality(UpTo(plans, a)) \in Int
      BY <2>2, <3>2, <3>c
    <3>3. ~(a < b) /\ ~(b < a)
      <4> HIDE <2>2
      <4>1. \A x, y \in Int : x = y => ~(x < y) /\ ~(y < x)
        OBVIOUS
      <4>2. /\ ~(Cardinality(UpTo(plans, a)) < Cardinality(UpTo(plans, b)))
            /\ ~(Cardinality(UpTo(plans, b)) < Cardinality(UpTo(plans, a)))
        BY <3>d, <4>1
      <4> QED BY <3>a, <3>b, <4>2
    <3> QED BY <3>1, <3>3
  <2> HIDE DEF rank
  <2> QED BY <2>1, <2>2 DEF Injection, IsInjective
<1>4. IsFiniteSet(1 .. k) /\ Cardinality(1 .. k) = k
  BY <1>1, FS_Interval
<1>5. rank \in Surjection(plans, 1 .. k)
  BY <1>3, <1>4, FS_Injection
<1>6. \E p \in plans : rank[p] = n
  <2> HIDE DEF rank
  <2> QED BY <1>5 DEF Surjection
<1>7. \E p \in plans : Cardinality(UpTo(plans, p)) = n
  BY <1>6
<1> QED BY <1>7 DEF NthPlan

\* Ranks order the plans.
LEMMA NthPlansOrdered ==
  ASSUME NEW plans, plans \subseteq Nat, IsFiniteSet(plans),
         NEW m \in 1 .. Cardinality(plans), NEW n \in 1 .. Cardinality(plans), m < n
  PROVE  NthPlan(plans, m) < NthPlan(plans, n)
<1> DEFINE a == NthPlan(plans, m)
           b == NthPlan(plans, n)
<1>1. /\ a \in plans /\ Cardinality(UpTo(plans, a)) = m
      /\ b \in plans /\ Cardinality(UpTo(plans, b)) = n
  BY NthPlanExists
<1> HIDE DEF a, b
<1>a. b < a => Cardinality(UpTo(plans, b)) < Cardinality(UpTo(plans, a))
  BY <1>1, RankGrows
<1>b. m \in Int /\ n \in Int
  OBVIOUS
<1>2. ~(b < a) /\ a # b
  BY <1>1, <1>a, <1>b
<1>3. a \in Nat /\ b \in Nat
  BY <1>1
<1>4. a < b
  BY <1>2, <1>3
<1> QED BY <1>4 DEF a, b

\* f holds the concatenations of the first of some sequences.
Concatenates(f, seqs, k) ==
  f = [i \in 1 .. k |-> IF i = 1 THEN seqs[i] ELSE f[i - 1] \o seqs[i]]

\* There are such concatenations.
LEMMA ConcatenationExists ==
  ASSUME NEW seqs, NEW k \in Nat
  PROVE  \E f : Concatenates(f, seqs, k)
<1> DEFINE S == {j \in Nat : \E f : Concatenates(f, seqs, j)}
<1>1. 0 \in S
  <2> DEFINE f == [i \in 1 .. 0 |-> seqs[i]]
  <2>1. f = [i \in 1 .. 0 |-> IF i = 1 THEN seqs[i] ELSE f[i - 1] \o seqs[i]]
    OBVIOUS
  <2> HIDE DEF f
  <2> QED BY <2>1 DEF Concatenates
<1>2. ASSUME NEW j \in 0 .. (k - 1), j \in S PROVE j + 1 \in S
  <2>1. PICK f : Concatenates(f, seqs, j)
    BY <1>2
  <2> DEFINE Next(i) == IF i = 1 THEN seqs[i] ELSE f[i - 1] \o seqs[i]
             g == [i \in 1 .. (j + 1) |-> IF i = j + 1 THEN Next(i) ELSE f[i]]
             h == [i \in 1 .. (j + 1) |-> IF i = 1 THEN seqs[i] ELSE g[i - 1] \o seqs[i]]
  <2>2. \A i \in 1 .. j : f[i] = Next(i)
    BY <2>1 DEF Concatenates
  <2>3. j \in Nat
    OBVIOUS
  <2>4. \A i \in 1 .. j : g[i] = f[i]
    BY <2>3
  <2>5. ASSUME NEW i \in 1 .. (j + 1) PROVE g[i] = h[i]
    <3>1. g[i] = Next(i)
      <4> HIDE DEF Next
      <4>1. i = j + 1 \/ i \in 1 .. j
        BY <2>3
      <4> QED BY <2>2, <2>3, <2>4, <4>1
    <3>2. i # 1 => i - 1 \in 1 .. j
      BY <2>3
    <3>3. i # 1 => g[i - 1] = f[i - 1]
      BY <2>4, <3>2
    <3> HIDE DEF g
    <3>4. h[i] = IF i = 1 THEN seqs[i] ELSE g[i - 1] \o seqs[i]
      OBVIOUS
    <3> HIDE DEF h
    <3> QED BY <3>1, <3>3, <3>4
  <2>6. g = h
    <3>1. g = [i \in 1 .. (j + 1) |-> g[i]] /\ h = [i \in 1 .. (j + 1) |-> h[i]]
      OBVIOUS
    <3> HIDE DEF g, h
    <3> QED BY <2>5, <3>1
  <2>7. Concatenates(g, seqs, j + 1)
    <3> HIDE DEF g
    <3> QED BY <2>6 DEF Concatenates
  <2> HIDE DEF g
  <2> QED BY <2>3, <2>7
<1>3. k \in 0 .. k
  OBVIOUS
<1> HIDE DEF S
<1>4. k \in S
  BY <1>1, <1>2, <1>3, CountsUp
<1> QED BY <1>4 DEF S

\* FlattenSeq is the last of them.
LEMMA FlattenConcatenates ==
  ASSUME NEW seqs, Len(seqs) \in Nat, Len(seqs) # 0
  PROVE  \E f : Concatenates(f, seqs, Len(seqs)) /\ FlattenSeq(seqs) = f[Len(seqs)]
<1> DEFINE f == CHOOSE f : f = [i \in 1 .. Len(seqs) |->
                                  IF i = 1 THEN seqs[i] ELSE f[i - 1] \o seqs[i]]
<1>1. Concatenates(f, seqs, Len(seqs))
  BY ConcatenationExists DEF Concatenates
<1>2. FlattenSeq(seqs) = f[Len(seqs)]
  BY DEF FlattenSeq
<1> HIDE DEF f
<1> QED BY <1>1, <1>2

\* Two lists without repetition and without a common member.
LEMMA ConcatIsInjective ==
  ASSUME NEW A, NEW B, A \cap B = {}, NEW s \in Seq(A), NEW t \in Seq(B),
         IsInjective(s), IsInjective(t)
  PROVE  /\ s \o t \in Seq(A \cup B) /\ Len(s \o t) = Len(s) + Len(t)
         /\ IsInjective(s \o t)
<1> DEFINE m == Len(s)
           n == Len(t)
           u == s \o t
<1>1. /\ m \in Nat /\ n \in Nat /\ DOMAIN s = 1 .. m /\ DOMAIN t = 1 .. n
      /\ \A i \in 1 .. m : s[i] \in A
      /\ \A i \in 1 .. n : t[i] \in B
  OBVIOUS
<1>2. /\ DOMAIN u = 1 .. (m + n) /\ Len(u) = m + n
      /\ \A i \in 1 .. (m + n) : u[i] = IF i <= m THEN s[i] ELSE t[i - m]
  OBVIOUS
<1>3. u \in Seq(A \cup B)
  <2>1. s \in Seq(A \cup B) /\ t \in Seq(A \cup B)
    OBVIOUS
  <2> QED BY <2>1
<1> HIDE DEF m, n, u
<1>4. ASSUME NEW i \in 1 .. (m + n), NEW j \in 1 .. (m + n), u[i] = u[j]
      PROVE  i = j
  <2>1. CASE i <= m /\ j <= m
    <3>1. u[i] = s[i] /\ u[j] = s[j] /\ i \in 1 .. m /\ j \in 1 .. m
      BY <1>1, <1>2, <2>1
    <3> QED BY <1>1, <1>4, <3>1 DEF IsInjective
  <2>2. CASE ~(i <= m) /\ ~(j <= m)
    <3>1. u[i] = t[i - m] /\ u[j] = t[j - m] /\ i - m \in 1 .. n /\ j - m \in 1 .. n
      BY <1>1, <1>2, <2>2
    <3>2. i - m = j - m
      BY <1>1, <1>4, <3>1 DEF IsInjective
    <3> QED BY <1>1, <3>2
  <2>3. ASSUME NEW a \in 1 .. (m + n), NEW b \in 1 .. (m + n), a <= m, ~(b <= m), u[a] = u[b]
        PROVE  FALSE
    <3>1. u[a] = s[a] /\ u[b] = t[b - m] /\ a \in 1 .. m /\ b - m \in 1 .. n
      BY <1>1, <1>2, <2>3
    <3>2. s[a] \in A /\ t[b - m] \in B
      BY <1>1, <3>1
    <3> QED BY <2>3, <3>1, <3>2
  <2> QED BY <1>4, <2>1, <2>2, <2>3
<1>5. IsInjective(u)
  BY <1>2, <1>4 DEF IsInjective
<1> QED BY <1>2, <1>3, <1>5 DEF u, m, n

\* Lists of at most one member each, from sets without a common member.
LEMMA FlattenIsInjective ==
  ASSUME NEW seqs, NEW k \in Nat, NEW f, Concatenates(f, seqs, k), NEW Own,
         \A i \in 1 .. k : seqs[i] \in Seq(Own[i]) /\ Len(seqs[i]) <= 1 /\ IsInjective(seqs[i]),
         \A i, j \in 1 .. k : i < j => Own[i] \cap Own[j] = {}
  PROVE  \A i \in 1 .. k : Len(f[i]) <= i /\ IsInjective(f[i])
<1> DEFINE Held(i) == UNION {Own[j] : j \in 1 .. i}
           Good(i) == f[i] \in Seq(Held(i)) /\ Len(f[i]) <= i /\ IsInjective(f[i])
           S == {i \in Nat : i = 0 \/ Good(i)}
<1>1. 0 \in S
  OBVIOUS
<1>2. ASSUME NEW i \in 0 .. (k - 1), i \in S PROVE i + 1 \in S
  <2>1. i \in Nat /\ i + 1 \in 1 .. k /\ i + 1 \in Nat
    OBVIOUS
  <2>2. f[i + 1] = IF i + 1 = 1 THEN seqs[i + 1] ELSE f[i] \o seqs[i + 1]
    <3>1. \A j \in 1 .. k : f[j] = IF j = 1 THEN seqs[j] ELSE f[j - 1] \o seqs[j]
      BY DEF Concatenates
    <3>2. (i + 1) - 1 = i
      BY <2>1
    <3> QED BY <2>1, <3>1, <3>2
  <2>3. /\ seqs[i + 1] \in Seq(Own[i + 1]) /\ Len(seqs[i + 1]) <= 1
        /\ IsInjective(seqs[i + 1])
    BY <2>1
  <2>4. Held(i) \cup Own[i + 1] \subseteq Held(i + 1)
    <3>1. 1 .. i \subseteq 1 .. (i + 1) /\ i + 1 \in 1 .. (i + 1)
      BY <2>1
    <3> QED BY <3>1
  <2>5. \A X, Y, s : X \subseteq Y /\ s \in Seq(X) => s \in Seq(Y)
    OBVIOUS
  <2>6. CASE i = 0
    <3>1. f[i + 1] = seqs[i + 1]
      BY <2>2, <2>6
    <3>2. f[i + 1] \in Seq(Held(i + 1))
      <4> HIDE DEF Held
      <4> QED BY <2>3, <2>4, <2>5, <3>1
    <3>3. Len(f[i + 1]) <= i + 1
      BY <2>3, <2>6, <3>1
    <3> QED BY <2>1, <2>3, <3>1, <3>2, <3>3
  <2>7. CASE i # 0
    <3>0. i + 1 # 1
      BY <2>1, <2>7
    <3>1. f[i + 1] = f[i] \o seqs[i + 1]
      BY <2>2, <3>0
    <3>2. Good(i)
      BY <1>2, <2>7
    <3>3. Held(i) \cap Own[i + 1] = {}
      <4>1. \A j \in 1 .. i : j \in 1 .. k /\ j < i + 1
        BY <2>1
      <4>2. \A j \in 1 .. i : Own[j] \cap Own[i + 1] = {}
        BY <2>1, <4>1
      <4> QED BY <4>2
    <3> DEFINE held == Held(i)
               own == Own[i + 1]
               s == f[i]
               t == seqs[i + 1]
    <3>4. s \in Seq(held) /\ IsInjective(s) /\ Len(s) <= i /\ Len(s) \in Nat
      BY <3>2
    <3>5. t \in Seq(own) /\ IsInjective(t) /\ Len(t) <= 1 /\ Len(t) \in Nat
      BY <2>3
    <3>6. f[i + 1] = s \o t /\ held \cap own = {} /\ held \cup own \subseteq Held(i + 1)
      BY <2>4, <3>1, <3>3
    <3> HIDE DEF Held, held, own, s, t
    <3>7. s \o t \in Seq(held \cup own) /\ Len(s \o t) = Len(s) + Len(t) /\ IsInjective(s \o t)
      BY <3>4, <3>5, <3>6, ConcatIsInjective
    <3>8. Len(s \o t) <= i + 1
      BY <2>1, <3>4, <3>5, <3>7
    <3>9. s \o t \in Seq(Held(i + 1))
      BY <2>5, <3>6, <3>7
    <3> QED BY <2>1, <3>6, <3>7, <3>8, <3>9
  <2> QED BY <2>6, <2>7
<1> HIDE DEF S
<1>3. \A i \in 0 .. k : i \in S
  BY <1>1, <1>2, CountsUp
<1>4. \A i \in 1 .. k : i \in 0 .. k /\ i # 0
  OBVIOUS
<1> QED BY <1>3, <1>4 DEF S

DistinctIds(turn) ==
  \A m, n \in DOMAIN turn.evidence : turn.evidence[m].id = turn.evidence[n].id => m = n

\* The record of one plan, field by field.
LEMMA PlanResultFields ==
  \A turn, plan :
    /\ PlanResult(turn, plan).plan = plan
    /\ PlanResult(turn, plan).available = PlanAvailable(turn, plan)
    /\ PlanResult(turn, plan).executed = (EvidenceOf(turn, plan) # {})
    /\ PlanResult(turn, plan).passed = PlanPassed(turn, plan)
    /\ PlanResult(turn, plan).reason = ~PlanPassed(turn, plan)
<1> SUFFICES ASSUME NEW turn, NEW plan
             PROVE  /\ PlanResult(turn, plan).plan = plan
                    /\ PlanResult(turn, plan).available = PlanAvailable(turn, plan)
                    /\ PlanResult(turn, plan).executed = (EvidenceOf(turn, plan) # {})
                    /\ PlanResult(turn, plan).passed = PlanPassed(turn, plan)
                    /\ PlanResult(turn, plan).reason = ~PlanPassed(turn, plan)
  OBVIOUS
<1>1. PlanResult(turn, plan).plan = plan
  BY Zenon DEF PlanResult
<1>2. PlanResult(turn, plan).available = PlanAvailable(turn, plan)
  BY Zenon DEF PlanResult
<1>3. PlanResult(turn, plan).executed = (EvidenceOf(turn, plan) # {})
  BY Zenon DEF PlanResult
<1>4. PlanResult(turn, plan).passed = PlanPassed(turn, plan)
  BY Zenon DEF PlanResult
<1>5. PlanResult(turn, plan).reason = ~PlanPassed(turn, plan)
  BY Zenon DEF PlanResult
<1> QED BY <1>1, <1>2, <1>3, <1>4, <1>5, Zenon

\* The evidence named for one plan.
LEMMA PlanResultEvidence ==
  ASSUME NEW turn, NEW plan
  PROVE  PlanResult(turn, plan).evidence =
           LET ran == EvidenceOf(turn, plan)
               first == CHOOSE n \in ran : \A m \in ran : n <= m IN
           IF ran = {} THEN {}
           ELSE IF Cardinality(ran) = 1 /\ turn.evidence[first].id \in UsedBefore(turn, plan)
                THEN {} ELSE {turn.evidence[first].id}
  BY DEF PlanResult

\* With ids of their own, a plan with evidence names one piece of it.
LEMMA NamesOneEvidence ==
  ASSUME NEW turn, IsTurn(turn), DistinctIds(turn), NEW plan \in PlansOf(turn.sources)
  PROVE  /\ EvidenceOf(turn, plan) = {} => PlanResult(turn, plan).evidence = {}
         /\ EvidenceOf(turn, plan) # {} =>
              \E n \in EvidenceOf(turn, plan) :
                PlanResult(turn, plan).evidence = {turn.evidence[n].id}
<1> DEFINE ran == EvidenceOf(turn, plan)
           first == CHOOSE n \in ran : \A m \in ran : n <= m
<1>1. PlanResult(turn, plan).evidence =
        IF ran = {} THEN {}
        ELSE IF Cardinality(ran) = 1 /\ turn.evidence[first].id \in UsedBefore(turn, plan)
             THEN {} ELSE {turn.evidence[first].id}
  BY PlanResultEvidence
<1>2. ASSUME ran # {} PROVE first \in ran
  <2>1. ran \subseteq Nat
    BY EvidenceIsFinite
  <2> HIDE DEF ran
  <2>2. \E n \in ran : \A m \in ran : n <= m
    BY <1>2, <2>1, LeastNumber
  <2> QED BY <2>2
<1>3. plan \in Nat
  BY PlansAreFinite
<1>4. \A n \in ran : n \in DOMAIN turn.evidence /\ turn.evidence[n].plan = plan
  BY DEF EvidenceOf
<1>5. ASSUME NEW n \in ran PROVE turn.evidence[n].id \notin UsedBefore(turn, plan)
  <2> SUFFICES ASSUME turn.evidence[n].id \in UsedBefore(turn, plan) PROVE FALSE
    OBVIOUS
  <2>a. PICK q \in PlansOf(turn.sources) :
          q < plan /\ \E m \in EvidenceOf(turn, q) : turn.evidence[n].id = turn.evidence[m].id
    BY DEF UsedBefore
  <2>1. PICK m \in EvidenceOf(turn, q) : turn.evidence[n].id = turn.evidence[m].id
    BY <2>a
  <2>2. m \in DOMAIN turn.evidence /\ turn.evidence[m].plan = q
    BY <2>1 DEF EvidenceOf
  <2>3. m = n
    BY <1>4, <2>1, <2>2 DEF DistinctIds
  <2>4. q = plan
    BY <1>4, <2>2, <2>3
  <2> QED BY <1>3, <2>a, <2>4
<1> HIDE DEF first
<1> QED BY <1>1, <1>2, <1>5

\* A list of a set with at most one member.
LEMMA ListOfOne ==
  ASSUME NEW x, NEW S, S \subseteq {x}
  PROVE  SetToSeq(S) \in Seq(S) /\ Len(SetToSeq(S)) <= 1 /\ IsInjective(SetToSeq(S))
<1> DEFINE s == SetToSeq(S)
           n == Cardinality(S)
<1>1. IsFiniteSet({x}) /\ Cardinality({x}) = 1
  BY FS_Singleton
<1>2. IsFiniteSet(S) /\ n <= 1
  BY <1>1, FS_Subset
<1>3. n \in Nat /\ s \in Seq(S) /\ Len(s) = n /\ DOMAIN s = 1 .. n
  BY <1>2, Enumerates
<1> HIDE DEF s, n
<1>5. \A a, b \in 1 .. n : a = b
  BY <1>2, <1>3
<1>6. IsInjective(s)
  BY <1>3, <1>5 DEF IsInjective
<1> QED BY <1>2, <1>3, <1>6 DEF s

\* The results are those of the plans, in their order.
LEMMA ResultsInOrder ==
  ASSUME NEW turn, IsTurn(turn), ~OverCap(turn.sources)
  PROVE  /\ DOMAIN PlanResults(turn) = 1 .. Cardinality(PlansOf(turn.sources))
         /\ Len(PlanResults(turn)) = Cardinality(PlansOf(turn.sources))
         /\ \A n \in 1 .. Cardinality(PlansOf(turn.sources)) :
              /\ NthPlan(PlansOf(turn.sources), n) \in PlansOf(turn.sources)
              /\ PlanResults(turn)[n] = PlanResult(turn, NthPlan(PlansOf(turn.sources), n))
<1> DEFINE plans == PlansOf(turn.sources)
           k == Cardinality(plans)
<1>1. PlanResults(turn) = [n \in 1 .. k |-> PlanResult(turn, NthPlan(plans, n))]
  BY DEF PlanResults, NthPlan, UpTo
<1>2. k \in Nat /\ IsFiniteSet(plans) /\ plans \subseteq Nat
  BY PlansAreFinite
<1> HIDE DEF plans, k
<1>3. Len(PlanResults(turn)) = k
  BY <1>1, <1>2
<1>4. \A n \in 1 .. k : NthPlan(plans, n) \in plans
  BY <1>2, NthPlanExists DEF k
<1> QED BY <1>1, <1>3, <1>4 DEF plans, k

\* No piece of evidence is named twice.
LEMMA EvidenceNamedOnce ==
  ASSUME NEW turn, IsTurn(turn), DistinctIds(turn), ~OverCap(turn.sources)
  PROVE  /\ IsInjective(EvidenceIds(PlanResults(turn)))
         /\ Len(EvidenceIds(PlanResults(turn))) <= Cardinality(PlansOf(turn.sources))
<1> DEFINE plans == PlansOf(turn.sources)
           k == Cardinality(plans)
           results == PlanResults(turn)
           seqs == [n \in DOMAIN results |-> SetToSeq(results[n].evidence)]
           Ids(plan) == {turn.evidence[n].id : n \in EvidenceOf(turn, plan)}
           Own == [i \in 1 .. k |-> Ids(NthPlan(plans, i))]
<1>1. k \in Nat /\ IsFiniteSet(plans) /\ plans \subseteq Nat
  BY PlansAreFinite
<1>2. /\ DOMAIN results = 1 .. k
      /\ \A n \in 1 .. k : /\ NthPlan(plans, n) \in plans
                           /\ results[n] = PlanResult(turn, NthPlan(plans, n))
  BY ResultsInOrder
<1>3. EvidenceIds(results) = FlattenSeq(seqs)
  BY DEF EvidenceIds
<1>4. \A plan \in plans : /\ PlanResult(turn, plan).evidence \subseteq Ids(plan)
                          /\ \E x : PlanResult(turn, plan).evidence \subseteq {x}
  BY NamesOneEvidence
<1>5. ASSUME NEW p \in plans, NEW q \in plans, p # q PROVE Ids(p) \cap Ids(q) = {}
  <2> SUFFICES ASSUME NEW m \in EvidenceOf(turn, p), NEW n \in EvidenceOf(turn, q),
                      turn.evidence[m].id = turn.evidence[n].id
               PROVE  FALSE
    OBVIOUS
  <2>1. /\ m \in DOMAIN turn.evidence /\ turn.evidence[m].plan = p
        /\ n \in DOMAIN turn.evidence /\ turn.evidence[n].plan = q
    BY DEF EvidenceOf
  <2>2. m = n
    BY <2>1 DEF DistinctIds
  <2> QED BY <1>5, <2>1, <2>2
<1> HIDE DEF plans, k, results, Ids
<1>6. ASSUME NEW i \in 1 .. k
      PROVE  seqs[i] \in Seq(Own[i]) /\ Len(seqs[i]) <= 1 /\ IsInjective(seqs[i])
  <2> DEFINE S == PlanResult(turn, NthPlan(plans, i)).evidence
  <2>1. seqs[i] = SetToSeq(S) /\ Own[i] = Ids(NthPlan(plans, i))
    BY <1>2
  <2>2. S \subseteq Own[i] /\ \E x : S \subseteq {x}
    BY <1>2, <1>4, <2>1
  <2> HIDE DEF S, Own, seqs
  <2>3. SetToSeq(S) \in Seq(S) /\ Len(SetToSeq(S)) <= 1 /\ IsInjective(SetToSeq(S))
    BY <2>2, ListOfOne
  <2>4. \A X, Y, s : X \subseteq Y /\ s \in Seq(X) => s \in Seq(Y)
    OBVIOUS
  <2> QED BY <2>1, <2>2, <2>3, <2>4
<1>7. ASSUME NEW i \in 1 .. k, NEW j \in 1 .. k, i < j PROVE Own[i] \cap Own[j] = {}
  <2> DEFINE p == NthPlan(plans, i)
             q == NthPlan(plans, j)
  <2>1. p \in plans /\ q \in plans
    BY <1>2
  <2>2. p < q
    BY <1>1, <1>7, NthPlansOrdered DEF k
  <2>3. Own[i] = Ids(p) /\ Own[j] = Ids(q)
    OBVIOUS
  <2> HIDE DEF p, q, Own
  <2>4. p # q
    BY <1>1, <2>1, <2>2
  <2> QED BY <1>5, <2>1, <2>3, <2>4
<1>8. Len(seqs) = k /\ DOMAIN seqs = 1 .. k
  BY <1>1, <1>2
<1> HIDE DEF seqs, Own
<1>9. CASE k = 0
  <2>1. FlattenSeq(seqs) = seqs
    BY <1>8, <1>9 DEF FlattenSeq
  <2>2. IsInjective(seqs)
    BY <1>8, <1>9 DEF IsInjective
  <2>3. Len(seqs) <= k
    BY <1>1, <1>8
  <2> QED BY <1>3, <2>1, <2>2, <2>3 DEF results, plans, k
<1>10. CASE k # 0
  <2>1. PICK f : Concatenates(f, seqs, k) /\ FlattenSeq(seqs) = f[k]
    BY <1>1, <1>8, <1>10, FlattenConcatenates
  <2>2. \A i \in 1 .. k : Len(f[i]) <= i /\ IsInjective(f[i])
    BY <1>1, <1>6, <1>7, <2>1, FlattenIsInjective
  <2>3. k \in 1 .. k
    BY <1>1, <1>10
  <2>4. Len(f[k]) <= k /\ IsInjective(f[k])
    BY <2>2, <2>3
  <2> QED BY <1>3, <2>1, <2>4 DEF results, plans, k
<1> QED BY <1>9, <1>10

\* The record of a plan with a supported command is one the store takes.
LEMMA RecordsAreValid ==
  ASSUME NEW turn, IsTurn(turn), DistinctIds(turn), NEW plan \in PlansOf(turn.sources),
         CommandSupported(turn, plan)
  PROVE  RecordValid(turn, PlanResult(turn, plan))
<1> DEFINE r == PlanResult(turn, plan)
           ran == EvidenceOf(turn, plan)
<1>1. /\ r.plan = plan /\ r.available = PlanAvailable(turn, plan)
      /\ r.executed = (ran # {}) /\ r.passed = PlanPassed(turn, plan)
      /\ r.reason = ~PlanPassed(turn, plan)
  BY PlanResultFields, Zenon
<1>2. r.evidence # {} <=> ran # {}
  BY NamesOneEvidence
<1>3. PlanPassed(turn, plan) => PlanAvailable(turn, plan) /\ ran # {}
  <2>1. Cardinality({}) = 0
    BY FS_EmptySet
  <2> QED BY <2>1 DEF PlanPassed
<1> HIDE DEF r, ran
<1>4. RecordValid(turn, r)
  BY <1>1, <1>2, <1>3, Zenon DEF RecordValid
<1> QED BY <1>4 DEF r

\* The store takes the artifact of a verdict.
LEMMA VerdictStorable ==
  ASSUME NEW turn, IsTurn(turn)
  PROVE  VerdictIsStorable(turn, ArtifactOf(turn))
<1> SUFFICES ASSUME \A plan \in PlansOf(turn.sources) : CommandSupported(turn, plan),
                    DistinctIds(turn)
             PROVE  IsCanonical(turn, ArtifactOf(turn))
  BY DEF VerdictIsStorable, DistinctIds
<1> DEFINE plans == PlansOf(turn.sources)
           k == Cardinality(plans)
           over == OverCap(turn.sources)
           results == PlanResults(turn)
           ids == EvidenceIds(results)
           verdict == NormalizedVerdict(turn)
           a == [verdict |-> verdict, results |-> results, evidence |-> ids, overCap |-> over,
                 findings |-> over]
           stored == [artifact |-> a, id |-> Identity(a)]
<1>1. ArtifactOf(turn) = stored
  BY DEF ArtifactOf
<1>2. stored.artifact = a /\ stored.id = Identity(a)
  <2> HIDE DEF a
  <2> QED OBVIOUS
<1>3. /\ a.verdict = verdict /\ a.results = results /\ a.evidence = ids /\ a.overCap = over
      /\ a.findings = over
  <2>1. \A v, r, e, o, f :
          LET x == [verdict |-> v, results |-> r, evidence |-> e, overCap |-> o, findings |-> f] IN
          x.verdict = v /\ x.results = r /\ x.evidence = e /\ x.overCap = o /\ x.findings = f
    OBVIOUS
  <2> HIDE DEF verdict, results, ids, over
  <2> QED BY <2>1, Zenon
<1>4. k \in Nat /\ plans \subseteq Nat /\ IsFiniteSet(plans) /\ MaxVerifierPlans \in Nat
  BY PlansAreFinite, VerdictTasksAssumption
<1>5. over <=> k > MaxVerifierPlans
  BY DEF OverCap
<1>6. over => results = <<>>
  BY DEF PlanResults
<1>7. results = <<>> => ids = <<>>
  <2>1. ASSUME results = <<>> PROVE [n \in DOMAIN results |-> SetToSeq(results[n].evidence)] = <<>>
    BY <2>1
  <2>2. Len(<<>>) = 0
    OBVIOUS
  <2> HIDE DEF results
  <2> QED BY <2>1, <2>2 DEF EvidenceIds, FlattenSeq
<1>8. ~over => /\ DOMAIN results = 1 .. k /\ Len(results) = k
               /\ \A n \in 1 .. k : /\ NthPlan(plans, n) \in plans
                                    /\ results[n] = PlanResult(turn, NthPlan(plans, n))
  BY ResultsInOrder
<1>9. ~over => IsInjective(ids) /\ Len(ids) <= k
  BY EvidenceNamedOnce
<1>10. verdict = "verified" => ~over /\ \A plan \in plans : PlanPassed(turn, plan)
  <2>1. verdict = "verified" => ~over /\ (turn.sources # {} => PlansProven(turn))
    BY NormalizedFacts
  <2>2. turn.sources = {} => plans = {}
    BY DEF PlansOf
  <2> QED BY <2>1, <2>2 DEF PlansProven
<1>11. \A plan \in plans : /\ RecordValid(turn, PlanResult(turn, plan))
                           /\ PlanResult(turn, plan).plan = plan
                           /\ PlanResult(turn, plan).passed = PlanPassed(turn, plan)
  <2>1. \A plan \in plans : RecordValid(turn, PlanResult(turn, plan))
    BY RecordsAreValid
  <2>2. \A plan : /\ PlanResult(turn, plan).plan = plan
                  /\ PlanResult(turn, plan).passed = PlanPassed(turn, plan)
    BY PlanResultFields, Zenon
  <2> QED BY <2>1, <2>2, Zenon
<1>12. \A m, n \in 1 .. k : m < n => NthPlan(plans, m) < NthPlan(plans, n)
  BY <1>4, NthPlansOrdered
<1>13. results # <<>> => ids = EvidenceIds(results)
  OBVIOUS
<1> HIDE DEF plans, k, over, results, ids, verdict, a, stored
<1>14. CASE over
  <2>1. results = <<>> /\ ids = <<>> /\ DOMAIN results = {} /\ Len(ids) = 0 /\ Len(results) = 0
    BY <1>6, <1>7, <1>14
  <2>2. IsInjective(ids)
    BY <2>1 DEF IsInjective
  <2>3. Len(ids) <= MaxVerifierPlans
    BY <1>4, <2>1
  <2>4. verdict # "verified"
    BY <1>10, <1>14
  <2>5. a.overCap /\ a.findings
    BY <1>3, <1>14
  <2>6. IsCanonical(turn, stored)
    BY <1>2, <1>3, <2>1, <2>2, <2>3, <2>4, <2>5 DEF IsCanonical
  <2> QED BY <1>1, <2>6
<1>15. CASE ~over
  <2>1. k <= MaxVerifierPlans
    BY <1>4, <1>5, <1>15
  <2>2. Len(results) <= MaxVerifierPlans /\ Len(ids) <= MaxVerifierPlans
    <3>1. ids \in Seq(Range(ids)) => Len(ids) \in Nat
      OBVIOUS
    <3> QED BY <1>4, <1>8, <1>9, <1>15, <2>1
  <2>3. \A m, n \in DOMAIN results : m < n => results[m].plan < results[n].plan
    BY <1>8, <1>11, <1>12, <1>15
  <2>4. \A n \in DOMAIN results : RecordValid(turn, results[n])
    BY <1>8, <1>11, <1>15
  <2>5. verdict = "verified" => \A n \in DOMAIN results : results[n].passed
    BY <1>8, <1>10, <1>11, <1>15
  <2>6. ~a.overCap
    BY <1>3, <1>15
  <2>7. IsCanonical(turn, stored)
    BY <1>2, <1>3, <1>9, <1>13, <1>15, <2>2, <2>3, <2>4, <2>5, <2>6 DEF IsCanonical
  <2> QED BY <1>1, <2>7
<1> QED BY <1>14, <1>15

-----------------------------------------------------------------------------
(* Needs in a ledger *)

\* A list of the members of a set.
Lists(s, S) == s \in Seq(S) /\ Range(s) = S

\* What two lists hold together.
LEMMA ConcatLists ==
  ASSUME NEW A, NEW B, NEW s, NEW t, Lists(s, A), Lists(t, B)
  PROVE  Lists(s \o t, A \cup B)
<1> DEFINE m == Len(s)
           n == Len(t)
           u == s \o t
<1>0. s \in Seq(A) /\ t \in Seq(B) /\ Range(s) = A /\ Range(t) = B
  BY DEF Lists
<1>1. m \in Nat /\ n \in Nat /\ DOMAIN s = 1 .. m /\ DOMAIN t = 1 .. n
  BY <1>0
<1>2. /\ DOMAIN u = 1 .. (m + n)
      /\ \A i \in 1 .. (m + n) : u[i] = IF i <= m THEN s[i] ELSE t[i - m]
  BY <1>0
<1>3. u \in Seq(A \cup B)
  <2>1. s \in Seq(A \cup B) /\ t \in Seq(A \cup B)
    BY <1>0
  <2> QED BY <2>1
<1> HIDE DEF m, n, u
<1>4. \A i \in 1 .. m : i \in 1 .. (m + n) /\ u[i] = s[i]
  BY <1>1, <1>2
<1>5. \A i \in 1 .. n : m + i \in 1 .. (m + n) /\ u[m + i] = t[i]
  BY <1>1, <1>2
<1>6. \A i \in 1 .. (m + n) : (i \in 1 .. m /\ u[i] = s[i])
                              \/ (i - m \in 1 .. n /\ u[i] = t[i - m])
  BY <1>1, <1>2
<1>7. \A x \in Range(u) : x \in Range(s) \cup Range(t)
  BY <1>1, <1>2, <1>6 DEF Range
<1>8. \A x \in Range(s) : x \in Range(u)
  BY <1>1, <1>2, <1>4 DEF Range
<1>9. \A x \in Range(t) : x \in Range(u)
  BY <1>1, <1>2, <1>5 DEF Range
<1>10. Range(u) = Range(s) \cup Range(t)
  BY <1>7, <1>8, <1>9
<1> QED BY <1>0, <1>3, <1>10 DEF Lists, u

HeldUpTo(Own, i) == UNION {Own[j] : j \in 1 .. i}

\* What the concatenations hold.
LEMMA FlattenHolds ==
  ASSUME NEW seqs, NEW k \in Nat, NEW f, Concatenates(f, seqs, k), NEW Own,
         \A i \in 1 .. k : Lists(seqs[i], Own[i])
  PROVE  \A i \in 1 .. k : Lists(f[i], HeldUpTo(Own, i))
<1> DEFINE Held(i) == UNION {Own[j] : j \in 1 .. i}
           Good(i) == Lists(f[i], Held(i))
           S == {i \in Nat : i = 0 \/ Good(i)}
<1>1. 0 \in S
  OBVIOUS
<1>2. ASSUME NEW i \in 0 .. (k - 1), i \in S PROVE i + 1 \in S
  <2>1. i \in Nat /\ i + 1 \in 1 .. k /\ i + 1 \in Nat
    OBVIOUS
  <2>2. f[i + 1] = IF i + 1 = 1 THEN seqs[i + 1] ELSE f[i] \o seqs[i + 1]
    <3>1. \A j \in 1 .. k : f[j] = IF j = 1 THEN seqs[j] ELSE f[j - 1] \o seqs[j]
      BY DEF Concatenates
    <3>2. (i + 1) - 1 = i
      BY <2>1
    <3> QED BY <2>1, <3>1, <3>2
  <2>3. Lists(seqs[i + 1], Own[i + 1])
    BY <2>1
  <2>4. Held(i + 1) = Held(i) \cup Own[i + 1]
    <3>1. 1 .. (i + 1) = (1 .. i) \cup {i + 1}
      BY <2>1
    <3> QED BY <3>1
  <2>6. CASE i = 0
    <3>1. f[i + 1] = seqs[i + 1]
      BY <2>2, <2>6
    <3>2. Held(i) = {}
      BY <2>6
    <3> HIDE DEF Held
    <3> QED BY <2>1, <2>3, <2>4, <3>1, <3>2
  <2>7. CASE i # 0
    <3>0. i + 1 # 1
      BY <2>1, <2>7
    <3>1. f[i + 1] = f[i] \o seqs[i + 1]
      BY <2>2, <3>0
    <3>2. Good(i)
      BY <1>2, <2>7
    <3> HIDE DEF Held
    <3>3. Lists(f[i] \o seqs[i + 1], Held(i) \cup Own[i + 1])
      BY <2>3, <3>2, ConcatLists
    <3> QED BY <2>1, <2>4, <3>1, <3>3
  <2> QED BY <2>6, <2>7
<1> HIDE DEF S
<1>3. \A i \in 0 .. k : i \in S
  BY <1>1, <1>2, CountsUp
<1>4. \A i \in 1 .. k : i \in 0 .. k /\ i # 0
  OBVIOUS
<1> QED BY <1>3, <1>4 DEF S, HeldUpTo

\* A finite set is listed by its enumeration.
LEMMA SetToSeqLists ==
  ASSUME NEW S, IsFiniteSet(S)
  PROVE  Lists(SetToSeq(S), S)
<1> DEFINE s == SetToSeq(S)
           n == Cardinality(S)
<1>1. /\ s \in Seq(S) /\ DOMAIN s = 1 .. n /\ s \in [1 .. n -> S]
      /\ \A x \in S : \E k \in 1 .. n : s[k] = x
  BY Enumerates
<1> HIDE DEF s, n
<1>2. Range(s) = S
  BY <1>1 DEF Range
<1> QED BY <1>1, <1>2 DEF Lists, s

\* One obligation for each of some predicates.
OnePerPredicate(obligations) ==
  /\ \A o \in obligations : o.predicate \in Predicates
  /\ \A o, p \in obligations : o.predicate = p.predicate => o = p

IsOrder(order) == order \in Seq(Predicates) /\ Range(order) = Predicates

\* In the order of their digests, the obligations are all there.
LEMMA InOrderLists ==
  ASSUME NEW obligations, OnePerPredicate(obligations), NEW order, IsOrder(order)
  PROVE  Lists(InOrder(obligations, order), obligations)
<1> DEFINE k == Len(order)
           With(p) == {o \in obligations : o.predicate = p}
           seqs == [i \in DOMAIN order |-> SetToSeq(With(order[i]))]
           Own == [i \in 1 .. k |-> With(order[i])]
<1>1. k \in Nat /\ DOMAIN order = 1 .. k /\ \A i \in 1 .. k : order[i] \in Predicates
  BY DEF IsOrder
<1>2. \A p \in Predicates : \E i \in 1 .. k : order[i] = p
  BY <1>1 DEF IsOrder, Range
<1>3. k # 0
  BY <1>1, <1>2 DEF Predicates
<1>4. \A p : Lists(SetToSeq(With(p)), With(p))
  <2> SUFFICES ASSUME NEW p PROVE IsFiniteSet(With(p))
    BY SetToSeqLists
  <2>1. CASE With(p) = {}
    BY <2>1, FS_EmptySet
  <2>2. CASE With(p) # {}
    <3>1. PICK x : x \in With(p)
      BY <2>2
    <3>2. With(p) = {x}
      BY <3>1 DEF OnePerPredicate
    <3> QED BY <3>2, FS_Singleton
  <2> QED BY <2>1, <2>2
<1>5. InOrder(obligations, order) = FlattenSeq(seqs)
  BY DEF InOrder
<1>6. HeldUpTo(Own, k) = obligations
  <2>1. \A o \in obligations : \E j \in 1 .. k : o \in Own[j]
    BY <1>2 DEF OnePerPredicate
  <2>2. \A j \in 1 .. k : Own[j] \subseteq obligations
    OBVIOUS
  <2> HIDE DEF Own
  <2> QED BY <2>1, <2>2 DEF HeldUpTo
<1> HIDE DEF With
<1>7. \A i \in 1 .. k : Lists(seqs[i], Own[i])
  BY <1>1, <1>4
<1>8. Len(seqs) = k
  BY <1>1
<1> HIDE DEF k, seqs, Own
<1>9. PICK f : Concatenates(f, seqs, k) /\ FlattenSeq(seqs) = f[k]
  BY <1>1, <1>3, <1>8, FlattenConcatenates
<1>10. k \in 1 .. k
  BY <1>1, <1>3
<1>11. Lists(f[k], HeldUpTo(Own, k))
  <2>1. \A i \in 1 .. k : Lists(f[i], HeldUpTo(Own, i))
    BY <1>1, <1>7, <1>9, FlattenHolds
  <2> QED BY <1>10, <2>1
<1> QED BY <1>5, <1>6, <1>9, <1>11

IsRequest(request) ==
  /\ request.route \in Routes
  /\ PredicatesOf(request.required \cup request.preferred) \subseteq Predicates

\* Merging leaves one expression for each predicate.
LEMMA MergedOnce ==
  ASSUME NEW E, PredicatesOf(E) \subseteq Predicates, NEW subject, NEW M, M \subseteq Merged(E)
  PROVE  OnePerPredicate({Obligation(subject, e) : e \in M})
<1>1. \A e \in M : e.predicate \in Predicates
  BY DEF Merged, Expression
<1>2. \A e, g \in M : e.predicate = g.predicate => e = g
  BY DEF Merged, Expression
<1>3. \A e : Obligation(subject, e).predicate = e.predicate
  BY DEF Obligation
<1> QED BY <1>1, <1>2, <1>3 DEF OnePerPredicate

\* What the compiled form of a request is made of, by either transport.
IsCompiled(c, request, order) ==
  /\ c.subjects = {request.subject} /\ c.world = c.id.world /\ c.id.subject = request.subject
  /\ c.required = {Obligation(request.subject, e) : e \in RequiredExpressions(McpIr(request))}
  /\ c.preferred = {Obligation(request.subject, e) : e \in PreferredExpressions(McpIr(request))}
  /\ c.id = [obligations |-> InOrder(c.required, order) \o InOrder(c.preferred, order),
             subject |-> request.subject, constraints |-> {}, world |-> c.world]

\* The two transports name the same world.
LEMMA SameWorld ==
  ASSUME NEW request
  PROVE  SemanticWorld(HookIr(request).world) = SemanticWorld(McpIr(request).world)
<1> DEFINE f == request.features
           s == request.source
           mcp == <<Facet("features", f), Facet("platform", "current"), Facet("source", s)>>
           left == IF f = "default" THEN <<>> ELSE <<Facet("features", f)>>
           right == IF s = "current" THEN <<>> ELSE <<Facet("source", s)>>
           hook == left \o right
<1>1. McpIr(request).world = mcp
  BY DEF McpIr
<1>2. HookIr(request).world = hook
  <2> DEFINE ir == McpIr(request)
  <2>1. ir = [route |-> ir.route, subjects |-> ir.subjects, required |-> ir.required,
              preferred |-> ir.preferred, constraints |-> ir.constraints, anchors |-> ir.anchors,
              world |-> ir.world]
    BY DEF McpIr
  <2> HIDE DEF ir, hook
  <2>2. [ir EXCEPT !.world = hook].world = hook
    BY <2>1
  <2> QED BY <2>2 DEF HookIr, ir, hook
<1>3. \A key, default : WorldValue(mcp, key, default) =
        IF key = "features" THEN f ELSE IF key = "platform" THEN "current"
        ELSE IF key = "source" THEN s ELSE default
  BY DEF WorldValue, Facet
<1>4. \A key, default : WorldValue(hook, key, default) =
        IF key = "features" /\ f # "default" THEN f
        ELSE IF key = "source" /\ s # "current" THEN s ELSE default
  <2>1. CASE f = "default" /\ s = "current"
    <3>1. hook = <<>>
      BY <2>1
    <3> HIDE DEF hook
    <3> QED BY <2>1, <3>1 DEF WorldValue
  <2>2. CASE f = "default" /\ s # "current"
    <3>1. hook = <<Facet("source", s)>>
      BY <2>2
    <3> HIDE DEF hook
    <3> QED BY <2>2, <3>1 DEF WorldValue, Facet
  <2>3. CASE f # "default" /\ s = "current"
    <3>1. hook = <<Facet("features", f)>>
      BY <2>3
    <3> HIDE DEF hook
    <3> QED BY <2>3, <3>1 DEF WorldValue, Facet
  <2>4. CASE f # "default" /\ s # "current"
    <3>1. hook = <<Facet("features", f)>> \o <<Facet("source", s)>>
      BY <2>4
    <3>2. /\ DOMAIN hook = {1, 2}
          /\ hook[1] = Facet("features", f) /\ hook[2] = Facet("source", s)
      <4> HIDE DEF hook
      <4> QED BY <3>1
    <3> HIDE DEF hook
    <3> QED BY <2>4, <3>2 DEF WorldValue, Facet
  <2> QED BY <2>1, <2>2, <2>3, <2>4
<1> HIDE DEF mcp, hook, f, s
<1> QED BY <1>1, <1>2, <1>3, <1>4 DEF SemanticWorld

LEMMA CompiledByEither ==
  ASSUME NEW request, NEW order
  PROVE  /\ IsCompiled(Compiled(HookIr(request), order), request, order)
         /\ IsCompiled(Compiled(McpIr(request), order), request, order)
         /\ Compiled(HookIr(request), order).world = Compiled(McpIr(request), order).world
<1> DEFINE mcp == McpIr(request)
           hook == HookIr(request)
<1>1. /\ mcp.route = request.route /\ mcp.subjects = {request.subject}
      /\ mcp.required = request.required /\ mcp.preferred = request.preferred
      /\ mcp.constraints = {}
      /\ mcp = [route |-> mcp.route, subjects |-> mcp.subjects, required |-> mcp.required,
                preferred |-> mcp.preferred, constraints |-> mcp.constraints,
                anchors |-> mcp.anchors, world |-> mcp.world]
  BY DEF McpIr
<1>2. /\ hook.route = mcp.route /\ hook.subjects = mcp.subjects
      /\ hook.required = mcp.required /\ hook.preferred = mcp.preferred
      /\ hook.constraints = mcp.constraints
  <2> HIDE DEF mcp
  <2> QED BY <1>1 DEF HookIr, mcp
<1>3. /\ RequiredExpressions(hook) = RequiredExpressions(mcp)
      /\ PreferredExpressions(hook) = PreferredExpressions(mcp)
  <2> HIDE DEF hook, mcp
  <2> QED BY <1>2 DEF RequiredExpressions, PreferredExpressions
<1>4. SemanticWorld(hook.world) = SemanticWorld(mcp.world)
  BY SameWorld
<1>5. ASSUME NEW ir, ir.subjects = {request.subject}, ir.constraints = {},
             RequiredExpressions(ir) = RequiredExpressions(mcp),
             PreferredExpressions(ir) = PreferredExpressions(mcp)
      PROVE  /\ IsCompiled(Compiled(ir, order), request, order)
             /\ Compiled(ir, order).world = SemanticWorld(ir.world)
  <2> HIDE DEF mcp, hook
  <2> DEFINE subject == CHOOSE x \in ir.subjects : TRUE
             required == {Obligation(subject, e) : e \in RequiredExpressions(ir)}
             preferred == {Obligation(subject, e) : e \in PreferredExpressions(ir)}
             world == SemanticWorld(ir.world)
             id == NeedIdentity(subject, required, preferred, ir, order)
             c == [id |-> id, subjects |-> ir.subjects, required |-> required,
                   preferred |-> preferred, constraints |-> ir.constraints, world |-> world,
                   residual |-> Residual(ir)]
  <2>1. subject = request.subject
    BY <1>5
  <2>2. Compiled(ir, order) = c
    BY DEF Compiled
  <2>3. id = [obligations |-> InOrder(required, order) \o InOrder(preferred, order),
              subject |-> subject, constraints |-> {}, world |-> world]
    BY <1>5 DEF NeedIdentity
  <2>4. /\ required = {Obligation(request.subject, e) : e \in RequiredExpressions(mcp)}
        /\ preferred = {Obligation(request.subject, e) : e \in PreferredExpressions(mcp)}
    BY <1>5, <2>1
  <2> HIDE DEF subject, required, preferred, world, id
  <2>5. /\ c.id = id /\ c.subjects = ir.subjects /\ c.required = required
        /\ c.preferred = preferred /\ c.world = world
    OBVIOUS
  <2>6. id.subject = subject /\ id.world = world
    BY <2>3
  <2> HIDE DEF c
  <2>7. IsCompiled(c, request, order)
    BY <1>5, <2>1, <2>3, <2>4, <2>5, <2>6 DEF IsCompiled, mcp
  <2> QED BY <2>2, <2>5, <2>7 DEF world
<1> HIDE DEF mcp, hook
<1>6. /\ IsCompiled(Compiled(mcp, order), request, order)
      /\ Compiled(mcp, order).world = SemanticWorld(mcp.world)
  BY <1>1, <1>5
<1>7. /\ IsCompiled(Compiled(hook, order), request, order)
      /\ Compiled(hook, order).world = SemanticWorld(hook.world)
  BY <1>1, <1>2, <1>3, <1>5
<1> QED BY <1>4, <1>6, <1>7 DEF mcp, hook

\* A compiled need has one obligation for each predicate, in each of its lists.
LEMMA CompiledOnce ==
  ASSUME NEW request, IsRequest(request), NEW order, NEW c, IsCompiled(c, request, order)
  PROVE  OnePerPredicate(c.required) /\ OnePerPredicate(c.preferred)
<1> DEFINE ir == McpIr(request)
           R == RouteRequired(ir.route) \cup ir.required
           P == RoutePreferred(ir.route) \cup ir.preferred
<1>1. ir.route = request.route /\ ir.required = request.required /\ ir.preferred = request.preferred
  BY DEF McpIr
<1>2. /\ \A e \in RouteRequired(request.route) : e.predicate \in Predicates
      /\ \A e \in RoutePreferred(request.route) : e.predicate \in Predicates
  BY DEF IsRequest, Routes, RouteRequired, RoutePreferred, Expression, Predicates
<1>3. \A e \in request.required \cup request.preferred : e.predicate \in Predicates
  BY DEF IsRequest, PredicatesOf
<1> HIDE DEF ir
<1>4. PredicatesOf(R) \subseteq Predicates /\ PredicatesOf(P) \subseteq Predicates
  BY <1>1, <1>2, <1>3 DEF PredicatesOf
<1> HIDE DEF R, P
<1>5. RequiredExpressions(ir) \subseteq Merged(R)
  BY DEF RequiredExpressions, R
<1>6. PreferredExpressions(ir) \subseteq Merged(P)
  BY DEF PreferredExpressions, P
<1>7. /\ c.required = {Obligation(request.subject, e) : e \in RequiredExpressions(ir)}
      /\ c.preferred = {Obligation(request.subject, e) : e \in PreferredExpressions(ir)}
  BY DEF IsCompiled, ir
<1>8. OnePerPredicate({Obligation(request.subject, e) : e \in RequiredExpressions(ir)})
  BY <1>4, <1>5, MergedOnce
<1>9. OnePerPredicate({Obligation(request.subject, e) : e \in PreferredExpressions(ir)})
  BY <1>4, <1>6, MergedOnce
<1> QED BY <1>7, <1>8, <1>9

\* Needs with one identity ask for the same things of the same world.
LEMMA SameIdentity ==
  ASSUME NEW p, IsRequest(p), NEW q, IsRequest(q), NEW order, IsOrder(order),
         NEW c, IsCompiled(c, p, order), NEW d, IsCompiled(d, q, order), c.id = d.id
  PROVE  /\ c.world = d.world /\ c.subjects = d.subjects
         /\ c.required \cup c.preferred = d.required \cup d.preferred
<1>1. c.world = d.world /\ p.subject = q.subject
  BY DEF IsCompiled
<1>2. c.subjects = d.subjects
  BY <1>1 DEF IsCompiled
<1>3. /\ c.id.obligations = InOrder(c.required, order) \o InOrder(c.preferred, order)
      /\ d.id.obligations = InOrder(d.required, order) \o InOrder(d.preferred, order)
  BY DEF IsCompiled
<1>4. /\ Lists(InOrder(c.required, order), c.required)
      /\ Lists(InOrder(c.preferred, order), c.preferred)
      /\ Lists(InOrder(d.required, order), d.required)
      /\ Lists(InOrder(d.preferred, order), d.preferred)
  BY CompiledOnce, InOrderLists
<1>5. /\ Lists(c.id.obligations, c.required \cup c.preferred)
      /\ Lists(d.id.obligations, d.required \cup d.preferred)
  <2> HIDE DEF InOrder
  <2>1. Lists(InOrder(c.required, order) \o InOrder(c.preferred, order),
              c.required \cup c.preferred)
    BY <1>4, ConcatLists
  <2>2. Lists(InOrder(d.required, order) \o InOrder(d.preferred, order),
              d.required \cup d.preferred)
    BY <1>4, ConcatLists
  <2> QED BY <1>3, <2>1, <2>2
<1>6. \A s, A, B : Lists(s, A) /\ Lists(s, B) => A = B
  BY DEF Lists
<1>7. c.required \cup c.preferred = d.required \cup d.preferred
  BY <1>5, <1>6
<1> QED BY <1>1, <1>2, <1>7

\* Against one earlier need, a need is a repeat just when it has its identity.
LEMMA RepeatsItsIdentity ==
  ASSUME NEW entry, NEW current
  PROVE  RelationToLedger(<<entry>>, current) = "repeat" <=> entry.need.id = current.id
<1> DEFINE c == Classify(entry.need, current, entry.satisfied)
           relations == {"independent", c}
           r == CHOOSE r \in relations : \A q \in relations : RelationRank(q) <= RelationRank(r)
<1>1. RelationToLedger(<<entry>>, current) = r
  <2>1. DOMAIN <<entry>> = {1} /\ <<entry>>[1] = entry
    OBVIOUS
  <2>2. {"independent"} \cup {Classify(<<entry>>[k].need, current, <<entry>>[k].satisfied)
                                : k \in DOMAIN <<entry>>} = relations
    BY <2>1
  <2> QED BY <2>2 DEF RelationToLedger
<1>2. /\ entry.need.id = current.id => c = "repeat"
      /\ entry.need.id # current.id =>
           c \in {"incompatible", "independent", "residual", "extension", "overlap"}
  BY DEF Classify
<1>3. /\ RelationRank("independent") = 0 /\ RelationRank("incompatible") = 1
      /\ RelationRank("overlap") = 2 /\ RelationRank("extension") = 3
      /\ RelationRank("residual") = 4 /\ RelationRank("repeat") = 5
  BY DEF RelationRank
<1> HIDE DEF c
<1>4. \E x \in relations : \A q \in relations : RelationRank(q) <= RelationRank(x)
  BY <1>2, <1>3
<1>5. r \in relations /\ \A q \in relations : RelationRank(q) <= RelationRank(r)
  BY <1>4
<1> HIDE DEF r
<1>6. CASE entry.need.id = current.id
  BY <1>1, <1>2, <1>3, <1>5, <1>6
<1>7. CASE entry.need.id # current.id
  BY <1>1, <1>2, <1>5, <1>7
<1> QED BY <1>6, <1>7

\* What is decided about a need and the one answered before it.
LedgerDecision(t) ==
  LET first == Compiled(HookIr(t.first), t.order)
      second == Compiled(McpIr(t.second), t.order)
      entry == [need |-> first, satisfied |-> first.required \cap
                  {o \in first.required : o.predicate \in t.satisfied}]
  IN  [first |-> first, second |-> second, satisfied |-> entry.satisfied,
       relation |-> RelationToLedger(<<entry>>, second),
       reused |-> FullySatisfiedEntry(entry, second)]

LEMMA ReuseCovered ==
  ASSUME NEW t, IsRequest(t.first), IsRequest(t.second), IsOrder(t.order)
  PROVE  ReuseIsCovered(LedgerDecision(t), t.first = t.second)
<1> DEFINE first == Compiled(HookIr(t.first), t.order)
           second == Compiled(McpIr(t.second), t.order)
           satisfied == first.required \cap {o \in first.required : o.predicate \in t.satisfied}
           entry == [need |-> first, satisfied |-> satisfied]
           relation == RelationToLedger(<<entry>>, second)
           r == LedgerDecision(t)
<1>1. /\ r.first = first /\ r.second = second /\ r.satisfied = satisfied /\ r.relation = relation
      /\ r.reused = FullySatisfiedEntry(entry, second)
  <2>1. \A f, s, a, l, u :
          LET x == [first |-> f, second |-> s, satisfied |-> a, relation |-> l, reused |-> u] IN
          x.first = f /\ x.second = s /\ x.satisfied = a /\ x.relation = l /\ x.reused = u
    OBVIOUS
  <2>2. entry.satisfied = satisfied
    OBVIOUS
  <2>3. r = [first |-> first, second |-> second, satisfied |-> entry.satisfied,
             relation |-> relation, reused |-> FullySatisfiedEntry(entry, second)]
    BY DEF LedgerDecision
  <2> HIDE DEF first, second, satisfied, entry, relation, r
  <2> QED BY <2>1, <2>2, <2>3, Zenon
<1>2. /\ IsCompiled(first, t.first, t.order) /\ IsCompiled(second, t.second, t.order)
  BY CompiledByEither
<1>3. entry.need = first /\ entry.satisfied = satisfied
  OBVIOUS
<1>4. relation = "repeat" <=> first.id = second.id
  <2> HIDE DEF first, second, satisfied
  <2> QED BY <1>3, RepeatsItsIdentity
<1>5. satisfied \subseteq first.required
  OBVIOUS
<1>6. first.id = second.id =>
        /\ first.world = second.world /\ first.subjects = second.subjects
        /\ first.required \cup first.preferred = second.required \cup second.preferred
  <2> HIDE DEF first, second
  <2> QED BY <1>2, SameIdentity
<1>7. t.first = t.second => first.id = second.id
  <2> SUFFICES ASSUME t.first = t.second PROVE first.id = second.id
    OBVIOUS
  <2>1. first.world = second.world
    BY CompiledByEither
  <2> HIDE DEF first, second
  <2>2. first.required = second.required /\ first.preferred = second.preferred
    BY <1>2 DEF IsCompiled
  <2> QED BY <1>2, <2>1, <2>2 DEF IsCompiled
<1> HIDE DEF first, second, satisfied, relation, r
<1>8. \A o : Satisfies(o, o)
  BY DEF Satisfies
<1>9. ASSUME FullySatisfiedEntry(entry, second)
      PROVE  /\ first.world = second.world /\ first.subjects = second.subjects
             /\ \A o \in second.required :
                  \/ \E p \in satisfied : Satisfies(p, o)
                  \/ first.id = second.id /\ o \in first.preferred
  <2>1. /\ first.required \subseteq satisfied
        /\ \/ first.id = second.id
           \/ /\ first.world = second.world /\ first.subjects = second.subjects
              /\ second.required \subseteq satisfied
    BY <1>3, <1>9 DEF FullySatisfiedEntry
  <2>2. first.id = second.id => \A o \in second.required : o \in satisfied \/ o \in first.preferred
    BY <1>6, <2>1
  <2>3. first.world = second.world /\ first.subjects = second.subjects
    BY <1>6, <2>1
  <2> QED BY <1>8, <2>1, <2>2, <2>3
<1> HIDE DEF entry
<1>10. ReuseIsCovered(r, t.first = t.second)
  <2>1. r.reused => /\ r.first.world = r.second.world /\ r.first.subjects = r.second.subjects
                    /\ \A o \in r.second.required :
                         \/ \E p \in r.satisfied : Satisfies(p, o)
                         \/ r.first.id = r.second.id /\ o \in r.first.preferred
    BY <1>1, <1>9, Zenon
  <2>2. r.relation = "repeat" => r.first.required \cup r.first.preferred
                                   = r.second.required \cup r.second.preferred
    BY <1>1, <1>4, <1>6
  <2>3. t.first = t.second => r.relation = "repeat"
    BY <1>1, <1>4, <1>7
  <2> QED BY <2>1, <2>2, <2>3, Zenon DEF ReuseIsCovered
<1> QED BY <1>10 DEF r

\* What is decided about an artifact in two trees.
ManifestDecision(t) ==
  LET valid == Validates(t.fragment, t.artifact, t.before, t.trace, t.closing)
  IN  [valid |-> valid,
       files |-> IF valid THEN Manifest(t.artifact, t.before, t.trace, t.closing).files
                 ELSE t.before,
       again |-> Validates(t.fragment, t.artifact, t.after, t.trace, t.closing)]

LEMMA ValidatesAgain ==
  ASSUME NEW t, t.closing \in BOOLEAN, t.artifact.kind \in ArtifactKinds,
         ManifestDecision(t).valid, DependenciesFresh(ManifestDecision(t).files, t.after)
  PROVE  ManifestDecision(t).again
<1> DEFINE r == ManifestDecision(t)
           valid == Validates(t.fragment, t.artifact, t.before, t.trace, t.closing)
           files == Manifest(t.artifact, t.before, t.trace, t.closing).files
           again == Validates(t.fragment, t.artifact, t.after, t.trace, t.closing)
<1>1. r.valid = valid /\ r.files = (IF valid THEN files ELSE t.before) /\ r.again = again
  <2>1. \A v, f, a : LET x == [valid |-> v, files |-> f, again |-> a] IN
                     x.valid = v /\ x.files = f /\ x.again = a
    OBVIOUS
  <2>2. r = [valid |-> valid, files |-> IF valid THEN files ELSE t.before, again |-> again]
    BY DEF ManifestDecision
  <2> HIDE DEF r, valid, files, again
  <2> QED BY <2>1, <2>2, Zenon
<1>2. valid
  BY <1>1
<1>3. DependenciesFresh(files, t.after)
  <2> HIDE DEF valid, files
  <2> QED BY <1>1, <1>2
<1>4. \E o \in t.fragment.obligations : Satisfies(Derived(t.artifact, t.fragment.subject), o)
  BY <1>2 DEF Validates
<1>5. again
  BY <1>2, <1>3, <1>4, ManifestSuffices
<1> HIDE DEF again, r
<1>6. r.again
  BY <1>1, <1>5, Zenon
<1> QED BY <1>6 DEF r

-----------------------------------------------------------------------------
(* Claim proofs: the flow *)

IsIteration(h, N, start, next) ==
  \A k \in 1 .. N : h[k] = IF k = 1 THEN start ELSE next[h[k - 1]]

\* A step can be taken over and over.
LEMMA IterationExists ==
  ASSUME NEW N \in Nat, NEW S, NEW start \in S, NEW next \in [S -> S]
  PROVE  \E h \in [1 .. N -> S] : IsIteration(h, N, start, next)
<1> DEFINE P(n) == \E h \in [1 .. n -> S] : IsIteration(h, n, start, next)
           M == {n \in Nat : P(n)}
<1>1. 0 \in M
  <2> DEFINE h == [k \in 1 .. 0 |-> start]
  <2>1. h \in [1 .. 0 -> S] /\ IsIteration(h, 0, start, next)
    BY DEF IsIteration
  <2> HIDE DEF h
  <2> QED BY <2>1
<1>2. ASSUME NEW n \in 0 .. (N - 1), n \in M PROVE n + 1 \in M
  <2>1. PICK h \in [1 .. n -> S] : IsIteration(h, n, start, next)
    BY <1>2
  <2> DEFINE new == IF n = 0 THEN start ELSE next[h[n]]
             g == [k \in 1 .. (n + 1) |-> IF k = n + 1 THEN new ELSE h[k]]
  <2>2. new \in S
    <3>1. n # 0 => n \in 1 .. n
      OBVIOUS
    <3> QED BY <3>1
  <2>3. /\ \A k \in 1 .. (n + 1) : k = n + 1 \/ k \in 1 .. n
        /\ \A k \in 1 .. n : k \in 1 .. (n + 1) /\ k # n + 1
        /\ n + 1 \in 1 .. (n + 1)
    OBVIOUS
  <2> HIDE DEF new
  <2>4. g \in [1 .. (n + 1) -> S]
    BY <2>2, <2>3
  <2>5. g[n + 1] = new /\ \A k \in 1 .. n : g[k] = h[k]
    BY <2>3
  <2> HIDE DEF g
  <2>6. ASSUME NEW k \in 1 .. (n + 1)
        PROVE  g[k] = IF k = 1 THEN start ELSE next[g[k - 1]]
    <3>1. CASE k \in 1 .. n
      <4>1. k # 1 => k - 1 \in 1 .. n
        BY <3>1
      <4>2. h[k] = IF k = 1 THEN start ELSE next[h[k - 1]]
        BY <2>1, <3>1 DEF IsIteration
      <4> QED BY <2>5, <3>1, <4>1, <4>2
    <3>2. CASE k = n + 1
      <4>1. CASE n = 0
        BY <2>5, <3>2, <4>1 DEF new
      <4>2. CASE n # 0
        <5>1. n \in 1 .. n /\ k - 1 = n /\ k # 1
          BY <3>2, <4>2
        <5>2. g[k] = next[h[n]] /\ g[n] = h[n]
          BY <2>5, <3>2, <4>2, <5>1 DEF new
        <5> QED BY <5>1, <5>2
      <4> QED BY <4>1, <4>2
    <3> QED BY <2>3, <3>1, <3>2
  <2>7. IsIteration(g, n + 1, start, next)
    BY <2>6 DEF IsIteration
  <2>8. n + 1 \in Nat
    OBVIOUS
  <2> QED BY <2>4, <2>7, <2>8
<1>3. N \in 0 .. N
  OBVIOUS
<1> HIDE DEF M
<1>4. N \in M
  BY <1>1, <1>2, <1>3, CountsUp
<1> QED BY <1>4 DEF M

\* The edges between some claims.
EdgesOf(claims, relations) == {r \in relations : {r[1], r[2]} \subseteq claims}

EdgesFrom(edges, c) == {e \in edges : e[1] = c}

EdgesTo(edges, c) == {e \in edges : e[2] = c}

\* A path through all the claims.
IsPath(w, claims, relations) ==
  /\ w \in [1 .. Cardinality(claims) -> claims]
  /\ IsInjective(w)
  /\ \A c \in claims : \E k \in 1 .. Cardinality(claims) : w[k] = c
  /\ \A k \in 1 .. Cardinality(claims) - 1 : <<w[k], w[k + 1]>> \in relations

\* Connected claims are on a path.
LEMMA ConnectedIsAPath ==
  ASSUME NEW claims, NEW relations, IsFiniteSet(claims), claims # {},
         \A r \in relations : r = <<r[1], r[2]>>, Connected(claims, relations)
  PROVE  /\ Cardinality(EdgesOf(claims, relations)) + 1 = Cardinality(claims)
         /\ \E w : IsPath(w, claims, relations)
<1> DEFINE edges == EdgesOf(claims, relations)
           N == Cardinality(claims)
           start == CHOOSE c \in claims : Cardinality(EdgesTo(edges, c)) = 0
           Stops(c) == Cardinality(EdgesFrom(edges, c)) = 0
           Edge(c) == CHOOSE e \in edges : e[1] = c
           walk == CHOOSE walk : walk = [k \in 1 .. N |->
                     IF k = 1 THEN start
                     ELSE IF Stops(walk[k - 1]) THEN walk[k - 1] ELSE Edge(walk[k - 1])[2]]
<1>1. /\ Cardinality(edges) + 1 = N
      /\ Cardinality({c \in claims : Cardinality(EdgesTo(edges, c)) = 0}) = 1
      /\ Range(walk) = claims
  BY DEF Connected, EdgesOf, EdgesFrom, EdgesTo
<1>2. N \in Nat /\ N # 0
  BY FS_CardinalityType, FS_EmptySet
<1>3. start \in claims
  <2> DEFINE starts == {c \in claims : Cardinality(EdgesTo(edges, c)) = 0}
  <2>0. Cardinality(starts) = 1
    BY <1>1
  <2>1. starts # {}
    <3> HIDE DEF starts
    <3>1. Cardinality({}) = 0
      BY FS_EmptySet
    <3> QED BY <2>0, <3>1
  <2>2. \E c \in claims : Cardinality(EdgesTo(edges, c)) = 0
    BY <2>1
  <2> HIDE DEF edges
  <2> QED BY <2>2
<1>4. ASSUME NEW c \in claims, ~Stops(c)
      PROVE  /\ Edge(c)[2] \in claims /\ <<c, Edge(c)[2]>> \in relations
  <2>1. EdgesFrom(edges, c) # {}
    <3>1. Cardinality({}) = 0
      BY FS_EmptySet
    <3> HIDE DEF edges
    <3> QED BY <1>4, <3>1
  <2>2. \E e \in edges : e[1] = c
    BY <2>1 DEF EdgesFrom
  <2>3. Edge(c) \in edges /\ Edge(c)[1] = c
    <3> HIDE DEF edges
    <3> QED BY <2>2
  <2> HIDE DEF Edge
  <2>4. Edge(c) \in relations /\ Edge(c)[2] \in claims
    BY <2>3 DEF EdgesOf
  <2> QED BY <2>3, <2>4
<1> DEFINE next == [c \in claims |-> IF Stops(c) THEN c ELSE Edge(c)[2]]
<1>5. next \in [claims -> claims]
  <2> HIDE DEF Stops, Edge, edges
  <2> QED BY <1>4
<1>6. \A c \in claims : next[c] = IF Stops(c) THEN c ELSE Edge(c)[2]
  <2> HIDE DEF Stops, Edge, edges
  <2> QED OBVIOUS
<1>7. PICK h \in [1 .. N -> claims] : IsIteration(h, N, start, next)
  <2> HIDE DEF next, start, N
  <2> QED BY <1>2, <1>3, <1>5, IterationExists
<1>8. h = [k \in 1 .. N |-> IF k = 1 THEN start
                            ELSE IF Stops(h[k - 1]) THEN h[k - 1] ELSE Edge(h[k - 1])[2]]
  <2> HIDE DEF next, start, N, Stops, Edge, edges
  <2>1. ASSUME NEW k \in 1 .. N
        PROVE  h[k] = IF k = 1 THEN start
                      ELSE IF Stops(h[k - 1]) THEN h[k - 1] ELSE Edge(h[k - 1])[2]
    <3>1. h[k] = IF k = 1 THEN start ELSE next[h[k - 1]]
      BY <1>7 DEF IsIteration
    <3>2. k # 1 => k - 1 \in 1 .. N
      BY <1>2
    <3>3. k # 1 => h[k - 1] \in claims
      BY <3>2
    <3> QED BY <1>6, <3>1, <3>3
  <2> QED BY <2>1
<1>9. walk = [k \in 1 .. N |-> IF k = 1 THEN start
                               ELSE IF Stops(walk[k - 1]) THEN walk[k - 1] ELSE Edge(walk[k - 1])[2]]
  <2> HIDE DEF start, N, Stops, Edge, edges
  <2> QED BY <1>8
<1> HIDE DEF start, N, Stops, Edge, edges, walk, next
<1>10. DOMAIN walk = 1 .. N
  BY <1>9
<1>11. \A c \in claims : \E k \in 1 .. N : walk[k] = c
  BY <1>1, <1>10 DEF Range
<1>12. walk \in [1 .. N -> claims]
  <2>1. walk = [k \in 1 .. N |-> walk[k]]
    BY <1>9
  <2>2. \A k \in 1 .. N : walk[k] \in claims
    BY <1>1, <1>10 DEF Range
  <2> QED BY <2>1, <2>2
<1>13. IsInjective(walk)
  <2>1. walk \in Surjection(1 .. N, claims)
    BY <1>11, <1>12 DEF Surjection
  <2>2. IsFiniteSet(1 .. N) /\ Cardinality(1 .. N) = N
    BY <1>2, FS_Interval
  <2>3. Cardinality(claims) = Cardinality(1 .. N)
    BY <2>2 DEF N
  <2>4. walk \in Injection(1 .. N, claims)
    BY <2>1, <2>2, <2>3, FS_Surjection
  <2> QED BY <2>4 DEF Injection
<1>14. ASSUME NEW k \in 1 .. (N - 1) PROVE <<walk[k], walk[k + 1]>> \in relations
  <2>1. k \in 1 .. N /\ k + 1 \in 1 .. N /\ (k + 1) - 1 = k /\ k + 1 # 1 /\ k + 1 # k
    BY <1>2
  <2>2. walk[k + 1] = IF Stops(walk[k]) THEN walk[k] ELSE Edge(walk[k])[2]
    BY <1>9, <2>1
  <2>3. walk[k + 1] # walk[k]
    BY <1>10, <1>13, <2>1 DEF IsInjective
  <2>4. ~Stops(walk[k]) /\ walk[k + 1] = Edge(walk[k])[2]
    BY <2>2, <2>3
  <2>5. walk[k] \in claims
    BY <1>12, <2>1
  <2> QED BY <1>4, <2>4, <2>5
<1>15. IsPath(walk, claims, relations)
  BY <1>11, <1>12, <1>13, <1>14 DEF IsPath, N
<1> QED BY <1>1, <1>15 DEF N, edges

\* The claim of one step of a trace.
FlowClaim(anchor, k) == [kind |-> "flow", anchor |-> anchor, step |-> anchor[k]]

\* Claims of the steps of one trace, and relations between consecutive ones.
OnTrace(claims, anchor) ==
  /\ anchor \in Seq(Range(anchor)) /\ IsInjective(anchor)
  /\ \A c \in claims : \E k \in DOMAIN anchor : c = FlowClaim(anchor, k)

JoinSteps(relations, claims) ==
  \A r \in relations : r[1] \in claims =>
    \E k \in 1 .. Len(r[1].anchor) - 1 :
      r = <<FlowClaim(r[1].anchor, k), FlowClaim(r[1].anchor, k + 1)>>

Stretch(anchor, first, last) == {anchor[k] : k \in first .. last}

StepsOf(claims) == {c.step : c \in claims}

\* A path through the claims of a trace is an unbroken stretch of the trace.
LEMMA PathIsAStretch ==
  ASSUME NEW claims, NEW relations, IsFiniteSet(claims), claims # {}, NEW anchor,
         OnTrace(claims, anchor), JoinSteps(relations, claims), NEW w, IsPath(w, claims, relations)
  PROVE  \E first, last \in DOMAIN anchor : StepsOf(claims) = Stretch(anchor, first, last)
<1> DEFINE N == Cardinality(claims)
           L == Len(anchor)
<1>1. N \in Nat /\ N # 0 /\ N - 1 \in Nat
  <2>1. N \in Nat /\ N # 0
    BY FS_CardinalityType, FS_EmptySet
  <2> QED BY <2>1
<1>2. /\ w \in [1 .. N -> claims]
      /\ \A c \in claims : \E k \in 1 .. N : w[k] = c
      /\ \A k \in 1 .. (N - 1) : <<w[k], w[k + 1]>> \in relations
  BY DEF IsPath
<1>3. /\ L \in Nat /\ DOMAIN anchor = 1 .. L
      /\ \A i, k \in 1 .. L : anchor[i] = anchor[k] => i = k
      /\ \A c \in claims : \E k \in 1 .. L : c = FlowClaim(anchor, k)
  BY DEF OnTrace, IsInjective
<1>4. \A k : FlowClaim(anchor, k).step = anchor[k] /\ FlowClaim(anchor, k).anchor = anchor
  BY DEF FlowClaim
<1> HIDE DEF N, L
<1>5. PICK first \in 1 .. L : w[1] = FlowClaim(anchor, first)
  <2>1. 1 \in 1 .. N
    BY <1>1
  <2>2. w[1] \in claims
    BY <1>2, <2>1
  <2> QED BY <1>3, <2>2
<1> DEFINE At(j) == first + j \in 1 .. L /\ w[j + 1] = FlowClaim(anchor, first + j)
           S == {n \in 0 .. (N - 1) : \A j \in 0 .. n : At(j)}
<1>6. 0 \in S
  <2>1. \A j \in 0 .. 0 : j = 0
    OBVIOUS
  <2>2. first + 0 = first /\ 0 + 1 = 1 /\ 0 \in 0 .. (N - 1)
    BY <1>1
  <2> QED BY <1>5, <2>1, <2>2
<1>7. ASSUME NEW n \in 0 .. ((N - 1) - 1), n \in S PROVE n + 1 \in S
  <2>1. /\ n + 1 \in 0 .. (N - 1) /\ n \in 0 .. n /\ n + 1 \in 1 .. (N - 1) /\ n \in Nat
        /\ n + 1 \in 1 .. N /\ (n + 1) + 1 \in 1 .. N
    BY <1>1
  <2>2. At(n)
    BY <1>7, <2>1
  <2> DEFINE r == <<w[n + 1], w[(n + 1) + 1]>>
  <2>3. r \in relations /\ r[1] = w[n + 1] /\ r[2] = w[(n + 1) + 1] /\ r[1] \in claims
    BY <1>2, <2>1
  <2> HIDE DEF r
  <2>4. PICK k \in 1 .. Len(r[1].anchor) - 1 :
          r = <<FlowClaim(r[1].anchor, k), FlowClaim(r[1].anchor, k + 1)>>
    BY <2>3 DEF JoinSteps
  <2>5. r[1].anchor = anchor
    BY <1>4, <2>2, <2>3
  <2>6. k \in 1 .. (L - 1) /\ r[1] = FlowClaim(anchor, k) /\ r[2] = FlowClaim(anchor, k + 1)
    BY <2>4, <2>5 DEF L
  <2>7. k \in 1 .. L /\ k + 1 \in 1 .. L
    BY <1>3, <2>6
  <2>8. anchor[first + n] = anchor[k]
    BY <1>4, <2>2, <2>3, <2>6
  <2>9. first + n = k
    BY <1>3, <2>2, <2>7, <2>8
  <2>10. first + (n + 1) = k + 1
    BY <2>1, <2>9
  <2>11. At(n + 1)
    BY <2>3, <2>6, <2>7, <2>10
  <2>12. \A j \in 0 .. (n + 1) : j = n + 1 \/ j \in 0 .. n
    BY <2>1
  <2> HIDE DEF At
  <2> QED BY <1>7, <2>1, <2>11, <2>12
<1> HIDE DEF S
<1>8. N - 1 \in S
  BY <1>1, <1>6, <1>7, CountsUp
<1>9. \A j \in 0 .. (N - 1) : At(j)
  BY <1>8 DEF S
<1> DEFINE last == first + (N - 1)
<1>10. last \in 1 .. L
  BY <1>1, <1>9
<1>11. ASSUME NEW c \in claims PROVE c.step \in Stretch(anchor, first, last)
  <2>1. PICK k \in 1 .. N : w[k] = c
    BY <1>2
  <2>2. k - 1 \in 0 .. (N - 1) /\ (k - 1) + 1 = k /\ first + (k - 1) \in first .. last
    BY <1>1
  <2>3. c = FlowClaim(anchor, first + (k - 1))
    BY <1>9, <2>1, <2>2
  <2> HIDE DEF last
  <2> QED BY <1>4, <2>2, <2>3 DEF Stretch
<1>12. ASSUME NEW k \in first .. last PROVE anchor[k] \in StepsOf(claims)
  <2>1. k - first \in 0 .. (N - 1) /\ first + (k - first) = k /\ (k - first) + 1 \in 1 .. N
    BY <1>1
  <2>2. w[(k - first) + 1] = FlowClaim(anchor, k)
    BY <1>9, <2>1
  <2>3. FlowClaim(anchor, k) \in claims
    BY <1>2, <2>1, <2>2
  <2> QED BY <1>4, <2>3 DEF StepsOf
<1> HIDE DEF last
<1>13. StepsOf(claims) = Stretch(anchor, first, last)
  <2>1. \A s \in StepsOf(claims) : s \in Stretch(anchor, first, last)
    BY <1>11 DEF StepsOf
  <2>2. \A s \in Stretch(anchor, first, last) : s \in StepsOf(claims)
    BY <1>12 DEF Stretch
  <2> QED BY <2>1, <2>2
<1> QED BY <1>3, <1>10, <1>13

-----------------------------------------------------------------------------
(* Claim proofs: where claims come from *)

\* A claim is one of those of its origin, which has none twice.
Extracted(c) ==
  /\ c.origin.kind \in ArtifactKinds
  /\ c.claim \in Range(ClaimPayloads(c.origin)) /\ IsInjective(ClaimPayloads(c.origin))
  /\ c.origin.kind = "behavior_trace" => c.origin.steps \in Seq(Range(c.origin.steps))

TraceOf(steps) == [kind |-> "behavior_trace", steps |-> steps]

MaterialShaped(material) ==
  /\ IsFiniteSet(material.certificates)
  /\ \A c \in material.certificates : Extracted(c)
  /\ \A r \in material.relations : r \in Precedes(TraceOf(r[1].anchor))

\* A step of a flow is a step of the trace it names.
LEMMA FlowClaims ==
  ASSUME NEW c, Extracted(c), c.claim.kind = "flow"
  PROVE  OnTrace({c.claim}, c.claim.anchor)
<1> DEFINE a == c.origin
<1>1. CASE a.kind = "code_location"
  <2>1. ClaimPayloads(a) = [k \in DOMAIN a.locations |->
                              [kind |-> "location", location |-> a.locations[k]]]
    BY <1>1 DEF ClaimPayloads
  <2>2. c.claim.kind = "location"
    BY <2>1 DEF Extracted, Range
  <2> QED BY <2>2
<1>2. CASE a.kind = "test_plan"
  <2>1. ClaimPayloads(a) = <<[kind |-> "tests", plan |-> a]>>
    BY <1>2 DEF ClaimPayloads
  <2>2. c.claim.kind = "tests"
    BY <2>1 DEF Extracted, Range
  <2> QED BY <2>2
<1>3. CASE a.kind = "behavior_trace"
  <2> DEFINE steps == a.steps
  <2>1. ClaimPayloads(a) = [k \in DOMAIN steps |-> FlowClaim(steps, k)]
    BY <1>3 DEF ClaimPayloads, FlowClaim
  <2>2. steps \in Seq(Range(steps))
    BY <1>3 DEF Extracted
  <2> HIDE DEF steps
  <2>3. PICK k \in DOMAIN steps : c.claim = FlowClaim(steps, k)
    BY <2>1 DEF Extracted, Range
  <2>4. c.claim.anchor = steps
    BY <2>3 DEF FlowClaim
  <2>5. IsInjective(steps)
    <3>1. \A i, j \in DOMAIN steps : FlowClaim(steps, i) = FlowClaim(steps, j) => i = j
      BY <2>1 DEF Extracted, IsInjective
    <3>2. \A i, j \in DOMAIN steps : steps[i] = steps[j] => FlowClaim(steps, i) = FlowClaim(steps, j)
      BY DEF FlowClaim
    <3> QED BY <3>1, <3>2 DEF IsInjective
  <2> QED BY <2>2, <2>3, <2>4, <2>5 DEF OnTrace
<1> QED BY <1>1, <1>2, <1>3 DEF Extracted, ArtifactKinds

\* The relations of a trace.
LEMMA RelationsJoin ==
  ASSUME NEW steps, NEW r \in Precedes(TraceOf(steps))
  PROVE  /\ r = <<r[1], r[2]>>
         /\ steps \in Seq(Range(steps)) =>
              \E k \in 1 .. Len(steps) - 1 : r = <<FlowClaim(steps, k), FlowClaim(steps, k + 1)>>
<1> DEFINE claims == ClaimPayloads(TraceOf(steps))
<1>1. TraceOf(steps).kind = "behavior_trace" /\ TraceOf(steps).steps = steps
  BY DEF TraceOf
<1>2. claims = [k \in DOMAIN steps |-> FlowClaim(steps, k)]
  BY <1>1 DEF ClaimPayloads, FlowClaim
<1>3. PICK k \in 1 .. Len(claims) - 1 : r = <<claims[k], claims[k + 1]>>
  BY <1>1 DEF Precedes
<1> HIDE DEF claims
<1>4. r = <<r[1], r[2]>>
  BY <1>3
<1>5. ASSUME steps \in Seq(Range(steps))
      PROVE  \E j \in 1 .. Len(steps) - 1 : r = <<FlowClaim(steps, j), FlowClaim(steps, j + 1)>>
  <2>1. Len(steps) \in Nat /\ DOMAIN steps = 1 .. Len(steps)
    BY <1>5
  <2>2. Len(claims) = Len(steps)
    BY <1>2, <2>1
  <2>3. k \in 1 .. Len(steps) - 1 /\ k \in DOMAIN steps /\ k + 1 \in DOMAIN steps
    BY <1>3, <2>1, <2>2
  <2>4. claims[k] = FlowClaim(steps, k) /\ claims[k + 1] = FlowClaim(steps, k + 1)
    BY <1>2, <2>3
  <2> QED BY <1>3, <2>3, <2>4
<1> QED BY <1>4, <1>5

\* Some certificates with one certificate a claim.
LEMMA OneCertificateAClaim ==
  ASSUME NEW proof, IsFiniteSet(proof)
  PROVE  /\ IsFiniteSet(ClaimsIn(proof))
         /\ Cardinality(ClaimsIn(proof)) = Cardinality(proof)
              <=> \A c, d \in proof : c.claim = d.claim => c = d
<1> DEFINE g == [c \in proof |-> c.claim]
<1>1. g \in Surjection(proof, ClaimsIn(proof))
  <2>1. g \in [proof -> ClaimsIn(proof)]
    BY DEF ClaimsIn
  <2>2. \A x \in ClaimsIn(proof) : \E c \in proof : g[c] = x
    BY DEF ClaimsIn
  <2> QED BY <2>1, <2>2 DEF Surjection
<1>2. g \in Injection(proof, ClaimsIn(proof)) <=> \A c, d \in proof : c.claim = d.claim => c = d
  BY <1>1 DEF Injection, IsInjective, Surjection
<1> HIDE DEF g
<1>3. /\ IsFiniteSet(ClaimsIn(proof))
      /\ Cardinality(ClaimsIn(proof)) = Cardinality(proof)
           <=> g \in Injection(proof, ClaimsIn(proof))
  BY <1>1, FS_Surjection
<1> QED BY <1>2, <1>3

-----------------------------------------------------------------------------
(* Claim proofs: what they promise *)

\* The claims of a flow: of one trace, on a path, an unbroken stretch of the
\* trace.
FlowHolds(claims, relations) ==
  /\ claims # {}
  /\ Cardinality(EdgesOf(claims, relations)) + 1 = Cardinality(claims)
  /\ \E w : IsPath(w, claims, relations)
  /\ \E anchor : /\ \A c \in claims : c.anchor = anchor
                 /\ \E first, last \in DOMAIN anchor :
                      /\ StepsOf(claims) = Stretch(anchor, first, last)
                      /\ FlowRoles \subseteq {s.role : s \in StepsOf(claims)}

LEMMA FlowProofsHold ==
  ASSUME NEW material, MaterialShaped(material), NEW o, NEW tree,
         NEW proof \in FlowProofs(material, o, tree), \A c \in proof : c.claim.kind = "flow"
  PROVE  /\ proof \subseteq Satisfying(material, o, tree)
         /\ \A c, d \in proof : c.claim = d.claim => c = d
         /\ FlowHolds(ClaimsIn(proof), material.relations)
<1> DEFINE fresh == Satisfying(material, o, tree)
           claims == ClaimsIn(proof)
           relations == material.relations
<1>1. PICK anchor \in {c.claim.anchor : c \in fresh} :
        /\ proof \subseteq {c \in fresh : c.claim.anchor = anchor}
        /\ Cardinality(proof) = Cardinality(claims)
        /\ FlowRoles \subseteq {c.claim.step.role : c \in proof}
        /\ Connected(claims, relations)
  BY DEF FlowProofs
<1>2. proof \subseteq fresh /\ fresh \subseteq material.certificates
  BY <1>1 DEF Satisfying
<1>3. IsFiniteSet(proof)
  BY <1>2, FS_Subset DEF MaterialShaped
<1>4. IsFiniteSet(claims) /\ \A c, d \in proof : c.claim = d.claim => c = d
  BY <1>1, <1>3, OneCertificateAClaim
<1>5. claims # {}
  <2>1. "producer" \in FlowRoles
    BY DEF FlowRoles
  <2> QED BY <1>1, <2>1 DEF ClaimsIn
<1>6. \A c \in claims : c.anchor = anchor /\ OnTrace({c}, anchor)
  <2> SUFFICES ASSUME NEW c \in proof
               PROVE  c.claim.anchor = anchor /\ OnTrace({c.claim}, anchor)
    BY DEF ClaimsIn
  <2>1. Extracted(c) /\ c.claim.kind = "flow" /\ c.claim.anchor = anchor
    BY <1>1, <1>2 DEF MaterialShaped
  <2> QED BY <2>1, FlowClaims
<1>7. OnTrace(claims, anchor)
  BY <1>5, <1>6 DEF OnTrace
<1>8. \A r \in relations : r = <<r[1], r[2]>>
  BY RelationsJoin DEF MaterialShaped
<1> HIDE DEF claims, relations, fresh
<1>9. JoinSteps(relations, claims)
  <2> SUFFICES ASSUME NEW r \in relations, r[1] \in claims
               PROVE  \E k \in 1 .. Len(r[1].anchor) - 1 :
                        r = <<FlowClaim(r[1].anchor, k), FlowClaim(r[1].anchor, k + 1)>>
    BY DEF JoinSteps
  <2>1. r[1].anchor = anchor /\ anchor \in Seq(Range(anchor))
    BY <1>6, <1>7 DEF OnTrace
  <2>2. r \in Precedes(TraceOf(anchor))
    BY <2>1 DEF MaterialShaped, relations
  <2> QED BY <2>1, <2>2, RelationsJoin
<1>10. /\ Cardinality(EdgesOf(claims, relations)) + 1 = Cardinality(claims)
       /\ \E w : IsPath(w, claims, relations)
  BY <1>1, <1>4, <1>5, <1>8, ConnectedIsAPath
<1>11. PICK w : IsPath(w, claims, relations)
  BY <1>10
<1>12. PICK first, last \in DOMAIN anchor : StepsOf(claims) = Stretch(anchor, first, last)
  BY <1>4, <1>5, <1>7, <1>9, <1>11, PathIsAStretch
<1>13. FlowRoles \subseteq {s.role : s \in StepsOf(claims)}
  <2>1. \A c \in proof : c.claim \in claims /\ c.claim.step \in StepsOf(claims)
    BY DEF claims, ClaimsIn, StepsOf
  <2> QED BY <1>1, <2>1
<1>14. FlowHolds(claims, relations)
  BY <1>5, <1>6, <1>10, <1>12, <1>13 DEF FlowHolds
<1> QED BY <1>2, <1>4, <1>14 DEF claims, relations, fresh

\* One obligation a predicate, as needs are compiled.
OneAPredicate(obligations) == \A o, p \in obligations : o.predicate = p.predicate => o = p

\* f has a proof of each of the obligations.
ProofParts(f, obligations, material, tree) ==
  /\ DOMAIN f = obligations
  /\ \A o \in obligations : f[o] \in ProofsOf(material, o, tree)

\* A part has only claims of its predicate, and not one twice; a location is
\* primary, a test is alone, and a flow holds.
PartHolds(part, o, material, tree) ==
  /\ part \subseteq Satisfying(material, o, tree)
  /\ \A c \in part : c.claim.kind = o.predicate
  /\ \A c, d \in part : c.claim = d.claim => c = d
  /\ o.predicate # "flow" =>
       \E c : part = {c} /\ (c.claim.kind = "location" => c.claim.location.role = "primary")
  /\ o.predicate = "flow" => FlowHolds(ClaimsIn(part), material.relations)

LEMMA PartsHold ==
  ASSUME NEW need, NEW material, MaterialShaped(material), MaterialUsable(need, material),
         NEW o, NEW tree, NEW part \in ProofsOf(material, o, tree)
  PROVE  PartHolds(part, o, material, tree)
<1>1. ASSUME NEW c \in Satisfying(material, o, tree) PROVE c.claim.kind = o.predicate
  <2>1. PICK p \in c.obligations : Satisfies(p, o)
    BY DEF Satisfying
  <2>2. c \in material.certificates /\ p.predicate = o.predicate
    BY <2>1 DEF Satisfying, Satisfies
  <2> QED BY <2>1, <2>2 DEF MaterialUsable
<1>2. CASE o.predicate = "flow"
  <2>1. part \in FlowProofs(material, o, tree)
    BY <1>2 DEF ProofsOf
  <2>2. part \subseteq Satisfying(material, o, tree)
    BY <2>1 DEF FlowProofs
  <2>3. \A c \in part : c.claim.kind = "flow"
    BY <1>1, <1>2, <2>2
  <2> QED BY <1>1, <1>2, <2>1, <2>2, <2>3, FlowProofsHold DEF PartHolds
<1>3. CASE o.predicate # "flow"
  <2>1. PICK c \in Satisfying(material, o, tree) :
          /\ part = {c}
          /\ c.claim.kind = "location" => c.claim.location.role = "primary"
    BY <1>3 DEF ProofsOf, SingleProofs
  <2> QED BY <1>1, <1>3, <2>1 DEF PartHolds
<1> QED BY <1>2, <1>3

\* The parts of a claim proof.
LEMMA ProofHasParts ==
  ASSUME NEW need, NEW obligations, NEW material, NEW tree,
         NEW proof \in ClaimProofsFor(need, obligations, material, tree)
  PROVE  /\ MaterialUsable(need, material) /\ obligations # {}
         /\ Cardinality(proof) <= MaxSelectedClaims
         /\ \E f : ProofParts(f, obligations, material, tree) /\ proof = UNION Range(f)
<1>1. MaterialUsable(need, material) /\ obligations # {}
  BY DEF ClaimProofsFor
<1>2. PICK f \in [obligations -> UNION {ProofsOf(material, o, tree) : o \in obligations}] :
        /\ \A o \in obligations : f[o] \in ProofsOf(material, o, tree)
        /\ Cardinality(UNION Range(f)) <= MaxSelectedClaims
        /\ proof = UNION Range(f)
  BY <1>1 DEF ClaimProofsFor
<1> QED BY <1>1, <1>2 DEF ProofParts

\* What a claim proof is made of.
ProofShaped(proof, f, obligations, material, tree) ==
  /\ \A c \in proof : \E o \in obligations : c \in f[o]
  /\ \A o \in obligations : f[o] \subseteq proof /\ PartHolds(f[o], o, material, tree)

\* A claim is in the part of its predicate only.
LEMMA InItsPart ==
  ASSUME NEW proof, NEW f, NEW obligations, NEW material, NEW tree,
         ProofShaped(proof, f, obligations, material, tree), OneAPredicate(obligations),
         NEW c \in proof, NEW o \in obligations, c.claim.kind = o.predicate
  PROVE  c \in f[o]
<1>1. PICK p \in obligations : c \in f[p]
  BY DEF ProofShaped
<1>2. c.claim.kind = p.predicate
  BY <1>1 DEF ProofShaped, PartHolds
<1> QED BY <1>1, <1>2 DEF OneAPredicate

\* A claim has an obligation of its kind.
LEMMA HasAPart ==
  ASSUME NEW proof, NEW f, NEW obligations, NEW material, NEW tree,
         ProofShaped(proof, f, obligations, material, tree), NEW c \in proof
  PROVE  \E o \in obligations : c \in f[o] /\ c.claim.kind = o.predicate
BY DEF ProofShaped, PartHolds

\* The flow of a proof is that of the part of the flow.
LEMMA FlowOfProof ==
  ASSUME NEW proof, NEW f, NEW obligations, NEW material, NEW tree,
         ProofShaped(proof, f, obligations, material, tree), OneAPredicate(obligations),
         FlowOf(proof) # {}
  PROVE  FlowHolds(FlowOf(proof), material.relations)
<1>1. PICK c \in proof : c.claim.kind = "flow"
  BY DEF FlowOf
<1>2. PICK o \in obligations : c \in f[o] /\ c.claim.kind = o.predicate
  BY HasAPart
<1>3. o.predicate = "flow"
  BY <1>1, <1>2
<1>4. f[o] \subseteq proof /\ PartHolds(f[o], o, material, tree)
  BY DEF ProofShaped
<1>5. \A d \in proof : d.claim.kind = "flow" <=> d \in f[o]
  <2>1. \A d \in proof : d.claim.kind = "flow" => d \in f[o]
    BY <1>3, InItsPart
  <2>2. \A d \in f[o] : d.claim.kind = "flow"
    BY <1>3, <1>4 DEF PartHolds
  <2> QED BY <2>1, <2>2
<1>6. FlowOf(proof) = ClaimsIn(f[o])
  BY <1>4, <1>5 DEF FlowOf, ClaimsIn
<1>7. FlowHolds(ClaimsIn(f[o]), material.relations)
  BY <1>3, <1>4 DEF PartHolds
<1> QED BY <1>6, <1>7

LEMMA StretchesHold ==
  ASSUME NEW proof, NEW relations, FlowOf(proof) # {} => FlowHolds(FlowOf(proof), relations)
  PROVE  FlowIsAStretch(proof)
<1> SUFFICES ASSUME FlowOf(proof) # {}, FlowHolds(FlowOf(proof), relations)
             PROVE  \E anchor \in {c.anchor : c \in FlowOf(proof)} :
                      \E first, last \in DOMAIN anchor :
                        /\ {c.step : c \in FlowOf(proof)} = {anchor[k] : k \in first .. last}
                        /\ FlowRoles \subseteq {anchor[k].role : k \in first .. last}
  BY DEF FlowIsAStretch
<1> DEFINE claims == FlowOf(proof)
<1> HIDE DEF claims
<1>1. claims # {} /\ FlowHolds(claims, relations)
  BY DEF claims
<1>2. PICK anchor : /\ \A c \in claims : c.anchor = anchor
                    /\ \E first, last \in DOMAIN anchor :
                         /\ StepsOf(claims) = Stretch(anchor, first, last)
                         /\ FlowRoles \subseteq {s.role : s \in StepsOf(claims)}
  BY <1>1 DEF FlowHolds
<1>3. PICK first, last \in DOMAIN anchor :
         /\ StepsOf(claims) = Stretch(anchor, first, last)
         /\ FlowRoles \subseteq {s.role : s \in StepsOf(claims)}
  BY <1>2
<1>4. {c.step : c \in claims} = {anchor[k] : k \in first .. last}
  BY <1>3 DEF StepsOf, Stretch
<1>5. FlowRoles \subseteq {anchor[k].role : k \in first .. last}
  <2>1. FlowRoles \subseteq {s.role : s \in Stretch(anchor, first, last)}
    BY <1>3
  <2> QED BY <2>1 DEF Stretch
<1>6. anchor \in {c.anchor : c \in claims}
  BY <1>1, <1>2
<1> QED BY <1>4, <1>5, <1>6 DEF claims

\* The claims of a proof have one certificate each, primary locations, at most one
\* test and one flow in order.
LEMMA ProofIsProjectable ==
  ASSUME NEW proof, NEW f, NEW obligations, obligations # {}, NEW material, NEW tree,
         MaterialShaped(material), ProofShaped(proof, f, obligations, material, tree),
         OneAPredicate(obligations), Cardinality(proof) <= MaxSelectedClaims,
         NEW c \in proof
  PROVE  Projectable(proof, material.relations, {})
<1>1. IsFiniteSet(proof)
  <2>1. proof \subseteq material.certificates
    BY DEF ProofShaped, PartHolds, Satisfying
  <2> QED BY <2>1, FS_Subset DEF MaterialShaped
<1>2. Cardinality(proof) \in Nat /\ Cardinality(proof) # 0
  BY <1>1, FS_CardinalityType, FS_EmptySet
<1>3. \A d, e \in proof : d.claim = e.claim => d = e
  <2> SUFFICES ASSUME NEW d \in proof, NEW e \in proof, d.claim = e.claim PROVE d = e
    OBVIOUS
  <2>1. PICK o \in obligations : d \in f[o] /\ d.claim.kind = o.predicate
    BY HasAPart
  <2>2. e \in f[o]
    BY <2>1, InItsPart
  <2> QED BY <2>1, <2>2 DEF ProofShaped, PartHolds
<1>4. Cardinality(ClaimsIn(proof)) = Cardinality(proof)
  BY <1>1, <1>3, OneCertificateAClaim
<1>5. ASSUME NEW d \in proof, d.claim.kind = "location" PROVE d.claim.location.role = "primary"
  <2>1. PICK o \in obligations : d \in f[o] /\ d.claim.kind = o.predicate
    BY HasAPart
  <2>2. o.predicate # "flow"
    BY <1>5, <2>1
  <2> QED BY <1>5, <2>1, <2>2 DEF ProofShaped, PartHolds
<1> DEFINE plans == {d.claim.plan : d \in {e \in proof : e.claim.kind = "tests"}}
<1>6. Cardinality(plans) <= 1
  <2>1. CASE \A d \in proof : d.claim.kind # "tests"
    <3>1. plans = {}
      BY <2>1
    <3> HIDE DEF plans
    <3> QED BY <3>1, FS_EmptySet
  <2>2. CASE ~ \A d \in proof : d.claim.kind # "tests"
    <3>1. PICK d \in proof : d.claim.kind = "tests"
      BY <2>2
    <3>2. PICK o \in obligations : d \in f[o] /\ d.claim.kind = o.predicate
      BY HasAPart
    <3>3. o.predicate = "tests"
      BY <3>1, <3>2
    <3>4. \E x : f[o] = {x}
      BY <3>3 DEF ProofShaped, PartHolds
    <3>5. \A e \in proof : e.claim.kind = "tests" => e \in f[o]
      BY <3>3, InItsPart
    <3>6. \A e \in proof : e.claim.kind = "tests" => e = d
      BY <3>2, <3>4, <3>5
    <3>7. plans = {d.claim.plan}
      BY <3>1, <3>6
    <3> HIDE DEF plans
    <3>8. Cardinality({d.claim.plan}) = 1
      BY FS_Singleton
    <3>9. Cardinality(plans) = 1
      BY <3>7, <3>8
    <3> QED BY <3>9
  <2> QED BY <2>1, <2>2
<1>7. ASSUME FlowOf(proof) # {}
      PROVE  /\ Cardinality({d.anchor : d \in FlowOf(proof)}) = 1
             /\ Cardinality({r \in material.relations : {r[1], r[2]} \subseteq FlowOf(proof)}) + 1
                  = Cardinality(FlowOf(proof))
             /\ FlowOrders(FlowOf(proof), material.relations) # {}
  <2> DEFINE claims == FlowOf(proof)
  <2>1. FlowHolds(claims, material.relations)
    BY <1>7, FlowOfProof
  <2> HIDE DEF claims
  <2>2. PICK anchor : \A d \in claims : d.anchor = anchor
    BY <2>1 DEF FlowHolds
  <2>3. {d.anchor : d \in claims} = {anchor}
    BY <2>1, <2>2 DEF FlowHolds
  <2>4. Cardinality({d.anchor : d \in claims}) = 1
    BY <2>3, FS_Singleton
  <2>5. Cardinality({r \in material.relations : {r[1], r[2]} \subseteq claims}) + 1
          = Cardinality(claims)
    BY <2>1 DEF FlowHolds, EdgesOf
  <2>6. PICK w : IsPath(w, claims, material.relations)
    BY <2>1 DEF FlowHolds
  <2>7. w \in FlowOrders(claims, material.relations)
    BY <2>6 DEF IsPath, FlowOrders
  <2> QED BY <2>4, <2>5, <2>7 DEF claims
<1>8. Cardinality(proof) \in 1 .. MaxSelectedClaims
  BY <1>2, MaxSelectedAssumption
<1>9. plans \cup {a \in {} : a.kind = "test_plan"} = plans
  OBVIOUS
<1>10. Cardinality(plans \cup {a \in {} : a.kind = "test_plan"}) <= 1
  BY <1>6, <1>9
<1> QED BY <1>4, <1>5, <1>7, <1>8, <1>10 DEF Projectable

\* A proof from claims covers its obligations with fresh claims only, tells one
\* unbroken flow, and can be projected.
LEMMA ClaimProofsHold ==
  ASSUME NEW need, NEW obligations, OneAPredicate(obligations), NEW material,
         MaterialShaped(material), NEW tree
  PROVE  ClaimProofHolds(need, obligations, material, tree)
<1> SUFFICES ASSUME NEW proof \in ClaimProofsFor(need, obligations, material, tree)
             PROVE  /\ \A o \in obligations : \E c \in proof : \E p \in c.obligations : Satisfies(p, o)
                    /\ \A c \in proof : DependenciesFresh(c.files, tree)
                    /\ FlowIsAStretch(proof)
                    /\ Projectable(proof, material.relations, {})
  BY DEF ClaimProofHolds
<1>1. /\ MaterialUsable(need, material) /\ obligations # {}
      /\ Cardinality(proof) <= MaxSelectedClaims
  BY ProofHasParts
<1>2. PICK f : ProofParts(f, obligations, material, tree) /\ proof = UNION Range(f)
  BY ProofHasParts
<1>3. ProofShaped(proof, f, obligations, material, tree)
  <2>1. \A o \in obligations : PartHolds(f[o], o, material, tree)
    BY <1>1, <1>2, PartsHold DEF ProofParts
  <2>2. Range(f) = {f[o] : o \in obligations}
    BY <1>2 DEF ProofParts, Range
  <2>3. /\ \A c \in proof : \E o \in obligations : c \in f[o]
        /\ \A o \in obligations : f[o] \subseteq proof
    BY <1>2, <2>2
  <2> QED BY <2>1, <2>3 DEF ProofShaped
<1>4. \A o \in obligations : \E c \in proof : \E p \in c.obligations : Satisfies(p, o)
  <2> SUFFICES ASSUME NEW o \in obligations
               PROVE  \E c \in proof : \E p \in c.obligations : Satisfies(p, o)
    OBVIOUS
  <2>1. f[o] \in ProofsOf(material, o, tree)
    BY <1>2 DEF ProofParts
  <2>2. PICK c \in f[o] : Proves(c, o)
    BY <2>1, ProofsSatisfy
  <2>3. c \in proof
    BY <1>3, <2>2 DEF ProofShaped
  <2> QED BY <2>2, <2>3 DEF Proves
<1>5. \A c \in proof : DependenciesFresh(c.files, tree)
  BY <1>3 DEF ProofShaped, PartHolds, Satisfying
<1>6. FlowOf(proof) # {} => FlowHolds(FlowOf(proof), material.relations)
  BY <1>3, FlowOfProof
<1>7. FlowIsAStretch(proof)
  BY <1>6, StretchesHold
<1>8. Projectable(proof, material.relations, {})
  <2>1. PICK c : c \in proof
    BY <1>1, <1>4
  <2> QED BY <1>1, <1>3, <2>1, ProofIsProjectable
<1> QED BY <1>4, <1>5, <1>7, <1>8

-----------------------------------------------------------------------------
(* The decisions *)

PlanDecision(t) ==
  [plan |-> Plan(t.need, t.candidates), advice |-> ClaimPlan(t.need, t.candidates)]

ClaimDecision(t) ==
  LET material == MaterialFor(t.need, t.certificates, t.relations)
  IN  [material |-> material,
       proofs |-> ClaimProofsFor(t.need, t.need.required, material, t.tree)]

\* What the planner decides of a task.
LEMMA PlanDecided ==
  ASSUME NEW t \in PlanTasks
  PROVE  PlanHolds(t.need, t.candidates, PlanDecision(t).plan, PlanDecision(t).advice)
<1> DEFINE n == t.need.count
           k == Len(t.candidates)
<1>1. n \in Nat /\ k \in Nat /\ DOMAIN t.candidates = 1 .. k
  BY PlanTasksAssumption
<1>2. \A j \in 1 .. k : t.candidates[j] \in Range(t.candidates)
  BY <1>1 DEF Range
<1>3. PricedCandidates(t.candidates, n, k)
  BY <1>1, <1>2, PlanTasksAssumption DEF PricedCandidates
<1>4. PlanHolds(t.need, t.candidates, Plan(t.need, t.candidates), ClaimPlan(t.need, t.candidates))
  BY <1>1, <1>3, PlannerIsRight
<1> QED BY <1>4 DEF PlanDecision

\* What claims prove of a task.
LEMMA ClaimsDecided ==
  ASSUME NEW t \in ClaimTasks
  PROVE  ClaimProofHolds(t.need, t.need.required, ClaimDecision(t).material, t.tree)
<1> DEFINE material == MaterialFor(t.need, t.certificates, t.relations)
<1>1. material.certificates \subseteq t.certificates /\ material.relations \subseteq t.relations
  BY DEF MaterialFor
<1>2. ClaimDecision(t).material = material
  BY DEF ClaimDecision
<1> HIDE DEF material
<1>3. /\ IsFiniteSet(t.certificates)
      /\ \A c \in t.certificates : Extracted(c)
      /\ \A r \in t.relations : r \in Precedes(TraceOf(r[1].anchor))
      /\ OneAPredicate(t.need.required)
  BY ClaimTasksAssumption DEF Extracted, TraceOf, ArtifactKinds, OneAPredicate
<1>4. MaterialShaped(material)
  BY <1>1, <1>3, FS_Subset DEF MaterialShaped
<1>5. ClaimProofHolds(t.need, t.need.required, material, t.tree)
  BY <1>3, <1>4, ClaimProofsHold
<1> QED BY <1>2, <1>5

\* What has been decided is the decision of the task.
DecisionInv ==
  /\ task \in PatchTasks \cup VerdictTasks \cup PlanTasks \cup ManifestTasks \cup ClaimTasks
                \cup LedgerTasks
  /\ Decided("patch") =>
       result = <<ObservePatch(task.allowed, task.before, task.after, task.declared)>>
  /\ Decided("verdict") => result = <<ArtifactOf(task.turn)>>
  /\ Decided("plan") => result = <<PlanDecision(task)>>
  /\ Decided("manifest") => result = <<ManifestDecision(task)>>
  /\ Decided("claims") => result = <<ClaimDecision(task)>>
  /\ Decided("ledger") => result = <<LedgerDecision(task)>>

\* A step decides its task once and leaves it what it is.
LEMMA DecisionsKept == DecisionInv /\ [DecisionNext]_decisionVars => DecisionInv'
<1> SUFFICES ASSUME DecisionInv, [DecisionNext]_decisionVars PROVE DecisionInv'
  OBVIOUS
<1> USE DEF Decide, Decided, Undecided
<1>1. CASE DecidePatch
  <2>1. task' = task /\ task.kind = "patch"
    BY <1>1 DEF DecidePatch
  <2>2. result' = <<ObservePatch(task.allowed, task.before, task.after, task.declared)>>
    BY <1>1 DEF DecidePatch
  <2> QED BY <2>1, <2>2 DEF DecisionInv
<1>2. CASE DecideVerdict
  <2>1. task' = task /\ task.kind = "verdict" /\ result' = <<ArtifactOf(task.turn)>>
    BY <1>2 DEF DecideVerdict
  <2> QED BY <2>1 DEF DecisionInv
<1>3. CASE DecidePlan
  <2>1. task' = task /\ task.kind = "plan" /\ result' = <<PlanDecision(task)>>
    BY <1>3 DEF DecidePlan, PlanDecision
  <2> QED BY <2>1 DEF DecisionInv
<1>4. CASE DecideManifest
  <2>1. task' = task /\ task.kind = "manifest" /\ result' = <<ManifestDecision(task)>>
    BY <1>4 DEF DecideManifest, ManifestDecision
  <2> QED BY <2>1 DEF DecisionInv
<1>5. CASE DecideClaims
  <2>1. task' = task /\ task.kind = "claims" /\ result' = <<ClaimDecision(task)>>
    BY <1>5 DEF DecideClaims, ClaimDecision
  <2> QED BY <2>1 DEF DecisionInv
<1>6. CASE DecideReuse
  <2>1. task' = task /\ task.kind = "ledger" /\ result' = <<LedgerDecision(task)>>
    BY <1>6 DEF DecideReuse, LedgerDecision
  <2> QED BY <2>1 DEF DecisionInv
<1>7. CASE UNCHANGED decisionVars
  BY <1>7 DEF DecisionInv, decisionVars
<1> QED BY <1>1, <1>2, <1>3, <1>4, <1>5, <1>6, <1>7 DEF DecisionNext

\* What is decided of a patch and of a verdict holds, whatever was decided
\* before (observe_patch, normalize_verifier_turn, is_canonical).
LEMMA ChangesDecided == DecisionInv => ChangeDecisionsHold
<1> SUFFICES ASSUME DecisionInv PROVE ChangeDecisionsHold
  OBVIOUS
<1>1. \A x : <<x>>[1] = x
  OBVIOUS
<1>2. ASSUME Decided("patch")
      PROVE  PatchIsFaithful(task.allowed, task.before, task.after, result[1])
  <2>1. task \in PatchTasks
    BY <1>2, TasksAssumption DEF Decided, DecisionInv
  <2>2. result[1] = ObservePatch(task.allowed, task.before, task.after, task.declared)
    BY <1>1, <1>2 DEF DecisionInv
  <2>3. IsTree(task.before) /\ IsTree(task.after)
    BY <2>1, PatchTasksAssumption DEF IsTree
  <2>4. \A n \in DOMAIN task.allowed : task.allowed[n].path \in Seq(Range(task.allowed[n].path))
    BY <2>1, PatchTasksAssumption
  <2> QED BY <2>2, <2>3, <2>4, ObservedIsFaithful
<1>3. ASSUME Decided("verdict")
      PROVE  /\ VerdictIsEarned(task.turn, result[1].artifact.verdict)
             /\ VerdictIsStorable(task.turn, result[1])
  <2>1. task \in VerdictTasks
    BY <1>3, TasksAssumption DEF Decided, DecisionInv
  <2>2. result[1] = ArtifactOf(task.turn)
    BY <1>1, <1>3 DEF DecisionInv
  <2>3. IsTurn(task.turn)
    BY <2>1, VerdictTasksAssumption DEF IsTurn
  <2>4. ArtifactOf(task.turn).artifact.verdict = NormalizedVerdict(task.turn)
    BY DEF ArtifactOf
  <2> QED BY <2>2, <2>3, <2>4, VerdictEarned, VerdictStorable
<1> QED BY <1>2, <1>3 DEF ChangeDecisionsHold

\* The result of observing a patch and of normalising a verdict, for every
\* allowed scope, checkout and turn: the patch leads from one tree to the other
\* and back inside its scopes, and a verdict that stands was earned and can be
\* stored.
THEOREM ChangeDecisions == DecisionSpec => []ChangeDecisionsHold
<1>1. DecisionInit => DecisionInv
  BY DEF DecisionInit, DecisionInv, Decided
<1> QED BY <1>1, DecisionsKept, ChangesDecided, PTL DEF DecisionSpec

\* What is decided of evidence holds.
LEMMA EvidenceDecided == DecisionInv => EvidenceDecisionsHold
<1> SUFFICES ASSUME DecisionInv PROVE EvidenceDecisionsHold
  OBVIOUS
<1>1. \A x : <<x>>[1] = x
  OBVIOUS
<1>2. PlansAreBestCovers
  <2> SUFFICES ASSUME Decided("plan")
               PROVE  PlanHolds(task.need, task.candidates, result[1].plan, result[1].advice)
    BY DEF PlansAreBestCovers, PlanHolds
  <2>1. task \in PlanTasks
    BY TasksAssumption DEF Decided, DecisionInv
  <2>2. result[1] = PlanDecision(task)
    BY <1>1 DEF DecisionInv
  <2> QED BY <2>1, <2>2, PlanDecided
<1>3. ManifestsSuffice
  <2> SUFFICES ASSUME Decided("manifest"), result[1].valid,
                      DependenciesFresh(result[1].files, task.after)
               PROVE  result[1].again
    BY DEF ManifestsSuffice
  <2>1. task \in ManifestTasks
    BY TasksAssumption DEF Decided, DecisionInv
  <2>2. result[1] = ManifestDecision(task)
    BY <1>1 DEF DecisionInv
  <2>3. task.closing \in BOOLEAN /\ task.artifact.kind \in ArtifactKinds
    BY <2>1, ManifestTasksAssumption DEF ArtifactKinds
  <2> QED BY <2>2, <2>3, ValidatesAgain
<1>4. ClaimsProveTheNeed
  <2> SUFFICES ASSUME Decided("claims")
               PROVE  ClaimProofHolds(task.need, task.need.required, result[1].material, task.tree)
    BY DEF ClaimsProveTheNeed
  <2>1. task \in ClaimTasks
    BY TasksAssumption DEF Decided, DecisionInv
  <2>2. result[1] = ClaimDecision(task)
    BY <1>1 DEF DecisionInv
  <2> QED BY <2>1, <2>2, ClaimsDecided
<1>5. LedgerReuseIsCovered
  <2> SUFFICES ASSUME Decided("ledger") PROVE ReuseIsCovered(result[1], task.first = task.second)
    BY DEF LedgerReuseIsCovered
  <2>1. task \in LedgerTasks
    BY TasksAssumption DEF Decided, DecisionInv
  <2>2. result[1] = LedgerDecision(task)
    BY <1>1 DEF DecisionInv
  <2>3. IsRequest(task.first) /\ IsRequest(task.second) /\ IsOrder(task.order)
    BY <2>1, LedgerTasksAssumption DEF IsRequest, IsOrder
  <2> QED BY <2>2, <2>3, ReuseCovered
<1> QED BY <1>2, <1>3, <1>4, <1>5 DEF EvidenceDecisionsHold

\* The planner's selection is the best there is within its budget and its
\* certificate replays, an artifact whose recorded files are unchanged validates
\* again, a claim proof covers its need with one unbroken flow of fresh claims,
\* and an old answer is given again only to a need whose requirements it met, or
\* had as preferences under the same identity: for every need, candidate,
\* artifact, tree, claim and request (proof.rs, semantic_validation.rs,
\* claim_proof.rs, supervised_main.rs).
THEOREM EvidenceDecisions == DecisionSpec => []EvidenceDecisionsHold
<1>1. DecisionInit => DecisionInv
  BY DEF DecisionInit, DecisionInv, Decided
<1> QED BY <1>1, DecisionsKept, EvidenceDecided, PTL DEF DecisionSpec
=============================================================================
