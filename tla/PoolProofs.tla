------------------------------ MODULE PoolProofs ------------------------------
(***************************************************************************)
(* Proofs, for every set of positions, every stake and every order of      *)
(* arrival, that the vault of the demonstration pool always holds what     *)
(* came in and did not go out and covers the holders left to come, and     *)
(* that a winner's payment depends on when he comes by roundings only.     *)
(*                                                                         *)
(* The sums over the positions are the library's; the first lemmas give    *)
(* them their usual laws.                                                  *)
(***************************************************************************)
EXTENDS BinaryPool, Functions, TLAPS, FiniteSetTheorems, WellFoundedInduction

-----------------------------------------------------------------------------
(* Sums over finite sets                                                   *)

\* A set of numbers that is not empty has a least one: of the initial segments that they
\* bound one is minimal.
LEMMA LeastExists ==
    ASSUME NEW S \in SUBSET Nat, S # {}
    PROVE  \E m \in S : \A j \in S : m <= j
<1> DEFINE Segments == {1 .. k : k \in S}
<1>1. Segments \subseteq FiniteSubsetsOf(Nat)
  <2> SUFFICES ASSUME NEW k \in S PROVE 1 .. k \in FiniteSubsetsOf(Nat)
    OBVIOUS
  <2>1. k \in Int /\ 1 .. k \subseteq Nat
    OBVIOUS
  <2>2. IsFiniteSet(1 .. k)
    BY <2>1, FS_Interval
  <2> QED BY <2>1, <2>2 DEF FiniteSubsetsOf
<1>2. PICK x \in Segments : \A y \in Segments : ~(<<y, x>> \in StrictSubsetOrdering(Nat))
  <2>1. Segments # {}
    OBVIOUS
  <2> HIDE DEF Segments
  <2> QED BY <1>1, <2>1, FS_StrictSubsetOrderingWellFounded, WFMin
<1>3. PICK m \in S : x = 1 .. m
  OBVIOUS
<1>4. ASSUME NEW j \in S PROVE m <= j
  <2> SUFFICES ASSUME j < m PROVE FALSE
    OBVIOUS
  <2>1. m \in 1 .. m /\ m \notin 1 .. j /\ 1 .. j \subseteq 1 .. m
    OBVIOUS
  <2>2. <<1 .. j, 1 .. m>> \in StrictSubsetOrdering(Nat)
    BY <2>1 DEF StrictSubsetOrdering
  <2> QED BY <1>2, <1>3, <2>2
<1> QED BY <1>4

\* A set of numbers that has zero and every successor has them all.
LEMMA AllNumbers ==
    ASSUME NEW G \in SUBSET Nat, 0 \in G, \A n \in G : n + 1 \in G
    PROVE  G = Nat
<1> SUFFICES ASSUME Nat \ G # {} PROVE FALSE
  OBVIOUS
<1>1. PICK m \in Nat \ G : \A j \in Nat \ G : m <= j
  <2>1. Nat \ G \in SUBSET Nat
    OBVIOUS
  <2> QED BY <2>1, LeastExists
<1>2. m # 0 /\ m - 1 \in Nat
  OBVIOUS
<1>3. m - 1 \in G
  BY <1>1, <1>2
<1> QED BY <1>2, <1>3

\* The element that a sum takes first.
Some(s) == CHOOSE x \in s : TRUE

\* The elements of a set taken one by one, and what is left.
LEMMA OneTaken ==
    ASSUME NEW s, IsFiniteSet(s), NEW n \in Nat, Cardinality(s) = n + 1, NEW x \in s
    PROVE  IsFiniteSet(s \ {x}) /\ Cardinality(s \ {x}) = n
BY FS_RemoveElement

\* A set that is not empty has an element to take.
LEMMA SomeElement == ASSUME NEW s, s # {} PROVE Some(s) \in s
BY DEF Some

\* The recursion of a sum over the subsets of S.
Adds(f, S, g) ==
    g = [s \in SUBSET S |-> IF s = {} THEN 0 ELSE f[Some(s)] + g[s \ {Some(s)}]]

\* The library's sum is this recursion.
LEMMA SumIsAdded ==
    ASSUME NEW f, NEW S
    PROVE  SumFunctionOnSet(f, S) = (CHOOSE g : Adds(f, S, g))[S]
BY DEF SumFunctionOnSet, FoldFunctionOnSet, MapThenFoldSet, Adds, Some

\* It has a solution: one for the subsets of at most n elements extends to n + 1.
LEMMA SumExists ==
    ASSUME NEW f, NEW S, IsFiniteSet(S)
    PROVE  \E g : Adds(f, S, g)
<1> DEFINE Small(n) == {s \in SUBSET S : Cardinality(s) <= n}
           Solves(n, g) ==
              g = [s \in Small(n) |-> IF s = {} THEN 0 ELSE f[Some(s)] + g[s \ {Some(s)}]]
           G == {n \in Nat : \E g : Solves(n, g)}
<1>1. \A s \in SUBSET S : IsFiniteSet(s) /\ Cardinality(s) \in Nat /\ Cardinality(s) <= Cardinality(S)
  BY FS_Subset, FS_CardinalityType
<1>2. 0 \in G
  <2>1. Small(0) = {{}}
    BY <1>1, FS_EmptySet
  <2>2. PICK g : g = [s \in {{}} |-> 0]
    OBVIOUS
  <2>3. Solves(0, g)
    <3>1. \A s \in Small(0) : s = {}
      BY <2>1
    <3> HIDE DEF Small
    <3> QED BY <2>1, <2>2, <3>1
  <2> QED BY <2>3
<1>3. ASSUME NEW n \in G PROVE n + 1 \in G
  <2>1. n \in Nat /\ n + 1 \in Nat
    OBVIOUS
  <2>2. PICK g : Solves(n, g)
    OBVIOUS
  <2>3. PICK h : h = [s \in Small(n + 1) |->
                        IF s = {} THEN 0 ELSE f[Some(s)] + g[s \ {Some(s)}]]
    OBVIOUS
  <2>4. ASSUME NEW s \in Small(n) PROVE s \in Small(n + 1) /\ h[s] = g[s]
    <3>1. s \in Small(n + 1)
      BY <1>1, <2>1
    <3> HIDE DEF Small
    <3> QED BY <2>2, <2>3, <3>1
  <2>5. ASSUME NEW s \in Small(n + 1), s # {} PROVE s \ {Some(s)} \in Small(n)
    <3>1. /\ IsFiniteSet(s) /\ Some(s) \in s /\ Cardinality(s) \in Nat
          /\ Cardinality(s \ {Some(s)}) \in Nat /\ s \ {Some(s)} \in SUBSET S
      BY <1>1, <2>5, SomeElement
    <3>2. Cardinality(s \ {Some(s)}) = Cardinality(s) - 1
      BY <3>1, FS_RemoveElement
    <3>3. Cardinality(s) <= n + 1
      OBVIOUS
    <3> QED BY <2>1, <3>1, <3>2, <3>3
  <2>6. Solves(n + 1, h)
    <3> HIDE DEF Small
    <3>1. \A s \in Small(n + 1) : (IF s = {} THEN 0 ELSE f[Some(s)] + g[s \ {Some(s)}])
                                  = (IF s = {} THEN 0 ELSE f[Some(s)] + h[s \ {Some(s)}])
      BY <2>4, <2>5
    <3> QED BY <2>3, <3>1
  <2> QED BY <2>1, <2>6
<1>4. Cardinality(S) \in G
  <2> HIDE DEF G
  <2>1. G \in SUBSET Nat
    BY DEF G
  <2> QED BY <1>1, <1>2, <1>3, <2>1, AllNumbers
<1>5. Small(Cardinality(S)) = SUBSET S
  BY <1>1
<1>6. PICK g : Solves(Cardinality(S), g)
  BY <1>4
<1> HIDE DEF Small
<1> QED BY <1>5, <1>6 DEF Adds

\* Two solutions give a set that both know the same sum.
LEMMA SumsAgree ==
    ASSUME NEW f, NEW S, NEW T, IsFiniteSet(S), T \subseteq S,
           NEW g, Adds(f, S, g), NEW h, Adds(f, T, h)
    PROVE  g[T] = h[T]
<1> DEFINE G == {n \in Nat : \A s \in SUBSET T : Cardinality(s) = n => g[s] = h[s]}
<1>1. \A s \in SUBSET T : IsFiniteSet(s) /\ Cardinality(s) \in Nat /\ s \in SUBSET S
  BY FS_Subset, FS_CardinalityType
<1>2. /\ \A s \in SUBSET S : g[s] = IF s = {} THEN 0 ELSE f[Some(s)] + g[s \ {Some(s)}]
      /\ \A s \in SUBSET T : h[s] = IF s = {} THEN 0 ELSE f[Some(s)] + h[s \ {Some(s)}]
  <2>1. /\ g = [s \in SUBSET S |-> IF s = {} THEN 0 ELSE f[Some(s)] + g[s \ {Some(s)}]]
        /\ h = [s \in SUBSET T |-> IF s = {} THEN 0 ELSE f[Some(s)] + h[s \ {Some(s)}]]
    BY DEF Adds
  <2> QED BY <2>1
<1>3. 0 \in G
  <2> SUFFICES ASSUME NEW s \in SUBSET T, Cardinality(s) = 0 PROVE g[s] = h[s]
    OBVIOUS
  <2>1. s = {}
    BY <1>1, FS_EmptySet
  <2> QED BY <1>1, <1>2, <2>1
<1>4. ASSUME NEW n \in G PROVE n + 1 \in G
  <2> SUFFICES ASSUME NEW s \in SUBSET T, Cardinality(s) = n + 1 PROVE g[s] = h[s]
    OBVIOUS
  <2>1. n \in Nat
    OBVIOUS
  <2>2. s # {} /\ IsFiniteSet(s)
    BY <1>1, <2>1, FS_EmptySet
  <2>3. Some(s) \in s
    BY <2>2, SomeElement
  <2>4. Cardinality(s \ {Some(s)}) = n
    BY <2>1, <2>2, <2>3, OneTaken
  <2>5. s \ {Some(s)} \in SUBSET T
    OBVIOUS
  <2>6. g[s \ {Some(s)}] = h[s \ {Some(s)}]
    BY <2>4, <2>5
  <2> HIDE DEF G
  <2> QED BY <1>1, <1>2, <2>2, <2>6
<1>5. G = Nat
  <2>1. G \in SUBSET Nat
    OBVIOUS
  <2> HIDE DEF G
  <2> QED BY <1>3, <1>4, <2>1, AllNumbers
<1> QED BY <1>1, <1>5

\* The empty sum, and a sum without the element taken first.
LEMMA SumStep ==
    ASSUME NEW f, NEW S, IsFiniteSet(S)
    PROVE  SumFunctionOnSet(f, S) =
              IF S = {} THEN 0 ELSE f[Some(S)] + SumFunctionOnSet(f, S \ {Some(S)})
<1>1. PICK g : g = (CHOOSE k : Adds(f, S, k)) /\ Adds(f, S, g)
  <2>1. \E k : Adds(f, S, k)
    BY SumExists
  <2> QED BY <2>1
<1>2. SumFunctionOnSet(f, S) = g[S]
  BY <1>1, SumIsAdded
<1>3. g[S] = IF S = {} THEN 0 ELSE f[Some(S)] + g[S \ {Some(S)}]
  <2>1. g = [s \in SUBSET S |-> IF s = {} THEN 0 ELSE f[Some(s)] + g[s \ {Some(s)}]]
    BY <1>1 DEF Adds
  <2>2. S \in SUBSET S
    OBVIOUS
  <2> QED BY <2>1, <2>2
<1> DEFINE T == S \ {Some(S)}
<1>4. T \subseteq S /\ IsFiniteSet(T)
  BY FS_Subset
<1> HIDE DEF T
<1>5. PICK h : h = (CHOOSE k : Adds(f, T, k)) /\ Adds(f, T, h)
  <2>1. \E k : Adds(f, T, k)
    BY <1>4, SumExists
  <2> QED BY <2>1
<1>6. SumFunctionOnSet(f, T) = h[T]
  BY <1>5, SumIsAdded
<1>7. g[T] = h[T]
  BY <1>1, <1>4, <1>5, SumsAgree
<1> QED BY <1>2, <1>3, <1>6, <1>7 DEF T

\* The order does not matter: any element may be taken first.
LEMMA SumRemove ==
    ASSUME NEW S, IsFiniteSet(S), NEW D, S \subseteq D, NEW f \in [D -> Int]
    PROVE  /\ SumFunctionOnSet(f, S) \in Int
           /\ \A x \in S : SumFunctionOnSet(f, S) = f[x] + SumFunctionOnSet(f, S \ {x})
<1> DEFINE Sum(s) == SumFunctionOnSet(f, s)
           Good(s) == Sum(s) \in Int /\ \A x \in s : Sum(s) = f[x] + Sum(s \ {x})
           G == {n \in Nat : \A s \in SUBSET S : Cardinality(s) <= n => Good(s)}
<1>1. \A s \in SUBSET S : IsFiniteSet(s) /\ Cardinality(s) \in Nat
  BY FS_Subset, FS_CardinalityType
<1>2. /\ Sum({}) = 0
      /\ \A s \in SUBSET S : s # {} => Sum(s) = f[Some(s)] + Sum(s \ {Some(s)})
  BY <1>1, SumStep, FS_EmptySet
<1> HIDE DEF Sum
<1>3. 0 \in G
  <2> SUFFICES ASSUME NEW s \in SUBSET S, Cardinality(s) <= 0 PROVE Good(s)
    OBVIOUS
  <2>1. s = {}
    BY <1>1, FS_EmptySet
  <2> QED BY <1>2, <2>1
<1>4. ASSUME NEW n \in G PROVE n + 1 \in G
  <2>0. n \in Nat /\ \A s \in SUBSET S : Cardinality(s) <= n => Good(s)
    OBVIOUS
  <2> SUFFICES ASSUME NEW s \in SUBSET S, Cardinality(s) <= n + 1 PROVE Good(s)
    BY <2>0
  <2> HIDE DEF G
  <2>1. CASE s = {}
    BY <1>2, <2>1
  <2>2. CASE s # {}
    <3>1. Some(s) \in s /\ IsFiniteSet(s)
      BY <1>1, <2>2, SomeElement
    <3>2. \A x \in s : s \ {x} \in SUBSET S /\ Cardinality(s \ {x}) <= n
      <4>1. Cardinality(s) \in Nat
        BY <1>1
      <4>2. \A x \in s : Cardinality(s \ {x}) = Cardinality(s) - 1
        BY <3>1, FS_RemoveElement
      <4> QED BY <2>0, <4>1, <4>2
    <3>3. \A x \in s : Good(s \ {x})
      BY <2>0, <3>2
    <3>4. \A x \in s : f[x] \in Int
      OBVIOUS
    <3>5. Sum(s) = f[Some(s)] + Sum(s \ {Some(s)})
      BY <1>2, <2>2
    <3>6. Sum(s) \in Int
      BY <3>1, <3>3, <3>4, <3>5
    <3>7. ASSUME NEW x \in s PROVE Sum(s) = f[x] + Sum(s \ {x})
      <4>1. CASE x = Some(s)
        BY <3>5, <4>1
      <4>2. CASE x # Some(s)
        <5> DEFINE y == Some(s)
        <5>1. y \in s \ {x} /\ x \in s \ {y}
          BY <3>1, <4>2
        <5>2. Sum(s \ {y}) = f[x] + Sum((s \ {y}) \ {x})
          BY <3>1, <3>3, <5>1
        <5>3. Sum(s \ {x}) = f[y] + Sum((s \ {x}) \ {y})
          BY <3>3, <5>1
        <5>4. (s \ {y}) \ {x} = (s \ {x}) \ {y}
          OBVIOUS
        <5>5. (s \ {x}) \ {y} \in SUBSET S /\ Cardinality((s \ {x}) \ {y}) <= n
          <6>1. (s \ {x}) \ {y} \subseteq s \ {x} /\ IsFiniteSet(s \ {x})
            BY <1>1, <3>2
          <6>2. Cardinality((s \ {x}) \ {y}) <= Cardinality(s \ {x})
            BY <6>1, FS_Subset
          <6>3. Cardinality((s \ {x}) \ {y}) \in Nat /\ Cardinality(s \ {x}) \in Nat
            BY <1>1, <3>2
          <6> QED BY <2>0, <3>2, <6>2, <6>3
        <5>6. Sum((s \ {x}) \ {y}) \in Int
          BY <2>0, <5>5
        <5>7. f[x] \in Int /\ f[y] \in Int
          BY <3>1, <3>4
        <5>8. Sum(s) = f[y] + Sum(s \ {y})
          BY <3>5
        <5>9. Sum(s \ {y}) = f[x] + Sum((s \ {x}) \ {y})
          BY <5>2, <5>4
        <5> HIDE DEF y, Good, G
        <5>10. PICK w \in Int, i \in Int, j \in Int :
                  w = Sum((s \ {x}) \ {y}) /\ i = f[x] /\ j = f[y]
          BY <5>6, <5>7
        <5>11. Sum(s \ {y}) = i + w /\ Sum(s \ {x}) = j + w
          BY <5>3, <5>9, <5>10
        <5>12. Sum(s) = j + (i + w)
          BY <5>8, <5>10, <5>11
        <5> QED BY <5>10, <5>11, <5>12
      <4> QED BY <4>1, <4>2
    <3> QED BY <3>6, <3>7
  <2> QED BY <2>1, <2>2
<1>5. G = Nat
  <2>1. G \in SUBSET Nat
    OBVIOUS
  <2> HIDE DEF G
  <2> QED BY <1>3, <1>4, <2>1, AllNumbers
<1>6. Good(S)
  <2>1. Cardinality(S) \in G /\ S \in SUBSET S /\ Cardinality(S) <= Cardinality(S)
    BY <1>1, <1>5
  <2> HIDE DEF Good
  <2> QED BY <2>1
<1> QED BY <1>6 DEF Sum

\* One element more.
LEMMA SumAdd ==
    ASSUME NEW S, IsFiniteSet(S), NEW D, S \subseteq D, NEW f \in [D -> Int],
           NEW x \in D, x \notin S
    PROVE  SumFunctionOnSet(f, S \cup {x}) = f[x] + SumFunctionOnSet(f, S)
<1>1. IsFiniteSet(S \cup {x}) /\ S \cup {x} \subseteq D /\ x \in S \cup {x}
  BY FS_AddElement
<1>2. (S \cup {x}) \ {x} = S
  OBVIOUS
<1>3. SumFunctionOnSet(f, S \cup {x}) = f[x] + SumFunctionOnSet(f, (S \cup {x}) \ {x})
  BY <1>1, SumRemove
<1> QED BY <1>2, <1>3

\* Functions that agree on a set have the same sum over it.
LEMMA SumSame ==
    ASSUME NEW S, IsFiniteSet(S), NEW f, NEW h, \A x \in S : f[x] = h[x]
    PROVE  SumFunctionOnSet(f, S) = SumFunctionOnSet(h, S)
<1> DEFINE F(s) == SumFunctionOnSet(f, s)
           H(s) == SumFunctionOnSet(h, s)
           G == {n \in Nat : \A s \in SUBSET S : Cardinality(s) = n => F(s) = H(s)}
<1>1. \A s \in SUBSET S : IsFiniteSet(s) /\ Cardinality(s) \in Nat
  BY FS_Subset, FS_CardinalityType
<1>2. \A s \in SUBSET S : /\ F(s) = IF s = {} THEN 0 ELSE f[Some(s)] + F(s \ {Some(s)})
                          /\ H(s) = IF s = {} THEN 0 ELSE h[Some(s)] + H(s \ {Some(s)})
  BY <1>1, SumStep
<1> HIDE DEF F, H
<1>3. 0 \in G
  <2> SUFFICES ASSUME NEW s \in SUBSET S, Cardinality(s) = 0 PROVE F(s) = H(s)
    OBVIOUS
  <2>1. s = {}
    BY <1>1, FS_EmptySet
  <2> QED BY <1>2, <2>1
<1>4. ASSUME NEW n \in G PROVE n + 1 \in G
  <2>0. n \in Nat
    OBVIOUS
  <2> SUFFICES ASSUME NEW s \in SUBSET S, Cardinality(s) = n + 1 PROVE F(s) = H(s)
    BY <2>0
  <2>1. s # {} /\ IsFiniteSet(s)
    BY <1>1, <2>0, FS_EmptySet
  <2>2. Some(s) \in s
    BY <2>1, SomeElement
  <2>3. Cardinality(s \ {Some(s)}) = n
    BY <2>0, <2>1, <2>2, OneTaken
  <2>4. F(s \ {Some(s)}) = H(s \ {Some(s)})
    BY <2>3
  <2>5. f[Some(s)] = h[Some(s)]
    BY <2>2
  <2> HIDE DEF G
  <2> QED BY <1>2, <2>1, <2>4, <2>5
<1>5. G = Nat
  <2>1. G \in SUBSET Nat
    OBVIOUS
  <2> HIDE DEF G
  <2> QED BY <1>3, <1>4, <2>1, AllNumbers
<1>6. F(S) = H(S)
  BY <1>1, <1>5
<1> QED BY <1>6 DEF F, H

\* A sum of natural numbers is one.
LEMMA SumIsNatural ==
    ASSUME NEW S, IsFiniteSet(S), NEW D, S \subseteq D, NEW f \in [D -> Nat]
    PROVE  SumFunctionOnSet(f, S) \in Nat
<1> DEFINE F(s) == SumFunctionOnSet(f, s)
           G == {n \in Nat : \A s \in SUBSET S : Cardinality(s) = n => F(s) \in Nat}
<1>1. \A s \in SUBSET S : IsFiniteSet(s) /\ Cardinality(s) \in Nat
  BY FS_Subset, FS_CardinalityType
<1>2. \A s \in SUBSET S : F(s) = IF s = {} THEN 0 ELSE f[Some(s)] + F(s \ {Some(s)})
  BY <1>1, SumStep
<1> HIDE DEF F
<1>3. 0 \in G
  <2> SUFFICES ASSUME NEW s \in SUBSET S, Cardinality(s) = 0 PROVE F(s) \in Nat
    OBVIOUS
  <2>1. s = {}
    BY <1>1, FS_EmptySet
  <2>2. F(s) = 0
    BY <1>2, <2>1
  <2> QED BY <2>2
<1>4. ASSUME NEW n \in G PROVE n + 1 \in G
  <2>0. n \in Nat
    OBVIOUS
  <2> SUFFICES ASSUME NEW s \in SUBSET S, Cardinality(s) = n + 1 PROVE F(s) \in Nat
    BY <2>0
  <2>1. s # {} /\ IsFiniteSet(s)
    BY <1>1, <2>0, FS_EmptySet
  <2>2. Some(s) \in s
    BY <2>1, SomeElement
  <2>3. Cardinality(s \ {Some(s)}) = n
    BY <2>0, <2>1, <2>2, OneTaken
  <2>4. F(s \ {Some(s)}) \in Nat /\ f[Some(s)] \in Nat
    BY <2>2, <2>3
  <2> HIDE DEF G
  <2> QED BY <1>2, <2>1, <2>4
<1>5. G = Nat
  <2>1. G \in SUBSET Nat
    OBVIOUS
  <2> HIDE DEF G
  <2> QED BY <1>3, <1>4, <2>1, AllNumbers
<1>6. F(S) \in Nat
  BY <1>1, <1>5
<1> QED BY <1>6 DEF F

-----------------------------------------------------------------------------
(* Arithmetic of redeem                                                    *)

\* A proportional share of a vault that covers the claims leaves a vault that still does.
LEMMA ShareLeavesEnough ==
    ASSUME NEW a \in Nat, NEW v \in Nat, NEW r \in Nat, a < r, r <= v
    PROVE  /\ (a * v) \div r \in Nat
           /\ (a * v) \div r <= v
           /\ v - ((a * v) \div r) >= r - a
           /\ r = v => (a * v) \div r = a
<1> DEFINE q == (a * v) \div r
<1>1. r \in Nat \ {0} /\ a * v \in Nat
  BY Z3
<1>2. \A x \in Nat, n \in Nat \ {0} : (x \div n) \in Nat /\ (x \div n) * n <= x
  BY Z3
<1>3. q \in Nat /\ q * r <= a * v
  BY <1>1, <1>2
<1>4. r = v => q = a
  <2>1. \A x \in Nat, n \in Nat \ {0} : (x * n) \div n = x
    BY Z3
  <2> QED BY <1>1, <2>1
<1> HIDE DEF q
<1>5. v - q >= r - a
  <2> SUFFICES ASSUME v - q < r - a PROVE FALSE
    BY <1>3
  <2>1. v - q + 1 <= r - a
    BY <1>3
  <2>2. r * (v - q + 1) <= r * (r - a)
    BY <1>3, <2>1, Z3
  <2>3. r * (r - a) <= v * (r - a)
    BY Z3
  <2>4. r * (v - q + 1) = r * v - q * r + r /\ v * (r - a) = r * v - a * v
    BY <1>3, Z3
  <2>5. /\ r * v \in Nat /\ q * r \in Nat /\ a * v \in Nat
        /\ r * (v - q + 1) \in Int /\ r * (r - a) \in Int /\ v * (r - a) \in Int
    BY <1>3, Z3
  <2> QED BY <1>1, <1>3, <2>2, <2>3, <2>4, <2>5
<1> QED BY <1>3, <1>4, <1>5 DEF q

\* What multiplying and dividing both sides by a number keeps.
LEMMA Scaling ==
    /\ \A x, y \in Int, n \in Nat : x <= y => x * n <= y * n
    /\ \A x, y \in Int, n \in Nat : n > 0 => (x * n <= y * n => x <= y)
    /\ \A x, y \in Int, n \in Nat : n > 0 => (x < y => x * n < y * n)
    /\ \A x, y \in Int, n \in Nat : n > 0 => (x * n < y * n => x < y)
    /\ \A x, y \in Int : x * y \in Int
    /\ \A x, y \in Nat : x * y \in Nat
<1>1. \A x, y \in Int, n \in Nat : x <= y => x * n <= y * n
  BY Z3
<1>2. \A x, y \in Int, n \in Nat : n > 0 => (x * n <= y * n => x <= y)
  BY Z3
<1>3. \A x, y \in Int, n \in Nat : n > 0 => (x < y => x * n < y * n)
  BY Z3
<1>4. \A x, y \in Int, n \in Nat : n > 0 => (x * n < y * n => x < y)
  BY Z3
<1>5. \A x, y \in Int : x * y \in Int
  BY Z3
<1>6. \A x, y \in Nat : x * y \in Nat
  BY Z3
<1> QED BY <1>1, <1>2, <1>3, <1>4, <1>5, <1>6

\* Shares of what is left stay near the shares of the whole: if the vault v is between what
\* the r still to be claimed are worth of the whole t, of which w in all can win, and k units
\* for each of the w more, then the payment for a is at most k above its share of the whole,
\* and never below; and the vault stays within one more.
LEMMA NearShare ==
    ASSUME NEW a \in Nat, NEW v \in Nat, NEW r \in Nat, NEW t \in Nat, NEW w \in Nat, NEW k \in Nat,
           NEW paid, NEW share, paid = (a * v) \div r, share = (a * t) \div w,
           a <= r, 0 < r, 0 < w, r * t <= v * w, v * w <= r * t + k * w
    PROVE  /\ paid \in Nat /\ share \in Nat
           /\ share <= paid /\ paid <= share + k
           /\ (r - a) * t <= (v - paid) * w
           /\ (v - paid) * w <= (r - a) * t + (k + 1) * w
<1>1. \A x, n \in Nat : n > 0 =>
          (x \div n) \in Nat /\ (x \div n) * n <= x /\ x < (x \div n + 1) * n
  BY Z3
<1>2. a * v \in Nat /\ a * t \in Nat
  BY Scaling
<1>3. /\ paid \in Nat /\ paid * r <= a * v /\ a * v < (paid + 1) * r
      /\ share \in Nat /\ share * w <= a * t /\ a * t < (share + 1) * w
  BY <1>1, <1>2
<1>4. PICK at \in Nat, av \in Nat, rt \in Nat, vw \in Nat, kw \in Nat :
         at = a * t /\ av = a * v /\ rt = r * t /\ vw = v * w /\ kw = k * w
  BY Scaling
<1>5. at * r = rt * a /\ av * w = vw * a
  BY <1>4, Z3
<1>6. at * r <= av * w
  <2>1. rt <= vw
    BY <1>4
  <2>2. rt * a <= vw * a
    BY <2>1, Scaling
  <2> QED BY <1>5, <2>2
<1>7. share <= paid
  <2>1. (share * w) * r <= at * r
    <3>1. share * w \in Int /\ share * w <= at /\ at \in Int /\ r \in Nat
      BY <1>3, <1>4, Scaling
    <3> QED BY <3>1, Scaling
  <2>2. (share * w) * r = (share * r) * w
    BY <1>3, Z3
  <2>3. share * r \in Int /\ (share * r) * w \in Int /\ at * r \in Int /\ av * w \in Int
    BY <1>3, Scaling
  <2>4. (share * r) * w <= av * w
    BY <1>6, <2>1, <2>2, <2>3
  <2>5. share * r <= av
    BY <2>3, <2>4, Scaling
  <2>6. share * r < (paid + 1) * r
    <3>1. (paid + 1) * r \in Int
      BY <1>3, Scaling
    <3> QED BY <1>3, <1>4, <2>3, <2>5, <3>1
  <2>7. share < paid + 1
    BY <1>3, <2>6, Scaling
  <2> QED BY <1>3, <2>7
<1>8. paid <= share + k
  <2>1. (paid * r) * w <= av * w
    <3>1. paid * r \in Int /\ paid * r <= av
      BY <1>3, <1>4, Scaling
    <3> QED BY <3>1, Scaling
  <2>2. vw * a <= rt * a + kw * a
    <3>1. vw <= rt + kw
      BY <1>4
    <3>2. vw * a <= (rt + kw) * a
      BY <3>1, Scaling
    <3>3. (rt + kw) * a = rt * a + kw * a
      BY Z3
    <3> QED BY <3>2, <3>3
  <2>3. kw * a <= kw * r
    BY Z3
  <2>4. at * r < ((share + 1) * w) * r
    <3>1. (share + 1) * w \in Int /\ at < (share + 1) * w
      BY <1>3, <1>4, Scaling
    <3> QED BY <3>1, Scaling
  <2>5. ((share + 1) * w) * r + kw * r = ((share + 1 + k) * r) * w
    BY <1>3, <1>4, Z3
  <2>6. /\ (paid * r) * w \in Int /\ av * w \in Int /\ vw * a \in Int /\ rt * a \in Int
        /\ kw * a \in Int /\ kw * r \in Int /\ at * r \in Int
        /\ ((share + 1) * w) * r \in Int /\ ((share + 1 + k) * r) * w \in Int
        /\ paid * r \in Int /\ (share + 1 + k) * r \in Int
    BY <1>3, Scaling
  <2>7. (paid * r) * w < ((share + 1 + k) * r) * w
    BY <1>5, <2>1, <2>2, <2>3, <2>4, <2>5, <2>6
  <2>8. paid * r < (share + 1 + k) * r
    BY <2>6, <2>7, Scaling
  <2>9. paid < share + 1 + k
    BY <1>3, <2>8, Scaling
  <2> QED BY <1>3, <2>9
<1>9. paid * w - at <= vw - rt
  <2>1. PICK d \in Int : d = paid * w - at
    BY <1>3, Scaling
  <2>2. PICK e \in Nat : e = vw - rt
    BY <1>4
  <2>3. (paid * r) * w <= av * w
    <3>1. paid * r \in Int /\ paid * r <= av
      BY <1>3, <1>4, Scaling
    <3> QED BY <3>1, Scaling
  <2>4. d * r = (paid * r) * w - at * r
    BY <1>3, <2>1, Z3
  <2>5. e * a = vw * a - rt * a
    BY <2>2, Z3
  <2>6. e * a <= e * r
    BY Z3
  <2>7. /\ d * r \in Int /\ (paid * r) * w \in Int /\ at * r \in Int /\ av * w \in Int
        /\ vw * a \in Int /\ rt * a \in Int /\ e * a \in Int /\ e * r \in Int
    BY <1>3, <2>1, <2>2, Scaling
  <2>8. d * r <= e * r
    BY <1>5, <2>3, <2>4, <2>5, <2>6, <2>7
  <2>9. d <= e
    BY <2>8, Scaling
  <2> QED BY <2>1, <2>2, <2>9
<1>10. at <= (paid + 1) * w
  <2>1. av * w <= ((paid + 1) * r) * w
    <3>1. (paid + 1) * r \in Int /\ av <= (paid + 1) * r
      BY <1>3, <1>4, Scaling
    <3> QED BY <3>1, Scaling
  <2>2. ((paid + 1) * r) * w = ((paid + 1) * w) * r
    BY <1>3, Z3
  <2>3. /\ at * r \in Int /\ av * w \in Int /\ ((paid + 1) * r) * w \in Int
        /\ (paid + 1) * w \in Int
    BY <1>3, Scaling
  <2>4. at * r <= ((paid + 1) * w) * r
    BY <1>6, <2>1, <2>2, <2>3
  <2> QED BY <2>3, <2>4, Scaling
<1>11. /\ (r - a) * t = rt - at /\ (v - paid) * w = vw - paid * w
       /\ (k + 1) * w = kw + w /\ (paid + 1) * w = paid * w + w
  <2>1. /\ (r - a) * t = r * t - a * t /\ (v - paid) * w = v * w - paid * w
        /\ (k + 1) * w = k * w + w /\ (paid + 1) * w = paid * w + w
    BY <1>3, Z3
  <2> QED BY <1>4, <2>1
<1>12. (r - a) * t <= (v - paid) * w /\ (v - paid) * w <= (r - a) * t + (k + 1) * w
  <2>1. PICK pw \in Int : pw = paid * w
    BY <1>3, Scaling
  <2>2. vw <= rt + kw
    BY <1>4
  <2> QED BY <1>9, <1>10, <1>11, <2>1, <2>2
<1> QED BY <1>3, <1>7, <1>8, <1>12

-----------------------------------------------------------------------------
(* The invariant                                                           *)

PoolRecords == [yesPool : Nat, noPool : Nat, vault : Nat, yesStake : 0 .. MaxPoolValue,
                noStake : 0 .. MaxPoolValue, result : Results \cup {"NONE"},
                settled : BOOLEAN, refund : BOOLEAN, remaining : Nat]
PositionRecords == [state : {"NONE", "HELD", "SPENT"}, outcome : Outcomes, amount : Nat, paid : Nat]

\* Before the settlement the two sides hold what was staked and nobody was paid.
Collecting ==
    ~pool.settled =>
        /\ pool.yesPool = pool.yesStake /\ pool.noPool = pool.noStake /\ pool.vault = 0
        /\ \A p \in Positions : position[p].state # "SPENT"

\* What is left to be claimed is covered, and nothing is left when it is zero.
Solvent ==
    pool.settled =>
        /\ pool.remaining <= pool.vault
        /\ pool.remaining = 0 => pool.vault = 0

\* In a refund the vault is exactly what is left to be claimed, and each holder who came
\* got his own stake back.
RefundedInFull ==
    pool.settled /\ pool.refund =>
        /\ pool.vault = pool.remaining
        /\ \A p \in Positions : position[p].state = "SPENT" => position[p].paid = position[p].amount

StakesArePositive == \A p \in Positions : position[p].state = "HELD" => position[p].amount > 0

PoolInv == TypeOK /\ Collecting /\ Solvent /\ RefundedInFull /\ StakesArePositive

\* The records of the pool and of the positions.
LEMMA PoolTypes ==
    TypeOK <=> /\ paused \in BOOLEAN /\ closed \in BOOLEAN
               /\ certificate \in Results \cup {"NONE"}
               /\ pool \in PoolRecords /\ pool.yesStake + pool.noStake <= MaxPoolValue
               /\ position \in [Positions -> PositionRecords]
BY DEF TypeOK, PoolRecords, PositionRecords

-----------------------------------------------------------------------------
(* One lemma per operation                                                 *)

\* A stake goes to its side and its position is held.
LEMMA EnterKeeps ==
    ASSUME PoolInv, NEW p \in Positions, NEW amount \in Amounts, NEW outcome \in Outcomes,
           Enter(p, amount, outcome)
    PROVE  PoolInv'
<1>0. /\ amount \in Nat /\ amount > 0 /\ MaxPoolValue \in Nat /\ ~pool.settled
      /\ pool \in PoolRecords /\ position \in [Positions -> PositionRecords]
      /\ paused' = paused /\ closed' = closed /\ certificate' = certificate
  BY PoolTypes, PoolAssumption DEF PoolInv, Enter
<1>1. position' = [position EXCEPT ![p] = [state |-> "HELD", outcome |-> outcome,
                                           amount |-> amount, paid |-> 0]]
  BY DEF Enter
<1>2. position' \in [Positions -> PositionRecords]
  BY <1>0, <1>1 DEF PositionRecords
<1>3. \A q \in Positions : position'[q] = position[q] \/ (position'[q].state = "HELD" /\ position'[q].amount = amount)
  BY <1>0, <1>1
<1>4. /\ pool' \in PoolRecords /\ pool'.yesStake + pool'.noStake <= MaxPoolValue
      /\ ~pool'.settled /\ pool'.vault = pool.vault
      /\ pool'.yesPool = pool'.yesStake /\ pool'.noPool = pool'.noStake
  <2>1. /\ amount <= MaxPoolValue - (pool.yesStake + pool.noStake)
        /\ pool.yesPool = pool.yesStake /\ pool.noPool = pool.noStake
        /\ pool.yesStake \in Nat /\ pool.noStake \in Nat
    BY <1>0 DEF Enter, PoolInv, Collecting, PoolRecords
  <2>2. /\ pool.yesStake + amount \in 0 .. MaxPoolValue
        /\ pool.noStake + amount \in 0 .. MaxPoolValue
        /\ pool.yesPool + amount \in Nat /\ pool.noPool + amount \in Nat
    BY <1>0, <2>1
  <2>3. CASE outcome = "YES"
    <3>1. pool' = [pool EXCEPT !.yesPool = @ + amount, !.yesStake = @ + amount]
      BY <2>3 DEF Enter
    <3>2. pool' \in PoolRecords
      BY <1>0, <2>2, <3>1 DEF PoolRecords
    <3> QED BY <1>0, <2>1, <3>1, <3>2 DEF PoolRecords
  <2>4. CASE outcome # "YES"
    <3>1. pool' = [pool EXCEPT !.noPool = @ + amount, !.noStake = @ + amount]
      BY <2>4 DEF Enter
    <3>2. pool' \in PoolRecords
      BY <1>0, <2>2, <3>1 DEF PoolRecords
    <3> QED BY <1>0, <2>1, <3>1, <3>2 DEF PoolRecords
  <2> QED BY <2>3, <2>4
<1>5. TypeOK'
  BY <1>0, <1>2, <1>4 DEF PoolInv, TypeOK, PoolRecords, PositionRecords
<1>6. Collecting' /\ StakesArePositive'
  BY <1>0, <1>3, <1>4 DEF PoolInv, Collecting, StakesArePositive
<1> QED BY <1>4, <1>5, <1>6 DEF PoolInv, Solvent, RefundedInFull

\* The settlement joins both sides; all of it when nobody could win, else the winners'
\* stakes are what is left to be claimed.
LEMMA SettleKeeps ==
    ASSUME PoolInv, SettlePool
    PROVE  PoolInv'
<1> DEFINE left == IF RefundMode THEN pool.yesStake + pool.noStake ELSE WinningStake
<1>0. /\ MaxPoolValue \in Nat /\ ~pool.settled
      /\ pool \in PoolRecords /\ position \in [Positions -> PositionRecords]
      /\ paused' = paused /\ closed' = closed /\ certificate' = certificate /\ position' = position
      /\ pool.yesPool = pool.yesStake /\ pool.noPool = pool.noStake /\ pool.vault = 0
      /\ \A p \in Positions : position[p].state # "SPENT"
  BY PoolTypes, PoolAssumption DEF PoolInv, SettlePool, Collecting
<1>1. pool.yesStake \in Nat /\ pool.noStake \in Nat
  BY <1>0 DEF PoolRecords
<1>2. /\ left \in Nat /\ left <= pool.yesStake + pool.noStake
      /\ RefundMode => left = pool.yesStake + pool.noStake
      /\ ~RefundMode => left # 0
      /\ RefundMode \in BOOLEAN
  BY <1>1 DEF RefundMode, WinningStake
<1> HIDE DEF left
<1>3. pool' = [pool EXCEPT !.yesPool = 0, !.noPool = 0,
                           !.vault = @ + pool.yesPool + pool.noPool, !.result = certificate,
                           !.settled = TRUE, !.refund = RefundMode, !.remaining = left]
  BY DEF SettlePool, left
<1>4. /\ pool'.vault = pool.yesStake + pool.noStake /\ pool'.remaining = left
      /\ pool'.settled /\ pool'.refund = RefundMode
      /\ pool'.yesStake = pool.yesStake /\ pool'.noStake = pool.noStake
  BY <1>0, <1>1, <1>3 DEF PoolRecords
<1>5. pool' \in PoolRecords
  <2>1. certificate \in Results
    BY PoolTypes DEF PoolInv, SettlePool
  <2>2. pool.vault + pool.yesPool + pool.noPool \in Nat
    BY <1>0, <1>1
  <2> QED BY <1>0, <1>1, <1>2, <1>3, <2>1, <2>2 DEF PoolRecords
<1>6. TypeOK'
  BY <1>0, <1>4, <1>5 DEF PoolInv, TypeOK, PoolRecords, PositionRecords
<1>7. Collecting' /\ StakesArePositive'
  BY <1>0, <1>4 DEF PoolInv, Collecting, StakesArePositive
<1>8. Solvent' /\ RefundedInFull'
  BY <1>0, <1>1, <1>2, <1>4 DEF Solvent, RefundedInFull
<1> QED BY <1>6, <1>7, <1>8 DEF PoolInv

\* A redemption pays at most what the vault holds and leaves the others covered.
LEMMA RedeemKeeps ==
    ASSUME PoolInv, NEW p \in Positions, Redeem(p)
    PROVE  PoolInv'
<1> DEFINE a == position[p].amount
           v == pool.vault
           r == pool.remaining
           paid == PayoutOf(p)
           left == IF Eligible(p) THEN r - a ELSE r
<1>0. /\ pool \in PoolRecords /\ position \in [Positions -> PositionRecords]
      /\ pool.settled /\ a \in Nat /\ a > 0 /\ v \in Nat /\ r \in Nat
      /\ r <= v /\ (r = 0 => v = 0) /\ (pool.refund => v = r)
      /\ (Eligible(p) => a <= r /\ r > 0)
      /\ paused' = paused /\ closed' = closed /\ certificate' = certificate
      /\ (pool.refund => Eligible(p))
  BY PoolTypes DEF PoolInv, Redeem, Solvent, RefundedInFull, StakesArePositive, PoolRecords,
     PositionRecords, Eligible
<1>1. /\ paid \in Nat /\ paid <= v /\ left \in Nat /\ left <= v - paid
      /\ left = 0 => v - paid = 0
      /\ pool.refund => paid = a /\ v - paid = left
  <2>1. CASE ~Eligible(p)
    BY <1>0, <2>1 DEF PayoutOf
  <2>2. CASE Eligible(p) /\ a = r
    BY <1>0, <2>2 DEF PayoutOf
  <2>3. CASE Eligible(p) /\ a # r
    <3>1. paid = (a * v) \div r /\ a < r /\ left = r - a
      BY <1>0, <2>3 DEF PayoutOf
    <3>2. \A x, y, z \in Nat : x < z /\ z <= y =>
             /\ (x * y) \div z \in Nat /\ (x * y) \div z <= y
             /\ y - ((x * y) \div z) >= z - x
             /\ z = y => (x * y) \div z = x
      BY ShareLeavesEnough
    <3> HIDE DEF a, v, r, paid, left
    <3>3. paid \in Nat /\ paid <= v /\ v - paid >= r - a /\ (r = v => paid = a)
      BY <1>0, <3>1, <3>2
    <3> QED BY <1>0, <3>1, <3>3
  <2> QED BY <2>1, <2>2, <2>3
<1>2. /\ pool' = [pool EXCEPT !.vault = @ - paid, !.remaining = left]
      /\ position' = [position EXCEPT ![p].state = "SPENT", ![p].paid = paid]
  BY DEF Redeem
<1> HIDE DEF paid, left
<1>3. /\ pool'.vault = v - paid /\ pool'.remaining = left /\ pool'.settled
      /\ pool'.refund = pool.refund /\ pool'.yesStake = pool.yesStake
      /\ pool'.noStake = pool.noStake /\ pool' \in PoolRecords
  <2>1. PICK w \in Nat : w = v - paid
    BY <1>0, <1>1
  <2>2. pool' = [pool EXCEPT !.vault = w, !.remaining = left] /\ pool \in PoolRecords /\ left \in Nat
    BY <1>0, <1>1, <1>2, <2>1
  <2>3. pool' \in PoolRecords
    BY <2>2 DEF PoolRecords
  <2> QED BY <1>0, <2>1, <2>2, <2>3 DEF PoolRecords
<1>4. /\ position' \in [Positions -> PositionRecords]
      /\ position'[p].state = "SPENT" /\ position'[p].paid = paid /\ position'[p].amount = a
      /\ \A q \in Positions : q # p => position'[q] = position[q]
  BY <1>0, <1>1, <1>2 DEF PositionRecords
<1> HIDE DEF a, v, r
<1>5. TypeOK'
  BY <1>0, <1>3, <1>4 DEF PoolInv, TypeOK, PoolRecords, PositionRecords
<1>6. Collecting' /\ StakesArePositive'
  BY <1>0, <1>3, <1>4 DEF PoolInv, Collecting, StakesArePositive
<1>7. Solvent'
  BY <1>1, <1>3 DEF Solvent
<1>8. RefundedInFull'
  BY <1>0, <1>1, <1>3, <1>4 DEF PoolInv, RefundedInFull
<1> QED BY <1>5, <1>6, <1>7, <1>8 DEF PoolInv

\* The pool stays solvent whoever redeems, in whatever order.
LEMMA PoolInvariant == Spec => []PoolInv
<1>1. Init => PoolInv
  <2> SUFFICES ASSUME Init PROVE PoolInv
    OBVIOUS
  <2>1. MaxPoolValue \in Nat /\ pool = NewPool /\ \A p \in Positions : position[p] = NoPosition
    BY PoolAssumption DEF Init
  <2>2. NewPool \in PoolRecords /\ NewPool.yesStake + NewPool.noStake <= MaxPoolValue
    BY <2>1 DEF NewPool, PoolRecords
  <2>3. NoPosition \in PositionRecords
    BY DEF NoPosition, PositionRecords, Outcomes
  <2>4. position \in [Positions -> PositionRecords]
    BY <2>3 DEF Init
  <2>5. TypeOK
    BY <2>1, <2>2, <2>4, PoolTypes DEF Init
  <2>6. ~pool.settled /\ pool.yesPool = pool.yesStake /\ pool.noPool = pool.noStake /\ pool.vault = 0
    BY <2>1 DEF NewPool
  <2>7. \A p \in Positions : position[p].state = "NONE"
    BY <2>1 DEF NoPosition
  <2> QED BY <2>5, <2>6, <2>7 DEF PoolInv, Collecting, Solvent, RefundedInFull, StakesArePositive
<1>2. PoolInv /\ [Next]_vars => PoolInv'
  <2> SUFFICES ASSUME PoolInv, [Next]_vars PROVE PoolInv'
    OBVIOUS
  <2>1. CASE \E p \in Positions, amount \in Amounts, outcome \in Outcomes : Enter(p, amount, outcome)
    BY <2>1, EnterKeeps
  <2>2. CASE \E p \in Positions : Redeem(p)
    BY <2>2, RedeemKeeps
  <2>3. CASE SettlePool
    BY <2>3, SettleKeeps
  <2>4. CASE Close \/ SetPaused \/ UNCHANGED vars \/ \E result \in Results : IssueCertificate(result)
    <3>1. pool' = pool /\ position' = position
      BY <2>4 DEF Close, SetPaused, vars, IssueCertificate
    <3>2. paused' \in BOOLEAN /\ closed' \in BOOLEAN /\ certificate' \in Results \cup {"NONE"}
      BY <2>4, PoolTypes DEF PoolInv, Close, SetPaused, vars, IssueCertificate
    <3> QED BY <3>1, <3>2 DEF PoolInv, TypeOK, Collecting, Solvent, RefundedInFull, StakesArePositive
  <2> QED BY <2>1, <2>2, <2>3, <2>4 DEF Next
<1> QED BY <1>1, <1>2, PTL DEF Spec

-----------------------------------------------------------------------------
(* The accounts of the pool                                                *)

Taken == Held \cup Spent
Side(outcome) == {p \in Taken : position[p].outcome = outcome}

\* Before the settlement the stakes of the pool are the sums of its positions.
StakesAreSums ==
    ~pool.settled =>
        /\ pool.yesStake = Staked(Side("YES"))
        /\ pool.noStake = Staked(Side("NO"))
        /\ pool.yesStake + pool.noStake = Staked(Taken)

\* After it, the vault is what came in and did not go out.
VaultIsTheRest == pool.settled => pool.vault = Staked(Taken) - PaidTo(Spent)

\* What is left to be claimed is what the holders left to come may claim.
RemainingIsHeld ==
    pool.settled =>
        /\ pool.remaining = Staked(Winners(Held))
        /\ pool.remaining <= Staked(Winners(Taken))

\* Stakes are handed back exactly when the claim is unresolved or the winning side is empty.
RefundIsDue ==
    pool.settled =>
        /\ pool.result \in Results
        /\ pool.refund <=> \/ pool.result = "UNRESOLVED"
                           \/ Staked(Side(pool.result)) = 0

\* The vault is worth what is left of the whole pool, and at most a unit more for each
\* winner who was paid.
VaultIsNear ==
    pool.settled =>
        /\ pool.remaining * Staked(Taken) <= pool.vault * Staked(Winners(Taken))
        /\ pool.vault * Staked(Winners(Taken))
              <= pool.remaining * Staked(Taken)
                    + Cardinality(Winners(Spent)) * Staked(Winners(Taken))

\* So is what each of them was paid.
PaymentsAreNear ==
    pool.settled =>
        /\ Winners(Spent) # {} => Staked(Winners(Taken)) > 0
        /\ \A p \in Winners(Spent) :
             LET share == (position[p].amount * Staked(Taken)) \div Staked(Winners(Taken))
             IN  /\ share <= position[p].paid
                 /\ position[p].paid <= share + Cardinality(Winners(Spent)) - 1

Accounts ==
    /\ StakesAreSums /\ VaultIsTheRest /\ RemainingIsHeld
    /\ RefundIsDue /\ VaultIsNear /\ PaymentsAreNear

AmountOf == [p \in Positions |-> position[p].amount]
PaidOf == [p \in Positions |-> position[p].paid]

\* The sums are numbers, over finite sets of positions.
LEMMA SumsAreNumbers ==
    ASSUME TypeOK
    PROVE  /\ AmountOf \in [Positions -> Nat] /\ PaidOf \in [Positions -> Nat]
           /\ \A S \in SUBSET Positions :
                 /\ IsFiniteSet(S)
                 /\ Staked(S) = SumFunctionOnSet(AmountOf, S) /\ PaidTo(S) = SumFunctionOnSet(PaidOf, S)
                 /\ Staked(S) \in Nat /\ PaidTo(S) \in Nat
<1>1. AmountOf \in [Positions -> Nat] /\ PaidOf \in [Positions -> Nat]
  BY PoolTypes DEF AmountOf, PaidOf, PositionRecords
<1>2. ASSUME NEW S \in SUBSET Positions
      PROVE  /\ IsFiniteSet(S)
             /\ Staked(S) = SumFunctionOnSet(AmountOf, S) /\ PaidTo(S) = SumFunctionOnSet(PaidOf, S)
             /\ Staked(S) \in Nat /\ PaidTo(S) \in Nat
  <2>1. IsFiniteSet(S)
    BY PoolAssumption, FS_Subset
  <2>2. Staked(S) = SumFunctionOnSet(AmountOf, S) /\ PaidTo(S) = SumFunctionOnSet(PaidOf, S)
    BY DEF Staked, PaidTo, AmountOf, PaidOf
  <2>3. SumFunctionOnSet(AmountOf, S) \in Nat
    BY <1>1, <2>1, SumIsNatural
  <2>4. SumFunctionOnSet(PaidOf, S) \in Nat
    BY <1>1, <2>1, SumIsNatural
  <2> QED BY <2>1, <2>2, <2>3, <2>4
<1> QED BY <1>1, <1>2

\* A sum over positions that kept their amounts is what it was.
LEMMA SameSums ==
    ASSUME TypeOK, TypeOK', NEW S \in SUBSET Positions
    PROVE  /\ (\A p \in S : position'[p].amount = position[p].amount) => Staked(S)' = Staked(S)
           /\ (\A p \in S : position'[p].paid = position[p].paid) => PaidTo(S)' = PaidTo(S)
<1>1. IsFiniteSet(S)
  BY PoolAssumption, FS_Subset
<1>2. ASSUME \A p \in S : position'[p].amount = position[p].amount
      PROVE  Staked(S)' = Staked(S)
  <2>1. \A p \in S : AmountOf'[p] = AmountOf[p]
    BY <1>2 DEF AmountOf
  <2>2. SumFunctionOnSet(AmountOf', S) = SumFunctionOnSet(AmountOf, S)
    BY <1>1, <2>1, SumSame
  <2> QED BY <2>2 DEF Staked, AmountOf
<1>3. ASSUME \A p \in S : position'[p].paid = position[p].paid
      PROVE  PaidTo(S)' = PaidTo(S)
  <2>1. \A p \in S : PaidOf'[p] = PaidOf[p]
    BY <1>3 DEF PaidOf
  <2>2. SumFunctionOnSet(PaidOf', S) = SumFunctionOnSet(PaidOf, S)
    BY <1>1, <2>1, SumSame
  <2> QED BY <2>2 DEF PaidTo, PaidOf
<1> QED BY <1>2, <1>3

\* One position more adds its amount, or what it was paid.
LEMMA OneMore ==
    ASSUME TypeOK, NEW S \in SUBSET Positions, NEW p \in Positions, p \notin S
    PROVE  /\ Staked(S \cup {p}) = position[p].amount + Staked(S)
           /\ PaidTo(S \cup {p}) = position[p].paid + PaidTo(S)
<1>1. /\ AmountOf \in [Positions -> Int] /\ PaidOf \in [Positions -> Int] /\ IsFiniteSet(S)
      /\ S \cup {p} \in SUBSET Positions
  BY SumsAreNumbers
<1>2. SumFunctionOnSet(AmountOf, S \cup {p}) = AmountOf[p] + SumFunctionOnSet(AmountOf, S)
  BY <1>1, SumAdd
<1>3. SumFunctionOnSet(PaidOf, S \cup {p}) = PaidOf[p] + SumFunctionOnSet(PaidOf, S)
  BY <1>1, SumAdd
<1> QED BY <1>1, <1>2, <1>3, SumsAreNumbers DEF AmountOf, PaidOf

\* The same after a step.
LEMMA OneMoreNext ==
    ASSUME TypeOK', NEW S \in SUBSET Positions, NEW p \in Positions, p \notin S
    PROVE  /\ Staked(S \cup {p})' = position'[p].amount + Staked(S)'
           /\ PaidTo(S \cup {p})' = position'[p].paid + PaidTo(S)'
<1>1. position' \in [Positions -> PositionRecords]
  BY DEF TypeOK, PositionRecords
<1>2. AmountOf' \in [Positions -> Int] /\ PaidOf' \in [Positions -> Int]
  BY <1>1 DEF AmountOf, PaidOf, PositionRecords
<1>3. IsFiniteSet(S)
  BY PoolAssumption, FS_Subset
<1>4. SumFunctionOnSet(AmountOf', S \cup {p}) = AmountOf'[p] + SumFunctionOnSet(AmountOf', S)
  BY <1>2, <1>3, SumAdd
<1>5. SumFunctionOnSet(PaidOf', S \cup {p}) = PaidOf'[p] + SumFunctionOnSet(PaidOf', S)
  BY <1>2, <1>3, SumAdd
<1> QED BY <1>4, <1>5 DEF Staked, PaidTo, AmountOf, PaidOf

-----------------------------------------------------------------------------
(* The operations keep the accounts                                        *)

\* A stake adds to its side and to the whole.
LEMMA EnterAccounts ==
    ASSUME PoolInv, Accounts, NEW p \in Positions, NEW amount \in Amounts,
           NEW outcome \in Outcomes, Enter(p, amount, outcome), PoolInv'
    PROVE  Accounts'
<1>1. /\ TypeOK /\ TypeOK' /\ ~pool.settled /\ amount \in Nat
      /\ position \in [Positions -> PositionRecords] /\ pool \in PoolRecords
  BY PoolTypes, PoolAssumption DEF PoolInv, Enter
<1>2. position' = [position EXCEPT ![p] = [state |-> "HELD", outcome |-> outcome,
                                           amount |-> amount, paid |-> 0]]
  BY DEF Enter
<1>3. /\ position[p].state = "NONE" /\ p \notin Taken
      /\ position'[p].state = "HELD" /\ position'[p].outcome = outcome
      /\ position'[p].amount = amount
      /\ \A q \in Positions : q # p => position'[q] = position[q]
  BY <1>1, <1>2 DEF Enter, Taken, Held, Spent
<1>4. Taken' = Taken \cup {p} /\ Taken \in SUBSET Positions
  BY <1>3 DEF Taken, Held, Spent
<1>5. /\ Side(outcome)' = Side(outcome) \cup {p}
      /\ \A o \in Outcomes : o # outcome => Side(o)' = Side(o)
      /\ \A o \in Outcomes : Side(o) \in SUBSET Positions /\ p \notin Side(o)
      /\ \A o \in Outcomes : \A q \in Side(o) : q \in Positions /\ q # p
  BY <1>3, <1>4 DEF Side
<1>6. \A S \in SUBSET Positions : p \notin S =>
          Staked(S)' = Staked(S) /\ Staked(S \cup {p})' = amount + Staked(S)
  <2> SUFFICES ASSUME NEW S \in SUBSET Positions, p \notin S
               PROVE  Staked(S)' = Staked(S) /\ Staked(S \cup {p})' = amount + Staked(S)
    OBVIOUS
  <2>1. \A q \in S : position'[q].amount = position[q].amount
    BY <1>3
  <2>2. Staked(S)' = Staked(S)
    BY <1>1, <2>1, SameSums
  <2>3. Staked(S \cup {p})' = position'[p].amount + Staked(S)'
    BY <1>1, OneMoreNext
  <2> QED BY <1>3, <2>2, <2>3
<1>7. Staked(Taken)' = amount + Staked(Taken)
  <2>1. PICK t \in SUBSET Positions : t = Taken
    BY <1>4
  <2>2. Staked(t \cup {p})' = amount + Staked(t)
    BY <1>3, <1>6, <2>1
  <2> QED BY <1>4, <2>1, <2>2
<1>8. /\ Staked(Side(outcome))' = amount + Staked(Side(outcome))
      /\ \A o \in Outcomes : o # outcome => Staked(Side(o))' = Staked(Side(o))
  <2>1. Staked(Side(outcome))' = amount + Staked(Side(outcome))
    <3>1. PICK t \in SUBSET Positions : t = Side(outcome)
      BY <1>5
    <3>2. Staked(t \cup {p})' = amount + Staked(t)
      BY <1>5, <1>6, <3>1
    <3> QED BY <1>5, <3>1, <3>2
  <2>2. ASSUME NEW o \in Outcomes, o # outcome PROVE Staked(Side(o))' = Staked(Side(o))
    <3>1. PICK t \in SUBSET Positions : t = Side(o)
      BY <1>5
    <3>2. Staked(t)' = Staked(t)
      BY <1>5, <1>6, <3>1
    <3> QED BY <1>5, <2>2, <3>1, <3>2
  <2> QED BY <2>1, <2>2
<1>9. /\ ~pool'.settled
      /\ outcome = "YES" => pool'.yesStake = pool.yesStake + amount /\ pool'.noStake = pool.noStake
      /\ outcome # "YES" => pool'.noStake = pool.noStake + amount /\ pool'.yesStake = pool.yesStake
  BY <1>1 DEF Enter, PoolRecords
<1>10. /\ pool.yesStake \in Int /\ pool.noStake \in Int /\ amount \in Int
       /\ pool.yesStake = Staked(Side("YES")) /\ pool.noStake = Staked(Side("NO"))
       /\ pool.yesStake + pool.noStake = Staked(Taken)
  BY <1>1, <1>4, <1>5, SumsAreNumbers DEF Accounts, StakesAreSums, Outcomes
<1>11. StakesAreSums'
  <2>1. "YES" \in Outcomes /\ "NO" \in Outcomes /\ outcome \in {"YES", "NO"}
    BY DEF Outcomes
  <2>2. CASE outcome = "YES"
    <3>1. Staked(Side("YES"))' = amount + Staked(Side("YES")) /\ Staked(Side("NO"))' = Staked(Side("NO"))
      BY <1>8, <2>1, <2>2
    <3> QED BY <1>7, <1>9, <1>10, <2>2, <3>1 DEF StakesAreSums
  <2>3. CASE outcome = "NO"
    <3>1. Staked(Side("NO"))' = amount + Staked(Side("NO")) /\ Staked(Side("YES"))' = Staked(Side("YES"))
      BY <1>8, <2>1, <2>3
    <3> QED BY <1>7, <1>9, <1>10, <2>3, <3>1 DEF StakesAreSums
  <2> QED BY <2>1, <2>2, <2>3
<1> QED BY <1>9, <1>11 DEF Accounts, VaultIsTheRest, RemainingIsHeld, RefundIsDue, VaultIsNear,
                           PaymentsAreNear

\* The settlement sums up: nobody was paid yet, and what is left to be claimed is the
\* winners' side, or everything.
LEMMA SettleAccounts ==
    ASSUME PoolInv, Accounts, SettlePool, PoolInv'
    PROVE  Accounts'
<1> DEFINE yes == pool.yesStake
           no == pool.noStake
<1>1. /\ TypeOK /\ TypeOK' /\ ~pool.settled /\ pool \in PoolRecords
      /\ position \in [Positions -> PositionRecords] /\ position' = position
      /\ pool.yesPool = yes /\ pool.noPool = no /\ pool.vault = 0
      /\ \A p \in Positions : position[p].state # "SPENT"
      /\ yes \in Nat /\ no \in Nat /\ certificate \in Results
  BY PoolTypes DEF PoolInv, SettlePool, Collecting, PoolRecords
<1>2. /\ Spent = {} /\ Spent' = {} /\ Held' = Held /\ Taken' = Taken /\ Taken = Held
      /\ Taken \in SUBSET Positions
  BY <1>1 DEF Spent, Held, Taken
<1>3. /\ \A S \in SUBSET Positions : Staked(S)' = Staked(S) /\ PaidTo(S)' = PaidTo(S)
      /\ \A o \in Outcomes : Side(o)' = Side(o) /\ Side(o) \in SUBSET Positions
  BY <1>1, <1>2 DEF Staked, PaidTo, Side
<1>4. /\ yes = Staked(Side("YES")) /\ no = Staked(Side("NO")) /\ yes + no = Staked(Taken)
  BY <1>1 DEF Accounts, StakesAreSums
<1>5. /\ pool'.settled /\ pool'.vault = yes + no /\ pool'.result = certificate
      /\ pool'.refund = RefundMode
      /\ RefundMode => pool'.remaining = yes + no
      /\ ~RefundMode => pool'.remaining = WinningStake
  BY <1>1 DEF SettlePool, PoolRecords
<1>6. RefundMode <=> \/ certificate = "UNRESOLVED"
                      \/ Staked(Side(certificate)) = 0
  <2>1. certificate \in Outcomes => WinningStake = Staked(Side(certificate))
    BY <1>4 DEF WinningStake, Outcomes
  <2>2. certificate = "UNRESOLVED" \/ certificate \in Outcomes
    BY <1>1 DEF Results
  <2> QED BY <2>1, <2>2 DEF RefundMode
<1>7. PICK t \in SUBSET Positions : t = Taken
  BY <1>2
<1>8. PICK w \in SUBSET Positions : w = (IF RefundMode THEN Taken ELSE Side(certificate))
  <2>1. ~RefundMode => certificate \in Outcomes
    BY <1>1 DEF RefundMode, Results
  <2> QED BY <1>2, <1>3, <2>1
<1>9. Winners(Taken)' = w /\ Winners(Held)' = w
  <2>1. CASE RefundMode
    BY <1>2, <1>5, <1>8, <2>1 DEF Winners, Eligible
  <2>2. CASE ~RefundMode
    BY <1>1, <1>2, <1>5, <1>8, <2>2 DEF Winners, Eligible, Side
  <2> QED BY <2>1, <2>2
<1>10. Staked(t)' = Staked(t) /\ Staked(w)' = Staked(w)
  BY <1>3
<1>11. Staked(t) = yes + no
  BY <1>4, <1>7
<1>12. Staked(w) = pool'.remaining
  <2>1. CASE RefundMode
    BY <1>4, <1>5, <1>8, <2>1
  <2>2. CASE ~RefundMode
    <3>1. certificate \in Outcomes
      BY <1>1, <2>2 DEF RefundMode, Results
    <3>2. WinningStake = Staked(Side(certificate))
      BY <1>4, <3>1 DEF WinningStake, Outcomes
    <3> QED BY <1>5, <1>8, <2>2, <3>2
  <2> QED BY <2>1, <2>2
<1>13. /\ Staked(Taken)' = yes + no /\ Staked(Winners(Taken))' = pool'.remaining
       /\ Staked(Winners(Held))' = pool'.remaining
  BY <1>2, <1>7, <1>9, <1>10, <1>11, <1>12
<1>14. PaidTo(Spent)' = 0 /\ Winners(Spent)' = {}
  <2>1. IsFiniteSet({})
    BY FS_EmptySet
  <2>2. SumFunctionOnSet(PaidOf', {}) = 0
    BY <2>1, SumStep
  <2> QED BY <1>2, <2>2 DEF PaidTo, PaidOf, Winners
<1>15. pool'.remaining \in Nat /\ pool'.vault \in Nat
  BY <1>1 DEF TypeOK
<1>16. VaultIsTheRest' /\ RemainingIsHeld'
  BY <1>1, <1>5, <1>13, <1>14, <1>15 DEF VaultIsTheRest, RemainingIsHeld
<1>17. RefundIsDue'
  <2>1. CASE certificate = "UNRESOLVED"
    BY <1>1, <1>5, <1>6, <2>1 DEF RefundIsDue
  <2>2. CASE certificate \in Outcomes
    <3>1. PICK s \in SUBSET Positions : s = Side(certificate)
      BY <1>3, <2>2
    <3>2. Staked(s)' = Staked(s) /\ Side(pool.result)' = s
      <4>1. Side(pool.result)' = {p \in Taken : position[p].outcome = certificate}
        BY <1>1, <1>2, <1>5 DEF Side
      <4> QED BY <1>3, <3>1, <4>1 DEF Side
    <3>3. Staked(Side(pool.result))' = Staked(s)
      BY <3>2
    <3> QED BY <3>3, <1>1, <1>5, <1>6, <3>1, <3>2 DEF RefundIsDue
  <2> QED BY <1>1, <2>1, <2>2 DEF Results
<1>18. VaultIsNear'
  <2>1. Cardinality(Winners(Spent))' = 0
    BY <1>14, FS_EmptySet
  <2>2. PICK m \in Nat, v \in Nat : m = pool'.remaining /\ v = yes + no
    BY <1>1, <1>15
  <2>3. m * v <= v * m /\ v * m <= m * v + 0 * m
    BY Z3
  <2> QED BY <1>5, <1>13, <2>1, <2>2, <2>3 DEF VaultIsNear
<1>19. StakesAreSums' /\ PaymentsAreNear'
  BY <1>5, <1>14 DEF StakesAreSums, PaymentsAreNear
<1> QED BY <1>16, <1>17, <1>18, <1>19 DEF Accounts

\* The last eligible redeemer's payment is the same proportion as the others'.
LEMMA PaymentIsProportional ==
    ASSUME PoolInv, NEW p \in Positions, Redeem(p), Eligible(p)
    PROVE  PayoutOf(p) = (position[p].amount * pool.vault) \div pool.remaining
<1>1. pool.vault \in Nat /\ pool.remaining \in Nat /\ pool.remaining > 0
  BY DEF PoolInv, TypeOK, Redeem
<1>2. \A x \in Nat, n \in Nat \ {0} : (n * x) \div n = x
  BY Z3
<1>3. CASE position[p].amount = pool.remaining
  BY <1>1, <1>2, <1>3 DEF PayoutOf
<1>4. CASE position[p].amount # pool.remaining
  BY <1>4 DEF PayoutOf
<1> QED BY <1>3, <1>4

\* A redemption moves its position, its payment and, if it could win, its stake.
LEMMA RedeemAccounts ==
    ASSUME PoolInv, Accounts, NEW p \in Positions, Redeem(p), PoolInv'
    PROVE  Accounts'
<1> DEFINE a == position[p].amount
           v == pool.vault
           r == pool.remaining
           paid == PayoutOf(p)
<1>1. /\ TypeOK /\ TypeOK' /\ pool.settled /\ pool \in PoolRecords
      /\ position \in [Positions -> PositionRecords] /\ position[p].state = "HELD"
      /\ a \in Nat /\ v \in Nat /\ r \in Nat /\ certificate' = certificate
      /\ Eligible(p) => a <= r /\ r > 0
      /\ ~Eligible(p) => paid = 0
  BY PoolTypes DEF PoolInv, Redeem, PoolRecords, PositionRecords, PayoutOf
<1>2. /\ pool' = [pool EXCEPT !.vault = @ - paid,
                              !.remaining = IF Eligible(p) THEN @ - a ELSE @]
      /\ position' = [position EXCEPT ![p].state = "SPENT", ![p].paid = paid]
  BY DEF Redeem
<1>3. paid \in Nat
  <2>1. CASE ~Eligible(p)
    BY <1>1, <2>1
  <2>2. CASE Eligible(p)
    <3>1. \A x \in Nat, n \in Nat \ {0} : (x \div n) \in Nat
      BY Z3
    <3>2. a * v \in Nat
      BY <1>1, Scaling
    <3> QED BY <1>1, <2>2, <3>1, <3>2, PaymentIsProportional
  <2> QED BY <2>1, <2>2
<1> HIDE DEF paid
<1>4. /\ pool'.settled /\ pool'.vault = v - paid
      /\ pool'.result = pool.result /\ pool'.refund = pool.refund
      /\ Eligible(p) => pool'.remaining = r - a
      /\ ~Eligible(p) => pool'.remaining = r
  BY <1>1, <1>2 DEF PoolRecords
<1>5. /\ position'[p].state = "SPENT" /\ position'[p].paid = paid
      /\ \A q \in Positions : q # p => position'[q] = position[q]
      /\ \A q \in Positions : /\ position'[q].amount = position[q].amount
                               /\ position'[q].outcome = position[q].outcome
  BY <1>1, <1>2 DEF PositionRecords
<1>6. /\ Held' = Held \ {p} /\ Spent' = Spent \cup {p} /\ Taken' = Taken
      /\ p \in Held /\ p \notin Spent
      /\ Held \in SUBSET Positions /\ Spent \in SUBSET Positions /\ Taken \in SUBSET Positions
  BY <1>1, <1>5 DEF Held, Spent, Taken
<1>7. \A q \in Positions : Eligible(q)' = Eligible(q)
  BY <1>4, <1>5 DEF Eligible
<1>8. /\ Winners(Taken)' = Winners(Taken) /\ Winners(Taken) \in SUBSET Positions
      /\ Winners(Held)' = Winners(Held) \ {p} /\ Winners(Held) \in SUBSET Positions
      /\ Winners(Spent) \in SUBSET Positions /\ p \notin Winners(Spent)
      /\ Eligible(p) => p \in Winners(Held) /\ Winners(Spent)' = Winners(Spent) \cup {p}
      /\ ~Eligible(p) => p \notin Winners(Held) /\ Winners(Spent)' = Winners(Spent)
  BY <1>6, <1>7 DEF Winners
<1>9. \A S \in SUBSET Positions : Staked(S)' = Staked(S)
  BY <1>1, <1>5, SameSums
<1>10. PICK taken, win, held, spent \in SUBSET Positions :
          taken = Taken /\ win = Winners(Taken) /\ held = Winners(Held) /\ spent = Spent
  BY <1>6, <1>8
<1>11. PICK t \in Nat, w \in Nat : t = Staked(taken) /\ w = Staked(win)
  BY <1>1, SumsAreNumbers
<1>12. /\ Staked(Taken) = t /\ Staked(Taken)' = t
       /\ Staked(Winners(Taken)) = w /\ Staked(Winners(Taken))' = w
  BY <1>6, <1>8, <1>9, <1>10, <1>11
<1>13. PaidTo(Spent)' = paid + PaidTo(Spent)
  <2>1. PaidTo(spent \cup {p})' = position'[p].paid + PaidTo(spent)'
    BY <1>1, <1>6, <1>10, OneMoreNext
  <2>2. PaidTo(spent)' = PaidTo(spent)
    <3>1. \A q \in spent : position'[q].paid = position[q].paid
      BY <1>5, <1>6, <1>10
    <3> QED BY <1>1, <3>1, SameSums
  <2> QED BY <1>5, <1>6, <1>10, <2>1, <2>2
<1>14. VaultIsTheRest'
  <2>1. PaidTo(Spent) \in Int /\ v = t - PaidTo(Spent)
    BY <1>1, <1>6, <1>12, SumsAreNumbers DEF Accounts, VaultIsTheRest
  <2> QED BY <1>1, <1>3, <1>4, <1>12, <1>13, <2>1 DEF VaultIsTheRest
<1>15. r = Staked(held) /\ r <= w
  BY <1>1, <1>10, <1>12 DEF Accounts, RemainingIsHeld
<1>16. RemainingIsHeld'
  <2>1. CASE Eligible(p)
    <3>1. held \ {p} \in SUBSET Positions /\ p \notin held \ {p} /\ (held \ {p}) \cup {p} = held
      BY <1>8, <1>10, <2>1
    <3>2. Staked(held) = a + Staked(held \ {p})
      BY <1>1, <3>1, OneMore
    <3>3. Staked(held \ {p}) \in Int /\ Staked(held \ {p})' = Staked(held \ {p})
      BY <1>1, <1>9, <3>1, SumsAreNumbers
    <3>4. Staked(Winners(Held))' = r - a
      BY <1>1, <1>8, <1>10, <1>15, <3>2, <3>3
    <3> QED BY <1>1, <1>4, <1>12, <1>15, <2>1, <3>4 DEF RemainingIsHeld
  <2>2. CASE ~Eligible(p)
    <3>1. Winners(Held)' = held /\ Staked(held)' = Staked(held)
      BY <1>8, <1>9, <1>10, <2>2
    <3> QED BY <1>4, <1>10, <1>12, <1>15, <2>2, <3>1 DEF RemainingIsHeld
  <2> QED BY <2>1, <2>2
<1>17. RefundIsDue'
  <2>1. /\ pool.result \in Results
        /\ pool.refund <=> pool.result = "UNRESOLVED" \/ Staked(Side(pool.result)) = 0
    BY <1>1 DEF Accounts, RefundIsDue
  <2>2. PICK s \in SUBSET Positions : s = Side(pool.result)
    BY <1>6 DEF Side
  <2>3. Side(pool.result)' = s
    BY <1>4, <1>5, <1>6, <2>2 DEF Side
  <2>4. Staked(Side(pool.result))' = Staked(Side(pool.result))
    BY <1>9, <2>2, <2>3
  <2> QED BY <1>4, <2>1, <2>4 DEF RefundIsDue
<1>18. PICK k \in Nat : k = Cardinality(Winners(Spent))
  <2>1. IsFiniteSet(Winners(Spent))
    BY <1>8, PoolAssumption, FS_Subset
  <2> QED BY <2>1, FS_CardinalityType
<1>19. /\ Eligible(p) => Cardinality(Winners(Spent))' = k + 1
       /\ ~Eligible(p) => Cardinality(Winners(Spent))' = k
  <2>1. IsFiniteSet(Winners(Spent))
    BY <1>8, PoolAssumption, FS_Subset
  <2>2. Cardinality(Winners(Spent) \cup {p}) = k + 1
    BY <1>8, <1>18, <2>1, FS_AddElement
  <2> QED BY <1>8, <1>18, <2>2
<1>20. /\ r * t <= v * w /\ v * w <= r * t + k * w
       /\ \A q \in Winners(Spent) :
             LET share == (position[q].amount * t) \div w
             IN  share <= position[q].paid /\ position[q].paid <= share + k - 1
       /\ Winners(Spent) # {} => w > 0
  BY <1>1, <1>12, <1>18 DEF Accounts, VaultIsNear, PaymentsAreNear
<1>21. /\ Eligible(p) => LET share == (a * t) \div w IN
             /\ share \in Nat /\ share <= paid /\ paid <= share + k
             /\ (r - a) * t <= (v - paid) * w
             /\ (v - paid) * w <= (r - a) * t + (k + 1) * w
  <2> SUFFICES ASSUME Eligible(p)
               PROVE  LET share == (a * t) \div w IN
                         /\ share \in Nat /\ share <= paid /\ paid <= share + k
                         /\ (r - a) * t <= (v - paid) * w
                         /\ (v - paid) * w <= (r - a) * t + (k + 1) * w
    OBVIOUS
  <2>1. paid = (a * v) \div r
    BY PaymentIsProportional DEF paid
  <2>2. PICK share : share = (a * t) \div w
    OBVIOUS
  <2>3. 0 < w /\ a <= r /\ 0 < r
    BY <1>1, <1>15
  <2>4. a \in Nat /\ v \in Nat /\ r \in Nat /\ r * t <= v * w /\ v * w <= r * t + k * w
    BY <1>1, <1>20
  <2> HIDE DEF a, v, r
  <2>5. /\ share \in Nat /\ share <= paid /\ paid <= share + k
        /\ (r - a) * t <= (v - paid) * w
        /\ (v - paid) * w <= (r - a) * t + (k + 1) * w
    BY <2>1, <2>2, <2>3, <2>4, NearShare
  <2> QED BY <2>2, <2>5
<1>22. VaultIsNear'
  <2>1. /\ pool'.remaining * t <= pool'.vault * w
        /\ pool'.vault * w <= pool'.remaining * t + Cardinality(Winners(Spent))' * w
    <3>1. CASE Eligible(p)
      BY <1>4, <1>19, <1>21, <3>1
    <3>2. CASE ~Eligible(p)
      <4>1. pool'.vault = v
        BY <1>1, <1>4, <3>2
      <4> QED BY <1>4, <1>19, <1>20, <3>2, <4>1
    <3> QED BY <3>1, <3>2
  <2> QED BY <1>12, <2>1 DEF VaultIsNear
<1>23. PaymentsAreNear'
  <2>1. PICK c \in Nat : c = Cardinality(Winners(Spent))'
    BY <1>19
  <2>2. k <= c /\ (Eligible(p) => c = k + 1)
    BY <1>19, <2>1
  <2>3. ASSUME NEW q \in Winners(Spent)'
        PROVE  LET share == (position'[q].amount * t) \div w
               IN  share <= position'[q].paid /\ position'[q].paid <= share + c - 1
    <3>1. CASE q \in Winners(Spent)
      <4>1. position'[q] = position[q] /\ position[q] \in PositionRecords
        BY <1>1, <1>5, <1>8, <3>1
      <4>2. PICK share : share = (position[q].amount * t) \div w
        OBVIOUS
      <4>3. share <= position[q].paid /\ position[q].paid <= share + k - 1
        BY <1>20, <3>1, <4>2
      <4>4. position[q].paid \in Nat /\ position[q].amount \in Nat
        BY <4>1 DEF PositionRecords
      <4>5. share \in Int
        <5>1. position[q].amount * t \in Nat /\ w > 0
          BY <1>20, <3>1, <4>4, Scaling
        <5> QED BY <4>2, <5>1
      <4>6. position[q].paid <= share + c - 1
        BY <2>2, <4>3, <4>4, <4>5
      <4> QED BY <4>1, <4>2, <4>3, <4>6
    <3>2. CASE q \notin Winners(Spent)
      <4>1. q = p /\ Eligible(p)
        BY <1>8, <3>2
      <4>2. position'[q].paid = paid /\ position'[q].amount = a
        BY <1>5, <4>1
      <4>3. PICK share : share = (a * t) \div w
        OBVIOUS
      <4>4. share \in Nat /\ share <= paid /\ paid <= share + k /\ c = k + 1
        BY <1>21, <2>2, <4>1, <4>3
      <4>5. paid <= share + c - 1
        BY <1>3, <4>4
      <4> QED BY <4>2, <4>3, <4>4, <4>5
    <3> QED BY <3>1, <3>2
  <2>4. Winners(Spent)' # {} => w > 0
    <3>1. CASE Eligible(p)
      BY <1>1, <1>15, <3>1
    <3>2. CASE ~Eligible(p)
      BY <1>8, <1>20, <3>2
    <3> QED BY <3>1, <3>2
  <2> QED BY <1>12, <2>1, <2>3, <2>4 DEF PaymentsAreNear
<1>24. StakesAreSums'
  BY <1>4 DEF StakesAreSums
<1> QED BY <1>14, <1>16, <1>17, <1>22, <1>23, <1>24 DEF Accounts

\* The accounts are kept by every run.
LEMMA AccountsInvariant == Spec => []Accounts
<1>1. Init => Accounts
  <2> SUFFICES ASSUME Init PROVE Accounts
    OBVIOUS
  <2>1. /\ Taken = {} /\ Side("YES") = {} /\ Side("NO") = {}
        /\ ~pool.settled /\ pool.yesStake = 0 /\ pool.noStake = 0
    BY DEF Init, Taken, Held, Spent, Side, NoPosition, NewPool
  <2>2. Staked({}) = 0
    <3>1. IsFiniteSet({})
      BY FS_EmptySet
    <3>2. SumFunctionOnSet(AmountOf, {}) = 0
      BY <3>1, SumStep
    <3> QED BY <3>2 DEF Staked, AmountOf
  <2>3. StakesAreSums
    BY <2>1, <2>2 DEF StakesAreSums
  <2> QED BY <2>1, <2>3 DEF Accounts, VaultIsTheRest, RemainingIsHeld, RefundIsDue, VaultIsNear,
                            PaymentsAreNear
<1>2. PoolInv /\ PoolInv' /\ Accounts /\ [Next]_vars => Accounts'
  <2> SUFFICES ASSUME PoolInv, PoolInv', Accounts, [Next]_vars PROVE Accounts'
    OBVIOUS
  <2>1. CASE \E p \in Positions, amount \in Amounts, outcome \in Outcomes : Enter(p, amount, outcome)
    BY <2>1, EnterAccounts
  <2>2. CASE \E p \in Positions : Redeem(p)
    BY <2>2, RedeemAccounts
  <2>3. CASE SettlePool
    BY <2>3, SettleAccounts
  <2>4. CASE Close \/ SetPaused \/ UNCHANGED vars \/ \E result \in Results : IssueCertificate(result)
    <3>1. pool' = pool /\ position' = position
      BY <2>4 DEF Close, SetPaused, vars, IssueCertificate
    <3> QED BY <3>1 DEF Accounts, StakesAreSums, VaultIsTheRest, RemainingIsHeld, RefundIsDue,
                        VaultIsNear, PaymentsAreNear, Staked, PaidTo, Winners, Eligible, Taken,
                        Side, Held, Spent
  <2> QED BY <2>1, <2>2, <2>3, <2>4 DEF Next
<1> QED BY <1>1, <1>2, PoolInvariant, PTL DEF Spec

-----------------------------------------------------------------------------
(* What is proved                                                          *)

\* The types, with stakes that never exceed the demonstration's cap.
THEOREM PoolTypesHold == Spec => []TypeOK
<1>1. PoolInv => TypeOK
  BY DEF PoolInv
<1> QED BY <1>1, PoolInvariant, PTL

\* Once settled, the vault holds every coin that came in and did not go out, and what is left
\* to be claimed is exactly what the holders left to come may claim; each of them can at least
\* get his stake, and nothing is left when all have come (demo_binary_pool::redeem).
THEOREM VaultIsBacked == Spec => []VaultBacksTheHolders
<1>1. PoolInv /\ Accounts => VaultBacksTheHolders
  BY DEF PoolInv, Solvent, Accounts, VaultIsTheRest, RemainingIsHeld, VaultBacksTheHolders, Taken
<1> QED BY <1>1, PoolInvariant, AccountsInvariant, PTL

\* What a winner is paid is his share of the whole pool, whenever he comes, but for the
\* roundings of the winners before him; and the stakes come back to the unit when no side can
\* win (demo_binary_pool::redeem and settle_pool).
THEOREM OrderMattersByRoundingOnly == Spec => []OrderHardlyMatters
<1>1. PoolInv /\ Accounts => OrderHardlyMatters
  <2> SUFFICES ASSUME PoolInv, Accounts PROVE OrderHardlyMatters
    OBVIOUS
  <2>1. ASSUME NEW p \in Winners(Spent), pool.settled
        PROVE  LET share == (position[p].amount * Staked(Held \cup Spent))
                               \div Staked(Winners(Held \cup Spent))
               IN  /\ share <= position[p].paid
                   /\ position[p].paid <= share + Cardinality(Winners(Spent)) - 1
    BY <2>1 DEF Accounts, PaymentsAreNear, Taken
  <2>2. ASSUME pool.settled,
               \/ pool.result = "UNRESOLVED"
               \/ Staked({q \in Held \cup Spent : position[q].outcome = pool.result}) = 0,
               NEW p \in Spent
        PROVE  position[p].paid = position[p].amount
    <3>1. pool.refund
      BY <2>2 DEF Accounts, RefundIsDue, Side, Taken
    <3> QED BY <2>2, <3>1 DEF PoolInv, RefundedInFull, Spent
  <2> QED BY <2>1, <2>2 DEF OrderHardlyMatters
<1> QED BY <1>1, PoolInvariant, AccountsInvariant, PTL
=============================================================================
