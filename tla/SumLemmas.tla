----------------------------- MODULE SumLemmas -----------------------------
(***************************************************************************)
(* Induction, sums over finite sets and products, for the proofs.          *)
(***************************************************************************)
EXTENDS Integers, FiniteSets, Functions, FiniteSetTheorems, WellFoundedInduction, TLAPS

\* Induction over the natural numbers, for the set where something holds.
LEMMA NatSetInduction ==
  ASSUME NEW A \in SUBSET Nat, 0 \in A, \A n \in A : n + 1 \in A
  PROVE  A = Nat
<1> SUFFICES ASSUME Nat \ A # {} PROVE FALSE
  OBVIOUS
<1>1. PICK m \in Nat \ A : \A k \in Nat \ A : ~(<<k, m>> \in OpToRel(<, Nat))
  BY NatLessThanWellFounded, WFMin
<1>2. \A k \in Nat \ A : ~(k < m)
  BY <1>1 DEF OpToRel
<1>3. m - 1 \in Nat /\ m - 1 < m
  OBVIOUS
<1>4. m - 1 \in A
  BY <1>2, <1>3
<1> QED BY <1>4

\* Induction up to n, for the set where something holds.
LEMMA InductionUpTo ==
  ASSUME NEW n \in Nat, NEW A, 0 \in A, \A k \in 0 .. n - 1 : k \in A => k + 1 \in A
  PROVE  0 .. n \subseteq A
<1> DEFINE B == {k \in Nat : k <= n => k \in A}
<1>1. B \in SUBSET Nat /\ 0 \in B /\ \A k \in B : k + 1 \in B
  OBVIOUS
<1> HIDE DEF B
<1>2. B = Nat
  BY ONLY <1>1, NatSetInduction
<1> QED BY <1>2 DEF B

\* Induction over the subsets of a finite set, for the set of those of which
\* something holds.
LEMMA SubsetInduction ==
  ASSUME NEW S, IsFiniteSet(S), NEW A,
         \A T \in SUBSET S : (\A x \in T : T \ {x} \in A) => T \in A
  PROVE  \A T \in SUBSET S : T \in A
<1> DEFINE N == {n \in Nat : \A T \in SUBSET S : Cardinality(T) = n => T \in A}
<1>1. ASSUME NEW T \in SUBSET S PROVE IsFiniteSet(T) /\ Cardinality(T) \in Nat
  BY FS_Subset, FS_CardinalityType
<1>2. ASSUME NEW T \in SUBSET S, Cardinality(T) = 0 PROVE T \in A
  BY <1>1, <1>2, FS_EmptySet
<1>3. ASSUME NEW n \in N, NEW T \in SUBSET S, Cardinality(T) = n + 1 PROVE T \in A
  <2>1. ASSUME NEW x \in T PROVE T \ {x} \in A
    <3>1. T \ {x} \in SUBSET S /\ Cardinality(T \ {x}) = n
      BY <1>1, <1>3, FS_RemoveElement
    <3> QED BY <3>1
  <2> QED BY <2>1
<1>4. N \in SUBSET Nat /\ 0 \in N
  BY <1>2
<1>5. \A n \in N : n + 1 \in N
  BY <1>3
<1> HIDE DEF N
<1>6. N = Nat
  BY <1>4, <1>5, NatSetInduction
<1> QED BY <1>1, <1>6 DEF N

-----------------------------------------------------------------------------
\* The recursion a sum is made of: an element is taken out, and the rest
\* summed.
Pick(T) == CHOOSE x \in T : TRUE
SumsUp(g, f, D) ==
  g = [T \in SUBSET D |-> IF T = {} THEN 0 ELSE f[Pick(T)] + g[T \ {Pick(T)}]]

LEMMA PickIn == ASSUME NEW T, T # {} PROVE Pick(T) \in T
BY DEF Pick

\* The recursion has a solution.
LEMMA SumsExist ==
  ASSUME NEW f, NEW D, IsFiniteSet(D) PROVE \E g : SumsUp(g, f, D)
<1> DEFINE Level(n) == {T \in SUBSET D : Cardinality(T) <= n}
           Solves(g, n) ==
             g = [T \in Level(n) |-> IF T = {} THEN 0 ELSE f[Pick(T)] + g[T \ {Pick(T)}]]
           Solved(n) == \E g : Solves(g, n)
           A == {n \in Nat : Solved(n)}
<1>1. ASSUME NEW T \in SUBSET D PROVE IsFiniteSet(T) /\ Cardinality(T) \in Nat
  BY FS_Subset, FS_CardinalityType
<1>2. ASSUME NEW T \in SUBSET D, T # {}
      PROVE  T \ {Pick(T)} \in SUBSET D /\ Cardinality(T \ {Pick(T)}) = Cardinality(T) - 1
  BY <1>1, <1>2, FS_RemoveElement, PickIn
<1>3. Solved(0)
  <2> DEFINE g == [T \in Level(0) |-> 0]
  <2>1. ASSUME NEW T \in Level(0) PROVE T = {}
    BY <1>1, FS_EmptySet
  <2>2. Solves(g, 0)
    BY <2>1
  <2> HIDE DEF Solves
  <2> QED BY <2>2
<1>4. ASSUME NEW n \in Nat, Solved(n) PROVE Solved(n + 1)
  <2> HIDE DEF Solves
  <2>1. PICK g : Solves(g, n)
    BY <1>4
  <2> DEFINE h == [T \in Level(n + 1) |->
                     IF Cardinality(T) <= n THEN g[T]
                     ELSE f[Pick(T)] + g[T \ {Pick(T)}]]
  <2>2. \A T \in Level(n) : g[T] = IF T = {} THEN 0 ELSE f[Pick(T)] + g[T \ {Pick(T)}]
    BY <2>1 DEF Solves
  <2>3. ASSUME NEW T \in Level(n + 1)
        PROVE  h[T] = IF T = {} THEN 0 ELSE f[Pick(T)] + h[T \ {Pick(T)}]
    <3> DEFINE R == T \ {Pick(T)}
    <3>1. CASE T = {}
      <4>1. Cardinality(T) = 0 /\ T \in Level(n)
        BY <3>1, FS_EmptySet
      <4> QED BY <2>2, <3>1, <4>1
    <3>2. CASE T # {}
      <4>1. Cardinality(T) \in Nat /\ Cardinality(R) = Cardinality(T) - 1
        BY <1>1, <1>2, <3>2
      <4>2. R \in Level(n) /\ R \in Level(n + 1) /\ Cardinality(R) <= n
        BY <4>1
      <4>3. h[R] = g[R]
        BY <4>2
      <4>4. Cardinality(T) <= n => g[T] = f[Pick(T)] + g[R]
        BY <2>2, <3>2
      <4> QED BY <3>2, <4>3, <4>4
    <3> QED BY <3>1, <3>2
  <2>4. Solves(h, n + 1)
    BY <2>3 DEF Solves
  <2> QED BY <2>4
<1> HIDE DEF Solved
<1>5. A = Nat
  <2>1. 0 \in A /\ \A n \in A : n + 1 \in A
    BY <1>3, <1>4
  <2> HIDE DEF A
  <2>2. A \in SUBSET Nat
    BY DEF A
  <2> QED BY <2>1, <2>2, NatSetInduction
<1>6. Solved(Cardinality(D))
  BY <1>1, <1>5
<1>7. Level(Cardinality(D)) = SUBSET D
  BY FS_Subset
<1> QED BY <1>6, <1>7 DEF SumsUp, Solved

\* The sum over S is the value at S of that recursion.
LEMMA SumDef ==
  ASSUME NEW f, NEW S, IsFiniteSet(S)
  PROVE  \E g : SumsUp(g, f, S) /\ SumFunctionOnSet(f, S) = g[S]
<1> DEFINE Sum(iter) == iter = [T \in SUBSET S |->
                   IF T = {} THEN 0 ELSE f[CHOOSE x \in T : TRUE] + iter[T \ {CHOOSE x \in T : TRUE}]]
           g == CHOOSE iter : Sum(iter)
<1>1. SumFunctionOnSet(f, S) = g[S]
  BY DEF SumFunctionOnSet, FoldFunctionOnSet, MapThenFoldSet
<1>2. ASSUME NEW iter PROVE Sum(iter) <=> SumsUp(iter, f, S)
  BY DEF SumsUp, Pick
<1>3. PICK iter : SumsUp(iter, f, S)
  BY SumsExist
<1> HIDE DEF Sum
<1>4. Sum(g)
  BY <1>2, <1>3
<1> QED BY <1>1, <1>2, <1>4

\* Two such recursions agree where both are defined.
LEMMA SumsAgree ==
  ASSUME NEW f, NEW D, IsFiniteSet(D), NEW E \in SUBSET D,
         NEW g, SumsUp(g, f, D), NEW h, SumsUp(h, f, E)
  PROVE  \A T \in SUBSET E : g[T] = h[T]
<1> DEFINE A == {T \in SUBSET E : g[T] = h[T]}
<1>1. IsFiniteSet(E)
  BY FS_Subset
<1>2. ASSUME NEW T \in SUBSET E, \A x \in T : T \ {x} \in A PROVE T \in A
  <2>1. /\ g[T] = IF T = {} THEN 0 ELSE f[Pick(T)] + g[T \ {Pick(T)}]
        /\ h[T] = IF T = {} THEN 0 ELSE f[Pick(T)] + h[T \ {Pick(T)}]
    BY DEF SumsUp
  <2>2. T # {} => g[T \ {Pick(T)}] = h[T \ {Pick(T)}]
    BY <1>2, PickIn
  <2> QED BY <2>1, <2>2
<1> HIDE DEF A
<1>3. \A T \in SUBSET E : T \in A
  BY <1>1, <1>2, SubsetInduction
<1> QED BY <1>3 DEF A

\* The sum over the empty set, and over a set less the element that is picked.
LEMMA SumEmpty == ASSUME NEW f PROVE SumFunctionOnSet(f, {}) = 0
<1>1. IsFiniteSet({})
  BY FS_EmptySet
<1>2. PICK g : SumsUp(g, f, {}) /\ SumFunctionOnSet(f, {}) = g[{}]
  BY <1>1, SumDef
<1>3. {} \in SUBSET {} /\ g[{}] = 0
  BY <1>2 DEF SumsUp
<1> QED BY <1>2, <1>3

LEMMA SumPick ==
  ASSUME NEW f, NEW S, IsFiniteSet(S), S # {}
  PROVE  SumFunctionOnSet(f, S) = f[Pick(S)] + SumFunctionOnSet(f, S \ {Pick(S)})
<1> DEFINE R == S \ {Pick(S)}
<1>1. IsFiniteSet(R) /\ R \in SUBSET S
  BY FS_Subset
<1>2. PICK g : SumsUp(g, f, S) /\ SumFunctionOnSet(f, S) = g[S]
  BY SumDef
<1>3. PICK h : SumsUp(h, f, R) /\ SumFunctionOnSet(f, R) = h[R]
  BY <1>1, SumDef
<1>4. g[R] = h[R]
  BY <1>1, <1>2, <1>3, SumsAgree
<1>5. g[S] = f[Pick(S)] + g[R]
  BY <1>2 DEF SumsUp
<1> QED BY <1>2, <1>3, <1>4, <1>5

\* A sum of naturals is one.
LEMMA SumType ==
  ASSUME NEW f, NEW S, IsFiniteSet(S), \A x \in S : f[x] \in Nat
  PROVE  SumFunctionOnSet(f, S) \in Nat
<1> DEFINE A == {T \in SUBSET S : SumFunctionOnSet(f, T) \in Nat}
<1>1. ASSUME NEW T \in SUBSET S, \A x \in T : T \ {x} \in A PROVE T \in A
  <2>1. T # {} => /\ SumFunctionOnSet(f, T) = f[Pick(T)] + SumFunctionOnSet(f, T \ {Pick(T)})
                  /\ Pick(T) \in T
    BY FS_Subset, SumPick, PickIn
  <2>2. T # {} => f[Pick(T)] \in Nat /\ SumFunctionOnSet(f, T \ {Pick(T)}) \in Nat
    BY <1>1, <2>1
  <2>3. T = {} => SumFunctionOnSet(f, T) = 0
    BY SumEmpty
  <2> QED BY <2>1, <2>2, <2>3
<1> HIDE DEF A
<1>2. \A T \in SUBSET S : T \in A
  BY <1>1, SubsetInduction
<1> QED BY <1>2 DEF A

\* Every element can be taken out of a sum.
LEMMA SumRemove ==
  ASSUME NEW f, NEW S, IsFiniteSet(S), \A x \in S : f[x] \in Nat
  PROVE  \A x \in S : SumFunctionOnSet(f, S) = f[x] + SumFunctionOnSet(f, S \ {x})
<1> DEFINE Sum(T) == SumFunctionOnSet(f, T)
           A == {T \in SUBSET S : \A x \in T : Sum(T) = f[x] + Sum(T \ {x})}
<1>1. ASSUME NEW T \in SUBSET S PROVE IsFiniteSet(T) /\ Sum(T) \in Nat
  BY FS_Subset, SumType
<1>2. ASSUME NEW T \in SUBSET S, \A x \in T : T \ {x} \in A, NEW x \in T
      PROVE  Sum(T) = f[x] + Sum(T \ {x})
  <2> DEFINE p == Pick(T)
             R == (T \ {p}) \ {x}
  <2>1. p \in T
    BY PickIn
  <2> HIDE DEF p, Sum
  <2>2. Sum(T) = f[p] + Sum(T \ {p})
    BY <1>1, <2>1, SumPick DEF p, Sum
  <2>3. CASE x # p
    <3>1. Sum(T \ {p}) = f[x] + Sum(R)
      BY <1>2, <2>1, <2>3
    <3>2. (T \ {x}) \ {p} = R
      OBVIOUS
    <3>3. Sum(T \ {x}) = f[p] + Sum(R)
      BY <1>2, <2>1, <2>3, <3>2
    <3>4. Sum(R) \in Nat /\ f[x] \in Nat /\ f[p] \in Nat
      BY <1>1, <2>1
    <3> QED BY <2>2, <3>1, <3>3, <3>4
  <2> QED BY <2>2, <2>3
<1>3. \A T \in SUBSET S : (\A x \in T : T \ {x} \in A) => T \in A
  BY <1>2
<1> HIDE DEF A
<1>4. \A T \in SUBSET S : T \in A
  BY <1>3, SubsetInduction
<1> QED BY <1>4 DEF A

\* An element is added.
LEMMA SumAdd ==
  ASSUME NEW f, NEW S, IsFiniteSet(S), NEW x, x \notin S, \A y \in S \cup {x} : f[y] \in Nat
  PROVE  SumFunctionOnSet(f, S \cup {x}) = SumFunctionOnSet(f, S) + f[x]
<1>1. IsFiniteSet(S \cup {x}) /\ (S \cup {x}) \ {x} = S
  BY FS_AddElement
<1>2. SumFunctionOnSet(f, S \cup {x}) = f[x] + SumFunctionOnSet(f, (S \cup {x}) \ {x})
  BY <1>1, SumRemove
<1>3. SumFunctionOnSet(f, S) \in Nat /\ f[x] \in Nat
  BY SumType
<1> QED BY <1>1, <1>2, <1>3

\* Only the values on the set matter.
LEMMA SumSame ==
  ASSUME NEW f, NEW g, NEW S, IsFiniteSet(S), \A x \in S : f[x] \in Nat /\ g[x] = f[x]
  PROVE  SumFunctionOnSet(g, S) = SumFunctionOnSet(f, S)
<1> DEFINE A == {T \in SUBSET S : SumFunctionOnSet(g, T) = SumFunctionOnSet(f, T)}
<1>1. ASSUME NEW T \in SUBSET S, \A x \in T : T \ {x} \in A PROVE T \in A
  <2>1. CASE T = {}
    BY <2>1, SumEmpty
  <2>2. CASE T # {}
    <3>1. Pick(T) \in T /\ SumFunctionOnSet(g, T \ {Pick(T)}) = SumFunctionOnSet(f, T \ {Pick(T)})
      BY <1>1, <2>2, PickIn
    <3>2. /\ SumFunctionOnSet(f, T) = f[Pick(T)] + SumFunctionOnSet(f, T \ {Pick(T)})
          /\ SumFunctionOnSet(g, T) = g[Pick(T)] + SumFunctionOnSet(g, T \ {Pick(T)})
      BY <2>2, FS_Subset, SumPick
    <3> QED BY <3>1, <3>2
  <2> QED BY <2>1, <2>2
<1> HIDE DEF A
<1>2. \A T \in SUBSET S : T \in A
  BY <1>1, SubsetInduction
<1> QED BY <1>2 DEF A

\* The sum of zeros.
LEMMA SumZero ==
  ASSUME NEW f, NEW S, IsFiniteSet(S), \A x \in S : f[x] = 0
  PROVE  SumFunctionOnSet(f, S) = 0
<1> DEFINE A == {T \in SUBSET S : SumFunctionOnSet(f, T) = 0}
<1>1. ASSUME NEW T \in SUBSET S, \A x \in T : T \ {x} \in A PROVE T \in A
  <2>1. CASE T = {}
    BY <2>1, SumEmpty
  <2>2. CASE T # {}
    <3>1. Pick(T) \in T /\ SumFunctionOnSet(f, T \ {Pick(T)}) = 0
      BY <1>1, <2>2, PickIn
    <3>2. SumFunctionOnSet(f, T) = f[Pick(T)] + SumFunctionOnSet(f, T \ {Pick(T)})
      BY <2>2, FS_Subset, SumPick
    <3> QED BY <3>1, <3>2
  <2> QED BY <2>1, <2>2
<1> HIDE DEF A
<1>2. \A T \in SUBSET S : T \in A
  BY <1>1, SubsetInduction
<1> QED BY <1>2 DEF A

\* One summand grows by k.
LEMMA SumGrows ==
  ASSUME NEW f, NEW g, NEW S, IsFiniteSet(S), NEW x \in S, NEW k \in Nat,
         \A y \in S : f[y] \in Nat /\ g[y] = IF y = x THEN f[y] + k ELSE f[y]
  PROVE  SumFunctionOnSet(g, S) = SumFunctionOnSet(f, S) + k
<1> DEFINE R == S \ {x}
<1>1. IsFiniteSet(R) /\ \A y \in S : g[y] \in Nat
  BY FS_Subset
<1>2. /\ SumFunctionOnSet(g, S) = g[x] + SumFunctionOnSet(g, R)
      /\ SumFunctionOnSet(f, S) = f[x] + SumFunctionOnSet(f, R)
  BY <1>1, SumRemove
<1>3. SumFunctionOnSet(g, R) = SumFunctionOnSet(f, R)
  BY <1>1, SumSame
<1>4. SumFunctionOnSet(f, R) \in Nat /\ f[x] \in Nat /\ g[x] = f[x] + k
  BY <1>1, SumType
<1> HIDE DEF R
<1> QED BY <1>2, <1>3, <1>4

\* The sum over two sets that have nothing in common.
LEMMA SumUnion ==
  ASSUME NEW f, NEW S, IsFiniteSet(S), NEW R, IsFiniteSet(R), S \cap R = {},
         \A x \in S \cup R : f[x] \in Nat
  PROVE  SumFunctionOnSet(f, S \cup R) = SumFunctionOnSet(f, S) + SumFunctionOnSet(f, R)
<1> DEFINE Sum(T) == SumFunctionOnSet(f, T)
           A == {T \in SUBSET R : Sum(S \cup T) = Sum(S) + Sum(T)}
<1>1. ASSUME NEW T \in SUBSET R, \A x \in T : T \ {x} \in A PROVE T \in A
  <2>1. CASE T = {}
    <3>1. Sum(S) \in Nat /\ S \cup T = S
      BY <2>1, SumType
    <3> QED BY <2>1, <3>1, SumEmpty
  <2>2. CASE T # {}
    <3>1. PICK x \in T : TRUE
      BY <2>2
    <3>2. Sum((S \cup T) \ {x}) = Sum(S \cup (T \ {x}))
      <4>1. (S \cup T) \ {x} = S \cup (T \ {x})
        BY <3>1
      <4> QED BY ONLY <4>1
    <3>3. Sum(S \cup (T \ {x})) = Sum(S) + Sum(T \ {x})
      BY <1>1, <3>1
    <3>4. /\ IsFiniteSet(S \cup T) /\ IsFiniteSet(T) /\ IsFiniteSet(T \ {x})
          /\ \A y \in S \cup T : f[y] \in Nat
      BY FS_Subset, FS_Union
    <3>5. Sum(S \cup T) = f[x] + Sum((S \cup T) \ {x}) /\ Sum(T) = f[x] + Sum(T \ {x})
      BY <3>1, <3>4, SumRemove
    <3>6. Sum(S) \in Nat /\ Sum(T \ {x}) \in Nat /\ f[x] \in Nat
      BY <3>1, <3>4, SumType
    <3> HIDE DEF Sum
    <3>7. Sum(S \cup T) = Sum(S) + Sum(T)
      BY <3>2, <3>3, <3>5, <3>6
    <3> QED BY <3>7
  <2> QED BY <2>1, <2>2
<1> HIDE DEF A
<1>2. \A T \in SUBSET R : T \in A
  BY <1>1, SubsetInduction
<1> QED BY <1>2 DEF A

\* A part has no larger sum than the whole.
LEMMA SumOfPart ==
  ASSUME NEW f, NEW S, IsFiniteSet(S), NEW R \in SUBSET S, \A x \in S : f[x] \in Nat
  PROVE  SumFunctionOnSet(f, R) <= SumFunctionOnSet(f, S)
<1>1. IsFiniteSet(R) /\ IsFiniteSet(S \ R)
  BY FS_Subset
<1>2. SumFunctionOnSet(f, S) = SumFunctionOnSet(f, R) + SumFunctionOnSet(f, S \ R)
  <2>1. S = R \cup (S \ R)
    OBVIOUS
  <2>2. SumFunctionOnSet(f, R \cup (S \ R)) = SumFunctionOnSet(f, R) + SumFunctionOnSet(f, S \ R)
    BY <1>1, SumUnion
  <2> QED BY ONLY <2>1, <2>2, Zenon
<1>3. SumFunctionOnSet(f, R) \in Nat /\ SumFunctionOnSet(f, S \ R) \in Nat
  BY <1>1, SumType
<1> QED BY <1>1, <1>2, <1>3
-----------------------------------------------------------------------------
(* Products of natural numbers. *)

LEMMA Times ==
  ASSUME NEW a \in Nat, NEW b \in Nat, NEW c \in Nat
  PROVE  a * c \in Nat /\ (a <= b => a * c <= b * c)
OBVIOUS

LEMMA NextTimes == ASSUME NEW a \in Nat, NEW b \in Nat PROVE (a + 1) * b = a * b + b
OBVIOUS

LEMMA Regroup ==
  ASSUME NEW a \in Nat, NEW b \in Nat, NEW c \in Nat PROVE a * (b * c) = (a * c) * b
OBVIOUS

\* The start of block loc of a partition, and of one of every readers-th block.
LEMMA Blocks ==
  ASSUME NEW t \in Nat, NEW part \in Nat, NEW block \in Nat, NEW readers \in Nat, NEW blocks \in Nat,
         NEW total \in Nat, NEW loc \in Nat, loc <= blocks, blocks * block <= part, part * readers <= total
  PROVE  /\ t * part + loc * block \in t * part .. (t + 1) * part
         /\ t * block + loc * (readers * block) \in t * block .. total + t * block
<1>0. loc * (readers * block) = (loc * block) * readers
  BY Regroup
<1> DEFINE x == loc * block
           xn == blocks * block
           y == x * readers
           yn == part * readers
           z == t * part
           v == t * block
<1>1. x \in Nat /\ x <= xn /\ xn \in Nat /\ xn <= part
  BY Times
<1> HIDE DEF x, xn
<1>2. x <= part
  BY <1>1
<1>3. y \in Nat /\ y <= yn /\ yn \in Nat /\ yn <= total
  BY <1>1, <1>2, Times
<1>4. z \in Nat /\ v \in Nat
  BY Times
<1>5. (t + 1) * part = z + part
  BY NextTimes
<1>6. loc * (readers * block) = y
  BY <1>0 DEF x
<1> HIDE DEF y, yn, z, v
<1>7. z + x \in z .. z + part /\ v + y \in v .. total + v
  BY ONLY <1>1, <1>2, <1>3, <1>4, part \in Nat, total \in Nat
<1> QED BY <1>5, <1>6, <1>7 DEF x, z, v
=============================================================================
