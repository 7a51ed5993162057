---------------------------- MODULE SumTheorems ----------------------------
(***************************************************************************)
(* Facts about SumFunctionOnSet and SumFunction, the sums every module of  *)
(* this project adds quantities, exposures and profits with.  The fold     *)
(* behind them is a recursive function; its existence and what it computes *)
(* are proved here by induction on the size of a finite set.  The library's *)
(* induction theorems take an operator as a parameter, so induction is     *)
(* stated over SETS of numbers and of subsets instead: it follows from the *)
(* well-foundedness of < on Nat.                                           *)
(***************************************************************************)
EXTENDS Integers, Functions, FiniteSets, FiniteSetTheorems,
        WellFoundedInduction, TLAPS

----------------------------------------------------------------------------
(* Induction *)

\* Every nonempty set of natural numbers has a least element.
LEMMA LeastNat ==
  ASSUME NEW T \in SUBSET Nat, T # {}
  PROVE  \E n \in T : \A m \in T : n <= m
<1> DEFINE R == OpToRel(<, Nat)
<1>1. IsWellFoundedOn(R, Nat)
  BY NatLessThanWellFounded
<1> HIDE DEF R
<1>2. PICK x \in T : \A y \in T : <<y, x>> \notin R
  BY <1>1, WFMin
<1>3. ASSUME NEW y \in T PROVE x <= y
  <2>1. ~(y < x)
    BY <1>2 DEF R, OpToRel
  <2> QED BY <2>1
<1> QED BY <1>3

\* A set of naturals with 0 and the successor of each member is Nat.
LEMMA SetInduction ==
  ASSUME NEW N \in SUBSET Nat, 0 \in N, \A n \in N : n + 1 \in N
  PROVE  N = Nat
<1> SUFFICES ASSUME Nat \ N # {} PROVE FALSE
  OBVIOUS
<1>1. PICK n \in Nat \ N : \A m \in Nat \ N : n <= m
  BY LeastNat
<1>2. n # 0 /\ n - 1 \in Nat
  BY <1>1
<1>3. n - 1 \in N
  BY <1>1, <1>2
<1>4. (n - 1) + 1 \in N
  BY <1>3
<1> QED BY <1>1, <1>2, <1>4

\* Sizes of the subsets of a finite set.
LEMMA SubsetSizes ==
  ASSUME NEW S, IsFiniteSet(S), NEW T \in SUBSET S
  PROVE  /\ IsFiniteSet(T) /\ Cardinality(T) \in Nat
         /\ Cardinality(T) <= Cardinality(S)
         /\ Cardinality(T) = 0 <=> T = {}
         /\ \A x \in T : Cardinality(T \ {x}) = Cardinality(T) - 1
<1>1. IsFiniteSet(T) /\ Cardinality(T) <= Cardinality(S)
  BY FS_Subset
<1>2. Cardinality(T) \in Nat
  BY <1>1, FS_CardinalityType
<1>3. Cardinality(T) = 0 <=> T = {}
  BY <1>1, FS_EmptySet
<1>4. ASSUME NEW x \in T PROVE Cardinality(T \ {x}) = Cardinality(T) - 1
  BY <1>1, FS_RemoveElement
<1> QED BY <1>1, <1>2, <1>3, <1>4

\* A family of subsets of a finite set S that holds the empty set and is
\* closed under adding one element of S holds S.
LEMMA FiniteInduction ==
  ASSUME NEW S, IsFiniteSet(S), NEW F, {} \in F,
         \A T \in SUBSET S : \A x \in S \ T : T \in F => T \cup {x} \in F
  PROVE  S \in F
<1> DEFINE N == {n \in Nat : \A T \in SUBSET S : Cardinality(T) = n => T \in F}
<1>1. \A T \in SUBSET S : IsFiniteSet(T) /\ Cardinality(T) \in Nat
  BY SubsetSizes
<1>2. 0 \in N
  BY SubsetSizes
<1>3. ASSUME NEW n \in N PROVE n + 1 \in N
  <2> SUFFICES ASSUME NEW T \in SUBSET S, Cardinality(T) = n + 1 PROVE T \in F
    OBVIOUS
  <2> HIDE DEF N
  <2>0. n \in Nat
    BY <1>3 DEF N
  <2>1. T # {}
    BY <1>1, <2>0, SubsetSizes
  <2>2. PICK x \in T : TRUE
    BY <2>1
  <2>3. Cardinality(T \ {x}) = n
    BY <2>0, <2>2, SubsetSizes
  <2>4. T \ {x} \in F
    BY <1>3, <2>3 DEF N
  <2>5. (T \ {x}) \cup {x} = T
    OBVIOUS
  <2> QED BY <2>4, <2>5
<1> HIDE DEF N
<1>4. N = Nat
  BY <1>2, <1>3, SetInduction DEF N
<1> QED BY <1>1, <1>4 DEF N

----------------------------------------------------------------------------
(* The fold *)

\* The element the fold takes first from a set.
First(s) == CHOOSE x \in s : TRUE

\* One unfolding of the fold, and the function it is the fixed point of.
Unfolds(g, f, S) ==
  \A s \in SUBSET S : g[s] = IF s = {} THEN 0 ELSE f[First(s)] + g[s \ {First(s)}]

Totals(f, S) ==
  CHOOSE g : g = [s \in SUBSET S |-> IF s = {} THEN 0 ELSE f[First(s)] + g[s \ {First(s)}]]

LEMMA SumIsTotals == \A f, S : SumFunctionOnSet(f, S) = Totals(f, S)[S]
BY DEF SumFunctionOnSet, FoldFunctionOnSet, MapThenFoldSet, Totals, First

LEMMA FirstIsMember == ASSUME NEW s, s # {} PROVE First(s) \in s
BY DEF First

\* The values the fold takes are integers on every subset of S, and it has
\* a fixed point.
LEMMA TotalsExists ==
  ASSUME NEW S, IsFiniteSet(S), NEW f, \A x \in S : f[x] \in Int
  PROVE  \E g \in [SUBSET S -> Int] : Unfolds(g, f, S)
<1> DEFINE Good(g, n) == \A s \in SUBSET S : Cardinality(s) <= n =>
             g[s] = IF s = {} THEN 0 ELSE f[First(s)] + g[s \ {First(s)}]
           N == {n \in Nat : \E g \in [SUBSET S -> Int] : Good(g, n)}
<1>1. \A T \in SUBSET S : IsFiniteSet(T) /\ Cardinality(T) \in Nat
  BY SubsetSizes
<1>2. 0 \in N
  <2> DEFINE g == [s \in SUBSET S |-> 0]
  <2>1. g \in [SUBSET S -> Int]
    OBVIOUS
  <2>2. \A s \in SUBSET S : Cardinality(s) <= 0 => s = {}
    BY SubsetSizes
  <2>3. Good(g, 0)
    BY <2>2
  <2> HIDE DEF g
  <2> QED BY <2>1, <2>3
<1>3. ASSUME NEW n \in N PROVE n + 1 \in N
  <2>1. PICK g \in [SUBSET S -> Int] : Good(g, n)
    OBVIOUS
  <2> DEFINE h == [s \in SUBSET S |->
                     IF s = {} THEN 0 ELSE f[First(s)] + g[s \ {First(s)}]]
  <2>2. ASSUME NEW s \in SUBSET S, s # {}
        PROVE  /\ First(s) \in S /\ s \ {First(s)} \in SUBSET S
               /\ Cardinality(s \ {First(s)}) = Cardinality(s) - 1
    BY <2>2, FirstIsMember, SubsetSizes
  <2>3. h \in [SUBSET S -> Int]
    <3> SUFFICES ASSUME NEW s \in SUBSET S
                 PROVE  (IF s = {} THEN 0 ELSE f[First(s)] + g[s \ {First(s)}]) \in Int
      OBVIOUS
    <3>1. CASE s = {}
      BY <3>1
    <3>2. CASE s # {}
      <4>1. f[First(s)] \in Int /\ g[s \ {First(s)}] \in Int
        BY <2>2, <3>2
      <4> QED BY <4>1, <3>2
    <3> QED BY <3>1, <3>2
  <2>4. \A s \in SUBSET S : Cardinality(s) <= n => h[s] = g[s]
    BY <2>1
  <2>5. Good(h, n + 1)
    <3> SUFFICES ASSUME NEW s \in SUBSET S, Cardinality(s) <= n + 1, s # {}
                 PROVE  h[s] = f[First(s)] + h[s \ {First(s)}]
      OBVIOUS
    <3>1. Cardinality(s \ {First(s)}) <= n
      BY <1>1, <2>2
    <3>2. h[s \ {First(s)}] = g[s \ {First(s)}]
      BY <2>2, <2>4, <3>1
    <3> QED BY <3>2
  <2> HIDE DEF h
  <2>6. n + 1 \in Nat
    OBVIOUS
  <2> QED BY <2>3, <2>5, <2>6
<1> HIDE DEF N
<1>4. N = Nat
  BY <1>2, <1>3, SetInduction DEF N
<1>5. Cardinality(S) \in N
  BY <1>1, <1>4
<1>6. PICK g \in [SUBSET S -> Int] : Good(g, Cardinality(S))
  BY <1>5 DEF N
<1>7. \A s \in SUBSET S : Cardinality(s) <= Cardinality(S)
  BY SubsetSizes
<1> QED BY <1>6, <1>7 DEF Unfolds

LEMMA TotalsUnfolds ==
  ASSUME NEW S, IsFiniteSet(S), NEW f, \A x \in S : f[x] \in Int
  PROVE  Unfolds(Totals(f, S), f, S)
<1>1. PICK g \in [SUBSET S -> Int] : Unfolds(g, f, S)
  BY TotalsExists
<1>2. g = [s \in SUBSET S |-> IF s = {} THEN 0 ELSE f[First(s)] + g[s \ {First(s)}]]
  BY <1>1 DEF Unfolds
<1> DEFINE t == Totals(f, S)
<1>3. t = [s \in SUBSET S |-> IF s = {} THEN 0 ELSE f[First(s)] + t[s \ {First(s)}]]
  BY <1>2 DEF Totals
<1> HIDE DEF t
<1>4. Unfolds(t, f, S)
  BY <1>3 DEF Unfolds
<1> QED BY <1>4 DEF t

\* Two fixed points agree wherever both are defined.
LEMMA UnfoldsUnique ==
  ASSUME NEW S, IsFiniteSet(S), NEW T \in SUBSET S, NEW f, NEW g, NEW h,
         Unfolds(g, f, S), Unfolds(h, f, T)
  PROVE  g[T] = h[T]
<1> DEFINE N == {n \in Nat : \A s \in SUBSET T : Cardinality(s) = n => g[s] = h[s]}
<1>1. \A s \in SUBSET T : IsFiniteSet(s) /\ Cardinality(s) \in Nat /\ s \in SUBSET S
  BY SubsetSizes
<1>2. 0 \in N
  BY <1>1, SubsetSizes DEF Unfolds
<1>3. ASSUME NEW n \in N PROVE n + 1 \in N
  <2> SUFFICES ASSUME NEW s \in SUBSET T, Cardinality(s) = n + 1 PROVE g[s] = h[s]
    OBVIOUS
  <2> HIDE DEF N
  <2>0. n \in Nat /\ IsFiniteSet(T)
    BY <1>1, <1>3 DEF N
  <2>1. s # {}
    BY <2>0, SubsetSizes
  <2>2. First(s) \in s /\ Cardinality(s \ {First(s)}) = n
    BY <2>0, <2>1, FirstIsMember, SubsetSizes
  <2>3. g[s \ {First(s)}] = h[s \ {First(s)}]
    BY <1>3, <2>2 DEF N
  <2> QED BY <1>1, <2>1, <2>3 DEF Unfolds
<1> HIDE DEF N
<1>4. N = Nat
  BY <1>2, <1>3, SetInduction DEF N
<1> QED BY <1>1, <1>4 DEF N

----------------------------------------------------------------------------
(* What the sum computes *)

\* A sum over nothing is zero.
THEOREM SumEmpty == ASSUME NEW f PROVE SumFunctionOnSet(f, {}) = 0
<1>1. Unfolds(Totals(f, {}), f, {})
  BY TotalsUnfolds, FS_EmptySet
<1> QED BY <1>1, SumIsTotals DEF Unfolds

LEMMA SumFirst ==
  ASSUME NEW S, IsFiniteSet(S), NEW f, \A x \in S : f[x] \in Int, S # {}
  PROVE  SumFunctionOnSet(f, S) = f[First(S)] + SumFunctionOnSet(f, S \ {First(S)})
<1> DEFINE T == S \ {First(S)}
<1>1. IsFiniteSet(T) /\ T \in SUBSET S
  BY FS_RemoveElement
<1>2. Unfolds(Totals(f, S), f, S) /\ Unfolds(Totals(f, T), f, T)
  BY <1>1, TotalsUnfolds
<1>3. Totals(f, S)[T] = Totals(f, T)[T]
  BY <1>1, <1>2, UnfoldsUnique
<1>4. Totals(f, S)[S] = f[First(S)] + Totals(f, S)[T]
  BY <1>2 DEF Unfolds
<1> QED BY <1>3, <1>4, SumIsTotals

\* A sum of integers is an integer.
THEOREM SumType ==
  ASSUME NEW S, IsFiniteSet(S), NEW f, \A x \in S : f[x] \in Int
  PROVE  SumFunctionOnSet(f, S) \in Int
<1> DEFINE N == {n \in Nat : \A s \in SUBSET S : Cardinality(s) = n => SumFunctionOnSet(f, s) \in Int}
<1>1. \A s \in SUBSET S : IsFiniteSet(s) /\ Cardinality(s) \in Nat
  BY SubsetSizes
<1>2. 0 \in N
  <2>1. \A s \in SUBSET S : Cardinality(s) = 0 => s = {}
    BY SubsetSizes
  <2> QED BY <2>1, SumEmpty
<1>3. ASSUME NEW n \in N PROVE n + 1 \in N
  <2> SUFFICES ASSUME NEW s \in SUBSET S, Cardinality(s) = n + 1
               PROVE  SumFunctionOnSet(f, s) \in Int
    OBVIOUS
  <2> HIDE DEF N
  <2>0. n \in Nat
    BY <1>3 DEF N
  <2>1. s # {}
    BY <2>0, SubsetSizes
  <2>2. First(s) \in s /\ Cardinality(s \ {First(s)}) = n
    BY <2>0, <2>1, FirstIsMember, SubsetSizes
  <2>3. SumFunctionOnSet(f, s \ {First(s)}) \in Int
    BY <1>3, <2>2 DEF N
  <2>4. SumFunctionOnSet(f, s) = f[First(s)] + SumFunctionOnSet(f, s \ {First(s)})
    BY <1>1, <2>1, SumFirst
  <2> QED BY <2>2, <2>3, <2>4
<1> HIDE DEF N
<1>4. N = Nat
  BY <1>2, <1>3, SetInduction DEF N
<1> QED BY <1>1, <1>4 DEF N

\* The sum does not depend on the order the fold takes the elements in: any
\* element can be taken out of it.
THEOREM SumRemove ==
  ASSUME NEW S, IsFiniteSet(S), NEW f, \A y \in S : f[y] \in Int, NEW x \in S
  PROVE  SumFunctionOnSet(f, S) = f[x] + SumFunctionOnSet(f, S \ {x})
<1> DEFINE Sum(s) == SumFunctionOnSet(f, s)
           N == {n \in Nat : \A s \in SUBSET S : Cardinality(s) = n =>
                               \A y \in s : Sum(s) = f[y] + Sum(s \ {y})}
<1>1. \A s \in SUBSET S : IsFiniteSet(s) /\ Cardinality(s) \in Nat /\ Sum(s) \in Int
  BY SubsetSizes, SumType
<1>2. 0 \in N
  BY SubsetSizes
<1>3. \A s \in SUBSET S : s # {} => First(s) \in s /\ Sum(s) = f[First(s)] + Sum(s \ {First(s)})
  BY <1>1, FirstIsMember, SumFirst
<1> HIDE DEF Sum
<1>4. ASSUME NEW n \in N PROVE n + 1 \in N
  <2> SUFFICES ASSUME NEW s \in SUBSET S, Cardinality(s) = n + 1, NEW y \in s
               PROVE  Sum(s) = f[y] + Sum(s \ {y})
    OBVIOUS
  <2> DEFINE z == First(s)
  <2>1. z \in s /\ Sum(s) = f[z] + Sum(s \ {z})
    BY <1>3
  <2>2. CASE y = z
    BY <2>1, <2>2
  <2>3. CASE y # z
    <3> HIDE DEF z
    <3> HIDE DEF N
    <3>0. n \in Nat
      BY <1>4 DEF N
    <3>1. Cardinality(s \ {z}) = n /\ Cardinality(s \ {y}) = n
      BY <2>1, <3>0, SubsetSizes
    <3>2. Sum(s \ {z}) = f[y] + Sum((s \ {z}) \ {y})
      BY <1>4, <2>3, <3>1 DEF N
    <3>3. Sum(s \ {y}) = f[z] + Sum((s \ {y}) \ {z})
      BY <1>4, <2>1, <2>3, <3>1 DEF N
    <3> DEFINE rest == (s \ {z}) \ {y}
    <3>4. (s \ {y}) \ {z} = rest
      OBVIOUS
    <3>5. f[y] \in Int /\ f[z] \in Int /\ Sum(rest) \in Int
      BY <1>1, <2>1
    <3>6. Sum(s \ {z}) = f[y] + Sum(rest) /\ Sum(s \ {y}) = f[z] + Sum(rest)
      BY <3>2, <3>3, <3>4
    <3> HIDE DEF rest
    <3> QED BY <2>1, <3>5, <3>6
  <2> QED BY <2>2, <2>3
<1> HIDE DEF N
<1>5. N = Nat
  BY <1>2, <1>4, SetInduction DEF N
<1> QED BY <1>1, <1>5 DEF N, Sum

----------------------------------------------------------------------------
(* How a sum changes *)

\* A new member adds its value to the sum.
THEOREM SumAdd ==
  ASSUME NEW S, IsFiniteSet(S), NEW f, NEW x, x \notin S,
         f[x] \in Int, \A y \in S : f[y] \in Int
  PROVE  SumFunctionOnSet(f, S \cup {x}) = f[x] + SumFunctionOnSet(f, S)
<1>1. IsFiniteSet(S \cup {x})
  BY FS_AddElement
<1>2. (S \cup {x}) \ {x} = S
  OBVIOUS
<1>3. \A y \in S \cup {x} : f[y] \in Int
  OBVIOUS
<1> QED BY <1>1, <1>2, <1>3, SumRemove

\* If f <= g on every element, then in sum.
THEOREM SumMonotone ==
  ASSUME NEW S, IsFiniteSet(S), NEW f, NEW g,
         \A y \in S : f[y] \in Int /\ g[y] \in Int /\ f[y] <= g[y]
  PROVE  SumFunctionOnSet(f, S) <= SumFunctionOnSet(g, S)
<1> DEFINE Sum(h, s) == SumFunctionOnSet(h, s)
           F == {T \in SUBSET S : Sum(f, T) <= Sum(g, T)}
<1>1. \A T \in SUBSET S : IsFiniteSet(T) /\ Sum(f, T) \in Int /\ Sum(g, T) \in Int
  BY SubsetSizes, SumType
<1>2. {} \in F
  BY SumEmpty
<1>3. ASSUME NEW T \in SUBSET S, NEW x \in S \ T, T \in F
      PROVE  T \cup {x} \in F
  <2>1. Sum(f, T \cup {x}) = f[x] + Sum(f, T) /\ Sum(g, T \cup {x}) = g[x] + Sum(g, T)
    BY <1>1, SumAdd
  <2>2. Sum(f, T) <= Sum(g, T)
    BY <1>3
  <2> HIDE DEF Sum
  <2> QED BY <1>1, <2>1, <2>2
<1> HIDE DEF F
<1>4. S \in F
  BY <1>2, <1>3, FiniteInduction
<1> QED BY <1>4 DEF F

\* The sum looks at the function on the set only.
THEOREM SumCongruence ==
  ASSUME NEW S, IsFiniteSet(S), NEW f, NEW g,
         \A y \in S : f[y] \in Int /\ f[y] = g[y]
  PROVE  SumFunctionOnSet(f, S) = SumFunctionOnSet(g, S)
<1>1. \A y \in S : f[y] \in Int /\ g[y] \in Int /\ f[y] <= g[y] /\ g[y] <= f[y]
  OBVIOUS
<1>2. /\ SumFunctionOnSet(f, S) \in Int
      /\ SumFunctionOnSet(g, S) \in Int
      /\ SumFunctionOnSet(f, S) <= SumFunctionOnSet(g, S)
      /\ SumFunctionOnSet(g, S) <= SumFunctionOnSet(f, S)
  BY <1>1, SumType, SumMonotone
<1> QED BY <1>2

\* A change at one element changes the sum by as much.
THEOREM SumUpdate ==
  ASSUME NEW S, IsFiniteSet(S), NEW f, NEW g, NEW x \in S,
         \A y \in S : f[y] \in Int /\ g[y] \in Int,
         \A y \in S \ {x} : f[y] = g[y]
  PROVE  SumFunctionOnSet(g, S) = SumFunctionOnSet(f, S) - f[x] + g[x]
<1> DEFINE T == S \ {x}
<1>1. IsFiniteSet(T) /\ \A y \in T : f[y] \in Int /\ f[y] = g[y]
  BY FS_RemoveElement
<1>2. SumFunctionOnSet(f, T) = SumFunctionOnSet(g, T) /\ SumFunctionOnSet(f, T) \in Int
  BY <1>1, SumCongruence, SumType
<1>3. SumFunctionOnSet(f, S) = f[x] + SumFunctionOnSet(f, T)
  BY SumRemove
<1>4. SumFunctionOnSet(g, S) = g[x] + SumFunctionOnSet(g, T)
  BY SumRemove
<1>5. f[x] \in Int /\ g[x] \in Int
  OBVIOUS
<1> QED BY <1>2, <1>3, <1>4, <1>5

\* A sum of naturals is a natural that bounds each of its terms, and it is
\* zero only when every term is.
THEOREM SumOfNaturals ==
  ASSUME NEW S, IsFiniteSet(S), NEW f, \A y \in S : f[y] \in Nat
  PROVE  /\ SumFunctionOnSet(f, S) \in Nat
         /\ \A x \in S : f[x] <= SumFunctionOnSet(f, S)
         /\ SumFunctionOnSet(f, S) = 0 <=> \A x \in S : f[x] = 0
<1> DEFINE z == [y \in S |-> 0]
           F == {T \in SUBSET S : SumFunctionOnSet(z, T) = 0}
<1>1. {} \in F
  BY SumEmpty
<1>2. ASSUME NEW T \in SUBSET S, NEW x \in S \ T, T \in F
      PROVE  T \cup {x} \in F
  <2>1. IsFiniteSet(T) /\ SumFunctionOnSet(z, T) = 0 /\ z[x] = 0 /\ \A y \in T : z[y] \in Int
    BY <1>2, SubsetSizes
  <2>2. SumFunctionOnSet(z, T \cup {x}) = z[x] + SumFunctionOnSet(z, T)
    BY <2>1, SumAdd
  <2> QED BY <2>1, <2>2
<1>3. \A T \in SUBSET S : SumFunctionOnSet(z, T) = 0
  <2> SUFFICES ASSUME NEW U \in SUBSET S PROVE SumFunctionOnSet(z, U) = 0
    OBVIOUS
  <2> HIDE DEF F
  <2>1. IsFiniteSet(U)
    BY SubsetSizes
  <2>2. \A T \in SUBSET U : \A x \in U \ T : T \in F => T \cup {x} \in F
    BY <1>2
  <2>3. U \in F
    BY <1>1, <2>1, <2>2, FiniteInduction
  <2> QED BY <2>3 DEF F
<1> HIDE DEF F
<1>4. ASSUME NEW T \in SUBSET S PROVE SumFunctionOnSet(f, T) \in Nat
  <2>1. IsFiniteSet(T)
    BY SubsetSizes
  <2>2. \A y \in T : z[y] \in Int /\ f[y] \in Int /\ z[y] <= f[y]
    OBVIOUS
  <2> HIDE DEF z
  <2>3. SumFunctionOnSet(z, T) <= SumFunctionOnSet(f, T) /\ SumFunctionOnSet(f, T) \in Int
    BY <2>1, <2>2, SumMonotone, SumType
  <2>4. SumFunctionOnSet(z, T) = 0
    BY <1>3
  <2> QED BY <2>3, <2>4
<1>5. ASSUME NEW x \in S
      PROVE  /\ f[x] <= SumFunctionOnSet(f, S)
             /\ SumFunctionOnSet(f, S) = 0 => f[x] = 0
  <2>1. SumFunctionOnSet(f, S) = f[x] + SumFunctionOnSet(f, S \ {x})
    BY SumRemove
  <2>2. SumFunctionOnSet(f, S \ {x}) \in Nat /\ f[x] \in Nat
    BY <1>4
  <2> QED BY <2>1, <2>2
<1>6. ASSUME \A x \in S : f[x] = 0 PROVE SumFunctionOnSet(f, S) = 0
  <2>1. \A y \in S : z[y] \in Int /\ z[y] = f[y]
    BY <1>6
  <2> HIDE DEF z
  <2>2. SumFunctionOnSet(z, S) = SumFunctionOnSet(f, S)
    BY <2>1, SumCongruence
  <2> QED BY <1>3, <2>2
<1> QED BY <1>4, <1>5, <1>6

\* Sums over a set and over a set it is mapped to one to one.
THEOREM SumBijection ==
  ASSUME NEW S, IsFiniteSet(S), NEW f, NEW g, NEW b,
         \A x, y \in S : b[x] = b[y] => x = y,
         \A x \in S : f[x] \in Int /\ g[b[x]] = f[x]
  PROVE  SumFunctionOnSet(f, S) = SumFunctionOnSet(g, {b[x] : x \in S})
<1> DEFINE Im(T) == {b[x] : x \in T}
           F == {T \in SUBSET S : /\ IsFiniteSet(Im(T))
                                  /\ SumFunctionOnSet(f, T) = SumFunctionOnSet(g, Im(T))}
<1>1. {} \in F
  <2>1. Im({}) = {}
    OBVIOUS
  <2>2. SumFunctionOnSet(f, {}) = SumFunctionOnSet(g, Im({}))
    BY <2>1, SumEmpty
  <2> QED BY <2>1, <2>2, FS_EmptySet
<1>2. ASSUME NEW T \in SUBSET S, NEW x \in S \ T, T \in F
      PROVE  T \cup {x} \in F
  <2>1. IsFiniteSet(T) /\ IsFiniteSet(Im(T))
    BY <1>2, SubsetSizes
  <2>2. Im(T \cup {x}) = Im(T) \cup {b[x]} /\ b[x] \notin Im(T)
    OBVIOUS
  <2>3. \A y \in Im(T) : g[y] \in Int
    OBVIOUS
  <2>4. f[x] \in Int /\ g[b[x]] = f[x] /\ \A y \in T : f[y] \in Int
    OBVIOUS
  <2>5. SumFunctionOnSet(f, T) = SumFunctionOnSet(g, Im(T))
    BY <1>2
  <2> HIDE DEF Im
  <2>6. SumFunctionOnSet(f, T \cup {x}) = f[x] + SumFunctionOnSet(f, T)
    BY <2>1, <2>4, SumAdd
  <2>7. SumFunctionOnSet(g, Im(T) \cup {b[x]}) = g[b[x]] + SumFunctionOnSet(g, Im(T))
    BY <2>1, <2>2, <2>3, <2>4, SumAdd
  <2>8. IsFiniteSet(Im(T \cup {x}))
    <3>1. IsFiniteSet(Im(T) \cup {b[x]})
      BY <2>1, FS_AddElement
    <3> QED BY <2>2, <3>1
  <2>9. SumFunctionOnSet(f, T \cup {x}) = SumFunctionOnSet(g, Im(T \cup {x}))
    BY <2>2, <2>4, <2>5, <2>6, <2>7
  <2> QED BY <2>8, <2>9
<1> HIDE DEF F
<1>3. S \in F
  BY <1>1, <1>2, FiniteInduction
<1> QED BY <1>3 DEF F

\* The sum over two disjoint sets.
THEOREM SumUnion ==
  ASSUME NEW S, IsFiniteSet(S), NEW T, IsFiniteSet(T), S \cap T = {},
         NEW f, \A x \in S \cup T : f[x] \in Int
  PROVE  SumFunctionOnSet(f, S \cup T) = SumFunctionOnSet(f, S) + SumFunctionOnSet(f, T)
<1> DEFINE Sum(s) == SumFunctionOnSet(f, s)
           F == {U \in SUBSET T : Sum(S \cup U) = Sum(S) + Sum(U)}
<1>1. \A U \in SUBSET T : IsFiniteSet(U) /\ IsFiniteSet(S \cup U)
  BY SubsetSizes, FS_Union
<1>2. Sum(S) \in Int /\ \A U \in SUBSET T : Sum(U) \in Int
  BY <1>1, SumType
<1>3. {} \in F
  BY <1>2, SumEmpty
<1>4. ASSUME NEW U \in SUBSET T, NEW x \in T \ U, U \in F
      PROVE  U \cup {x} \in F
  <2>1. Sum(U \cup {x}) = f[x] + Sum(U)
    BY <1>1, SumAdd
  <2>2. Sum((S \cup U) \cup {x}) = f[x] + Sum(S \cup U)
    BY <1>1, SumAdd
  <2>3. (S \cup U) \cup {x} = S \cup (U \cup {x})
    OBVIOUS
  <2>4. Sum(S \cup (U \cup {x})) = f[x] + Sum(S \cup U)
    BY <2>2, <2>3
  <2>5. Sum(S \cup U) = Sum(S) + Sum(U) /\ f[x] \in Int
    BY <1>4
  <2> HIDE DEF Sum
  <2> QED BY <1>2, <2>1, <2>4, <2>5
<1> HIDE DEF F
<1>5. T \in F
  BY <1>3, <1>4, FiniteInduction
<1> QED BY <1>5 DEF F

\* Elements that count for nothing may be left out.
THEOREM SumSupport ==
  ASSUME NEW S, IsFiniteSet(S), NEW T \in SUBSET S, NEW f,
         \A x \in S : f[x] \in Int, \A x \in S \ T : f[x] = 0
  PROVE  SumFunctionOnSet(f, S) = SumFunctionOnSet(f, T)
<1> DEFINE R == S \ T
<1>1. IsFiniteSet(T) /\ IsFiniteSet(R)
  BY FS_Subset
<1>2. S = T \cup R /\ T \cap R = {}
  OBVIOUS
<1>3. \A x \in T \cup R : f[x] \in Int
  OBVIOUS
<1>4. \A x \in R : f[x] \in Nat /\ f[x] = 0
  OBVIOUS
<1> HIDE DEF R
<1>5. SumFunctionOnSet(f, T \cup R) = SumFunctionOnSet(f, T) + SumFunctionOnSet(f, R)
  BY <1>1, <1>2, <1>3, SumUnion
<1>6. SumFunctionOnSet(f, R) = 0
  BY <1>1, <1>4, SumOfNaturals
<1>7. SumFunctionOnSet(f, T) \in Int
  BY <1>1, <1>3, SumType
<1> QED BY <1>2, <1>5, <1>6, <1>7

\* Sums are added term by term.
THEOREM SumPlus ==
  ASSUME NEW S, IsFiniteSet(S), NEW f, NEW g, NEW h,
         \A x \in S : f[x] \in Int /\ g[x] \in Int /\ h[x] = f[x] + g[x]
  PROVE  SumFunctionOnSet(h, S) = SumFunctionOnSet(f, S) + SumFunctionOnSet(g, S)
<1> DEFINE F == {T \in SUBSET S : SumFunctionOnSet(h, T)
                                   = SumFunctionOnSet(f, T) + SumFunctionOnSet(g, T)}
<1>1. {} \in F
  BY SumEmpty
<1>2. ASSUME NEW T \in SUBSET S, NEW x \in S \ T, T \in F
      PROVE  T \cup {x} \in F
  <2>1. /\ IsFiniteSet(T) /\ x \notin T
        /\ f[x] \in Int /\ g[x] \in Int /\ h[x] \in Int /\ h[x] = f[x] + g[x]
        /\ \A y \in T : f[y] \in Int /\ g[y] \in Int /\ h[y] \in Int
    BY SubsetSizes
  <2>2. SumFunctionOnSet(h, T) = SumFunctionOnSet(f, T) + SumFunctionOnSet(g, T)
    BY <1>2
  <2>3. SumFunctionOnSet(h, T \cup {x}) = h[x] + SumFunctionOnSet(h, T)
    BY <2>1, SumAdd
  <2>4. SumFunctionOnSet(f, T \cup {x}) = f[x] + SumFunctionOnSet(f, T)
    BY <2>1, SumAdd
  <2>5. SumFunctionOnSet(g, T \cup {x}) = g[x] + SumFunctionOnSet(g, T)
    BY <2>1, SumAdd
  <2>6. SumFunctionOnSet(f, T) \in Int /\ SumFunctionOnSet(g, T) \in Int
    BY <2>1, SumType
  <2> QED BY <2>1, <2>2, <2>3, <2>4, <2>5, <2>6
<1> HIDE DEF F
<1>3. S \in F
  BY <1>1, <1>2, FiniteInduction
<1> QED BY <1>3 DEF F

\* Over any part of S, a sum is no larger than the sum of bounds of its terms.
THEOREM SumBounded ==
  ASSUME NEW S, IsFiniteSet(S), NEW f, NEW g,
         \A x \in S : f[x] \in Int /\ g[x] \in Nat /\ -g[x] <= f[x] /\ f[x] <= g[x],
         NEW T \in SUBSET S
  PROVE  /\ SumFunctionOnSet(f, T) \in Int /\ SumFunctionOnSet(g, S) \in Nat
         /\ -SumFunctionOnSet(g, S) <= SumFunctionOnSet(f, T)
         /\ SumFunctionOnSet(f, T) <= SumFunctionOnSet(g, S)
<1> DEFINE R == S \ T
           up == [x \in S |-> f[x] + g[x]]
<1>1. IsFiniteSet(T) /\ IsFiniteSet(R) /\ R \in SUBSET S /\ S = T \cup R /\ T \cap R = {}
  BY FS_Subset
<1>2. /\ \A x \in S : g[x] \in Nat /\ g[x] \in Int
      /\ \A x \in T : f[x] \in Int /\ g[x] \in Int /\ f[x] <= g[x]
      /\ \A x \in T : f[x] \in Int /\ g[x] \in Int /\ up[x] = f[x] + g[x]
      /\ \A x \in T : up[x] \in Nat
      /\ \A x \in R : g[x] \in Nat
  OBVIOUS
<1> HIDE DEF R, up
<1>3. SumFunctionOnSet(g, T \cup R) = SumFunctionOnSet(g, T) + SumFunctionOnSet(g, R)
  BY <1>1, <1>2, SumUnion
<1>4. SumFunctionOnSet(g, R) \in Nat /\ SumFunctionOnSet(g, S) \in Nat
  BY <1>1, <1>2, SumOfNaturals
<1>5. SumFunctionOnSet(f, T) \in Int /\ SumFunctionOnSet(g, T) \in Int
  BY <1>1, <1>2, SumType
<1>6. SumFunctionOnSet(f, T) <= SumFunctionOnSet(g, T)
  BY <1>1, <1>2, SumMonotone
<1>7. SumFunctionOnSet(up, T) \in Nat
  BY <1>1, <1>2, SumOfNaturals
<1>8. SumFunctionOnSet(up, T) = SumFunctionOnSet(f, T) + SumFunctionOnSet(g, T)
  BY <1>1, <1>2, SumPlus
<1>9. SumFunctionOnSet(g, S) = SumFunctionOnSet(g, T) + SumFunctionOnSet(g, R)
  BY <1>1, <1>3
<1> QED BY <1>4, <1>5, <1>6, <1>7, <1>8, <1>9

----------------------------------------------------------------------------
(* Sums over sequences, as functions on 1..n *)

\* One more element at the end.
THEOREM SumLast ==
  ASSUME NEW n \in Nat, NEW f, \A i \in 1 .. n + 1 : f[i] \in Int
  PROVE  SumFunctionOnSet(f, 1 .. n + 1) = SumFunctionOnSet(f, 1 .. n) + f[n + 1]
<1>1. IsFiniteSet(1 .. n)
  BY FS_Interval
<1>2. (1 .. n) \cup {n + 1} = 1 .. n + 1 /\ n + 1 \notin 1 .. n
  OBVIOUS
<1>3. f[n + 1] \in Int /\ \A i \in 1 .. n : f[i] \in Int
  OBVIOUS
<1>4. SumFunctionOnSet(f, (1 .. n) \cup {n + 1}) = f[n + 1] + SumFunctionOnSet(f, 1 .. n)
  BY <1>1, <1>2, <1>3, SumAdd
<1>5. SumFunctionOnSet(f, 1 .. n) \in Int
  BY <1>1, <1>3, SumType
<1>6. SumFunctionOnSet(f, 1 .. n + 1) = f[n + 1] + SumFunctionOnSet(f, 1 .. n)
  BY <1>2, <1>4
<1> QED BY <1>3, <1>5, <1>6

\* One element taken out at k, the later ones moving down.
THEOREM SumRemoveAt ==
  ASSUME NEW n \in Nat, NEW f, \A i \in 1 .. n : f[i] \in Int,
         NEW k \in 1 .. n, NEW g,
         \A i \in 1 .. n - 1 : g[i] = f[IF i < k THEN i ELSE i + 1]
  PROVE  SumFunctionOnSet(g, 1 .. n - 1) = SumFunctionOnSet(f, 1 .. n) - f[k]
<1> DEFINE S == 1 .. n - 1
           b == [i \in S |-> IF i < k THEN i ELSE i + 1]
<1>1. IsFiniteSet(S) /\ IsFiniteSet(1 .. n)
  BY FS_Interval
<1>2. {b[i] : i \in S} = (1 .. n) \ {k}
  <2>1. ASSUME NEW i \in S PROVE b[i] \in (1 .. n) \ {k}
    OBVIOUS
  <2>2. ASSUME NEW j \in (1 .. n) \ {k} PROVE \E i \in S : b[i] = j
    <3>1. CASE j < k
      <4>1. j \in S /\ b[j] = j
        BY <3>1
      <4> QED BY <4>1
    <3>2. CASE ~(j < k)
      <4>1. j - 1 \in S /\ ~(j - 1 < k)
        BY <3>2
      <4>2. b[j - 1] = (j - 1) + 1
        BY <4>1
      <4>3. (j - 1) + 1 = j
        OBVIOUS
      <4> QED BY <4>1, <4>2, <4>3
    <3> QED BY <3>1, <3>2
  <2> HIDE DEF b, S
  <2> QED BY <2>1, <2>2
<1>3. \A x, y \in S : b[x] = b[y] => x = y
  OBVIOUS
<1>4. \A x \in S : g[x] \in Int /\ f[b[x]] = g[x]
  <2> SUFFICES ASSUME NEW x \in S PROVE g[x] \in Int /\ f[b[x]] = g[x]
    OBVIOUS
  <2>1. b[x] \in 1 .. n /\ g[x] = f[b[x]]
    OBVIOUS
  <2> HIDE DEF b
  <2> QED BY <2>1
<1> HIDE DEF b, S
<1>5. SumFunctionOnSet(g, S) = SumFunctionOnSet(f, (1 .. n) \ {k})
  BY <1>1, <1>2, <1>3, <1>4, SumBijection
<1>6. SumFunctionOnSet(f, 1 .. n) = f[k] + SumFunctionOnSet(f, (1 .. n) \ {k})
  BY <1>1, SumRemove
<1>7. SumFunctionOnSet(f, (1 .. n) \ {k}) \in Int
  <2>1. IsFiniteSet((1 .. n) \ {k})
    BY <1>1, FS_RemoveElement
  <2> QED BY <2>1, SumType
<1>8. f[k] \in Int
  OBVIOUS
<1> QED BY <1>5, <1>6, <1>7, <1>8 DEF S

\* The elements of D that have the key p.
Class(D, key, p) == {x \in D : key[x] = p}

\* A sum counted class by class.
THEOREM SumPartition ==
  ASSUME NEW D, IsFiniteSet(D), NEW P, IsFiniteSet(P), NEW g, NEW key, NEW h,
         \A x \in D : g[x] \in Int /\ key[x] \in P,
         \A p \in P : h[p] = SumFunctionOnSet(g, Class(D, key, p))
  PROVE  SumFunctionOnSet(g, D) = SumFunctionOnSet(h, P)
<1> DEFINE Part(T) == {x \in D : key[x] \in T}
           F == {T \in SUBSET P : SumFunctionOnSet(g, Part(T)) = SumFunctionOnSet(h, T)}
<1>1. ASSUME NEW E \in SUBSET D PROVE IsFiniteSet(E) /\ SumFunctionOnSet(g, E) \in Int
  <2>1. IsFiniteSet(E) /\ \A x \in E : g[x] \in Int
    BY FS_Subset
  <2> QED BY ONLY <2>1, SumType
<1>2. \A p \in P : h[p] \in Int
  <2> SUFFICES ASSUME NEW p \in P PROVE h[p] \in Int
    OBVIOUS
  <2>1. Class(D, key, p) \in SUBSET D
    BY DEF Class
  <2> QED BY <1>1, <2>1
<1>3. {} \in F
  <2>1. Part({}) = {}
    OBVIOUS
  <2> QED BY <2>1, SumEmpty
<1>4. ASSUME NEW T \in SUBSET P, NEW p \in P \ T, T \in F PROVE T \cup {p} \in F
  <2>1. PICK A, B : A = Part(T) /\ B = Class(D, key, p)
    OBVIOUS
  <2>2. Part(T \cup {p}) = A \cup B /\ A \cap B = {} /\ A \in SUBSET D /\ B \in SUBSET D
    BY <2>1 DEF Class
  <2>3. IsFiniteSet(A) /\ IsFiniteSet(B) /\ A \cap B = {} /\ \A x \in A \cup B : g[x] \in Int
    BY <1>1, <2>2
  <2>4. SumFunctionOnSet(g, A \cup B) = SumFunctionOnSet(g, A) + SumFunctionOnSet(g, B)
    BY ONLY <2>3, SumUnion
  <2>5. IsFiniteSet(T) /\ p \notin T /\ h[p] \in Int /\ \A q \in T : h[q] \in Int
    BY <1>2, FS_Subset
  <2>6. SumFunctionOnSet(h, T \cup {p}) = h[p] + SumFunctionOnSet(h, T)
    BY ONLY <2>5, SumAdd
  <2>7. SumFunctionOnSet(g, A) = SumFunctionOnSet(h, T) /\ SumFunctionOnSet(g, B) = h[p]
    BY <1>4, <2>1
  <2>8. SumFunctionOnSet(h, T) \in Int
    BY ONLY <2>5, SumType
  <2>9. SumFunctionOnSet(g, Part(T \cup {p})) = SumFunctionOnSet(h, T \cup {p})
    <3>1. SumFunctionOnSet(g, Part(T \cup {p})) = SumFunctionOnSet(g, A \cup B)
      BY <2>2
    <3>2. PICK a, b, c, d : /\ a = SumFunctionOnSet(h, T) /\ b = h[p]
                            /\ c = SumFunctionOnSet(g, A \cup B)
                            /\ d = SumFunctionOnSet(h, T \cup {p})
      OBVIOUS
    <3>3. a \in Int /\ b \in Int /\ c = a + b /\ d = b + a
      BY <2>4, <2>5, <2>6, <2>7, <2>8, <3>2
    <3> QED BY <3>1, <3>2, <3>3
  <2> QED BY <2>9
<1> HIDE DEF F
<1>5. P \in F
  BY <1>3, <1>4, FiniteInduction
<1>6. Part(P) = D
  OBVIOUS
<1> QED BY <1>5, <1>6 DEF F
=============================================================================
