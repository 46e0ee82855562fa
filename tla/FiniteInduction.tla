--------------------------- MODULE FiniteInduction ---------------------------
(***************************************************************************)
(* Induction for the proofs, from the well-foundedness of strict inclusion *)
(* between finite sets, and what it gives about the library's folds.       *)
(***************************************************************************)
EXTENDS Integers, FiniteSetsExt, FiniteSetTheorems, TLAPS

(* Every inhabited set of numbers has a least one: a number is the         *)
(* interval below it.                                                      *)
LEMMA LeastNat ==
  ASSUME NEW A, A \subseteq Nat, A # {}
  PROVE  \E m \in A : \A n \in A : m <= n
<1> DEFINE below == {0 .. m : m \in A}
<1>1. below # {}  OBVIOUS
<1>2. below \subseteq FiniteSubsetsOf(Nat)
  <2>1. \A m \in Nat : IsFiniteSet(0 .. m)  BY FS_Interval
  <2> QED  BY <2>1 DEF FiniteSubsetsOf
<1>3. PICK x \in below : \A y \in below : ~ (<<y, x>> \in StrictSubsetOrdering(Nat))
  <2> HIDE DEF below
  <2> QED  BY <1>1, <1>2, FS_StrictSubsetOrderingWellFounded, WFMin
<1>4. PICK m \in A : x = 0 .. m  OBVIOUS
<1>5. ASSUME NEW n \in A, n < m PROVE FALSE
  <2>1. 0 .. n \in below  OBVIOUS
  <2>2. 0 .. n \subseteq 0 .. m /\ 0 .. n # 0 .. m  BY <1>5
  <2>3. 0 .. n \in SUBSET Nat /\ 0 .. m \in SUBSET Nat  OBVIOUS
  <2>4. <<0 .. n, 0 .. m>> \in StrictSubsetOrdering(Nat)
    BY <2>2, <2>3 DEF StrictSubsetOrdering
  <2> QED  BY <2>1, <2>4, <1>3, <1>4
<1>6. \A n \in A : m <= n  BY <1>5
<1> QED  BY <1>6

(* Induction over the numbers, the predicate given as a set.               *)
LEMMA NatSetInduction ==
  ASSUME NEW A, 0 \in A, \A n \in Nat : n \in A => n + 1 \in A
  PROVE  Nat \subseteq A
<1> SUFFICES ASSUME Nat \ A # {} PROVE FALSE
  OBVIOUS
<1>1. PICK m \in Nat \ A : \A n \in Nat \ A : m <= n  BY LeastNat
<1>2. m # 0 /\ m - 1 \in Nat  OBVIOUS
<1>3. m - 1 \in A  BY <1>1, <1>2
<1>4. (m - 1) + 1 \in A  BY <1>2, <1>3
<1> QED  BY <1>1, <1>4

(* The same up to a bound.                                                 *)
LEMMA IntervalInduction ==
  ASSUME NEW m \in Nat, NEW A, 0 \in A, \A n \in 1 .. m : n - 1 \in A => n \in A
  PROVE  0 .. m \subseteq A
<1> DEFINE B == {n \in Nat : n <= m => n \in A}
<1>1. 0 \in B  OBVIOUS
<1>2. ASSUME NEW n \in Nat, n \in B PROVE n + 1 \in B
  <2>1. n + 1 <= m => n + 1 \in 1 .. m /\ (n + 1) - 1 = n /\ n \in A  BY <1>2
  <2> QED  BY <2>1
<1>3. Nat \subseteq B
  <2> HIDE DEF B
  <2> QED  BY <1>1, <1>2, NatSetInduction
<1> QED  BY <1>3

(* A value can be taken through steps 1 to m, each step a map on V.        *)
Stepwise(f, m, V, first, next) ==
  f \in [0 .. m -> V] /\ f[0] = first /\ \A n \in 1 .. m : f[n] = next[n][f[n - 1]]

LEMMA StepsExist ==
  ASSUME NEW m \in Nat, NEW V, NEW first \in V, NEW next \in [1 .. m -> [V -> V]]
  PROVE  \E f : Stepwise(f, m, V, first, next)
<1> DEFINE Takes(f, k) == /\ f \in [0 .. k -> V] /\ f[0] = first
                          /\ \A n \in 1 .. k : f[n] = next[n][f[n - 1]]
           A == {k \in 0 .. m : \E f : Takes(f, k)}
<1>1. 0 \in A
  <2> DEFINE f == [n \in 0 .. 0 |-> first]
  <2>1. f \in [0 .. 0 -> V] /\ f[0] = first /\ 1 .. 0 = {}  OBVIOUS
  <2> HIDE DEF f
  <2>2. Takes(f, 0)  BY <2>1
  <2> QED  BY <2>2
<1>2. ASSUME NEW k \in 1 .. m, k - 1 \in A PROVE k \in A
  <2>1. PICK f : Takes(f, k - 1)  BY <1>2
  <2> DEFINE g == [n \in 0 .. k |-> IF n < k THEN f[n] ELSE next[k][f[k - 1]]]
  <2>2. f[k - 1] \in V /\ next[k][f[k - 1]] \in V  BY <2>1
  <2>3. g \in [0 .. k -> V] /\ g[0] = first  BY <2>1, <2>2
  <2>4. \A n \in 1 .. k : g[n] = next[n][g[n - 1]]
    <3> SUFFICES ASSUME NEW n \in 1 .. k PROVE g[n] = next[n][g[n - 1]]
      OBVIOUS
    <3>1. g[n - 1] = f[n - 1]  OBVIOUS
    <3>2. CASE n < k
      <4>1. g[n] = f[n] /\ n \in 1 .. k - 1  BY <3>2
      <4> HIDE DEF g
      <4> QED  BY <2>1, <3>1, <4>1
    <3>3. CASE n = k
      <4>1. g[n] = next[k][f[k - 1]]  BY <3>3
      <4> HIDE DEF g
      <4> QED  BY <3>1, <3>3, <4>1
    <3> QED  BY <3>2, <3>3
  <2> HIDE DEF g
  <2>5. Takes(g, k)  BY <2>3, <2>4
  <2> QED  BY <2>5
<1>3. 0 .. m \subseteq A
  <2> HIDE DEF A
  <2> QED  BY <1>1, <1>2, IntervalInduction
<1>4. m \in 0 .. m  OBVIOUS
<1>5. \E f : Takes(f, m)  BY <1>3, <1>4
<1> QED  BY <1>5 DEF Stepwise

-----------------------------------------------------------------------------
(* The library's folds are functions defined by recursion over subsets.    *)
(* That such a function exists is proved here, for sums.                   *)

Pick(s) == CHOOSE x \in s : TRUE

Sums(f, S, g) ==
  g = [s \in SUBSET S |-> IF s = {} THEN 0 ELSE f[Pick(s)] + g[s \ {Pick(s)}]]

LEMMA PickOne ==
  ASSUME NEW S, IsFiniteSet(S), NEW s \in SUBSET S, s # {}
  PROVE  /\ Pick(s) \in s /\ s \ {Pick(s)} \in SUBSET S
         /\ IsFiniteSet(s) /\ Cardinality(s) \in Nat
         /\ Cardinality(s \ {Pick(s)}) = Cardinality(s) - 1
<1>1. Pick(s) \in s  BY DEF Pick
<1>2. IsFiniteSet(s)  BY FS_Subset
<1>3. Cardinality(s \ {Pick(s)}) = Cardinality(s) - 1  BY <1>1, <1>2, FS_RemoveElement
<1> QED  BY <1>1, <1>2, <1>3, FS_CardinalityType

LEMMA SumsExist ==
  ASSUME NEW S, IsFiniteSet(S), NEW f \in [S -> Int]
  PROVE  \E g : Sums(f, S, g)
<1> DEFINE upto(n) == {s \in SUBSET S : Cardinality(s) <= n}
           step(g, s) == IF s = {} THEN 0 ELSE f[Pick(s)] + g[s \ {Pick(s)}]
           A == {n \in Nat : \E g : g = [s \in upto(n) |-> step(g, s)]}
<1>1. \A s \in SUBSET S : Cardinality(s) \in Nat /\ (Cardinality(s) = 0 <=> s = {})
  BY FS_Subset, FS_CardinalityType, FS_EmptySet
<1>2. 0 \in A
  <2>1. \A s \in upto(0) : s = {}  BY <1>1
  <2> DEFINE g == [s \in upto(0) |-> 0]
  <2>2. g = [s \in upto(0) |-> step(g, s)]  BY <2>1
  <2> QED  BY <2>2
<1>3. \A n \in Nat : n \in A => n + 1 \in A
  <2> SUFFICES ASSUME NEW n \in Nat, n \in A PROVE n + 1 \in A
    OBVIOUS
  <2>1. PICK g : g = [s \in upto(n) |-> step(g, s)]  OBVIOUS
  <2> DEFINE h == [s \in upto(n + 1) |-> step(g, s)]
  <2>2. upto(n) \subseteq upto(n + 1)  BY <1>1
  <2>3. \A s \in upto(n + 1) : s # {} => s \ {Pick(s)} \in upto(n)
    <3> SUFFICES ASSUME NEW s \in upto(n + 1), s # {} PROVE s \ {Pick(s)} \in upto(n)
      OBVIOUS
    <3> QED  BY PickOne
  <2>4. \A t \in upto(n) : h[t] = g[t]
    <3> HIDE DEF upto, step
    <3> QED  BY <2>1, <2>2
  <2>5. \A s \in upto(n + 1) : step(h, s) = step(g, s)
    <3> HIDE DEF upto, h
    <3> QED  BY <2>3, <2>4
  <2>6. h = [s \in upto(n + 1) |-> step(h, s)]
    <3> HIDE DEF upto, step
    <3> QED  BY <2>5
  <2> HIDE DEF upto, step, h
  <2> QED  BY <2>6
<1> DEFINE c == Cardinality(S)
<1>4. c \in Nat /\ upto(c) = SUBSET S  BY FS_Subset, FS_CardinalityType
<1>5. c \in A
  <2> HIDE DEF A, c
  <2> QED  BY <1>2, <1>3, <1>4, NatSetInduction
<1> QED
  <2>1. PICK g : g = [s \in upto(c) |-> step(g, s)]  BY <1>5
  <2>2. g = [s \in SUBSET S |-> step(g, s)]
    <3> HIDE DEF upto, step, c
    <3> QED  BY <1>4, <2>1
  <2> QED  BY <2>2 DEF Sums

(* The sum of all values, and how it changes with one of them.             *)
LEMMA SumsAreNumbers ==
  ASSUME NEW S, IsFiniteSet(S), NEW C, C \subseteq Int, 0 \in C,
         \A a, b \in C : a + b \in C, NEW f \in [S -> C], NEW g, Sums(f, S, g)
  PROVE  \A s \in SUBSET S : g[s] \in C
<1> DEFINE A == {n \in Nat : \A s \in SUBSET S : Cardinality(s) = n => g[s] \in C}
<1>1. \A s \in SUBSET S : g[s] = IF s = {} THEN 0 ELSE f[Pick(s)] + g[s \ {Pick(s)}]
  BY DEF Sums
<1>2. \A s \in SUBSET S : Cardinality(s) \in Nat /\ (Cardinality(s) = 0 <=> s = {})
  BY FS_Subset, FS_CardinalityType, FS_EmptySet
<1>3. 0 \in A
  <2>1. \A s \in SUBSET S : s = {} => g[s] = 0  BY <1>1
  <2> QED  BY <1>2, <2>1
<1>4. \A n \in Nat : n \in A => n + 1 \in A
  <2> SUFFICES ASSUME NEW n \in Nat, n \in A,
                      NEW s \in SUBSET S, Cardinality(s) = n + 1
               PROVE  g[s] \in C
    OBVIOUS
  <2>1. s # {}  BY <1>2
  <2>2. /\ Pick(s) \in s /\ s \ {Pick(s)} \in SUBSET S
        /\ Cardinality(s \ {Pick(s)}) = n
    BY <2>1, PickOne
  <2> DEFINE rest == s \ {Pick(s)}
  <2>3. g[rest] \in C  BY <2>2
  <2>4. g[s] = f[Pick(s)] + g[rest]  BY <1>1, <2>1
  <2>5. f[Pick(s)] \in C  BY <2>2
  <2> HIDE DEF rest
  <2> QED  BY <2>3, <2>4, <2>5
<1>5. Nat \subseteq A
  <2> HIDE DEF A
  <2> QED  BY <1>3, <1>4, NatSetInduction
<1> QED  BY <1>2, <1>5

LEMMA SumsOfNothing ==
  ASSUME NEW S, IsFiniteSet(S), NEW g, Sums([x \in S |-> 0], S, g)
  PROVE  g[S] = 0
<1> DEFINE A == {n \in Nat : \A s \in SUBSET S : Cardinality(s) = n => g[s] = 0}
           f == [x \in S |-> 0]
<1>1. \A s \in SUBSET S : g[s] = IF s = {} THEN 0 ELSE f[Pick(s)] + g[s \ {Pick(s)}]
  BY DEF Sums
<1>2. \A s \in SUBSET S : Cardinality(s) \in Nat /\ (Cardinality(s) = 0 <=> s = {})
  BY FS_Subset, FS_CardinalityType, FS_EmptySet
<1>3. 0 \in A  BY <1>1, <1>2
<1>4. \A n \in Nat : n \in A => n + 1 \in A
  <2> SUFFICES ASSUME NEW n \in Nat, n \in A,
                      NEW s \in SUBSET S, Cardinality(s) = n + 1
               PROVE  g[s] = 0
    OBVIOUS
  <2>1. s # {}  BY <1>2
  <2>2. /\ Pick(s) \in s /\ s \ {Pick(s)} \in SUBSET S
        /\ Cardinality(s \ {Pick(s)}) = n
    BY <2>1, PickOne
  <2> DEFINE rest == s \ {Pick(s)}
  <2>3. g[rest] = 0  BY <2>2
  <2>4. g[s] = f[Pick(s)] + g[rest]  BY <1>1, <2>1
  <2>5. f[Pick(s)] = 0  BY <2>2
  <2> HIDE DEF rest, f
  <2> QED  BY <2>3, <2>4, <2>5
<1>5. Nat \subseteq A
  <2> HIDE DEF A
  <2> QED  BY <1>3, <1>4, NatSetInduction
<1>6. S \in SUBSET S  OBVIOUS
<1> QED  BY <1>2, <1>5, <1>6

LEMMA SumsWithOneMore ==
  ASSUME NEW S, IsFiniteSet(S), NEW f \in [S -> Int], NEW e \in S, NEW n \in Int,
         f[e] = 0
  PROVE  \A g, h : Sums(f, S, g) /\ Sums([f EXCEPT ![e] = n], S, h) => h[S] = g[S] + n
<1> SUFFICES ASSUME NEW g, Sums(f, S, g), NEW h, Sums([f EXCEPT ![e] = n], S, h)
             PROVE  h[S] = g[S] + n
  OBVIOUS
<1> DEFINE ff == [f EXCEPT ![e] = n]
           A == {m \in Nat : \A s \in SUBSET S :
                    Cardinality(s) = m => h[s] = g[s] + (IF e \in s THEN n ELSE 0)}
<1>0. ff \in [S -> Int] /\ ff[e] = n /\ \A x \in S \ {e} : ff[x] = f[x]  OBVIOUS
<1>1. /\ \A s \in SUBSET S : g[s] = IF s = {} THEN 0 ELSE f[Pick(s)] + g[s \ {Pick(s)}]
      /\ \A s \in SUBSET S : h[s] = IF s = {} THEN 0 ELSE ff[Pick(s)] + h[s \ {Pick(s)}]
  BY DEF Sums
<1>2. \A s \in SUBSET S : Cardinality(s) \in Nat /\ (Cardinality(s) = 0 <=> s = {})
  BY FS_Subset, FS_CardinalityType, FS_EmptySet
<1>3. \A s \in SUBSET S : g[s] \in Int  BY SumsAreNumbers
<1>4. 0 \in A  BY <1>1, <1>2
<1>5. \A m \in Nat : m \in A => m + 1 \in A
  <2> SUFFICES ASSUME NEW m \in Nat, m \in A,
                      NEW s \in SUBSET S, Cardinality(s) = m + 1
               PROVE  h[s] = g[s] + (IF e \in s THEN n ELSE 0)
    OBVIOUS
  <2>1. s # {}  BY <1>2
  <2>2. /\ Pick(s) \in s /\ s \ {Pick(s)} \in SUBSET S
        /\ Cardinality(s \ {Pick(s)}) = m
    <3> HIDE DEF A, ff
    <3> QED  BY <2>1, PickOne
  <2> DEFINE rest == s \ {Pick(s)}
             x == Pick(s)
  <2>3. h[rest] = g[rest] + (IF e \in rest THEN n ELSE 0) /\ g[rest] \in Int
    BY <1>3, <2>2
  <2>4. g[s] = f[x] + g[rest] /\ h[s] = ff[x] + h[rest]  BY <1>1, <2>1
  <2>5. f[x] \in Int /\ x \in S /\ (e \in rest <=> e \in s /\ e # x)  BY <2>2
  <2>6. x \in s  BY <2>2
  <2> HIDE DEF rest, ff, x
  <2>7. CASE x = e  BY <1>0, <2>3, <2>4, <2>5, <2>6, <2>7
  <2>8. CASE x # e  BY <1>0, <2>3, <2>4, <2>5, <2>8
  <2> QED  BY <2>7, <2>8
<1>6. Nat \subseteq A
  <2> HIDE DEF A
  <2> QED  BY <1>4, <1>5, NatSetInduction
<1>7. S \in SUBSET S  OBVIOUS
<1> QED  BY <1>2, <1>6, <1>7

(* The library's fold is the value of such a function.                     *)
LEMMA SumIsOneOfThem ==
  ASSUME NEW S, IsFiniteSet(S), NEW f \in [S -> Int]
  PROVE  \E g : Sums(f, S, g) /\ SumFunction(f) = g[S]
<1> DEFINE g == CHOOSE g : Sums(f, S, g)
<1>1. Sums(f, S, g)  BY SumsExist
<1>2. SumFunction(f) = g[S]
  BY DEF SumFunction, SumFunctionOnSet, Sums, Pick, FoldFunctionOnSet, MapThenFoldSet
<1> QED  BY <1>1, <1>2

LEMMA SumOfNothing ==
  ASSUME NEW S, IsFiniteSet(S)
  PROVE  SumFunction([x \in S |-> 0]) = 0
BY SumIsOneOfThem, SumsOfNothing

LEMMA SumWithOneMore ==
  ASSUME NEW S, IsFiniteSet(S), NEW f \in [S -> Int], NEW e \in S, NEW n \in Int, f[e] = 0
  PROVE  SumFunction([f EXCEPT ![e] = n]) = SumFunction(f) + n
<1>1. [f EXCEPT ![e] = n] \in [S -> Int]  OBVIOUS
<1>2. PICK g : Sums(f, S, g) /\ SumFunction(f) = g[S]  BY SumIsOneOfThem
<1>3. PICK h : Sums([f EXCEPT ![e] = n], S, h) /\ SumFunction([f EXCEPT ![e] = n]) = h[S]
  BY <1>1, SumIsOneOfThem
<1>4. \A p, q : Sums(f, S, p) /\ Sums([f EXCEPT ![e] = n], S, q) => q[S] = p[S] + n
  BY SumsWithOneMore
<1>5. h[S] = g[S] + n  BY <1>2, <1>3, <1>4
<1> QED  BY <1>2, <1>3, <1>5
(* The sum is a number, and of natural numbers a natural number.           *)
LEMMA SumIsInt ==
  ASSUME NEW S, IsFiniteSet(S), NEW f \in [S -> Int]
  PROVE  SumFunction(f) \in Int
<1>1. PICK g : Sums(f, S, g) /\ SumFunction(f) = g[S]  BY SumIsOneOfThem
<1>2. \A a, b \in Int : a + b \in Int  OBVIOUS
<1>3. \A s \in SUBSET S : g[s] \in Int  BY <1>1, <1>2, SumsAreNumbers
<1>4. S \in SUBSET S  OBVIOUS
<1> QED  BY <1>1, <1>3, <1>4

LEMMA SumIsNat ==
  ASSUME NEW S, IsFiniteSet(S), NEW f \in [S -> Nat]
  PROVE  SumFunction(f) \in Nat
<1>1. f \in [S -> Int]  OBVIOUS
<1>2. PICK g : Sums(f, S, g) /\ SumFunction(f) = g[S]  BY <1>1, SumIsOneOfThem
<1>3. \A a, b \in Nat : a + b \in Nat  OBVIOUS
<1>4. 0 \in Nat /\ Nat \subseteq Int  OBVIOUS
<1>5. \A s \in SUBSET S : g[s] \in Nat  BY <1>2, <1>3, <1>4, SumsAreNumbers
<1>6. S \in SUBSET S  OBVIOUS
<1> QED  BY <1>2, <1>5, <1>6

-----------------------------------------------------------------------------
(* The library's Min and Max on sets of integers with a bound.             *)
LEMMA MinIsLeast ==
  ASSUME NEW A, A \subseteq Nat, A # {}
  PROVE  Min(A) \in A /\ \A n \in A : Min(A) <= n
BY LeastNat DEF Min

LEMMA MaxIsGreatest ==
  ASSUME NEW A, A \subseteq Int, A # {}, NEW bound \in Int, \A n \in A : n <= bound
  PROVE  Max(A) \in A /\ \A n \in A : n <= Max(A)
<1> DEFINE below == {bound - n : n \in A}
<1>1. below \subseteq Nat /\ below # {}
  <2>1. \A n \in A : n \in Int /\ n <= bound  OBVIOUS
  <2>2. \A n \in A : bound - n \in Nat  BY <2>1
  <2> QED  BY <2>2
<1>2. PICK m \in below : \A n \in below : m <= n
  <2> HIDE DEF below
  <2> QED  BY <1>1, LeastNat
<1>3. PICK k \in A : m = bound - k  OBVIOUS
<1>4. \A n \in A : bound - k <= bound - n  BY <1>2, <1>3
<1>5. \A n \in A : k >= n  BY <1>4
<1>6. \E x \in A : \A y \in A : x >= y  BY <1>5
<1>7. Max(A) \in A /\ \A y \in A : Max(A) >= y  BY <1>6 DEF Max
<1> QED  BY <1>7

(* What a function makes of a finite set is finite.                        *)
LEMMA FiniteRange ==
  ASSUME NEW S, IsFiniteSet(S), NEW f
  PROVE  IsFiniteSet({f[x] : x \in S})
<1> DEFINE T == {f[x] : x \in S}
           h == [x \in S |-> f[x]]
<1>1. h \in Surjection(S, T)  BY DEF Surjection
<1> HIDE DEF h, T
<1>2. IsFiniteSet(T)  BY <1>1, FS_Surjection
<1> QED  BY <1>2 DEF T

-----------------------------------------------------------------------------
(* Sums over the subsets of a set.                                         *)

SumOver(f, s) == SumFunction([x \in s |-> f[x]])

(* What holds of the empty set and of a set with one more element holds of *)
(* every subset of a finite set.                                           *)
LEMMA SubsetInduction ==
  ASSUME NEW U, IsFiniteSet(U), NEW A, {} \in A,
         \A s \in SUBSET U : \A x \in U \ s : s \in A => s \union {x} \in A
  PROVE  SUBSET U \subseteq A
<1> DEFINE B == {n \in Nat : \A s \in SUBSET U : Cardinality(s) = n => s \in A}
<1>1. \A s \in SUBSET U : Cardinality(s) \in Nat /\ (Cardinality(s) = 0 <=> s = {})
  BY FS_Subset, FS_CardinalityType, FS_EmptySet
<1>2. 0 \in B  BY <1>1
<1>3. \A n \in Nat : n \in B => n + 1 \in B
  <2> SUFFICES ASSUME NEW n \in Nat, n \in B,
                      NEW s \in SUBSET U, Cardinality(s) = n + 1
               PROVE  s \in A
    OBVIOUS
  <2>1. s # {}  BY <1>1
  <2>2. /\ Pick(s) \in s /\ s \ {Pick(s)} \in SUBSET U
        /\ Cardinality(s \ {Pick(s)}) = n
    <3> HIDE DEF B
    <3> QED  BY <2>1, PickOne
  <2> DEFINE rest == s \ {Pick(s)}
             x == Pick(s)
  <2>3. rest \in A /\ rest \in SUBSET U  BY <2>2
  <2>4. x \in U \ rest /\ s = rest \union {x}  BY <2>2
  <2> HIDE DEF rest, x, B
  <2> QED  BY <2>3, <2>4
<1>4. Nat \subseteq B
  <2> HIDE DEF B
  <2> QED  BY <1>2, <1>3, NatSetInduction
<1> QED  BY <1>1, <1>4

AnyFirst(f, S, g) == \A s \in SUBSET S : \A p \in s : g[s] = f[p] + g[s \ {p}]

(* It does not matter which element is taken first.                        *)
LEMMA AnyPick ==
  ASSUME NEW S, IsFiniteSet(S), NEW f \in [S -> Int], NEW g, Sums(f, S, g)
  PROVE  AnyFirst(f, S, g)
<1> DEFINE A == {n \in Nat : \A s \in SUBSET S :
                    Cardinality(s) = n => \A p \in s : g[s] = f[p] + g[s \ {p}]}
<1>1. \A s \in SUBSET S : g[s] = IF s = {} THEN 0 ELSE f[Pick(s)] + g[s \ {Pick(s)}]
  BY DEF Sums
<1>2. \A s \in SUBSET S : Cardinality(s) \in Nat /\ (Cardinality(s) = 0 <=> s = {})
  BY FS_Subset, FS_CardinalityType, FS_EmptySet
<1>3. \A s \in SUBSET S : g[s] \in Int
  <2>1. \A a, b \in Int : a + b \in Int  OBVIOUS
  <2> QED  BY <2>1, SumsAreNumbers
<1>4. 0 \in A  BY <1>2
<1>5. \A n \in Nat : n \in A => n + 1 \in A
  <2> SUFFICES ASSUME NEW n \in Nat, n \in A,
                      NEW s \in SUBSET S, Cardinality(s) = n + 1, NEW p \in s
               PROVE  g[s] = f[p] + g[s \ {p}]
    OBVIOUS
  <2> DEFINE q == Pick(s)
  <2>1. q \in s /\ s \ {q} \in SUBSET S /\ Cardinality(s \ {q}) = n
    <3> HIDE DEF A
    <3> QED  BY PickOne
  <2>2. g[s] = f[q] + g[s \ {q}]  BY <1>1
  <2> HIDE DEF q
  <2>3. CASE p = q  BY <2>2, <2>3
  <2>4. CASE p # q
    <3>1. IsFiniteSet(s)  BY FS_Subset
    <3>2. Cardinality(s \ {p}) = n /\ s \ {p} \in SUBSET S
      <4>1. Cardinality(s \ {p}) = Cardinality(s) - 1  BY <3>1, FS_RemoveElement
      <4> QED  BY <4>1
    <3>3. g[s \ {q}] = f[p] + g[(s \ {q}) \ {p}]  BY <2>1, <2>4
    <3>4. g[s \ {p}] = f[q] + g[(s \ {p}) \ {q}]  BY <2>1, <2>4, <3>2
    <3>5. (s \ {p}) \ {q} = (s \ {q}) \ {p}  OBVIOUS
    <3> DEFINE k == g[(s \ {q}) \ {p}]
    <3>6. k \in Int /\ f[p] \in Int /\ f[q] \in Int  BY <1>3, <2>1
    <3>7. g[s] = f[q] + (f[p] + k) /\ g[s \ {p}] = f[q] + k  BY <2>2, <3>3, <3>4, <3>5
    <3> HIDE DEF k
    <3> QED  BY <3>6, <3>7
  <2> QED  BY <2>3, <2>4
<1>6. Nat \subseteq A
  <2> HIDE DEF A
  <2> QED  BY <1>4, <1>5, NatSetInduction
<1> QED  BY <1>2, <1>6 DEF AnyFirst

(* The sum over a part is the same whatever it is taken as a part of.      *)
LEMMA SumsAgree ==
  ASSUME NEW U, IsFiniteSet(U), NEW f \in [U -> Int], NEW S \in SUBSET U
  PROVE  \A g, h : Sums(f, U, g) /\ Sums([x \in S |-> f[x]], S, h) => h[S] = g[S]
<1> SUFFICES ASSUME NEW g, Sums(f, U, g), NEW h, Sums([x \in S |-> f[x]], S, h)
             PROVE  h[S] = g[S]
  OBVIOUS
<1> DEFINE e == [x \in S |-> f[x]]
           A == {s \in SUBSET S : h[s] = g[s]}
<1>1. e \in [S -> Int] /\ \A x \in S : e[x] = f[x]  OBVIOUS
<1>2. IsFiniteSet(S)  BY FS_Subset
<1>3. AnyFirst(f, U, g)  BY AnyPick
<1>4. AnyFirst(e, S, h)
  <2>1. Sums(e, S, h)  OBVIOUS
  <2> HIDE DEF e
  <2> QED  BY <1>1, <1>2, <2>1, AnyPick
<1>5. {} \in A  BY DEF Sums
<1>6. \A s \in SUBSET S : \A x \in S \ s : s \in A => s \union {x} \in A
  <2> SUFFICES ASSUME NEW s \in SUBSET S, NEW x \in S \ s, h[s] = g[s]
               PROVE  h[s \union {x}] = g[s \union {x}]
    OBVIOUS
  <2>1. (s \union {x}) \ {x} = s  OBVIOUS
  <2> DEFINE more == s \union {x}
  <2>4. more \in SUBSET S /\ more \in SUBSET U /\ x \in more /\ more \ {x} = s  BY <2>1
  <2> HIDE DEF more, e
  <2>2. h[more] = e[x] + h[s]  BY <1>4, <2>4 DEF AnyFirst
  <2>3. g[more] = f[x] + g[s]  BY <1>3, <2>4 DEF AnyFirst
  <2>5. h[more] = g[more]  BY <1>1, <2>2, <2>3
  <2> QED  BY <2>5 DEF more
<1>7. SUBSET S \subseteq A
  <2> HIDE DEF A
  <2> QED  BY <1>2, <1>5, <1>6, SubsetInduction
<1>8. S \in SUBSET S  OBVIOUS
<1> QED  BY <1>7, <1>8

(* Sums over the subsets of a finite set, one element at a time.           *)
LEMMA SumOverFacts ==
  ASSUME NEW U, IsFiniteSet(U), NEW f \in [U -> Int]
  PROVE  /\ SumOver(f, {}) = 0
         /\ \A s \in SUBSET U : SumOver(f, s) \in Int
         /\ \A s \in SUBSET U : \A p \in s : SumOver(f, s) = f[p] + SumOver(f, s \ {p})
<1>1. PICK g : Sums(f, U, g)  BY SumsExist
<1>2. ASSUME NEW s \in SUBSET U PROVE SumOver(f, s) = g[s]
  <2> DEFINE e == [x \in s |-> f[x]]
  <2>1. e \in [s -> Int] /\ IsFiniteSet(s)  BY FS_Subset
  <2>2. \A a, b : Sums(f, U, a) /\ Sums(e, s, b) => b[s] = a[s]  BY SumsAgree
  <2>3. SumOver(f, s) = SumFunction(e)  BY DEF SumOver
  <2> HIDE DEF e
  <2>4. PICK h : Sums(e, s, h) /\ SumFunction(e) = h[s]  BY <2>1, SumIsOneOfThem
  <2> QED  BY <1>1, <2>2, <2>3, <2>4
<1>3. g[{}] = 0  BY <1>1 DEF Sums
<1>4. \A s \in SUBSET U : \A p \in s : g[s] = f[p] + g[s \ {p}]
  <2>1. AnyFirst(f, U, g)  BY <1>1, AnyPick
  <2> QED  BY <2>1 DEF AnyFirst
<1>5. \A s \in SUBSET U : g[s] \in Int
  <2>1. \A a, b \in Int : a + b \in Int  OBVIOUS
  <2> QED  BY <1>1, <2>1, SumsAreNumbers
<1>6. \A s \in SUBSET U : \A p \in s : s \ {p} \in SUBSET U  OBVIOUS
<1> QED  BY <1>2, <1>3, <1>4, <1>5, <1>6

(* A larger set sums to more, by at least any value it has in addition.    *)
LEMMA SumGrows ==
  ASSUME NEW U, IsFiniteSet(U), NEW f \in [U -> Nat], NEW T \in SUBSET U, NEW S \in SUBSET T
  PROVE  /\ SumOver(f, S) <= SumOver(f, T)
         /\ \A x \in T \ S : SumOver(f, S) + f[x] <= SumOver(f, T)
<1>0. f \in [U -> Int]  OBVIOUS
<1>1. /\ \A s \in SUBSET U : SumOver(f, s) \in Int
      /\ \A s \in SUBSET U : \A p \in s : SumOver(f, s) = f[p] + SumOver(f, s \ {p})
  BY <1>0, SumOverFacts
<1> DEFINE A == {r \in SUBSET U : SumOver(f, S) <= SumOver(f, S \union r)}
<1>2. {} \in A
  <2>1. S \union {} = S /\ SumOver(f, S) \in Int  BY <1>1
  <2> QED  BY <2>1
<1>3. \A r \in SUBSET U : \A x \in U \ r : r \in A => r \union {x} \in A
  <2> SUFFICES ASSUME NEW r \in SUBSET U, NEW x \in U \ r, SumOver(f, S) <= SumOver(f, S \union r)
               PROVE  SumOver(f, S) <= SumOver(f, S \union (r \union {x}))
    OBVIOUS
  <2> DEFINE all == S \union (r \union {x})
             rest == S \union r
  <2>1. all \in SUBSET U /\ rest \in SUBSET U /\ S \in SUBSET U  OBVIOUS
  <2>2. CASE x \in S
    <3>1. all = rest  BY <2>2
    <3> QED  BY <3>1
  <2>3. CASE x \notin S
    <3>1. x \in all /\ all \ {x} = rest  BY <2>3
    <3> HIDE DEF all, rest
    <3>2. SumOver(f, all) = f[x] + SumOver(f, rest)  BY <1>1, <2>1, <3>1
    <3>3. f[x] \in Nat /\ SumOver(f, rest) \in Int /\ SumOver(f, S) \in Int  BY <1>1, <2>1
    <3>4. SumOver(f, S) <= SumOver(f, rest)  BY DEF rest
    <3>5. SumOver(f, S) <= SumOver(f, all)  BY <3>2, <3>3, <3>4
    <3> QED  BY <3>5 DEF all
  <2> QED  BY <2>2, <2>3
<1>4. SUBSET U \subseteq A
  <2> HIDE DEF A
  <2> QED  BY <1>2, <1>3, SubsetInduction
<1>5. \A R \in SUBSET U : S \subseteq R => SumOver(f, S) <= SumOver(f, R)
  <2> SUFFICES ASSUME NEW R \in SUBSET U, S \subseteq R PROVE SumOver(f, S) <= SumOver(f, R)
    OBVIOUS
  <2>1. S \union R = R  OBVIOUS
  <2> QED  BY <1>4, <2>1
<1>6. ASSUME NEW x \in T \ S PROVE SumOver(f, S) + f[x] <= SumOver(f, T)
  <2>1. SumOver(f, S) <= SumOver(f, T \ {x})
    <3>1. T \ {x} \in SUBSET U /\ S \subseteq T \ {x}  OBVIOUS
    <3> QED  BY <1>5, <3>1
  <2>2. SumOver(f, T) = f[x] + SumOver(f, T \ {x})  BY <1>1
  <2>3. f[x] \in Nat /\ SumOver(f, T \ {x}) \in Int /\ SumOver(f, S) \in Int
    <3>1. T \ {x} \in SUBSET U /\ S \in SUBSET U  OBVIOUS
    <3> QED  BY <1>1, <3>1
  <2> QED  BY <2>1, <2>2, <2>3
<1> QED  BY <1>5, <1>6

(* Two parts that share nothing.                                           *)
LEMMA SumSplits ==
  ASSUME NEW U, IsFiniteSet(U), NEW f \in [U -> Int], NEW S \in SUBSET U, NEW T \in SUBSET U,
         S \intersect T = {}
  PROVE  SumOver(f, S \union T) = SumOver(f, S) + SumOver(f, T)
<1>1. /\ SumOver(f, {}) = 0
      /\ \A s \in SUBSET U : SumOver(f, s) \in Int
      /\ \A s \in SUBSET U : \A p \in s : SumOver(f, s) = f[p] + SumOver(f, s \ {p})
  BY SumOverFacts
<1> DEFINE A == {r \in SUBSET U : S \intersect r = {} => SumOver(f, S \union r) = SumOver(f, S) + SumOver(f, r)}
<1>2. {} \in A
  <2>1. S \union {} = S /\ SumOver(f, S) \in Int  BY <1>1
  <2> QED  BY <1>1, <2>1
<1>3. \A r \in SUBSET U : \A x \in U \ r : r \in A => r \union {x} \in A
  <2> SUFFICES ASSUME NEW r \in SUBSET U, NEW x \in U \ r, S \intersect (r \union {x}) = {},
                      S \intersect r = {} => SumOver(f, S \union r) = SumOver(f, S) + SumOver(f, r)
               PROVE  SumOver(f, S \union (r \union {x})) = SumOver(f, S) + SumOver(f, r \union {x})
    OBVIOUS
  <2> DEFINE all == S \union (r \union {x})
             rest == S \union r
             more == r \union {x}
  <2>1. /\ all \in SUBSET U /\ rest \in SUBSET U /\ more \in SUBSET U /\ r \in SUBSET U
        /\ x \in all /\ all \ {x} = rest /\ x \in more /\ more \ {x} = r
    OBVIOUS
  <2>2. SumOver(f, rest) = SumOver(f, S) + SumOver(f, r)
    <3>1. S \intersect r = {}  OBVIOUS
    <3> QED  BY <3>1
  <2> HIDE DEF all, rest, more
  <2>3. SumOver(f, all) = f[x] + SumOver(f, rest)  BY <1>1, <2>1
  <2>4. SumOver(f, more) = f[x] + SumOver(f, r)  BY <1>1, <2>1
  <2>5. f[x] \in Int /\ SumOver(f, S) \in Int /\ SumOver(f, r) \in Int  BY <1>1, <2>1
  <2>6. SumOver(f, all) = SumOver(f, S) + SumOver(f, more)  BY <2>2, <2>3, <2>4, <2>5
  <2> QED  BY <2>6 DEF all, more
<1>4. SUBSET U \subseteq A
  <2> HIDE DEF A
  <2> QED  BY <1>2, <1>3, SubsetInduction
<1> QED  BY <1>4

(* The same values under other names.                                      *)
LEMMA SumRenamed ==
  ASSUME NEW U, IsFiniteSet(U), NEW f \in [U -> Int], NEW S, IsFiniteSet(S),
         NEW h \in [S -> U], \A x, y \in S : h[x] = h[y] => x = y
  PROVE  SumFunction([x \in S |-> f[h[x]]]) = SumOver(f, {h[x] : x \in S})
<1> DEFINE e == [x \in S |-> f[h[x]]]
           named(s) == {h[x] : x \in s}
           A == {s \in SUBSET S : SumOver(e, s) = SumOver(f, named(s))}
<1>0. e \in [S -> Int] /\ \A x \in S : e[x] = f[h[x]]  OBVIOUS
<1>1. /\ SumOver(f, {}) = 0
      /\ \A s \in SUBSET U : \A p \in s : SumOver(f, s) = f[p] + SumOver(f, s \ {p})
  BY SumOverFacts
<1>2. /\ SumOver(e, {}) = 0
      /\ \A s \in SUBSET S : \A p \in s : SumOver(e, s) = e[p] + SumOver(e, s \ {p})
  <2> HIDE DEF e
  <2> QED  BY <1>0, SumOverFacts
<1>3. {} \in A
  <2>1. named({}) = {}  OBVIOUS
  <2> QED  BY <1>1, <1>2, <2>1
<1>4. \A s \in SUBSET S : \A x \in S \ s : s \in A => s \union {x} \in A
  <2> SUFFICES ASSUME NEW s \in SUBSET S, NEW x \in S \ s, SumOver(e, s) = SumOver(f, named(s))
               PROVE  SumOver(e, s \union {x}) = SumOver(f, named(s \union {x}))
    OBVIOUS
  <2> DEFINE more == s \union {x}
             names == named(more)
             y == h[x]
  <2>1. more \in SUBSET S /\ x \in more /\ more \ {x} = s  OBVIOUS
  <2>2. names \in SUBSET U /\ y \in names /\ names \ {y} = named(s)
    <3>1. y \notin named(s)  OBVIOUS
    <3>2. names = named(s) \union {y}  OBVIOUS
    <3>3. names \in SUBSET U  OBVIOUS
    <3> HIDE DEF names, y, named
    <3> QED  BY <3>1, <3>2, <3>3
  <2> HIDE DEF more, names, y, e
  <2>3. SumOver(e, more) = e[x] + SumOver(e, s)  BY <1>2, <2>1
  <2>4. SumOver(f, names) = f[y] + SumOver(f, named(s))  BY <1>1, <2>2
  <2>5. e[x] = f[y]  BY <1>0 DEF y
  <2>6. SumOver(e, more) = SumOver(f, names)  BY <2>3, <2>4, <2>5
  <2> QED  BY <2>6 DEF more, names
<1>5. SUBSET S \subseteq A
  <2> HIDE DEF A
  <2> QED  BY <1>3, <1>4, SubsetInduction
<1>6. S \in SUBSET S  OBVIOUS
<1>7. SumOver(e, S) = SumFunction(e)
  <2>1. [x \in S |-> e[x]] = e  OBVIOUS
  <2> QED  BY <2>1 DEF SumOver
<1> QED  BY <1>5, <1>6, <1>7

(* What lies apart below a bound is together no larger than the bound.     *)
LEMMA Packed ==
  ASSUME NEW U, IsFiniteSet(U), NEW at \in [U -> Nat], NEW size \in [U -> Nat \ {0}],
         \A x, y \in U : x # y => at[x] + size[x] <= at[y] \/ at[y] + size[y] <= at[x],
         NEW bound \in Nat, \A x \in U : at[x] + size[x] <= bound
  PROVE  SumOver(size, U) <= bound
<1> DEFINE A == {n \in Nat : \A s \in SUBSET U : Cardinality(s) = n =>
                    \A b \in Nat : (\A x \in s : at[x] + size[x] <= b) => SumOver(size, s) <= b}
<1>1. size \in [U -> Int]  OBVIOUS
<1>2. /\ SumOver(size, {}) = 0
      /\ \A s \in SUBSET U : SumOver(size, s) \in Int
      /\ \A s \in SUBSET U : \A p \in s : SumOver(size, s) = size[p] + SumOver(size, s \ {p})
  BY <1>1, SumOverFacts
<1>3. \A s \in SUBSET U : /\ IsFiniteSet(s) /\ Cardinality(s) \in Nat
                          /\ Cardinality(s) = 0 <=> s = {}
  BY FS_Subset, FS_CardinalityType, FS_EmptySet
<1>4. 0 \in A  BY <1>2, <1>3
<1>5. \A n \in Nat : n \in A => n + 1 \in A
  <2> SUFFICES ASSUME NEW n \in Nat, n \in A, NEW s \in SUBSET U, Cardinality(s) = n + 1,
                      NEW b \in Nat, \A x \in s : at[x] + size[x] <= b
               PROVE  SumOver(size, s) <= b
    OBVIOUS
  <2>1. s # {}  BY <1>3
  <2> DEFINE ends == {at[x] : x \in s}
  <2>2. PICK p \in s : \A x \in s : at[x] <= at[p]
    <3>1. ends \subseteq Int /\ ends # {}  BY <2>1
    <3>2. \A m \in ends : m <= b
      <4> SUFFICES ASSUME NEW x \in s PROVE at[x] <= b
        OBVIOUS
      <4>1. at[x] \in Nat /\ size[x] \in Nat /\ at[x] + size[x] <= b  OBVIOUS
      <4> QED  BY <4>1
    <3>3. b \in Int  OBVIOUS
    <3>4. \A m \in ends : \E x \in s : m = at[x]  OBVIOUS
    <3>5. \A x \in s : at[x] \in ends  OBVIOUS
    <3> HIDE DEF ends
    <3>6. Max(ends) \in ends /\ \A m \in ends : m <= Max(ends)
      BY <3>1, <3>2, <3>3, MaxIsGreatest
    <3>7. PICK p \in s : Max(ends) = at[p]  BY <3>4, <3>6
    <3> QED  BY <3>5, <3>6, <3>7
  <2> DEFINE rest == s \ {p}
  <2>3. rest \in SUBSET U /\ Cardinality(rest) = n
    <3>1. Cardinality(s \ {p}) = Cardinality(s) - 1  BY <1>3, FS_RemoveElement
    <3> QED  BY <3>1
  <2>4. \A x \in rest : at[x] + size[x] <= at[p]
    <3> SUFFICES ASSUME NEW x \in s, x # p PROVE at[x] + size[x] <= at[p]
      OBVIOUS
    <3>1. at[x] + size[x] <= at[p] \/ at[p] + size[p] <= at[x]  OBVIOUS
    <3>2. at[x] <= at[p] /\ at[x] \in Nat /\ at[p] \in Nat /\ size[p] \in Nat \ {0}
      BY <2>2
    <3> QED  BY <3>1, <3>2
  <2>5. at[p] \in Nat /\ size[p] \in Nat /\ at[p] + size[p] <= b  OBVIOUS
  <2>6. SumOver(size, rest) <= at[p]  BY <2>3, <2>4, <2>5
  <2>7. SumOver(size, s) = size[p] + SumOver(size, rest) /\ SumOver(size, rest) \in Int
    BY <1>2, <2>3
  <2> HIDE DEF rest
  <2> QED  BY <2>5, <2>6, <2>7
<1>6. Nat \subseteq A
  <2> HIDE DEF A
  <2> QED  BY <1>4, <1>5, NatSetInduction
<1>7. U \in SUBSET U /\ Cardinality(U) \in Nat  BY <1>3
<1> QED  BY <1>6, <1>7

=============================================================================
