---------------------------- MODULE DataInduction ----------------------------
(***************************************************************************)
(* Induction over data, for the proofs about recursive definitions.  The   *)
(* usual induction schemes take an operator, which the provers cannot use; *)
(* here they are stated for a set of those that have the property in       *)
(* question: over the naturals and over the subsets of a finite set.  From *)
(* them, that recursive functions are what their equations say, that sets  *)
(* that are bounded have a largest element, and that the SumFunction of    *)
(* the community modules, which adds the values of a function in an order  *)
(* of its own, does not depend on that order.                              *)
(***************************************************************************)
EXTENDS Integers, FiniteSets, Functions, FiniteSetTheorems, WellFoundedInduction, TLAPS

(* A set of naturals that is not empty has a least element.                *)
LEMMA LeastElement ==
  ASSUME NEW T, T \subseteq Nat, T # {}
  PROVE  \E m \in T : \A n \in T : m <= n
<1>1. PICK m \in T : \A n \in T : <<n, m>> \notin OpToRel(<, Nat)
  BY NatLessThanWellFounded, WFMin
<1>2. \A n \in T : ~(n < m)
  BY <1>1 DEF OpToRel
<1> QED BY <1>2

(* A set that has 0, and each natural number whose predecessor it has, has *)
(* them all.                                                               *)
LEMMA CountingUp ==
  ASSUME NEW G, 0 \in G, \A n \in Nat : n \in G => n + 1 \in G
  PROVE  Nat \subseteq G
<1> SUFFICES ASSUME Nat \ G # {} PROVE FALSE
  OBVIOUS
<1>1. PICK m \in Nat \ G : \A n \in Nat \ G : m <= n
  BY LeastElement
<1>2. m # 0 /\ m - 1 \in Nat /\ ~(m <= m - 1)
  BY <1>1
<1>3. m - 1 \in G /\ (m - 1) + 1 = m
  BY <1>1, <1>2
<1> QED BY <1>1, <1>2, <1>3

(* A set that has each subset of a finite set S all of whose subsets with  *)
(* one element less it has, has them all.                                  *)
LEMMA SubsetsUp ==
  ASSUME NEW S, IsFiniteSet(S), NEW G,
         \A s \in SUBSET S : (\A x \in s : s \ {x} \in G) => s \in G
  PROVE  SUBSET S \subseteq G
<1> DEFINE Upto == {n \in Nat : \A s \in SUBSET S : Cardinality(s) = n => s \in G}
<1>0. \A s \in SUBSET S : IsFiniteSet(s) /\ Cardinality(s) \in Nat
  BY FS_Subset, FS_CardinalityType
<1>1. 0 \in Upto
  BY <1>0, FS_EmptySet
<1>2. ASSUME NEW n \in Nat, n \in Upto PROVE n + 1 \in Upto
  <2> SUFFICES ASSUME NEW s \in SUBSET S, Cardinality(s) = n + 1 PROVE s \in G
    BY <1>2
  <2>1. ASSUME NEW x \in s PROVE s \ {x} \in G
    <3>1. Cardinality(s \ {x}) = n
      BY <1>0, FS_RemoveElement
    <3>2. s \ {x} \in SUBSET S
      OBVIOUS
    <3> QED BY <1>2, <3>1, <3>2
  <2> QED BY <2>1
<1> HIDE DEF Upto
<1>3. Nat \subseteq Upto
  BY <1>1, <1>2, CountingUp
<1> QED BY <1>0, <1>3 DEF Upto

-----------------------------------------------------------------------------
(* The values that steps go through, each on from the one before.          *)
GoesThrough(h, n, S, start, step) ==
  h \in [0 .. n -> S] /\ h[0] = start /\ \A i \in 1 .. n : h[i] = step[i][h[i - 1]]

(* There are such values, however many steps.                              *)
LEMMA StepByStep ==
  ASSUME NEW n \in Nat, NEW S, NEW start \in S, NEW step \in [1 .. n -> [S -> S]]
  PROVE  \E h : GoesThrough(h, n, S, start, step)
<1> DEFINE G == {k \in Nat : k <= n => \E h : GoesThrough(h, k, S, start, step)}
<1>1. 0 \in G
  <2>1. GoesThrough([i \in 0 .. 0 |-> start], 0, S, start, step)
    BY DEF GoesThrough
  <2> QED BY <2>1
<1>2. ASSUME NEW k \in Nat, k \in G PROVE k + 1 \in G
  <2> SUFFICES ASSUME k + 1 <= n PROVE \E h : GoesThrough(h, k + 1, S, start, step)
    OBVIOUS
  <2>1. PICK g : GoesThrough(g, k, S, start, step)
    BY <1>2
  <2> DEFINE next == step[k + 1][g[k]]
             h == [i \in 0 .. k + 1 |-> IF i = k + 1 THEN next ELSE g[i]]
  <2>2. /\ k + 1 \in 1 .. n /\ (k + 1) - 1 = k /\ k \in 0 .. k
        /\ \A i \in 0 .. k + 1 : i \in 0 .. k \/ i = k + 1
        /\ \A i \in 0 .. k : i \in 0 .. k + 1 /\ i # k + 1
        /\ \A i \in 1 .. k : i - 1 \in 0 .. k /\ i \in 0 .. k
        /\ \A i \in 1 .. k + 1 : i \in 1 .. k \/ i = k + 1
    OBVIOUS
  <2>3. next \in S /\ \A i \in 0 .. k : g[i] \in S
    BY <2>1, <2>2 DEF GoesThrough
  <2> HIDE DEF next
  <2>4. h[k + 1] = next /\ \A i \in 0 .. k : h[i] = g[i]
    BY <2>2
  <2>5. h \in [0 .. k + 1 -> S]
    BY <2>2, <2>3
  <2> HIDE DEF h
  <2>6. h[0] = start /\ \A i \in 1 .. k : h[i] = step[i][h[i - 1]]
    BY <2>1, <2>2, <2>4 DEF GoesThrough
  <2>7. h[k + 1] = step[k + 1][h[(k + 1) - 1]]
    BY <2>2, <2>4 DEF next
  <2>8. GoesThrough(h, k + 1, S, start, step)
    BY <2>2, <2>5, <2>6, <2>7 DEF GoesThrough
  <2> QED BY <2>8
<1> HIDE DEF G
<1>3. n \in G
  BY <1>1, <1>2, CountingUp
<1> QED BY <1>3 DEF G

(* What each step leaves in a set stays in it.                             *)
LEMMA StaysIn ==
  ASSUME NEW n \in Nat, NEW S, NEW g, g[0] \in S,
         \A i \in 1 .. n : g[i - 1] \in S => g[i] \in S
  PROVE  \A i \in 0 .. n : g[i] \in S
<1> DEFINE G == {i \in Nat : i <= n => g[i] \in S}
<1>1. 0 \in G
  OBVIOUS
<1>2. ASSUME NEW i \in Nat, i \in G PROVE i + 1 \in G
  <2>1. i + 1 <= n => i + 1 \in 1 .. n /\ (i + 1) - 1 = i /\ g[i] \in S
    BY <1>2
  <2> QED BY <2>1
<1> HIDE DEF G
<1>3. \A i \in 0 .. n : i \in G
  BY <1>1, <1>2, CountingUp
<1> QED BY <1>3 DEF G

(* A set of naturals below a bound has a largest element.                  *)
LEMMA LargestElement ==
  ASSUME NEW T, T \subseteq Nat, T # {}, NEW n \in Nat, \A m \in T : m <= n
  PROVE  \E m \in T : \A k \in T : k <= m
<1> DEFINE Bounds == {m \in Nat : \A k \in T : k <= m}
<1>1. PICK b \in Bounds : \A m \in Bounds : b <= m
  BY LeastElement
<1>2. CASE b \in T
  BY <1>2
<1>3. CASE b \notin T
  <2>1. \A k \in T : k < b
    BY <1>3
  <2>2. b - 1 \in Nat /\ \A k \in T : k <= b - 1
    <3>1. PICK k \in T : TRUE
      OBVIOUS
    <3> QED BY <2>1, <3>1
  <2>3. b - 1 \in Bounds /\ ~(b <= b - 1)
    BY <2>2
  <2> QED BY <1>1, <2>3
<1> QED BY <1>2, <1>3

(* A finite set of naturals is below a bound.                              *)
LEMMA FiniteBounded ==
  ASSUME NEW S, IsFiniteSet(S), NEW f, \A x \in S : f[x] \in Nat
  PROVE  \E n \in Nat : \A x \in S : f[x] <= n
<1> DEFINE G == {s \in SUBSET S : \E n \in Nat : \A x \in s : f[x] <= n}
<1>1. ASSUME NEW s \in SUBSET S, \A x \in s : s \ {x} \in G PROVE s \in G
  <2>1. CASE s = {}
    BY <2>1
  <2>2. CASE s # {}
    <3>1. PICK x \in s : TRUE
      BY <2>2
    <3>2. PICK n \in Nat : \A y \in s \ {x} : f[y] <= n
      BY <1>1
    <3>3. \A y \in s : f[y] <= n + f[x] /\ n + f[x] \in Nat
      BY <3>2
    <3> QED BY <3>3
  <2> QED BY <2>1, <2>2
<1> HIDE DEF G
<1>2. SUBSET S \subseteq G
  BY <1>1, SubsetsUp
<1> QED BY <1>2 DEF G

-----------------------------------------------------------------------------
(* What SumFunction folds with: the sums over the subsets of S, each taken *)
(* from the sum over the subset without an element of it.                  *)
Pick(s) == CHOOSE x \in s : TRUE
IsSums(fun, S, sums) ==
  sums = [s \in SUBSET S |-> IF s = {} THEN 0 ELSE fun[Pick(s)] + sums[s \ {Pick(s)}]]
Sums(fun, S) == CHOOSE sums : IsSums(fun, S, sums)

(* SumFunction is the sum over the whole domain.                           *)
LEMMA SumFunctionIs ==
  ASSUME NEW fun PROVE SumFunction(fun) = Sums(fun, DOMAIN fun)[DOMAIN fun]
BY DEF SumFunction, SumFunctionOnSet, FoldFunctionOnSet, MapThenFoldSet, Sums, IsSums, Pick

(* There are such sums: those over larger subsets from those over smaller. *)
LEMMA SumsDefined ==
  ASSUME NEW fun, NEW S, IsFiniteSet(S)
  PROVE  IsSums(fun, S, Sums(fun, S))
<1> DEFINE Small(n) == {s \in SUBSET S : Cardinality(s) <= n}
           Partial(n, h) == h = [s \in Small(n) |->
             IF s = {} THEN 0 ELSE fun[Pick(s)] + h[s \ {Pick(s)}]]
           G == {n \in Nat : \E h : Partial(n, h)}
<1>0. \A s \in SUBSET S : /\ IsFiniteSet(s) /\ Cardinality(s) \in Nat
                          /\ Cardinality(s) <= Cardinality(S)
                          /\ (Cardinality(s) = 0 <=> s = {})
                          /\ s # {} => Pick(s) \in s
  BY FS_Subset, FS_CardinalityType, FS_EmptySet DEF Pick
<1>1. 0 \in G
  <2> DEFINE h == [s \in Small(0) |-> 0]
  <2>1. \A s \in Small(0) : s = {}
    BY <1>0
  <2>2. Partial(0, h)
    BY <2>1
  <2> QED BY <2>2
<1>2. ASSUME NEW n \in Nat, n \in G PROVE n + 1 \in G
  <2> HIDE DEF Small
  <2>1. PICK g : Partial(n, g)
    BY <1>2
  <2> DEFINE h == [s \in Small(n + 1) |->
                     IF s = {} THEN 0 ELSE fun[Pick(s)] + g[s \ {Pick(s)}]]
  <2>2. ASSUME NEW s \in Small(n + 1), s # {}
        PROVE  s \ {Pick(s)} \in Small(n) /\ s \ {Pick(s)} \in Small(n + 1)
    <3>1. Cardinality(s \ {Pick(s)}) = Cardinality(s) - 1 /\ s \ {Pick(s)} \in SUBSET S
      BY <1>0, <2>2, FS_RemoveElement DEF Small
    <3> QED BY <1>0, <2>2, <3>1 DEF Small
  <2>3. \A s \in Small(n) : s \in Small(n + 1) => g[s] = h[s]
    BY <2>1
  <2>4. Partial(n + 1, h)
    <3>1. \A s \in Small(n + 1) : s # {} => g[s \ {Pick(s)}] = h[s \ {Pick(s)}]
      BY <2>2, <2>3
    <3> QED BY <3>1
  <2> HIDE DEF h
  <2> QED BY <2>4
<1> HIDE DEF G
<1>3. Cardinality(S) \in G
  BY <1>0, <1>1, <1>2, CountingUp
<1>4. PICK h : Partial(Cardinality(S), h)
  BY <1>3 DEF G
<1>5. Small(Cardinality(S)) = SUBSET S
  BY <1>0
<1>6. IsSums(fun, S, h)
  BY <1>4, <1>5 DEF IsSums
<1> QED BY <1>6 DEF Sums

(* Whichever element of a subset is taken out, the rest makes the same     *)
(* sum.                                                                    *)
LEMMA SumsOrder ==
  ASSUME NEW S, IsFiniteSet(S), NEW fun, \A x \in S : fun[x] \in Int
  PROVE  /\ Sums(fun, S)[{}] = 0
         /\ \A s \in SUBSET S : Sums(fun, S)[s] \in Int
         /\ \A s \in SUBSET S : \A x \in s :
              Sums(fun, S)[s] = fun[x] + Sums(fun, S)[s \ {x}]
<1> DEFINE sum == Sums(fun, S)
           Typed == {s \in SUBSET S : sum[s] \in Int}
           G == {s \in SUBSET S : \A x \in s : sum[s] = fun[x] + sum[s \ {x}]}
<1>1. \A s \in SUBSET S : sum[s] = IF s = {} THEN 0 ELSE fun[Pick(s)] + sum[s \ {Pick(s)}]
  <2>1. IsSums(fun, S, sum)
    BY SumsDefined
  <2> HIDE DEF sum
  <2> QED BY <2>1 DEF IsSums
<1> HIDE DEF sum
<1>2. \A s \in SUBSET S : s # {} => Pick(s) \in s
  BY DEF Pick
<1>3. SUBSET S \subseteq Typed
  <2>1. ASSUME NEW s \in SUBSET S, \A x \in s : s \ {x} \in Typed PROVE s \in Typed
    <3>1. CASE s = {}
      <4>1. sum[s] = 0
        BY <1>1, <3>1
      <4> QED BY <4>1
    <3>2. CASE s # {}
      <4>1. Pick(s) \in s /\ sum[s] = fun[Pick(s)] + sum[s \ {Pick(s)}]
        BY <1>1, <1>2, <3>2
      <4>2. fun[Pick(s)] \in Int /\ sum[s \ {Pick(s)}] \in Int
        BY <2>1, <4>1
      <4> QED BY <4>1, <4>2
    <3> QED BY <3>1, <3>2
  <2> HIDE DEF Typed
  <2> QED BY <2>1, SubsetsUp
<1>4. ASSUME NEW s \in SUBSET S, \A x \in s : s \ {x} \in G PROVE s \in G
  <2> SUFFICES ASSUME NEW x \in s PROVE sum[s] = fun[x] + sum[s \ {x}]
    OBVIOUS
  <2> DEFINE p == Pick(s)
  <2>1. p \in s
    BY <1>2
  <2>2. sum[s] = fun[p] + sum[s \ {p}]
    BY <1>1
  <2> HIDE DEF p
  <2>3. CASE x = p
    BY <2>2, <2>3
  <2>4. CASE x # p
    <3>1. sum[s \ {p}] = fun[x] + sum[(s \ {p}) \ {x}]
      BY <1>4, <2>1, <2>4
    <3>2. sum[s \ {x}] = fun[p] + sum[(s \ {p}) \ {x}]
      <4>1. (s \ {p}) \ {x} = (s \ {x}) \ {p}
        OBVIOUS
      <4>2. sum[s \ {x}] = fun[p] + sum[(s \ {x}) \ {p}]
        BY <1>4, <2>1, <2>4
      <4> QED BY <4>1, <4>2
    <3>3. sum[(s \ {p}) \ {x}] \in Int
      BY <1>3
    <3>4. fun[x] \in Int /\ fun[p] \in Int
      BY <2>1
    <3> HIDE DEF G, Typed
    <3> QED BY <2>2, <3>1, <3>2, <3>3, <3>4
  <2> QED BY <2>3, <2>4
<1>5. SUBSET S \subseteq G
  <2> HIDE DEF G
  <2> QED BY <1>4, SubsetsUp
<1>6. sum[{}] = 0
  BY <1>1
<1> QED BY <1>3, <1>5, <1>6 DEF sum

(* A sum stays the same when what is added is renamed: the values of two   *)
(* functions that agree along a bijection of their domains have one sum.   *)
LEMMA SumRenamed ==
  ASSUME NEW S, IsFiniteSet(S), NEW f \in [S -> Int],
         NEW R, NEW g \in [R -> Int],
         NEW b \in Bijection(S, R), \A x \in S : g[b[x]] = f[x]
  PROVE  SumFunction(f) = SumFunction(g)
<1> DEFINE Image(s) == {b[x] : x \in s}
           G == {s \in SUBSET S : Sums(f, S)[s] = Sums(g, R)[Image(s)]}
<1>1. /\ b \in [S -> R] /\ \A x, y \in S : b[x] = b[y] => x = y
      /\ \A y \in R : \E x \in S : b[x] = y
  BY DEF Bijection, Injection, Surjection, IsInjective
<1>2. IsFiniteSet(R)
  BY FS_Bijection DEF ExistsBijection
<1>3. ASSUME NEW s \in SUBSET S, \A x \in s : s \ {x} \in G PROVE s \in G
  <2>1. CASE s = {}
    <3>1. Image(s) = {}
      BY <2>1
    <3>2. Sums(f, S)[{}] = 0 /\ Sums(g, R)[{}] = 0
      BY <1>2, SumsOrder
    <3> QED BY <2>1, <3>1, <3>2
  <2>2. ASSUME NEW x \in s PROVE s \in G
    <3>1. Sums(f, S)[s] = f[x] + Sums(f, S)[s \ {x}]
      BY SumsOrder
    <3>2. Image(s) \in SUBSET R /\ b[x] \in Image(s) /\ Image(s) \ {b[x]} = Image(s \ {x})
      BY <1>1
    <3>3. Sums(g, R)[Image(s)] = g[b[x]] + Sums(g, R)[Image(s) \ {b[x]}]
      <4>1. \A y \in R : g[y] \in Int
        OBVIOUS
      <4> HIDE DEF Image
      <4> QED BY <1>2, <3>2, <4>1, SumsOrder
    <3>4. Sums(f, S)[s \ {x}] = Sums(g, R)[Image(s \ {x})]
      BY <1>3
    <3> QED BY <3>1, <3>2, <3>3, <3>4
  <2> QED BY <2>1, <2>2
<1>4. S \in G
  <2> HIDE DEF G
  <2> QED BY <1>3, SubsetsUp
<1>5. Image(S) = R
  BY <1>1
<1> QED BY <1>4, <1>5, SumFunctionIs

=============================================================================
