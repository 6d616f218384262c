---------------------------- MODULE DataTheorems ----------------------------
(***************************************************************************)
(* Facts about data: sums (SumFunctionOnSet of the community module        *)
(* Functions), recursive functions, the lists of the module Ordering, and  *)
(* the lexicographic order in which programs run out of steps.             *)
(* All inductions rest on one fact: a non-empty set of subsets of a finite *)
(* set has a minimal one.                                                  *)
(***************************************************************************)
EXTENDS Ordering, FiniteSetTheorems, TLAPS

\* A counterexample among the subsets of a finite set can be taken minimal.
LEMMA MinimalSubset ==
  ASSUME NEW S, IsFiniteSet(S), NEW T, T \subseteq SUBSET S, T # {}
  PROVE  \E X \in T : \A Y \in T : Y \subseteq X => Y = X
<1>1. IsWellFoundedOn(StrictSubsetOrdering(S), SUBSET S)
  BY FS_StrictSubsetOrderingWellFounded, FS_FiniteSubsetsOfFinite
<1>2. \E X \in T : \A Y \in T : ~ (<<Y, X>> \in StrictSubsetOrdering(S))
  BY <1>1, WFMin
<1> QED  BY <1>2 DEF StrictSubsetOrdering

\* A non-empty set of natural numbers has a least element.
LEMMA LeastNatural ==
  ASSUME NEW T \in SUBSET Nat, T # {}
  PROVE  \E x \in T : \A y \in T : x <= y
<1>1. PICK n \in T : TRUE
  OBVIOUS
<1> DEFINE upTo == {0 .. k : k \in {j \in T : j <= n}}
           below == 0 .. n
<1>2. IsFiniteSet(below)
  BY FS_Interval
<1>3. upTo \subseteq SUBSET below /\ upTo # {}
  OBVIOUS
<1>4. PICK X \in upTo : \A Y \in upTo : Y \subseteq X => Y = X
  <2> HIDE DEF upTo, below
  <2> QED  BY <1>2, <1>3, MinimalSubset
<1>5. PICK x \in T : x <= n /\ X = 0 .. x
  OBVIOUS
<1>6. ASSUME NEW y \in T PROVE x <= y
  <2>1. CASE y <= n
    <3>1. 0 .. y \in upTo
      BY <2>1
    <3>2. ASSUME y < x PROVE 0 .. y \subseteq X /\ x \in X /\ x \notin 0 .. y
      BY <1>5, <3>2
    <3>3. 0 .. y \subseteq X => 0 .. y = X
      BY <1>4, <3>1
    <3>4. ~ (y < x)
      BY <3>2, <3>3
    <3> QED  BY <3>4
  <2>2. CASE ~ (y <= n)
    BY <1>5, <2>2
  <2> QED  BY <2>1, <2>2
<1> QED  BY <1>6

\* A finite one has a greatest.
LEMMA GreatestNatural ==
  ASSUME NEW S \in SUBSET Nat, IsFiniteSet(S), S # {}
  PROVE  \E x \in S : \A y \in S : y <= x
<1> DEFINE up(x) == {y \in S : x <= y}
           T == {up(x) : x \in S}
           all == S
<1>1. T \subseteq SUBSET S /\ T # {}
  OBVIOUS
<1>2. PICK X \in T : \A Y \in T : Y \subseteq X => Y = X
  <2>1. IsFiniteSet(all) /\ T \subseteq SUBSET all /\ T # {}
    BY <1>1
  <2> HIDE DEF T, up, all
  <2> QED  BY ONLY <2>1, MinimalSubset
<1>3. PICK x \in S : X = up(x)
  OBVIOUS
<1>4. ASSUME NEW y \in S PROVE y <= x
  <2> SUFFICES ASSUME x < y PROVE FALSE
    OBVIOUS
  <2>1. up(y) \in T
    OBVIOUS
  <2>2. up(y) \subseteq X
    <3>1. \A z \in S : y <= z => x <= z
      BY <1>3, <1>4
    <3> QED  BY <1>3, <3>1
  <2>3. up(y) = X
    BY <1>2, <2>1, <2>2
  <2>4. x \in up(y)
    BY <1>3, <2>3
  <2> QED  BY <2>4
<1> QED  BY <1>4

-----------------------------------------------------------------------------
(* SumFunctionOnSet is a recursive function on the subsets of the indices;  *)
(* it satisfies its equation.                                               *)

Picked(X) == CHOOSE x \in X : TRUE

SumStep(f, g, X) == IF X = {} THEN 0 ELSE f[Picked(X)] + g[X \ {Picked(X)}]

LEMMA SumIsRecursive ==
  ASSUME NEW f, NEW S
  PROVE  SumFunctionOnSet(f, S) = (CHOOSE g : g = [X \in SUBSET S |-> SumStep(f, g, X)])[S]
BY DEF SumFunctionOnSet, FoldFunctionOnSet, MapThenFoldSet, SumStep, Picked

LEMMA PickedIn == ASSUME NEW X, X # {} PROVE Picked(X) \in X
BY DEF Picked

\* The equation has a solution: up to any cardinality, so for all subsets.
LEMMA SumExists ==
  ASSUME NEW f, NEW S, IsFiniteSet(S)
  PROVE  \E g : g = [X \in SUBSET S |-> SumStep(f, g, X)]
<1> DEFINE D(n) == {X \in SUBSET S : Cardinality(X) <= n}
           Solved(n) == \E g : g = [X \in D(n) |-> SumStep(f, g, X)]
           open == {n \in Nat : ~ Solved(n)}
<1>0. \A X \in SUBSET S : IsFiniteSet(X) /\ Cardinality(X) \in Nat
  BY FS_Subset, FS_CardinalityType
<1>1. Solved(0)
  <2>1. \A X \in D(0) : X = {}
    BY <1>0, FS_EmptySet
  <2> DEFINE g == [X \in D(0) |-> 0]
  <2>2. g = [X \in D(0) |-> SumStep(f, g, X)]
    BY <2>1 DEF SumStep
  <2> QED  BY <2>2
<1>2. ASSUME NEW n \in Nat, Solved(n) PROVE Solved(n + 1)
  <2>1. PICK g : g = [X \in D(n) |-> SumStep(f, g, X)]
    BY <1>2
  <2> DEFINE h == [X \in D(n + 1) |-> IF X \in D(n) THEN g[X] ELSE SumStep(f, g, X)]
  <2>2. ASSUME NEW X \in D(n + 1) PROVE h[X] = SumStep(f, h, X)
    <3>1. CASE X = {}
      <4>1. h[X] = SumStep(f, g, X)
        BY <2>1
      <4> QED  BY <3>1, <4>1 DEF SumStep
    <3>2. CASE X # {}
      <4> DEFINE W == X \ {Picked(X)}
      <4>1. Picked(X) \in X
        BY <3>2, PickedIn
      <4>2. Cardinality(W) = Cardinality(X) - 1
        BY <4>1, <1>0, FS_RemoveElement
      <4>3. W \in D(n) /\ W \in D(n + 1)
        BY <4>2, <1>0
      <4>4. h[W] = g[W]
        BY <4>3
      <4>5. h[X] = SumStep(f, g, X)
        BY <2>1
      <4> QED  BY <3>2, <4>4, <4>5 DEF SumStep
    <3> QED  BY <3>1, <3>2
  <2>3. h = [X \in D(n + 1) |-> h[X]]
    OBVIOUS
  <2>4. h = [X \in D(n + 1) |-> SumStep(f, h, X)]
    <3> HIDE DEF h
    <3> QED  BY <2>2, <2>3
  <2> QED  BY <2>4
<1>3. \A n \in Nat : Solved(n)
  <2> SUFFICES ASSUME open # {} PROVE FALSE
    OBVIOUS
  <2>1. PICK n \in open : \A k \in open : n <= k
    BY LeastNatural
  <2>2. n # 0
    BY <1>1
  <2>3. Solved(n - 1)
    <3>1. n - 1 \in Nat /\ ~ (n <= n - 1)
      BY <2>2
    <3> QED  BY <2>1, <3>1
  <2>4. n - 1 \in Nat /\ (n - 1) + 1 = n
    BY <2>2
  <2> HIDE DEF Solved
  <2>5. Solved((n - 1) + 1)
    BY <1>2, <2>3, <2>4
  <2> QED  BY <2>1, <2>4, <2>5
<1>4. D(Cardinality(S)) = SUBSET S
  BY <1>0, FS_Subset
<1>5. Cardinality(S) \in Nat
  BY FS_CardinalityType
<1> QED  BY <1>3, <1>4, <1>5

Solves(f, g, S) == \A X \in SUBSET S : g[X] = SumStep(f, g, X)

\* Two solutions, for one set of indices or for two, agree where both are defined.
LEMMA SumUnique ==
  ASSUME NEW f, NEW S, IsFiniteSet(S), NEW R, R \subseteq S,
         NEW g, Solves(f, g, S), NEW h, Solves(f, h, R)
  PROVE  g[R] = h[R]
<1> DEFINE apart == {X \in SUBSET R : g[X] # h[X]}
<1> SUFFICES ASSUME apart # {} PROVE FALSE
  OBVIOUS
<1>1. IsFiniteSet(R)
  BY FS_Subset
<1>2. PICK X \in apart : \A Y \in apart : Y \subseteq X => Y = X
  <2>1. apart \subseteq SUBSET R
    OBVIOUS
  <2> HIDE DEF apart
  <2> QED  BY <1>1, <2>1, MinimalSubset
<1>3. g[X] = SumStep(f, g, X) /\ h[X] = SumStep(f, h, X)
  BY DEF Solves
<1>4. X # {}
  BY <1>3 DEF SumStep
<1> DEFINE W == X \ {Picked(X)}
<1>5. W \subseteq X /\ W # X
  BY <1>4, PickedIn
<1>6. g[W] = h[W]
  BY <1>2, <1>5
<1> QED  BY <1>3, <1>4, <1>6 DEF SumStep

Solution(f, S) == CHOOSE g : g = [X \in SUBSET S |-> SumStep(f, g, X)]

LEMMA SolutionSolves ==
  ASSUME NEW f, NEW S, IsFiniteSet(S)
  PROVE  /\ Solves(f, Solution(f, S), S)
         /\ SumFunctionOnSet(f, S) = Solution(f, S)[S]
<1>1. PICK g : g = [X \in SUBSET S |-> SumStep(f, g, X)]
  BY SumExists
<1>2. PICK h : /\ h = Solution(f, S)
               /\ h = [X \in SUBSET S |-> SumStep(f, h, X)]
  BY <1>1 DEF Solution
<1>3. \A X \in SUBSET S : h[X] = SumStep(f, h, X)
  BY <1>2
<1>4. Solves(f, Solution(f, S), S)
  BY <1>2, <1>3 DEF Solves
<1> QED  BY <1>4, SumIsRecursive DEF Solution

\* What the recursive definition says of a finite set of indices.
LEMMA SumEquation ==
  ASSUME NEW f, NEW S, IsFiniteSet(S)
  PROVE  /\ SumFunctionOnSet(f, {}) = 0
         /\ S # {} => SumFunctionOnSet(f, S)
                        = f[Picked(S)] + SumFunctionOnSet(f, S \ {Picked(S)})
<1>1. \A R \in {S, S \ {Picked(S)}, {}} :
        /\ Solves(f, Solution(f, R), R)
        /\ SumFunctionOnSet(f, R) = Solution(f, R)[R]
        /\ SumFunctionOnSet(f, R) = SumStep(f, Solution(f, R), R)
  <2>1. \A R \in {S, S \ {Picked(S)}, {}} : IsFiniteSet(R)
    BY FS_RemoveElement, FS_EmptySet
  <2>2. \A R \in {S, S \ {Picked(S)}, {}} :
          /\ Solves(f, Solution(f, R), R)
          /\ SumFunctionOnSet(f, R) = Solution(f, R)[R]
    BY <2>1, SolutionSolves
  <2> QED  BY <2>2 DEF Solves
<1>2. SumFunctionOnSet(f, {}) = 0
  BY <1>1 DEF SumStep
<1>3. ASSUME S # {}
      PROVE  SumFunctionOnSet(f, S) = f[Picked(S)] + SumFunctionOnSet(f, S \ {Picked(S)})
  <2>1. PICK W : W = S \ {Picked(S)}
    OBVIOUS
  <2>2. W \subseteq S
    BY <2>1
  <2>3. Solution(f, S)[W] = Solution(f, W)[W]
    <3>1. Solves(f, Solution(f, S), S) /\ Solves(f, Solution(f, W), W)
      BY <1>1, <2>1
    <3> QED  BY <2>2, <3>1, SumUnique
  <2>4. Solution(f, S)[W] = SumFunctionOnSet(f, W)
    BY <1>1, <2>1, <2>2, <2>3
  <2> QED  BY <1>1, <1>3, <2>1, <2>4 DEF SumStep
<1> QED  BY <1>2, <1>3

-----------------------------------------------------------------------------
(* Sums of integers.                                                       *)

THEOREM SumEmpty == ASSUME NEW f PROVE SumFunctionOnSet(f, {}) = 0
BY SumEquation, FS_EmptySet

\* A sum of integers is one, and any of its terms can be taken out.
THEOREM SumInt ==
  ASSUME NEW S, IsFiniteSet(S), NEW f, \A x \in S : f[x] \in Int
  PROVE  SumFunctionOnSet(f, S) \in Int
<1> DEFINE bad == {X \in SUBSET S : SumFunctionOnSet(f, X) \notin Int}
<1> SUFFICES ASSUME bad # {} PROVE FALSE
  OBVIOUS
<1>1. PICK X \in bad : \A Y \in bad : Y \subseteq X => Y = X
  <2>1. bad \subseteq SUBSET S
    OBVIOUS
  <2> HIDE DEF bad
  <2> QED  BY <2>1, MinimalSubset
<1>2. IsFiniteSet(X)
  BY FS_Subset
<1>3. X # {}
  BY SumEmpty
<1> DEFINE W == X \ {Picked(X)}
<1>4. Picked(X) \in X /\ W \subseteq X /\ W # X
  BY <1>3, PickedIn
<1>5. SumFunctionOnSet(f, W) \in Int
  BY <1>1, <1>4
<1>6. SumFunctionOnSet(f, X) = f[Picked(X)] + SumFunctionOnSet(f, W)
  BY <1>2, <1>3, SumEquation
<1>7. SumFunctionOnSet(f, X) \in Int
  BY <1>4, <1>5, <1>6
<1> QED  BY <1>7

LEMMA SumRemove ==
  ASSUME NEW S, IsFiniteSet(S), NEW f, \A x \in S : f[x] \in Int, NEW x \in S
  PROVE  SumFunctionOnSet(f, S) = f[x] + SumFunctionOnSet(f, S \ {x})
<1> DEFINE Holds(X) == \A y \in X : SumFunctionOnSet(f, X) = f[y] + SumFunctionOnSet(f, X \ {y})
           bad == {X \in SUBSET S : ~ Holds(X)}
<1> SUFFICES ASSUME bad # {} PROVE FALSE
  OBVIOUS
<1>1. PICK X \in bad : \A Y \in bad : Y \subseteq X => Y = X
  <2>1. bad \subseteq SUBSET S
    OBVIOUS
  <2> HIDE DEF bad
  <2> QED  BY <2>1, MinimalSubset
<1>2. X \in SUBSET S /\ ~ Holds(X)
  OBVIOUS
<1>3. PICK y \in X : SumFunctionOnSet(f, X) # f[y] + SumFunctionOnSet(f, X \ {y})
  BY <1>2
<1> DEFINE c == Picked(X)
<1>4. c \in X
  BY PickedIn
<1>5. IsFiniteSet(X) /\ IsFiniteSet(X \ {c}) /\ IsFiniteSet(X \ {y}) /\ IsFiniteSet((X \ {c}) \ {y})
  BY <1>2, FS_Subset, FS_RemoveElement
<1>6. SumFunctionOnSet(f, X) = f[c] + SumFunctionOnSet(f, X \ {c})
  BY <1>4, <1>5, SumEquation
<1> HIDE DEF c
<1>7. c # y
  BY <1>3, <1>6
<1>8. Holds(X \ {c}) /\ Holds(X \ {y})
  <2>1. X \ {c} # X /\ X \ {y} # X /\ X \ {c} \in SUBSET S /\ X \ {y} \in SUBSET S
    BY <1>2, <1>4
  <2> HIDE DEF Holds
  <2> QED  BY <1>1, <2>1
<1>9. /\ SumFunctionOnSet(f, X \ {c}) = f[y] + SumFunctionOnSet(f, (X \ {c}) \ {y})
      /\ SumFunctionOnSet(f, X \ {y}) = f[c] + SumFunctionOnSet(f, (X \ {y}) \ {c})
  BY <1>4, <1>7, <1>8
<1>10. (X \ {y}) \ {c} = (X \ {c}) \ {y}
  OBVIOUS
<1>11. SumFunctionOnSet(f, (X \ {c}) \ {y}) \in Int /\ f[c] \in Int /\ f[y] \in Int
  BY <1>2, <1>4, <1>5, SumInt
<1> DEFINE fc == f[c]
           fy == f[y]
           rest == SumFunctionOnSet(f, (X \ {c}) \ {y})
           noC == SumFunctionOnSet(f, X \ {c})
           noY == SumFunctionOnSet(f, X \ {y})
<1>12. noC = fy + rest /\ noY = fc + rest /\ fc + noC # fy + noY
  BY <1>3, <1>6, <1>9, <1>10
<1>13. rest \in Int /\ fc \in Int /\ fy \in Int
  BY <1>11
<1> HIDE DEF fc, fy, rest, noC, noY
<1> QED  BY <1>12, <1>13

\* Sums of equal terms are equal.
THEOREM SumSame ==
  ASSUME NEW S, IsFiniteSet(S), NEW f, NEW g, \A x \in S : f[x] = g[x]
  PROVE  SumFunctionOnSet(f, S) = SumFunctionOnSet(g, S)
<1> DEFINE bad == {X \in SUBSET S : SumFunctionOnSet(f, X) # SumFunctionOnSet(g, X)}
<1> SUFFICES ASSUME bad # {} PROVE FALSE
  OBVIOUS
<1>1. PICK X \in bad : \A Y \in bad : Y \subseteq X => Y = X
  <2>1. bad \subseteq SUBSET S
    OBVIOUS
  <2> HIDE DEF bad
  <2> QED  BY <2>1, MinimalSubset
<1>2. IsFiniteSet(X)
  BY FS_Subset
<1>3. X # {}
  BY SumEmpty
<1> DEFINE W == X \ {Picked(X)}
<1>4. Picked(X) \in X /\ W \subseteq X /\ W # X
  BY <1>3, PickedIn
<1>5. SumFunctionOnSet(f, W) = SumFunctionOnSet(g, W)
  BY <1>1, <1>4
<1>6. /\ SumFunctionOnSet(f, X) = f[Picked(X)] + SumFunctionOnSet(f, W)
      /\ SumFunctionOnSet(g, X) = g[Picked(X)] + SumFunctionOnSet(g, W)
  BY <1>2, <1>3, SumEquation
<1>7. f[Picked(X)] = g[Picked(X)]
  BY <1>4
<1> QED  BY <1>5, <1>6, <1>7

\* A sum of natural numbers, none of them above h.
THEOREM SumBounded ==
  ASSUME NEW S, IsFiniteSet(S), NEW f, NEW h \in Nat, \A x \in S : f[x] \in 0 .. h
  PROVE  /\ SumFunctionOnSet(f, S) \in Nat
         /\ SumFunctionOnSet(f, S) <= h * Cardinality(S)
<1> DEFINE Holds(X) == /\ SumFunctionOnSet(f, X) \in Nat
                       /\ SumFunctionOnSet(f, X) <= h * Cardinality(X)
           bad == {X \in SUBSET S : ~ Holds(X)}
<1> SUFFICES ASSUME bad # {} PROVE FALSE
  OBVIOUS
<1>1. PICK X \in bad : \A Y \in bad : Y \subseteq X => Y = X
  <2>1. bad \subseteq SUBSET S
    OBVIOUS
  <2> HIDE DEF bad
  <2> QED  BY <2>1, MinimalSubset
<1>2. IsFiniteSet(X) /\ X \in SUBSET S /\ ~ Holds(X)
  BY FS_Subset
<1>3. X # {}
  BY <1>2, SumEmpty, FS_EmptySet
<1> DEFINE c == Picked(X)
           W == X \ {c}
<1>4. c \in X /\ W \subseteq X /\ W # X
  BY <1>3, PickedIn
<1>5. Holds(W)
  <2>1. W \in SUBSET S
    BY <1>2
  <2> HIDE DEF Holds, W
  <2> QED  BY <1>1, <1>4, <2>1
<1>6. SumFunctionOnSet(f, X) = f[c] + SumFunctionOnSet(f, W)
  BY <1>2, <1>3, SumEquation
<1>7. Cardinality(X) = Cardinality(W) + 1 /\ Cardinality(W) \in Nat
  <2>1. IsFiniteSet(W) /\ Cardinality(W) = Cardinality(X) - 1
    BY <1>2, <1>4, FS_RemoveElement
  <2>2. Cardinality(X) \in Nat /\ Cardinality(W) \in Nat
    BY <1>2, <2>1, FS_CardinalityType
  <2> QED  BY <2>1, <2>2
<1>8. f[c] \in 0 .. h
  BY <1>2, <1>4
<1> DEFINE k == Cardinality(W)
           rest == SumFunctionOnSet(f, W)
           fc == f[c]
<1>9. rest \in Nat /\ rest <= h * k /\ fc \in 0 .. h /\ k \in Nat
  BY <1>5, <1>7, <1>8
<1>10. ~ (fc + rest \in Nat /\ fc + rest <= h * (k + 1))
  BY <1>2, <1>6, <1>7
<1> HIDE DEF fc, rest, k
<1>11. h * (k + 1) = h * k + h /\ h * k \in Nat
  BY <1>9
<1> QED  BY <1>9, <1>10, <1>11

\* A sum of natural numbers is one.
THEOREM SumNat ==
  ASSUME NEW S, IsFiniteSet(S), NEW f, \A x \in S : f[x] \in Nat
  PROVE  SumFunctionOnSet(f, S) \in Nat
<1> DEFINE bad == {X \in SUBSET S : SumFunctionOnSet(f, X) \notin Nat}
<1> SUFFICES ASSUME bad # {} PROVE FALSE
  OBVIOUS
<1>1. PICK X \in bad : \A Y \in bad : Y \subseteq X => Y = X
  <2>1. bad \subseteq SUBSET S
    OBVIOUS
  <2> HIDE DEF bad
  <2> QED  BY <2>1, MinimalSubset
<1>2. IsFiniteSet(X) /\ X \in SUBSET S
  BY FS_Subset
<1>3. X # {}
  BY SumEmpty
<1> DEFINE c == Picked(X)
<1>4. c \in X /\ f[c] \in Nat
  BY <1>2, <1>3, PickedIn
<1>5. SumFunctionOnSet(f, X) = f[c] + SumFunctionOnSet(f, X \ {c})
  BY <1>2, <1>3, SumEquation
<1>6. SumFunctionOnSet(f, X \ {c}) \in Nat
  <2>1. X \ {c} \in SUBSET S /\ X \ {c} \subseteq X /\ X \ {c} # X
    BY <1>2, <1>4
  <2>2. X \ {c} \notin bad
    <3> HIDE DEF bad
    <3> QED  BY <1>1, <2>1
  <2> QED  BY <2>1, <2>2
<1>7. SumFunctionOnSet(f, X) \in Nat
  <2> HIDE DEF c, bad
  <2> QED  BY <1>4, <1>5, <1>6
<1> QED  BY <1>7

\* The order of the terms, and what they are numbered with, does not matter.
LEMMA SumReindex ==
  ASSUME NEW S, IsFiniteSet(S), NEW T, NEW p \in Bijection(S, T),
         NEW f, NEW g, \A x \in S : f[x] \in Int /\ f[x] = g[p[x]]
  PROVE  SumFunctionOnSet(f, S) = SumFunctionOnSet(g, T)
<1> DEFINE img(X) == {p[x] : x \in X}
           Holds(X) == SumFunctionOnSet(f, X) = SumFunctionOnSet(g, img(X))
           bad == {X \in SUBSET S : ~ Holds(X)}
<1>1. /\ \A x, y \in S : p[x] = p[y] => x = y
      /\ \A x \in S : p[x] \in T
      /\ \A t \in T : \E x \in S : p[x] = t
  BY DEF Bijection, Injection, Surjection, IsInjective
<1>2. img(S) = T
  BY <1>1
<1>3. bad = {}
  <2> SUFFICES ASSUME bad # {} PROVE FALSE
    OBVIOUS
  <2>1. PICK X \in bad : \A Y \in bad : Y \subseteq X => Y = X
    <3>1. bad \subseteq SUBSET S
      OBVIOUS
    <3> HIDE DEF bad
    <3> QED  BY <3>1, MinimalSubset
  <2>2. IsFiniteSet(X) /\ X \in SUBSET S /\ ~ Holds(X)
    BY FS_Subset
  <2>3. X # {}
    BY <2>2, SumEmpty
  <2> DEFINE c == Picked(X)
             W == X \ {c}
  <2>4. c \in X /\ W \subseteq X /\ W # X /\ W \in SUBSET S
    BY <2>2, <2>3, PickedIn
  <2>5. Holds(W)
    <3> HIDE DEF Holds, W
    <3> QED  BY <2>1, <2>4
  <2>6. SumFunctionOnSet(f, X) = f[c] + SumFunctionOnSet(f, W)
    BY <2>2, <2>3, SumEquation
  <2>7. img(X) \ {p[c]} = img(W) /\ p[c] \in img(X)
    BY <1>1, <2>2, <2>4
  <2>8. IsFiniteSet(img(X)) /\ \A y \in img(X) : g[y] \in Int
    <3>1. IsFiniteSet(img(X))
      <4> DEFINE q == [x \in X |-> p[x]]
      <4>1. q \in Surjection(X, img(X))
        BY DEF Surjection
      <4> QED  BY <2>2, <4>1, FS_Surjection
    <3> QED  BY <2>2, <3>1
  <2> HIDE DEF img
  <2>9. SumFunctionOnSet(g, img(X)) = g[p[c]] + SumFunctionOnSet(g, img(W))
    BY <2>7, <2>8, SumRemove
  <2>10. f[c] = g[p[c]]
    BY <2>2, <2>4
  <2> QED  BY <2>2, <2>5, <2>6, <2>9, <2>10
<1> QED  BY <1>2, <1>3

LEMMA DisjointUnion ==
  ASSUME NEW A, IsFiniteSet(A), NEW B, IsFiniteSet(B), A \cap B = {}
  PROVE  Cardinality(A \cup B) = Cardinality(A) + Cardinality(B)
<1>1. Cardinality(A \cup B) = Cardinality(A) + Cardinality(B) - Cardinality(A \cap B)
  BY FS_Union
<1>2. Cardinality(A \cap B) = 0 /\ Cardinality(A) \in Nat /\ Cardinality(B) \in Nat
  BY FS_EmptySet, FS_CardinalityType
<1> QED  BY <1>1, <1>2

\* The classes of a finite set under a function have as many elements together
\* as the set.
LEMMA SumClasses ==
  ASSUME NEW S, IsFiniteSet(S), NEW P, NEW K, IsFiniteSet(K), \A x \in S : P[x] \in K,
         NEW class, \A k \in K : class[k] \subseteq S /\ \A x \in S : x \in class[k] <=> P[x] = k,
         NEW f, \A k \in K : f[k] = Cardinality(class[k])
  PROVE  SumFunctionOnSet(f, K) = Cardinality(S)
<1> DEFINE over == [Y \in SUBSET K |-> {x \in S : P[x] \in Y}]
           Holds(Y) == SumFunctionOnSet(f, Y) = Cardinality(over[Y])
           bad == {Y \in SUBSET K : ~ Holds(Y)}
<1>1. \A Y \in SUBSET K : IsFiniteSet(over[Y]) /\ Cardinality(over[Y]) \in Nat
  <2> TAKE Y \in SUBSET K
  <2>1. over[Y] \in SUBSET S
    OBVIOUS
  <2> HIDE DEF over
  <2> QED  BY <2>1, FS_Subset, FS_CardinalityType
<1>2. \A k \in K : class[k] = over[{k}]
  OBVIOUS
<1>3. \A k \in K : f[k] = Cardinality(over[{k}]) /\ f[k] \in Int
  <2> TAKE k \in K
  <2>2. {k} \in SUBSET K
    OBVIOUS
  <2> HIDE DEF over
  <2>1. f[k] = Cardinality(over[{k}])
    BY <1>2
  <2> QED  BY <1>1, <2>1, <2>2
<1>4. over[{}] = {} /\ over[K] = S
  OBVIOUS
<1>5. ASSUME NEW Y \in SUBSET K, NEW k \in Y
      PROVE  Cardinality(over[Y]) = Cardinality(over[{k}]) + Cardinality(over[Y \ {k}])
  <2>1. over[Y] = over[{k}] \cup over[Y \ {k}] /\ over[{k}] \cap over[Y \ {k}] = {}
    OBVIOUS
  <2> HIDE DEF over
  <2>2. {k} \in SUBSET K /\ Y \ {k} \in SUBSET K
    OBVIOUS
  <2>3. IsFiniteSet(over[{k}]) /\ IsFiniteSet(over[Y \ {k}])
    BY <1>1, <2>2
  <2>4. Cardinality(over[{k}] \cup over[Y \ {k}])
          = Cardinality(over[{k}]) + Cardinality(over[Y \ {k}])
    BY <2>1, <2>3, DisjointUnion
  <2> QED  BY <2>1, <2>4
<1> HIDE DEF over
<1> SUFFICES ASSUME bad # {} PROVE FALSE
  <2>1. bad = {} => Holds(K)
    OBVIOUS
  <2> HIDE DEF bad
  <2> QED  BY <1>4, <2>1
<1>6. PICK X \in bad : \A Y \in bad : Y \subseteq X => Y = X
  <2>1. bad \subseteq SUBSET K
    OBVIOUS
  <2> HIDE DEF bad
  <2> QED  BY <2>1, MinimalSubset
<1>7. IsFiniteSet(X) /\ X \in SUBSET K /\ ~ Holds(X)
  BY FS_Subset
<1>8. X # {}
  BY <1>4, <1>7, SumEmpty, FS_EmptySet
<1>9. PICK k \in X : TRUE
  BY <1>8
<1>10. SumFunctionOnSet(f, X) = f[k] + SumFunctionOnSet(f, X \ {k})
  <2>1. \A y \in X : f[y] \in Int
    BY <1>3, <1>7
  <2> HIDE DEF bad
  <2> QED  BY <1>7, <2>1, SumRemove
<1>11. Holds(X \ {k})
  <2>1. X \ {k} \in SUBSET K /\ X \ {k} \subseteq X /\ X \ {k} # X
    BY <1>7
  <2>2. X \ {k} \notin bad
    BY <1>6, <2>1
  <2> QED  BY <2>1, <2>2
<1>12. Holds(X)
  <2>1. k \in K /\ f[k] = Cardinality(over[{k}])
    BY <1>3, <1>7
  <2>2. Cardinality(over[X]) = Cardinality(over[{k}]) + Cardinality(over[X \ {k}])
    BY <1>5, <1>7
  <2> HIDE DEF bad
  <2> QED  BY <1>10, <1>11, <2>1, <2>2
<1> QED  BY <1>7, <1>12

-----------------------------------------------------------------------------
(* Sums of two functions.                                                  *)

\* Where functions differ at one index only, their sums differ as they do.
THEOREM SumChange ==
  ASSUME NEW S, IsFiniteSet(S), NEW f, NEW g, \A x \in S : f[x] \in Int /\ g[x] \in Int,
         NEW c \in S, \A x \in S \ {c} : g[x] = f[x]
  PROVE  SumFunctionOnSet(g, S) = SumFunctionOnSet(f, S) - f[c] + g[c]
<1> DEFINE W == S \ {c}
<1>1. IsFiniteSet(W)
  BY FS_RemoveElement
<1>2. SumFunctionOnSet(f, S) = f[c] + SumFunctionOnSet(f, W)
  BY SumRemove
<1>3. SumFunctionOnSet(g, S) = g[c] + SumFunctionOnSet(g, W)
  BY SumRemove
<1>4. \A x \in W : f[x] = g[x] /\ f[x] \in Int
  OBVIOUS
<1> HIDE DEF W
<1>5. SumFunctionOnSet(f, W) = SumFunctionOnSet(g, W)
  BY <1>1, <1>4, SumSame
<1>6. SumFunctionOnSet(f, W) \in Int
  BY <1>1, <1>4, SumInt
<1> QED  BY <1>2, <1>3, <1>5, <1>6

\* The sum of the sums of two functions.
LEMMA SumPlus ==
  ASSUME NEW S, IsFiniteSet(S), NEW f, NEW g, NEW h,
         \A x \in S : f[x] \in Int /\ g[x] \in Int /\ h[x] = f[x] + g[x]
  PROVE  SumFunctionOnSet(h, S) = SumFunctionOnSet(f, S) + SumFunctionOnSet(g, S)
<1> DEFINE Holds(X) ==
             SumFunctionOnSet(h, X) = SumFunctionOnSet(f, X) + SumFunctionOnSet(g, X)
           bad == {X \in SUBSET S : ~ Holds(X)}
<1> SUFFICES ASSUME bad # {} PROVE FALSE
  OBVIOUS
<1>1. PICK X \in bad : \A Y \in bad : Y \subseteq X => Y = X
  <2>1. bad \subseteq SUBSET S
    OBVIOUS
  <2> HIDE DEF bad
  <2> QED  BY <2>1, MinimalSubset
<1>2. IsFiniteSet(X) /\ X \in SUBSET S /\ ~ Holds(X)
  BY FS_Subset
<1>3. X # {}
  <2>1. /\ SumFunctionOnSet(f, {}) = 0 /\ SumFunctionOnSet(g, {}) = 0
        /\ SumFunctionOnSet(h, {}) = 0
    BY SumEmpty
  <2>2. Holds({})
    BY <2>1
  <2> QED  BY <1>2, <2>2
<1> DEFINE c == Picked(X)
           W == X \ {c}
<1>4. c \in X /\ W \subseteq X /\ W # X
  BY <1>3, PickedIn
<1>5. Holds(W)
  <2>1. W \in SUBSET S
    BY <1>2
  <2> HIDE DEF Holds, W
  <2> QED  BY <1>1, <1>4, <2>1
<1>6. /\ SumFunctionOnSet(f, X) = f[c] + SumFunctionOnSet(f, W)
      /\ SumFunctionOnSet(g, X) = g[c] + SumFunctionOnSet(g, W)
      /\ SumFunctionOnSet(h, X) = h[c] + SumFunctionOnSet(h, W)
  BY <1>2, <1>3, SumEquation
<1>7. f[c] \in Int /\ g[c] \in Int /\ h[c] = f[c] + g[c]
  BY <1>2, <1>4
<1>8. SumFunctionOnSet(f, W) \in Int /\ SumFunctionOnSet(g, W) \in Int
  <2>1. IsFiniteSet(W) /\ \A x \in W : f[x] \in Int /\ g[x] \in Int
    BY <1>2, FS_Subset
  <2> HIDE DEF W
  <2> QED  BY <2>1, SumInt
<1> HIDE DEF c, W
<1> QED  BY <1>2, <1>5, <1>6, <1>7, <1>8

\* No natural number of a sum is greater than the sum.
THEOREM SumTerm ==
  ASSUME NEW S, IsFiniteSet(S), NEW f, \A x \in S : f[x] \in Nat, NEW c \in S
  PROVE  f[c] <= SumFunctionOnSet(f, S)
<1> DEFINE W == S \ {c}
<1>1. IsFiniteSet(W) /\ \A x \in W : f[x] \in Nat
  BY FS_RemoveElement
<1>2. SumFunctionOnSet(f, S) = f[c] + SumFunctionOnSet(f, W)
  BY SumRemove
<1> HIDE DEF W
<1>3. SumFunctionOnSet(f, W) \in Nat
  BY <1>1, SumNat
<1> QED  BY <1>2, <1>3

LEMMA ProductNat == ASSUME NEW m \in Nat, NEW n \in Nat PROVE m * n \in Nat
OBVIOUS

\* A sum of what depends on the class only: by the classes.
THEOREM SumByValue ==
  ASSUME NEW S, IsFiniteSet(S), NEW K, IsFiniteSet(K), NEW P, \A x \in S : P[x] \in K,
         NEW g, \A k \in K : g[k] \in Nat, NEW f, \A x \in S : f[x] = g[P[x]],
         NEW h, \A k \in K : h[k] = g[k] * Cardinality({x \in S : P[x] = k})
  PROVE  SumFunctionOnSet(f, S) = SumFunctionOnSet(h, K)
<1> DEFINE Class(X, k) == {x \in X : P[x] = k}
           by(X) == [k \in K |-> g[k] * Cardinality(Class(X, k))]
           bad == {X \in SUBSET S : SumFunctionOnSet(f, X) # SumFunctionOnSet(by(X), K)}
<1>1. ASSUME NEW X \in SUBSET S, NEW k \in K
      PROVE  /\ IsFiniteSet(Class(X, k)) /\ Cardinality(Class(X, k)) \in Nat
             /\ by(X)[k] = g[k] * Cardinality(Class(X, k)) /\ by(X)[k] \in Nat
  <2>1. Class(X, k) \in SUBSET S
    OBVIOUS
  <2> HIDE DEF Class
  <2>2. IsFiniteSet(Class(X, k)) /\ Cardinality(Class(X, k)) \in Nat
    BY <2>1, FS_Subset, FS_CardinalityType
  <2> QED  BY <2>2, ProductNat
<1>2. ASSUME bad # {} PROVE FALSE
  <2>0. bad \subseteq SUBSET S
    OBVIOUS
  <2>1. PICK X \in bad : \A Y \in bad : Y \subseteq X => Y = X
    <3> HIDE DEF bad
    <3> QED  BY <1>2, <2>0, MinimalSubset
  <2>2. X \in SUBSET S /\ SumFunctionOnSet(f, X) # SumFunctionOnSet(by(X), K)
    OBVIOUS
  <2>3. CASE X = {}
    <3>1. ASSUME NEW k \in K PROVE by(X)[k] \in 0 .. 0
      <4>1. Class(X, k) = {}
        BY <2>3
      <4>2. Cardinality(Class(X, k)) = 0
        BY <4>1, FS_EmptySet
      <4> QED  BY <1>1, <2>2, <4>2
    <3> HIDE DEF by
    <3>2. SumFunctionOnSet(by(X), K) \in Nat /\ SumFunctionOnSet(by(X), K) <= 0 * Cardinality(K)
      BY <3>1, SumBounded
    <3>3. Cardinality(K) \in Nat
      BY FS_CardinalityType
    <3>4. SumFunctionOnSet(by(X), K) = 0
      BY <3>2, <3>3
    <3> QED  BY <2>2, <2>3, <3>4, SumEmpty
  <2>4. CASE X # {}
    <3>1. PICK c \in X : TRUE
      BY <2>4
    <3> DEFINE Y == X \ {c}
               k == P[c]
               n == Cardinality(Class(Y, k))
    <3>2. Y \in SUBSET S /\ Y \subseteq X /\ Y # X /\ k \in K /\ c \in S
      BY <2>2, <3>1
    <3>3. SumFunctionOnSet(f, Y) = SumFunctionOnSet(by(Y), K)
      <4>1. Y \notin bad
        <5> HIDE DEF bad
        <5> QED  BY <2>1, <3>2
      <4> QED  BY <3>2, <4>1
    <3>4. \A x \in X : f[x] \in Int
      BY <2>2
    <3>5. IsFiniteSet(X)
      BY <2>2, FS_Subset
    <3>6. SumFunctionOnSet(f, X) = f[c] + SumFunctionOnSet(f, Y)
      BY <3>1, <3>4, <3>5, SumRemove
    <3>7. Cardinality(Class(X, k)) = n + 1
      <4>1. Class(X, k) = Class(Y, k) \cup {c} /\ c \notin Class(Y, k)
        BY <3>1
      <4>2. IsFiniteSet(Class(Y, k))
        BY <1>1, <3>2
      <4> HIDE DEF Class, Y, k
      <4> QED  BY <4>1, <4>2, FS_AddElement
    <3>8. \A j \in K \ {k} : by(X)[j] = by(Y)[j]
      <4>1. ASSUME NEW j \in K \ {k} PROVE Class(X, j) = Class(Y, j)
        OBVIOUS
      <4> HIDE DEF Class, Y, k
      <4> QED  BY <4>1
    <3>9. \A j \in K : by(Y)[j] \in Int /\ by(X)[j] \in Int
      <4>1. \A j \in K : by(Y)[j] \in Nat /\ by(X)[j] \in Nat
        <5> HIDE DEF Class, by, Y
        <5> QED  BY <1>1, <2>2, <3>2
      <4> HIDE DEF by, Y
      <4> QED  BY <4>1
    <3>10. SumFunctionOnSet(by(X), K) = SumFunctionOnSet(by(Y), K) - by(Y)[k] + by(X)[k]
      <4> HIDE DEF by, Y, k
      <4> QED  BY <3>2, <3>8, <3>9, SumChange
    <3>11. by(Y)[k] = g[k] * n /\ by(X)[k] = g[k] * (n + 1)
      BY <3>2, <3>7
    <3>12. n \in Nat /\ g[k] \in Nat /\ f[c] = g[k]
      BY <1>1, <3>2
    <3>13. g[k] * (n + 1) = g[k] * n + g[k] /\ g[k] * n \in Nat
      <4> HIDE DEF n, k
      <4> QED  BY <3>12
    <3>14. SumFunctionOnSet(f, Y) \in Int
      <4>1. IsFiniteSet(Y) /\ \A x \in Y : f[x] \in Int
        BY <3>4, <3>5, FS_Subset
      <4> HIDE DEF Y
      <4> QED  BY <4>1, SumInt
    <3> HIDE DEF by, n, k, Y
    <3> QED  BY <2>2, <3>3, <3>6, <3>10, <3>11, <3>12, <3>13, <3>14
  <2> QED  BY <2>3, <2>4
<1>3. SumFunctionOnSet(f, S) = SumFunctionOnSet(by(S), K)
  BY <1>2
<1>4. \A k \in K : by(S)[k] = h[k]
  OBVIOUS
<1> HIDE DEF by
<1>5. SumFunctionOnSet(by(S), K) = SumFunctionOnSet(h, K)
  BY <1>4, SumSame
<1> QED  BY <1>3, <1>5

-----------------------------------------------------------------------------
(* Sorting.                                                                *)

StrictOrder(R, S) ==
  /\ \A x \in S : <<x, x>> \notin R
  /\ \A x, y \in S : x # y => <<x, y>> \in R \/ <<y, x>> \in R
  /\ \A x, y, z \in S : <<x, y>> \in R /\ <<y, z>> \in R => <<x, z>> \in R

\* Sorting lists every element just once, and in the order: blocks and clusters in
\* the order of their keys are as many as there are, whatever the keys are.
THEOREM InOrderLists ==
  ASSUME NEW S, IsFiniteSet(S), NEW R, StrictOrder(R, S)
  PROVE  /\ InOrder(S, R) \in Bijection(1 .. Cardinality(S), S)
         /\ \A m, n \in 1 .. Cardinality(S) :
              m < n => <<InOrder(S, R)[m], InOrder(S, R)[n]>> \in R
<1> DEFINE N == Cardinality(S)
           Below(x) == {y \in S : <<y, x>> \in R}
           rank == [x \in S |-> Cardinality(Below(x)) + 1]
<1>1. N \in Nat
  BY FS_CardinalityType
<1>2. \A x \in S : Below(x) \subseteq S /\ x \notin Below(x) /\ IsFiniteSet(Below(x))
                   /\ Cardinality(Below(x)) \in Nat
  <2> TAKE x \in S
  <2>1. Below(x) \subseteq S /\ x \notin Below(x)
    BY DEF StrictOrder
  <2>2. IsFiniteSet(Below(x))
    BY <2>1, FS_Subset
  <2> QED  BY <2>1, <2>2, FS_CardinalityType
<1>3. rank \in [S -> 1 .. N]
  <2> SUFFICES ASSUME NEW x \in S PROVE Cardinality(Below(x)) + 1 \in 1 .. N
    OBVIOUS
  <2> HIDE DEF Below, N
  <2>1. Below(x) \in SUBSET (S \ {x})
    BY <1>2
  <2>2. IsFiniteSet(S \ {x}) /\ Cardinality(S \ {x}) = N - 1
    BY FS_RemoveElement DEF N
  <2>3. Cardinality(Below(x)) <= N - 1
    BY <2>1, <2>2, FS_Subset
  <2>4. Cardinality(Below(x)) \in Nat
    BY <1>2
  <2> QED  BY <1>1, <2>3, <2>4
<1>4. ASSUME NEW x \in S, NEW y \in S, <<x, y>> \in R PROVE rank[x] < rank[y]
  <2>1. Below(x) \subseteq Below(y) /\ x \in Below(y)
    BY <1>4 DEF StrictOrder
  <2> HIDE DEF Below
  <2>2. Below(x) \in SUBSET (Below(y) \ {x})
    BY <1>2, <2>1
  <2>3. /\ IsFiniteSet(Below(y) \ {x})
        /\ Cardinality(Below(y) \ {x}) = Cardinality(Below(y)) - 1
    BY <1>2, <2>1, FS_RemoveElement
  <2>4. Cardinality(Below(x)) <= Cardinality(Below(y)) - 1
    BY <2>2, <2>3, FS_Subset
  <2>5. Cardinality(Below(x)) \in Nat /\ Cardinality(Below(y)) \in Nat
    BY <1>2
  <2>6. rank[x] = Cardinality(Below(x)) + 1 /\ rank[y] = Cardinality(Below(y)) + 1
    OBVIOUS
  <2> HIDE DEF rank
  <2> QED  BY <2>4, <2>5, <2>6
<1>5. \A x, y \in S : rank[x] = rank[y] => x = y
  <2> SUFFICES ASSUME NEW x \in S, NEW y \in S, x # y PROVE rank[x] # rank[y]
    OBVIOUS
  <2>1. rank[x] \in Nat /\ rank[y] \in Nat
    BY <1>1, <1>3
  <2>2. <<x, y>> \in R \/ <<y, x>> \in R
    BY DEF StrictOrder
  <2>3. rank[x] < rank[y] \/ rank[y] < rank[x]
    BY <1>4, <2>2
  <2> HIDE DEF rank
  <2> QED  BY <2>1, <2>3
<1> HIDE DEF rank
<1>6. rank \in Surjection(S, 1 .. N)
  <2>1. rank \in Injection(S, 1 .. N)
    BY <1>3, <1>5 DEF Injection, IsInjective
  <2>2. IsFiniteSet(1 .. N) /\ Cardinality(1 .. N) = N
    BY <1>1, FS_Interval
  <2> QED  BY <2>1, <2>2, FS_Injection
<1>7. \A n \in 1 .. N : \E x \in S : rank[x] = n
  BY <1>6 DEF Surjection
<1>8. \A n \in 1 .. N : InOrder(S, R)[n] \in S /\ rank[InOrder(S, R)[n]] = n
  <2> TAKE n \in 1 .. N
  <2>1. PICK x \in S : rank[x] = n
    BY <1>7
  <2>2. ASSUME NEW y \in S PROVE rank[y] = n <=> Cardinality(Below(y)) = n - 1
    <3>1. rank[y] = Cardinality(Below(y)) + 1
      BY DEF rank
    <3> HIDE DEF Below
    <3>2. Cardinality(Below(y)) \in Nat /\ n \in Nat
      BY <1>1, <1>2
    <3> QED  BY <3>1, <3>2
  <2>3. InOrder(S, R)[n] = CHOOSE y \in S : Cardinality(Below(y)) = n - 1
    BY DEF InOrder
  <2> HIDE DEF Below
  <2> QED  BY <2>1, <2>2, <2>3
<1>9. InOrder(S, R) \in [1 .. N -> S]
  BY <1>8 DEF InOrder
<1>10. \A m, n \in 1 .. N : InOrder(S, R)[m] = InOrder(S, R)[n] => m = n
  BY <1>8
<1>11. \A x \in S : \E n \in 1 .. N : InOrder(S, R)[n] = x
  BY <1>3, <1>5, <1>8
<1>13. ASSUME NEW m \in 1 .. N, NEW n \in 1 .. N, m < n
       PROVE  <<InOrder(S, R)[m], InOrder(S, R)[n]>> \in R
  <2> DEFINE x == InOrder(S, R)[m]
             y == InOrder(S, R)[n]
  <2> HIDE DEF x, y, N
  <2>1. x \in S /\ y \in S /\ rank[x] = m /\ rank[y] = n
    BY <1>8 DEF x, y
  <2>2. m \in Nat /\ n \in Nat /\ m # n /\ ~ (n < m)
    BY <1>1, <1>13
  <2>3. <<x, y>> \in R \/ <<y, x>> \in R
    BY <2>1, <2>2 DEF StrictOrder
  <2>4. <<y, x>> \notin R
    BY <1>4, <2>1, <2>2
  <2> QED  BY <2>3, <2>4 DEF x, y
<1> HIDE DEF N
<1>12. InOrder(S, R) \in Injection(1 .. N, S) /\ InOrder(S, R) \in Surjection(1 .. N, S)
  BY <1>9, <1>10, <1>11 DEF Injection, Surjection, IsInjective
<1> QED  BY <1>12, <1>13 DEF Bijection, N

LEMMA AscendingOrder == ASSUME NEW S \in SUBSET Int PROVE StrictOrder(Ascending(S), S)
<1>1. \A x, y \in S : <<x, y>> \in Ascending(S) <=> x < y
  BY DEF Ascending
<1> QED  BY <1>1 DEF StrictOrder

\* Numbers in their order, and that a list in the order is unique.
Increasing(f, N) == \A m, n \in 1 .. N : m < n => f[m] < f[n]

LEMMA ListedIs ==
  ASSUME NEW P \in SUBSET Nat, IsFiniteSet(P)
  PROVE  /\ Listed(P) \in Bijection(1 .. Cardinality(P), P)
         /\ Increasing(Listed(P), Cardinality(P))
         /\ DOMAIN Listed(P) = 1 .. Cardinality(P)
         /\ Cardinality(P) \in Nat
<1>1. StrictOrder(Ascending(P), P)
  BY AscendingOrder
<1>2. /\ InOrder(P, Ascending(P)) \in Bijection(1 .. Cardinality(P), P)
      /\ \A m, n \in 1 .. Cardinality(P) :
           m < n => <<InOrder(P, Ascending(P))[m], InOrder(P, Ascending(P))[n]>> \in Ascending(P)
  BY <1>1, InOrderLists
<1>3. Increasing(Listed(P), Cardinality(P))
  BY <1>2 DEF Listed, Increasing, Ascending
<1>4. DOMAIN Listed(P) = 1 .. Cardinality(P)
  BY DEF Listed, InOrder
<1> QED  BY <1>2, <1>3, <1>4, FS_CardinalityType DEF Listed

LEMMA IncreasingUnique ==
  ASSUME NEW P \in SUBSET Nat, NEW N \in Nat,
         NEW f, f \in Bijection(1 .. N, P), Increasing(f, N),
         NEW g, g \in Bijection(1 .. N, P), Increasing(g, N)
  PROVE  f = g
<1> DEFINE apart == {n \in 1 .. N : f[n] # g[n]}
<1>1. /\ f \in [1 .. N -> P] /\ g \in [1 .. N -> P]
      /\ \A x \in P : \E n \in 1 .. N : f[n] = x
      /\ \A x \in P : \E n \in 1 .. N : g[n] = x
      /\ \A m, n \in 1 .. N : f[m] = f[n] => m = n
      /\ \A m, n \in 1 .. N : g[m] = g[n] => m = n
  BY DEF Bijection, Injection, Surjection, IsInjective
<1>2. CASE apart = {}
  BY <1>1, <1>2
<1>3. CASE apart # {}
  <2>1. apart \subseteq Nat
    OBVIOUS
  <2>2. PICK n \in apart : \A k \in apart : n <= k
    BY <1>3, <2>1, LeastNatural
  <2>3. \A k \in 1 .. N : k < n => f[k] = g[k]
    BY <2>2
  <2>4. PICK i \in 1 .. N : f[i] = g[n]
    BY <1>1, <2>2
  <2>5. PICK j \in 1 .. N : g[j] = f[n]
    BY <1>1, <2>2
  <2>6. n \in 1 .. N /\ f[n] # g[n]
    BY <2>2
  <2>7. f[n] \in Nat /\ g[n] \in Nat /\ f[i] \in Nat /\ g[j] \in Nat
    BY <1>1, <2>6
  <2>8. i > n
    BY <1>1, <2>3, <2>4, <2>6
  <2>9. j > n
    BY <1>1, <2>3, <2>5, <2>6
  <2>10. f[n] < f[i] /\ g[n] < g[j]
    BY <2>6, <2>8, <2>9 DEF Increasing
  <2> QED  BY <2>4, <2>5, <2>7, <2>10
<1> QED  BY <1>2, <1>3

-----------------------------------------------------------------------------
(* Numbers.                                                                *)

\* Induction over an interval, for a set: a property is the set of those that have it.
LEMMA IntervalInduction ==
  ASSUME NEW N \in Nat, NEW P, 0 \in P, \A k \in 1 .. N : k - 1 \in P => k \in P
  PROVE  0 .. N \subseteq P
<1> DEFINE open == (0 .. N) \ P
<1> SUFFICES ASSUME open # {} PROVE FALSE
  OBVIOUS
<1>1. PICK m \in open : \A y \in open : m <= y
  <2>1. open \in SUBSET Nat
    OBVIOUS
  <2> HIDE DEF open
  <2> QED  BY <2>1, LeastNatural
<1>2. m # 0 /\ m \in 1 .. N
  OBVIOUS
<1>3. m - 1 \in P
  <2>1. m - 1 \in open => m <= m - 1
    BY <1>1
  <2> QED  BY <1>2, <2>1
<1> QED  BY <1>2, <1>3

LEMMA IntervalInductionDown ==
  ASSUME NEW N \in Nat, NEW P, N \in P, \A k \in 1 .. N : k \in P => k - 1 \in P
  PROVE  0 .. N \subseteq P
<1> DEFINE Q == {k \in 0 .. N : N - k \in P}
<1>1. 0 \in Q
  OBVIOUS
<1>2. ASSUME NEW k \in 1 .. N, k - 1 \in Q PROVE k \in Q
  <2>1. N - (k - 1) \in P /\ N - (k - 1) \in 1 .. N
    BY <1>2
  <2>2. (N - (k - 1)) - 1 \in P
    BY <2>1
  <2> QED  BY <2>2
<1> HIDE DEF Q
<1>3. 0 .. N \subseteq Q
  BY <1>1, <1>2, IntervalInduction
<1>4. ASSUME NEW k \in 0 .. N PROVE k \in P
  <2>1. N - k \in Q
    BY <1>3
  <2>2. N - (N - k) = k
    OBVIOUS
  <2> QED  BY <2>1, <2>2 DEF Q
<1> QED  BY <1>4

\* Division.
IsDiv(a, r, q, s) == q \in Nat /\ s \in 0 .. r - 1 /\ a = q * r + s

LEMMA DivMod ==
  ASSUME NEW a \in Nat, NEW r \in Nat, r >= 1
  PROVE  IsDiv(a, r, a \div r, a % r)
<1> DEFINE q == a \div r
           s == a % r
<1>1. q = a \div r /\ s = a % r
  OBVIOUS
<1>2. q \in Nat /\ s \in 0 .. r - 1
  OBVIOUS
<1> HIDE DEF q, s
<1>3. a = r * q + s
  BY <1>1, <1>2, Z3
<1>4. r * q = q * r
  BY <1>2
<1>5. IsDiv(a, r, q, s)
  BY <1>2, <1>3, <1>4 DEF IsDiv
<1> QED  BY <1>1, <1>5

LEMMA ProductUp == ASSUME NEW m \in Nat, NEW n \in Nat, NEW r \in Nat, m <= n
                   PROVE  m * r <= n * r
<1>1. (n - m) * r \in Nat
  <2>1. n - m \in Nat
    OBVIOUS
  <2> QED  BY <2>1, ProductNat
<1>2. n * r = m * r + (n - m) * r
  OBVIOUS
<1>3. m * r \in Nat /\ n * r \in Nat
  BY ProductNat
<1> QED  BY <1>1, <1>2, <1>3

LEMMA DivUnique ==
  ASSUME NEW q \in Nat, NEW r \in Nat, NEW s \in 0 .. r - 1, NEW a, a = q * r + s
  PROVE  a \in Nat /\ a \div r = q /\ a % r = s
<1>1. r >= 1 /\ s \in Nat /\ a \in Nat
  <2>1. q * r \in Nat
    BY ProductNat
  <2> QED  BY <2>1
<1>2. IsDiv(a, r, a \div r, a % r)
  BY <1>1, DivMod
<1> DEFINE p == a \div r
           t == a % r
<1>9. p = a \div r /\ t = a % r
  OBVIOUS
<1> HIDE DEF p, t
<1>10. IsDiv(a, r, p, t)
  BY <1>2, <1>9
<1>3. p \in Nat /\ t \in 0 .. r - 1 /\ p * r + t = q * r + s
  BY <1>10 DEF IsDiv
<1>4. p * r \in Nat /\ q * r \in Nat
  BY <1>3, ProductNat
<1>5. ~ (p < q)
  <2> SUFFICES ASSUME p + 1 <= q PROVE FALSE
    BY <1>3
  <2>1. (p + 1) * r <= q * r
    BY <1>3, ProductUp
  <2>2. (p + 1) * r = p * r + r
    BY <1>3
  <2> QED  BY <1>3, <1>4, <2>1, <2>2
<1>6. ~ (q < p)
  <2> SUFFICES ASSUME q + 1 <= p PROVE FALSE
    BY <1>3
  <2>1. (q + 1) * r <= p * r
    BY <1>3, ProductUp
  <2>2. (q + 1) * r = q * r + r
    OBVIOUS
  <2> QED  BY <1>3, <1>4, <2>1, <2>2
<1>7. p = q
  BY <1>3, <1>5, <1>6
<1>8. t = s
  BY <1>3, <1>4, <1>7
<1> QED  BY <1>1, <1>7, <1>8, <1>9

LEMMA DivIs ==
  ASSUME NEW a, NEW r \in Nat, NEW q, NEW s, IsDiv(a, r, q, s)
  PROVE  a \div r = q /\ a % r = s
<1>1. q \in Nat /\ s \in 0 .. r - 1 /\ a = q * r + s
  BY DEF IsDiv
<1> QED  BY ONLY r \in Nat, <1>1, DivUnique

LEMMA DivBound ==
  ASSUME NEW a \in Nat, NEW m \in Nat, NEW r \in Nat, r >= 1, a < m * r
  PROVE  a \div r < m
<1> DEFINE q == a \div r
           s == a % r
<1>4. q = a \div r /\ s = a % r
  OBVIOUS
<1>5. IsDiv(a, r, a \div r, a % r)
  BY DivMod
<1> HIDE DEF q, s
<1>1. q \in Nat /\ s \in 0 .. r - 1 /\ a = q * r + s
  BY <1>4, <1>5 DEF IsDiv
<1> SUFFICES ASSUME m <= q PROVE FALSE
  BY <1>1, <1>4
<1>2. m * r <= q * r
  BY <1>1, ProductUp
<1>3. q * r \in Nat /\ m * r \in Nat
  BY <1>1, ProductNat
<1> QED  BY <1>1, <1>2, <1>3

LEMMA DivPositive ==
  ASSUME NEW i \in Nat, NEW j \in Nat, j >= 1, i >= j
  PROVE  i \div j \in Nat /\ i \div j >= 1
<1> DEFINE q == i \div j
           s == i % j
<1>1. q \in Nat /\ s \in 0 .. j - 1 /\ i = q * j + s
  BY DivMod DEF IsDiv
<1> HIDE DEF q, s
<1>2. q # 0
  <2>1. q = 0 => q * j = 0
    OBVIOUS
  <2> QED  BY <1>1, <2>1
<1>3. q >= 1
  BY <1>1, <1>2
<1> QED  BY <1>1, <1>3 DEF q

-----------------------------------------------------------------------------
(* Recursive functions exist.                                              *)

Recurs(g, N, base, step) == /\ g[0] = base
                            /\ \A k \in 1 .. N : g[k] = step[<<k, g[k - 1]>>]

LEMMA RecursionOnNat ==
  ASSUME NEW N \in Nat, NEW V, NEW base \in V, NEW step \in [(1 .. N) \X V -> V]
  PROVE  \E g \in [0 .. N -> V] : Recurs(g, N, base, step)
<1> DEFINE Good(g, m) == /\ g[0] = base
                         /\ \A k \in 1 .. m : g[k] = step[<<k, g[k - 1]>>]
           Solved(m) == \E g \in [0 .. m -> V] : Good(g, m)
           open == {m \in 0 .. N : ~ Solved(m)}
<1>1. Solved(0)
  <2>1. [k \in 0 .. 0 |-> base] \in [0 .. 0 -> V] /\ Good([k \in 0 .. 0 |-> base], 0)
    OBVIOUS
  <2> QED  BY <2>1
<1>2. ASSUME NEW m \in 1 .. N, Solved(m - 1) PROVE Solved(m)
  <2>1. PICK g \in [0 .. m - 1 -> V] : Good(g, m - 1)
    BY <1>2
  <2> DEFINE h == [k \in 0 .. m |-> IF k = m THEN step[<<m, g[m - 1]>>] ELSE g[k]]
  <2>2. m - 1 \in 0 .. m - 1 /\ m \in Nat
    OBVIOUS
  <2>3. step[<<m, g[m - 1]>>] \in V
    BY <2>1, <2>2
  <2>4. h \in [0 .. m -> V]
    BY <2>1, <2>2, <2>3
  <2>5. \A k \in 0 .. m - 1 : h[k] = g[k]
    BY <2>2
  <2>6. h[m] = step[<<m, h[m - 1]>>]
    <3>1. h[m - 1] = g[m - 1]
      BY <2>2, <2>5
    <3>2. m \in 0 .. m
      OBVIOUS
    <3>3. h[m] = step[<<m, g[m - 1]>>]
      BY <3>2
    <3> HIDE DEF h
    <3> QED  BY <3>1, <3>3
  <2>7. h[0] = base
    BY <2>1, <2>5
  <2> HIDE DEF h
  <2>8. ASSUME NEW k \in 1 .. m PROVE h[k] = step[<<k, h[k - 1]>>]
    <3>1. CASE k = m
      BY <2>6, <3>1
    <3>2. CASE k # m
      <4>1. k \in 1 .. m - 1 /\ k \in 0 .. m - 1 /\ k - 1 \in 0 .. m - 1
        BY <3>2
      <4> QED  BY <2>1, <2>5, <4>1
    <3> QED  BY <3>1, <3>2
  <2> QED  BY <2>4, <2>7, <2>8
<1> HIDE DEF Solved
<1>3. CASE open = {}
  <2>1. Solved(N)
    BY <1>3
  <2> QED  BY <2>1 DEF Solved, Recurs
<1>4. CASE open # {}
  <2>1. open \subseteq Nat
    OBVIOUS
  <2>2. PICK m \in open : \A k \in open : m <= k
    BY <1>4, <2>1, LeastNatural
  <2>3. m \in 0 .. N /\ ~ Solved(m)
    BY <2>2
  <2>4. m # 0
    BY <1>1, <2>3
  <2>5. m \in 1 .. N /\ m - 1 \in 0 .. N /\ ~ (m <= m - 1)
    BY <2>3, <2>4
  <2>6. Solved(m - 1)
    BY <2>2, <2>5
  <2> QED  BY <1>2, <2>3, <2>5, <2>6
<1> QED  BY <1>3, <1>4

-----------------------------------------------------------------------------
(* Lexicographic descent.                                                  *)

\* a comes before b in the lexicographic order of n numbers.
LexLess(a, b, n) ==
  \E k \in 1 .. n : a[k] < b[k] /\ \A j \in 1 .. k - 1 : a[j] = b[j]

\* From index m on, the first k numbers stay what they are at m.
SteadyFrom(f, k, m) == \A i \in Nat : m <= i => \A j \in 1 .. k : f[i][j] = f[m][j]

LEMMA SteadyOneMore ==
  ASSUME NEW n \in Nat, NEW f, \A i \in Nat : \A j \in 1 .. n : f[i][j] \in Nat,
         \A i \in Nat : LexLess(f[i + 1], f[i], n),
         NEW k \in 1 .. n, NEW m \in Nat, SteadyFrom(f, k - 1, m)
  PROVE  \E l \in Nat : SteadyFrom(f, k, l)
<1> DEFINE values == {v \in Nat : \E i \in Nat : m <= i /\ f[i][k] = v}
<1>1. \A i \in Nat : \A j \in 1 .. n : f[i][j] \in Nat
  OBVIOUS
<1> DEFINE d(i) == f[i][k]
<1>0. \A i \in Nat : d(i) \in Nat
  BY <1>1
<1>2. k \in Nat /\ k - 1 \in Nat /\ k \in 1 .. n
  OBVIOUS
<1>3. \A i \in Nat : m <= i => \A j \in 1 .. k - 1 : f[i][j] = f[m][j]
  BY DEF SteadyFrom
<1>4. ASSUME NEW i \in Nat, m <= i PROVE f[i + 1][k] <= f[i][k]
  <2>1. PICK c \in 1 .. n : f[i + 1][c] < f[i][c] /\ \A j \in 1 .. c - 1 : f[i + 1][j] = f[i][j]
    BY DEF LexLess
  <2>2. i + 1 \in Nat /\ m <= i + 1
    BY <1>4
  <2>9. f[i + 1][k] \in Nat /\ f[i][k] \in Nat
    BY <1>0, <2>2
  <2>3. CASE c < k
    <3>1. c \in 1 .. k - 1
      BY <1>2, <2>3
    <3>2. f[i + 1][c] = f[m][c] /\ f[i][c] = f[m][c]
      BY <1>3, <1>4, <2>2, <3>1
    <3>3. f[m][c] \in Nat
      BY <1>1
    <3> QED
      BY <2>1, <3>2, <3>3
  <2>4. CASE c = k
    BY <2>1, <2>9, <2>4
  <2>5. CASE k < c
    <3>1. k \in 1 .. c - 1
      BY <1>2, <2>5
    <3> QED
      BY <2>1, <2>9, <3>1
  <2> QED
    BY <1>2, <2>3, <2>4, <2>5
<1>5. values \in SUBSET Nat /\ values # {}
  <2>1. d(m) \in values
    BY <1>0
  <2> QED
    BY <2>1
<1> HIDE DEF values
<1>6. PICK v \in values : \A x \in values : v <= x
  BY <1>5, LeastNatural
<1>7. PICK l \in Nat : m <= l /\ f[l][k] = v
  BY <1>6 DEF values
<1>8. \A i \in Nat : m <= i => v <= f[i][k]
  BY <1>1, <1>2, <1>6 DEF values
<1> DEFINE changed == {i \in Nat : l <= i /\ f[i][k] # v}
<1>9. changed = {}
  <2> SUFFICES ASSUME changed # {} PROVE FALSE
    OBVIOUS
  <2>1. changed \in SUBSET Nat
    OBVIOUS
  <2> HIDE DEF changed
  <2>2. PICK i \in changed : \A x \in changed : i <= x
    BY <2>1, LeastNatural
  <2>3. i \in Nat /\ l <= i /\ f[i][k] # v
    BY <2>2 DEF changed
  <2>4. l # i
    BY <1>7, <2>3
  <2>5. i - 1 \in Nat /\ l <= i - 1 /\ m <= i - 1 /\ (i - 1) + 1 = i
    BY <1>7, <2>3, <2>4
  <2>6. i - 1 \notin changed
    BY <2>2, <2>3, <2>5
  <2>7. f[i - 1][k] = v
    BY <2>5, <2>6 DEF changed
  <2>8. f[(i - 1) + 1][k] <= f[i - 1][k]
    BY <1>4, <2>5
  <2>9. f[i][k] <= v
    BY <2>5, <2>7, <2>8
  <2>10. v <= f[i][k]
    BY <1>7, <1>8, <2>3
  <2>11. f[i][k] \in Nat /\ v \in Nat
    BY <1>0, <1>5, <1>6, <2>3
  <2>12. \A x, y \in Nat : x <= y /\ y <= x => x = y
    OBVIOUS
  <2> QED
    BY <2>3, <2>9, <2>10, <2>11, <2>12
<1>10. ASSUME NEW i \in Nat, l <= i, NEW j \in 1 .. k PROVE f[i][j] = f[l][j]
  <2>1. CASE j = k
    BY <1>7, <1>9, <1>10, <2>1
  <2>2. CASE j # k
    <3>1. j \in 1 .. k - 1
      BY <1>2, <2>2
    <3>2. m <= i
      BY <1>7, <1>10
    <3> QED
      BY <1>3, <1>7, <1>10, <3>1, <3>2
  <2> QED
    BY <2>1, <2>2
<1> QED
  BY <1>10 DEF SteadyFrom

\* No sequence of tuples of numbers decreases for ever: a program whose every
\* step decreases such a tuple takes finitely many steps.
LEMMA NoDescent ==
  ASSUME NEW n \in Nat, NEW f, \A i \in Nat : \A j \in 1 .. n : f[i][j] \in Nat
  PROVE  ~ \A i \in Nat : LexLess(f[i + 1], f[i], n)
<1> SUFFICES ASSUME \A i \in Nat : LexLess(f[i + 1], f[i], n) PROVE FALSE
  OBVIOUS
<1> DEFINE steady == {k \in 0 .. n : \E m \in Nat : SteadyFrom(f, k, m)}
<1>1. 0 \in steady
  <2>1. SteadyFrom(f, 0, 0)
    BY DEF SteadyFrom
  <2> QED
    BY <2>1
<1>2. \A k \in 1 .. n : k - 1 \in steady => k \in steady
  <2> SUFFICES ASSUME NEW k \in 1 .. n, k - 1 \in steady PROVE k \in steady
    OBVIOUS
  <2>1. PICK m \in Nat : SteadyFrom(f, k - 1, m)
    OBVIOUS
  <2>2. \E l \in Nat : SteadyFrom(f, k, l)
    BY <2>1, SteadyOneMore
  <2> QED
    BY <2>2
<1> HIDE DEF steady
<1>3. 0 .. n \subseteq steady
  BY <1>1, <1>2, IntervalInduction
<1>4. PICK m \in Nat : SteadyFrom(f, n, m)
  BY <1>3 DEF steady
<1>5. m + 1 \in Nat /\ m <= m + 1
  OBVIOUS
<1>6. \A j \in 1 .. n : f[m + 1][j] = f[m][j] /\ f[m][j] \in Nat
  BY <1>4, <1>5 DEF SteadyFrom
<1>7. LexLess(f[m + 1], f[m], n)
  OBVIOUS
<1>8. PICK k \in 1 .. n : f[m + 1][k] < f[m][k]
  BY <1>7 DEF LexLess
<1>9. f[m + 1][k] = f[m][k] /\ f[m][k] \in Nat
  BY <1>6
<1> QED
  BY <1>8, <1>9

\* The order found at component k, and tuples compared component by component.
LEMMA LexAt ==
  ASSUME NEW a, NEW b, NEW n \in Nat, NEW k \in 1 .. n,
         a[k] < b[k], \A j \in 1 .. k - 1 : a[j] = b[j]
  PROVE  LexLess(a, b, n)
BY DEF LexLess

LEMMA LexSix ==
  ASSUME NEW a1, NEW a2, NEW a3, NEW a4, NEW a5, NEW a6,
         NEW b1, NEW b2, NEW b3, NEW b4, NEW b5, NEW b6,
         \/ a1 < b1
         \/ a1 = b1 /\ a2 < b2
         \/ a1 = b1 /\ a2 = b2 /\ a3 < b3
         \/ a1 = b1 /\ a2 = b2 /\ a3 = b3 /\ a4 < b4
         \/ a1 = b1 /\ a2 = b2 /\ a3 = b3 /\ a4 = b4 /\ a5 < b5
         \/ a1 = b1 /\ a2 = b2 /\ a3 = b3 /\ a4 = b4 /\ a5 = b5 /\ a6 < b6
  PROVE  LexLess(<<a1, a2, a3, a4, a5, a6>>, <<b1, b2, b3, b4, b5, b6>>, 6)
<1>1. CASE a1 < b1
  BY <1>1, LexAt
<1>2. CASE a1 = b1 /\ a2 < b2
  BY <1>2, LexAt
<1>3. CASE a1 = b1 /\ a2 = b2 /\ a3 < b3
  BY <1>3, LexAt
<1>4. CASE a1 = b1 /\ a2 = b2 /\ a3 = b3 /\ a4 < b4
  BY <1>4, LexAt
<1>5. CASE a1 = b1 /\ a2 = b2 /\ a3 = b3 /\ a4 = b4 /\ a5 < b5
  BY <1>5, LexAt
<1>6. CASE a1 = b1 /\ a2 = b2 /\ a3 = b3 /\ a4 = b4 /\ a5 = b5 /\ a6 < b6
  BY <1>6, LexAt
<1> QED
  BY <1>1, <1>2, <1>3, <1>4, <1>5, <1>6

LEMMA LexSeven ==
  ASSUME NEW a1, NEW a2, NEW a3, NEW a4, NEW a5, NEW a6, NEW a7,
         NEW b1, NEW b2, NEW b3, NEW b4, NEW b5, NEW b6, NEW b7,
         \/ a1 < b1
         \/ a1 = b1 /\ a2 < b2
         \/ a1 = b1 /\ a2 = b2 /\ a3 < b3
         \/ a1 = b1 /\ a2 = b2 /\ a3 = b3 /\ a4 < b4
         \/ a1 = b1 /\ a2 = b2 /\ a3 = b3 /\ a4 = b4 /\ a5 < b5
         \/ a1 = b1 /\ a2 = b2 /\ a3 = b3 /\ a4 = b4 /\ a5 = b5 /\ a6 < b6
         \/ a1 = b1 /\ a2 = b2 /\ a3 = b3 /\ a4 = b4 /\ a5 = b5 /\ a6 = b6 /\ a7 < b7
  PROVE  LexLess(<<a1, a2, a3, a4, a5, a6, a7>>, <<b1, b2, b3, b4, b5, b6, b7>>, 7)
<1>1. CASE a1 < b1
  BY <1>1, LexAt
<1>2. CASE a1 = b1 /\ a2 < b2
  BY <1>2, LexAt
<1>3. CASE a1 = b1 /\ a2 = b2 /\ a3 < b3
  BY <1>3, LexAt
<1>4. CASE a1 = b1 /\ a2 = b2 /\ a3 = b3 /\ a4 < b4
  BY <1>4, LexAt
<1>5. CASE a1 = b1 /\ a2 = b2 /\ a3 = b3 /\ a4 = b4 /\ a5 < b5
  BY <1>5, LexAt
<1>6. CASE a1 = b1 /\ a2 = b2 /\ a3 = b3 /\ a4 = b4 /\ a5 = b5 /\ a6 < b6
  BY <1>6, LexAt
<1>7. CASE a1 = b1 /\ a2 = b2 /\ a3 = b3 /\ a4 = b4 /\ a5 = b5 /\ a6 = b6 /\ a7 < b7
  BY <1>7, LexAt
<1> QED
  BY <1>1, <1>2, <1>3, <1>4, <1>5, <1>6, <1>7

LEMMA LexNine ==
  ASSUME NEW a1, NEW a2, NEW a3, NEW a4, NEW a5, NEW a6, NEW a7, NEW a8, NEW a9,
         NEW b1, NEW b2, NEW b3, NEW b4, NEW b5, NEW b6, NEW b7, NEW b8, NEW b9,
         \/ a1 < b1
         \/ a1 = b1 /\ a2 < b2
         \/ a1 = b1 /\ a2 = b2 /\ a3 < b3
         \/ a1 = b1 /\ a2 = b2 /\ a3 = b3 /\ a4 < b4
         \/ a1 = b1 /\ a2 = b2 /\ a3 = b3 /\ a4 = b4 /\ a5 < b5
         \/ a1 = b1 /\ a2 = b2 /\ a3 = b3 /\ a4 = b4 /\ a5 = b5 /\ a6 < b6
         \/ a1 = b1 /\ a2 = b2 /\ a3 = b3 /\ a4 = b4 /\ a5 = b5 /\ a6 = b6 /\ a7 < b7
         \/ a1 = b1 /\ a2 = b2 /\ a3 = b3 /\ a4 = b4 /\ a5 = b5 /\ a6 = b6 /\ a7 = b7 /\ a8 < b8
         \/ a1 = b1 /\ a2 = b2 /\ a3 = b3 /\ a4 = b4 /\ a5 = b5 /\ a6 = b6 /\ a7 = b7 /\ a8 = b8 /\ a9 < b9
  PROVE  LexLess(<<a1, a2, a3, a4, a5, a6, a7, a8, a9>>, <<b1, b2, b3, b4, b5, b6, b7, b8, b9>>, 9)
<1>1. CASE a1 < b1
  BY <1>1, LexAt
<1>2. CASE a1 = b1 /\ a2 < b2
  BY <1>2, LexAt
<1>3. CASE a1 = b1 /\ a2 = b2 /\ a3 < b3
  BY <1>3, LexAt
<1>4. CASE a1 = b1 /\ a2 = b2 /\ a3 = b3 /\ a4 < b4
  BY <1>4, LexAt
<1>5. CASE a1 = b1 /\ a2 = b2 /\ a3 = b3 /\ a4 = b4 /\ a5 < b5
  BY <1>5, LexAt
<1>6. CASE a1 = b1 /\ a2 = b2 /\ a3 = b3 /\ a4 = b4 /\ a5 = b5 /\ a6 < b6
  BY <1>6, LexAt
<1>7. CASE a1 = b1 /\ a2 = b2 /\ a3 = b3 /\ a4 = b4 /\ a5 = b5 /\ a6 = b6 /\ a7 < b7
  BY <1>7, LexAt
<1>8. CASE a1 = b1 /\ a2 = b2 /\ a3 = b3 /\ a4 = b4 /\ a5 = b5 /\ a6 = b6 /\ a7 = b7 /\ a8 < b8
  BY <1>8, LexAt
<1>9. CASE a1 = b1 /\ a2 = b2 /\ a3 = b3 /\ a4 = b4 /\ a5 = b5 /\ a6 = b6 /\ a7 = b7 /\ a8 = b8 /\ a9 < b9
  BY <1>9, LexAt
<1> QED
  BY <1>1, <1>2, <1>3, <1>4, <1>5, <1>6, <1>7, <1>8, <1>9
==============================================================================
