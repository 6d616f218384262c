---------------------------- MODULE SetComparison ----------------------------
(***************************************************************************)
(* One comparison of two clusters: Cluster::disambiguate computes the      *)
(* threshold from the two heads, and disambiguate_by_set goes through the  *)
(* pairs of members, keeps some of their probabilities in the set probs,   *)
(* and decides on an average.                                              *)
(*                                                                         *)
(* Probabilities and cohesions are percentages, thresholds of the          *)
(* configuration are per mille; the thresholds computed from them are in   *)
(* units of 1 / One, rounded down.  A pair's probability is an input: 0    *)
(* when its similarity profile has no ratio, Veto when a name does not     *)
(* match at all or the countries conflict.  The pair of the two delegates  *)
(* has one result, in the screening and again in the loop, wherever it     *)
(* comes up.                                                               *)
(***************************************************************************)
EXTENDS Integers, FiniteSets, Functions

CONSTANTS
  Sizes,        \* sizes of the two clusters: pairs of numbers
  Cohesions,    \* cohesions of clusters, in percent
  Mutuals,      \* thresholds of the configuration, per mille
  Gaps,         \* years between the two clusters' careers
  Levels        \* probabilities of pairs whose profile has a ratio, in percent

Veto == -1
One  == 4000000                  \* 40 * 1000 * 100
Unit(percent) == percent * (One \div 100)

ASSUME ComparisonAssumption ==
  /\ Sizes \subseteq (Nat \ {0}) \X (Nat \ {0})
  /\ Cohesions \subseteq Nat /\ \A c \in Cohesions : c <= 100
  /\ Mutuals \subseteq Nat /\ \A threshold \in Mutuals : threshold <= 1000
  /\ Gaps \subseteq Nat
  /\ Levels \subseteq Nat \ {0} /\ \A p \in Levels : p <= 100

VARIABLES
  m, n,         \* match1_size, match2_size
  c1, c2,       \* cohesion1, cohesion2
  caliber,      \* threshold in disambiguate_by_set, in units
  key, keyAt,   \* the delegates' probability and their place among the pairs
  k,            \* pairs compared
  probs,        \* probs
  qualified,    \* qualified_count
  cumulative,   \* cumulative_interactive
  pc            \* "screen", "pairs", "merge" or "differ"

inputs == <<m, n, c1, c2, caliber>>
vars   == <<m, n, c1, c2, caliber, key, keyAt, k, probs, qualified, cumulative, pc>>

TypeOK ==
  /\ <<m, n>> \in Sizes
  /\ c1 \in Cohesions /\ c2 \in Cohesions
  /\ caliber \in 0 .. One
  /\ key \in 0 .. 100
  /\ keyAt \in 0 .. m * n /\ k \in 0 .. m * n
  /\ probs \subseteq Levels
  /\ qualified \in 0 .. m * n
  /\ cumulative \in Nat
  /\ pc \in {"screen", "pairs", "merge", "differ"}

-----------------------------------------------------------------------------
(* Thresholds.                                                             *)

Larger(x, y)  == IF x < y THEN y ELSE x
Smaller(x, y) == IF x < y THEN x ELSE y

\* Cluster::disambiguate: 0.99 for two clusters of JP, a step towards 0.999
\* for every year of a gap of up to 20, and half of what is left when the
\* careers overlap but no location is common.  In 1 / 40000.
MaxThreshold == 999 * 40
ThresholdToUse(mutual, bothJP, gap, commonLocs) ==
  LET threshold == 40 * (IF bothJP THEN Larger(990, mutual) ELSE mutual)
      scaled    == threshold + ((MaxThreshold - threshold) * Smaller(gap, 20)) \div 20
      penalized == scaled + (MaxThreshold - scaled) \div 2
  IN  Smaller(IF gap = 0 /\ ~commonLocs THEN penalized ELSE scaled, MaxThreshold)

\* disambiguate_by_set: the product with both cohesions, 0.7 at least.
Caliber(threshold, h1, h2) == Larger(Unit(70), (threshold * h1 * h2) \div 100)

\* candidates_for_averaging
Candidates == Larger(1, (m * n) \div 4)

-----------------------------------------------------------------------------

Init ==
  /\ \E s \in Sizes : m = s[1] /\ n = s[2]
  /\ c1 \in Cohesions /\ c2 \in Cohesions
  /\ \E mutual \in Mutuals, jp \in BOOLEAN, gap \in Gaps, common \in BOOLEAN :
       caliber = Caliber(ThresholdToUse(mutual, jp, gap, common), c1, c2)
  /\ key = 0 /\ keyAt = 0
  /\ k = 0
  /\ probs = {} /\ qualified = 0 /\ cumulative = 0
  /\ pc = "screen"

\* The delegates: their countries, their names and the screening threshold.
Screen ==
  /\ pc = "screen"
  /\ \E p \in Levels \cup {0, Veto} :
       IF p < 30
       THEN pc' = "differ" /\ UNCHANGED <<key, keyAt>>
       ELSE pc' = "pairs" /\ key' = p /\ keyAt' \in 1 .. m * n
  /\ UNCHANGED <<inputs, k, probs, qualified, cumulative>>

\* The next pair of the two nested loops.
Results == IF k + 1 = keyAt THEN {key} ELSE Levels \cup {0, Veto}

PairVetoed ==
  /\ pc = "pairs" /\ k < m * n
  /\ Veto \in Results
  /\ pc' = "differ"
  /\ UNCHANGED <<inputs, key, keyAt, k, probs, qualified, cumulative>>

PairUnknown ==
  /\ pc = "pairs" /\ k < m * n
  /\ 0 \in Results
  /\ k' = k + 1
  /\ UNCHANGED <<inputs, key, keyAt, probs, qualified, cumulative, pc>>

Lowest(S) == CHOOSE x \in S : \A y \in S : x <= y

\* Until enough pairs qualified, the new probability takes the place of the
\* lowest when the set is full.
Kept(p) ==
  IF qualified >= Candidates THEN probs
  ELSE (IF Cardinality(probs) >= Candidates THEN probs \ {Lowest(probs)} ELSE probs) \cup {p}

PairProbable(p) ==
  /\ pc = "pairs" /\ k < m * n
  /\ p \in Results
  /\ k' = k + 1
  /\ probs' = Kept(p)
  /\ IF Unit(p) >= caliber
     THEN qualified' = qualified + 1 /\ cumulative' = cumulative + p
     ELSE UNCHANGED <<qualified, cumulative>>
  /\ UNCHANGED <<inputs, key, keyAt, pc>>

\* Faulty variant: the sum of the qualified probabilities is never used.
TotalOfProbs == SumFunction([x \in probs |-> x])

\* probs_average is Total / Count.
Total == IF qualified > Cardinality(probs) THEN cumulative ELSE SumFunction([x \in probs |-> x])
Count == IF qualified > Cardinality(probs) THEN qualified ELSE Cardinality(probs)

Decide ==
  /\ pc = "pairs" /\ k = m * n
  /\ pc' = IF Unit(Total) < caliber * Count THEN "differ" ELSE "merge"
  /\ UNCHANGED <<inputs, key, keyAt, k, probs, qualified, cumulative>>

Returned ==
  /\ pc \in {"merge", "differ"}
  /\ UNCHANGED vars

Next ==
  \/ Screen
  \/ PairVetoed \/ PairUnknown \/ \E p \in Levels : PairProbable(p)
  \/ Decide
  \/ Returned

Spec == Init /\ [][Next]_vars

\* The cohesion of the merged cluster is Cohesion / (Count * Ordered) percent.
Ordered  == (m + n) * (m + n - 1)
\* Faulty variant: ordered pairs are not counted twice.
CohesionOnce == (c1 * m * (m - 1) + c2 * n * (n - 1)) * Count + Total * m * n

Cohesion == (c1 * m * (m - 1) + c2 * n * (n - 1)) * Count + 2 * Total * m * n

-----------------------------------------------------------------------------
(* Properties.                                                             *)

\* The verdict does not hang on the order of the members once enough pairs
\* qualify: if more than candidates_for_averaging pairs reach the threshold the
\* clusters merge, whatever the other pairs are and whatever was replaced in the set;
\* and they never merge when no pair qualifies, though averages are taken of pairs that
\* do not (disambiguate_by_set).  Just candidates_for_averaging pairs are not enough:
\* two pairs of equal probability hold one place in the set.
VerdictFollows ==
  /\ pc = "differ" /\ k = m * n => qualified <= Candidates
  /\ pc = "merge" => qualified > 0

\* The cohesion of a merged cluster is between the lowest of the two cohesions
\* and the threshold, and 1: cohesions multiply into the next threshold, so
\* one above 1 or one that collapses would corrupt later comparisons.
CohesionInRange ==
  pc = "merge" =>
    LET den == Count * Ordered
    IN  /\ Cohesion <= 100 * den
        /\ \/ Cohesion >= c1 * den
           \/ Cohesion >= c2 * den
           \/ Unit(Cohesion) >= caliber * den

\* The kept probabilities fit, and the qualified ones reach the threshold on average;
\* the set is not empty once the delegates were met, and has none that qualifies as
\* long as none did.
ProbsInv ==
  /\ Cardinality(probs) <= Candidates
  /\ qualified <= k
  /\ caliber * qualified <= Unit(cumulative) /\ cumulative <= 100 * qualified
  /\ qualified > 0 => probs # {}
  /\ qualified = 0 => \A p \in probs : Unit(p) < caliber

\* Where the comparison is, and that its verdict is that of the averages.
VerdictInv ==
  /\ pc = "screen" => k = 0
  /\ pc = "pairs" => key \in Levels /\ keyAt \in 1 .. m * n
  /\ pc \in {"pairs", "merge"} /\ keyAt <= k => probs # {}
  /\ pc = "merge" => /\ k = m * n /\ keyAt <= k
                     /\ caliber * Count <= Unit(Total)
  /\ pc = "differ" /\ k = m * n => Unit(Total) < caliber * Count

\* The inductive invariant behind VerdictFollows and CohesionInRange.
CompareInv == TypeOK /\ ProbsInv /\ VerdictInv
=============================================================================
