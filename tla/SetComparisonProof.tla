-------------------------- MODULE SetComparisonProof --------------------------
(***************************************************************************)
(* Proofs about SetComparison, for clusters of every size, and every       *)
(* cohesions, thresholds, gaps and probabilities.                          *)
(***************************************************************************)
EXTENDS SetComparison, DataTheorems

USE ComparisonAssumption

LEMMA UnitIs == ASSUME NEW x PROVE Unit(x) = x * 40000
BY DEF Unit, One

\* The computed thresholds are numbers up to 1.
LEMMA ThresholdBound ==
  ASSUME NEW mutual \in Mutuals, NEW jp \in BOOLEAN, NEW gap \in Gaps, NEW common \in BOOLEAN
  PROVE  ThresholdToUse(mutual, jp, gap, common) \in Int
         /\ ThresholdToUse(mutual, jp, gap, common) <= 39960
<1> DEFINE threshold == 40 * (IF jp THEN Larger(990, mutual) ELSE mutual)
           g == Smaller(gap, 20)
           scaled == threshold + ((MaxThreshold - threshold) * g) \div 20
           penalized == scaled + (MaxThreshold - scaled) \div 2
<1>1. mutual \in 0 .. 1000 /\ gap \in Nat
  OBVIOUS
<1>2. threshold \in Int
  BY <1>1 DEF Larger
<1>3. g \in Int
  BY <1>1 DEF Smaller
<1>4. MaxThreshold = 39960
  BY DEF MaxThreshold
<1> HIDE DEF threshold, g
<1>5. scaled \in Int
  <2>1. (MaxThreshold - threshold) * g \in Int
    BY <1>2, <1>3, <1>4
  <2> QED  BY <1>2, <2>1
<1> HIDE DEF scaled
<1>6. penalized \in Int
  BY <1>4, <1>5
<1>7. ThresholdToUse(mutual, jp, gap, common)
        = Smaller(IF gap = 0 /\ ~common THEN penalized ELSE scaled, MaxThreshold)
  BY DEF ThresholdToUse, threshold, g, scaled
<1> HIDE DEF penalized
<1> QED  BY <1>4, <1>5, <1>6, <1>7 DEF Smaller

LEMMA CaliberBound ==
  ASSUME NEW t \in Int, t <= 39960, NEW h1 \in Nat, h1 <= 100, NEW h2 \in Nat, h2 <= 100
  PROVE  Caliber(t, h1, h2) \in Int /\ 2800000 <= Caliber(t, h1, h2) /\ Caliber(t, h1, h2) <= One
<1>1. h1 * h2 \in Nat /\ h1 * h2 <= 10000
  <2>1. h1 * h2 \in Nat /\ h1 * h2 <= h1 * 100
    OBVIOUS
  <2> QED  BY <2>1
<1>2. t * h1 * h2 \in Int /\ t * h1 * h2 <= 399600000
  <2> DEFINE h == h1 * h2
  <2>1. t * h1 * h2 = t * h
    OBVIOUS
  <2>2. h \in Nat /\ h <= 10000
    BY <1>1
  <2> HIDE DEF h
  <2>3. t * h <= 39960 * h
    BY <2>2
  <2> QED  BY <2>1, <2>2, <2>3
<1> DEFINE x == (t * h1 * h2) \div 100
<1>3. x \in Int /\ x <= 3996000
  <2> DEFINE y == t * h1 * h2
  <2>1. y \in Int /\ y <= 399600000
    BY <1>2
  <2> HIDE DEF y
  <2>2. y \div 100 \in Int /\ y \div 100 <= 3996000
    BY <2>1
  <2> QED  BY <2>2 DEF y
<1>4. Caliber(t, h1, h2) = Larger(Unit(70), x)
  BY DEF Caliber
<1> HIDE DEF x
<1> QED  BY <1>3, <1>4, UnitIs DEF Larger, One

-----------------------------------------------------------------------------
\* Sizes and their product are positive, and at least one place is for averaging.
LEMMA SizesPositive ==
  ASSUME TypeOK
  PROVE  /\ m \in Nat \ {0} /\ n \in Nat \ {0} /\ m * n \in Nat \ {0}
         /\ Candidates \in Nat \ {0}
<1>1. m \in Nat \ {0} /\ n \in Nat \ {0}
  BY DEF TypeOK
<1>2. m * n \in Nat \ {0}
  BY <1>1
<1> DEFINE mn == m * n
<1>3. Larger(1, mn \div 4) \in Nat \ {0}
  <2> HIDE DEF mn
  <2>1. mn \in Nat \ {0}
    BY <1>2 DEF mn
  <2> QED  BY <2>1 DEF Larger
<1> QED  BY <1>1, <1>2, <1>3 DEF Candidates

LEMMA BoundedFinite ==
  ASSUME NEW S, NEW h \in Nat, S \subseteq Nat \ {0}, \A x \in S : x <= h
  PROVE  IsFiniteSet(S)
<1>1. S \subseteq 1 .. h
  OBVIOUS
<1>2. IsFiniteSet(1 .. h)
  BY FS_Interval
<1> QED  BY <1>1, <1>2, FS_Subset

LEMMA ProbsFinite ==
  ASSUME TypeOK
  PROVE  /\ probs \subseteq Nat \ {0} /\ IsFiniteSet(probs) /\ Cardinality(probs) \in Nat
         /\ probs # {} => Cardinality(probs) > 0
         /\ \A x \in probs : x \in Nat \ {0} /\ x <= 100
<1>0. probs \subseteq Nat \ {0} /\ \A x \in probs : x <= 100
  BY DEF TypeOK
<1>3. IsFiniteSet(probs)
  BY <1>0, BoundedFinite
<1>4. Cardinality(probs) \in Nat /\ (Cardinality(probs) = 0 <=> probs = {})
  BY <1>3, FS_CardinalityType, FS_EmptySet
<1>5. probs # {} => Cardinality(probs) > 0
  BY <1>4
<1> QED  BY <1>0, <1>3, <1>4, <1>5

\* The sum of the kept probabilities is at most h each, if they all are.
LEMMA SumOfProbs ==
  ASSUME TypeOK, NEW h \in Nat, \A x \in probs : x <= h
  PROVE  /\ SumFunction([x \in probs |-> x]) \in Nat
         /\ SumFunction([x \in probs |-> x]) <= h * Cardinality(probs)
<1> DEFINE f == [x \in probs |-> x]
<1>1. IsFiniteSet(probs) /\ \A x \in probs : f[x] \in 0 .. h
  BY ProbsFinite
<1>2. DOMAIN f = probs
  OBVIOUS
<1> HIDE DEF f
<1>3. /\ SumFunctionOnSet(f, probs) \in Nat
      /\ SumFunctionOnSet(f, probs) <= h * Cardinality(probs)
  BY <1>1, SumBounded
<1>4. SumFunction(f) = SumFunctionOnSet(f, probs)
  BY <1>2 DEF SumFunction
<1> QED  BY <1>3, <1>4 DEF f

LEMMA InitCompares == Init => CompareInv
<1> SUFFICES ASSUME Init PROVE CompareInv
  OBVIOUS
<1>1. PICK mutual \in Mutuals, jp \in BOOLEAN, gap \in Gaps, common \in BOOLEAN :
        caliber = Caliber(ThresholdToUse(mutual, jp, gap, common), c1, c2)
  BY DEF Init
<1>2. c1 \in Nat /\ c1 <= 100 /\ c2 \in Nat /\ c2 <= 100
  BY DEF Init
<1>3. caliber \in Int /\ 2800000 <= caliber /\ caliber <= One
  <2> DEFINE t == ThresholdToUse(mutual, jp, gap, common)
  <2>1. t \in Int /\ t <= 39960
    BY ThresholdBound
  <2> HIDE DEF t
  <2>2. caliber = Caliber(t, c1, c2)
    BY <1>1 DEF t
  <2> QED  BY <1>2, <2>1, <2>2, CaliberBound
<1>4. caliber \in 0 .. One
  <2>1. One \in Nat
    BY DEF One
  <2> QED  BY <1>3, <2>1
<1>5. PICK s \in Sizes : m = s[1] /\ n = s[2]
  BY DEF Init
<1>6. <<m, n>> \in Sizes /\ m * n \in Nat
  <2>1. s \in (Nat \ {0}) \X (Nat \ {0})
    OBVIOUS
  <2> QED  BY <1>5, <2>1
<1>7. TypeOK
  BY <1>4, <1>6 DEF Init, TypeOK
<1>8. Candidates \in Nat \ {0} /\ m * n \in Nat \ {0}
  BY <1>7, SizesPositive
<1>9. ProbsInv
  <2>1. caliber * 0 = 0
    BY <1>4
  <2> QED  BY <1>8, <2>1, FS_EmptySet, UnitIs DEF Init, ProbsInv
<1>10. VerdictInv
  BY DEF Init, VerdictInv
<1> QED  BY <1>7, <1>9, <1>10 DEF CompareInv

-----------------------------------------------------------------------------
(* The steps.                                                              *)

\* The set of kept probabilities never grows past its places and is not
\* emptied: at least the new probability is in it until enough qualified.
LEMMA KeptBounded ==
  ASSUME TypeOK, ProbsInv, NEW p \in Levels
  PROVE  /\ Kept(p) \subseteq probs \cup {p}
         /\ Cardinality(Kept(p)) <= Candidates
         /\ Kept(p) # {}
<1>1. Candidates \in Nat \ {0}
  BY SizesPositive
<1>2. IsFiniteSet(probs) /\ Cardinality(probs) \in Nat /\ probs \subseteq Nat
  BY ProbsFinite
<1>3. CASE qualified >= Candidates
  BY <1>1, <1>3 DEF Kept, ProbsInv, TypeOK
<1>4. CASE ~ (qualified >= Candidates) /\ Cardinality(probs) >= Candidates
  <2> DEFINE rest == probs \ {Lowest(probs)}
  <2>1. probs # {}
    BY <1>1, <1>4, FS_EmptySet
  <2>2. Lowest(probs) \in probs
    BY <1>2, <2>1, LeastNatural DEF Lowest
  <2>3. IsFiniteSet(rest) /\ Cardinality(rest) = Cardinality(probs) - 1
    BY <1>2, <2>2, FS_RemoveElement
  <2>4. Cardinality(rest \cup {p}) <= Cardinality(rest) + 1
    <3> HIDE DEF rest
    <3>1. Cardinality(rest) \in Nat
      BY <2>3, FS_CardinalityType
    <3>2. Cardinality(rest \cup {p}) = IF p \in rest THEN Cardinality(rest) ELSE Cardinality(rest) + 1
      BY <2>3, FS_AddElement
    <3> QED  BY <3>1, <3>2
  <2>5. Kept(p) = rest \cup {p}
    BY <1>4 DEF Kept
  <2>6. Cardinality(probs) <= Candidates
    BY DEF ProbsInv
  <2> HIDE DEF rest
  <2>7. Cardinality(rest \cup {p}) <= Candidates
    <3>1. IsFiniteSet(rest \cup {p}) /\ Cardinality(rest \cup {p}) \in Nat
      BY <2>3, FS_AddElement, FS_CardinalityType
    <3> QED  BY <1>1, <1>2, <2>3, <2>4, <2>6, <3>1
  <2> QED  BY <2>5, <2>7 DEF rest
<1>5. CASE ~ (qualified >= Candidates) /\ ~ (Cardinality(probs) >= Candidates)
  <2>1. Kept(p) = probs \cup {p}
    BY <1>5 DEF Kept
  <2>2. Cardinality(probs \cup {p}) <= Cardinality(probs) + 1
    BY <1>2, FS_AddElement
  <2>3. Cardinality(probs \cup {p}) \in Nat
    BY <1>2, FS_AddElement, FS_CardinalityType
  <2> QED  BY <1>1, <1>2, <1>5, <2>1, <2>2, <2>3
<1> QED  BY <1>3, <1>4, <1>5

LEMMA ScreenKeeps == ASSUME CompareInv, Screen PROVE CompareInv'
<1> USE DEF CompareInv, Screen, inputs
<1>1. PICK p \in Levels \cup {0, Veto} :
        IF p < 30
        THEN pc' = "differ" /\ UNCHANGED <<key, keyAt>>
        ELSE pc' = "pairs" /\ key' = p /\ keyAt' \in 1 .. m * n
  OBVIOUS
<1>2. Candidates' = Candidates /\ m * n \in Nat \ {0}
  BY SizesPositive DEF Candidates
<1>3. TypeOK'
  <2>1. pc' = "pairs" => key' \in Levels /\ keyAt' \in 1 .. m * n
    BY <1>1 DEF Veto
  <2>2. keyAt' \in 1 .. m * n => keyAt' \in 0 .. m * n
    BY <1>2
  <2> QED  BY <1>1, <2>1, <2>2 DEF TypeOK
<1>4. ProbsInv'
  BY <1>2, UnitIs DEF ProbsInv, Unit
<1>5. VerdictInv'
  <2>1. k = 0
    BY DEF VerdictInv
  <2>2. pc' = "pairs" => key' \in Levels /\ keyAt' \in 1 .. m * n
    BY <1>1 DEF Veto
  <2> QED  BY <1>1, <1>2, <2>1, <2>2 DEF VerdictInv
<1> QED  BY <1>3, <1>4, <1>5

LEMMA PairVetoedKeeps == ASSUME CompareInv, PairVetoed PROVE CompareInv'
<1> USE DEF CompareInv, PairVetoed, inputs
<1>1. m * n \in Nat \ {0} /\ k \in 0 .. m * n
  BY SizesPositive DEF TypeOK
<1>2. TypeOK' /\ ProbsInv'
  BY DEF TypeOK, ProbsInv, Candidates, Unit
<1>3. VerdictInv'
  BY <1>1 DEF VerdictInv
<1> QED  BY <1>2, <1>3

\* The pair of the delegates is never one of unknown probability.
LEMMA PairUnknownKeeps == ASSUME CompareInv, PairUnknown PROVE CompareInv'
<1> USE DEF CompareInv, PairUnknown, inputs
<1>1. m * n \in Nat \ {0} /\ k \in 0 .. m * n /\ k + 1 \in 0 .. m * n /\ keyAt \in 0 .. m * n
  BY SizesPositive DEF TypeOK
<1>2. k + 1 # keyAt
  BY DEF Results, VerdictInv
<1>3. TypeOK'
  BY <1>1 DEF TypeOK
<1>4. ProbsInv'
  BY <1>1, <1>3 DEF ProbsInv, Candidates, Unit, TypeOK
<1>5. VerdictInv'
  BY <1>1, <1>2 DEF VerdictInv
<1> QED  BY <1>3, <1>4, <1>5

LEMMA PairProbableKeeps ==
  ASSUME CompareInv, NEW p \in Levels, PairProbable(p)
  PROVE  CompareInv'
<1> USE DEF CompareInv, PairProbable, inputs
<1>1. m * n \in Nat \ {0} /\ k \in 0 .. m * n /\ k + 1 \in 0 .. m * n /\ k + 1 \in Nat
  BY SizesPositive DEF TypeOK
<1>2. /\ probs' \subseteq probs \cup {p} /\ probs' # {}
      /\ Cardinality(probs') <= Candidates
  BY KeptBounded
<1>3. qualified \in Nat /\ qualified <= k /\ cumulative \in Nat /\ p \in 1 .. 100 /\ caliber \in Nat
  BY <1>1 DEF TypeOK, ProbsInv
<1>4. TypeOK'
  <2>1. probs' \subseteq Levels
    BY <1>2 DEF TypeOK
  <2>2. qualified' \in 0 .. m * n /\ cumulative' \in Nat
    BY <1>1, <1>3
  <2> QED  BY <1>1, <2>1, <2>2 DEF TypeOK
<1>5. ProbsInv'
  <2>1. Candidates' = Candidates
    BY DEF Candidates
  <2>2. qualified' <= k'
    BY <1>1, <1>3
  <2>3. caliber' * qualified' <= Unit(cumulative)' /\ cumulative' <= 100 * qualified'
    <3>1. caliber * qualified <= cumulative * 40000 /\ cumulative <= 100 * qualified
      BY UnitIs DEF ProbsInv
    <3>2. CASE Unit(p) >= caliber
      <4>1. caliber * (qualified + 1) = caliber * qualified + caliber
            /\ caliber * qualified \in Int
        BY <1>3
      <4>2. (cumulative + p) * 40000 = cumulative * 40000 + p * 40000
        BY <1>3
      <4>3. caliber <= p * 40000
        BY <3>2, UnitIs, <1>3
      <4>4. caliber * (qualified + 1) <= (cumulative + p) * 40000
        BY <1>3, <3>1, <4>1, <4>2, <4>3
      <4>5. cumulative + p <= 100 * (qualified + 1)
        BY <1>3, <3>1
      <4>6. Unit(cumulative)' = (cumulative + p) * 40000
        BY <3>2, UnitIs DEF Unit, One
      <4> QED  BY <3>2, <4>4, <4>5, <4>6
    <3>3. CASE ~ (Unit(p) >= caliber)
      BY <3>1, <3>3 DEF ProbsInv, Unit
    <3> QED  BY <3>2, <3>3
  <2>4. qualified' = 0 => \A x \in probs' : Unit(x)' < caliber'
    <3> SUFFICES ASSUME qualified' = 0, NEW x \in probs' PROVE x * 40000 < caliber
      BY UnitIs DEF Unit, One
    <3>1. ~ (Unit(p) >= caliber) /\ qualified = 0
      BY <1>3
    <3>2. p * 40000 < caliber
      BY <1>3, <3>1, UnitIs
    <3> QED  BY <1>2, <3>1, <3>2, UnitIs DEF ProbsInv
  <2> QED  BY <1>2, <2>1, <2>2, <2>3, <2>4 DEF ProbsInv, Unit
<1>6. VerdictInv'
  BY <1>2 DEF VerdictInv
<1> QED  BY <1>4, <1>5, <1>6

\* Total and Count of the average the verdict is taken on.
LEMMA AverageIs ==
  ASSUME TypeOK, ProbsInv
  PROVE  /\ Total \in Nat /\ Count \in Nat
         /\ Total <= 100 * Count
         /\ probs # {} => Count > 0
<1>1. Cardinality(probs) \in Nat /\ qualified \in Nat /\ cumulative \in Nat
  BY ProbsFinite, SizesPositive DEF TypeOK
<1>2. /\ SumFunction([x \in probs |-> x]) \in Nat
      /\ SumFunction([x \in probs |-> x]) <= 100 * Cardinality(probs)
  BY ProbsFinite, SumOfProbs
<1>3. CASE qualified > Cardinality(probs)
  BY <1>1, <1>3 DEF Total, Count, ProbsInv
<1>4. CASE ~ (qualified > Cardinality(probs))
  BY <1>1, <1>2, <1>4, ProbsFinite DEF Total, Count
<1> QED  BY <1>3, <1>4

LEMMA DecideKeeps == ASSUME CompareInv, Decide PROVE CompareInv'
<1> USE DEF CompareInv, Decide, inputs
<1>1. m * n \in Nat \ {0} /\ k = m * n /\ keyAt \in 1 .. m * n
  BY SizesPositive DEF VerdictInv
<1>2. TypeOK' /\ ProbsInv'
  BY DEF TypeOK, ProbsInv, Candidates, Unit
<1>3. Total' = Total /\ Count' = Count
  BY DEF Total, Count
<1>4. Total \in Nat /\ Count \in Nat /\ caliber \in Nat
  BY AverageIs DEF TypeOK
<1>5. caliber * Count \in Nat /\ Unit(Total) = Total * 40000 /\ Unit(Total)' = Total * 40000
  BY <1>3, <1>4, UnitIs DEF Unit, One
<1>6. VerdictInv'
  <2>1. keyAt <= k => probs # {}
    BY DEF VerdictInv
  <2>2. Unit(Total) < caliber * Count \/ caliber * Count <= Unit(Total)
    BY <1>4, <1>5
  <2>3. (caliber * Count)' = caliber * Count
    BY <1>3
  <2>4. CASE Unit(Total) < caliber * Count
    BY <1>1, <1>5, <2>3, <2>4 DEF VerdictInv
  <2>5. CASE ~ (Unit(Total) < caliber * Count)
    BY <1>1, <1>5, <2>1, <2>2, <2>3, <2>5 DEF VerdictInv
  <2> QED  BY <2>4, <2>5
<1> QED  BY <1>2, <1>6

LEMMA StutterCompares == ASSUME CompareInv, UNCHANGED vars PROVE CompareInv'
BY DEF CompareInv, vars, TypeOK, ProbsInv, VerdictInv, Candidates, Total, Count, Unit

\* Whatever the probabilities of the pairs are, the kept and the qualified ones
\* stay in step and the verdict is the one of their averages (disambiguate_by_set).
THEOREM CompareInvariant == Spec => []CompareInv
<1>1. Init => CompareInv
  BY InitCompares
<1>2. CompareInv /\ [Next]_vars => CompareInv'
  <2> SUFFICES ASSUME CompareInv, [Next]_vars PROVE CompareInv'
    OBVIOUS
  <2>1. CASE Screen
    BY <2>1, ScreenKeeps
  <2>2. CASE PairVetoed
    BY <2>2, PairVetoedKeeps
  <2>3. CASE PairUnknown
    BY <2>3, PairUnknownKeeps
  <2>4. CASE \E p \in Levels : PairProbable(p)
    BY <2>4, PairProbableKeeps
  <2>5. CASE Decide
    BY <2>5, DecideKeeps
  <2>6. CASE UNCHANGED vars
    BY <2>6, StutterCompares
  <2> QED  BY <2>1, <2>2, <2>3, <2>4, <2>5, <2>6 DEF Next, Returned
<1> QED  BY <1>1, <1>2, PTL DEF Spec

-----------------------------------------------------------------------------
(* The verdict.                                                            *)

\* More qualified pairs than places mean a merge; no qualified pair means none.
LEMMA VerdictOfAverages == ASSUME CompareInv PROVE VerdictFollows
<1> USE DEF CompareInv
<1>1. /\ Candidates \in Nat \ {0} /\ Cardinality(probs) \in Nat
      /\ qualified \in Nat /\ cumulative \in Nat /\ caliber \in Nat
  BY SizesPositive, ProbsFinite DEF TypeOK
<1>2. ASSUME pc = "differ", k = m * n, ~ (qualified <= Candidates) PROVE FALSE
  <2>1. qualified > Cardinality(probs)
    BY <1>1, <1>2 DEF ProbsInv
  <2>2. Total = cumulative /\ Count = qualified
    BY <2>1 DEF Total, Count
  <2>3. Unit(cumulative) < caliber * qualified /\ caliber * qualified <= Unit(cumulative)
    BY <1>2, <2>2 DEF VerdictInv, ProbsInv
  <2> QED  BY <1>1, <2>3, UnitIs
<1>3. ASSUME pc = "merge", ~ (qualified > 0) PROVE FALSE
  <2>1. qualified = 0 /\ probs # {} /\ caliber * Count <= Unit(Total)
    BY <1>1, <1>3 DEF VerdictInv
  <2>2. Cardinality(probs) \in Nat /\ Cardinality(probs) > 0
    BY <2>1, ProbsFinite
  <2>3. Total = SumFunction([x \in probs |-> x]) /\ Count = Cardinality(probs)
    BY <2>1, <2>2 DEF Total, Count
  <2>4. \A x \in probs : x \in Nat /\ x * 40000 < caliber
    BY <2>1, ProbsFinite, UnitIs DEF ProbsInv
  <2>5. caliber > 0
    BY <1>1, <2>1, <2>4
  <2> DEFINE h == (caliber - 1) \div 40000
             sum == SumFunction([x \in probs |-> x])
             card == Cardinality(probs)
  <2>6. h \in Nat /\ h * 40000 < caliber
    BY <1>1, <2>5
  <2>7. \A x \in probs : x <= h
    BY <1>1, <2>4
  <2> HIDE DEF h
  <2>8. sum \in Nat /\ sum <= h * card
    BY <2>6, <2>7, SumOfProbs
  <2>9. card \in Nat /\ card > 0 /\ caliber * card <= sum * 40000
    BY <2>1, <2>2, <2>3, UnitIs
  <2> HIDE DEF sum, card
  <2>10. h * card \in Nat /\ (h * 40000) * card = (h * card) * 40000
    BY <2>6, <2>9
  <2>11. (h * 40000) * card < caliber * card
    <3> DEFINE x == h * 40000
    <3>1. x \in Nat /\ x < caliber
      BY <2>6
    <3> HIDE DEF x
    <3>2. x * card < caliber * card
      BY <1>1, <2>9, <3>1
    <3> QED  BY <3>2 DEF x
  <2>12. sum * 40000 <= (h * card) * 40000
    BY <2>8, <2>10
  <2>13. caliber * card \in Nat
    BY <1>1, <2>9
  <2> QED  BY <2>8, <2>9, <2>10, <2>11, <2>12, <2>13
<1> QED  BY <1>1, <1>2, <1>3 DEF VerdictFollows

\* If more than candidates_for_averaging pairs reach the threshold the clusters
\* merge, and they never merge when no pair does (disambiguate_by_set).
THEOREM VerdictProved == Spec => []VerdictFollows
BY CompareInvariant, VerdictOfAverages, PTL

-----------------------------------------------------------------------------
(* The new cohesion.                                                       *)

\* An average of a, b and t / c, weighted with u, v and w, times c.
Mean(a, b, c, t, u, v, w) == (a * u + b * v) * c + t * w

LEMMA MeanBelow ==
  ASSUME NEW a \in Nat, a <= 100, NEW b \in Nat, b <= 100, NEW c \in Nat, NEW t \in Nat,
         t <= 100 * c, NEW u \in Nat, NEW v \in Nat, NEW w \in Nat
  PROVE  Mean(a, b, c, t, u, v, w) <= 100 * (c * (u + v + w))
<1>1. a * u <= 100 * u /\ b * v <= 100 * v /\ a * u \in Nat /\ b * v \in Nat
  OBVIOUS
<1> DEFINE x == a * u
           y == b * v
<1>2. x \in Nat /\ y \in Nat /\ x + y <= 100 * u + 100 * v
  BY <1>1
<1>3. Mean(a, b, c, t, u, v, w) = (x + y) * c + t * w
  BY DEF Mean
<1> HIDE DEF x, y
<1>4. (x + y) * c <= (100 * u + 100 * v) * c
  BY <1>2
<1>5. t * w <= (100 * c) * w
  OBVIOUS
<1>6. (100 * u + 100 * v) * c + (100 * c) * w = 100 * (c * (u + v + w))
  OBVIOUS
<1>7. /\ (x + y) * c \in Nat /\ t * w \in Nat
      /\ (100 * u + 100 * v) * c \in Nat /\ (100 * c) * w \in Nat
  BY <1>2
<1> QED  BY <1>3, <1>4, <1>5, <1>6, <1>7

\* If the third is the lowest of the three, the average is not below it.
LEMMA MeanAbove ==
  ASSUME NEW a \in Nat, NEW b \in Nat, NEW c \in Nat, NEW t \in Nat,
         t <= a * c, t <= b * c, NEW u \in Nat, NEW v \in Nat, NEW w \in Nat
  PROVE  t * (u + v + w) <= Mean(a, b, c, t, u, v, w)
<1> DEFINE ac == a * c
           bc == b * c
<1>1. ac \in Nat /\ bc \in Nat /\ t <= ac /\ t <= bc
  OBVIOUS
<1>2. Mean(a, b, c, t, u, v, w) = ac * u + bc * v + t * w
  BY DEF Mean
<1> HIDE DEF ac, bc
<1>3. t * u <= ac * u /\ t * v <= bc * v
  BY <1>1
<1>4. t * (u + v + w) = t * u + t * v + t * w
  OBVIOUS
<1>5. /\ t * u \in Nat /\ t * v \in Nat /\ t * w \in Nat
      /\ ac * u \in Nat /\ bc * v \in Nat
  BY <1>1
<1> QED  BY <1>2, <1>3, <1>4, <1>5

\* If the first is the lowest of the three, the average is not below it.
LEMMA MeanAboveFirst ==
  ASSUME NEW a \in Nat, NEW b \in Nat, NEW c \in Nat, NEW t \in Nat,
         a <= b, a * c <= t, NEW u \in Nat, NEW v \in Nat, NEW w \in Nat
  PROVE  a * (c * (u + v + w)) <= Mean(a, b, c, t, u, v, w)
<1> DEFINE ac == a * c
           bc == b * c
<1>1. ac \in Nat /\ bc \in Nat /\ ac <= t /\ ac <= bc
  OBVIOUS
<1>2. /\ Mean(a, b, c, t, u, v, w) = ac * u + bc * v + t * w
      /\ a * (c * (u + v + w)) = ac * u + ac * v + ac * w
  BY DEF Mean
<1> HIDE DEF ac, bc
<1>3. ac * v <= bc * v /\ ac * w <= t * w
  BY <1>1
<1>4. /\ ac * u \in Nat /\ ac * v \in Nat /\ ac * w \in Nat
      /\ bc * v \in Nat /\ t * w \in Nat
  BY <1>1
<1> QED  BY <1>2, <1>3, <1>4

LEMMA CohesionOfAverages == ASSUME CompareInv PROVE CohesionInRange
<1> SUFFICES ASSUME pc = "merge" PROVE CohesionInRange
  BY DEF CohesionInRange
<1> USE DEF CompareInv
<1> DEFINE u == m * (m - 1)
           v == n * (n - 1)
           w == 2 * (m * n)
           mean == Mean(c1, c2, Count, Total, u, v, w)
           den == Count * Ordered
<1>1. m \in Nat \ {0} /\ n \in Nat \ {0}
  BY SizesPositive
<1>2. u \in Nat /\ v \in Nat /\ w \in Nat /\ Ordered = u + v + w
  <2>1. m - 1 \in Nat /\ n - 1 \in Nat
    BY <1>1
  <2>2. u \in Nat /\ v \in Nat /\ w \in Nat
    BY <1>1, <2>1
  <2>3. (m + n) * (m + n - 1) = u + v + w
    BY <1>1
  <2> QED  BY <2>2, <2>3 DEF Ordered
<1>3. Total \in Nat /\ Count \in Nat /\ Total <= 100 * Count
  BY AverageIs
<1>4. c1 \in Nat /\ c1 <= 100 /\ c2 \in Nat /\ c2 <= 100 /\ caliber \in Nat
  BY DEF TypeOK
<1>5. Cohesion = mean
  <2>1. 2 * Total * m * n = Total * (2 * (m * n))
    BY <1>1, <1>3
  <2>2. (c1 * m * (m - 1) + c2 * n * (n - 1)) = c1 * u + c2 * v
    BY <1>1, <1>4
  <2> QED  BY <2>1, <2>2 DEF Cohesion, Mean
<1>6. caliber * Count <= Total * 40000
  BY <1>3, UnitIs DEF VerdictInv
<1> HIDE DEF u, v, w
<1>7. mean <= 100 * den
  BY <1>2, <1>3, <1>4, MeanBelow
<1>8. mean \in Nat /\ den \in Nat
  <2>1. mean \in Nat
    BY <1>2, <1>3, <1>4 DEF Mean
  <2> QED  BY <1>2, <1>3, <2>1
<1>9. CASE c1 <= c2 /\ c1 * Count <= Total
  <2>1. c1 * den <= mean
    BY <1>2, <1>3, <1>4, <1>9, MeanAboveFirst
  <2> QED  BY <1>5, <1>7, <2>1 DEF CohesionInRange
<1>10. CASE c2 <= c1 /\ c2 * Count <= Total
  <2>1. c2 * (Count * (v + u + w)) <= Mean(c2, c1, Count, Total, v, u, w)
    BY <1>2, <1>3, <1>4, <1>10, MeanAboveFirst
  <2>2. c2 * den <= mean
    <3>1. mean = Mean(c2, c1, Count, Total, v, u, w)
      <4> DEFINE p == c1 * u
                 q == c2 * v
      <4>1. p \in Nat /\ q \in Nat
        BY <1>2, <1>4
      <4>2. /\ mean = (p + q) * Count + Total * w
            /\ Mean(c2, c1, Count, Total, v, u, w) = (q + p) * Count + Total * w
        BY DEF Mean
      <4> HIDE DEF p, q
      <4>3. p + q = q + p
        BY <4>1
      <4> QED  BY ONLY <4>2, <4>3
    <3>2. v + u + w = u + v + w
      BY <1>2
    <3>3. den = Count * (v + u + w)
      BY <1>2, <3>2
    <3> QED  BY <2>1, <3>1, <3>3
  <2> QED  BY <1>5, <1>7, <2>2 DEF CohesionInRange
<1>11. CASE Total <= c1 * Count /\ Total <= c2 * Count
  <2>1. Total * (u + v + w) <= mean
    BY <1>2, <1>3, <1>4, <1>11, MeanAbove
  <2> DEFINE s == u + v + w
             t == Total
             c == Count
             x == mean
  <2>2. s \in Nat /\ t \in Nat /\ c \in Nat /\ x \in Nat /\ caliber * c <= t * 40000 /\ t * s <= x
    BY <1>2, <1>3, <1>6, <1>8, <2>1
  <2>3. den = c * s
    BY <1>2
  <2> HIDE DEF s, t, c, x
  <2>4. (caliber * c) * s <= (t * 40000) * s
    <3> DEFINE y == caliber * c
               z == t * 40000
    <3>1. y \in Nat /\ z \in Nat /\ y <= z
      BY <1>4, <2>2
    <3> HIDE DEF y, z
    <3>2. y * s <= z * s
      BY <2>2, <3>1
    <3> QED  BY <3>2 DEF y, z
  <2>5. /\ (caliber * c) * s = caliber * (c * s)
        /\ (t * 40000) * s = (t * s) * 40000
    BY <1>4, <2>2
  <2>6. caliber * (c * s) <= x * 40000
    <3>1. t * s \in Nat /\ caliber * (c * s) \in Nat
      BY <1>4, <2>2
    <3>2. (t * s) * 40000 <= x * 40000
      BY <2>2, <3>1
    <3> QED  BY <2>2, <2>4, <2>5, <3>1, <3>2
  <2>7. caliber * den <= Unit(Cohesion)
    BY <1>5, <2>3, <2>6, UnitIs DEF x
  <2> QED  BY <1>5, <1>7, <2>7 DEF CohesionInRange
<1>12. \/ c1 <= c2 /\ c1 * Count <= Total
       \/ c2 <= c1 /\ c2 * Count <= Total
       \/ Total <= c1 * Count /\ Total <= c2 * Count
  <2> DEFINE x == c1 * Count
             y == c2 * Count
  <2>1. x \in Nat /\ y \in Nat /\ (c1 <= c2 => x <= y) /\ (c2 <= c1 => y <= x)
    BY <1>3, <1>4
  <2> HIDE DEF x, y
  <2>2. \/ c1 <= c2 /\ x <= Total
        \/ c2 <= c1 /\ y <= Total
        \/ Total <= x /\ Total <= y
    BY <1>3, <1>4, <2>1
  <2> QED  BY <2>2 DEF x, y
<1> QED  BY <1>9, <1>10, <1>11, <1>12

\* The cohesion given to a merged cluster is at most 1 and not below the lowest of
\* the two cohesions and the threshold (disambiguate_by_set).
THEOREM CohesionProved == Spec => []CohesionInRange
BY CompareInvariant, CohesionOfAverages, PTL
=============================================================================
