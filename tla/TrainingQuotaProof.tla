-------------------------- MODULE TrainingQuotaProof --------------------------
(***************************************************************************)
(* The quota of a training set is conserved, for every list of blocks and  *)
(* every limit, from the inductive invariant QuotaInv; a set holds no pair *)
(* twice; the second round gives out the quota that is left as far as the  *)
(* blocks have pairs and quotas for it; and the two sets are made in       *)
(* finitely many steps.                                                    *)
(***************************************************************************)
EXTENDS TrainingQuota, DataTheorems

USE QuotaAssumption

-----------------------------------------------------------------------------
(* Arithmetic.                                                             *)

LEMMA Inputs ==
  ASSUME size \in Shapes, total \in Quotas
  PROVE  /\ size \in [Blocks -> Nat \ {0}]
         /\ total \in Nat /\ 2 * total < Modulus
         /\ NumBlocks \in Nat /\ Modulus \in Nat
         /\ Last = NumBlocks + 1
         /\ \A b \in Blocks : /\ b \in Nat /\ 1 <= b /\ b < Last
                              /\ b \in Sums /\ b - 1 \in Sums
                              /\ End(b) \in Nat /\ End(b) >= 2
                              /\ Weight(b) \in Nat
         /\ NumBlocks \in Sums /\ 0 \in Sums
<1>1. size \in [Blocks -> Nat \ {0}]
  OBVIOUS
<1>2. \A b \in Blocks : Weight(b) \in Nat
  <2> TAKE b \in Blocks
  <2>1. size[b] \in Nat /\ size[b] - 1 \in Nat
    BY <1>1
  <2>2. \A m, n \in Nat : m * n \in Nat
    OBVIOUS
  <2> QED  BY <2>1, <2>2 DEF Weight
<1> QED  BY <1>1, <1>2 DEF Last, Blocks, Sums, End

LEMMA WrapNothing ==
  ASSUME size \in Shapes, total \in Quotas, NEW x \in 0 .. total
  PROVE  Wrap(x) = x
BY Inputs DEF Wrap

\* A block's quota keeps the sum of the quotas within the share of the weights.
LEMMA ShareStep ==
  ASSUME NEW s \in Nat, NEW q \in Nat, NEW d \in Nat, NEW t \in Nat, NEW w \in Nat, NEW v \in Nat,
         s * d <= t * w, q * d <= t * v
  PROVE  (s + q) * d <= t * (w + v)
<1>1. (s + q) * d = s * d + q * d /\ t * (w + v) = t * w + t * v
  OBVIOUS
<1>2. s * d \in Nat /\ q * d \in Nat /\ t * w \in Nat /\ t * v \in Nat
  OBVIOUS
<1> QED  BY <1>1, <1>2

LEMMA Cancel ==
  ASSUME NEW a \in Nat, NEW b \in Nat, NEW d \in Nat, d # 0, a * d <= b * d
  PROVE  a <= b
<1> SUFFICES ASSUME b + 1 <= a PROVE FALSE
  OBVIOUS
<1>1. PICK k \in Nat : a = b + 1 + k
  <2>1. a - (b + 1) \in Nat /\ a = b + 1 + (a - (b + 1))
    OBVIOUS
  <2> QED  BY <2>1
<1>2. a * d = b * d + d + k * d
  BY <1>1
<1>3. k * d \in Nat /\ b * d \in Nat
  OBVIOUS
<1> QED  BY <1>2, <1>3

-----------------------------------------------------------------------------
(* The sums.                                                               *)

LEMMA InitInv == Init => QuotaInv
<1> SUFFICES ASSUME Init PROVE QuotaInv
  OBVIOUS
<1> USE Inputs DEF Init
<1>1. TypeOK
  <2>1. /\ <<>> \in Seq([set : {1, 2}, block : Blocks, fst : Nat, snd : Nat])
        /\ Len(<<>>) = 0
    OBVIOUS
  <2>2. 1 \in 1 .. Last /\ 0 \in 0 .. total /\ \A b \in Blocks : 0 <= End(b)
    OBVIOUS
  <2>3. /\ quota \in [Blocks -> 0 .. total] /\ used \in [Blocks -> 0 .. total]
        /\ outer \in [Blocks -> Nat] /\ inner \in [Blocks -> Nat]
        /\ weightTo \in [Sums -> Nat] /\ quotaTo \in [Sums -> Nat]
    BY <2>2
  <2>4. \A b \in Blocks : outer[b] <= End(b) /\ inner[b] <= End(b)
    BY <2>2
  <2>5. Len(chosen) <= total /\ chosen \in Seq([set : {1, 2}, block : Blocks, fst : Nat, snd : Nat])
    BY <2>1, <2>2
  <2> QED  BY <2>2, <2>3, <2>4, <2>5 DEF TypeOK
<1>2. SumInv
  <2>1. 0 * Distributor = 0 /\ total * 0 = 0
    BY DEF Distributor
  <2> QED  BY <2>1 DEF SumInv, WeighedTo, AssignedTo, Sums
<1>3. ShareInv /\ QuotaConserved
  BY DEF ShareInv, Untouched, Settled, InBlocks, QuotaConserved
<1> QED  BY <1>1, <1>2, <1>3 DEF QuotaInv

\* Once the quotas are given out the sums no longer change.
LEMMA SumsKept ==
  ASSUME SumInv, UNCHANGED <<input, shares>>,
         pc \notin {"weigh", "assign"}, pc' \notin {"weigh", "assign"}
  PROVE  SumInv'
BY DEF SumInv, WeighedTo, AssignedTo, Distributor, Weight, input, shares

LEMMA WeighInv == QuotaInv /\ Weigh => QuotaInv'
<1> SUFFICES ASSUME QuotaInv, Weigh PROVE QuotaInv'
  OBVIOUS
<1>0. /\ p \in Blocks /\ p - 1 \in Sums /\ p \in Sums /\ p' = p + 1
      /\ weightTo \in [Sums -> Nat] /\ Weight(p) \in Nat
  <2>1. p \in Blocks
    BY DEF QuotaInv, TypeOK, Weigh, Blocks, Last
  <2> QED  BY <2>1, Inputs DEF QuotaInv, TypeOK, Weigh
<1>1. TypeOK'
  <2>1. p + 1 \in 1 .. Last
    BY <1>0 DEF Blocks, Last
  <2>2. weightTo' \in [Sums -> Nat]
    BY <1>0 DEF Weigh
  <2> QED  BY <1>0, <2>1, <2>2 DEF QuotaInv, TypeOK, Weigh, input, cursors, End
<1>2. SumInv'
  <2>1. \A b \in Blocks : b < p + 1 => weightTo'[b] = weightTo'[b - 1] + Weight(b)
    <3> SUFFICES ASSUME NEW b \in Blocks, b < p + 1
                 PROVE  weightTo'[b] = weightTo'[b - 1] + Weight(b)
      OBVIOUS
    <3>1. b \in Nat /\ b \in Sums /\ b - 1 \in Sums /\ b - 1 # p /\ p \in Nat
      BY <1>0, Inputs DEF QuotaInv, TypeOK
    <3>2. CASE b = p
      BY <1>0, <3>1, <3>2 DEF Weigh
    <3>3. CASE b < p
      BY <1>0, <3>1, <3>3 DEF QuotaInv, SumInv, Weigh, WeighedTo
    <3> QED  BY <3>1, <3>2, <3>3
  <2>2. weightTo'[0] = 0 /\ quotaTo' = quotaTo /\ quotaTo[0] = 0 /\ quota' = quota
    BY <1>0, Inputs DEF QuotaInv, TypeOK, SumInv, Weigh, Blocks
  <2>3. \A n \in Sums : n < 1 => n = 0
    BY DEF Sums
  <2>4. Distributor' \in Nat /\ 0 * Distributor' = 0 /\ total' * 0 = 0
    BY <1>1, Inputs DEF TypeOK, Distributor, Weigh, input, QuotaInv
  <2>5. pc = "weigh" /\ pc' = "weigh" /\ \A b \in Blocks : Weight(b)' = Weight(b)
    BY DEF Weigh, Weight, input
  <2>6. \A b \in Blocks : ~(b < 1)
    BY DEF Blocks
  <2> QED  BY <1>0, <2>1, <2>2, <2>3, <2>4, <2>5, <2>6 DEF SumInv, WeighedTo, AssignedTo
<1>3. ShareInv'
  BY DEF QuotaInv, ShareInv, Untouched, Settled, InBlocks, Weigh
<1>4. QuotaConserved'
  BY DEF QuotaConserved, Weigh
<1> QED  BY <1>1, <1>2, <1>3, <1>4 DEF QuotaInv

LEMMA WeighDoneInv == QuotaInv /\ WeighDone => QuotaInv'
<1> SUFFICES ASSUME QuotaInv, WeighDone PROVE QuotaInv'
  OBVIOUS
<1>1. TypeOK'
  BY Inputs DEF QuotaInv, TypeOK, WeighDone, input, cursors, shares, End
<1>2. SumInv'
  BY DEF QuotaInv, SumInv, WeighDone, WeighedTo, AssignedTo, Distributor, Weight, input, shares
<1>3. ShareInv'
  <2>1. \A b \in Blocks : ~(b < 1)
    BY DEF Blocks
  <2> QED  BY <2>1 DEF QuotaInv, ShareInv, Untouched, Settled, InBlocks, WeighDone
<1>4. QuotaConserved'
  BY DEF QuotaConserved, WeighDone
<1> QED  BY <1>1, <1>2, <1>3, <1>4 DEF QuotaInv

LEMMA AssignInv == QuotaInv /\ AssignQuota => QuotaInv'
<1> SUFFICES ASSUME QuotaInv, AssignQuota PROVE QuotaInv'
  OBVIOUS
<1>0. /\ p \in Blocks /\ p - 1 \in Sums /\ p \in Sums /\ p' = p + 1
      /\ quotaTo \in [Sums -> Nat] /\ weightTo \in [Sums -> Nat]
      /\ Weight(p) \in Nat /\ total \in Nat /\ Distributor \in Nat
  <2>1. p \in Blocks
    BY DEF QuotaInv, TypeOK, AssignQuota, Blocks, Last
  <2> QED  BY <2>1, Inputs DEF QuotaInv, TypeOK, AssignQuota, Distributor
<1>1. PICK q \in QuotaOf(p) : /\ quota' = [quota EXCEPT ![p] = q]
                              /\ quotaTo' = [quotaTo EXCEPT ![p] = quotaTo[p - 1] + q]
  BY DEF AssignQuota
<1>2. q \in 0 .. total /\ q * Distributor <= total * Weight(p) /\ (Distributor = 0 => q = 0)
  <2>1. 0 <= total * Weight(p) /\ 0 * Distributor = 0 /\ 0 \in 0 .. total
    BY <1>0
  <2> QED  BY <1>1, <2>1 DEF QuotaOf
<1>3. TypeOK'
  <2>1. p + 1 \in 1 .. Last
    BY <1>0 DEF Blocks, Last
  <2>2. quotaTo' \in [Sums -> Nat] /\ quota' \in [Blocks -> 0 .. total]
    BY <1>0, <1>1, <1>2 DEF QuotaInv, TypeOK
  <2>3. used' \in [Blocks -> 0 .. total]
    BY <1>0 DEF QuotaInv, TypeOK, AssignQuota
  <2>4. /\ outer' \in [Blocks -> Nat] /\ inner' \in [Blocks -> Nat]
        /\ \A b \in Blocks : outer'[b] <= End(b) /\ inner'[b] <= End(b)
    <3>1. \A b \in Blocks : 1 <= End(b) /\ 2 <= End(b)
      BY Inputs DEF QuotaInv, TypeOK
    <3>2. /\ outer \in [Blocks -> Nat] /\ inner \in [Blocks -> Nat]
          /\ \A b \in Blocks : outer[b] <= End(b) /\ inner[b] <= End(b)
          /\ outer' = [outer EXCEPT ![p] = 1] /\ inner' = [inner EXCEPT ![p] = 2]
      BY DEF QuotaInv, TypeOK, AssignQuota
    <3> QED  BY <1>0, <3>1, <3>2
  <2> QED  BY <1>0, <2>1, <2>2, <2>3, <2>4 DEF QuotaInv, TypeOK, AssignQuota, input, End
<1>4. SumInv'
  <2>1. AssignedTo = p /\ AssignedTo' = p + 1 /\ WeighedTo = Last /\ WeighedTo' = Last
    BY <1>0 DEF AssignQuota, AssignedTo, WeighedTo
  <2>2. weightTo' = weightTo /\ Distributor' = Distributor /\ total' = total
        /\ \A b \in Blocks : Weight(b)' = Weight(b)
    BY DEF AssignQuota, Distributor, Weight, input
  <2>3. quotaTo'[p] = quotaTo[p - 1] + q /\ \A n \in Sums : n # p => quotaTo'[n] = quotaTo[n]
    BY <1>0, <1>1
  <2>4. quotaTo'[0] = 0
    <3>1. quotaTo[0] = 0
      BY DEF QuotaInv, SumInv
    <3>2. 0 \in Sums /\ p # 0
      BY <1>0, Inputs DEF Sums, Blocks
    <3> QED  BY <2>3, <3>1, <3>2
  <2>5. \A b \in Blocks : b < p + 1 => quotaTo'[b] = quotaTo'[b - 1] + quota'[b]
    <3> SUFFICES ASSUME NEW b \in Blocks, b < p + 1
                 PROVE  quotaTo'[b] = quotaTo'[b - 1] + quota'[b]
      OBVIOUS
    <3>1. b \in Nat /\ b \in Sums /\ b - 1 \in Sums /\ b - 1 # p /\ p \in Nat
      BY <1>0, Inputs DEF QuotaInv, TypeOK
    <3>2. CASE b = p
      BY <1>0, <1>1, <2>3, <3>1, <3>2 DEF QuotaInv, TypeOK
    <3>3. CASE b < p
      BY <1>0, <1>1, <2>1, <2>3, <3>1, <3>3 DEF QuotaInv, SumInv, TypeOK
    <3> QED  BY <3>1, <3>2, <3>3
  <2>6. \A n \in Sums : n < p + 1 => quotaTo'[n] <= quotaTo'[p]
    <3> SUFFICES ASSUME NEW n \in Sums, n < p + 1, n # p PROVE quotaTo'[n] <= quotaTo'[p]
      BY <1>0, <1>2, <2>3
    <3>1. n < p /\ quotaTo[n] <= quotaTo[p - 1]
      BY <1>0, <2>1 DEF QuotaInv, SumInv, Sums
    <3> QED  BY <1>0, <1>2, <2>3, <3>1
  <2>7. weightTo[p] = weightTo[p - 1] + Weight(p)
    BY <1>0, <2>1, Inputs DEF QuotaInv, SumInv, TypeOK
  <2>8. quotaTo'[p] * Distributor <= total * weightTo[p]
    <3>1. quotaTo[p - 1] * Distributor <= total * weightTo[p - 1]
      BY <2>1 DEF QuotaInv, SumInv
    <3>2. q \in Nat /\ quotaTo[p - 1] \in Nat /\ weightTo[p - 1] \in Nat
      BY <1>0, <1>2
    <3> HIDE DEF Distributor
    <3> QED  BY <1>0, <1>2, <2>3, <2>7, <3>1, <3>2, ShareStep
  <2>9. Distributor = 0 => quotaTo'[p] = 0
    BY <1>0, <1>2, <2>1, <2>3 DEF QuotaInv, SumInv
  <2>10. p + 1 - 1 = p /\ weightTo[0] = 0
         /\ \A b \in Blocks : b < Last => weightTo[b] = weightTo[b - 1] + Weight(b)
    BY <1>0, <2>1 DEF QuotaInv, SumInv, Blocks
  <2>11. \A b \in Blocks : b < WeighedTo' => weightTo'[b] = weightTo'[b - 1] + Weight(b)'
    BY <2>1, <2>2, <2>10
  <2>12. AssignedTo' - 1 = p
    <3> HIDE DEF AssignedTo
    <3> QED  BY <1>0, <2>1, Inputs DEF QuotaInv, TypeOK
  <2>13. quotaTo'[AssignedTo' - 1] * Distributor' <= total' * weightTo'[AssignedTo' - 1]
    BY <2>2, <2>8, <2>12
  <2>14. \A b \in Blocks : b < AssignedTo' => quotaTo'[b] = quotaTo'[b - 1] + quota'[b]
    BY <2>1, <2>5
  <2>15. \A n \in Sums : n < AssignedTo' => quotaTo'[n] <= quotaTo'[AssignedTo' - 1]
    BY <2>1, <2>6, <2>12
  <2>16. Distributor' = 0 => quotaTo'[AssignedTo' - 1] = 0
    BY <2>2, <2>9, <2>12
  <2> QED  BY <2>2, <2>4, <2>10, <2>11, <2>13, <2>14, <2>15, <2>16 DEF SumInv
<1>5. ShareInv'
  <2>1. \A b \in Blocks : b < p + 1 => used'[b] = 0 /\ outer'[b] = 1
    <3>1. used' = [used EXCEPT ![p] = 0] /\ outer' = [outer EXCEPT ![p] = 1] /\ pc = "assign"
      BY DEF AssignQuota
    <3>2. \A b \in Blocks : b < p => used[b] = 0 /\ outer[b] = 1
      BY <3>1 DEF QuotaInv, ShareInv, Untouched
    <3> QED  BY <1>0, <3>1, <3>2, Inputs DEF QuotaInv, TypeOK
  <2> QED  BY <1>0, <2>1 DEF QuotaInv, ShareInv, Untouched, Settled, InBlocks, AssignQuota
<1>6. QuotaConserved'
  BY DEF QuotaConserved, AssignQuota
<1> QED  BY <1>3, <1>4, <1>5, <1>6 DEF QuotaInv

\* All the quotas together are no more than the limit.
LEMMA QuotasWithinTotal ==
  ASSUME TypeOK, SumInv, pc # "weigh", pc = "assign" => p = Last
  PROVE  quotaTo[NumBlocks] \in 0 .. total
<1>1. AssignedTo = NumBlocks + 1
  BY DEF AssignedTo, Last
<1>2. quotaTo[NumBlocks] * Distributor <= total * Distributor
      /\ (Distributor = 0 => quotaTo[NumBlocks] = 0)
  BY <1>1, Inputs DEF SumInv, Distributor
<1>3. quotaTo[NumBlocks] \in Nat /\ Distributor \in Nat /\ total \in Nat
  BY Inputs DEF TypeOK, Distributor
<1>4. CASE Distributor = 0
  BY <1>2, <1>3, <1>4
<1>5. CASE Distributor # 0
  BY <1>2, <1>3, <1>5, Cancel
<1> QED  BY <1>4, <1>5

LEMMA ResetDoneInv == QuotaInv /\ ResetDone => QuotaInv'
<1> SUFFICES ASSUME QuotaInv, ResetDone PROVE QuotaInv'
  OBVIOUS
<1>0. quotaTo[NumBlocks] \in 0 .. total /\ total \in Nat /\ left' = total - quotaTo[NumBlocks]
  <2>1. quotaTo[NumBlocks] \in 0 .. total /\ total \in Nat
    BY QuotasWithinTotal, Inputs DEF QuotaInv, ResetDone, TypeOK
  <2> QED  BY <2>1, WrapNothing DEF QuotaInv, ResetDone, TypeOK
<1>1. TypeOK'
  <2>1. left' \in 0 .. total
    BY <1>0
  <2> QED  BY <2>1 DEF QuotaInv, TypeOK, ResetDone, input, cursors, shares, End
<1>2. SumInv'
  BY DEF QuotaInv, SumInv, ResetDone, WeighedTo, AssignedTo, Distributor, Weight, input, shares
<1>3. ShareInv'
  BY <1>0, Inputs DEF QuotaInv, TypeOK, ShareInv, Untouched, Settled, InBlocks, ResetDone,
     input, shares, cursors
<1>4. QuotaConserved'
  BY DEF QuotaConserved, ResetDone
<1> QED  BY <1>1, <1>2, <1>3, <1>4 DEF QuotaInv

-----------------------------------------------------------------------------
(* create_set.                                                             *)

LEMMA CreateSetInv == QuotaInv /\ CreateSet => QuotaInv'
<1> SUFFICES ASSUME QuotaInv, CreateSet PROVE QuotaInv'
  OBVIOUS
<1>0. /\ quotaTo[NumBlocks] \in 0 .. total /\ total \in Nat /\ quotaTo[0] = 0
      /\ left = total - quotaTo[NumBlocks] /\ chosen = <<>> /\ 1 \in 1 .. Last /\ 0 \in 0 .. total
  BY QuotasWithinTotal, Inputs DEF QuotaInv, TypeOK, SumInv, ShareInv, CreateSet
<1>1. TypeOK'
  BY <1>0 DEF QuotaInv, TypeOK, CreateSet, input, cursors, shares, End
<1>2. SumInv'
  BY SumsKept DEF QuotaInv, CreateSet
<1>3. ShareInv'
  <2>1. \A b \in Blocks : used[b] = 0 /\ outer[b] = 1 /\ ~(b < 1) /\ 0 <= quota[b]
    BY Inputs DEF QuotaInv, TypeOK, ShareInv, Untouched, CreateSet
  <2> QED  BY <1>0, <2>1 DEF ShareInv, Untouched, Settled, InBlocks, AtEnd, IsFull, CreateSet,
            shares, cursors
<1>4. QuotaConserved'
  BY <1>0 DEF QuotaConserved, Promised, CreateSet, input, shares
<1> QED  BY <1>1, <1>2, <1>3, <1>4 DEF QuotaInv

LEMMA SkipBlockInv == QuotaInv /\ SkipBlock => QuotaInv'
<1> SUFFICES ASSUME QuotaInv, SkipBlock PROVE QuotaInv'
  OBVIOUS
<1>0. p \in Blocks /\ p + 1 \in 1 .. Last /\ (p + 1) - 1 = p
  BY DEF QuotaInv, TypeOK, SkipBlock, Blocks, Last
<1>1. TypeOK'
  BY <1>0 DEF QuotaInv, TypeOK, SkipBlock, input, cursors, shares, End
<1>2. SumInv'
  BY SumsKept DEF QuotaInv, SkipBlock
<1>3. ShareInv'
  <2>1. \A b \in Blocks : b < p + 1 <=> (b < p \/ b = p)
    BY <1>0 DEF Blocks
  <2>2. \A b \in Blocks : p + 1 <= b => p <= b /\ b # p
    BY <1>0, Inputs DEF QuotaInv, TypeOK
  <2>3. \A b \in Blocks : Settled(b)' => AtEnd(b) \/ IsFull(b)
    BY <2>1, <2>2 DEF QuotaInv, ShareInv, Settled, InBlocks, SkipBlock
  <2>4. \A b \in Blocks : Untouched(b)' => Untouched(b)
    BY <2>2 DEF Untouched, InBlocks, SkipBlock
  <2> QED  BY <2>3, <2>4 DEF QuotaInv, ShareInv, InBlocks, AtEnd, IsFull, End, SkipBlock,
            shares, cursors, input
<1>4. QuotaConserved'
  <2>1. pass = 1 => quotaTo[p] = quotaTo[p - 1]
    <3> SUFFICES ASSUME pass = 1 PROVE quotaTo[p] = quotaTo[p - 1]
      OBVIOUS
    <3>1. p <= p /\ Untouched(p) /\ 1 # End(p) /\ p < Last
      BY <1>0, Inputs DEF QuotaInv, TypeOK, Untouched, InBlocks, SkipBlock
    <3>2. used[p] = 0 /\ ~AtEnd(p)
      BY <1>0, <3>1 DEF QuotaInv, ShareInv, AtEnd
    <3>3. quota[p] = 0
      BY <3>2 DEF SkipBlock, IsFull
    <3>4. quotaTo[p] = quotaTo[p - 1] + quota[p]
      BY <1>0, <3>1 DEF QuotaInv, SumInv, AssignedTo, SkipBlock
    <3>5. quotaTo[p - 1] \in Nat
      BY <1>0, Inputs DEF QuotaInv, TypeOK
    <3> QED  BY <3>3, <3>4, <3>5
  <2> QED  BY <1>0, <2>1 DEF QuotaInv, QuotaConserved, Promised, SkipBlock, input, shares
<1> QED  BY <1>1, <1>2, <1>3, <1>4 DEF QuotaInv

LEMMA EnterBlockInv == QuotaInv /\ EnterBlock => QuotaInv'
<1> SUFFICES ASSUME QuotaInv, EnterBlock PROVE QuotaInv'
  OBVIOUS
<1>0. /\ p \in Blocks /\ total \in Nat /\ left \in 0 .. total /\ InBlocks
      /\ used \in [Blocks -> 0 .. total] /\ quota \in [Blocks -> 0 .. total] /\ pass \in {1, 2}
  <2>1. p \in Blocks
    BY DEF QuotaInv, TypeOK, EnterBlock, Blocks, Last
  <2> QED  BY <2>1, Inputs DEF QuotaInv, TypeOK, EnterBlock, InBlocks
<1>1. /\ \A b \in Blocks : b # p => used'[b] = used[b]
      /\ pass = 1 => used' = used
      /\ pass = 2 => /\ used'[p] \in 0 .. used[p]
                     /\ used[p] - used'[p] <= left
      /\ used' \in [Blocks -> 0 .. total]
  <2>1. CASE pass = 1
    BY <1>0, <2>1 DEF EnterBlock
  <2>2. CASE pass = 2
    BY <1>0, <2>2 DEF EnterBlock
  <2> QED  BY <1>0, <2>1, <2>2
<1>2. TypeOK'
  BY <1>0, <1>1 DEF QuotaInv, TypeOK, EnterBlock, input, cursors, shares, End
<1>3. SumInv'
  BY SumsKept DEF QuotaInv, EnterBlock
<1>4. ShareInv'
  <2>1. \A b \in Blocks : Untouched(b)' => Untouched(b) /\ b # p /\ pass = 1
    BY DEF Untouched, InBlocks, EnterBlock
  <2>2. \A b \in Blocks : Settled(b)' => Settled(b) /\ (pass = 2 => b # p)
    BY <1>0 DEF Settled, InBlocks, EnterBlock
  <2>3. pass = 1 => used[p] = 0
    BY <1>0, Inputs DEF QuotaInv, TypeOK, ShareInv, Untouched, InBlocks, EnterBlock
  <2>4. pass = 2 => used[p] = quota[p]
    BY <1>0, Inputs DEF QuotaInv, TypeOK, ShareInv, Settled, InBlocks, IsFull, EnterBlock
  <2>5. IF pass = 1 THEN used'[p] = 0 ELSE quota[p] - used'[p] + 0 <= left
    BY <1>0, <1>1, <2>3, <2>4
  <2>6. \A b \in Blocks : used'[b] <= quota[b]
    <3> TAKE b \in Blocks
    <3>1. used[b] <= quota[b]
      BY <1>0 DEF QuotaInv, ShareInv
    <3> QED  BY <1>0, <1>1, <3>1
  <2>7. \A b \in Blocks : Untouched(b)' => used'[b] = 0 /\ outer'[b] = 1
    BY <1>1, <2>1 DEF QuotaInv, ShareInv, EnterBlock, cursors
  <2>8. \A b \in Blocks : Settled(b)' => (AtEnd(b) \/ IsFull(b))'
    BY <1>0, <1>1, <2>2 DEF QuotaInv, ShareInv, AtEnd, IsFull, End, EnterBlock, shares, cursors, input
  <2> QED  BY <1>0, <2>5, <2>6, <2>7, <2>8 DEF ShareInv, EnterBlock, shares
<1>5. QuotaConserved'
  <2>1. Promised' = Promised /\ 0 <= left
    BY <1>0 DEF Promised, EnterBlock, shares
  <2>2. pairs + 0 = pairs
    BY Inputs DEF QuotaInv, TypeOK
  <2> QED  BY <2>1, <2>2 DEF QuotaInv, QuotaConserved, EnterBlock, input
<1> QED  BY <1>2, <1>3, <1>4, <1>5 DEF QuotaInv

-----------------------------------------------------------------------------
(* The functions working on one block.                                     *)

LEMMA Moved ==
  ASSUME TypeOK, p \in Blocks, Advance, inner[p] # End(p)
  PROVE  /\ outer' \in [Blocks -> Nat] /\ inner' \in [Blocks -> Nat]
         /\ \A b \in Blocks : outer'[b] <= End(b) /\ inner'[b] <= End(b)
         /\ \A b \in Blocks : b # p => outer'[b] = outer[b] /\ inner'[b] = inner[b]
         /\ \/ outer'[p] = outer[p] /\ inner'[p] = inner[p] + 1 /\ inner[p] < size[p]
            \/ outer'[p] > outer[p] /\ inner'[p] > outer'[p]
            \/ outer'[p] = End(p) /\ inner'[p] = End(p)
<1>1. /\ size[p] \in Nat /\ End(p) = size[p] + 1
      /\ outer[p] \in Nat /\ inner[p] \in Nat /\ outer[p] <= End(p) /\ inner[p] <= End(p)
  BY Inputs DEF TypeOK, End
<1> DEFINE c == MoveCursor(outer[p], inner[p])
<1>2. /\ c[1] \in Nat /\ c[2] \in Nat /\ c[1] <= End(p) /\ c[2] <= End(p)
      /\ \/ c[1] = outer[p] /\ c[2] = inner[p] + 1 /\ inner[p] < size[p]
         \/ c[1] > outer[p] /\ c[2] > c[1]
         \/ c[1] = End(p) /\ c[2] = End(p)
  BY <1>1 DEF MoveCursor
<1>3. outer' = [outer EXCEPT ![p] = c[1]] /\ inner' = [inner EXCEPT ![p] = c[2]]
  BY DEF Advance
<1> HIDE DEF c
<1>4. outer \in [Blocks -> Nat] /\ inner \in [Blocks -> Nat]
      /\ \A b \in Blocks : outer[b] <= End(b) /\ inner[b] <= End(b)
  BY DEF TypeOK
<1> QED  BY <1>2, <1>3, <1>4

\* What both outcomes of a pair's test leave as it is.
LEMMA PairFrame ==
  ASSUME QuotaInv, AtPair, Advance, UNCHANGED <<input, pc, p, pass, shares>>
  PROVE  /\ p \in Blocks /\ SumInv' /\ Promised' = Promised
         /\ \A b \in Blocks : Untouched(b)' => Untouched(b) /\ b # p /\ outer'[b] = outer[b]
         /\ \A b \in Blocks : Settled(b)' => Settled(b) /\ (pass = 1 => b # p)
         /\ \A b \in Blocks : b # p => outer'[b] = outer[b]
         /\ \A b \in Blocks : Settled(b)' => b # p
<1>1. p \in Blocks
  BY DEF QuotaInv, TypeOK, ShareInv, AtPair, Blocks, Last
<1>2. SumInv' /\ Promised' = Promised
  BY SumsKept DEF QuotaInv, AtPair, Promised, shares
<1>3. \A b \in Blocks : b # p => outer'[b] = outer[b]
  BY <1>1, Moved DEF QuotaInv, AtPair
<1>4. p \in Nat
  BY <1>1, Inputs DEF QuotaInv, TypeOK
<1>5. \A b \in Blocks : Untouched(b)' => Untouched(b) /\ b # p
  BY DEF Untouched, InBlocks, AtPair
<1>6. \A b \in Blocks : Settled(b)' => Settled(b) /\ b # p
  BY <1>4 DEF Settled, InBlocks, AtPair
<1> QED  BY <1>1, <1>2, <1>3, <1>5, <1>6

LEMMA PassPairInv == QuotaInv /\ PassPair => QuotaInv'
<1> SUFFICES ASSUME QuotaInv, PassPair PROVE QuotaInv'
  OBVIOUS
<1>0. /\ p \in Blocks /\ SumInv' /\ Promised' = Promised
      /\ \A b \in Blocks : Untouched(b)' => Untouched(b) /\ b # p /\ outer'[b] = outer[b]
      /\ \A b \in Blocks : Settled(b)' => Settled(b) /\ b # p
      /\ \A b \in Blocks : b # p => outer'[b] = outer[b]
  BY PairFrame DEF PassPair
<1>1. TypeOK'
  BY <1>0, Moved DEF QuotaInv, TypeOK, PassPair, AtPair, input, shares, End
<1>2. ShareInv'
  <2>1. \A b \in Blocks : Untouched(b)' => used'[b] = 0 /\ outer'[b] = 1
    BY <1>0 DEF QuotaInv, ShareInv, PassPair
  <2>2. \A b \in Blocks : Settled(b)' => (AtEnd(b) \/ IsFull(b))'
    BY <1>0 DEF QuotaInv, ShareInv, AtEnd, IsFull, End, PassPair, shares, input
  <2> QED  BY <2>1, <2>2 DEF QuotaInv, ShareInv, InBlocks, PassPair, AtPair, shares
<1>3. QuotaConserved'
  BY <1>0 DEF QuotaInv, QuotaConserved, PassPair, AtPair, input
<1> QED  BY <1>0, <1>1, <1>2, <1>3 DEF QuotaInv

LEMMA TakePairInv == QuotaInv /\ TakePair => QuotaInv'
<1> SUFFICES ASSUME QuotaInv, TakePair PROVE QuotaInv'
  OBVIOUS
<1>0. /\ p \in Blocks /\ SumInv' /\ Promised' = Promised
      /\ \A b \in Blocks : Untouched(b)' => Untouched(b) /\ b # p /\ outer'[b] = outer[b]
      /\ \A b \in Blocks : Settled(b)' => Settled(b) /\ b # p
      /\ \A b \in Blocks : b # p => outer'[b] = outer[b]
  BY PairFrame DEF TakePair
<1>1. /\ used \in [Blocks -> 0 .. total] /\ quota \in [Blocks -> 0 .. total] /\ total \in Nat
      /\ used[p] < quota[p] /\ used' = [used EXCEPT ![p] = used[p] + 1] /\ count' = count + 1
      /\ left \in 0 .. total /\ count \in Nat /\ pairs \in Nat /\ pass \in {1, 2}
  <2>1. used[p] <= quota[p] /\ used[p] # quota[p]
    BY <1>0 DEF QuotaInv, ShareInv, InBlocks, TakePair, AtPair, IsFull
  <2>2. /\ used \in [Blocks -> 0 .. total] /\ quota \in [Blocks -> 0 .. total] /\ total \in Nat
        /\ left \in 0 .. total /\ count \in 0 .. total /\ pairs \in 0 .. total /\ pass \in {1, 2}
    BY Inputs DEF QuotaInv, TypeOK
  <2>3. used' = [used EXCEPT ![p] = used[p] + 1] /\ count' = count + 1
    BY DEF TakePair
  <2> QED  BY <1>0, <2>1, <2>2, <2>3
<1>2. /\ used' \in [Blocks -> 0 .. total] /\ used'[p] = used[p] + 1
      /\ \A b \in Blocks : b # p => used'[b] = used[b]
      /\ \A b \in Blocks : used'[b] <= quota[b]
  <2>1. \A b \in Blocks : used[b] <= quota[b]
    BY DEF QuotaInv, ShareInv, InBlocks, TakePair, AtPair
  <2> QED  BY <1>0, <1>1, <2>1
<1>3. /\ IF pass = 1 THEN used'[p] = count' ELSE quota[p] - used'[p] + count' <= left
      /\ pass = 2 => count' <= left
      /\ pass = 1 => count' <= quota[p]
  <2>1. IF pass = 1 THEN used[p] = count ELSE quota[p] - used[p] + count <= left
    BY DEF QuotaInv, ShareInv, TakePair, AtPair
  <2> QED  BY <1>0, <1>1, <1>2, <2>1
<1>4. /\ chosen' \in Seq([set : {1, 2}, block : Blocks, fst : Nat, snd : Nat])
      /\ Len(chosen') = Len(chosen) + 1
  <2>1. Pair(p, outer[p], inner[p]) \in [set : {1, 2}, block : Blocks, fst : Nat, snd : Nat]
    BY <1>0 DEF QuotaInv, TypeOK, Pair
  <2>2. chosen \in Seq([set : {1, 2}, block : Blocks, fst : Nat, snd : Nat])
    BY DEF QuotaInv, TypeOK
  <2> QED  BY <2>1, <2>2 DEF TakePair
<1>5. QuotaConserved' /\ Len(chosen') <= total
  <2>1. /\ pairs + left + Promised = total /\ Len(chosen) = pairs + count
        /\ pass = 1 => Promised >= quota[p]
    <3>1. pairs + left + Promised = total /\ Len(chosen) = pairs + count
      BY DEF QuotaInv, QuotaConserved, TakePair, AtPair
    <3>2. ASSUME pass = 1 PROVE Promised >= quota[p]
      <4>1. p < Last /\ p \in Sums /\ p - 1 \in Sums /\ Last - 1 = NumBlocks /\ NumBlocks \in Sums
        BY <1>0, Inputs DEF QuotaInv, TypeOK
      <4>2. quotaTo[p] = quotaTo[p - 1] + quota[p] /\ quotaTo[p] <= quotaTo[NumBlocks]
        BY <1>0, <4>1 DEF QuotaInv, SumInv, AssignedTo, TakePair, AtPair
      <4>3. quotaTo \in [Sums -> Nat]
        BY DEF QuotaInv, TypeOK
      <4> QED  BY <1>0, <1>1, <3>2, <4>1, <4>2, <4>3 DEF Promised
    <3> QED  BY <3>1, <3>2
  <2>2. pass = 2 => Promised = 0
    BY DEF Promised
  <2>3. Promised \in Int
    BY Inputs, <1>0 DEF QuotaInv, TypeOK, Promised
  <2>4. Len(chosen') = pairs + count' /\ Len(chosen') <= total
    <3>1. Len(chosen') = pairs + count'
      BY <1>1, <1>4, <2>1
    <3>2. quota[p] \in Nat /\ count' \in Nat
      BY <1>0, <1>1
    <3>3. CASE pass = 1
      BY <1>1, <1>3, <2>1, <2>3, <3>1, <3>2, <3>3
    <3>4. CASE pass = 2
      BY <1>1, <1>3, <2>1, <2>2, <3>1, <3>2, <3>4
    <3> QED  BY <1>1, <3>1, <3>3, <3>4
  <2> QED  BY <1>0, <1>3, <2>1, <2>4 DEF QuotaConserved, TakePair, AtPair, input
<1>6. TypeOK'
  <2>1. count' \in 0 .. total
    BY <1>0, <1>1, <1>3
  <2> QED  BY <1>0, <1>2, <1>4, <1>5, <2>1, Moved
           DEF QuotaInv, TypeOK, TakePair, AtPair, input, shares, End
<1>7. ShareInv'
  <2>1. \A b \in Blocks : Untouched(b)' => used'[b] = 0 /\ outer'[b] = 1
    BY <1>0, <1>2 DEF QuotaInv, ShareInv
  <2>2. \A b \in Blocks : Settled(b)' => (AtEnd(b) \/ IsFull(b))'
    BY <1>0, <1>2 DEF QuotaInv, ShareInv, AtEnd, IsFull, End, TakePair, shares, input
  <2> QED  BY <1>2, <1>3, <2>1, <2>2 DEF QuotaInv, ShareInv, InBlocks, TakePair, AtPair, shares
<1> QED  BY <1>0, <1>5, <1>6, <1>7 DEF QuotaInv

\* What the end of a function and the steps after it have in common.
LEMMA ReturnFrame ==
  ASSUME QuotaInv, NEW e, Return(e), pc = "pairs", p \in Blocks, e \in 0 .. total,
         pairs + count <= total,
         outer' \in [Blocks -> Nat],
         \A b \in Blocks : b # p => outer'[b] = outer[b],
         outer'[p] <= End(p),
         outer'[p] = End(p) \/ IsFull(p),
         pass = 1 => pairs + count + e + (quotaTo[NumBlocks] - quotaTo[p]) = total,
         pass = 2 => pairs + count + e = total
  PROVE  QuotaInv'
<1>0. /\ p \in Nat /\ p # Last /\ Last \in Nat /\ p + 1 \in 1 .. Last /\ (p + 1) - 1 = p
      /\ Last \in 1 .. Last /\ pass \in {1, 2} /\ total \in Nat
      /\ pairs \in Nat /\ count \in Nat /\ e \in Nat
  BY Inputs DEF QuotaInv, TypeOK, Blocks, Last
<1>1. TypeOK'
  <2>1. pairs' \in 0 .. total /\ left' \in 0 .. total /\ p' \in 1 .. Last
    BY <1>0 DEF Return
  <2>2. \A b \in Blocks : outer'[b] <= End(b)
    BY DEF QuotaInv, TypeOK
  <2> QED  BY <2>1, <2>2 DEF QuotaInv, TypeOK, Return, input, shares, End
<1>2. SumInv'
  BY SumsKept DEF QuotaInv, Return
<1>3. ShareInv'
  <2>1. \A b \in Blocks : b < Last /\ b \in Nat
    BY DEF Blocks, Last
  <2>2. \A b \in Blocks : Untouched(b)' => Untouched(b) /\ b # p
    BY <1>0, <2>1 DEF Untouched, InBlocks, Return
  <2>3. \A b \in Blocks : Settled(b)' => (Settled(b) /\ b # p) \/ b = p
    BY <1>0, <2>1 DEF Settled, InBlocks, Return
  <2>4. \A b \in Blocks : Settled(b)' => (AtEnd(b) \/ IsFull(b))'
    <3>1. size' = size /\ used' = used /\ quota' = quota
      BY DEF Return, shares, input
    <3>2. \A b \in Blocks : Settled(b) => AtEnd(b) \/ IsFull(b)
      BY DEF QuotaInv, ShareInv
    <3> QED  BY <2>3, <3>1, <3>2 DEF AtEnd, IsFull, End
  <2>5. \A b \in Blocks : Untouched(b)' => used'[b] = 0 /\ outer'[b] = 1
    BY <2>2 DEF QuotaInv, ShareInv, Return
  <2> QED  BY <2>4, <2>5 DEF QuotaInv, ShareInv, InBlocks, Return, shares
<1>4. QuotaConserved'
  <2>1. Len(chosen) = pairs + count
    BY DEF QuotaInv, QuotaConserved
  <2>2. pairs' = pairs + count /\ left' = e /\ pc' = "blocks" /\ total' = total /\ pass' = pass
    BY DEF Return, input
  <2>3. CASE pass = 1
    <3>1. p' = p + 1 /\ Promised' = quotaTo[NumBlocks] - quotaTo[p]
      BY <1>0, <2>3 DEF Return, Promised, shares
    <3> QED  BY <1>0, <2>1, <2>2, <2>3, <3>1 DEF QuotaConserved, Return
  <2>4. CASE pass = 2
    <3>1. Promised' = 0
      BY <2>2, <2>4 DEF Promised
    <3> QED  BY <1>0, <2>1, <2>2, <2>4, <3>1 DEF QuotaConserved, Return
  <2> QED  BY <1>0, <2>3, <2>4
<1> QED  BY <1>1, <1>2, <1>3, <1>4 DEF QuotaInv

\* The quota of the block at hand, with what is free and promised.
LEMMA AtBlock ==
  ASSUME QuotaInv, pc = "pairs"
  PROVE  /\ p \in Blocks /\ total \in Nat /\ count \in Nat /\ pairs \in Nat /\ left \in 0 .. total
         /\ pass \in {1, 2} /\ quota[p] \in Nat /\ used[p] \in Nat /\ used[p] <= quota[p]
         /\ pass = 1 => /\ used[p] = count
                        /\ quotaTo[NumBlocks] - quotaTo[p] \in Nat
                        /\ pairs + left + quota[p] + (quotaTo[NumBlocks] - quotaTo[p]) = total
         /\ pass = 2 => count <= left /\ pairs + left = total
<1>1. /\ p \in Blocks /\ total \in Nat /\ count \in Nat /\ pairs \in Nat /\ left \in 0 .. total
      /\ pass \in {1, 2} /\ quota \in [Blocks -> 0 .. total] /\ used \in [Blocks -> 0 .. total]
  <2>1. p \in Blocks
    BY DEF QuotaInv, TypeOK, ShareInv, Blocks, Last
  <2>2. total \in Nat
    BY Inputs DEF QuotaInv, TypeOK
  <2> QED  BY <2>1, <2>2 DEF QuotaInv, TypeOK
<1>2. used[p] <= quota[p] /\ (pass = 1 => used[p] = count)
  BY <1>1 DEF QuotaInv, ShareInv, InBlocks
<1>3. pairs + left + Promised = total /\ (pass = 2 => count <= left)
  BY DEF QuotaInv, QuotaConserved
<1>4. p < Last /\ p \in Sums /\ p - 1 \in Sums /\ Last - 1 = NumBlocks /\ NumBlocks \in Sums
  BY <1>1, Inputs DEF QuotaInv, TypeOK
<1>5. quotaTo[p] = quotaTo[p - 1] + quota[p] /\ quotaTo[p] <= quotaTo[NumBlocks]
  BY <1>1, <1>4 DEF QuotaInv, SumInv, AssignedTo
<1>6. quotaTo[p] \in Nat /\ quotaTo[p - 1] \in Nat /\ quotaTo[NumBlocks] \in Nat
  BY <1>4 DEF QuotaInv, TypeOK
<1>7. ASSUME pass = 1
      PROVE  /\ quotaTo[NumBlocks] - quotaTo[p] \in Nat
             /\ pairs + left + quota[p] + (quotaTo[NumBlocks] - quotaTo[p]) = total
  <2>1. Promised = quotaTo[NumBlocks] - quotaTo[p - 1]
    BY <1>7 DEF Promised
  <2>2. quota[p] \in Nat
    BY <1>1
  <2> QED  BY <1>1, <1>3, <1>5, <1>6, <2>1, <2>2
<1>8. ASSUME pass = 2 PROVE pairs + left = total
  BY <1>1, <1>3, <1>8 DEF Promised
<1>9. quota[p] \in Nat /\ used[p] \in Nat
  BY <1>1
<1> QED  BY <1>1, <1>2, <1>3, <1>7, <1>8, <1>9

LEMMA BlockFullInv == QuotaInv /\ BlockFull => QuotaInv'
<1> SUFFICES ASSUME QuotaInv, BlockFull PROVE QuotaInv'
  OBVIOUS
<1>1. pc = "pairs" /\ IsFull(p) /\ outer' = outer
  BY DEF BlockFull
<1>2. /\ p \in Blocks /\ total \in Nat /\ count \in Nat /\ pairs \in Nat /\ left \in 0 .. total
      /\ pass \in {1, 2}
      /\ outer \in [Blocks -> Nat] /\ outer[p] <= End(p)
      /\ size \in Shapes /\ total \in Quotas
  BY <1>1, AtBlock DEF QuotaInv, TypeOK
<1>3. CASE pass = 1
  <2>1. /\ count = quota[p] /\ quotaTo[NumBlocks] - quotaTo[p] \in Nat
        /\ pairs + left + quota[p] + (quotaTo[NumBlocks] - quotaTo[p]) = total
    BY <1>1, <1>3, AtBlock DEF IsFull
  <2>2. /\ pairs + count <= total
        /\ pairs + count + left + (quotaTo[NumBlocks] - quotaTo[p]) = total
    BY <1>2, <2>1
  <2>3. Return(left)
    BY <1>3 DEF BlockFull
  <2> QED  BY <1>1, <1>2, <1>3, <2>2, <2>3, ReturnFrame
<1>4. CASE pass = 2
  <2>1. count <= left /\ pairs + left = total
    BY <1>1, <1>4, AtBlock
  <2>2. /\ left - count \in 0 .. total /\ pairs + count <= total
        /\ pairs + count + (left - count) = total
    BY <1>2, <2>1
  <2>3. Return(left - count)
    BY <1>2, <1>4, <2>2, WrapNothing DEF BlockFull
  <2> QED  BY <1>1, <1>2, <1>4, <2>2, <2>3, ReturnFrame
<1> QED  BY <1>2, <1>3, <1>4

LEMMA BlockExhaustedInv == QuotaInv /\ BlockExhausted => QuotaInv'
<1> SUFFICES ASSUME QuotaInv, BlockExhausted PROVE QuotaInv'
  OBVIOUS
<1>1. pc = "pairs" /\ outer' = [outer EXCEPT ![p] = End(p)]
  BY DEF BlockExhausted
<1>2. /\ p \in Blocks /\ total \in Nat /\ count \in Nat /\ pairs \in Nat /\ left \in 0 .. total
      /\ pass \in {1, 2} /\ quota[p] \in Nat /\ used[p] \in Nat /\ used[p] <= quota[p]
      /\ size \in Shapes /\ total \in Quotas /\ outer \in [Blocks -> Nat] /\ End(p) \in Nat
  <2>1. p \in Blocks /\ size \in Shapes /\ total \in Quotas /\ outer \in [Blocks -> Nat]
    BY <1>1, AtBlock DEF QuotaInv, TypeOK
  <2> QED  BY <1>1, <2>1, AtBlock, Inputs
<1>3. /\ outer' \in [Blocks -> Nat] /\ outer'[p] = End(p) /\ outer'[p] <= End(p)
      /\ \A b \in Blocks : b # p => outer'[b] = outer[b]
  BY <1>1, <1>2
<1>4. CASE pass = 1
  <2>1. /\ used[p] = count /\ quotaTo[NumBlocks] - quotaTo[p] \in Nat
        /\ pairs + left + quota[p] + (quotaTo[NumBlocks] - quotaTo[p]) = total
    BY <1>1, <1>4, AtBlock
  <2>2. /\ left + quota[p] - count \in 0 .. total /\ pairs + count <= total
        /\ pairs + count + (left + quota[p] - count) + (quotaTo[NumBlocks] - quotaTo[p]) = total
    BY <1>2, <2>1
  <2>3. Return(left + quota[p] - count)
    BY <1>2, <1>4, <2>2, WrapNothing DEF BlockExhausted
  <2> QED  BY <1>1, <1>2, <1>3, <1>4, <2>2, <2>3, ReturnFrame
<1>5. CASE pass = 2
  <2>1. count <= left /\ pairs + left = total
    BY <1>1, <1>5, AtBlock
  <2>2. /\ left - count \in 0 .. total /\ pairs + count <= total
        /\ pairs + count + (left - count) = total
    BY <1>2, <2>1
  <2>3. Return(left - count)
    BY <1>2, <1>5, <2>2, WrapNothing DEF BlockExhausted
  <2> QED  BY <1>1, <1>2, <1>3, <1>5, <2>2, <2>3, ReturnFrame
<1> QED  BY <1>2, <1>4, <1>5

-----------------------------------------------------------------------------
(* The end of the rounds, and the next set.                                *)

LEMMA SecondRoundInv == QuotaInv /\ SecondRound => QuotaInv'
<1> SUFFICES ASSUME QuotaInv, SecondRound PROVE QuotaInv'
  OBVIOUS
<1>0. 1 \in 1 .. Last /\ Last - 1 = NumBlocks /\ \A b \in Blocks : b < Last /\ 1 <= b
  BY Inputs DEF QuotaInv, TypeOK, Last
<1>1. TypeOK'
  BY <1>0 DEF QuotaInv, TypeOK, SecondRound, input, cursors, shares, End
<1>2. SumInv'
  BY SumsKept DEF QuotaInv, SecondRound
<1>3. ShareInv'
  BY <1>0 DEF QuotaInv, ShareInv, Untouched, Settled, InBlocks, AtEnd, IsFull, End, SecondRound,
     input, cursors, shares
<1>4. QuotaConserved'
  <2>1. Promised = 0
    <3>1. quotaTo[NumBlocks] \in Nat
      BY Inputs DEF QuotaInv, TypeOK
    <3> QED  BY <1>0, <3>1 DEF Promised, SecondRound
  <2>2. Promised' = 0
    BY DEF Promised, SecondRound
  <2> QED  BY <2>1, <2>2 DEF QuotaInv, QuotaConserved, SecondRound, input
<1> QED  BY <1>1, <1>2, <1>3, <1>4 DEF QuotaInv

\* Steps that only move the program on.
LEMMA ControlInv == QuotaInv /\ (SetDone \/ PrintSet \/ NoFile) => QuotaInv'
<1> SUFFICES ASSUME QuotaInv, SetDone \/ PrintSet \/ NoFile PROVE QuotaInv'
  OBVIOUS
<1>0. /\ UNCHANGED <<input, set, p, pass, shares, used, cursors, left, count, pairs, chosen>>
      /\ pc \in {"blocks", "created"} /\ pc' \in {"created", "printed", "thrown"}
      /\ wasUsed' \in BOOLEAN
  BY DEF QuotaInv, TypeOK, SetDone, PrintSet, NoFile
<1>1. TypeOK'
  BY <1>0 DEF QuotaInv, TypeOK, input, cursors, shares, End
<1>2. SumInv'
  BY <1>0, SumsKept DEF QuotaInv
<1>3. ShareInv'
  BY <1>0 DEF QuotaInv, ShareInv, Untouched, Settled, InBlocks
<1>4. QuotaConserved'
  <2>1. Promised' = Promised
    BY <1>0 DEF Promised, shares
  <2> QED  BY <1>0, <2>1 DEF QuotaInv, QuotaConserved, input
<1> QED  BY <1>1, <1>2, <1>3, <1>4 DEF QuotaInv

LEMMA ResetInv == QuotaInv /\ Reset => QuotaInv'
<1> SUFFICES ASSUME QuotaInv, Reset PROVE QuotaInv'
  OBVIOUS
<1>0. /\ size \in Shapes /\ total \in Nat /\ 1 \in 1 .. Last /\ 0 \in 0 .. total /\ 0 \in Sums
      /\ \A b \in Blocks : 0 <= End(b) /\ b \in Nat /\ 1 <= b
  BY Inputs DEF QuotaInv, TypeOK
<1>1. TypeOK'
  <2>1. /\ <<>> \in Seq([set : {1, 2}, block : Blocks, fst : Nat, snd : Nat])
        /\ Len(<<>>) = 0
    OBVIOUS
  <2>2. /\ quota' \in [Blocks -> 0 .. total] /\ used' \in [Blocks -> 0 .. total]
        /\ outer' \in [Blocks -> Nat] /\ inner' \in [Blocks -> Nat]
        /\ weightTo' \in [Sums -> Nat] /\ quotaTo' \in [Sums -> Nat]
    BY <1>0 DEF Reset
  <2>3. \A b \in Blocks : outer'[b] <= End(b) /\ inner'[b] <= End(b)
    BY <1>0 DEF Reset
  <2> QED  BY <1>0, <2>1, <2>2, <2>3 DEF QuotaInv, TypeOK, Reset, input, End
<1>2. SumInv'
  <2>1. /\ pc' = "weigh" /\ p' = 1 /\ total' = total
        /\ weightTo' = [n \in Sums |-> 0] /\ quotaTo' = [n \in Sums |-> 0]
    BY DEF Reset, input
  <2>2. \A n \in Sums : n < 1 => n = 0
    BY DEF Sums
  <2>3. Distributor' = 0 /\ 0 * 0 = 0 /\ total * 0 = 0
    BY <1>0, <2>1, Inputs DEF Distributor, QuotaInv, TypeOK
  <2> QED  BY <1>0, <2>1, <2>2, <2>3 DEF SumInv, WeighedTo, AssignedTo
<1>3. ShareInv'
  BY DEF ShareInv, Untouched, Settled, InBlocks, Reset
<1>4. QuotaConserved'
  BY DEF QuotaConserved, Reset
<1> QED  BY <1>1, <1>2, <1>3, <1>4 DEF QuotaInv

\* QuotaInv holds in every state: the quota left never wraps around.
THEOREM QuotaInvariant == Spec => []QuotaInv
<1>1. QuotaInv /\ [Next]_vars => QuotaInv'
  <2> SUFFICES ASSUME QuotaInv, [Next]_vars PROVE QuotaInv'
    OBVIOUS
  <2>1. CASE Next
    BY <2>1, WeighInv, WeighDoneInv, AssignInv, ResetDoneInv, CreateSetInv, SkipBlockInv,
       EnterBlockInv, TakePairInv, PassPairInv, BlockFullInv, BlockExhaustedInv,
       SecondRoundInv, ControlInv, ResetInv DEF Next
  <2>2. CASE UNCHANGED vars
    BY <2>2 DEF vars, QuotaInv, TypeOK, SumInv, ShareInv, QuotaConserved, Promised, WeighedTo,
       AssignedTo, Distributor, Weight, Untouched, Settled, InBlocks, AtEnd, IsFull, End
  <2> QED  BY <2>1, <2>2
<1> QED  BY InitInv, <1>1, PTL DEF Spec

\* The pairs obtained, the free quota and what is promised to blocks make up the limit.
THEOREM QuotaIsConserved == Spec => []QuotaConserved
<1>1. QuotaInv => QuotaConserved
  BY DEF QuotaInv
<1> QED  BY <1>1, QuotaInvariant, PTL

-----------------------------------------------------------------------------
(* No pair twice.                                                          *)

LEMMA ChosenPairs ==
  ASSUME TypeOK, NEW k \in DOMAIN chosen
  PROVE  /\ chosen[k] \in [set : {1, 2}, block : Blocks, fst : Nat, snd : Nat]
         /\ chosen[k].block \in Blocks /\ chosen[k].fst \in Nat /\ chosen[k].snd \in Nat
<1> DEFINE S == [set : {1, 2}, block : Blocks, fst : Nat, snd : Nat]
<1>1. chosen \in Seq(S)
  BY DEF TypeOK
<1> HIDE DEF S
<1>2. chosen[k] \in S
  BY <1>1
<1> QED  BY <1>2 DEF S

FreshInv == CursorInv /\ FreshPairs

\* A set that got no new pair stays fresh when no cursor goes back.
LEMMA FreshKept ==
  ASSUME FreshPairs, QuotaInv, chosen' = chosen, set' = set, size' = size,
         outer' \in [Blocks -> Nat],
         \A b \in Blocks : \/ outer'[b] = outer[b] /\ inner'[b] = inner[b]
                           \/ outer'[b] = outer[b] /\ inner'[b] = inner[b] + 1
                           \/ outer'[b] > outer[b]
                           \/ outer'[b] = End(b)
  PROVE  FreshPairs'
<1>1. \A k \in DOMAIN chosen : /\ chosen[k].block \in Blocks
                               /\ chosen[k].fst \in Nat /\ chosen[k].snd \in Nat
  BY ChosenPairs DEF QuotaInv
<1>2. \A b \in Blocks : /\ outer[b] \in Nat /\ inner[b] \in Nat /\ size[b] \in Nat
                        /\ outer'[b] \in Nat /\ End(b) = size[b] + 1
  BY Inputs DEF QuotaInv, TypeOK, End
<1>3. ASSUME NEW k \in DOMAIN chosen
      PROVE  LET c == chosen[k]
             IN  /\ c.set = set /\ c.fst < c.snd /\ c.snd <= size[c.block]
                 /\ c.fst < outer'[c.block] \/ (c.fst = outer'[c.block] /\ c.snd < inner'[c.block])
  <2> DEFINE c == chosen[k]
             b == chosen[k].block
  <2>1. c.set = set /\ c.fst < c.snd /\ c.snd <= size[b]
        /\ (c.fst < outer[b] \/ (c.fst = outer[b] /\ c.snd < inner[b]))
    BY <1>3 DEF FreshPairs
  <2>2. b \in Blocks /\ c.fst \in Nat /\ c.snd \in Nat
    BY <1>1, <1>3
  <2>3. /\ outer[b] \in Nat /\ inner[b] \in Nat /\ size[b] \in Nat /\ outer'[b] \in Nat
        /\ End(b) = size[b] + 1
    BY <1>2, <2>2
  <2>4. \/ outer'[b] = outer[b] /\ inner'[b] = inner[b]
        \/ outer'[b] = outer[b] /\ inner'[b] = inner[b] + 1
        \/ outer'[b] > outer[b]
        \/ outer'[b] = End(b)
    BY <2>2
  <2> HIDE DEF c, b
  <2>5. c.fst < outer'[b] \/ (c.fst = outer'[b] /\ c.snd < inner'[b])
    BY <2>1, <2>2, <2>3, <2>4
  <2> QED  BY <2>1, <2>5 DEF c, b
<1>4. \A k, l \in DOMAIN chosen : k # l => chosen[k] # chosen[l]
  BY DEF FreshPairs
<1> QED  BY <1>3, <1>4 DEF FreshPairs

LEMMA FreshInit == Init => FreshInv
BY DEF Init, FreshInv, CursorInv, FreshPairs

LEMMA FreshCursors ==
  ASSUME QuotaInv, CursorInv, AtPair, Advance, UNCHANGED <<input, pc, p>>
  PROVE  CursorInv' /\ p \in Blocks /\ outer[p] < inner[p] /\ inner[p] <= size[p]
<1>1. p \in Blocks
  BY DEF QuotaInv, TypeOK, ShareInv, AtPair, Blocks, Last
<1>2. size[p] \in Nat /\ inner[p] \in Nat /\ outer[p] \in Nat /\ inner[p] <= size[p]
      /\ outer[p] < inner[p]
  <2>1. /\ size[p] \in Nat /\ inner[p] \in Nat /\ outer[p] \in Nat
        /\ End(p) = size[p] + 1 /\ inner[p] <= End(p)
    BY <1>1, Inputs DEF QuotaInv, TypeOK, End
  <2>2. inner[p] # End(p) /\ (outer[p] < inner[p] \/ inner[p] = End(p))
    BY <1>1 DEF CursorInv, AtPair
  <2> QED  BY <2>1, <2>2
<1>3. \A b \in Blocks : b # p => outer'[b] = outer[b] /\ inner'[b] = inner[b]
  BY <1>1, Moved DEF QuotaInv, AtPair
<1>4. outer'[p] < inner'[p] \/ inner'[p] = End(p)
  <2>1. /\ outer' \in [Blocks -> Nat] /\ inner' \in [Blocks -> Nat]
        /\ \/ outer'[p] = outer[p] /\ inner'[p] = inner[p] + 1
           \/ outer'[p] > outer[p] /\ inner'[p] > outer'[p]
           \/ outer'[p] = End(p) /\ inner'[p] = End(p)
    BY <1>1, Moved DEF QuotaInv, AtPair
  <2>2. outer'[p] \in Nat /\ inner'[p] \in Nat
    BY <1>1, <2>1
  <2> QED  BY <1>2, <2>1, <2>2
<1> QED  BY <1>1, <1>2, <1>3, <1>4 DEF CursorInv, AtPair, End, input

LEMMA FreshTakePair == QuotaInv /\ FreshInv /\ TakePair => FreshInv'
<1> SUFFICES ASSUME QuotaInv, FreshInv, TakePair PROVE FreshInv'
  OBVIOUS
<1> DEFINE new == Pair(p, outer[p], inner[p])
<1>1. CursorInv' /\ p \in Blocks /\ outer[p] < inner[p] /\ inner[p] <= size[p]
  BY FreshCursors DEF FreshInv, TakePair
<1>2. /\ outer' \in [Blocks -> Nat] /\ inner' \in [Blocks -> Nat]
      /\ \A b \in Blocks : b # p => outer'[b] = outer[b] /\ inner'[b] = inner[b]
      /\ \/ outer'[p] = outer[p] /\ inner'[p] = inner[p] + 1
         \/ outer'[p] > outer[p]
         \/ outer'[p] = End(p)
  BY <1>1, Moved DEF QuotaInv, TakePair, AtPair
<1>3. /\ outer[p] \in Nat /\ inner[p] \in Nat /\ size[p] \in Nat /\ End(p) = size[p] + 1
      /\ outer'[p] \in Nat /\ set' = set /\ size' = size
  BY <1>1, <1>2, Inputs DEF QuotaInv, TypeOK, End, TakePair, input
<1>4. /\ Len(chosen) \in Nat /\ DOMAIN chosen = 1 .. Len(chosen)
      /\ DOMAIN chosen' = 1 .. Len(chosen) + 1
      /\ chosen'[Len(chosen) + 1] = new
      /\ \A k \in DOMAIN chosen : chosen'[k] = chosen[k]
  <2>1. chosen \in Seq([set : {1, 2}, block : Blocks, fst : Nat, snd : Nat])
    BY DEF QuotaInv, TypeOK
  <2>2. new \in [set : {1, 2}, block : Blocks, fst : Nat, snd : Nat]
    BY <1>1, <1>3 DEF QuotaInv, TypeOK, Pair
  <2> HIDE DEF new
  <2>3. chosen' = Append(chosen, new)
    BY DEF TakePair, new
  <2> QED  BY <2>1, <2>2, <2>3
<1>5. \A k \in DOMAIN chosen :
        LET c == chosen[k]
        IN  /\ c \in [set : {1, 2}, block : Blocks, fst : Nat, snd : Nat]
            /\ c.set = set /\ c.fst < c.snd /\ c.snd <= size[c.block]
            /\ c.fst < outer[c.block] \/ (c.fst = outer[c.block] /\ c.snd < inner[c.block])
  BY ChosenPairs DEF FreshInv, FreshPairs, QuotaInv
<1>6. new.set = set /\ new.block = p /\ new.fst = outer[p] /\ new.snd = inner[p]
  BY DEF Pair
<1>7. \A k \in DOMAIN chosen : chosen[k] # new
  BY <1>3, <1>5, <1>6
<1> HIDE DEF new
<1>8. ASSUME NEW k \in DOMAIN chosen'
      PROVE  LET c == chosen'[k]
             IN  /\ c.set = set /\ c.fst < c.snd /\ c.snd <= size[c.block]
                 /\ c.fst < outer'[c.block] \/ (c.fst = outer'[c.block] /\ c.snd < inner'[c.block])
  <2>1. CASE k = Len(chosen) + 1
    BY <1>1, <1>2, <1>3, <1>4, <1>6, <2>1
  <2>2. CASE k \in DOMAIN chosen
    <3> DEFINE c == chosen[k]
               b == chosen[k].block
    <3>1. /\ b \in Blocks /\ c.fst \in Nat /\ c.snd \in Nat
          /\ c.set = set /\ c.fst < c.snd /\ c.snd <= size[b]
          /\ c.fst < outer[b] \/ (c.fst = outer[b] /\ c.snd < inner[b])
      BY <1>5, <2>2
    <3> HIDE DEF c, b
    <3>2. c.fst < outer'[b] \/ (c.fst = outer'[b] /\ c.snd < inner'[b])
      <4>1. CASE b # p
        BY <1>2, <3>1, <4>1
      <4>2. CASE b = p
        BY <1>2, <1>3, <3>1, <4>2
      <4> QED  BY <4>1, <4>2
    <3> QED  BY <1>4, <2>2, <3>1, <3>2 DEF c, b
  <2> QED  BY <1>4, <2>1, <2>2
<1>9. \A k, l \in DOMAIN chosen' : k # l => chosen'[k] # chosen'[l]
  <2> SUFFICES ASSUME NEW k \in DOMAIN chosen', NEW l \in DOMAIN chosen', k # l
               PROVE  chosen'[k] # chosen'[l]
    OBVIOUS
  <2>1. \A m, n \in DOMAIN chosen : m # n => chosen[m] # chosen[n]
    BY DEF FreshInv, FreshPairs
  <2>2. CASE k \in DOMAIN chosen /\ l \in DOMAIN chosen
    BY <1>4, <2>1, <2>2
  <2>3. CASE k = Len(chosen) + 1
    <3>1. l \in DOMAIN chosen
      BY <1>4, <2>3
    <3> QED  BY <1>4, <1>7, <2>3, <3>1
  <2>4. CASE l = Len(chosen) + 1
    <3>1. k \in DOMAIN chosen
      BY <1>4, <2>4
    <3> QED  BY <1>4, <1>7, <2>4, <3>1
  <2> QED  BY <1>4, <2>2, <2>3, <2>4
<1> QED  BY <1>1, <1>3, <1>8, <1>9 DEF FreshInv, FreshPairs

LEMMA FreshNext == QuotaInv /\ FreshInv /\ [Next]_vars => FreshInv'
<1> SUFFICES ASSUME QuotaInv, FreshInv, [Next]_vars PROVE FreshInv'
  OBVIOUS
<1>0. /\ outer \in [Blocks -> Nat] /\ inner \in [Blocks -> Nat] /\ FreshPairs /\ CursorInv
      /\ size \in Shapes /\ total \in Quotas /\ p \in 1 .. Last
      /\ \A b \in Blocks : b \in Nat /\ 1 <= b /\ b < Last /\ End(b) >= 2
  BY Inputs DEF QuotaInv, TypeOK, FreshInv
<1>1. ASSUME Weigh \/ WeighDone PROVE FreshInv'
  <2>1. UNCHANGED <<chosen, set, size, outer, inner>>
        /\ \A b \in Blocks : pc' = "weigh" \/ (pc' = "assign" /\ p' <= b)
    BY <1>0, <1>1 DEF Weigh, WeighDone, input, cursors
  <2> QED  BY <1>0, <2>1, FreshKept DEF FreshInv, CursorInv
<1>2. ASSUME AssignQuota PROVE FreshInv'
  <2>1. chosen' = <<>>
    BY <1>2 DEF AssignQuota, QuotaInv, ShareInv
  <2>2. FreshPairs'
    BY <2>1 DEF FreshPairs
  <2>3. ASSUME NEW b \in Blocks, ~(p + 1 <= b) PROVE outer'[b] < inner'[b] \/ inner'[b] = End(b)
    <3>1. CASE b = p
      BY <1>0, <1>2, <3>1 DEF AssignQuota
    <3>2. CASE b # p
      BY <1>0, <1>2, <2>3, <3>2 DEF AssignQuota, CursorInv
    <3> QED  BY <3>1, <3>2
  <2> QED  BY <1>2, <2>2, <2>3 DEF FreshInv, CursorInv, AssignQuota, input, End
<1>3. ASSUME ResetDone \/ CreateSet \/ SkipBlock \/ EnterBlock \/ BlockFull \/ SecondRound
             \/ SetDone \/ PrintSet \/ NoFile
      PROVE  FreshInv'
  <2>1. UNCHANGED <<chosen, set, size, outer, inner>>
    BY <1>3 DEF ResetDone, CreateSet, SkipBlock, EnterBlock, BlockFull, Return, SecondRound,
                SetDone, PrintSet, NoFile, input, cursors
  <2>2. \A b \in Blocks : ~(pc = "weigh" \/ (pc = "assign" /\ p <= b))
    BY <1>0, <1>3 DEF ResetDone, CreateSet, SkipBlock, EnterBlock, BlockFull, SecondRound,
                SetDone, PrintSet, NoFile
  <2> QED  BY <1>0, <2>1, <2>2, FreshKept DEF FreshInv, CursorInv, End
<1>4. ASSUME TakePair PROVE FreshInv'
  BY <1>4, FreshTakePair
<1>5. ASSUME PassPair PROVE FreshInv'
  <2>1. CursorInv' /\ p \in Blocks
    BY <1>0, <1>5, FreshCursors DEF PassPair
  <2>2. /\ outer' \in [Blocks -> Nat]
        /\ \A b \in Blocks : \/ outer'[b] = outer[b] /\ inner'[b] = inner[b]
                             \/ outer'[b] = outer[b] /\ inner'[b] = inner[b] + 1
                             \/ outer'[b] > outer[b]
                             \/ outer'[b] = End(b)
    BY <1>5, <2>1, Moved DEF QuotaInv, PassPair, AtPair
  <2> QED  BY <1>0, <1>5, <2>1, <2>2, FreshKept DEF FreshInv, PassPair, input
<1>6. ASSUME BlockExhausted PROVE FreshInv'
  <2>1. /\ UNCHANGED <<chosen, set, size, inner>> /\ outer' = [outer EXCEPT ![p] = End(p)]
        /\ pc = "pairs" /\ inner[p] = End(p) /\ p \in Blocks /\ End(p) \in Nat
    BY <1>0, <1>6, Inputs DEF BlockExhausted, Return, input, QuotaInv, ShareInv, Blocks, Last
  <2>2. FreshPairs'
    BY <1>0, <2>1, FreshKept
  <2>3. \A b \in Blocks : outer'[b] < inner[b] \/ inner[b] = End(b)
    BY <1>0, <2>1 DEF CursorInv
  <2> QED  BY <2>1, <2>2, <2>3 DEF FreshInv, CursorInv, End
<1>7. ASSUME Reset PROVE FreshInv'
  BY <1>7 DEF Reset, FreshInv, CursorInv, FreshPairs
<1>8. ASSUME UNCHANGED vars PROVE FreshInv'
  BY <1>8 DEF vars, FreshInv, CursorInv, FreshPairs, End
<1> QED  BY <1>1, <1>2, <1>3, <1>4, <1>5, <1>6, <1>7, <1>8 DEF Next

\* A set never holds a pair twice, nor a pair that the set before left behind.
THEOREM PairsAreFresh == Spec => []FreshPairs
<1>1. FreshInv => FreshPairs
  BY DEF FreshInv
<1> QED  BY <1>1, FreshInit, FreshNext, QuotaInvariant, PTL DEF Spec

-----------------------------------------------------------------------------
(* What a block gives.                                                     *)

LEMMA GivenNothing ==
  ASSUME chosen = <<>>
  PROVE  \A b : Given(b) = 0
<1> TAKE b
<1>1. {k \in DOMAIN chosen : chosen[k].block = b} = {}
  OBVIOUS
<1> QED  BY <1>1, FS_EmptySet DEF Given

LEMMA GivenType ==
  ASSUME TypeOK
  PROVE  \A b : Given(b) \in Nat
<1> TAKE b
<1>1. DOMAIN chosen = 1 .. Len(chosen) /\ Len(chosen) \in Nat
  BY DEF TypeOK
<1>2. IsFiniteSet(DOMAIN chosen)
  BY <1>1, FS_Interval
<1>3. IsFiniteSet({k \in DOMAIN chosen : chosen[k].block = b})
  BY <1>2, FS_Subset
<1> QED  BY <1>3, FS_CardinalityType DEF Given

\* A pair taken is one more given by its block, and none by the others.
LEMMA GivenOneMore ==
  ASSUME QuotaInv, TakePair
  PROVE  /\ Given(p)' = Given(p) + 1
         /\ \A b \in Blocks : b # p => Given(b)' = Given(b)
<1> DEFINE S == [set : {1, 2}, block : Blocks, fst : Nat, snd : Nat]
           new == Pair(p, outer[p], inner[p])
           Of(b) == {k \in DOMAIN chosen : chosen[k].block = b}
           OfNew(b) == {k \in DOMAIN chosen' : chosen'[k].block = b}
<1>1. p \in Blocks /\ new.block = p /\ new \in S
  <2>1. p \in Blocks
    BY PairFrame DEF TakePair
  <2> QED  BY <2>1 DEF QuotaInv, TypeOK, Pair
<1>2. chosen \in Seq(S) /\ chosen' = Append(chosen, new)
  BY DEF QuotaInv, TypeOK, TakePair
<1> DEFINE n == Len(chosen)
<1> HIDE DEF S, new
<1>3. /\ n \in Nat /\ DOMAIN chosen = 1 .. n /\ DOMAIN chosen' = 1 .. n + 1
      /\ chosen'[n + 1] = new /\ \A k \in 1 .. n : chosen'[k] = chosen[k]
  BY <1>1, <1>2
<1> HIDE DEF n
<1>4. OfNew(p) = Of(p) \cup {n + 1} /\ n + 1 \notin Of(p)
  BY <1>1, <1>3
<1>5. \A b \in Blocks : b # p => OfNew(b) = Of(b)
  BY <1>1, <1>3
<1>6. IsFiniteSet(Of(p))
  <2>1. IsFiniteSet(DOMAIN chosen) /\ Of(p) \subseteq DOMAIN chosen
    BY <1>3, FS_Interval
  <2> QED  BY <2>1, FS_Subset
<1>7. Cardinality(OfNew(p)) = Cardinality(Of(p)) + 1
  <2> HIDE DEF Of, OfNew
  <2> QED  BY <1>4, <1>6, FS_AddElement
<1>8. /\ Given(p) = Cardinality(Of(p)) /\ Given(p)' = Cardinality(OfNew(p))
      /\ \A b \in Blocks : b # p =>
            Given(b) = Cardinality(Of(b)) /\ Given(b)' = Cardinality(OfNew(b))
  BY DEF Given, TakePair
<1> HIDE DEF Of, OfNew
<1> QED  BY <1>5, <1>7, <1>8

\* The pairs of a block are counted alike as long as the list is the same.
LEMMA GivenSame ==
  ASSUME chosen' = chosen
  PROVE  \A b : Given(b)' = Given(b)
BY DEF Given

LEMMA GivenInit == Init => GivenInv
<1> SUFFICES ASSUME Init PROVE GivenInv
  OBVIOUS
<1>1. TypeOK /\ chosen = <<>>
  BY InitInv DEF QuotaInv, Init
<1>2. \A b \in Blocks : Given(b) = 0 /\ quota[b] \in Nat
  BY <1>1, GivenNothing, Inputs DEF TypeOK
<1> QED  BY <1>2 DEF GivenInv, Init, Settled, Finished, InBlocks

\* Before the first round has begun no block has given a pair.
LEMMA GivenBefore ==
  ASSUME QuotaInv, QuotaInv', pc' \in {"weigh", "assign", "ready"}
  PROVE  GivenInv'
<1>1. chosen' = <<>>
  BY DEF QuotaInv, ShareInv
<1>2. \A b \in Blocks : Given(b)' = 0
  <2>1. ASSUME NEW b \in Blocks PROVE {k \in DOMAIN chosen' : chosen'[k].block = b} = {}
    BY <1>1
  <2> QED  BY <2>1, FS_EmptySet DEF Given
<1>3. \A b \in Blocks : quota'[b] \in Nat
  <2>1. quota' \in [Blocks -> 0 .. total'] /\ total' \in Nat
    <3>1. quota' \in [Blocks -> 0 .. total'] /\ total' \in Quotas
      BY DEF QuotaInv, TypeOK
    <3> QED  BY <3>1
  <2> QED  BY <2>1
<1> QED  BY <1>2, <1>3 DEF GivenInv, Settled, Finished, InBlocks

\* The quantities of GivenInv, typed.
LEMMA GivenTyped ==
  ASSUME QuotaInv
  PROVE  /\ total \in Nat /\ left \in Nat /\ count \in Nat /\ 2 * total < Modulus /\ left <= total
         /\ pass \in {1, 2} /\ p \in Nat /\ Last \in Nat
         /\ \A b \in Blocks : /\ quota[b] \in Nat /\ used[b] \in Nat /\ Given(b) \in Nat
                              /\ b \in Nat /\ b < Last /\ 1 <= b
<1>1. /\ total \in Quotas /\ left \in 0 .. total /\ count \in 0 .. total /\ pass \in {1, 2}
      /\ p \in 1 .. Last
      /\ quota \in [Blocks -> 0 .. total] /\ used \in [Blocks -> 0 .. total]
  BY DEF QuotaInv, TypeOK
<1>2. /\ total \in Nat /\ 2 * total < Modulus /\ Last \in Nat
      /\ \A b \in Blocks : b \in Nat /\ b < Last /\ 1 <= b
  BY Inputs DEF QuotaInv, TypeOK
<1>3. \A b \in Blocks : Given(b) \in Nat
  BY GivenType DEF QuotaInv
<1> QED  BY <1>1, <1>2, <1>3

LEMMA GivenCreateSet == QuotaInv /\ GivenInv /\ CreateSet => GivenInv'
<1> SUFFICES ASSUME QuotaInv, GivenInv, CreateSet PROVE GivenInv'
  OBVIOUS
<1>1. \A b \in Blocks : Given(b) = 0 /\ used[b] = 0 /\ quota[b] \in Nat
  <2>1. chosen = <<>> /\ \A b \in Blocks : used[b] = 0
    BY DEF QuotaInv, ShareInv, Untouched, CreateSet
  <2> QED  BY <2>1, GivenNothing, GivenTyped
<1>2. \A b \in Blocks : Given(b)' = Given(b) /\ quota'[b] = quota[b] /\ used'[b] = used[b]
  BY GivenSame DEF CreateSet, shares
<1> QED  BY <1>1, <1>2 DEF GivenInv, CreateSet, Settled, Finished, InBlocks

LEMMA GivenSkipBlock == QuotaInv /\ GivenInv /\ SkipBlock => GivenInv'
<1> SUFFICES ASSUME QuotaInv, GivenInv, SkipBlock PROVE GivenInv'
  OBVIOUS
<1>1. /\ \A b \in Blocks : Given(b)' = Given(b) /\ AtEnd(b)' = AtEnd(b)
      /\ UNCHANGED <<input, quota, used, left, pass, pc>> /\ p' = p + 1 /\ pc = "blocks"
  BY GivenSame DEF SkipBlock, shares, cursors, input, AtEnd, End
<1>2. \A b \in Blocks : Settled(b)' => Settled(b) \/ pass = 1
  BY GivenTyped DEF Settled, InBlocks, SkipBlock
<1>3. \A b \in Blocks : Finished(b)' => Finished(b) \/ AtEnd(b)
  <2> SUFFICES ASSUME NEW b \in Blocks, Finished(b)', ~Finished(b) PROVE AtEnd(b)
    OBVIOUS
  <2>1. pass = 2 /\ b = p
    BY <1>1, GivenTyped DEF Finished, InBlocks
  <2> QED  BY <2>1 DEF SkipBlock
<1> QED  BY <1>1, <1>2, <1>3 DEF GivenInv, InBlocks

LEMMA GivenEnterBlock == QuotaInv /\ GivenInv /\ EnterBlock => GivenInv'
<1> SUFFICES ASSUME QuotaInv, GivenInv, EnterBlock PROVE GivenInv'
  OBVIOUS
<1>1. /\ \A b \in Blocks : Given(b)' = Given(b) /\ AtEnd(b)' = AtEnd(b)
      /\ UNCHANGED <<input, quota, left, pass, p>> /\ pc = "blocks" /\ pc' = "pairs" /\ count' = 0
      /\ p \in Blocks /\ used \in [Blocks -> 0 .. total]
  BY GivenSame DEF EnterBlock, shares, cursors, input, AtEnd, End, QuotaInv, TypeOK, Blocks, Last
<1>2. \A b \in Blocks : (InBlocks /\ pass = 1)' \/ Settled(b)' => Given(b)' = used'[b]
  <2> SUFFICES ASSUME NEW b \in Blocks, (InBlocks /\ pass = 1)' \/ Settled(b)'
               PROVE  Given(b)' = used'[b]
    OBVIOUS
  <2>1. CASE pass = 1
    BY <1>1, <2>1 DEF GivenInv, InBlocks, EnterBlock
  <2>2. CASE pass = 2
    <3>1. Settled(b) /\ b # p
      BY <1>1, <2>2 DEF Settled, InBlocks
    <3>2. used'[b] = used[b]
      BY <1>1, <2>2, <3>1 DEF EnterBlock
    <3> QED  BY <1>1, <3>1, <3>2 DEF GivenInv
  <2> QED  BY <2>1, <2>2, GivenTyped
<1>3. ASSUME pass = 2
      PROVE  /\ Given(p)' = quota[p] + 0
             /\ used'[p] = 0 + IF left < quota[p] THEN quota[p] - left ELSE 0
  <2>1. Settled(p) /\ ~AtEnd(p)
    BY <1>1, <1>3, GivenTyped DEF Settled, InBlocks, EnterBlock
  <2>2. used[p] = quota[p] /\ Given(p) = used[p]
    BY <1>1, <2>1 DEF QuotaInv, ShareInv, GivenInv, IsFull
  <2>3. used'[p] = IF left < used[p] THEN used[p] - left ELSE 0
    BY <1>1, <1>3 DEF EnterBlock
  <2> QED  BY <1>1, <2>2, <2>3, GivenTyped
<1>4. \A b \in Blocks : Finished(b)' => Finished(b)
  BY <1>1 DEF Finished, InBlocks
<1> QED  BY <1>1, <1>2, <1>3, <1>4 DEF GivenInv

LEMMA GivenTakePair == QuotaInv /\ GivenInv /\ TakePair => GivenInv'
<1> SUFFICES ASSUME QuotaInv, GivenInv, TakePair PROVE GivenInv'
  OBVIOUS
<1>1. /\ p \in Blocks /\ pc = "pairs"
      /\ \A b \in Blocks : Settled(b)' => Settled(b) /\ b # p
      /\ \A b \in Blocks : b # p => outer'[b] = outer[b]
  BY PairFrame DEF TakePair, AtPair
<1>2. /\ UNCHANGED <<input, quota, left, pass, p, pc>> /\ count' = count + 1
      /\ used \in [Blocks -> 0 .. total] /\ used' = [used EXCEPT ![p] = used[p] + 1]
      /\ used[p] < quota[p]
  <2>1. used[p] <= quota[p] /\ used[p] # quota[p]
    BY <1>1 DEF QuotaInv, ShareInv, InBlocks, TakePair, AtPair, IsFull
  <2> QED  BY <1>1, <2>1, GivenTyped DEF TakePair, shares, input, QuotaInv, TypeOK
<1>3. /\ Given(p)' = Given(p) + 1 /\ used'[p] = used[p] + 1
      /\ \A b \in Blocks : b # p => Given(b)' = Given(b) /\ used'[b] = used[b]
  BY <1>1, <1>2, GivenOneMore
<1>4. \A b \in Blocks : (InBlocks /\ pass = 1)' \/ Settled(b)' => Given(b)' = used'[b]
  BY <1>1, <1>2, <1>3, GivenTyped DEF GivenInv, InBlocks
<1>5. pass = 2 => /\ Given(p)' = quota[p] + count'
                  /\ used'[p] = count' + IF left < quota[p] THEN quota[p] - left ELSE 0
  <2> SUFFICES ASSUME pass = 2
               PROVE  /\ Given(p)' = quota[p] + count'
                      /\ used'[p] = count' + IF left < quota[p] THEN quota[p] - left ELSE 0
    OBVIOUS
  <2>1. /\ Given(p) = quota[p] + count
        /\ used[p] = count + IF left < quota[p] THEN quota[p] - left ELSE 0
    BY <1>1 DEF GivenInv
  <2> QED  BY <1>1, <1>2, <1>3, <2>1, GivenTyped
<1>6. Given(p)' <= 2 * quota[p]
  <2>1. CASE pass = 1
    <3>1. Given(p) = used[p]
      BY <1>1, <2>1 DEF GivenInv, InBlocks
    <3> QED  BY <1>1, <1>2, <1>3, <3>1, GivenTyped
  <2>2. CASE pass = 2
    <3>1. /\ used[p] = count + IF left < quota[p] THEN quota[p] - left ELSE 0
          /\ Given(p) = quota[p] + count
      BY <1>1, <2>2 DEF GivenInv
    <3> QED  BY <1>1, <1>2, <1>3, <3>1, GivenTyped
  <2> QED  BY <2>1, <2>2, GivenTyped
<1>7. \A b \in Blocks : Finished(b)' => Finished(b) /\ b # p /\ (AtEnd(b) => AtEnd(b)')
  BY <1>1, <1>2, GivenTyped DEF Finished, InBlocks, AtEnd, End, input
<1> QED  BY <1>1, <1>2, <1>3, <1>4, <1>5, <1>6, <1>7 DEF GivenInv

LEMMA GivenPassPair == QuotaInv /\ GivenInv /\ PassPair => GivenInv'
<1> SUFFICES ASSUME QuotaInv, GivenInv, PassPair PROVE GivenInv'
  OBVIOUS
<1>1. /\ p \in Blocks /\ pc = "pairs"
      /\ \A b \in Blocks : Settled(b)' => Settled(b) /\ b # p
      /\ \A b \in Blocks : b # p => outer'[b] = outer[b]
  BY PairFrame DEF PassPair, AtPair
<1>2. /\ UNCHANGED <<input, quota, used, left, count, pass, p, pc>>
      /\ \A b \in Blocks : Given(b)' = Given(b)
  BY GivenSame DEF PassPair, shares, input
<1>3. \A b \in Blocks : Finished(b)' => Finished(b) /\ (AtEnd(b) => AtEnd(b)')
  BY <1>1, <1>2, GivenTyped DEF Finished, InBlocks, AtEnd, End, input
<1> QED  BY <1>1, <1>2, <1>3 DEF GivenInv, InBlocks

\* A block that is left in the second round with quota over has none of its own
\* quota left, or no pair.
LEMMA GivenReturn ==
  ASSUME QuotaInv, GivenInv, pc = "pairs", p \in Blocks, NEW e \in Nat, Return(e),
         e <= total,
         \A b \in Blocks : AtEnd(b) => AtEnd(b)',
         pass = 2 => e <= left,
         pass = 2 /\ e > 0 => outer'[p] = End(p) \/ Given(p) = 2 * quota[p]
  PROVE  GivenInv'
<1>1. /\ UNCHANGED <<input, quota, used, pass>> /\ left' = e /\ pc' = "blocks"
      /\ \A b \in Blocks : Given(b)' = Given(b)
  BY GivenSame DEF Return, shares, input
<1>2. \A b \in Blocks : Settled(b)' => Settled(b) \/ pass = 1
  <2>1. p' = Last \/ p' = p + 1
    BY DEF Return
  <2> QED  BY <1>1, <2>1, GivenTyped DEF Settled, InBlocks
<1>3. pass = 2 /\ e > 0 => p' = p + 1
  BY GivenTyped DEF Return, IsPositive
<1>4. \A b \in Blocks : Finished(b)' /\ e > 0 => Finished(b) \/ b = p
  BY <1>1, <1>3, GivenTyped DEF Finished, InBlocks
<1>5. \A b \in Blocks : Finished(b)' /\ e > 0 => pass = 2
  BY <1>1 DEF Finished
<1>6. ASSUME NEW b \in Blocks, Finished(b)', e > 0 PROVE AtEnd(b)' \/ Given(b) = 2 * quota[b]
  <2>1. CASE b = p
    BY <1>1, <1>5, <1>6, <2>1 DEF AtEnd, End, input
  <2>2. CASE Finished(b)
    <3>1. left > 0
      BY <1>5, <1>6, GivenTyped
    <3> QED  BY <2>2, <3>1 DEF GivenInv
  <2> QED  BY <1>4, <1>6, <2>1, <2>2
<1> QED  BY <1>1, <1>2, <1>6 DEF GivenInv, InBlocks

LEMMA GivenBlockFull == QuotaInv /\ GivenInv /\ BlockFull => GivenInv'
<1> SUFFICES ASSUME QuotaInv, GivenInv, BlockFull PROVE GivenInv'
  OBVIOUS
<1>1. /\ pc = "pairs" /\ p \in Blocks /\ used[p] = quota[p]
      /\ \A b \in Blocks : AtEnd(b) => AtEnd(b)'
  BY AtBlock DEF BlockFull, IsFull, AtEnd, End, Return, input
<1>2. CASE pass = 1
  <2>1. Return(left)
    BY <1>2 DEF BlockFull
  <2> QED  BY <1>1, <1>2, <2>1, GivenTyped, GivenReturn
<1>3. CASE pass = 2
  <2>1. count <= left /\ left - count \in 0 .. total /\ left - count \in Nat
    BY <1>1, <1>3, AtBlock, GivenTyped
  <2>2. Return(left - count)
    BY <1>3, <2>1, WrapNothing DEF BlockFull, QuotaInv, TypeOK
  <2>3. left - count > 0 => Given(p) = 2 * quota[p]
    <3>1. /\ used[p] = count + IF left < quota[p] THEN quota[p] - left ELSE 0
          /\ Given(p) = quota[p] + count
      BY <1>1, <1>3 DEF GivenInv
    <3>2. /\ quota[p] \in Nat /\ used[p] \in Nat /\ left \in Nat /\ count \in Nat
          /\ Given(p) \in Nat
      BY <1>1, GivenTyped
    <3>3. used[p] = quota[p]
      BY <1>1
    <3>4. CASE left < quota[p]
      BY <3>1, <3>2, <3>3, <3>4
    <3>5. CASE ~(left < quota[p])
      BY <3>1, <3>2, <3>3, <3>5
    <3> QED  BY <3>4, <3>5
  <2>4. left - count <= left /\ left - count <= total
    BY <2>1, GivenTyped
  <2> QED  BY <1>1, <1>3, <2>1, <2>2, <2>3, <2>4, GivenReturn
<1> QED  BY <1>2, <1>3, GivenTyped

LEMMA GivenBlockExhausted == QuotaInv /\ GivenInv /\ BlockExhausted => GivenInv'
<1> SUFFICES ASSUME QuotaInv, GivenInv, BlockExhausted PROVE GivenInv'
  OBVIOUS
<1>1. pc = "pairs" /\ p \in Blocks
  BY AtBlock DEF BlockExhausted
<1>2. outer'[p] = End(p) /\ \A b \in Blocks : AtEnd(b) => AtEnd(b)'
  BY <1>1 DEF QuotaInv, TypeOK, BlockExhausted, AtEnd, End, Return, input
<1>3. CASE pass = 1
  <2>1. left + quota[p] - count \in 0 .. total
    BY <1>1, <1>3, AtBlock, GivenTyped
  <2>2. Return(left + quota[p] - count)
    BY <1>3, <2>1, WrapNothing DEF BlockExhausted, QuotaInv, TypeOK
  <2>3. left + quota[p] - count \in Nat /\ left + quota[p] - count <= total
    BY <2>1, GivenTyped
  <2> QED  BY <1>1, <1>2, <1>3, <2>2, <2>3, GivenReturn
<1>4. CASE pass = 2
  <2>1. count <= left /\ left - count \in 0 .. total
    BY <1>1, <1>4, AtBlock, GivenTyped
  <2>2. Return(left - count)
    BY <1>4, <2>1, WrapNothing DEF BlockExhausted, QuotaInv, TypeOK
  <2>3. left - count \in Nat /\ left - count <= left /\ left - count <= total
    BY <2>1, GivenTyped
  <2> QED  BY <1>1, <1>2, <1>4, <2>2, <2>3, GivenReturn
<1> QED  BY <1>3, <1>4, GivenTyped

LEMMA GivenSecondRound == QuotaInv /\ GivenInv /\ SecondRound => GivenInv'
<1> SUFFICES ASSUME QuotaInv, GivenInv, SecondRound PROVE GivenInv'
  OBVIOUS
<1>1. \A b \in Blocks : Given(b)' = Given(b)
  BY GivenSame DEF SecondRound
<1>2. \A b \in Blocks : ~Finished(b)'
  BY GivenTyped DEF Finished, SecondRound
<1> QED  BY <1>1, <1>2 DEF GivenInv, InBlocks, SecondRound, shares

\* Steps after the second round.
LEMMA GivenControl == QuotaInv /\ GivenInv /\ (SetDone \/ PrintSet \/ NoFile) => GivenInv'
<1> SUFFICES ASSUME QuotaInv, GivenInv, SetDone \/ PrintSet \/ NoFile PROVE GivenInv'
  OBVIOUS
<1>1. /\ \A b \in Blocks : Given(b)' = Given(b) /\ AtEnd(b)' = AtEnd(b)
      /\ UNCHANGED <<quota, left>> /\ pc' \in {"created", "printed", "thrown"}
  BY GivenSame DEF SetDone, PrintSet, NoFile, shares, cursors, input, AtEnd, End
<1>2. \A b \in Blocks : Finished(b)' => Finished(b)
  BY GivenTyped DEF Finished, InBlocks, SetDone, PrintSet, NoFile
<1> QED  BY <1>1, <1>2 DEF GivenInv, Settled, InBlocks

LEMMA GivenNext == QuotaInv /\ QuotaInv' /\ GivenInv /\ [Next]_vars => GivenInv'
<1> SUFFICES ASSUME QuotaInv, QuotaInv', GivenInv, [Next]_vars PROVE GivenInv'
  OBVIOUS
<1>1. CASE Weigh \/ WeighDone \/ AssignQuota \/ ResetDone \/ Reset
  <2>1. pc' \in {"weigh", "assign", "ready"}
    BY <1>1 DEF Weigh, WeighDone, AssignQuota, ResetDone, Reset
  <2> QED  BY <2>1, GivenBefore
<1>2. CASE UNCHANGED vars
  BY <1>2 DEF vars, GivenInv, Given, Settled, Finished, InBlocks, AtEnd, End
<1> QED  BY <1>1, <1>2, GivenCreateSet, GivenSkipBlock, GivenEnterBlock, GivenTakePair,
         GivenPassPair, GivenBlockFull, GivenBlockExhausted, GivenSecondRound, GivenControl DEF Next

\* No block gives more than its quota twice, and quota that is left over after the
\* second round could not have been used by any block.
THEOREM SecondShareProved == Spec => []SecondShare
<1>1. GivenInv => SecondShare
  BY DEF GivenInv, SecondShare, Finished
<1> QED  BY <1>1, GivenInit, GivenNext, QuotaInvariant, PTL DEF Spec

-----------------------------------------------------------------------------
(* The call takes finitely many steps.                                     *)

\* What is left to do, the coarsest first: the sets, the phases of a set, the
\* blocks of a pass, the call for the block, and the places of its two cursors.
PhasesLeft ==
  CASE pc = "weigh"   -> 6
    [] pc = "assign"  -> 5
    [] pc = "ready"   -> 4
    [] pc \in {"blocks", "pairs"} -> 4 - pass
    [] pc = "created" -> 1
    [] OTHER          -> 0
OuterLeft == IF pc = "pairs" THEN End(p) - outer[p] ELSE 0
InnerLeft == IF pc = "pairs" THEN End(p) - inner[p] ELSE 0

Measure ==
  <<2 - set, PhasesLeft, Last - p, IF pc = "pairs" THEN 0 ELSE 1, OuterLeft, InnerLeft>>

LEMMA MeasureNat == QuotaInv => \A k \in 1 .. 6 : Measure[k] \in Nat
<1> SUFFICES ASSUME QuotaInv PROVE \A k \in 1 .. 6 : Measure[k] \in Nat
  OBVIOUS
<1>1. 2 - set \in Nat /\ Last - p \in Nat
  BY Inputs DEF QuotaInv, TypeOK
<1>2. PhasesLeft \in Nat
  BY DEF QuotaInv, TypeOK, PhasesLeft
<1>3. pc = "pairs" => p \in Blocks
  BY AtBlock
<1>4. \A b \in Blocks : /\ End(b) \in Nat /\ outer[b] \in Nat /\ inner[b] \in Nat
                         /\ outer[b] <= End(b) /\ inner[b] <= End(b)
  BY Inputs DEF QuotaInv, TypeOK, End
<1>5. OuterLeft \in Nat /\ InnerLeft \in Nat
  BY <1>3, <1>4 DEF OuterLeft, InnerLeft
<1> QED
  BY <1>1, <1>2, <1>5 DEF Measure

\* Every step decreases it.
LEMMA MeasureStep == QuotaInv /\ Next => LexLess(Measure', Measure, 6)
<1> SUFFICES ASSUME QuotaInv, Next PROVE LexLess(Measure', Measure, 6)
  OBVIOUS
<1> DEFINE Goal == LexLess(Measure', Measure, 6)
<1>0. /\ set \in {1, 2} /\ pass \in {1, 2} /\ p \in Nat /\ Last \in Nat /\ p <= Last
      /\ size \in [Blocks -> Nat] /\ outer \in [Blocks -> Nat] /\ inner \in [Blocks -> Nat]
  BY Inputs DEF QuotaInv, TypeOK
<1>1. CASE Weigh \/ AssignQuota \/ SkipBlock
  <2>1. p' = p + 1 /\ set' = set /\ PhasesLeft' = PhasesLeft
    BY <1>1 DEF Weigh, AssignQuota, SkipBlock, PhasesLeft
  <2>2. p # Last
    BY <1>1 DEF Weigh, AssignQuota, SkipBlock
  <2>3. Last' = Last
    BY DEF Last
  <2> QED
    BY <1>0, <2>1, <2>2, <2>3, LexSix DEF Measure
<1>2. CASE WeighDone \/ ResetDone \/ CreateSet \/ SecondRound \/ SetDone \/ PrintSet \/ NoFile
  <2>1. set' = set
    BY <1>2 DEF WeighDone, ResetDone, CreateSet, SecondRound, SetDone, PrintSet, NoFile
  <2>2. PhasesLeft' < PhasesLeft
    BY <1>0, <1>2 DEF WeighDone, ResetDone, CreateSet, SecondRound, SetDone, PrintSet, NoFile, PhasesLeft
  <2> QED
    BY <1>0, <2>1, <2>2, LexSix DEF Measure
<1>3. CASE EnterBlock
  <2>1. set' = set /\ PhasesLeft' = PhasesLeft /\ p' = p /\ Last' = Last /\ pc = "blocks" /\ pc' = "pairs"
    BY <1>3 DEF EnterBlock, PhasesLeft, Last
  <2> QED
    BY <2>1, LexSix DEF Measure
<1>4. CASE TakePair \/ PassPair
  <2>1. /\ set' = set /\ PhasesLeft' = PhasesLeft /\ p' = p /\ Last' = Last
        /\ pc = "pairs" /\ pc' = "pairs" /\ size' = size /\ AtPair /\ Advance
    BY <1>4 DEF TakePair, PassPair, AtPair, PhasesLeft, Last, input
  <2>2. p \in Blocks /\ size[p] \in Nat /\ outer[p] \in Nat /\ inner[p] \in Nat
    BY <1>0, <2>1, AtBlock
  <2>3. outer[p] <= End(p) /\ inner[p] <= End(p) /\ outer[p] # End(p) /\ inner[p] # End(p)
    BY <2>1, <2>2 DEF QuotaInv, TypeOK, AtPair, AtEnd
  <2>4. End(p)' = End(p) /\ End(p) = size[p] + 1
    BY <2>1 DEF End
  <2>5. outer'[p] = MoveCursor(outer[p], inner[p])[1] /\ inner'[p] = MoveCursor(outer[p], inner[p])[2]
    BY <1>0, <2>1, <2>2 DEF Advance
  <2>6. \/ outer'[p] = outer[p] /\ inner'[p] = inner[p] + 1
        \/ outer'[p] = outer[p] + 1
        \/ outer'[p] = End(p)
    BY <2>5 DEF MoveCursor
  <2>7. OuterLeft' < OuterLeft \/ (OuterLeft' = OuterLeft /\ InnerLeft' < InnerLeft)
    BY <2>1, <2>2, <2>3, <2>4, <2>6 DEF OuterLeft, InnerLeft
  <2> QED
    BY <2>1, <2>7, LexSix DEF Measure
<1>5. CASE BlockFull \/ BlockExhausted
  <2>1. /\ set' = set /\ PhasesLeft' = PhasesLeft /\ Last' = Last
        /\ p' = Last \/ p' = p + 1
    BY <1>5 DEF BlockFull, BlockExhausted, Return, PhasesLeft, Last
  <2>2. p # Last
    BY <1>5 DEF QuotaInv, ShareInv, BlockFull, BlockExhausted
  <2> QED
    BY <1>0, <2>1, <2>2, LexSix DEF Measure
<1>6. CASE Reset
  BY <1>0, <1>6, LexSix DEF Reset, Measure
<1> QED
  BY <1>1, <1>2, <1>3, <1>4, <1>5, <1>6 DEF Next

\* Every step of the two calls leaves less to do, in an order in which nothing
\* decreases for ever (NoDescent): however the pairs fall out, the passes over
\* the blocks and their cursors come to an end.
THEOREM QuotaDescends ==
  Spec => /\ [](\A k \in 1 .. 6 : Measure[k] \in Nat)
          /\ [][LexLess(Measure', Measure, 6)]_vars
<1>1. QuotaInv /\ [Next]_vars => [LexLess(Measure', Measure, 6)]_vars
  BY MeasureStep
<1> QED
  BY <1>1, MeasureNat, QuotaInvariant, PTL DEF Spec
=============================================================================
