---------------------------- MODULE TrainingQuota ----------------------------
(***************************************************************************)
(* The two training sets that every round makes from its blocks (class     *)
(* cBlocking_For_Training): the limit of record pairs is shared out among  *)
(* the blocks by their size, create_set takes pairs from each block up to  *)
(* its quota, then goes through the blocks once more with the quota that   *)
(* was left over, and the pairs are printed.  reset prepares the object    *)
(* for the second set.                                                     *)
(*                                                                         *)
(* Blocks are numbers in map order and the records of a block are the      *)
(* numbers 1 .. size in list order.  Whether a pair is fit for the set is  *)
(* a function of the two records; a set tests a pair at most once, so the  *)
(* model takes either answer.                                              *)
(***************************************************************************)
EXTENDS Integers, Sequences, FiniteSets

CONSTANTS
  NumBlocks,      \* number of blocks
  Shapes,         \* the sizes the blocks may have
  Quotas,         \* the limits the configuration may give
  NullBlocks,     \* the block of the records with an empty blocking string
  Modulus         \* 2^32

Blocks == 1 .. NumBlocks

ASSUME QuotaAssumption ==
  /\ NumBlocks \in Nat
  /\ Shapes \subseteq [Blocks -> Nat \ {0}]
  /\ Modulus \in Nat /\ Modulus > 0
  /\ Quotas \subseteq Nat /\ \A q \in Quotas : 2 * q < Modulus
  /\ NullBlocks \subseteq Blocks

VARIABLES
  size,         \* size of each block, an input
  total,        \* total_quota, an input
  set,          \* 1 for xset01, 2 for tset05
  pc,           \* where the program is
  p,            \* the block the current loop is at
  pass,         \* first or second round of create_set
  quota,        \* quota_map
  used,         \* used_quota_map
  outer,        \* outer_cursor_map
  inner,        \* inner_cursor_map
  weightTo,     \* quota_distributor after each number of blocks
  quotaTo,      \* temp_sum after each number of blocks
  left,         \* quota_left
  count,        \* count of the function working on a block
  pairs,        \* pair_count
  wasUsed,      \* was_used
  chosen        \* chosen_pairs

input   == <<size, total>>
shares  == <<quota, weightTo, quotaTo>>
cursors == <<outer, inner>>
vars == <<size, total, set, pc, p, pass, quota, used, outer, inner,
          weightTo, quotaTo, left, count, pairs, wasUsed, chosen>>

Last   == NumBlocks + 1           \* blocking_data.end()
End(b) == size[b] + 1             \* end() of a block's list
Sums   == 0 .. NumBlocks

Wrap(x) == IF x < 0 THEN x + Modulus ELSE IF x >= Modulus THEN x - Modulus ELSE x

\* static_cast<int>(x) > 0
IsPositive(x) == 0 < x /\ 2 * x < Modulus

Pair(b, i, j) == [set |-> set, block |-> b, fst |-> i, snd |-> j]

TypeOK ==
  /\ size \in Shapes /\ total \in Quotas
  /\ set \in {1, 2} /\ pass \in {1, 2}
  /\ pc \in {"weigh", "assign", "ready", "blocks", "pairs", "created", "printed", "thrown"}
  /\ p \in 1 .. Last
  /\ quota \in [Blocks -> 0 .. total]
  /\ used \in [Blocks -> 0 .. total]
  /\ outer \in [Blocks -> Nat] /\ inner \in [Blocks -> Nat]
  /\ \A b \in Blocks : outer[b] <= End(b) /\ inner[b] <= End(b)
  /\ weightTo \in [Sums -> Nat] /\ quotaTo \in [Sums -> Nat]
  /\ left \in 0 .. total /\ count \in 0 .. total /\ pairs \in 0 .. total
  /\ wasUsed \in BOOLEAN
  /\ chosen \in Seq([set : {1, 2}, block : Blocks, fst : Nat, snd : Nat])
  /\ Len(chosen) <= total

-----------------------------------------------------------------------------
(* reset: the weights are added up, then each block gets its quota.        *)

Weight(b) == IF b \in NullBlocks THEN 0 ELSE size[b] * (size[b] - 1)

Distributor == weightTo[NumBlocks]

\* 1.0 * total_quota / quota_distributor * size * (size - 1), truncated.  The
\* quotient is rounded, so a whole result may come out as the number below.
\* When no block has a pair it is 0 / 0 or a multiple of it, which x86-64
\* converts to 0.
QuotaOf(b) ==
  IF Distributor = 0
  THEN {0}
  ELSE {q \in 0 .. total : /\ q * Distributor <= total * Weight(b)
                           /\ total * Weight(b) <= (q + 1) * Distributor}

Init ==
  /\ size \in Shapes /\ total \in Quotas
  /\ set = 1 /\ pc = "weigh" /\ p = 1 /\ pass = 1
  /\ quota = [b \in Blocks |-> 0] /\ used = [b \in Blocks |-> 0]
  /\ outer = [b \in Blocks |-> 0] /\ inner = [b \in Blocks |-> 0]
  /\ weightTo = [n \in Sums |-> 0] /\ quotaTo = [n \in Sums |-> 0]
  /\ left = 0 /\ count = 0 /\ pairs = 0
  /\ wasUsed = FALSE
  /\ chosen = <<>>

Weigh ==
  /\ pc = "weigh" /\ p # Last
  /\ weightTo' = [weightTo EXCEPT ![p] = weightTo[p - 1] + Weight(p)]
  /\ p' = p + 1
  /\ UNCHANGED <<input, set, pc, pass, quota, used, cursors, quotaTo, left, count, pairs, wasUsed, chosen>>

WeighDone ==
  /\ pc = "weigh" /\ p = Last
  /\ pc' = "assign" /\ p' = 1
  /\ UNCHANGED <<input, set, pass, shares, used, cursors, left, count, pairs, wasUsed, chosen>>

\* A block gets its quota and its cursors the first pair.
AssignQuota ==
  /\ pc = "assign" /\ p # Last
  /\ \E q \in QuotaOf(p) :
       /\ quota' = [quota EXCEPT ![p] = q]
       /\ quotaTo' = [quotaTo EXCEPT ![p] = quotaTo[p - 1] + q]
  /\ used' = [used EXCEPT ![p] = 0]
  /\ outer' = [outer EXCEPT ![p] = 1]
  /\ inner' = [inner EXCEPT ![p] = 2]
  /\ p' = p + 1
  /\ UNCHANGED <<input, set, pc, pass, weightTo, left, count, pairs, wasUsed, chosen>>

ResetDone ==
  /\ pc = "assign" /\ p = Last
  /\ left' = Wrap(total - quotaTo[NumBlocks])
  /\ wasUsed' = FALSE
  /\ pc' = "ready"
  /\ UNCHANGED <<input, set, p, pass, shares, used, cursors, count, pairs, chosen>>

-----------------------------------------------------------------------------
(* create_set                                                              *)

CreateSet ==
  /\ pc = "ready"
  /\ pc' = IF wasUsed THEN "thrown" ELSE "blocks"
  /\ p' = 1 /\ pass' = 1 /\ pairs' = 0
  /\ UNCHANGED <<input, set, shares, used, cursors, left, count, wasUsed, chosen>>

AtEnd(b)  == outer[b] = End(b)
IsFull(b) == used[b] = quota[b]

SkipBlock ==
  /\ pc = "blocks" /\ p # Last
  /\ AtEnd(p) \/ (pass = 1 /\ IsFull(p))
  /\ p' = p + 1
  /\ UNCHANGED <<input, set, pc, pass, shares, used, cursors, left, count, pairs, wasUsed, chosen>>

\* Faulty variant: the block gets none of the free quota.
EnterBlockUnchanged ==
  /\ pc = "blocks" /\ p # Last /\ ~AtEnd(p) /\ (pass = 1 => ~IsFull(p))
  /\ count' = 0 /\ pc' = "pairs"
  /\ UNCHANGED <<input, set, p, pass, shares, used, cursors, left, pairs, wasUsed, chosen>>

\* Faulty variant: the second round lets every block have its whole quota.
EnterBlockWhole ==
  /\ pc = "blocks" /\ p # Last /\ ~AtEnd(p) /\ (pass = 1 => ~IsFull(p))
  /\ used' = [used EXCEPT ![p] = 0]
  /\ count' = 0 /\ pc' = "pairs"
  /\ UNCHANGED <<input, set, p, pass, shares, cursors, left, pairs, wasUsed, chosen>>

\* The call of create_xset01_on_block or create_tset05_on_block.  In the second
\* round the block may take as many pairs as there is free quota, but never
\* more than its own quota again.
EnterBlock ==
  /\ pc = "blocks" /\ p # Last
  /\ ~AtEnd(p)
  /\ pass = 1 => ~IsFull(p)
  /\ used' = IF pass = 1 THEN used
             ELSE [used EXCEPT ![p] = IF left < used[p] THEN used[p] - left ELSE 0]
  /\ count' = 0
  /\ pc' = "pairs"
  /\ UNCHANGED <<input, set, p, pass, shares, cursors, left, pairs, wasUsed, chosen>>

\* Faulty variant: the outer cursor is not moved when the inner one is through.
MoveCursorSameOuter(o, i) == IF i < size[p] THEN <<o, i + 1>> ELSE <<o, o + 1>>

\* move_cursor on two cursors of block p.
MoveCursor(o, i) ==
  IF i < size[p] THEN <<o, i + 1>>
  ELSE IF o + 2 <= size[p] THEN <<o + 1, o + 2>>
  ELSE <<End(p), End(p)>>

Advance ==
  LET c == MoveCursor(outer[p], inner[p])
  IN  outer' = [outer EXCEPT ![p] = c[1]] /\ inner' = [inner EXCEPT ![p] = c[2]]

AtPair == pc = "pairs" /\ ~AtEnd(p) /\ ~IsFull(p) /\ inner[p] # End(p)

TakePair ==
  /\ AtPair
  /\ chosen' = Append(chosen, Pair(p, outer[p], inner[p]))
  /\ used' = [used EXCEPT ![p] = @ + 1]
  /\ count' = count + 1
  /\ Advance
  /\ UNCHANGED <<input, set, pc, p, pass, shares, left, pairs, wasUsed>>

\* One of the conditions of the set is not met.
PassPair ==
  /\ AtPair
  /\ Advance
  /\ UNCHANGED <<input, set, pc, p, pass, shares, used, left, count, pairs, wasUsed, chosen>>

\* Back in create_set; the second round stops when no quota is left.
Return(leftNow) ==
  /\ left' = leftNow
  /\ pairs' = pairs + count
  /\ pc' = "blocks"
  /\ p' = IF pass = 2 /\ ~IsPositive(leftNow) THEN Last ELSE p + 1
  /\ UNCHANGED <<input, set, pass, shares, used, inner, count, wasUsed, chosen>>

\* The block has used its quota.
BlockFull ==
  /\ pc = "pairs" /\ ~AtEnd(p) /\ IsFull(p)
  /\ Return(IF pass = 1 THEN left ELSE Wrap(left - count))
  /\ UNCHANGED outer

\* The block has no pair left; the first round makes the rest of its quota free.
BlockExhausted ==
  /\ pc = "pairs" /\ inner[p] = End(p)
  /\ ~AtEnd(p) => ~IsFull(p)
  /\ outer' = [outer EXCEPT ![p] = End(p)]
  /\ Return(IF pass = 1 THEN Wrap(left + quota[p] - count) ELSE Wrap(left - count))

SecondRound ==
  /\ pc = "blocks" /\ p = Last /\ pass = 1
  /\ pass' = 2 /\ p' = 1
  /\ UNCHANGED <<input, set, pc, shares, used, cursors, left, count, pairs, wasUsed, chosen>>

SetDone ==
  /\ pc = "blocks" /\ p = Last /\ pass = 2
  /\ pc' = "created"
  /\ wasUsed' = TRUE
  /\ UNCHANGED <<input, set, p, pass, shares, used, cursors, left, count, pairs, chosen>>

-----------------------------------------------------------------------------
(* make_changable_training_sets_by_patent                                  *)

PrintSet ==
  /\ pc = "created"
  /\ pc' = IF wasUsed THEN "printed" ELSE "thrown"
  /\ UNCHANGED <<input, set, p, pass, shares, used, cursors, left, count, pairs, wasUsed, chosen>>

\* The output file cannot be opened.
NoFile ==
  /\ pc = "created"
  /\ pc' = "thrown"
  /\ UNCHANGED <<input, set, p, pass, shares, used, cursors, left, count, pairs, wasUsed, chosen>>

\* Faulty variant: the pairs of the first set are still there.
ResetKeepsPairs ==
  /\ pc = "printed" /\ set = 1
  /\ set' = 2 /\ pc' = "weigh" /\ p' = 1
  /\ quota' = [b \in Blocks |-> 0] /\ used' = [b \in Blocks |-> 0]
  /\ outer' = [b \in Blocks |-> 0] /\ inner' = [b \in Blocks |-> 0]
  /\ weightTo' = [n \in Sums |-> 0] /\ quotaTo' = [n \in Sums |-> 0]
  /\ UNCHANGED <<input, pass, left, count, pairs, wasUsed, chosen>>

\* The call of reset between the two sets: all maps and the list are cleared.
Reset ==
  /\ pc = "printed" /\ set = 1
  /\ set' = 2 /\ pc' = "weigh" /\ p' = 1
  /\ quota' = [b \in Blocks |-> 0] /\ used' = [b \in Blocks |-> 0]
  /\ outer' = [b \in Blocks |-> 0] /\ inner' = [b \in Blocks |-> 0]
  /\ weightTo' = [n \in Sums |-> 0] /\ quotaTo' = [n \in Sums |-> 0]
  /\ chosen' = <<>>
  /\ UNCHANGED <<input, pass, left, count, pairs, wasUsed>>

Next ==
  \/ Weigh \/ WeighDone \/ AssignQuota \/ ResetDone
  \/ CreateSet \/ SkipBlock \/ EnterBlock \/ TakePair \/ PassPair
  \/ BlockFull \/ BlockExhausted \/ SecondRound \/ SetDone
  \/ PrintSet \/ NoFile \/ Reset

Spec     == Init /\ [][Next]_vars
FairSpec == Spec /\ WF_vars(Next)

-----------------------------------------------------------------------------
(* Properties.                                                             *)

\* The quotas of the blocks the first round has not finished with.
Promised == IF pass = 1 THEN quotaTo[NumBlocks] - quotaTo[p - 1] ELSE 0

\* From the first block to the printed file, the pairs obtained, the free quota
\* and what is still promised to blocks add up to the limit, and the list holds
\* just the pairs obtained.  So quota_left never wraps around and a set never
\* has more pairs than the limit (training.cpp:197, 390, 609-626).
QuotaConserved ==
  pc \in {"blocks", "pairs", "created", "printed"} =>
    /\ pairs + left + Promised = total
    /\ Len(chosen) = pairs + IF pc = "pairs" THEN count ELSE 0
    /\ pc = "pairs" /\ pass = 2 => count <= left

\* A set holds pairs of two records of one block, each pair at most once, and
\* none that the set before left behind: both cursors go on from where the first
\* round stopped, and start afresh with reset (training.cpp:165-197, 204-223).
FreshPairs ==
  /\ \A k \in DOMAIN chosen :
       LET c == chosen[k]
       IN  /\ c.set = set /\ c.fst < c.snd /\ c.snd <= size[c.block]
           /\ \/ c.fst < outer[c.block]
              \/ c.fst = outer[c.block] /\ c.snd < inner[c.block]
  /\ \A k, l \in DOMAIN chosen : k # l => chosen[k] # chosen[l]

Given(b) == Cardinality({k \in DOMAIN chosen : chosen[k].block = b})

\* The second round takes from a block at most its quota once more, and when it
\* leaves quota over, every block has given that much or has no pair left
\* (training.cpp:597-626 with the tests at 269 and 426).
SecondShare ==
  /\ \A b \in Blocks : Given(b) <= 2 * quota[b]
  /\ pc = "created" /\ left > 0 =>
       \A b \in Blocks : AtEnd(b) \/ Given(b) = 2 * quota[b]

\* The blocks whose weight, and whose quota, is known are those before these.
WeighedTo  == IF pc = "weigh" THEN p ELSE Last
AssignedTo == IF pc = "weigh" THEN 1 ELSE IF pc = "assign" THEN p ELSE Last

\* weightTo and quotaTo are prefix sums, and the quotas given out so far are no
\* more than the limit's share of the weight they stand for.
SumInv ==
  /\ weightTo[0] = 0 /\ quotaTo[0] = 0
  /\ \A b \in Blocks : b < WeighedTo => weightTo[b] = weightTo[b - 1] + Weight(b)
  /\ \A b \in Blocks : b < AssignedTo => quotaTo[b] = quotaTo[b - 1] + quota[b]
  /\ \A n \in Sums : n < AssignedTo => quotaTo[n] <= quotaTo[AssignedTo - 1]
  /\ quotaTo[AssignedTo - 1] * Distributor <= total * weightTo[AssignedTo - 1]
  /\ Distributor = 0 => quotaTo[AssignedTo - 1] = 0

InBlocks == pc \in {"blocks", "pairs"}

\* The first round has yet to come to block b.
Untouched(b) ==
  \/ pc = "assign" /\ b < p
  \/ pc = "ready"
  \/ InBlocks /\ pass = 1 /\ p <= b /\ (pc = "pairs" => p # b)

\* The first round is over for block b and the second has yet to come to it.
Settled(b) ==
  /\ InBlocks
  /\ IF pass = 1 THEN b < p ELSE p <= b /\ (pc = "pairs" => p # b)

\* What each block has used, and what it may still take.
ShareInv ==
  /\ \A b \in Blocks : Untouched(b) => used[b] = 0 /\ outer[b] = 1
  /\ \A b \in Blocks : Settled(b) => AtEnd(b) \/ IsFull(b)
  /\ InBlocks => \A b \in Blocks : used[b] <= quota[b]
  /\ pc = "pairs" => /\ p # Last
                     /\ IF pass = 1 THEN used[p] = count ELSE quota[p] - used[p] + count <= left
  /\ pc \in {"weigh", "assign", "ready"} => chosen = <<>>
  /\ pc = "ready" => left = total - quotaTo[NumBlocks]

\* The inductive invariant behind QuotaConserved.
QuotaInv == TypeOK /\ SumInv /\ ShareInv /\ QuotaConserved

\* The cursors of a block are in order or at the end; with it FreshPairs is
\* inductive.
CursorInv ==
  \A b \in Blocks :
    \/ pc = "weigh" \/ (pc = "assign" /\ p <= b)
    \/ outer[b] < inner[b] \/ inner[b] = End(b)

\* The second round is over for block b, or will not come to it.
Finished(b) ==
  \/ pc \in {"created", "printed"}
  \/ InBlocks /\ pass = 2 /\ b < p

\* What each block has given, against what create_set counts as used; with it
\* SecondShare is inductive.
GivenInv ==
  /\ \A b \in Blocks : Given(b) <= 2 * quota[b]
  /\ \A b \in Blocks : (InBlocks /\ pass = 1) \/ Settled(b) => Given(b) = used[b]
  /\ pc = "pairs" /\ pass = 2 =>
       /\ Given(p) = quota[p] + count
       /\ used[p] = count + IF left < quota[p] THEN quota[p] - left ELSE 0
  /\ \A b \in Blocks : Finished(b) /\ left > 0 => AtEnd(b) \/ Given(b) = 2 * quota[b]

\* The call comes to its end: both files are printed, or one cannot be opened.
Ends == <>(pc = "thrown" \/ (set = 2 /\ pc = "printed"))

\* What training.h:73-77 says: quota left over by the first round is used up by
\* pairs of any block, so a set is short of the limit only if no pair is left.
FillsQuota ==
  pc = "created" /\ left > 0 =>
    \A b \in Blocks \ NullBlocks : size[b] > 1 => AtEnd(b)
=============================================================================
