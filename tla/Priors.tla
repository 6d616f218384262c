------------------------------- MODULE Priors -------------------------------
(***************************************************************************)
(* The prior probability of a block: the share of pairs of its records     *)
(* that are in one cluster already, changed by how frequent the parts of   *)
(* its blocking string are; and which blocks are active, by the debug      *)
(* block file of the round.                                                *)
(*                                                                         *)
(* Probabilities are in units of 1 / One, logarithms in thousandths, both  *)
(* rounded up: what is not 0 does not become 0, as among doubles.          *)
(***************************************************************************)
EXTENDS NameTraining

CONSTANTS
  BlockColumns,  \* of each round: the parts [column, nchar, forward] of its blocking string
  Log(_, _),     \* 1000 * log(m / n) of two counts, rounded up
  frequency_adjust_mode

ASSUME PriorsAssumption ==
  /\ frequency_adjust_mode \in BOOLEAN
  /\ \A l \in Lists : \A m \in 1 .. Len(l) : \A n \in 1 .. m :
       /\ Log(m, n) \in Nat /\ (Log(m, n) = 0 <=> m = n)
       /\ \A fewer \in 1 .. n : Log(m, fewer) >= Log(m, n)

One == 100000000
UninvolvedIndex == 2  \* the place of the middle name in BlockColumns
PriorMax == 95 * (One \div 100)
PriorDefault == One \div 1000000

\* p times thousandths.
Scaled(p, thousandths) ==
  (p \div 1000) * thousandths + ((p % 1000) * thousandths + 999) \div 1000

-----------------------------------------------------------------------------
(* Blocks.  A cluster is [head, members]. *)

\* StringTruncate, from the start of the string.
Truncate(s, part) ==
  IF part.nchar = 0 THEN IF part.forward THEN s ELSE <<>>
  ELSE IF part.forward THEN SubSeq(s, 1, Min({part.nchar, Len(s)})) ELSE <<>>

\* extract_column_info and extract_blocking_info.
Piece(r, part) ==
  Truncate(CASE part.column = "Firstname" -> r["Firstword"]
             [] part.column = "Middlename" -> r["Initials"]
             [] part.column = "Lastname" -> Spelling(r["Lastname"]), part)
BlockId(round, r) == [k \in DOMAIN BlockColumns[round] |-> Piece(r, BlockColumns[round][k])]

\* get_useless_string.
Useless(round) == [k \in DOMAIN BlockColumns[round] |-> <<>>]

\* cluster_by_block: the clusters of each block, by their delegates.
BlocksOf(round, clusters) ==
  LET id(cl) == BlockId(round, records[cl.head])
  IN  [b \in {id(cl) : cl \in clusters} |-> {cl \in clusters : id(cl) = b}]

-----------------------------------------------------------------------------
(* column_stat, max_occurrence *)

\* The part is counted once for every block it is in.
Counted(blocks, k) ==
  [v \in {b[k] : b \in DOMAIN blocks} |-> Cardinality({b \in DOMAIN blocks : b[k] = v})]

\* The highest count, the empty string's apart.
MaxOccurrence(blocks, k) ==
  LET counts == Counted(blocks, k)
  IN  Max({0} \cup {counts[v] : v \in DOMAIN counts \ {<<>>}})

\* What is counted oftener, the empty string, counts as often as that.
ColumnStat(blocks, k) ==
  LET counts == Counted(blocks, k)
  IN  [v \in DOMAIN counts |-> Min({counts[v], MaxOccurrence(blocks, k)})]

-----------------------------------------------------------------------------
(* reset_block_activity, config_prior, get_prior_value *)

\* The blocks of the file that exist; all of them when there is none.
Active(blocks, listed) ==
  IF listed \cap DOMAIN blocks = {} THEN DOMAIN blocks ELSE listed \cap DOMAIN blocks

\* get_initial_prior.
InitialPrior(clusters) ==
  LET size(cl) == Cardinality(cl.members)
      all      == SumFunction([cl \in clusters |-> size(cl)])
      together == SumFunction([cl \in clusters |-> size(cl) * (size(cl) - 1)])
      ordered  == all * (all - 1)
  IN  IF together = 0 THEN PriorDefault ELSE (One * together + ordered - 1) \div ordered

Involved(b) == DOMAIN b \ {UninvolvedIndex}

\* The factor of a part, in thousandths.
Factor(blocks, b, k) ==
  IF frequency_adjust_mode /\ MaxOccurrence(blocks, k) # 0
  THEN Log(MaxOccurrence(blocks, k), ColumnStat(blocks, k)[b[k]])
  ELSE 1000

\* prior times the factors of the parts in S, in the order of the columns.
TimesFactors(blocks, b, prior, S) ==
  LET product[k \in 0 .. Len(b)] ==
        IF k = 0 THEN prior
        ELSE IF k \in S THEN Scaled(product[k - 1], Factor(blocks, b, k))
        ELSE product[k - 1]
  IN  product[Len(b)]

\* A plausible bug: all factors are multiplied.
AdjustedByAll(blocks, b, prior) == TimesFactors(blocks, b, prior, Involved(b))

\* The largest factor, or the product of those above 1.
Adjusted(blocks, b, prior) ==
  LET final == Max({0} \cup {Factor(blocks, b, k) : k \in Involved(b)})
      above == {k \in Involved(b) : Factor(blocks, b, k) > 1000}
  IN  IF final <= 1000 THEN Scaled(prior, final) ELSE TimesFactors(blocks, b, prior, above)

\* get_prior_value.
PriorValue(blocks, b) == Min({Adjusted(blocks, b, InitialPrior(blocks[b])), PriorMax})

\* A plausible bug: in debug mode it is the active blocks that are left out.
ConfigPriorOfInactive(blocks, active, debug) ==
  [b \in {b \in DOMAIN blocks : ~ (debug /\ b \in active)} |-> PriorValue(blocks, b)]

\* config_prior.
ConfigPrior(blocks, active, debug) ==
  [b \in {b \in DOMAIN blocks : ~ (debug /\ b \notin active)} |-> PriorValue(blocks, b)]

\* Cluster::disambiguate: a prior of 0 is replaced.
PriorToUse(prior) == IF prior = 0 THEN One \div 100 ELSE prior
=============================================================================
