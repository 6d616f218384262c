---------------------------- MODULE NameTraining ----------------------------
(***************************************************************************)
(* The two training sets made once, by name, for the patent part of a      *)
(* profile (make_stable_training_sets_by_personal).  A word is rare when   *)
(* it is in few full names but in enough records; the first record of      *)
(* every full name that has a rare word goes to the list of its column.    *)
(* Non-matches are all pairs from the two lists, matches the pairs of      *)
(* records that have both names in common, one of them a name of the list. *)
(*                                                                         *)
(* Records are numbered in the order of the CSV file.                      *)
(***************************************************************************)
EXTENDS Comparisons

CONSTANTS
  Lists,            \* the lists of lines a CSV file may hold
  RARE_NAMES_FLOOR, \* training.h
  RARE_NAMES_UNIQUE,
  RARE_NAMES_MAX,
  Limits            \* NUMBER OF TRAINING PAIRS may be one of these

NameColumns == <<"Firstname", "Lastname">>

ASSUME NameAssumption ==
  /\ RARE_NAMES_FLOOR \in Nat /\ RARE_NAMES_UNIQUE \in Nat /\ RARE_NAMES_MAX \in Nat
  /\ Limits \subseteq Nat
  /\ \A l \in Lists :
       /\ l \in Seq(ToSet(l))
       /\ \A i \in DOMAIN l : \A c \in ToSet(NameColumns) :
            /\ c \in DOMAIN l[i]
            /\ l[i][c] \in Seq(UNION {ToSet(l[j][c]) : j \in DOMAIN l})

VARIABLES
  records,     \* all_records, an input
  limit,       \* an input
  step,        \* where make_stable_training_sets_by_personal is
  rare,        \* the list of records with a rare word, of each name column
  nonmatches,  \* xset03_stable.txt
  matches      \* tset02_stable.txt

input    == <<records, limit>>
nameVars == <<records, limit, step, rare, nonmatches, matches>>

-----------------------------------------------------------------------------
(* The full names are the blocks of cBlocking: labels in a fixed order, and  *)
(* in a block the records in list order.                                     *)

FullName(i) == <<records[i]["Firstname"], records[i]["Lastname"]>>
FirstOf(name) == Min({i \in DOMAIN records : FullName(i) = name})
Size(name)  == Cardinality({i \in DOMAIN records : FullName(i) = name})
Blocks      == SetToSeq({FullName(i) : i \in DOMAIN records})

\* How often a word is in a name.
Occurs(w, name) == Cardinality({k \in DOMAIN name : name[k] = w})

\* build_word_map and choose_rare_words.  A word is counted once for every time it
\* occurs in a name.
Chosen(col) ==
  {w \in UNION {ToSet(Blocks[b][col]) : b \in DOMAIN Blocks} :
     LET blocks == FoldSeq(LAMBDA name, n : n + Occurs(w, name[col]), 0, Blocks)
         total  == FoldSeq(LAMBDA name, n : n + Occurs(w, name[col]) * Size(name), 0, Blocks)
     IN  blocks < RARE_NAMES_FLOOR /\ total > RARE_NAMES_UNIQUE /\ total < RARE_NAMES_MAX}

\* A plausible bug: the loop over the words of a name goes on after the first one
\* chosen.
RareListNoBreak(col) ==
  FlattenSeq([b \in DOMAIN Blocks |->
                LET hits == ToSet(Blocks[b][col]) \cap Chosen(col)
                IN  [k \in 1 .. Cardinality(hits) |-> FirstOf(Blocks[b])]])

\* write_rare_words.
RareList(col) ==
  LET chosen == Chosen(col)
      hits   == Selected(Blocks, {b \in DOMAIN Blocks : ToSet(Blocks[b][col]) \cap chosen # {}})
  IN  [b \in DOMAIN hits |-> FirstOf(hits[b])]

\* The pairs <<i, j>> of positions of a sequence, in the order of two nested loops.
PairsOf(s) ==
  FlattenSeq([i \in DOMAIN s |-> [k \in 1 .. Len(s) - i |-> <<s[i], s[i + k]>>]])

\* count >= limit is tested after a pair was taken.
UpToLimit(s) == SubSeq(s, 1, Min({Len(s), Max({limit, 1})}))

\* A plausible bug: the name of the list is the only one to agree.
SameNamesAnyway(i, j) == TRUE

\* data_ok.
SameNames(i, j) == FullName(i) = FullName(j)

\* The pairs of create_tset02, in the order they are found.  A pair that has both
\* names in the lists is found twice.
Found ==
  LET name(col, i) == records[i][NameColumns[col]]
      names(col) == SetToSeq({name(col, rare[col][k]) : k \in DOMAIN rare[col]})
      group(col, n) == Listed({i \in DOMAIN records : name(col, i) = n})
      column(col) == FlattenSeq([k \in DOMAIN names(col) |-> PairsOf(group(col, names(col)[k]))])
      pairs == column(1) \o column(2)
  IN  Selected(pairs, {p \in DOMAIN pairs : SameNames(pairs[p][1], pairs[p][2])})

-----------------------------------------------------------------------------

NameInit ==
  /\ records \in {[i \in DOMAIN l |-> Split(l[i])] : l \in Lists} /\ limit \in Limits
  /\ step = "rare"
  /\ rare = <<<<>>, <<>>>> /\ nonmatches = <<>> /\ matches = {}

\* find_rare_names_v2.
FindRareNames ==
  /\ step = "rare" /\ step' = "nonmatches"
  /\ rare' = [col \in 1 .. 2 |-> RareList(col)]
  /\ UNCHANGED <<input, nonmatches, matches>>

\* create_xset03: the pool is both lists, one behind the other.
CreateNonMatches ==
  /\ step = "nonmatches" /\ step' = "matches"
  /\ nonmatches' = UpToLimit(PairsOf(rare[1] \o rare[2]))
  /\ UNCHANGED <<input, rare, matches>>

\* create_tset02: the limit counts every time a pair is found.
CreateMatches ==
  /\ step = "matches" /\ step' = "made"
  /\ matches' = ToSet(UpToLimit(Found))
  /\ UNCHANGED <<input, rare, nonmatches>>

NameNext == FindRareNames \/ CreateNonMatches \/ CreateMatches
=============================================================================
