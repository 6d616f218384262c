------------------------------ MODULE BlockLoop ------------------------------
(***************************************************************************)
(* The disambiguation of one block by one worker: disambiguate_wrapper     *)
(* goes through the thresholds and, for each, repeats disambiguate_by_block*)
(* until the size of the list no longer changes or MAX_ROUNDS passes were  *)
(* made.  A pass compares every cluster of the list with the ones after it *)
(* and merges on the spot, erasing the second from the list.               *)
(*                                                                         *)
(* The list only loses elements, so its nodes are the numbers 1 ..         *)
(* NumClusters in list order and "alive" is what is left of it.            *)
(*                                                                         *)
(* Cluster::disambiguate is a function of the two clusters, the prior and  *)
(* the threshold; the model takes any result, except that a pair of        *)
(* clusters that was found different under a threshold stays different     *)
(* under it as long as neither of them changes.                            *)
(***************************************************************************)
EXTENDS Naturals, FiniteSets

CONSTANTS
  NumClusters,    \* length of the block's list when the round begins
  Records,        \* the records of the block
  Start,          \* members of each cluster then
  Places,         \* informative latitude attributes
  Locations,      \* the place of each record: a set of at most one
  NumThresholds,  \* THRESHOLDS of the engine configuration
  MaxRounds       \* MAX_ROUNDS

Nodes == 1 .. NumClusters
ListEnd == NumClusters + 1        \* the list's end()

ASSUME BlockAssumption ==
  /\ NumClusters \in Nat
  /\ NumThresholds \in Nat \ {0}
  /\ MaxRounds \in Nat \ {0}
  /\ Start \in [Nodes -> (SUBSET Records) \ {{}}]
  /\ \A r \in Records : \E n \in Nodes : r \in Start[n]
  /\ \A m, n \in Nodes : m # n => Start[m] \cap Start[n] = {}
  /\ Locations \in [Records -> SUBSET Places]

VARIABLES
  alive,        \* the nodes still in the list
  members,      \* m_fellows of each node
  locs,         \* locs of each node
  at,           \* where the worker is
  first,        \* first_iter
  second,       \* second_iter
  threshold,    \* position of c in the thresholds
  round,        \* i
  curSize,      \* current_size
  newSize,      \* new_size
  cleared       \* pairs found different under the current threshold

list == <<alive, members, locs>>
loopVars == <<alive, members, locs, at, first, second, threshold, round, curSize, newSize, cleared>>

\* The ways disambiguate_wrapper ends; the first three return false.
Outcomes == {"skipped", "exceeded", "thrown", "success"}

LoopTypeOK ==
  /\ alive \in SUBSET Nodes
  /\ members \in [Nodes -> SUBSET Records]
  /\ locs \in [Nodes -> SUBSET Places]
  /\ at \in {"enter", "pass", "outer", "inner"} \cup Outcomes
  /\ first \in 0 .. ListEnd /\ second \in 0 .. ListEnd
  /\ threshold \in 1 .. NumThresholds
  /\ round \in 0 .. MaxRounds
  /\ curSize \in 0 .. NumClusters /\ newSize \in 0 .. NumClusters
  /\ \A p \in cleared : p.a \in SUBSET Records /\ p.b \in SUBSET Records

-----------------------------------------------------------------------------
(* Clusters.                                                               *)

\* update_locations: the locations of a set of members.
LocationsOf(ms) == UNION {Locations[r] : r \in ms}

\* The copy constructor, which the list is filled through, takes the members
\* and the years but leaves locs empty.
CopiedLocs == {}

\* What Cluster::disambiguate sees of two clusters.
Pair(m, n) == [a |-> members[m], la |-> locs[m], b |-> members[n], lb |-> locs[n]]

\* x is where an iterator at position k of the list is after ++.
IsNext(k, x) ==
  /\ x \in alive \cup {ListEnd}
  /\ k < x
  /\ \A y \in alive : k < y => x <= y

-----------------------------------------------------------------------------

LoopInit ==
  /\ alive = Nodes
  /\ members = Start
  /\ locs = [n \in Nodes |-> CopiedLocs]
  /\ at = "enter"
  /\ first = 0 /\ second = 0
  /\ threshold = 1 /\ round = 0
  /\ curSize = 0 /\ newSize = 0
  /\ cleared = {}

\* The block's tag is the useless string, or the block is not active.
Refuse ==
  /\ at = "enter"
  /\ at' = "skipped"
  /\ UNCHANGED <<list, first, second, threshold, round, curSize, newSize, cleared>>

Enter ==
  /\ at = "enter"
  /\ at' = "pass"
  /\ UNCHANGED <<list, first, second, threshold, round, curSize, newSize, cleared>>

\* Faulty variant: current_size is not updated.
StartPassOldSize ==
  /\ at = "pass"
  /\ \E x \in alive \cup {ListEnd} : IsNext(0, x) /\ first' = x
  /\ at' = "outer"
  /\ UNCHANGED <<list, second, threshold, round, curSize, newSize, cleared>>

\* current_size = new_size, and disambiguate_by_block starts at begin().
StartPass ==
  /\ at = "pass"
  /\ curSize' = newSize
  /\ \E x \in alive \cup {ListEnd} : IsNext(0, x) /\ first' = x
  /\ at' = "outer"
  /\ UNCHANGED <<list, second, threshold, round, newSize, cleared>>

\* second_iter = first_iter; ++second_iter.
StartInner ==
  /\ at = "outer" /\ first # ListEnd
  /\ \E x \in alive \cup {ListEnd} : IsNext(first, x) /\ second' = x
  /\ at' = "inner"
  /\ UNCHANGED <<list, first, threshold, round, curSize, newSize, cleared>>

\* second_iter is at the end: ++first_iter.
EndInner ==
  /\ at = "inner" /\ second = ListEnd
  /\ \E x \in alive \cup {ListEnd} : IsNext(first, x) /\ first' = x
  /\ at' = "outer"
  /\ UNCHANGED <<list, second, threshold, round, curSize, newSize, cleared>>

\* Faulty variant: the mergee stays in the list with its members.
MergeNoErase ==
  /\ at = "inner" /\ second # ListEnd
  /\ Pair(first, second) \notin cleared
  /\ members' = [members EXCEPT ![first] = @ \cup members[second]]
  /\ \E x \in alive \cup {ListEnd} : IsNext(second, x) /\ second' = x
  /\ UNCHANGED <<alive, locs, at, first, threshold, round, curSize, newSize, cleared>>

\* The two clusters are of one inventor: first_iter->merge(*second_iter) and
\* erase(second_iter++).
Merge ==
  /\ at = "inner" /\ second # ListEnd
  /\ Pair(first, second) \notin cleared
  /\ LET ms == members[first] \cup members[second]
     IN  /\ members' = [members EXCEPT ![first] = ms, ![second] = {}]
         /\ locs' = [locs EXCEPT ![first] = LocationsOf(ms), ![second] = {}]
  /\ alive' = alive \ {second}
  /\ \E x \in alive \cup {ListEnd} : IsNext(second, x) /\ second' = x
  /\ UNCHANGED <<at, first, threshold, round, curSize, newSize, cleared>>

\* They are not: ++second_iter.
Keep ==
  /\ at = "inner" /\ second # ListEnd
  /\ cleared' = cleared \cup {Pair(first, second)}
  /\ \E x \in alive \cup {ListEnd} : IsNext(second, x) /\ second' = x
  /\ UNCHANGED <<list, at, first, threshold, round, curSize, newSize>>

\* patents_gap or disambiguate_by_set throws.
CompareThrows ==
  /\ at = "inner" /\ second # ListEnd
  /\ at' = "thrown"
  /\ UNCHANGED <<list, first, second, threshold, round, curSize, newSize, cleared>>

PassEnds == at = "outer" /\ first = ListEnd /\ newSize' = Cardinality(alive)

\* new_size != current_size: ++i and another pass, if one is left.
PassAgain ==
  /\ PassEnds /\ newSize' # curSize
  /\ round' = round + 1
  /\ at' = IF round' = MaxRounds THEN "exceeded" ELSE "pass"
  /\ UNCHANGED <<list, first, second, threshold, curSize, cleared>>

\* Faulty variant: one pass per threshold, whatever it merged.
NextThresholdEarly ==
  /\ PassEnds
  /\ IF threshold = NumThresholds
     THEN at' = "success" /\ UNCHANGED <<threshold, round, cleared>>
     ELSE /\ at' = "pass"
          /\ threshold' = threshold + 1
          /\ round' = 0
          /\ cleared' = {}
  /\ UNCHANGED <<list, first, second, curSize>>

\* Faulty variant: the thresholds' iterator is not advanced.
NextThresholdStuck ==
  /\ PassEnds /\ newSize' = curSize
  /\ at' = IF threshold = NumThresholds THEN "success" ELSE "pass"
  /\ round' = 0
  /\ UNCHANGED <<list, first, second, threshold, curSize, cleared>>

\* break: the next threshold, or return true.
NextThreshold ==
  /\ PassEnds /\ newSize' = curSize
  /\ IF threshold = NumThresholds
     THEN at' = "success" /\ UNCHANGED <<threshold, round, cleared>>
     ELSE /\ at' = "pass"
          /\ threshold' = threshold + 1
          /\ round' = 0
          /\ cleared' = {}
  /\ UNCHANGED <<list, first, second, curSize>>

Returned ==
  /\ at \in Outcomes
  /\ UNCHANGED loopVars

Step ==
  \/ Refuse \/ Enter \/ StartPass \/ StartInner \/ EndInner
  \/ Merge \/ Keep \/ CompareThrows \/ PassAgain \/ NextThreshold

LoopNext == Step \/ Returned

LoopSpec == LoopInit /\ [][LoopNext]_loopVars

\* The worker thread runs as long as it can.
FairLoop == LoopSpec /\ WF_loopVars(Step)

-----------------------------------------------------------------------------
(* Properties.                                                             *)

\* No record is lost or doubled, whatever merges and erasures happen: every
\* record of the block is in exactly one cluster of the list, and no cluster
\* is empty (ClusterInfo::is_consistent compares only the totals, and only
\* when the result is printed).
Conserved ==
  /\ \A r \in Records : \E n \in alive : r \in members[n]
  /\ \A m, n \in alive : m # n => members[m] \cap members[n] = {}
  /\ \A n \in alive : members[n] # {}

\* Erasing inside the two nested loops leaves no dangling iterator: whenever
\* two clusters are compared both are in the list, in order, so neither
\* "Comparison error" nor "Merging error" of Cluster is ever thrown.
IteratorsValid ==
  at = "inner" => /\ first \in alive
                  /\ second \in alive \cup {ListEnd}
                  /\ first < second

\* disambiguate_wrapper returns true only with a fixed point: under the last
\* threshold every two clusters that are left were compared, as they are now,
\* and found different (the code looks only at the size of the list).
SuccessIsFixpoint ==
  at = "success" => \A m, n \in alive : m < n => Pair(m, n) \in cleared

\* A block exceeds MAX_ROUNDS only when every one of that many passes merged
\* something (one of at most MAX_ROUNDS clusters never does), although the
\* size the first pass is compared with is 0 and the sizes are carried over
\* from one threshold to the next.
EveryPassMerged ==
  at = "exceeded" /\ MaxRounds > 1 => NumClusters >= Cardinality(alive) + MaxRounds

\* The wrapper ends.
Ends == <>(at \in Outcomes)

\* manual.tex, "Customization of Cluster Comparisons": "The threshold depends
\* on [...] the number of common locations between the clusters": a cluster
\* being compared knows the locations of its members.
LocationsKnown ==
  at = "inner" /\ second # ListEnd =>
    \A n \in {first, second} : locs[n] = LocationsOf(members[n])

Parts == {members[n] : n \in alive}

\* A block's list is a partition that only gets coarser, two clusters at a
\* time, and is not touched after the wrapper has ended.
Clustering == INSTANCE ClusterMerging WITH parts <- Parts, ended <- at \in Outcomes
ImplementsMerging == Clustering!Spec

-----------------------------------------------------------------------------
(* The inductive invariant behind the properties above.                    *)

Working == {"enter", "pass", "outer", "inner"}

\* The iterators are in the list or at its end; a pass is left to be made.
IterInv ==
  /\ at \in {"outer", "inner"} => first \in alive \cup {ListEnd}
  /\ at \in Working => round < MaxRounds
  /\ IteratorsValid

\* The length of the list when the pass began (new_size is 0 in the first);
\* the list never becomes empty.
Base == IF newSize = 0 THEN NumClusters ELSE newSize

SizeInv ==
  /\ Cardinality(alive) <= Base
  /\ NumClusters # 0 => alive # {}
  /\ at \in {"outer", "inner"} => curSize = newSize

\* The pairs the pass has been through.
Passed(m, n) == m < first \/ (m = first /\ at = "inner" /\ n < second)

\* While a pass has merged nothing, the pairs it has been through are cleared.
ClearedInv ==
  /\ at \in {"outer", "inner"} /\ Cardinality(alive) = Base =>
       \A m, n \in alive : m < n /\ Passed(m, n) => Pair(m, n) \in cleared
  /\ SuccessIsFixpoint

\* Every pass made under this threshold merged something, or the first one
\* merged nothing and left nothing for the second to merge.
AllCleared == \A m, n \in alive : m < n => Pair(m, n) \in cleared

RoundInv ==
  /\ at \in Working =>
       \/ round <= NumClusters - Base
       \/ /\ newSize # 0 /\ Cardinality(alive) = Base
          /\ AllCleared
          /\ round <= NumClusters - Base + 1
  /\ EveryPassMerged

\* All of it: an invariant that every step preserves by itself.
BlockInv == LoopTypeOK /\ Conserved /\ IterInv /\ SizeInv /\ ClearedInv /\ RoundInv
=============================================================================
