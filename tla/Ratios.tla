------------------------------- MODULE Ratios -------------------------------
(***************************************************************************)
(* The table of ratios of a round: the comparators that are active, the    *)
(* pairs by patent and by name that train the two parts of a profile       *)
(* (cRatioComponent), their product (cRatios), the smoothing that extends  *)
(* it to every profile, the ratio file, and its use by the comparison of   *)
(* records.                                                                *)
(*                                                                         *)
(* Ratios are pairs <<num, den>>.  The solver of the smoothing is outside  *)
(* the code: the model keeps the problem it is given, and a smoothed table *)
(* is the set of its profiles.  A process can die and be started again,    *)
(* also with "USE AVAILABLE RATIOS DATABASE", which trusts the ratio file. *)
(* With its table, a round needs the priors of its blocks: they are set up *)
(* here too, what the workers do with them is in BlockDispatch.            *)
(***************************************************************************)
EXTENDS Priors

CONSTANTS
  Columns,           \* the columns of a record, in their order
  Group,             \* attrib_group of each
  RoundAttributes,   \* ACTIVE SIMILARITY ATTRIBUTES of each round
  Truncation,        \* the truncation of first names of each round
  PairsByPatent,     \* bound: the pairs [x, m] a round may get from its blocks
  Results(_),        \* the results [head, members] of an earlier round on so many records
  laplace_base,
  count_to_consider,
  MaxNodes,          \* 2^32 - 1
  MaxStarts          \* bound: how often the program is started

Rounds    == DOMAIN RoundAttributes
NameParts == <<"Firstname", "Middlename", "Lastname">>
Compared  == ToSet(NameParts) \cup {"Latitude", "Longitude", "Assignee", "Class", "Coauthor"}

\* The positions of the names in a profile are static in disambiguate_by_set: every
\* round has to be active on the names, and they come first in a record.  The groups are
\* those of attribute.cpp, where latitudes are compared with a score of up to 5.
ASSUME RatiosAssumption ==
  /\ ToSet(Columns) = DOMAIN Group /\ Columns \in Seq(DOMAIN Group)
  /\ \A j, k \in DOMAIN Columns : Columns[j] = Columns[k] => j = k
  /\ \A c \in DOMAIN Group : /\ Group[c] \in {"NONE", "Personal", "Patent"}
                             /\ Group[c] # "NONE" => c \in Compared
  /\ \A c \in ToSet(NameParts) : Group[c] = "Personal"
  /\ "Latitude" \in DOMAIN Group => MaxValue["Latitude"] >= 5
  /\ Len(Columns) >= 3 /\ ToSet(SubSeq(Columns, 1, 3)) = ToSet(NameParts)
  /\ \A r \in Rounds : /\ ToSet(NameParts) \subseteq ToSet(RoundAttributes[r])
                       /\ \A c \in ToSet(RoundAttributes[r]) : c \in ToSet(Columns)
  /\ \A c \in ToSet(Columns) : Group[c] # "NONE" => MaxValue[c] \in Nat \ {0}
  /\ laplace_base \in Nat \ {0} /\ MaxNodes \in Nat
  /\ \A r \in Rounds :
       BlockColumns[r] \in Seq([column : STRING, nchar : Nat, forward : BOOLEAN])
  /\ \A t \in PairsByPatent : t.x \in Seq(Nat \X Nat) /\ t.m \in Seq(Nat \X Nat)
  /\ \A l \in Lists : \A i \in DOMAIN l :
       DOMAIN l[i] = DOMAIN Group /\ ("Class" \in DOMAIN Group => IsFiniteSet(l[i]["Class"]))
  /\ \A l \in Lists : \A clusters \in Results(Len(l)) :
       /\ \A cl \in clusters : cl.members \subseteq 1 .. Len(l) /\ cl.head \in cl.members
       /\ \A cl, other \in clusters : cl # other => cl.members \cap other.members = {}

VARIABLES
  pc,             \* where Full_Disambiguation is
  starts,         \* how often it was started
  round,
  available,      \* use_available_ratios
  active,         \* bool_comparator_activated
  similarity,     \* active_similarity_names
  wasActive,      \* is_coauthor_active, is_class_active
  byPatent,       \* xset01 and tset05 of the round: [x, m]
  parts,          \* patentinfo and personalinfo
  table,          \* final_ratios: [names, rows] when composed, [names, keys] smoothed
  problem,        \* the quadratic program
  files,          \* the ratio file of each round
  blocks,         \* the clusters by block, which are active, debug_mode, and prior_data
  namePositions   \* firstname_index, midname_index, lastname_index; <<>>: not yet set

vars == <<nameVars, pc, starts, round, available, active, similarity, wasActive,
          byPatent, parts, table, problem, files, blocks, namePositions>>

Absent == [there |-> FALSE]
Empty  == [inRatios |-> <<>>, inRecord |-> <<>>, x |-> <<>>, m |-> <<>>, ratio |-> <<>>]

\* The memory of a process that is gone.
Exit ==
  /\ round' = 0 /\ available' = FALSE /\ active' = {} /\ similarity' = <<>>
  /\ wasActive' = {} /\ byPatent' = [x |-> <<>>, m |-> <<>>]
  /\ parts' = <<Empty, Empty>> /\ table' = Absent /\ problem' = Absent
  /\ blocks' = Absent /\ namePositions' = <<>>

-----------------------------------------------------------------------------
(* Active comparators. *)

\* static_activate_comparator does nothing to a column without a group.
Activable(names) == {c \in ToSet(Columns) : c \in names /\ Group[c] # "NONE"}

\* update_active_similarity_names.
SimilarityNames(on) == Selected(Columns, {k \in DOMAIN Columns : Columns[k] \in on})

Activate(on) == active' = on /\ similarity' = SimilarityNames(on)

Temporary == {"Coauthor", "Class"}

ActiveProfile(i, j) ==
  Profile(records, Truncation[round], SimilarityNames(active), i, j)

-----------------------------------------------------------------------------
(* cRatioComponent *)

\* get_similarity_info.  No active column has the group "None".
InRecord(group) ==
  Listed({k \in DOMAIN Columns : Columns[k] \in active /\ Group[Columns[k]] = group})
InRatios(group) ==
  LET counted == Listed({k \in DOMAIN Columns : Columns[k] \in active /\ Group[Columns[k]] # "None"})
  IN  Listed({n \in DOMAIN counted : Group[Columns[counted[n]]] = group})

\* sp_stats: how often each profile occurs among the pairs.
Stats(pairs, group) ==
  LET columns == [k \in DOMAIN InRecord(group) |-> Columns[InRecord(group)[k]]]
      sp == [p \in DOMAIN pairs |-> Profile(records, Truncation[round], columns,
                                            pairs[p][1], pairs[p][2])]
  IN  [v \in Range(sp) |-> Cardinality({p \in DOMAIN pairs : sp[p] = v})]

\* all_possible: what only one set has is kept when it is frequent there.
Considered(x, m) ==
  {v \in DOMAIN x : v \in DOMAIN m \/ x[v] >= count_to_consider} \cup
  {v \in DOMAIN m : v \in DOMAIN x \/ m[v] >= count_to_consider}

\* The Laplace correction of one of the counts.
Corrected(n, considered) ==
  [v \in DOMAIN n \cup considered |->
     (IF v \in DOMAIN n THEN n[v] ELSE 0) + (IF v \in considered THEN laplace_base ELSE 0)]

\* prepare.
Prepared(group, pairs) ==
  LET x0 == Stats(pairs.x, group)
      m0 == Stats(pairs.m, group)
      x == Corrected(x0, Considered(x0, m0))
      m == Corrected(m0, Considered(x0, m0))
      both == DOMAIN x \cap DOMAIN m
  IN  [inRatios |-> InRatios(group), inRecord |-> InRecord(group),
       x |-> Restrict(x, both), m |-> Restrict(m, both),
       ratio |-> [v \in both |-> <<m[v], x[v]>>]]

\* record_compare_by_attrib_indice ends the program when there is nothing to compare.
NothingToCompare(group, pairs) ==
  InRecord(group) = <<>> /\ (DOMAIN pairs.x # {} \/ DOMAIN pairs.m # {})

-----------------------------------------------------------------------------
(* cRatios *)

impossible_value == 10000

\* A profile of a component in its places of a key.
Overlay(key, sp, places) ==
  [n \in DOMAIN key |-> IF \E j \in DOMAIN places : places[j] = n
                        THEN sp[CHOOSE j \in DOMAIN places : places[j] = n] ELSE key[n]]

\* A plausible bug: the places are those of the record.
PlacesInRecord(part) == part.inRecord

\* get_component_positions_in_ratios.
Places(part) == part.inRatios

\* More_Components.
MoreComponents(t, part) ==
  LET key(p) == Overlay(p[1], p[2], Places(part))
      both   == (DOMAIN t.rows) \X (DOMAIN part.ratio)
      from   == [q \in {key(p) : p \in both} |-> CHOOSE p \in both : key(p) = q]
      row(p) == [num |-> t.rows[p[1]].num * part.ratio[p[2]][1],
                 den |-> t.rows[p[1]].den * part.ratio[p[2]][2],
                 x   |-> t.rows[p[1]].x + part.x[p[2]],
                 m   |-> t.rows[p[1]].m + part.m[p[2]]]
      names  == [j \in DOMAIN part.inRecord |-> Columns[part.inRecord[j]]]
  IN  [names |-> Overlay(t.names, names, Places(part)),
       rows  |-> [q \in DOMAIN from |-> row(from[q])]]

\* The table the components are multiplied into.
NullTable ==
  LET size == Len(parts[1].inRatios) + Len(parts[2].inRatios)
      null == [n \in 1 .. size |-> impossible_value]
  IN  [names |-> [n \in 1 .. size |-> "Invalid Attribute"],
       rows  |-> [k \in {null} |-> [num |-> 1, den |-> 1, x |-> 0, m |-> 0]]]

-----------------------------------------------------------------------------
(* Smoothing.  The least profile is all 0. *)

MaxProfile(names) == [n \in DOMAIN names |-> MaxValue[names[n]]]

\* total_nodes, or 0 when the check for an overflow throws.
Nodes(max) ==
  LET n[k \in 0 .. Len(max)] ==
        IF k = 0 THEN 1
        ELSE IF n[k - 1] >= MaxNodes \div (max[k] + 1) THEN 0 ELSE n[k - 1] * (max[k] + 1)
  IN  n[Len(max)]

\* The constraints between neighbours that smooth allows for.
Inequalities(max) ==
  SumFunction([k \in DOMAIN max |-> Nodes(max) - Nodes(max) \div (max[k] + 1)])

\* sp2index.
Index(sp, max) ==
  LET n[k \in 0 .. Len(max)] == IF k = 0 THEN 0 ELSE n[k - 1] * (max[k] + 1) + sp[k]
  IN  n[Len(max)]

\* index2sp.
IndexToSp(index, max) ==
  LET n[k \in DOMAIN max] == IF k = Len(max) THEN index ELSE n[k + 1] \div (max[k + 1] + 1)
  IN  [k \in DOMAIN max |-> n[k] % (max[k] + 1)]

\* A plausible bug: the last step to the maximum is left out.
GreaterBelowMax(sp, max) == {[sp EXCEPT ![k] = @ + 1] : k \in {k \in DOMAIN sp : sp[k] + 1 < max[k]}}

\* find_greater_neighbour and find_neighbours.
Greater(sp, max) == {[sp EXCEPT ![k] = @ + 1] : k \in {k \in DOMAIN sp : sp[k] # max[k]}}
Neighbours(sp, max) ==
  {<<[sp EXCEPT ![k] = @ - 1], [sp EXCEPT ![k] = @ + 1]>> :
     k \in {k \in DOMAIN sp : sp[k] # 0 /\ sp[k] # max[k]}}

\* The program given to the solver: one variable for each node, an objective over the
\* nodes of the ratios there are, and constraints between nodes: that the ratio of
\* the second is not smaller, and that the second is close to the middle of the others.
Problem(t) ==
  LET max  == MaxProfile(t.names)
      node == 0 .. Nodes(max) - 1
      sp   == [i \in node |-> IndexToSp(i, max)]
  IN  [there  |-> TRUE,
       fitted |-> {Index(k, max) : k \in DOMAIN t.rows},
       rising |-> UNION {{<<i, Index(g, max)>> : g \in Greater(sp[i], max)} : i \in node},
       even   |-> UNION {{<<Index(g[1], max), i, Index(g[2], max)>> :
                            g \in Neighbours(sp[i], max)} : i \in node}]

\* The profiles that get a value.
Smoothed(t) == LET max == MaxProfile(t.names)
               IN  [names |-> t.names, there |-> TRUE, whole |-> TRUE,
                    keys |-> {IndexToSp(i, max) : i \in 0 .. Nodes(max) - 1}]

\* What a ratio file holds when the process dies while it is written: a part of the
\* header, or the header and some lines (here one, or all but one).  Of a line that is
\* cut, the reader makes a shorter key, or the key with a part of its value.
CutShort(t) ==
  LET max == MaxProfile(t.names)
      lines(n) == {IndexToSp(i, max) : i \in 0 .. n - 1}
  IN  {[t EXCEPT !.whole = FALSE, !.names = SubSeq(@, 1, k), !.keys = {}] : k \in 0 .. Len(t.names)}
      \cup {[t EXCEPT !.whole = FALSE, !.keys = lines(n)] : n \in {1, Nodes(max) - 1}}

-----------------------------------------------------------------------------
(* Full_Disambiguation, as far as the ratios are concerned. *)

training == <<wasActive, byPatent, parts, problem>>
held     == <<starts, available, files>>
memory   == <<blocks, namePositions>>

Init ==
  /\ NameInit
  /\ pc = "names" /\ starts = 1 /\ round = 0 /\ available = FALSE
  /\ active = {} /\ similarity = <<>> /\ wasActive = {}
  /\ byPatent = [x |-> <<>>, m |-> <<>>] /\ parts = <<Empty, Empty>>
  /\ table = Absent /\ problem = Absent /\ blocks = Absent /\ namePositions = <<>>
  /\ files = [r \in Rounds |-> Absent]

\* Every start makes the same sets by name, so a restart keeps them.
TrainByName ==
  /\ pc = "names" /\ step # "made"
  /\ NameNext
  /\ UNCHANGED <<pc, round, held, active, similarity, table, training, memory>>

\* The two reconfigurators, after the sets by name were made; then the first round.
Reconfigure ==
  /\ pc = "names" /\ step = "made"
  /\ pc' = "config" /\ round' \in Rounds
  /\ records' = Reconfigured(records)
  /\ UNCHANGED <<limit, step, rare, nonmatches, matches, held, active, similarity, table,
                 training, memory>>

\* config_blocking and activate_comparators_by_name.
ConfigRound ==
  /\ pc = "config" /\ round \in Rounds
  /\ pc' = IF available THEN "read" ELSE "switch"
  /\ Activate(Activable(ToSet(RoundAttributes[round])))
  /\ UNCHANGED <<nameVars, held, round, table, training, memory>>

NoMoreRounds ==
  /\ pc = "config" /\ round \notin Rounds
  /\ pc' = "done" /\ Exit
  /\ UNCHANGED <<nameVars, starts, files>>

\* make_changable_training_sets_by_patent: two comparators are on while it works.
SwitchOn ==
  /\ pc = "switch" /\ pc' = "train"
  /\ wasActive' = active \cap Temporary
  /\ Activate(active \cup Activable(Temporary))
  /\ UNCHANGED <<nameVars, held, round, table, byPatent, parts, problem, memory>>

\* A plausible bug: the comparators stay on.
TrainByPatentStaysOn ==
  /\ pc = "train" /\ pc' = "personal"
  /\ byPatent' \in PairsByPatent
  /\ wasActive' = {} /\ UNCHANGED <<active, similarity>>
  /\ UNCHANGED <<nameVars, held, round, table, parts, problem, memory>>

TrainByPatent ==
  /\ pc = "train" /\ pc' = "personal"
  /\ byPatent' \in {t \in PairsByPatent :
                      \A p \in Range(t.x) \cup Range(t.m) : ToSet(p) \subseteq DOMAIN records}
  /\ Activate(active \ (Activable(Temporary) \ wasActive)) /\ wasActive' = {}
  /\ UNCHANGED <<nameVars, held, round, table, parts, problem, memory>>

Stable == [x |-> nonmatches, m |-> [p \in matches |-> p]]

\* personalinfo.prepare, from the pairs by patent.
PreparePersonal ==
  /\ pc = "personal"
  /\ ~ NothingToCompare("Personal", byPatent)
  /\ pc' = "patent" /\ parts' = [parts EXCEPT ![2] = Prepared("Personal", byPatent)]
  /\ UNCHANGED <<nameVars, held, round, active, similarity, wasActive, byPatent, table, problem,
                 memory>>

\* patentinfo.prepare, from the pairs by name.
PreparePatent ==
  /\ pc = "patent"
  /\ ~ NothingToCompare("Patent", Stable)
  /\ pc' = "compose" /\ parts' = [parts EXCEPT ![1] = Prepared("Patent", Stable)]
  /\ UNCHANGED <<nameVars, held, round, active, similarity, wasActive, byPatent, table, problem,
                 memory>>

\* exit(0) in record_compare_by_attrib_indice.
PrepareExits ==
  /\ \/ pc = "personal" /\ NothingToCompare("Personal", byPatent)
     \/ pc = "patent" /\ NothingToCompare("Patent", Stable)
  /\ pc' = "exited" /\ Exit
  /\ UNCHANGED <<nameVars, starts, files>>

\* The constructor of cRatios, up to smooth.
Compose ==
  /\ pc = "compose" /\ pc' = "smooth"
  /\ table' = MoreComponents(MoreComponents(NullTable, parts[1]), parts[2])
  /\ UNCHANGED <<nameVars, held, round, active, similarity, training, memory>>

Overflows == LET max == MaxProfile(table.names)
             IN  Nodes(max) = 0 \/ Inequalities(max) > MaxNodes

\* smooth.
Smooth ==
  /\ pc = "smooth" /\ ~ Overflows
  /\ pc' = "write" /\ problem' = Problem(table) /\ table' = Smoothed(table)
  /\ UNCHANGED <<nameVars, held, round, active, similarity, wasActive, byPatent, parts,
                 memory>>

SmoothThrows ==
  /\ pc = "smooth" /\ Overflows
  /\ pc' = "thrown" /\ Exit
  /\ UNCHANGED <<nameVars, starts, files>>

\* write_ratios_file.
WriteFile ==
  /\ pc = "write" /\ pc' = "disambiguate"
  /\ files' = [files EXCEPT ![round] = table]
  /\ byPatent' = [x |-> <<>>, m |-> <<>>] /\ parts' = <<Empty, Empty>> /\ problem' = Absent
  /\ UNCHANGED <<nameVars, starts, available, round, active, similarity, wasActive, table,
                 memory>>

\* read_ratios_file: the comparators follow the header.
ReadFile ==
  /\ pc = "read" /\ files[round].there
  /\ pc' = "disambiguate" /\ table' = files[round]
  /\ Activate(Activable(ToSet(files[round].names)))
  /\ UNCHANGED <<nameVars, held, round, training, memory>>

ReadThrows ==
  /\ pc = "read" /\ ~ files[round].there
  /\ pc' = "thrown" /\ Exit
  /\ UNCHANGED <<nameVars, starts, files>>

SetUp(of, listed, debug) ==
  [there  |-> TRUE, of |-> of, debug |-> debug, active |-> Active(of, listed),
   prior  |-> ConfigPrior(of, Active(of, listed), debug)]

\* ClusterInfo::disambiguate, up to the workers.  The clusters were read when the round
\* began; nothing since depends on them.  The debug block file lists at most one of
\* the blocks here.
SetUpBlocks ==
  /\ pc = "disambiguate" /\ pc' = "compare"
  /\ \E clusters \in Results(Len(records)), debug \in BOOLEAN :
       \E listed \in {{}} \cup {{b} : b \in DOMAIN BlocksOf(round, clusters)} :
         blocks' = SetUp(BlocksOf(round, clusters), listed, debug)
  /\ UNCHANGED <<nameVars, held, round, active, similarity, table, training, namePositions>>

PositionOf(name) == CHOOSE k \in DOMAIN similarity : similarity[k] = name

\* The first call of disambiguate_by_set finds the positions of the names.
NamesThere == namePositions # <<>> \/ ToSet(NameParts) \subseteq ToSet(similarity)

Disambiguate ==
  /\ pc = "compare" /\ NamesThere
  /\ pc' = "match" /\ blocks' = Absent
  /\ namePositions' = IF namePositions # <<>> THEN namePositions
                      ELSE [k \in 1 .. 3 |-> PositionOf(NameParts[k])]
  /\ UNCHANGED <<nameVars, held, round, active, similarity, table, training>>

\* get_similarity_index_by_name.
DisambiguateThrows ==
  /\ pc = "compare" /\ ~ NamesThere
  /\ pc' = "thrown" /\ Exit
  /\ UNCHANGED <<nameVars, starts, files>>

EndRound ==
  /\ pc = "match" /\ pc' = "config" /\ round' = round + 1 /\ table' = Absent
  /\ UNCHANGED <<nameVars, held, active, similarity, training, memory>>

Ended == {"done", "exited", "thrown", "dead"}

\* The process dies; a file being written is cut short.
Die ==
  /\ pc \notin Ended \cup {"names"}
  /\ pc' = "dead" /\ Exit
  /\ IF pc = "write" THEN \E f \in CutShort(table) : files' = [files EXCEPT ![round] = f]
                     ELSE UNCHANGED files
  /\ UNCHANGED <<nameVars, starts>>

\* It is started again, at any round, with or without the ratio files there are.
Restart ==
  /\ pc \in Ended /\ starts < MaxStarts
  /\ starts' = starts + 1 /\ pc' = "config"
  /\ round' \in Rounds /\ available' \in BOOLEAN
  /\ UNCHANGED <<nameVars, files, active, similarity, table, training, memory>>

Next ==
  \/ TrainByName \/ Reconfigure \/ ConfigRound \/ NoMoreRounds \/ SwitchOn \/ TrainByPatent
  \/ PreparePersonal \/ PreparePatent \/ PrepareExits \/ Compose
  \/ Smooth \/ SmoothThrows \/ WriteFile \/ ReadFile \/ ReadThrows
  \/ SetUpBlocks \/ Disambiguate \/ DisambiguateThrows \/ EndRound \/ Die \/ Restart

Spec == Init /\ [][Next]_vars

-----------------------------------------------------------------------------
(* Properties *)

\* Non-matching pairs are of different full names, save the pair of a record with
\* itself, which is there when it is in the lists of both columns (find_rare_names_v2,
\* create_xset03).
NonMatchPairs ==
  step \in {"matches", "made"} =>
    \A k \in DOMAIN nonmatches :
      LET i == nonmatches[k][1]
          j == nonmatches[k][2]
      IN  \/ FullName(i) # FullName(j)
          \/ i = j /\ i \in ToSet(rare[1]) \cap ToSet(rare[2])

\* Matching pairs are pairs of records with one full name of which a part is a name in
\* the lists; below the limit they are all of them (create_tset02).
MatchPairs ==
  step = "made" =>
    LET RareName(i) == \E col \in 1 .. 2 : \E k \in DOMAIN rare[col] :
                         records[rare[col][k]][NameColumns[col]] = records[i][NameColumns[col]]
        wanted == {p \in (DOMAIN records) \X (DOMAIN records) :
                     p[1] < p[2] /\ FullName(p[1]) = FullName(p[2]) /\ RareName(p[1])}
    IN  /\ matches \subseteq wanted
        /\ 2 * Cardinality(wanted) < limit => matches = wanted

\* When records are compared, the active comparators are those of the round, though the
\* training had others; the table has a ratio for the profile of every two records, in
\* either order (the profiles of the two orders may differ, by Jaro), and the positions
\* of the names are right (make_changable_training_sets_by_patent, cRatios,
\* read_ratios_file, disambiguate_by_set).  Of a table from a ratio file that was cut
\* short it says nothing: profiles are missing there, and have the ratio 0.
TableServes ==
  pc = "match" /\ table.whole =>
    /\ active = Activable(ToSet(RoundAttributes[round]))
    /\ table.names = similarity
    /\ \A i, j \in DOMAIN records : ActiveProfile(i, j) \in table.keys
    /\ \A k \in 1 .. 3 : similarity[namePositions[k]] = NameParts[k]

\* Before smoothing, a profile has a ratio when both of its parts have one, and its ratio
\* is their product; a part seen among the matches and among the non-matches has one, and
\* no count is 0 (prepare, More_Components).
FactorsIndependent ==
  pc = "smooth" =>
    LET part(key, c) == [j \in DOMAIN parts[c].inRatios |-> key[parts[c].inRatios[j]]]
        seen(c) == IF c = 1 THEN DOMAIN Stats(Stable.x, "Patent") \cap DOMAIN Stats(Stable.m, "Patent")
                   ELSE DOMAIN Stats(byPatent.x, "Personal") \cap DOMAIN Stats(byPatent.m, "Personal")
    IN  /\ table.names = similarity
        /\ Cardinality(DOMAIN table.rows)
             = Cardinality(DOMAIN parts[1].ratio) * Cardinality(DOMAIN parts[2].ratio)
        /\ \A key \in DOMAIN table.rows :
             /\ \A c \in 1 .. 2 : part(key, c) \in DOMAIN parts[c].ratio
             /\ LET r == parts[1].ratio[part(key, 1)]
                    q == parts[2].ratio[part(key, 2)]
                IN  table.rows[key].num = r[1] * q[1] /\ table.rows[key].den = r[2] * q[2]
        /\ \A c \in 1 .. 2 : /\ seen(c) \subseteq DOMAIN parts[c].ratio
                             /\ \A v \in DOMAIN parts[c].ratio :
                                  parts[c].x[v] >= laplace_base /\ parts[c].m[v] >= laplace_base

\* The problem given to the solver makes the ratio of a profile at least that of every
\* profile below it: between two nodes of which one is below the other there is always
\* a constraint to a node in between; no node stands for two profiles, and every ratio
\* there was is fitted (sp2index, index2sp, find_greater_neighbour).
SmoothedInOrder ==
  pc = "write" =>
    LET max  == MaxProfile(table.names)
        node == 0 .. Nodes(max) - 1
        sp   == [i \in node |-> IndexToSp(i, max)]
        Below(i, j) == \A k \in DOMAIN max : sp[i][k] <= sp[j][k]
        above == [i \in node |-> {c \in node : <<i, c>> \in problem.rising}]
    IN  /\ Cardinality(table.keys) = Nodes(max)
        /\ \A i \in node : Index(sp[i], max) = i
        /\ \A i, j \in node : i # j /\ Below(i, j) => \E c \in above[i] : Below(c, j)
        /\ \A e \in problem.even : Below(e[1], e[2]) /\ Below(e[2], e[3])
        /\ Cardinality(problem.fitted)
             = Cardinality(DOMAIN parts[1].ratio) * Cardinality(DOMAIN parts[2].ratio)

\* Every block that a worker will disambiguate has a prior, and the prior it uses is
\* above 0 and below 1 (reset_block_activity, config_prior, disambiguate_wrapper, which
\* takes the prior from the map without a test).
PriorsUsable ==
  pc = "compare" =>
    \A b \in blocks.active \ {Useless(round)} :
      b \in DOMAIN blocks.prior /\ PriorToUse(blocks.prior[b]) \in 1 .. PriorMax

\* Of two blocks with clusters of the same sizes, the one with the rarer parts has at
\* least the prior of the other, unless all parts of that one are the most frequent:
\* its prior is then 0, and replaced by a large one (get_prior_value).
RareFavoured ==
  pc = "compare" =>
    LET of == blocks.of
        sizes(b) == [n \in 1 .. Len(records) |->
                       Cardinality({cl \in of[b] : Cardinality(cl.members) = n})]
        often(b, k) == Cardinality({d \in DOMAIN of : d[k] = b[k]})
        most(b) == \A k \in Involved(b), d \in DOMAIN of : d[k] = <<>> \/ often(d, k) <= often(b, k)
    IN  \A b, d \in DOMAIN blocks.prior :
          /\ sizes(b) = sizes(d) /\ ~ most(d)
          /\ \A k \in Involved(b) : b[k] # <<>> /\ d[k] # <<>> /\ often(b, k) <= often(d, k)
          => PriorToUse(blocks.prior[b]) >= PriorToUse(blocks.prior[d])

-----------------------------------------------------------------------------
(* Invariants *)

\* The records are those of a file, as they were read or reconfigured.
AsRead(l) == [i \in DOMAIN l |-> Split(l[i])]
RecordsInv ==
  \E l \in Lists : records = IF pc = "names" THEN AsRead(l) ELSE Reconfigured(AsRead(l))

\* The lists of find_rare_names_v2 hold the first records of full names, each once.
RareInv ==
  step # "rare" =>
    \A col \in 1 .. 2 :
      /\ rare[col] \in Seq(DOMAIN records)
      /\ \A j, k \in DOMAIN rare[col] : rare[col][j] = rare[col][k] => j = k
      /\ \A k \in DOMAIN rare[col], i \in DOMAIN records :
           FullName(i) = FullName(rare[col][k]) => rare[col][k] <= i

\* A round that goes on is one of the file.
Working == {"switch", "train", "personal", "patent", "compose", "smooth", "write", "read",
            "disambiguate", "compare", "match"}
RoundInv == pc \in Working => round \in Rounds

NameInv ==
  /\ limit \in Nat /\ step \in {"rare", "nonmatches", "matches", "made"}
  /\ pc = "names" \/ step = "made"
  /\ nonmatches \in Seq((DOMAIN records) \X (DOMAIN records))
  /\ RecordsInv /\ RareInv /\ NonMatchPairs /\ MatchPairs

\* Which comparators are active, and in what order their results come.
ActiveIn(r) == Activable(ToSet(RoundAttributes[r]))
ActiveInv ==
  /\ active \subseteq {c \in ToSet(Columns) : Group[c] # "NONE"}
  /\ pc \in Working => similarity = SimilarityNames(active)
  /\ pc \in {"switch", "personal", "patent", "compose", "smooth", "write"} => active = ActiveIn(round)
  /\ pc = "train" => /\ active = ActiveIn(round) \cup Activable(Temporary)
                     /\ wasActive = ActiveIn(round) \cap Temporary

\* What the steps from the training to the ratio file leave for the next one.
Composed == MoreComponents(MoreComponents(NullTable, parts[1]), parts[2])
MadeInv ==
  /\ pc \in {"personal", "patent", "compose", "smooth", "write"} =>
       /\ byPatent \in PairsByPatent
       /\ \A p \in Range(byPatent.x) \cup Range(byPatent.m) : ToSet(p) \subseteq DOMAIN records
  /\ pc \in {"patent", "compose", "smooth", "write"} => parts[2] = Prepared("Personal", byPatent)
  /\ pc \in {"compose", "smooth", "write"} => parts[1] = Prepared("Patent", Stable)
  /\ DOMAIN parts = 1 .. 2
  /\ pc = "smooth" => table = Composed
  /\ pc = "write" => /\ table = Smoothed(Composed) /\ problem = Problem(Composed)
                     /\ Nodes(MaxProfile(Composed.names)) # 0

\* A table with all profiles of the columns of round r.
Serves(t, r) ==
  /\ t.names = SimilarityNames(ActiveIn(r))
  /\ Nodes(MaxProfile(t.names)) # 0
  /\ t.keys = Smoothed(t).keys

\* Whole files serve their rounds, and so does the table made of one.
FilesInv ==
  /\ DOMAIN files = Rounds
  /\ \A r \in Rounds : files[r].there => (files[r].whole => Serves(files[r], r))
  /\ pc \in {"disambiguate", "compare", "match"} =>
       (table.whole => Serves(table, round) /\ active = ActiveIn(round))

\* The static positions of the names are right in every round.
PositionsInv ==
  /\ pc = "match" => namePositions # <<>>
  /\ namePositions # <<>> =>
       \A k \in 1 .. 3 : namePositions[k] \in 1 .. 3 /\ Columns[namePositions[k]] = NameParts[k]
=============================================================================
