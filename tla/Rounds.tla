------------------------------- MODULE Rounds -------------------------------
(***************************************************************************)
(* Full_Disambiguation: the rounds, the files that carry the clusters from *)
(* one to the next, and what a run keeps in memory besides them.           *)
(*                                                                         *)
(* Round r reads the clusters of round r - 1, blocks them anew, changes    *)
(* abbreviated middle names of their records to the longest of the cluster *)
(* and unites their set attributes (coauthors), disambiguates, and writes  *)
(* newmatch_r.  With "POSTPROCESS AFTER EACH ROUND" the clusters read are  *)
(* polished, written to network_r and read again.  Round 1 first writes    *)
(* the consolidated records to the starting file.  When the configuration  *)
(* has no more rounds the last result is polished into final.txt.          *)
(*                                                                         *)
(* A process can die between any two steps, or while it writes a file, and *)
(* be started again at any round whose starting file exists.  Middle names *)
(* and set attributes changed in memory are never written: a restarted     *)
(* process arrives at them again when it has read its file, but by then it *)
(* may have blocked the clusters by others.                                *)
(*                                                                         *)
(* What happens inside disambiguate and post_polish is in the modules      *)
(* BlockLoop and PostPolish; here clusters of a block merge freely.        *)
(***************************************************************************)
EXTENDS Naturals, Sequences, FiniteSets, SequencesExt, FiniteSetsExt, Ordering

CONSTANTS
  NumRecords,    \* the records are 1 .. NumRecords, in the order of the CSV file
  NumRounds,     \* modules [ Round 1 ] .. [ Round NumRounds ] of BlockingConfig
  Names,         \* middle names, numbered
  Length,        \* their lengths; 0: not informative
  CsvMiddle,     \* the middle name of each record in the CSV file
  CsvCoauthors,  \* its coauthors there
  Lastname,      \* its last name
  Presort,       \* its blocking string for the preliminary consolidation
  BlockKey,      \* its blocking string in each round, without the middle name
  MiddleRounds,  \* the rounds whose blocking string has the middle name too
  MaxStarts      \* bound: how often the program is started

Records == 1 .. NumRecords
Rounds  == 1 .. NumRounds

\* Files: the starting file, newmatch_1 .. newmatch_N, network, final.txt.
Network == NumRounds + 1
Final   == NumRounds + 2
Files   == 0 .. Final

Coauthors == UNION {CsvCoauthors[x] : x \in Records}

ASSUME RoundsAssumption ==
  /\ NumRecords \in Nat \ {0} /\ NumRounds \in Nat \ {0} /\ MaxStarts \in Nat \ {0}
  /\ IsFiniteSet(Names) /\ Names = 1 .. Cardinality(Names)
  /\ Length \in [Names -> Nat]
  /\ CsvMiddle \in [Records -> Names]
  /\ CsvCoauthors \in [Records -> SUBSET Coauthors]
  /\ Presort \in [Records -> Nat]
  /\ BlockKey \in [Rounds -> [Records -> Nat]]
  /\ MiddleRounds \subseteq Rounds

VARIABLES
  pc,         \* where Full_Disambiguation is
  starts,     \* how often it was started
  network,    \* network_clustering
  round,
  old,        \* oldmatchfile
  files,      \* what each file holds
  out,        \* the file being written
  match,      \* the clusters of the ClusterInfo: [block, head, members]
  totalNum,   \* total_num
  polished,   \* the clusters of the ClusterSet: [head, members]
  middle,     \* the middle name of each record, in memory
  coauthors,  \* its coauthors, in memory
  intact      \* no file read since round 1 was one that had been cut short

process == <<round, old, out, match, totalNum, polished, middle, coauthors, intact>>
vars == <<pc, starts, network, files, process>>

\* A process that is gone leaves its files only.
Exit ==
  /\ round' = 0 /\ old' = 0 /\ out' = 0
  /\ match' = <<>> /\ totalNum' = 0 /\ polished' = <<>>
  /\ middle' = CsvMiddle /\ coauthors' = CsvCoauthors
  /\ intact' = TRUE

Ended   == {"off", "done", "stopped", "inconsistent", "thrown"}
Running == {"config", "consolidate", "open", "write", "reset", "polish", "again", "disambiguate"}

-----------------------------------------------------------------------------
(* Clusters and files.  Both are sequences, in the order of the blocks and  *)
(* within a block in the order of its list.                                 *)

Lines(S) == [i \in DOMAIN S |-> [head |-> S[i].head, members |-> S[i].members]]
InLines(L) == UNION {ToSet(L[i].members) : i \in DOMAIN L}

\* The cluster that has x.
ClusterOf(L, x) == CHOOSE i \in DOMAIN L : x \in ToSet(L[i].members)

Absent == [there |-> FALSE, lines |-> <<>>, torn |-> FALSE, whole |-> FALSE]
Contents(L) == [there |-> TRUE, lines |-> L, torn |-> FALSE, whole |-> intact]

\* The lines up to n, which lost its last members, or has the key of another record
\* in place of its own and no members.
CutLine(L, n) ==
  LET UpTo(e) == Append(SubSeq(L, 1, n - 1), e)
  IN  {UpTo([L[n] EXCEPT !.members = SubSeq(@, 1, k)]) : k \in 0 .. Len(L[n].members) - 1} \cup
      {UpTo([head |-> x, members |-> <<>>]) : x \in Records}

\* What a file being written may hold when the process dies: the first lines, then
\* perhaps a cut one, or a part of a key that is no record's (torn).
CutShort(L) ==
  LET Cut(t, ls) == [there : {TRUE}, whole : {FALSE}, torn : t, lines : ls]
  IN  Cut(BOOLEAN, {SubSeq(L, 1, n) : n \in 0 .. Len(L)}) \cup
      Cut({FALSE}, UNION {CutLine(L, n) : n \in DOMAIN L})

Size(S) == SumFunction([i \in DOMAIN S |-> Len(S[i].members)])

\* is_consistent.
IsConsistent == Size(match) = totalNum

\* self_repair and merge: the members of a cluster share the union of their
\* coauthors.
Unite(L, co) ==
  [x \in Records |->
     IF x \in InLines(L)
     THEN UNION {co[y] : y \in ToSet(L[ClusterOf(L, x)].members)}
     ELSE co[x]]

\* last2mid of change_mid_name: the first of the longest middle names among the
\* members with the last name of x.
LongestMiddle(ms, mid, x) ==
  LET same == {i \in DOMAIN ms : Lastname[ms[i]] = Lastname[x] /\ Length[mid[ms[i]]] > 0}
      best == {i \in same : \A j \in same : Length[mid[ms[j]]] <= Length[mid[ms[i]]]}
  IN  mid[ms[Min(best)]]

\* change_mid_name on every cluster; empty middle names stay.
ChangeMiddle(L, mid) ==
  [x \in Records |->
     IF x \in InLines(L) /\ Length[mid[x]] > 0
     THEN LongestMiddle(L[ClusterOf(L, x)].members, mid, x)
     ELSE mid[x]]

\* extract_blocking_info of a delegate: strings are numbered in their order.
BlockOf(x, mid) == BlockKey[round][x] * (Cardinality(Names) + 1)
                     + (IF round \in MiddleRounds THEN mid[x] ELSE 0)

\* cluster_by_block: a line is appended to the list of its block.
Blocked(L, block) ==
  LET before == {e \in (DOMAIN L) \X (DOMAIN L) :
                   \/ block[e[1]] < block[e[2]]
                   \/ block[e[1]] = block[e[2]] /\ e[1] < e[2]}
      order == InOrder(DOMAIN L, before)
  IN  [n \in DOMAIN L |-> [block |-> block[order[n]], head |-> L[order[n]].head,
                           members |-> L[order[n]].members]]

\* Cluster j is merged into i, which any of the members may represent, and
\* leaves the list.
Merges(S, i, j) ==
  LET both == S[i].members \o S[j].members
  IN  {RemoveAt([S EXCEPT ![i].head = h, ![i].members = both], j) : h \in ToSet(both)}

-----------------------------------------------------------------------------

Init ==
  /\ pc = "off" /\ starts = 0
  /\ network \in BOOLEAN
  /\ files = [f \in Files |-> Absent]
  /\ round = 0 /\ old = 0 /\ out = 0
  /\ match = <<>> /\ totalNum = 0 /\ polished = <<>>
  /\ middle = CsvMiddle /\ coauthors = CsvCoauthors
  /\ intact = TRUE

\* config_engine: the program is started at a round, with the result of the
\* round before as the starting file.  The network file and final.txt of the
\* process before are forgotten: nobody reads them but who has written them.
Start ==
  /\ pc \in Ended /\ starts < MaxStarts
  /\ \E r \in 1 .. NumRounds + 1 :
       /\ r = 1 \/ files[r - 1].there
       /\ round' = r /\ old' = r - 1
       /\ intact' = (r = 1 \/ files[r - 1].whole)
  /\ pc' = "config" /\ starts' = starts + 1
  /\ files' = [f \in Files |-> IF f \in {Network, Final} THEN Absent ELSE files[f]]
  /\ UNCHANGED <<network, out, match, totalNum, polished, middle, coauthors>>

\* config_blocking finds the module of the round.
ConfigRound ==
  /\ pc = "config" /\ round \in Rounds
  /\ pc' = IF round = 1 THEN "consolidate" ELSE "reset"
  /\ UNCHANGED <<starts, network, files, process>>

\* It cannot read the file (1): no post-processing.
NoConfigFile ==
  /\ pc = "config"
  /\ pc' = "stopped" /\ Exit
  /\ UNCHANGED <<starts, network, files>>

\* There is no module of the round (2): one_step_postprocess reads the last
\* result.
NoMoreRounds ==
  /\ pc = "config" /\ round \notin Rounds /\ ~files[old].torn
  /\ pc' = "polish" /\ out' = Final
  /\ polished' = files[old].lines
  /\ coauthors' = Unite(files[old].lines, coauthors)
  /\ UNCHANGED <<starts, network, files, round, old, match, totalNum, middle, intact>>

\* preliminary_consolidation: one cluster for every blocking string, in the
\* order of the CSV file, under its first record.
Consolidated ==
  LET keys == {Presort[x] : x \in Records}
      Key(n) == InOrder(keys, Ascending(keys))[n]
      Of(k) == LET xs == {x \in Records : Presort[x] = k} IN InOrder(xs, Ascending(xs))
  IN  [n \in 1 .. Cardinality(keys) |->
         [block |-> Key(n), head |-> Of(Key(n))[1], members |-> Of(Key(n))]]

Consolidate ==
  /\ pc = "consolidate"
  /\ match' = Consolidated
  /\ coauthors' = Unite(Consolidated, coauthors)
  /\ totalNum' = Size(Consolidated)
  /\ pc' = "open" /\ out' = old
  /\ UNCHANGED <<starts, network, files, round, old, polished, middle, intact>>

\* The stream is opened, which empties the file; print throws if the clusters
\* are not consistent (output_results has no such test).
OpenFile ==
  /\ pc = "open"
  /\ files' = [files EXCEPT ![out] = [Contents(<<>>) EXCEPT !.whole = FALSE]]
  /\ IF out \in {Network, Final} \/ IsConsistent
     THEN pc' = "write" /\ UNCHANGED process
     ELSE pc' = "inconsistent" /\ Exit
  /\ UNCHANGED <<starts, network>>

Printed == IF out \in {Network, Final} THEN polished ELSE Lines(match)

\* Faulty variant: the file is named after the round before.
EndDisambiguateSameFile ==
  /\ pc = "disambiguate" /\ InLines(match) # {}
  /\ pc' = "open" /\ out' = IF round = 1 THEN 1 ELSE old
  /\ UNCHANGED <<starts, network, files, round, old, match, totalNum, polished,
                 middle, coauthors, intact>>

\* The file is complete: the starting file and the network file are read next.
Written(f) ==
  /\ pc = "write" /\ out = f
  /\ files' = [files EXCEPT ![out] = Contents(Printed)]

WriteInput ==
  /\ \E f \in {0, Network} : Written(f)
  /\ pc' = IF out = 0 THEN "reset" ELSE "again"
  /\ polished' = <<>>
  /\ UNCHANGED <<starts, network, round, old, out, match, totalNum, middle, coauthors, intact>>

\* Faulty variant: the round is not counted up.
WriteMatchSameRound ==
  /\ \E f \in Rounds : Written(f)
  /\ old' = out
  /\ match' = <<>> /\ totalNum' = 0
  /\ pc' = "config"
  /\ UNCHANGED <<starts, network, round, out, polished, middle, coauthors, intact>>

\* oldmatchfile = matchfile, ++round; the ClusterInfo of the round is gone.
WriteMatch ==
  /\ \E f \in Rounds : Written(f)
  /\ old' = out /\ round' = round + 1
  /\ match' = <<>> /\ totalNum' = 0
  /\ pc' = "config"
  /\ UNCHANGED <<starts, network, out, polished, middle, coauthors, intact>>

\* output_results of one_step_postprocess; Full_Disambiguation returns.
WriteFinal ==
  /\ Written(Final)
  /\ pc' = "done" /\ Exit
  /\ UNCHANGED <<starts, network>>

\* The process dies; a file it was writing holds what had got there.
Crash ==
  /\ pc \in Running
  /\ pc' = "off" /\ Exit
  /\ IF pc = "write"
     THEN \E cut \in CutShort(Printed) : files' = [files EXCEPT ![out] = cut]
     ELSE UNCHANGED files
  /\ UNCHANGED <<starts, network>>

\* Faulty variant: total_num goes on from what it was.
ResetBlockingKeepsTotal(f) ==
  LET L == files[f].lines IN
  /\ match' = Blocked(L, [i \in DOMAIN L |-> BlockOf(L[i].head, middle)])
  /\ coauthors' = Unite(L, coauthors)
  /\ middle' = ChangeMiddle(L, middle)
  /\ totalNum' = totalNum + Size(L)

\* Faulty variant: the clusters are not repaired after they are read.
ResetBlockingNoRepair(f) ==
  LET L == files[f].lines IN
  /\ match' = Blocked(L, [i \in DOMAIN L |-> BlockOf(L[i].head, middle)])
  /\ middle' = ChangeMiddle(L, middle)
  /\ totalNum' = Size(L)
  /\ UNCHANGED coauthors

\* reset_blocking: the file is read, its clusters are repaired and put into
\* the block of their delegate as it is before middle names are changed.
ResetBlocking(f) ==
  LET L == files[f].lines IN
  /\ match' = Blocked(L, [i \in DOMAIN L |-> BlockOf(L[i].head, middle)])
  /\ coauthors' = Unite(L, coauthors)
  /\ middle' = ChangeMiddle(L, middle)
  /\ totalNum' = Size(L)

\* Faulty variant: clusters that will be polished and read again keep their
\* middle names at the first reading.
ResetNamesOnce ==
  /\ pc = "reset" /\ ~files[old].torn
  /\ LET L == files[old].lines IN
     /\ match' = Blocked(L, [i \in DOMAIN L |-> BlockOf(L[i].head, middle)])
     /\ coauthors' = Unite(L, coauthors)
     /\ middle' = IF network THEN middle ELSE ChangeMiddle(L, middle)
     /\ totalNum' = Size(L)
  /\ IF network
     THEN pc' = "polish" /\ polished' = files[old].lines /\ out' = Network
     ELSE pc' = "disambiguate" /\ UNCHANGED <<polished, out>>
  /\ UNCHANGED <<starts, network, files, round, old, intact>>

\* The first reset_blocking; with network_clustering a ClusterSet then reads
\* the same file.
Reset ==
  /\ pc = "reset" /\ ~files[old].torn
  /\ ResetBlocking(old)
  /\ IF network
     THEN pc' = "polish" /\ polished' = files[old].lines /\ out' = Network
     ELSE pc' = "disambiguate" /\ UNCHANGED <<polished, out>>
  /\ UNCHANGED <<starts, network, files, round, old, intact>>

\* A part of a key that is no record's: the file cannot be read, by either reader.
ReadThrows ==
  /\ files[old].torn
  /\ pc = "reset" \/ (pc = "config" /\ round \notin Rounds)
  /\ pc' = "thrown" /\ Exit
  /\ UNCHANGED <<starts, network, files>>

\* Faulty variant: the mergee stays in the list.
PolishMergeNoErase ==
  /\ pc = "polish"
  /\ \E i, j \in DOMAIN polished :
       /\ i # j
       /\ polished' = [polished EXCEPT ![i] = [@ EXCEPT !.members = @ \o polished[j].members]]
  /\ UNCHANGED <<pc, starts, network, files, round, old, out, match, totalNum, middle,
                 coauthors, intact>>

\* post_polish merges two clusters.
PolishMerge ==
  /\ pc = "polish"
  /\ \E i, j \in DOMAIN polished : i # j /\ polished' \in Merges(polished, i, j)
  /\ coauthors' = Unite(polished', coauthors)
  /\ UNCHANGED <<pc, starts, network, files, round, old, out, match, totalNum, middle, intact>>

\* It throws at a record no cluster has, or loses its center (see PostPolish).
PolishThrows ==
  /\ pc = "polish"
  /\ \/ InLines(polished) # Records
     \/ \E i \in DOMAIN polished : polished[i].head \notin ToSet(polished[i].members)
  /\ pc' = "thrown" /\ Exit
  /\ UNCHANGED <<starts, network, files>>

PolishEnds ==
  /\ pc = "polish"
  /\ pc' = "open"
  /\ UNCHANGED <<starts, network, files, process>>

\* The second reset_blocking, from the network file.
ResetAgain ==
  /\ pc = "again"
  /\ ResetBlocking(Network)
  /\ pc' = "disambiguate"
  /\ UNCHANGED <<starts, network, files, round, old, out, polished, intact>>

\* Faulty variant: the members of the mergee are left out.
MergeInBlockDrops ==
  /\ pc = "disambiguate"
  /\ \E i, j \in DOMAIN match :
       /\ i < j /\ match[i].block = match[j].block
       /\ match' = RemoveAt(match, j)
  /\ UNCHANGED <<pc, starts, network, files, round, old, out, totalNum, polished, middle,
                 coauthors, intact>>

\* disambiguate merges a cluster of a block into one before it.
MergeInBlock ==
  /\ pc = "disambiguate"
  /\ \E i, j \in DOMAIN match :
       /\ i < j /\ match[i].block = match[j].block
       /\ match' \in Merges(match, i, j)
  /\ coauthors' = Unite(match', coauthors)
  /\ UNCHANGED <<pc, starts, network, files, round, old, out, totalNum, polished, middle, intact>>

\* The report names the largest cluster.
EndDisambiguate ==
  /\ pc = "disambiguate" /\ InLines(match) # {}
  /\ pc' = "open" /\ out' = round
  /\ UNCHANGED <<starts, network, files, round, old, match, totalNum, polished,
                 middle, coauthors, intact>>

\* There is none when the file read had no member of a cluster: pmax is NULL, and
\* the process dies.
NoLargestCluster ==
  /\ pc = "disambiguate" /\ InLines(match) = {}
  /\ pc' = "off" /\ Exit
  /\ UNCHANGED <<starts, network, files>>

\* Nothing is left to start.
Rest == pc \in Ended /\ starts = MaxStarts /\ UNCHANGED vars

Step ==
  \/ ConfigRound \/ NoConfigFile \/ NoMoreRounds \/ Consolidate \/ OpenFile
  \/ WriteInput \/ WriteMatch \/ WriteFinal
  \/ Reset \/ ReadThrows \/ PolishMerge \/ PolishThrows \/ PolishEnds \/ ResetAgain
  \/ MergeInBlock \/ EndDisambiguate \/ NoLargestCluster

Next == Start \/ Step \/ Crash \/ Rest

Spec == Init /\ [][Next]_vars

\* A process that was started goes on until it ends or dies.
FairSpec == Spec /\ WF_vars(Step)
-----------------------------------------------------------------------------
(* Properties.                                                             *)

\* A line of a file or of a ClusterSet, and a cluster of a ClusterInfo.
Line    == [head : Records, members : Seq(Records)]
Cluster == [block : Nat, head : Records, members : Seq(Records)]
File    == [there : BOOLEAN, torn : BOOLEAN, whole : BOOLEAN, lines : Seq(Line)]

TypeOK ==
  /\ pc \in Ended \cup Running /\ starts \in 0 .. MaxStarts /\ network \in BOOLEAN
  /\ round \in 0 .. NumRounds + 1 /\ old \in Files /\ out \in Files
  /\ files \in [Files -> File]
  /\ match \in Seq(Cluster) /\ totalNum \in Nat /\ polished \in Seq(Line)
  /\ middle \in [Records -> Names] /\ coauthors \in [Records -> SUBSET Coauthors]
  /\ intact \in BOOLEAN

IsPartition(L) ==
  /\ InLines(L) = Records
  /\ Size(L) = NumRecords
  /\ \A i \in DOMAIN L : L[i].head \in ToSet(L[i].members)

\* A file written to its end by a run whose input was complete holds every
\* record exactly once, every cluster under one of its own members, however
\* the runs before it were interrupted and restarted.
WholeIsPartition == \A f \in Files : files[f].whole => IsPartition(files[f].lines)

\* "Not Consistent!" is never thrown, after the output file has been emptied:
\* total_num belongs to the clusters in memory although they are consolidated,
\* read, polished and read again, and read from files that were cut short.
AlwaysConsistent == pc # "inconsistent"

\* A round never writes over the result it starts from, so a process that dies
\* in it can be started again at the same round.
SourceSurvives == pc \in Running /\ round > 1 /\ intact => files[old].whole

\* The file the clusters in memory were last read from.
Source == IF network THEN Network ELSE old

\* Middle names and coauthors that were changed in memory and never written are
\* found again from the file: once a round has read it, they are what a process
\* started now, from the same file, would have, although the one that has come
\* through all the rounds changed them round by round (change_mid_name,
\* self_repair).
NamesOfRestart ==
  pc = "disambiguate" =>
    /\ \A x \in InLines(files[Source].lines) :
         middle[x] = ChangeMiddle(files[Source].lines, CsvMiddle)[x]
    /\ \A x \in InLines(match) : coauthors[x] = Unite(match, CsvCoauthors)[x]

\* The middle names by which a process started now, at this round, would block:
\* with post-processing it has read the file once before.
RestartMiddle == IF network THEN ChangeMiddle(files[old].lines, CsvMiddle) ELSE CsvMiddle

\* Every cluster read is, by itself or merged, in the block a process started now
\* would put it into.
SameBlocks ==
  \A i \in DOMAIN match, l \in DOMAIN files[Source].lines :
    ToSet(files[Source].lines[l].members) \cap ToSet(match[i].members) # {} =>
      match[i].block = BlockOf(files[Source].lines[l].head, RestartMiddle)

\* With post-processing after each round, and in rounds that do not block by middle
\* names, a round has the blocks of its starting file whatever the rounds before it
\* changed in memory, and a cluster only takes in clusters of its own block
\* (reset_blocking, retrieve_last_comparision_info, disambiguate).  In the other rounds
\* it need not: clusters are blocked before their middle names are changed, by what the
\* round before left in memory.
BlocksOfRestart ==
  pc = "disambiguate" /\ (round \in MiddleRounds => network) => SameBlocks

\* A process that died can be started again at its round: with its file read, it has the
\* names and coauthors of the process that came through the rounds before, and the
\* blocks too, but for the rounds named above (Full_Disambiguation).
RestartAgrees == NamesOfRestart /\ BlocksOfRestart

\* Every cluster of K is a part of one of L.
Coarsened(K, L) ==
  \A i \in DOMAIN K : \E j \in DOMAIN L : ToSet(K[i].members) \subseteq ToSet(L[j].members)

\* A round only merges: the members of a cluster of the result it started from
\* are together in a cluster of what it disambiguates and writes.
RoundsOnlyMerge ==
  pc = "disambiguate" \/ (pc = "write" /\ out \in Rounds) => Coarsened(files[old].lines, match)

\* Which clusters are in use: those of the ClusterInfo, on the way from a file
\* they are read from to the one they are written to, or those of the ClusterSet.
Prints       == pc \in {"open", "write"}
InMatch      == pc = "disambiguate" \/ (Prints /\ out \notin {Network, Final})
InPolished   == pc = "polish" \/ (Prints /\ out \in {Network, Final})
Consolidates == round = 1 /\ (pc \in {"config", "consolidate"} \/ (Prints /\ out = 0))

\* Where the program is, and the files it works from and writes to.
PlaceInv ==
  /\ pc \in Running => round # 0 /\ old = round - 1
  /\ pc \in {"consolidate", "reset", "again", "disambiguate"} => round \in Rounds
  /\ pc = "consolidate" => round = 1
  /\ InPolished => out = Final \/ (out = Network /\ round \in Rounds)
  /\ Prints /\ ~InPolished => (out = round /\ round \in Rounds) \/ (out = 0 /\ round = 1)

\* The clusters in use are those of total_num, and each holds the clusters of
\* the result the round started from that it was made of.
ClustersInv ==
  /\ AlwaysConsistent
  /\ InMatch => totalNum = Size(match)
  /\ InMatch /\ ~Consolidates => Coarsened(files[old].lines, match)
  /\ InPolished => Coarsened(files[old].lines, polished)
  /\ pc = "again" => Coarsened(files[old].lines, files[Network].lines)

\* As long as no cut file was read, the files to read are whole and the clusters
\* in use a partition.
WholeInv ==
  /\ WholeIsPartition
  /\ intact /\ pc \in Running /\ ~Consolidates => files[old].whole
  /\ intact /\ pc = "again" => files[Network].whole
  /\ intact /\ InMatch => IsPartition(match)
  /\ intact /\ InPolished => IsPartition(polished)

\* The inductive invariant behind the properties above.
RoundsInv == TypeOK /\ PlaceInv /\ ClustersInv /\ WholeInv

\* No record is in two clusters, not even of a file that was cut short.
Apart(L) ==
  \A i, j \in DOMAIN L : i # j => ToSet(L[i].members) \cap ToSet(L[j].members) = {}

\* The names and coauthors in memory give a cluster what those of the CSV file do.
SameNames(ms, mid) ==
  \A x \in ToSet(ms) :
    IF Length[CsvMiddle[x]] = 0 THEN mid[x] = CsvMiddle[x]
    ELSE /\ Length[mid[x]] > 0
         /\ LongestMiddle(ms, mid, x) = LongestMiddle(ms, CsvMiddle, x)
SameCoauthors(ms, co) ==
  UNION {co[x] : x \in ToSet(ms)} = UNION {CsvCoauthors[x] : x \in ToSet(ms)}

Restartable(L, mid, co) ==
  /\ Apart(L)
  /\ \A x \in Records \ InLines(L) : mid[x] = CsvMiddle[x]
  /\ \A i \in DOMAIN L : SameNames(L[i].members, mid) /\ SameCoauthors(L[i].members, co)

\* What is in memory belongs to the clusters in use, or nothing is there yet; with
\* it NamesOfRestart is inductive.
MemoryInv ==
  /\ \A f \in Files : Apart(files[f].lines)
  /\ pc = "again" \/ (InPolished /\ out = Network) => network
  /\ pc \in Ended \/ (Consolidates /\ ~Prints) => middle = CsvMiddle /\ coauthors = CsvCoauthors
  /\ pc \in {"config", "reset"} /\ ~Consolidates =>
       Restartable(files[old].lines, middle, coauthors)
  /\ pc = "again" => Restartable(files[Network].lines, middle, coauthors)
  /\ InMatch => Restartable(match, middle, coauthors)
  /\ InPolished => Restartable(polished, middle, coauthors)

\* While clusters are polished and read again, the middle names are those the first
\* reading gave; with it BlocksOfRestart is inductive.
BlocksInv ==
  pc = "again" \/ (InPolished /\ out = Network) =>
    \A x \in Records : middle[x] = ChangeMiddle(files[old].lines, CsvMiddle)[x]

\* Every run ends, whatever file it is started from.
RunEnds == [](pc \in Running => <>(pc \in Ended))
=============================================================================
