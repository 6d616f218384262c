----------------------------- MODULE PostPolish -----------------------------
(***************************************************************************)
(* Post-processing: one_step_postprocess and, after every round when       *)
(* "POSTPROCESS AFTER EACH ROUND" is set, post_polish on the result of the *)
(* round before.  For every cluster (the center) it collects the delegates *)
(* of the clusters of its co-inventors and merges those whose names are    *)
(* nearly the same; passes over the list are repeated until one of them    *)
(* merges nothing.                                                         *)
(*                                                                         *)
(* Each merge has to bring four things in step: the list of clusters, the  *)
(* map record2cluster from delegates to list nodes, the map uid2uinv from  *)
(* records to delegates, and the list of links being gone through, while   *)
(* the delegate of the merged cluster may be any of its members.           *)
(*                                                                         *)
(* Records are numbered in the order of their addresses, clusters in the   *)
(* order of the list, which only loses elements.  A node of the list of    *)
(* links is known by the delegate it was made with: links are sorted by    *)
(* address, and only the value of the node r points at ever changes.       *)
(***************************************************************************)
EXTENDS Delegates

CONSTANTS
  NumRecords,   \* the records are 1 .. NumRecords
  Patent,       \* the patent of each record
  Country,      \* "asian" (CN, JP, KR, TW), "other" or "uninformative"
  Alike,        \* pairs whose two name scores exceed each threshold
  Files         \* results to start from: sequences of [head, members]

Nodes    == 1 .. NumRecords
End      == NumRecords + 1      \* end() of any of the lists
NoRecord == 0                   \* not in uid2uinv
NoNode   == 0                   \* not in record2cluster
Thresholds == {"normal", "asian"}

\* What a printed result holds, complete or cut short: every record at most
\* once, every cluster under its own delegate.
ASSUME PolishAssumption ==
  /\ NumRecords \in Nat \ {0}
  /\ Records = 1 .. NumRecords
  /\ Alike \in [Thresholds -> SUBSET (Records \X Records)]
  /\ \A f \in Files :
       /\ DOMAIN f \in SUBSET Nodes
       /\ \A n \in DOMAIN f : f[n].head \in Records /\ f[n].members \in SUBSET Records
       /\ \A m, n \in DOMAIN f : m # n =>
            /\ f[m].head # f[n].head
            /\ f[m].members \cap f[n].members = {}
            /\ f[m].head \notin f[n].members

VARIABLES
  alive,           \* the nodes still in the list of clusters
  members,         \* m_fellows of each node
  head,            \* m_delegate of each node
  record2cluster,  \* delegate -> node
  uid2uinv,        \* record -> delegate
  pc,              \* where post_polish is
  q,               \* the center
  links,           \* nodes of the list of links, r and s in it
  r, s,
  rhead,           \* what *r is now
  threshold,
  cnt, roundCnt,   \* cnt and round_cnt
  complete         \* the file had every record, each under its delegate

list  == <<alive, members, head>>
maps  == <<record2cluster, uid2uinv>>
loop  == <<links, r, s, rhead>>
count == <<cnt, roundCnt>>
vars  == <<list, maps, pc, q, loop, threshold, count, complete>>

Stopped == {"done", "thrown", "undefined"}

\* x is where an iterator at k of the list S is after ++.
IsNext(S, k, x) ==
  /\ x \in S \cup {End}
  /\ k < x
  /\ \A y \in S : k < y => x <= y

-----------------------------------------------------------------------------
(* The trees.                                                              *)

\* patent_tree: the records of the patent of x.
PatentHolders(x) == {y \in Records : Patent[y] = Patent[x]}

\* add_uid2uinv (build_uid2uinv_tree makes the same map from the clusters in
\* memory): the delegate of the cluster that has x.
DelegateOf(x) ==
  IF \E n \in alive : x \in members[n]
  THEN head[CHOOSE n \in alive : x \in members[n]]
  ELSE NoRecord

\* find_associated_nodes: the delegates of the other holders of the patents
\* of a cluster, without the members of the cluster itself.
Associated(n) == UNION {{uid2uinv[y] : y \in PatentHolders(x) \ {x}} : x \in members[n]}
Linkages(n)   == Associated(n) \ members[n]

IsComplete(f) ==
  /\ \A x \in Records : \E n \in DOMAIN f : x \in f[n].members
  /\ \A n \in DOMAIN f : f[n].head \in f[n].members
-----------------------------------------------------------------------------

\* read_from_file has filled the list.
Init ==
  /\ \E f \in Files :
       /\ alive = DOMAIN f
       /\ members = [n \in Nodes |-> IF n \in DOMAIN f THEN f[n].members ELSE {}]
       /\ head = [n \in Nodes |-> IF n \in DOMAIN f THEN f[n].head ELSE NoRecord]
       /\ complete = IsComplete(f)
  /\ record2cluster = [x \in Records |-> NoNode]
  /\ uid2uinv = [x \in Records |-> NoRecord]
  /\ pc = "trees"
  /\ q = End /\ links = {} /\ r = End /\ s = End /\ rhead = NoRecord
  /\ threshold = "normal"
  /\ cnt = 0 /\ roundCnt = 0

\* The clusters enter uid2uinv (an entry that is there already, which a
\* printed result cannot cause, would throw).
BuildTrees ==
  /\ pc = "trees"
  /\ uid2uinv' = [x \in Records |-> DelegateOf(x)]
  /\ pc' = "map"
  /\ UNCHANGED <<list, record2cluster, q, loop, threshold, count, complete>>

\* record2cluster.
MapClusters ==
  /\ pc = "map"
  /\ record2cluster' = [x \in Records |->
       IF \E n \in alive : head[n] = x THEN CHOOSE n \in alive : head[n] = x ELSE NoNode]
  /\ pc' = "pass"
  /\ UNCHANGED <<list, uid2uinv, q, loop, threshold, count, complete>>

\* Faulty variant: round_cnt stays what it was.
StartPassOldCount ==
  /\ pc = "pass"
  /\ \E x \in alive \cup {End} : IsNext(alive, 0, x) /\ q' = x
  /\ pc' = "center"
  /\ UNCHANGED <<list, maps, loop, threshold, count, complete>>

\* round_cnt = cnt, and q = begin().
StartPass ==
  /\ pc = "pass"
  /\ roundCnt' = cnt
  /\ \E x \in alive \cup {End} : IsNext(alive, 0, x) /\ q' = x
  /\ pc' = "center"
  /\ UNCHANGED <<list, maps, loop, threshold, cnt, complete>>

\* The country of the center's delegate is not informative: continue.
SkipCenter ==
  /\ pc = "center" /\ q # End
  /\ Country[head[q]] = "uninformative"
  /\ \E x \in alive \cup {End} : IsNext(alive, q, x) /\ q' = x
  /\ UNCHANGED <<list, maps, pc, loop, threshold, count, complete>>

\* The links of the center; find_associated_nodes throws if it meets a record
\* that no cluster has.
TakeCenter ==
  /\ pc = "center" /\ q # End
  /\ Country[head[q]] # "uninformative"
  /\ threshold' = IF Country[head[q]] = "asian" THEN "asian" ELSE threshold
  /\ IF NoRecord \in Associated(q)
     THEN pc' = "thrown" /\ UNCHANGED <<links, r>>
     ELSE /\ pc' = "outer"
          /\ links' = Linkages(q)
          /\ \E x \in Linkages(q) \cup {End} : IsNext(Linkages(q), 0, x) /\ r' = x
  /\ UNCHANGED <<list, maps, q, s, rhead, count, complete>>

\* pfirst and plast are those of *r from now on; s = r, ++s.
TakeLink ==
  /\ pc = "outer" /\ r # End
  /\ rhead' = r
  /\ \E x \in links \cup {End} : IsNext(links, r, x) /\ s' = x
  /\ pc' = "inner"
  /\ UNCHANGED <<list, maps, q, links, r, threshold, count, complete>>

\* Both scores of the names of the original *r and of *s exceed the threshold.
SameNames == pc = "inner" /\ s # End /\ <<r, s>> \in Alike[threshold]

KeepLink ==
  /\ pc = "inner" /\ s # End /\ <<r, s>> \notin Alike[threshold]
  /\ \E x \in links \cup {End} : IsNext(links, s, x) /\ s' = x
  /\ UNCHANGED <<list, maps, pc, q, links, r, rhead, threshold, count, complete>>

\* Iterators at the merged cluster after mergee b has left the list.
AfterMerge(b) ==
  /\ alive' = alive \ {b}
  /\ links' = links \ {s}
  /\ \E x \in links \cup {End} : IsNext(links, s, x) /\ s' = x
  /\ cnt' = cnt + 1
  /\ pc' = IF b = q THEN "undefined" ELSE "inner"
  /\ UNCHANGED <<q, r, threshold, roundCnt, complete>>

NotInTree ==
  /\ pc' = "thrown"
  /\ UNCHANGED <<list, maps, q, loop, threshold, count, complete>>

\* Faulty variant: record2cluster keeps the old delegate of the merger.
MergeKeepsOldHead ==
  /\ SameNames
  /\ LET a == record2cluster[rhead]
         b == record2cluster[s]
     IN  IF a = NoNode \/ b = NoNode
         THEN NotInTree
         ELSE /\ members' = [members EXCEPT ![a] = @ \cup members[b], ![b] = {}]
              /\ \E h \in Representatives(members[a] \cup members[b]) :
                   /\ head' = [head EXCEPT ![a] = h]
                   /\ uid2uinv' = [x \in Records |->
                        IF x \in members[a] \cup members[b] THEN h ELSE uid2uinv[x]]
                   /\ record2cluster' = [record2cluster EXCEPT ![s] = NoNode]
                   /\ rhead' = h
              /\ AfterMerge(b)

\* Faulty variant: only the mergee's records get the new delegate.
MergeOldRecordsStale ==
  /\ SameNames
  /\ LET a == record2cluster[rhead]
         b == record2cluster[s]
     IN  IF a = NoNode \/ b = NoNode
         THEN NotInTree
         ELSE /\ members' = [members EXCEPT ![a] = @ \cup members[b], ![b] = {}]
              /\ \E h \in Representatives(members[a] \cup members[b]) :
                   /\ head' = [head EXCEPT ![a] = h]
                   /\ uid2uinv' = [x \in Records |-> IF x \in members[b] THEN h ELSE uid2uinv[x]]
                   /\ record2cluster' = [x \in Records |->
                        IF x = h THEN a ELSE IF x \in {s, rhead} THEN NoNode
                        ELSE record2cluster[x]]
                   /\ rhead' = h
              /\ AfterMerge(b)

\* Faulty variant: the members of the mergee stay in the list as well.
MergeNoErase ==
  /\ SameNames
  /\ LET a == record2cluster[rhead]
         b == record2cluster[s]
     IN  IF a = NoNode \/ b = NoNode
         THEN NotInTree
         ELSE /\ members' = [members EXCEPT ![a] = @ \cup members[b]]
              /\ \E h \in Representatives(members[a] \cup members[b]) :
                   /\ head' = [head EXCEPT ![a] = h]
                   /\ uid2uinv' = [x \in Records |->
                        IF x \in members[a] \cup members[b] THEN h ELSE uid2uinv[x]]
                   /\ record2cluster' = [x \in Records |->
                        IF x = h THEN a ELSE IF x \in {s, rhead} THEN NoNode
                        ELSE record2cluster[x]]
                   /\ rhead' = h
              /\ AfterMerge(End)

\* The clusters of *r and *s become one, which chooses its delegate anew; the
\* two maps, the list of clusters and the list of links follow.
MergeLinked ==
  /\ SameNames
  /\ LET a == record2cluster[rhead]
         b == record2cluster[s]
     IN  IF a = NoNode \/ b = NoNode
         THEN NotInTree
         ELSE /\ members' = [members EXCEPT ![a] = @ \cup members[b], ![b] = {}]
              /\ \E h \in Representatives(members[a] \cup members[b]) :
                   /\ head' = [head EXCEPT ![a] = h]
                   /\ uid2uinv' = [x \in Records |->
                        IF x \in members[a] \cup members[b] THEN h ELSE uid2uinv[x]]
                   /\ record2cluster' = [x \in Records |->
                        IF x = h THEN a ELSE IF x \in {s, rhead} THEN NoNode
                        ELSE record2cluster[x]]
                   /\ rhead' = h
              /\ AfterMerge(b)

\* s is at the end: ++r.
EndLink ==
  /\ pc = "inner" /\ s = End
  /\ \E x \in links \cup {End} : IsNext(links, r, x) /\ r' = x
  /\ pc' = "outer"
  /\ UNCHANGED <<list, maps, q, links, s, rhead, threshold, count, complete>>

\* r is at the end: the threshold is the normal one again, ++q.
EndCenter ==
  /\ pc = "outer" /\ r = End
  /\ threshold' = "normal"
  /\ \E x \in alive \cup {End} : IsNext(alive, q, x) /\ q' = x
  /\ pc' = "center"
  /\ UNCHANGED <<list, maps, loop, count, complete>>

\* Faulty variant: one pass only.
EndPassOnce ==
  /\ pc = "center" /\ q = End
  /\ pc' = "done"
  /\ UNCHANGED <<list, maps, q, loop, threshold, count, complete>>

\* while (round_cnt != cnt); then the result is written.
EndPass ==
  /\ pc = "center" /\ q = End
  /\ pc' = IF roundCnt # cnt THEN "pass" ELSE "done"
  /\ UNCHANGED <<list, maps, q, loop, threshold, count, complete>>

Returned == pc \in Stopped /\ UNCHANGED vars

Step ==
  \/ BuildTrees \/ MapClusters \/ StartPass \/ SkipCenter \/ TakeCenter
  \/ TakeLink \/ KeepLink \/ MergeLinked \/ EndLink \/ EndCenter \/ EndPass

Next == Step \/ Returned

Spec == Init /\ [][Next]_vars

\* The one thread there is goes on as long as it can.
FairSpec == Spec /\ WF_vars(Step)
-----------------------------------------------------------------------------
(* Properties.                                                             *)

TypeOK ==
  /\ alive \in SUBSET Nodes
  /\ members \in [Nodes -> SUBSET Records]
  /\ head \in [Nodes -> Records \cup {NoRecord}]
  /\ record2cluster \in [Records -> Nodes \cup {NoNode}]
  /\ uid2uinv \in [Records -> Records \cup {NoRecord}]
  /\ pc \in {"trees", "map", "pass", "center", "outer", "inner"} \cup Stopped
  /\ q \in Nodes \cup {End}
  /\ links \in SUBSET Records
  /\ r \in Records \cup {End} /\ s \in Records \cup {End}
  /\ rhead \in Records \cup {NoRecord} /\ (pc = "inner" => rhead \in Records)
  /\ threshold \in Thresholds
  /\ cnt \in Nat /\ roundCnt \in Nat
  /\ complete \in BOOLEAN

\* The clusters are a partition, each under one of its members.
ListInv ==
  /\ \A x \in Records : \E n \in alive : x \in members[n]
  /\ \A m, n \in alive : m # n => members[m] \cap members[n] = {}
  /\ \A n \in alive : head[n] \in members[n]

\* Both maps say what the clusters are: the delegate every record is sent to
\* is that of the cluster that has it, and every delegate, and nothing else,
\* leads to its node.
MapsInv ==
  /\ pc # "trees" => \A n \in alive : \A x \in members[n] : uid2uinv[x] = head[n]
  /\ pc \notin {"trees", "map"} =>
       /\ \A n \in alive : record2cluster[head[n]] = n
       /\ \A x \in Records : record2cluster[x] # NoNode =>
            record2cluster[x] \in alive /\ head[record2cluster[x]] = x

\* The links that are still to be used are delegates of clusters other than
\* the center, and so is what *r was changed to.
LinksInv ==
  /\ pc = "center" => q \in alive \cup {End}
  /\ pc \in {"outer", "inner"} =>
       /\ q \in alive
       /\ r \in links \cup {End}
  /\ pc = "outer" =>
       \A x \in links : r <= x => \E n \in alive \ {q} : head[n] = x
  /\ pc = "inner" =>
       /\ r \in links /\ s \in links \cup {End} /\ r < s
       /\ \E n \in alive \ {q} : head[n] = rhead
       /\ rhead \notin {x \in links : r < x}
       /\ \A x \in links : r < x => \E n \in alive \ {q} : head[n] = x

\* After any number of merges, in whatever order and whichever member becomes
\* the delegate, the list, the two maps and the links agree; so no lookup of
\* post_polish fails, no iterator is left on an erased cluster and the center
\* is never erased while its links are gone through.
PolishInv == TypeOK /\ (complete => ListInv /\ MapsInv /\ LinksInv)

\* Post-processing a complete result never ends in one of the exceptions of
\* post_polish ("Record pointer not in tree.", "Cannot find the unique record
\* pointer.") or with the center erased under the loop.
CompleteIsPolished == complete => pc \notin {"thrown", "undefined"}

\* No two co-inventors of a center whose country is known have names that are
\* alike under its threshold.
ThresholdOf(n) == IF Country[head[n]] = "asian" THEN "asian" ELSE "normal"
Quiet(n) ==
  Country[head[n]] # "uninformative" =>
    \A x, y \in Linkages(n) : x < y => <<x, y>> \notin Alike[ThresholdOf(n)]

\* When post_polish returns nothing is left to merge, though the loop looks only
\* at whether the last pass counted a merge.
PolishIsFixpoint == pc = "done" => \A n \in alive : Quiet(n)

\* No pair of links with its first link before r, or with the first link r and
\* the second before s, is alike.
LinksTried ==
  /\ Country[head[q]] # "uninformative" /\ threshold = ThresholdOf(q)
  /\ links = Linkages(q)
  /\ \A x, y \in links :
       x < y /\ (x < r \/ (pc = "inner" /\ x = r /\ y < s)) => <<x, y>> \notin Alike[threshold]

\* A pass that has merged nothing so far found nothing to merge in the centers
\* and links it has gone through; with it PolishIsFixpoint is inductive.
PassInv ==
  /\ roundCnt <= cnt
  /\ pc \in {"trees", "map", "pass", "center"} => threshold = "normal"
  /\ pc = "done" => roundCnt = cnt /\ q = End
  /\ roundCnt = cnt =>
       /\ pc \in {"center", "outer", "inner", "done"} => \A n \in alive : n < q => Quiet(n)
       /\ pc \in {"outer", "inner"} => LinksTried

\* Post-processing ends.
Ends == <>(pc \in Stopped)

Parts == IF complete THEN {members[n] : n \in alive} ELSE {}

\* Post-processing a complete result only merges its clusters, two at a time,
\* and leaves them as they are once it has ended; in particular no record is
\* lost or doubled.
Clustering == INSTANCE ClusterMerging WITH parts <- Parts, ended <- pc \in Stopped
PolishMerges == Clustering!Spec
=============================================================================
