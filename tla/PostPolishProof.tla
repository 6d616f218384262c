--------------------------- MODULE PostPolishProof ---------------------------
(***************************************************************************)
(* Proofs about PostPolish, for every number of records, every patents,    *)
(* countries, names and attributes, and every result to start from.        *)
(***************************************************************************)
EXTENDS PostPolish, DataTheorems

USE PolishAssumption

\* The iterator after k is an element of the list or its end.
LEMMA NextInList ==
  ASSUME NEW S, NEW k, NEW x, IsNext(S, k, x)
  PROVE  x \in S \cup {End} /\ k < x /\ \A y \in S : k < y => x <= y
BY DEF IsNext

\* Nothing that stands for "none" is a record or a node.
LEMMA NoneApart == NoRecord \notin Records /\ NoNode \notin Nodes /\ End \notin Nodes
BY DEF NoRecord, NoNode, End, Nodes

-----------------------------------------------------------------------------
\* Where a complete list is a partition, the delegates tell its clusters apart.
LEMMA HeadsDiffer ==
  ASSUME ListInv, NEW m \in alive, NEW n \in alive, head[m] = head[n]
  PROVE  m = n
BY DEF ListInv

LEMMA InitEstablishes == Init => PolishInv
<1> SUFFICES ASSUME Init PROVE PolishInv
  OBVIOUS
<1>1. PICK f \in Files : 
        /\ alive = DOMAIN f
        /\ members = [n \in Nodes |-> IF n \in DOMAIN f THEN f[n].members ELSE {}]
        /\ head = [n \in Nodes |-> IF n \in DOMAIN f THEN f[n].head ELSE NoRecord]
        /\ complete = IsComplete(f)
  BY DEF Init
<1>2. /\ DOMAIN f \in SUBSET Nodes
      /\ \A n \in DOMAIN f : f[n].head \in Records /\ f[n].members \in SUBSET Records
      /\ \A m, n \in DOMAIN f : m # n => f[m].members \cap f[n].members = {}
  OBVIOUS
<1>3. TypeOK
  <2>1. members \in [Nodes -> SUBSET Records] /\ head \in [Nodes -> Records \cup {NoRecord}]
        /\ alive \in SUBSET Nodes
    BY <1>1, <1>2
  <2>2. record2cluster \in [Records -> Nodes \cup {NoNode}]
        /\ uid2uinv \in [Records -> Records \cup {NoRecord}]
    BY DEF Init
  <2>3. complete \in BOOLEAN
    BY <1>1 DEF IsComplete
  <2> QED  BY <2>1, <2>2, <2>3 DEF TypeOK, Init, Thresholds
<1>4. ASSUME complete PROVE ListInv
  <2>1. /\ \A x \in Records : \E n \in DOMAIN f : x \in f[n].members
        /\ \A n \in DOMAIN f : f[n].head \in f[n].members
    BY <1>1, <1>4 DEF IsComplete
  <2>2. \A n \in alive : members[n] = f[n].members /\ head[n] = f[n].head
    BY <1>1, <1>2
  <2> QED  BY <1>1, <1>2, <2>1, <2>2 DEF ListInv
<1>5. MapsInv /\ LinksInv
  BY DEF Init, MapsInv, LinksInv
<1> QED  BY <1>3, <1>4, <1>5 DEF PolishInv

-----------------------------------------------------------------------------
(* One lemma for each action that changes more than the place of a loop.    *)

LEMMA BuildTreesKeeps == ASSUME PolishInv, BuildTrees PROVE PolishInv'
<1> USE DEF PolishInv, BuildTrees, list, loop, count
<1>1. TypeOK'
  <2>1. \A x \in Records : DelegateOf(x) \in Records \cup {NoRecord}
    BY DEF TypeOK, DelegateOf
  <2> QED  BY <2>1 DEF TypeOK
<1>2. ASSUME complete PROVE ListInv'
  BY <1>2 DEF ListInv
<1>3. ASSUME complete PROVE MapsInv'
  <2>1. ASSUME NEW n \in alive, NEW x \in members[n] PROVE uid2uinv'[x] = head[n]
    <3>1. x \in Records
      BY <2>1 DEF TypeOK
    <3>2. \A m \in alive : x \in members[m] => m = n
      BY <1>3, <2>1 DEF ListInv
    <3>3. DelegateOf(x) = head[n]
      BY <2>1, <3>2 DEF DelegateOf
    <3> QED  BY <3>1, <3>3
  <2> QED  BY <2>1 DEF MapsInv
<1>4. LinksInv'
  BY DEF LinksInv
<1> QED  BY <1>1, <1>2, <1>3, <1>4

LEMMA MapClustersKeeps == ASSUME PolishInv, MapClusters PROVE PolishInv'
<1> USE DEF PolishInv, MapClusters, list, loop, count
<1> DEFINE node(x) == IF \E n \in alive : head[n] = x
                      THEN CHOOSE n \in alive : head[n] = x ELSE NoNode
<1>1. TypeOK'
  <2>1. \A x \in Records : node(x) \in Nodes \cup {NoNode}
    BY DEF TypeOK
  <2> QED  BY <2>1 DEF TypeOK
<1>2. ASSUME complete PROVE ListInv'
  BY <1>2 DEF ListInv
<1>3. ASSUME complete PROVE MapsInv'
  <2>1. ASSUME NEW n \in alive PROVE record2cluster'[head[n]] = n
    <3>1. head[n] \in Records
      BY <1>3, <2>1 DEF ListInv, TypeOK
    <3>2. \A m \in alive : head[m] = head[n] => m = n
      BY <1>3, <2>1, HeadsDiffer
    <3>3. node(head[n]) = n
      BY <2>1, <3>2
    <3> QED  BY <3>1, <3>3
  <2>2. ASSUME NEW x \in Records, record2cluster'[x] # NoNode
        PROVE  record2cluster'[x] \in alive /\ head[record2cluster'[x]] = x
    <3>1. record2cluster'[x] = node(x)
      OBVIOUS
    <3> QED  BY <2>2, <3>1
  <2>3. \A n \in alive : \A x \in members[n] : uid2uinv[x] = head[n]
    BY <1>3 DEF MapsInv
  <2> QED  BY <2>1, <2>2, <2>3 DEF MapsInv
<1>4. LinksInv'
  BY DEF LinksInv
<1> QED  BY <1>1, <1>2, <1>3, <1>4

\* The links of a center of a complete list: delegates of other clusters.
LEMMA LinksOfCenter ==
  ASSUME PolishInv, complete, pc = "center", NEW n \in alive
  PROVE  /\ NoRecord \notin Associated(n)
         /\ Linkages(n) \subseteq Records
         /\ \A x \in Linkages(n) : \E k \in alive \ {n} : head[k] = x
<1>1. ListInv /\ MapsInv /\ TypeOK
  BY DEF PolishInv
<1>2. \A x \in Associated(n) : x \in Records /\ \E k \in alive : head[k] = x
  <2> SUFFICES ASSUME NEW x \in Associated(n)
               PROVE  x \in Records /\ \E k \in alive : head[k] = x
    OBVIOUS
  <2>1. PICK y \in Records : x = uid2uinv[y]
    BY DEF Associated, PatentHolders
  <2>2. PICK k \in alive : y \in members[k]
    BY <1>1 DEF ListInv
  <2>3. x = head[k]
    BY <1>1, <2>1, <2>2 DEF MapsInv
  <2>4. x \in Records
    BY <1>1, <2>3 DEF ListInv, TypeOK
  <2> QED  BY <2>3, <2>4
<1>3. \A x \in Linkages(n) : \E k \in alive \ {n} : head[k] = x
  <2> SUFFICES ASSUME NEW x \in Linkages(n) PROVE \E k \in alive \ {n} : head[k] = x
    OBVIOUS
  <2>1. x \in Associated(n) /\ x \notin members[n]
    BY DEF Linkages
  <2>2. PICK k \in alive : head[k] = x
    BY <1>2, <2>1
  <2>3. k # n
    BY <1>1, <2>1, <2>2 DEF ListInv
  <2> QED  BY <2>2, <2>3
<1> QED  BY <1>2, <1>3, NoneApart DEF Linkages

LEMMA TakeCenterKeeps ==
  ASSUME PolishInv, TakeCenter
  PROVE  PolishInv' /\ (complete' => pc' = "outer")
<1> USE DEF TakeCenter, list, maps, loop, count
<1>1. q \in Nodes /\ (complete => q \in alive)
  BY DEF PolishInv, TypeOK, LinksInv
<1>2. CASE NoRecord \in Associated(q)
  <2>1. ~ complete
    BY <1>1, <1>2, LinksOfCenter
  <2>2. TypeOK'
    BY <1>2 DEF PolishInv, TypeOK, Stopped, Thresholds
  <2> QED  BY <1>2, <2>1, <2>2 DEF PolishInv
<1>3. CASE NoRecord \notin Associated(q)
  <2>1. Linkages(q) \subseteq Records
    <3>1. \A x \in Associated(q) : \E y \in Records : x = uid2uinv[y]
      BY DEF Associated, PatentHolders
    <3> QED  BY <1>3, <3>1 DEF Linkages, PolishInv, TypeOK
  <2>2. pc' = "outer" /\ links' = Linkages(q) /\ r' \in Linkages(q) \cup {End}
    BY <1>3
  <2>3. TypeOK'
    BY <2>1, <2>2 DEF PolishInv, TypeOK, Thresholds
  <2>4. ASSUME complete PROVE ListInv' /\ MapsInv' /\ LinksInv'
    <3>1. ListInv' /\ MapsInv'
      BY <2>2, <2>4 DEF PolishInv, ListInv, MapsInv
    <3>2. \A x \in Linkages(q) : \E n \in alive \ {q} : head[n] = x
      BY <1>1, <2>4, LinksOfCenter
    <3>3. LinksInv'
      BY <1>1, <2>2, <2>4, <3>2 DEF LinksInv
    <3> QED  BY <3>1, <3>3
  <2> QED  BY <2>2, <2>3, <2>4 DEF PolishInv
<1> QED  BY <1>2, <1>3

\* In a complete list both lookups of a merge find clusters, other than each other and
\* than the center.
LEMMA LookupsFind ==
  ASSUME PolishInv, complete, SameNames
  PROVE  /\ record2cluster[rhead] \in alive \ {q}
         /\ record2cluster[s] \in alive \ {q}
         /\ head[record2cluster[rhead]] = rhead
         /\ head[record2cluster[s]] = s
         /\ rhead # s /\ rhead \in Records /\ s \in Records /\ s \in links /\ r < s
<1> USE DEF SameNames, PolishInv
<1>1. s \in links /\ r < s /\ r \in links
  BY DEF LinksInv
<1>2. PICK n \in alive \ {q} : head[n] = rhead
  BY DEF LinksInv
<1>3. PICK m \in alive \ {q} : head[m] = s
  BY <1>1 DEF LinksInv
<1>4. record2cluster[rhead] = n /\ record2cluster[s] = m
  BY <1>2, <1>3 DEF MapsInv
<1>5. rhead # s
  BY <1>1 DEF LinksInv
<1>6. rhead \in Records /\ s \in Records
  BY <1>1, <1>2 DEF ListInv, TypeOK
<1> QED  BY <1>1, <1>2, <1>3, <1>4, <1>5, <1>6

LEMMA MergeLinkedKeeps ==
  ASSUME PolishInv, MergeLinked
  PROVE  PolishInv' /\ (complete' => pc' = "inner")
<1> DEFINE a == record2cluster[rhead]
           b == record2cluster[s]
<1>1. CASE a = NoNode \/ b = NoNode
  <2>1. NotInTree
    BY <1>1 DEF MergeLinked
  <2>2. ~ complete
    BY <1>1, LookupsFind, NoneApart DEF MergeLinked, PolishInv, TypeOK
  <2>3. TypeOK'
    BY <2>1 DEF NotInTree, list, maps, loop, count, PolishInv, TypeOK, Stopped
  <2> QED  BY <2>1, <2>2, <2>3 DEF NotInTree, count, PolishInv
<1>2. CASE ~ (a = NoNode \/ b = NoNode)
  <2>1. PICK h \in Representatives(members[a] \cup members[b]) :
          /\ head' = [head EXCEPT ![a] = h]
          /\ uid2uinv' = [x \in Records |->
               IF x \in members[a] \cup members[b] THEN h ELSE uid2uinv[x]]
          /\ record2cluster' = [x \in Records |->
               IF x = h THEN a ELSE IF x \in {s, rhead} THEN NoNode
               ELSE record2cluster[x]]
          /\ rhead' = h
    BY <1>2 DEF MergeLinked
  <2>2. /\ SameNames
        /\ members' = [members EXCEPT ![a] = @ \cup members[b], ![b] = {}]
        /\ AfterMerge(b)
    BY <1>2 DEF MergeLinked
  <2>3. h \in members[a] \cup members[b]
    BY <2>1 DEF Representatives
  <2>4. s' \in links \cup {End} /\ s < s' /\ \A y \in links : s < y => s' <= y
    BY <2>2 DEF AfterMerge, IsNext
  <2>5. pc = "inner" /\ s # End
    BY <2>2 DEF SameNames
  <2>6. TypeOK'
    <3>1. TypeOK /\ s \in Records /\ rhead \in Records
      BY <2>5 DEF PolishInv, TypeOK
    <3>2. members \in [Nodes -> SUBSET Records] /\ a \in Nodes /\ b \in Nodes
      BY <1>2, <3>1 DEF TypeOK
    <3>3. h \in Records
      BY <2>3, <3>2
    <3>4. /\ members' \in [Nodes -> SUBSET Records]
          /\ head' \in [Nodes -> Records \cup {NoRecord}]
          /\ alive' \in SUBSET Nodes
      BY <2>1, <2>2, <3>1, <3>2, <3>3 DEF TypeOK, AfterMerge
    <3>5. /\ record2cluster' \in [Records -> Nodes \cup {NoNode}]
          /\ uid2uinv' \in [Records -> Records \cup {NoRecord}]
      BY <2>1, <3>1, <3>2, <3>3 DEF TypeOK
    <3>6. rhead' \in Records /\ pc' \in {"inner", "undefined"}
      BY <2>1, <2>2, <3>3 DEF AfterMerge
    <3> HIDE DEF a, b
    <3> QED  BY <2>2, <2>4, <3>1, <3>4, <3>5, <3>6 DEF TypeOK, AfterMerge, Stopped
  <2>7. ASSUME complete PROVE pc' = "inner" /\ ListInv' /\ MapsInv' /\ LinksInv'
    <3>1. /\ a \in alive \ {q} /\ b \in alive \ {q} /\ head[a] = rhead /\ head[b] = s
          /\ rhead # s /\ rhead \in Records /\ s \in Records /\ s \in links /\ r < s
      BY <2>2, <2>7, LookupsFind
    <3>2. a # b
      BY <3>1
    <3>3. TypeOK /\ ListInv /\ MapsInv /\ LinksInv
      BY <2>7 DEF PolishInv
    <3>4. alive' = alive \ {b} /\ links' = links \ {s} /\ pc' = "inner" /\ q' = q /\ r' = r
      BY <2>2, <3>1 DEF AfterMerge
    <3>5. /\ members'[a] = members[a] \cup members[b] /\ head'[a] = h
          /\ \A n \in alive \ {a, b} : members'[n] = members[n] /\ head'[n] = head[n]
      BY <2>1, <2>2, <3>1, <3>2, <3>3 DEF TypeOK
    <3>6. h \in Records /\ \A n \in alive \ {a, b} : h \notin members[n] /\ head[n] # h
      BY <2>3, <3>1, <3>2, <3>3 DEF ListInv, TypeOK
    <3> HIDE DEF a, b
    <3>7. ListInv'
      <4>1. ASSUME NEW x \in Records PROVE \E n \in alive' : x \in members'[n]
        <5>1. PICK n \in alive : x \in members[n]
          BY <3>3 DEF ListInv
        <5>2. CASE n \in {a, b}
          BY <3>1, <3>2, <3>4, <3>5, <5>1, <5>2
        <5>3. CASE n \notin {a, b}
          BY <3>4, <3>5, <5>1, <5>3
        <5> QED  BY <5>2, <5>3
      <4>2. ASSUME NEW m \in alive', NEW n \in alive', m # n
            PROVE  members'[m] \cap members'[n] = {}
        <5>1. \A k \in alive \ {a, b} :
                (members[a] \cup members[b]) \cap members[k] = {}
          BY <3>1, <3>3 DEF ListInv
        <5>2. CASE m = a
          BY <3>4, <3>5, <4>2, <5>1, <5>2
        <5>3. CASE n = a
          BY <3>4, <3>5, <4>2, <5>1, <5>3
        <5>4. CASE m # a /\ n # a
          BY <3>3, <3>4, <3>5, <4>2, <5>4 DEF ListInv
        <5> QED  BY <5>2, <5>3, <5>4
      <4>3. \A n \in alive' : head'[n] \in members'[n]
        BY <2>3, <3>3, <3>4, <3>5 DEF ListInv, a, b
      <4> QED  BY <4>1, <4>2, <4>3 DEF ListInv
    <3>8. MapsInv'
      <4>1. ASSUME NEW n \in alive', NEW x \in members'[n] PROVE uid2uinv'[x] = head'[n]
        <5>1. x \in Records /\ n \in alive
          BY <3>1, <3>3, <3>4, <3>5, <4>1 DEF TypeOK
        <5>2. CASE n = a
          BY <2>1, <3>5, <4>1, <5>1, <5>2 DEF a, b
        <5>3. CASE n # a
          <6>1. x \in members[n] /\ head'[n] = head[n] /\ n \in alive \ {a, b}
            BY <3>4, <3>5, <4>1, <5>3
          <6>2. x \notin members[a] \cup members[b]
            BY <3>1, <3>3, <6>1 DEF ListInv
          <6>3. uid2uinv[x] = head[n]
            BY <3>3, <6>1, <2>2 DEF MapsInv, SameNames
          <6> QED  BY <2>1, <5>1, <6>1, <6>2, <6>3 DEF a, b
        <5> QED  BY <5>2, <5>3
      <4>2. ASSUME NEW n \in alive' PROVE record2cluster'[head'[n]] = n
        <5>1. CASE n = a
          BY <2>1, <3>5, <3>6, <5>1 DEF a
        <5>2. CASE n # a
          <6>1. n \in alive \ {a, b} /\ head'[n] = head[n]
            BY <3>4, <3>5, <5>2
          <6>2. head[n] # h /\ head[n] # s /\ head[n] # rhead
            BY <3>1, <3>3, <3>6, <6>1, HeadsDiffer
          <6>3. head[n] \in Records /\ record2cluster[head[n]] = n
            BY <2>2, <3>3, <6>1 DEF ListInv, TypeOK, MapsInv, SameNames
          <6> QED  BY <2>1, <6>1, <6>2, <6>3
        <5> QED  BY <5>1, <5>2
      <4>3. ASSUME NEW x \in Records, record2cluster'[x] # NoNode
            PROVE  record2cluster'[x] \in alive' /\ head'[record2cluster'[x]] = x
        <5>1. CASE x = h
          BY <2>1, <3>1, <3>2, <3>4, <3>5, <5>1 DEF a
        <5>2. CASE x # h
          <6>1. x \notin {s, rhead} /\ record2cluster'[x] = record2cluster[x]
            BY <2>1, <4>3, <5>2
          <6>2. record2cluster[x] \in alive /\ head[record2cluster[x]] = x
            BY <2>2, <3>3, <4>3, <6>1 DEF MapsInv, SameNames
          <6>3. record2cluster[x] \notin {a, b}
            BY <3>1, <6>1, <6>2
          <6> QED  BY <3>4, <3>5, <6>1, <6>2, <6>3
        <5> QED  BY <5>1, <5>2
      <4> QED  BY <4>1, <4>2, <4>3 DEF MapsInv
    <3>9. LinksInv'
      <4>1. q \in alive' /\ r \in links' /\ r < s'
        BY <2>2, <2>4, <3>1, <3>3, <3>4, <3>6 DEF LinksInv, SameNames, TypeOK, End
      <4>2. s' \in links' \cup {End}
        BY <2>4, <3>1, <3>4 
      <4>3. \E n \in alive' \ {q} : head'[n] = rhead'
        BY <2>1, <3>1, <3>2, <3>4, <3>5
      <4>4. ASSUME NEW x \in links', r < x
            PROVE  x # rhead' /\ \E n \in alive' \ {q} : head'[n] = x
        <5>1. x \in links /\ x # s
          BY <3>4, <4>4
        <5>2. PICK n \in alive \ {q} : head[n] = x
          BY <2>2, <3>3, <4>4, <5>1 DEF LinksInv, SameNames
        <5>3. x # rhead
          BY <2>2, <3>3, <4>4, <5>1 DEF LinksInv, SameNames
        <5>4. n \notin {a, b}
          BY <3>1, <5>1, <5>2, <5>3
        <5> QED  BY <2>1, <3>4, <3>5, <3>6, <5>2, <5>4
      <4> QED  BY <3>4, <4>1, <4>2, <4>3, <4>4 DEF LinksInv
    <3> QED  BY <3>4, <3>7, <3>8, <3>9
  <2> QED  BY <2>2, <2>6, <2>7 DEF AfterMerge, PolishInv
<1> QED  BY <1>1, <1>2

\* The other actions only move the loops.
LEMMA LoopsKeep ==
  ASSUME PolishInv,
         StartPass \/ SkipCenter \/ TakeLink \/ KeepLink \/ EndLink \/ EndCenter \/ EndPass
  PROVE  PolishInv' /\ pc' \in {"pass", "center", "outer", "inner", "done"}
<1> USE DEF list, maps, loop, count
<1> DEFINE Moves == /\ UNCHANGED <<alive, members, head, record2cluster, uid2uinv, complete, links>>
                    /\ pc \notin {"trees", "map"}
                    /\ pc' \in {"pass", "center", "outer", "inner", "done"}
<1>1. Moves
  BY DEF StartPass, SkipCenter, TakeLink, KeepLink, EndLink, EndCenter, EndPass
<1>2. complete => ListInv' /\ MapsInv'
  BY <1>1 DEF PolishInv, ListInv, MapsInv
<1>3. TypeOK'
  <2> USE DEF PolishInv, TypeOK, Thresholds
  <2>1. CASE StartPass
    BY <2>1 DEF StartPass, IsNext
  <2>2. CASE SkipCenter
    BY <2>2 DEF SkipCenter, IsNext
  <2>3. CASE TakeLink
    BY <2>3 DEF TakeLink, IsNext
  <2>4. CASE KeepLink
    BY <2>4 DEF KeepLink, IsNext
  <2>5. CASE EndLink
    BY <2>5 DEF EndLink, IsNext
  <2>6. CASE EndCenter
    BY <2>6 DEF EndCenter, IsNext
  <2>7. CASE EndPass
    BY <2>7 DEF EndPass, Stopped
  <2> QED  BY <2>1, <2>2, <2>3, <2>4, <2>5, <2>6, <2>7
<1>4. ASSUME complete PROVE LinksInv'
  <2>1. LinksInv /\ TypeOK
    BY <1>4 DEF PolishInv
  <2>2. alive \subseteq Nodes /\ links \subseteq Records
    BY <2>1 DEF TypeOK
  <2> USE DEF LinksInv
  <2>3. CASE StartPass
    BY <2>3 DEF StartPass, IsNext
  <2>4. CASE SkipCenter
    BY <2>4 DEF SkipCenter, IsNext
  <2>5. CASE TakeLink
    <3>1. /\ pc = "outer" /\ pc' = "inner" /\ r \in links /\ rhead' = r
          /\ s' \in links \cup {End} /\ r < s' /\ q' = q /\ r' = r
      BY <2>1, <2>5 DEF TakeLink, IsNext
    <3>2. \A x \in links : r <= x => \E n \in alive \ {q} : head[n] = x
      BY <2>1, <3>1
    <3>3. r \in Nat /\ links \subseteq Nat
      BY <2>2, <3>1
    <3> QED  BY <1>1, <2>1, <3>1, <3>2, <3>3
  <2>6. CASE KeepLink
    <3>1. s \in links /\ s' \in links \cup {End} /\ s < s' /\ r < s /\ r \in links
      BY <2>1, <2>6 DEF KeepLink, IsNext
    <3>2. r < s'
      BY <2>2, <3>1 DEF End
    <3> QED  BY <1>1, <2>1, <2>6, <3>1, <3>2 DEF KeepLink
  <2>7. CASE EndLink
    <3>1. pc = "inner" /\ pc' = "outer" /\ r' \in links \cup {End} /\ r < r' /\ r \in links
      BY <2>1, <2>7 DEF EndLink, IsNext
    <3>2. \A x \in links : r' <= x => r < x
      BY <2>2, <3>1 DEF End
    <3> QED  BY <1>1, <2>1, <2>7, <3>1, <3>2 DEF EndLink
  <2>8. CASE EndCenter
    BY <2>8 DEF EndCenter, IsNext
  <2>9. CASE EndPass
    BY <2>9 DEF EndPass
  <2> QED  BY <2>3, <2>4, <2>5, <2>6, <2>7, <2>8, <2>9
<1> QED  BY <1>1, <1>2, <1>3, <1>4 DEF PolishInv

LEMMA StepKeeps ==
  ASSUME PolishInv, Step
  PROVE  PolishInv' /\ (complete' => pc' \notin {"thrown", "undefined"})
<1>1. CASE BuildTrees
  BY <1>1, BuildTreesKeeps DEF BuildTrees
<1>2. CASE MapClusters
  BY <1>2, MapClustersKeeps DEF MapClusters
<1>3. CASE TakeCenter
  BY <1>3, TakeCenterKeeps
<1>4. CASE MergeLinked
  BY <1>4, MergeLinkedKeeps
<1>5. CASE StartPass \/ SkipCenter \/ TakeLink \/ KeepLink \/ EndLink \/ EndCenter \/ EndPass
  BY <1>5, LoopsKeep
<1> QED  BY <1>1, <1>2, <1>3, <1>4, <1>5 DEF Step

LEMMA StutterKeeps == ASSUME PolishInv, UNCHANGED vars PROVE PolishInv'
BY DEF vars, list, maps, loop, count, PolishInv, TypeOK, ListInv, MapsInv, LinksInv

-----------------------------------------------------------------------------
\* The list, the two maps and the links agree after any number of merges, for every
\* number of records and every result to start from (post_polish).
THEOREM PolishInvariant == Spec => []PolishInv
<1>1. PolishInv /\ [Next]_vars => PolishInv'
  BY StepKeeps, StutterKeeps DEF Next, Returned
<1> QED  BY InitEstablishes, <1>1, PTL DEF Spec

\* No exception of post_polish is thrown, and no erased cluster used, when the result it
\* starts from was complete.
THEOREM CompleteNeverThrows == Spec => []CompleteIsPolished
<1>1. Init => CompleteIsPolished
  BY DEF Init, CompleteIsPolished
<1>2. PolishInv /\ CompleteIsPolished /\ [Next]_vars => CompleteIsPolished'
  BY StepKeeps DEF Next, Returned, vars, count, CompleteIsPolished
<1> QED  BY <1>1, <1>2, PolishInvariant, PTL DEF Spec

\* Post-processing a complete result only merges its clusters, two at a time.
THEOREM PolishImplementsMerging == Spec => PolishMerges
<1>1. Init => Clustering!Init
  BY DEF Init, Clustering!Init, Stopped
<1>2. PolishInv /\ [Next]_vars => [Clustering!Next]_(Clustering!pvars)
  <2> SUFFICES ASSUME PolishInv, [Next]_vars PROVE [Clustering!Next]_(Clustering!pvars)
    OBVIOUS
  <2> USE DEF list, maps, loop, count, Clustering!pvars
  <2>1. CASE MergeLinked /\ complete
    <3> DEFINE a == record2cluster[rhead]
               b == record2cluster[s]
    <3>1. /\ a \in alive \ {q} /\ b \in alive \ {q} /\ head[a] = rhead /\ head[b] = s
          /\ rhead # s
      BY <2>1, LookupsFind DEF MergeLinked
    <3>2. a # NoNode /\ b # NoNode /\ a \in Nodes /\ b \in Nodes /\ a # b
      BY <3>1, NoneApart DEF PolishInv, TypeOK
    <3>3. /\ members' = [members EXCEPT ![a] = @ \cup members[b], ![b] = {}]
          /\ alive' = alive \ {b} /\ complete' = complete
          /\ pc = "inner" /\ pc' = "inner"
      BY <2>1, <3>1, <3>2 DEF MergeLinked, AfterMerge, SameNames
    <3> DEFINE A == members[a]
               B == members[b]
               rest == {members[n] : n \in alive \ {a, b}}
    <3>4. /\ members'[a] = A \cup B
          /\ \A n \in alive \ {a, b} : members'[n] = members[n]
      BY <3>2, <3>3 DEF PolishInv, TypeOK
    <3>5. A \cap B = {} /\ A # B /\ A \notin rest /\ B \notin rest
      BY <2>1, <3>1, <3>2 DEF PolishInv, ListInv
    <3>6. Parts = rest \cup {A, B}
      BY <2>1, <3>1 DEF Parts
    <3>7. Parts' = rest \cup {A \cup B}
      <4>1. Parts' = {members'[n] : n \in alive \ {b}}
        BY <2>1, <3>3 DEF Parts
      <4>2. {members'[n] : n \in alive \ {b}} = {members'[n] : n \in alive \ {a, b}} \cup {members'[a]}
        BY <3>1, <3>2
      <4>3. {members'[n] : n \in alive \ {a, b}} = rest
        BY <3>4
      <4> QED  BY <3>4, <4>1, <4>2, <4>3
    <3> HIDE DEF A, B, rest
    <3>8. Parts' = (Parts \ {A, B}) \cup {A \cup B}
      BY <3>5, <3>6, <3>7
    <3>9. Clustering!Merge
      BY <3>3, <3>5, <3>6, <3>8 DEF Clustering!Merge, Stopped
    <3> QED  BY <3>9 DEF Clustering!Next
  <2>2. CASE Step /\ ~ (MergeLinked /\ complete)
    <3>1. complete' = complete /\ (complete => UNCHANGED <<alive, members>>)
      BY <2>2 DEF Step, BuildTrees, MapClusters, StartPass, SkipCenter, TakeCenter, TakeLink,
                  KeepLink, MergeLinked, NotInTree, AfterMerge, EndLink, EndCenter, EndPass
    <3>2. Parts' = Parts
      BY <3>1 DEF Parts
    <3>3. pc \notin Stopped
      BY <2>2 DEF Step, BuildTrees, MapClusters, StartPass, SkipCenter, TakeCenter, TakeLink,
                  KeepLink, MergeLinked, SameNames, EndLink, EndCenter, EndPass, Stopped
    <3> QED  BY <3>2, <3>3 DEF Clustering!Next, Clustering!Finish
  <2>3. CASE UNCHANGED vars
    BY <2>3 DEF vars, Parts
  <2> QED  BY <2>1, <2>2, <2>3 DEF Next, Returned
<1> QED  BY <1>1, <1>2, PolishInvariant, PTL DEF Spec, PolishMerges, Clustering!Spec

-----------------------------------------------------------------------------
(* Nothing is left to merge.                                               *)

\* What makes a center quiet.
LEMMA QuietSame ==
  ASSUME UNCHANGED <<members, head, uid2uinv>>
  PROVE  /\ \A n : Quiet(n)' = Quiet(n)
         /\ \A n : Linkages(n)' = Linkages(n)
         /\ \A n : ThresholdOf(n)' = ThresholdOf(n)
BY DEF Quiet, ThresholdOf, Linkages, Associated

LEMMA PassInit == Init => PassInv
BY DEF Init, PassInv

\* An element before the next one is at most the element just left.
LEMMA BeforeNext ==
  ASSUME NEW S \in SUBSET Nat, NEW k \in Nat, NEW x, IsNext(S, k, x), NEW y \in S, y < x
  PROVE  y < k \/ y = k
<1>1. x \in Nat
  BY DEF IsNext, End
<1>2. ~(k < y)
  BY <1>1 DEF IsNext
<1> QED  BY <1>2

LEMMA PassLoops ==
  ASSUME TypeOK, PassInv, StartPass \/ SkipCenter \/ EndCenter \/ EndPass
  PROVE  PassInv'
<1> USE DEF list, maps, loop, count
<1>1. /\ alive \in SUBSET Nat /\ links \in SUBSET Nat /\ q \in Nat /\ r \in Nat
      /\ \A n \in alive : 0 < n /\ n < End
      /\ \A x \in links : x < End
      /\ cnt \in Nat /\ roundCnt \in Nat
  BY DEF TypeOK, Nodes, End
<1>2. UNCHANGED <<alive, members, head, uid2uinv, links, r, cnt>>
  BY DEF StartPass, SkipCenter, EndCenter, EndPass
<1>3. \A n \in alive : Quiet(n)' = Quiet(n)
  BY <1>2, QuietSame
<1>4. CASE StartPass
  <2>0. IsNext(alive, 0, q')
    BY <1>4 DEF StartPass
  <2>1. \A n \in alive : ~(n < q')
    BY <1>1, <2>0 DEF IsNext, End
  <2> QED  BY <1>1, <1>2, <1>4, <2>1 DEF PassInv, StartPass
<1>5. CASE SkipCenter
  <2>1. Quiet(q)
    BY <1>5 DEF SkipCenter, Quiet
  <2>2. \A n \in alive : n < q' => n < q \/ n = q
    BY <1>1, <1>5, BeforeNext DEF SkipCenter
  <2> QED  BY <1>1, <1>2, <1>3, <1>5, <2>1, <2>2 DEF PassInv, SkipCenter
<1>6. CASE EndCenter
  <2>1. roundCnt = cnt => Quiet(q)
    BY <1>1, <1>6 DEF PassInv, LinksTried, EndCenter, Quiet
  <2>0. IsNext(alive, q, q')
    BY <1>6 DEF EndCenter
  <2>2. \A n \in alive : n < q' => n < q \/ n = q
    BY <1>1, <2>0, BeforeNext
  <2> QED  BY <1>1, <1>2, <1>3, <1>6, <2>1, <2>2 DEF PassInv, EndCenter
<1>7. CASE EndPass
  BY <1>1, <1>2, <1>3, <1>7 DEF PassInv, EndPass
<1> QED  BY <1>4, <1>5, <1>6, <1>7

LEMMA PassTakeCenter == ASSUME TypeOK, PassInv, TakeCenter PROVE PassInv'
<1> USE DEF list, maps, loop, count
<1>1. UNCHANGED <<alive, members, head, uid2uinv, q, cnt, roundCnt>> /\ pc = "center"
  BY DEF TakeCenter
<1>2. \A n : Quiet(n)' = Quiet(n) /\ Linkages(n)' = Linkages(n) /\ ThresholdOf(n)' = ThresholdOf(n)
  BY <1>1, QuietSame
<1>3. CASE NoRecord \in Associated(q)
  BY <1>1, <1>3 DEF PassInv, TakeCenter
<1>4. CASE NoRecord \notin Associated(q)
  <2>1. pc' = "outer" /\ links' = Linkages(q) /\ IsNext(Linkages(q), 0, r')
    BY <1>4 DEF TakeCenter
  <2>2. \A x \in Linkages(q) : x \in Nat /\ 0 < x
    <3>1. \A x \in Associated(q) : \E y \in Records : x = uid2uinv[y]
      <4>1. q \in Nodes
        BY DEF TakeCenter, TypeOK
      <4> QED  BY <4>1 DEF Associated, PatentHolders, TypeOK
    <3>2. \A x \in Linkages(q) : x \in Records
      BY <1>4, <3>1 DEF Linkages, TypeOK
    <3> QED  BY <3>2
  <2>3. \A x \in Linkages(q) : ~(x < r')
    <3>1. Linkages(q) \in SUBSET Nat
      BY <2>2
    <3> QED  BY <2>1, <2>2, <3>1, BeforeNext
  <2>4. threshold' = ThresholdOf(q) /\ Country[head[q]] # "uninformative"
    BY DEF TakeCenter, PassInv, ThresholdOf
  <2>5. LinksTried'
    BY <1>1, <1>2, <2>1, <2>3, <2>4 DEF LinksTried
  <2>6. roundCnt = cnt => \A n \in alive : n < q => Quiet(n)
    BY <1>1 DEF PassInv
  <2> QED  BY <1>1, <1>2, <2>1, <2>5, <2>6 DEF PassInv
<1> QED  BY <1>3, <1>4

LEMMA PassLinks == ASSUME TypeOK, PassInv, TakeLink \/ KeepLink \/ EndLink PROVE PassInv'
<1> USE DEF list, maps, loop, count
<1>1. /\ UNCHANGED <<alive, members, head, uid2uinv, q, links, threshold, cnt, roundCnt>>
      /\ pc \in {"outer", "inner"} /\ pc' \in {"outer", "inner"}
  BY DEF TakeLink, KeepLink, EndLink
<1>2. \A n : Quiet(n)' = Quiet(n) /\ Linkages(n)' = Linkages(n) /\ ThresholdOf(n)' = ThresholdOf(n)
  BY <1>1, QuietSame
<1>3. links \in SUBSET Nat /\ r \in Nat /\ s \in Nat /\ \A x \in links : x < End
  BY DEF TypeOK, End
<1>4. ASSUME LinksTried PROVE LinksTried'
  <2>1. ASSUME NEW x \in links, NEW y \in links, x < y,
               x < r' \/ (pc' = "inner" /\ x = r' /\ y < s')
        PROVE  <<x, y>> \notin Alike[threshold]
    <3>1. CASE TakeLink
      <4>1. IsNext(links, r, s') /\ r' = r
        BY <3>1 DEF TakeLink
      <4>2. x = r /\ y < s' => y < r \/ y = r
        BY <1>3, <4>1, BeforeNext
      <4>3. x < r
        BY <1>3, <2>1, <4>1, <4>2
      <4> QED  BY <1>4, <2>1, <4>3 DEF LinksTried
    <3>2. CASE KeepLink
      <4>1. IsNext(links, s, s') /\ r' = r /\ pc = "inner" /\ <<r, s>> \notin Alike[threshold]
        BY <3>2 DEF KeepLink
      <4>2. y < s' => y < s \/ y = s
        BY <1>3, <2>1, <4>1 DEF IsNext, End
      <4> QED  BY <1>4, <2>1, <4>1, <4>2 DEF LinksTried
    <3>3. CASE EndLink
      <4>1. IsNext(links, r, r') /\ pc = "inner" /\ s = End /\ pc' = "outer"
        BY <3>3 DEF EndLink
      <4>2. x < r \/ x = r
        BY <1>3, <2>1, <4>1, BeforeNext
      <4>3. y < s
        BY <1>3, <4>1
      <4> QED  BY <1>4, <2>1, <4>1, <4>2, <4>3 DEF LinksTried
    <3> QED  BY <3>1, <3>2, <3>3
  <2> QED  BY <1>1, <1>2, <1>4, <2>1 DEF LinksTried
<1> QED  BY <1>1, <1>2, <1>4 DEF PassInv

\* A merge is counted, so the pass is not the last one.
LEMMA PassMerge == ASSUME TypeOK, PassInv, MergeLinked PROVE PassInv'
<1>1. roundCnt \in Nat /\ cnt \in Nat /\ pc = "inner" /\ roundCnt <= cnt
  BY DEF TypeOK, PassInv, MergeLinked, SameNames
<1>2. CASE NotInTree
  BY <1>1, <1>2 DEF NotInTree, PassInv, count
<1>3. CASE \E b : AfterMerge(b)
  <2>1. cnt' = cnt + 1 /\ roundCnt' = roundCnt /\ pc' \in {"undefined", "inner"}
    BY <1>3 DEF AfterMerge
  <2> QED  BY <1>1, <2>1 DEF PassInv
<1> QED  BY <1>2, <1>3 DEF MergeLinked

LEMMA PassNext == ASSUME TypeOK, PassInv, [Next]_vars PROVE PassInv'
<1>1. CASE BuildTrees \/ MapClusters
  BY <1>1 DEF BuildTrees, MapClusters, PassInv, count
<1>2. CASE UNCHANGED vars
  BY <1>2, QuietSame DEF vars, list, maps, loop, count, PassInv, LinksTried
<1> QED  BY <1>1, <1>2, PassLoops, PassTakeCenter, PassLinks, PassMerge DEF Next, Step, Returned

\* When post_polish returns, no pass over the list would find anything to merge,
\* whatever the names, countries and patents, and even for a result cut short.
THEOREM FixpointProved == Spec => []PolishIsFixpoint
<1>1. PolishInv /\ PassInv => PolishIsFixpoint
  <2> SUFFICES ASSUME TypeOK, PassInv, pc = "done", NEW n \in alive PROVE Quiet(n)
    BY DEF PolishInv, PolishIsFixpoint
  <2> QED  BY DEF PassInv, TypeOK, Nodes, End
<1>2. PolishInv /\ PassInv /\ [Next]_vars => PassInv'
  BY PassNext DEF PolishInv
<1> QED  BY <1>1, <1>2, PassInit, PolishInvariant, PTL DEF Spec

-----------------------------------------------------------------------------
(* Post-processing takes finitely many steps, from any result.             *)

\* Of ListInv, MapsInv and LinksInv this is what a result that is cut short
\* leaves true as well: clusters are told apart by their delegates, what the maps
\* have leads to a cluster, and so do the links still to be used.
Apart ==
  \A m, n \in alive : m # n =>
    /\ head[m] # head[n] /\ head[m] \notin members[n]
    /\ members[m] \cap members[n] = {}

Leads ==
  /\ pc # "trees" => \A x \in Records : uid2uinv[x] # NoRecord =>
       \E n \in alive : x \in members[n] /\ head[n] = uid2uinv[x]
  /\ pc \notin {"trees", "map"} => \A x \in Records : record2cluster[x] # NoNode =>
       record2cluster[x] \in alive /\ head[record2cluster[x]] = x

Ahead(x) == x \in links /\ IF pc = "outer" THEN r <= x ELSE r < x

LinksLead ==
  /\ pc \in {"outer", "inner"} => \A x \in links : Ahead(x) => \E n \in alive : head[n] = x
  /\ pc = "inner" => s \in links \cup {End} /\ r < s /\ ~ Ahead(rhead)

CutInv == TypeOK /\ Apart /\ Leads /\ LinksLead

LEMMA CutInit == Init => Apart /\ Leads /\ LinksLead
<1> SUFFICES ASSUME Init PROVE Apart /\ Leads /\ LinksLead
  OBVIOUS
<1>1. PICK f \in Files :
        /\ alive = DOMAIN f
        /\ members = [n \in Nodes |-> IF n \in DOMAIN f THEN f[n].members ELSE {}]
        /\ head = [n \in Nodes |-> IF n \in DOMAIN f THEN f[n].head ELSE NoRecord]
  BY DEF Init
<1>2. /\ DOMAIN f \in SUBSET Nodes
      /\ \A m, n \in DOMAIN f : m # n =>
           /\ f[m].head # f[n].head
           /\ f[m].members \cap f[n].members = {}
           /\ f[m].head \notin f[n].members
  OBVIOUS
<1>3. \A n \in alive : members[n] = f[n].members /\ head[n] = f[n].head
  BY <1>1, <1>2
<1> QED
  BY <1>1, <1>2, <1>3 DEF Init, Apart, Leads, LinksLead

LEMMA CutMaps == ASSUME CutInv, BuildTrees \/ MapClusters PROVE Apart' /\ Leads' /\ LinksLead'
<1>1. alive' = alive /\ members' = members /\ head' = head /\ pc' \in {"map", "pass"}
  BY DEF BuildTrees, MapClusters, list
<1>2. Apart' /\ LinksLead'
  BY <1>1 DEF CutInv, Apart, LinksLead
<1>3. CASE BuildTrees
  <2>1. ASSUME NEW x \in Records, uid2uinv'[x] # NoRecord
        PROVE  \E n \in alive : x \in members[n] /\ head[n] = uid2uinv'[x]
    <3>1. uid2uinv'[x] = DelegateOf(x)
      BY <1>3 DEF BuildTrees
    <3>2. \E n \in alive : x \in members[n]
      BY <2>1, <3>1 DEF DelegateOf
    <3> QED
      BY <3>1, <3>2 DEF DelegateOf
  <2> QED
    BY <1>1, <1>2, <1>3, <2>1 DEF Leads, BuildTrees
<1>4. CASE MapClusters
  <2>1. ASSUME NEW x \in Records, record2cluster'[x] # NoNode
        PROVE  record2cluster'[x] \in alive /\ head[record2cluster'[x]] = x
    BY <1>4, <2>1 DEF MapClusters
  <2>2. uid2uinv' = uid2uinv /\ pc = "map"
    BY <1>4 DEF MapClusters
  <2> QED
    BY <1>1, <1>2, <2>1, <2>2 DEF Leads, CutInv
<1> QED
  BY <1>3, <1>4

LEMMA CutLoops ==
  ASSUME CutInv, \/ StartPass \/ SkipCenter \/ TakeLink \/ KeepLink \/ EndLink \/ EndCenter \/ EndPass
  PROVE  Apart' /\ Leads' /\ LinksLead'
<1>0. links \in SUBSET Nat /\ r \in Nat /\ s \in Nat /\ rhead \in Nat /\ Records \subseteq Nat
  BY DEF CutInv, TypeOK, End, NoRecord
<1>1. /\ alive' = alive /\ members' = members /\ head' = head /\ links' = links
      /\ record2cluster' = record2cluster /\ uid2uinv' = uid2uinv
      /\ pc \notin {"trees", "map"}
  BY DEF StartPass, SkipCenter, TakeLink, KeepLink, EndLink, EndCenter, EndPass, list, maps, loop
<1>2. Apart' /\ Leads'
  BY <1>1 DEF CutInv, Apart, Leads
<1>3. CASE StartPass \/ SkipCenter \/ EndCenter \/ EndPass
  <2>1. pc' \notin {"outer", "inner"}
    BY <1>3 DEF StartPass, SkipCenter, EndCenter, EndPass
  <2> QED
    BY <1>2, <2>1 DEF LinksLead
<1>a. ASSUME pc \in {"outer", "inner"}, \A x \in links : Ahead(x)' => Ahead(x)
      PROVE  \A x \in links' : Ahead(x)' => \E n \in alive' : head'[n] = x
  BY <1>1, <1>a DEF CutInv, LinksLead
<1>4. CASE TakeLink
  <2>1. pc = "outer" /\ pc' = "inner" /\ r' = r /\ rhead' = r /\ s' \in links \cup {End} /\ r < s'
    BY <1>4 DEF TakeLink, IsNext
  <2>2. \A x \in links : Ahead(x)' => Ahead(x)
    BY <1>0, <1>1, <2>1 DEF Ahead
  <2>3. ~ Ahead(rhead)'
    BY <1>0, <2>1 DEF Ahead
  <2> QED
    BY <1>1, <1>2, <1>a, <2>1, <2>2, <2>3 DEF LinksLead
<1>5. CASE KeepLink
  <2>1. pc = "inner" /\ pc' = "inner" /\ r' = r /\ rhead' = rhead /\ s' \in links \cup {End} /\ s < s'
    BY <1>5 DEF KeepLink, IsNext
  <2>2. \A x : Ahead(x)' <=> Ahead(x)
    BY <1>1, <2>1 DEF Ahead
  <2>5. ~ Ahead(rhead)'
    BY <2>1, <2>2 DEF CutInv, LinksLead
  <2>3. r < s /\ s' \in Nat
    BY <1>0, <2>1 DEF CutInv, LinksLead, End
  <2>4. r < s'
    BY <1>0, <2>1, <2>3
  <2> QED
    BY <1>1, <1>2, <1>a, <2>1, <2>2, <2>4, <2>5 DEF LinksLead
<1>6. CASE EndLink
  <2>1. pc = "inner" /\ pc' = "outer" /\ r' \in links \cup {End} /\ r < r'
    BY <1>6 DEF EndLink, IsNext
  <2>2. \A x \in links : Ahead(x)' => Ahead(x)
    BY <1>0, <1>1, <2>1 DEF Ahead, End
  <2> QED
    BY <1>1, <1>2, <1>a, <2>1, <2>2 DEF LinksLead
<1> QED
  BY <1>2, <1>3, <1>4, <1>5, <1>6

LEMMA CutTakeCenter == ASSUME CutInv, TakeCenter PROVE Apart' /\ Leads' /\ LinksLead'
<1>1. /\ alive' = alive /\ members' = members /\ head' = head
      /\ record2cluster' = record2cluster /\ uid2uinv' = uid2uinv
      /\ pc = "center" /\ pc' \in {"thrown", "outer"}
  BY DEF TakeCenter, list, maps
<1>2. Apart' /\ Leads'
  BY <1>1 DEF CutInv, Apart, Leads
<1>3. ASSUME pc' = "outer" PROVE NoRecord \notin Associated(q) /\ links' = Linkages(q)
  BY <1>3 DEF TakeCenter
<1>4. ASSUME pc' = "outer", NEW x \in links' PROVE \E n \in alive : head[n] = x
  <2>1. x \in Associated(q) /\ x # NoRecord
    BY <1>3, <1>4 DEF Linkages
  <2>2. PICK z \in members[q] : \E y \in PatentHolders(z) \ {z} : uid2uinv[y] = x
    BY <2>1 DEF Associated
  <2>3. PICK y \in PatentHolders(z) : uid2uinv[y] = x
    BY <2>2
  <2>4. y \in Records
    BY <2>3 DEF PatentHolders
  <2> QED
    BY <1>1, <2>1, <2>3, <2>4 DEF CutInv, Leads
<1> QED
  BY <1>1, <1>2, <1>4 DEF LinksLead

\* Both lookups of a merge, if they succeed, find clusters of the list, and never
\* the same one.
LEMMA CutLookups ==
  ASSUME CutInv, SameNames, record2cluster[rhead] # NoNode, record2cluster[s] # NoNode
  PROVE  /\ record2cluster[rhead] \in alive /\ head[record2cluster[rhead]] = rhead
         /\ record2cluster[s] \in alive /\ head[record2cluster[s]] = s
         /\ rhead # s /\ record2cluster[rhead] # record2cluster[s]
         /\ rhead \in Records /\ s \in Records /\ s \in links /\ r < s
<1>1. pc = "inner" /\ s # End
  BY DEF SameNames
<1>2. s \in links /\ r < s /\ ~ Ahead(rhead)
  BY <1>1 DEF CutInv, LinksLead
<1>3. rhead \in Records /\ s \in Records
  BY <1>1, <1>2 DEF CutInv, TypeOK
<1>4. rhead # s
  BY <1>1, <1>2 DEF Ahead
<1>5. \A x \in {rhead, s} : record2cluster[x] \in alive /\ head[record2cluster[x]] = x
  BY <1>1, <1>3 DEF CutInv, Leads
<1> QED
  BY <1>2, <1>3, <1>4, <1>5

LEMMA CutMerge == ASSUME CutInv, MergeLinked PROVE Apart' /\ Leads' /\ LinksLead'
<1> DEFINE a == record2cluster[rhead]
           b == record2cluster[s]
<1>1. CASE a = NoNode \/ b = NoNode
  <2>1. NotInTree
    BY <1>1 DEF MergeLinked
  <2> QED
    BY <2>1 DEF NotInTree, list, maps, loop, CutInv, Apart, Leads, LinksLead, MergeLinked, SameNames
<1>2. CASE ~ (a = NoNode \/ b = NoNode)
  <2>0. SameNames /\ pc = "inner"
    BY DEF MergeLinked, SameNames
  <2>1. PICK h \in Representatives(members[a] \cup members[b]) :
          /\ head' = [head EXCEPT ![a] = h]
          /\ uid2uinv' = [x \in Records |->
               IF x \in members[a] \cup members[b] THEN h ELSE uid2uinv[x]]
          /\ record2cluster' = [x \in Records |->
               IF x = h THEN a ELSE IF x \in {s, rhead} THEN NoNode
               ELSE record2cluster[x]]
          /\ rhead' = h
    BY <1>2 DEF MergeLinked
  <2>2. members' = [members EXCEPT ![a] = @ \cup members[b], ![b] = {}] /\ AfterMerge(b)
    BY <1>2 DEF MergeLinked
  <2>3. h \in members[a] \cup members[b]
    BY <2>1 DEF Representatives
  <2>4. /\ a \in alive /\ head[a] = rhead /\ b \in alive /\ head[b] = s /\ a # b
        /\ rhead \in Records /\ s \in Records /\ s \in links /\ r < s
    BY <1>2, <2>0, CutLookups
  <2>5. /\ alive' = alive \ {b} /\ links' = links \ {s} /\ r' = r
        /\ pc' \in {"undefined", "inner"} /\ s' \in links \cup {End} /\ s < s'
    BY <2>2 DEF AfterMerge, IsNext
  <2>6. /\ alive \in SUBSET Nodes /\ members \in [Nodes -> SUBSET Records]
        /\ head \in [Nodes -> Records \cup {NoRecord}]
        /\ links \in SUBSET Nat /\ r \in Nat /\ s \in Nat
    BY <2>4 DEF CutInv, TypeOK, End
  <2> HIDE DEF a, b
  <2>7. /\ head'[a] = h /\ members'[a] = members[a] \cup members[b]
        /\ \A n \in alive \ {a, b} : head'[n] = head[n] /\ members'[n] = members[n]
    BY <2>1, <2>2, <2>4, <2>6
  <2>8. \A n \in alive \ {a, b} :
          /\ h \notin members[n] /\ head[n] # h /\ head[n] \notin members[a] \cup members[b]
          /\ members[n] \cap (members[a] \cup members[b]) = {}
    BY <2>3, <2>4 DEF CutInv, Apart
  <2>9. Apart'
    <3> SUFFICES ASSUME NEW m \in alive', NEW n \in alive', m # n
                 PROVE  /\ head'[m] # head'[n] /\ head'[m] \notin members'[n]
                        /\ members'[m] \cap members'[n] = {}
      BY DEF Apart
    <3>1. CASE m = a
      BY <2>5, <2>7, <2>8, <3>1
    <3>2. CASE n = a
      BY <2>5, <2>7, <2>8, <3>2
    <3>3. CASE m # a /\ n # a
      BY <2>5, <2>7, <3>3 DEF CutInv, Apart
    <3> QED
      BY <3>1, <3>2, <3>3
  <2>10. ASSUME NEW x \in Records, uid2uinv'[x] # NoRecord
         PROVE  \E n \in alive' : x \in members'[n] /\ head'[n] = uid2uinv'[x]
    <3>1. CASE x \in members[a] \cup members[b]
      <4>1. uid2uinv'[x] = h /\ a \in alive' /\ x \in members'[a] /\ head'[a] = h
        BY <2>1, <2>4, <2>5, <2>7, <3>1
      <4> QED
        BY <4>1
    <3>2. CASE x \notin members[a] \cup members[b]
      <4>1. uid2uinv'[x] = uid2uinv[x]
        BY <2>1, <3>2
      <4>2. PICK n \in alive : x \in members[n] /\ head[n] = uid2uinv[x]
        BY <2>0, <2>10, <4>1 DEF CutInv, Leads
      <4>3. n \in alive \ {a, b}
        BY <3>2, <4>2
      <4> QED
        BY <2>5, <2>7, <4>1, <4>2, <4>3
    <3> QED
      BY <3>1, <3>2
  <2>11. ASSUME NEW x \in Records, record2cluster'[x] # NoNode
         PROVE  record2cluster'[x] \in alive' /\ head'[record2cluster'[x]] = x
    <3>1. CASE x = h
      BY <2>1, <2>4, <2>5, <2>7, <3>1
    <3>2. CASE x # h
      <4>1. x \notin {s, rhead} /\ record2cluster'[x] = record2cluster[x]
        BY <2>1, <2>11, <3>2
      <4>2. record2cluster[x] \in alive /\ head[record2cluster[x]] = x
        BY <2>0, <2>11, <4>1 DEF CutInv, Leads
      <4>3. record2cluster[x] \in alive \ {a, b}
        BY <2>4, <4>1, <4>2
      <4> QED
        BY <2>5, <2>7, <4>1, <4>2, <4>3
    <3> QED
      BY <3>1, <3>2
  <2>12. Leads'
    BY <2>10, <2>11 DEF Leads
  <2>13. ASSUME pc' = "inner" PROVE LinksLead'
    <3>1. ASSUME NEW x \in links', Ahead(x)'
          PROVE  x # h /\ \E n \in alive' : head'[n] = x
      <4>1. x \in links /\ x # s /\ Ahead(x)
        BY <2>0, <2>5, <2>13, <3>1 DEF Ahead
      <4>2. PICK n \in alive : head[n] = x
        BY <2>0, <4>1 DEF CutInv, LinksLead
      <4>3. x # rhead
        BY <2>0, <4>1 DEF CutInv, LinksLead
      <4>4. n \in alive \ {a, b}
        BY <2>4, <4>1, <4>2, <4>3
      <4> QED
        BY <2>5, <2>7, <2>8, <4>2, <4>4
    <3>2. ~ Ahead(rhead)'
      BY <2>1, <3>1 DEF Ahead
    <3>3. s' # s /\ s' \in links' \cup {End} /\ r' < s'
      <4>1. s' \in Nat
        BY <2>5, <2>6 DEF End
      <4>2. s' # s /\ r < s'
        BY <2>4, <2>5, <2>6, <4>1
      <4> QED
        BY <2>5, <4>2
    <3> QED
      BY <2>13, <3>1, <3>2, <3>3 DEF LinksLead
  <2>14. LinksLead'
    BY <2>5, <2>13 DEF LinksLead
  <2> QED
    BY <2>9, <2>12, <2>14
<1> QED
  BY <1>1, <1>2

\* The two maps and the links never lead astray, whatever the file was cut to.
THEOREM CutInvariant == Spec => []CutInv
<1>1. PolishInv /\ Init => CutInv
  BY CutInit DEF CutInv, PolishInv
<1>2. PolishInv' /\ CutInv /\ [Next]_vars => CutInv'
  <2> SUFFICES ASSUME PolishInv', CutInv, [Next]_vars PROVE CutInv'
    OBVIOUS
  <2>1. TypeOK'
    BY DEF PolishInv
  <2>2. CASE Step
    BY <2>1, <2>2, CutMaps, CutLoops, CutTakeCenter, CutMerge DEF Step, CutInv
  <2>3. CASE UNCHANGED vars
    BY <2>1, <2>3 DEF vars, list, maps, loop, CutInv, Apart, Leads, LinksLead, Ahead
  <2> QED
    BY <2>2, <2>3 DEF Next, Returned
<1> QED
  BY <1>1, <1>2, PolishInvariant, PTL DEF Spec

\* What is left to do, the coarsest first: the maps, the clusters to merge, the
\* pass that finds the merges of the last one, its end, the centers, and the two
\* loops over the links of a center.
MapsLeft  == CASE pc = "trees" -> 2 [] pc = "map" -> 1 [] OTHER -> 0
PassLeft  == CASE pc = "pass" -> (IF cnt = roundCnt THEN 2 ELSE 0)
               [] pc \in Stopped -> 0
               [] OTHER -> 1
OuterLeft == IF pc \in {"outer", "inner"} THEN 0 ELSE 1
InnerLeft == IF pc = "inner" THEN 0 ELSE 1
SLeft     == IF pc = "inner" THEN End - s ELSE 0

Measure ==
  <<MapsLeft, Cardinality(alive), IF cnt = roundCnt THEN 0 ELSE 1, PassLeft, End - q,
    OuterLeft, End - r, InnerLeft, SLeft>>

LEMMA AliveFinite == ASSUME TypeOK PROVE IsFiniteSet(alive) /\ Cardinality(alive) \in Nat
<1>1. 1 \in Int /\ NumRecords \in Int
  OBVIOUS
<1>2. IsFiniteSet(1 .. NumRecords)
  BY <1>1, FS_Interval
<1>3. alive \subseteq 1 .. NumRecords
  BY DEF TypeOK, Nodes
<1>4. IsFiniteSet(alive)
  BY <1>2, <1>3, FS_Subset
<1> QED
  BY <1>4, FS_CardinalityType

LEMMA MeasureNat == TypeOK => \A k \in 1 .. 9 : Measure[k] \in Nat
<1> SUFFICES ASSUME TypeOK PROVE \A k \in 1 .. 9 : Measure[k] \in Nat
  OBVIOUS
<1>1. End - q \in Nat /\ End - r \in Nat /\ End - s \in Nat
  BY DEF TypeOK, End, Nodes
<1>2. SLeft \in Nat /\ MapsLeft \in Nat /\ PassLeft \in Nat /\ OuterLeft \in Nat /\ InnerLeft \in Nat
  BY <1>1 DEF SLeft, MapsLeft, PassLeft, OuterLeft, InnerLeft
<1>3. Cardinality(alive) \in Nat
  BY AliveFinite
<1> QED
  BY <1>1, <1>2, <1>3 DEF Measure

LEMMA MeasureStep == CutInv /\ Step => LexLess(Measure', Measure, 9)
<1> SUFFICES ASSUME CutInv, Step PROVE LexLess(Measure', Measure, 9)
  OBVIOUS
<1>0. /\ alive \in SUBSET Nat /\ links \in SUBSET Nat /\ q \in Nat /\ r \in Nat /\ s \in Nat
      /\ End \in Nat /\ q <= End /\ r <= End /\ s <= End /\ cnt \in Nat /\ roundCnt \in Nat
      /\ \A x \in alive \cup links : x < End
  BY DEF CutInv, TypeOK, End, Nodes
<1>a. ASSUME NEW S, S = alive \/ S = links, NEW k \in Nat, NEW x, IsNext(S, k, x)
      PROVE  End - x < End - k
  <2>1. x \in S \cup {End} /\ k < x
    BY <1>a DEF IsNext
  <2>2. x \in Nat
    BY <1>0, <1>a, <2>1
  <2> HIDE DEF End
  <2> QED
    BY <1>0, <2>1, <2>2
<1>1. CASE BuildTrees \/ MapClusters
  <2>1. MapsLeft' < MapsLeft
    BY <1>1 DEF BuildTrees, MapClusters, MapsLeft
  <2> QED
    BY <2>1, LexNine DEF Measure
<1>2. CASE StartPass
  <2>1. /\ alive' = alive /\ MapsLeft' = MapsLeft /\ cnt' = cnt /\ roundCnt' = cnt
        /\ pc = "pass" /\ pc' = "center"
    BY <1>2 DEF StartPass, list, MapsLeft
  <2>2. cnt = roundCnt => PassLeft' < PassLeft
    BY <2>1 DEF PassLeft, Stopped
  <2> QED
    BY <2>1, <2>2, LexNine DEF Measure
<1>b. ASSUME pc \notin {"trees", "map", "pass"}, UNCHANGED <<alive, cnt, roundCnt>>, pc' \in Stopped,
             pc \notin Stopped
      PROVE  LexLess(Measure', Measure, 9)
  <2>1. MapsLeft' = MapsLeft /\ PassLeft' < PassLeft
    BY <1>b DEF MapsLeft, PassLeft, Stopped
  <2> QED
    BY <1>b, <2>1, LexNine DEF Measure
<1>c. ASSUME pc \in {"center", "outer", "inner"}, UNCHANGED <<alive, cnt, roundCnt>>,
             pc' \in {"center", "outer", "inner"}
      PROVE  /\ MapsLeft' = MapsLeft /\ PassLeft' = PassLeft
             /\ Cardinality(alive)' = Cardinality(alive)
             /\ (IF cnt = roundCnt THEN 0 ELSE 1)' = (IF cnt = roundCnt THEN 0 ELSE 1)
  BY <1>c DEF MapsLeft, PassLeft, Stopped
<1>3. CASE SkipCenter \/ EndCenter
  <2>1. /\ pc \in {"center", "outer", "inner"} /\ UNCHANGED <<alive, cnt, roundCnt>>
        /\ pc' \in {"center", "outer", "inner"} /\ IsNext(alive, q, q')
    BY <1>3 DEF SkipCenter, EndCenter, list, count
  <2>2. End - q' < End - q
    BY <1>0, <1>a, <2>1
  <2> QED
    BY <1>c, <2>1, <2>2, LexNine DEF Measure, End
<1>4. CASE TakeCenter
  <2>1. pc = "center" /\ UNCHANGED <<alive, cnt, roundCnt>> /\ q' = q /\ pc' \in {"thrown", "outer"}
    BY <1>4 DEF TakeCenter, list, count
  <2>2. CASE pc' = "thrown"
    BY <1>b, <2>1, <2>2 DEF Stopped
  <2>3. CASE pc' = "outer"
    <3>1. OuterLeft' < OuterLeft
      BY <2>1, <2>3 DEF OuterLeft
    <3> QED
      BY <1>c, <2>1, <2>3, <3>1, LexNine DEF Measure, End
  <2> QED
    BY <2>1, <2>2, <2>3
<1>5. CASE TakeLink
  <2>1. /\ pc = "outer" /\ pc' = "inner" /\ UNCHANGED <<alive, cnt, roundCnt>> /\ q' = q /\ r' = r
    BY <1>5 DEF TakeLink, list, count
  <2>2. OuterLeft' = OuterLeft /\ InnerLeft' < InnerLeft
    BY <2>1 DEF OuterLeft, InnerLeft
  <2> QED
    BY <1>c, <2>1, <2>2, LexNine DEF Measure, End
<1>6. CASE KeepLink
  <2>1. /\ pc = "inner" /\ pc' = "inner" /\ UNCHANGED <<alive, cnt, roundCnt>> /\ q' = q /\ r' = r
        /\ IsNext(links, s, s')
    BY <1>6 DEF KeepLink, list, count
  <2>2. OuterLeft' = OuterLeft /\ InnerLeft' = InnerLeft /\ SLeft' < SLeft
    BY <1>0, <1>a, <2>1 DEF OuterLeft, InnerLeft, SLeft, End
  <2> QED
    BY <1>c, <2>1, <2>2, LexNine DEF Measure, End
<1>7. CASE EndLink
  <2>1. /\ pc = "inner" /\ pc' = "outer" /\ UNCHANGED <<alive, cnt, roundCnt>> /\ q' = q
        /\ IsNext(links, r, r')
    BY <1>7 DEF EndLink, list, count
  <2>2. OuterLeft' = OuterLeft /\ End - r' < End - r
    BY <1>0, <1>a, <2>1 DEF OuterLeft
  <2> QED
    BY <1>c, <2>1, <2>2, LexNine DEF Measure, End
<1>8. CASE EndPass
  <2>1. /\ pc = "center" /\ UNCHANGED <<alive, cnt, roundCnt>>
        /\ pc' = IF roundCnt # cnt THEN "pass" ELSE "done"
    BY <1>8 DEF EndPass, list, count
  <2>2. MapsLeft' = MapsLeft /\ PassLeft' < PassLeft
    BY <2>1 DEF MapsLeft, PassLeft, Stopped
  <2> QED
    BY <2>1, <2>2, LexNine DEF Measure
<1>9. CASE MergeLinked
  <2> DEFINE b == record2cluster[s]
  <2>0. SameNames /\ pc = "inner"
    BY <1>9 DEF MergeLinked, SameNames
  <2>1. CASE record2cluster[rhead] = NoNode \/ b = NoNode
    <3>1. NotInTree
      BY <1>9, <2>1 DEF MergeLinked
    <3> QED
      BY <1>b, <2>0, <3>1 DEF NotInTree, list, count, Stopped
  <2>2. CASE ~ (record2cluster[rhead] = NoNode \/ b = NoNode)
    <3>1. alive' = alive \ {b} /\ pc' \in {"undefined", "inner"}
      BY <1>9, <2>2 DEF MergeLinked, AfterMerge
    <3>2. b \in alive
      BY <2>0, <2>2, CutLookups
    <3>3. IsFiniteSet(alive) /\ Cardinality(alive) \in Nat
      BY AliveFinite DEF CutInv
    <3> HIDE DEF b
    <3>4. Cardinality(alive \ {b}) = Cardinality(alive) - 1
      BY <3>2, <3>3, FS_RemoveElement
    <3>5. Cardinality(alive') < Cardinality(alive)
      BY <3>1, <3>3, <3>4
    <3>6. MapsLeft' = MapsLeft
      BY <2>0, <3>1 DEF MapsLeft
    <3> QED
      BY <3>5, <3>6, LexNine DEF Measure
  <2> QED
    BY <2>1, <2>2
<1> QED
  BY <1>1, <1>2, <1>3, <1>4, <1>5, <1>6, <1>7, <1>8, <1>9 DEF Step

\* Every step of post_polish leaves less to do, in an order in which nothing
\* decreases for ever (NoDescent): its passes come to an end, whether or not the
\* result it was given is complete.
THEOREM PolishDescends ==
  Spec => /\ [](\A k \in 1 .. 9 : Measure[k] \in Nat)
          /\ [][LexLess(Measure', Measure, 9)]_vars
<1>1. CutInv /\ [Next]_vars => [LexLess(Measure', Measure, 9)]_vars
  BY MeasureStep DEF Next, Returned
<1>2. CutInv => \A k \in 1 .. 9 : Measure[k] \in Nat
  BY MeasureNat DEF CutInv
<1> QED
  BY <1>1, <1>2, CutInvariant, PTL DEF Spec
=============================================================================
