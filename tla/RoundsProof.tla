----------------------------- MODULE RoundsProof -----------------------------
(***************************************************************************)
(* Proofs about Rounds, for every number of records and rounds, whatever   *)
(* the names and blocking strings are, and wherever processes die.         *)
(***************************************************************************)
EXTENDS Rounds, DataTheorems, SequenceTheorems

LEMMA FunctionSeq == ASSUME NEW S, NEW n \in Nat, NEW f \in [1 .. n -> S] PROVE f \in Seq(S)
BY SeqDef

-----------------------------------------------------------------------------
(* Lists of clusters.                                                      *)

\* What any list of clusters is.
IsList(L) ==
  /\ DOMAIN L = 1 .. Len(L) /\ Len(L) \in Nat
  /\ \A i \in DOMAIN L : L[i].head \in Records /\ L[i].members \in Seq(Records)

\* Every cluster has its delegate among its members.
Headed(L) == \A i \in DOMAIN L : L[i].head \in ToSet(L[i].members)

LEMMA Lists ==
  ASSUME NEW L, L \in Seq(Line) \/ L \in Seq(Cluster)
  PROVE  IsList(L)
<1>1. CASE L \in Seq(Line)
  <2>1. DOMAIN L = 1 .. Len(L) /\ Len(L) \in Nat /\ \A i \in DOMAIN L : L[i] \in Line
    BY <1>1
  <2>2. \A e \in Line : e.head \in Records /\ e.members \in Seq(Records)
    BY DEF Line
  <2> QED  BY <2>1, <2>2 DEF IsList
<1>2. CASE L \in Seq(Cluster)
  <2>1. DOMAIN L = 1 .. Len(L) /\ Len(L) \in Nat /\ \A i \in DOMAIN L : L[i] \in Cluster
    BY <1>2
  <2>2. \A e \in Cluster : e.head \in Records /\ e.members \in Seq(Records)
    BY DEF Cluster
  <2> QED  BY <2>1, <2>2 DEF IsList
<1> QED  BY <1>1, <1>2

Sizes(L) == [i \in DOMAIN L |-> Len(L[i].members)]

LEMMA SizeOf ==
  ASSUME NEW L, IsList(L)
  PROVE  /\ IsFiniteSet(DOMAIN L)
         /\ \A i \in DOMAIN L : Sizes(L)[i] = Len(L[i].members) /\ Sizes(L)[i] \in Nat
         /\ Size(L) = SumFunctionOnSet(Sizes(L), DOMAIN L)
<1>1. IsFiniteSet(DOMAIN L)
  <2>1. DOMAIN L = 1 .. Len(L) /\ Len(L) \in Int /\ 1 \in Int
    BY DEF IsList
  <2> QED  BY <2>1, FS_Interval
<1>2. \A i \in DOMAIN L : Len(L[i].members) \in Nat
  BY DEF IsList
<1>3. DOMAIN Sizes(L) = DOMAIN L
  BY DEF Sizes
<1>4. Size(L) = SumFunctionOnSet(Sizes(L), DOMAIN L)
  BY <1>3 DEF Size, SumFunction, Sizes
<1> QED  BY <1>1, <1>2, <1>4 DEF Sizes

\* The same clusters in another order.
Rearranged(K, L, p) ==
  /\ p \in Bijection(DOMAIN K, DOMAIN L)
  /\ \A k \in DOMAIN K : K[k].head = L[p[k]].head /\ K[k].members = L[p[k]].members

LEMMA RearrangedSame ==
  ASSUME NEW K, NEW L, IsList(K), IsList(L), NEW p, Rearranged(K, L, p)
  PROVE  /\ Size(K) = Size(L) /\ InLines(K) = InLines(L)
         /\ Headed(L) => Headed(K)
         /\ Coarsened(L, K) /\ Coarsened(K, L)
<1>1. /\ \A k \in DOMAIN K : p[k] \in DOMAIN L
      /\ \A i \in DOMAIN L : \E k \in DOMAIN K : p[k] = i
      /\ \A k \in DOMAIN K : K[k].head = L[p[k]].head /\ K[k].members = L[p[k]].members
  BY DEF Rearranged, Bijection, Injection, Surjection
<1>2. Size(K) = Size(L)
  <2>1. \A k \in DOMAIN K : Sizes(K)[k] \in Int /\ Sizes(K)[k] = Sizes(L)[p[k]]
    <3>1. /\ \A k \in DOMAIN K : Sizes(K)[k] = Len(K[k].members) /\ Sizes(K)[k] \in Nat
          /\ \A i \in DOMAIN L : Sizes(L)[i] = Len(L[i].members)
      BY SizeOf
    <3> QED  BY <1>1, <3>1
  <2>2. IsFiniteSet(DOMAIN K) /\ p \in Bijection(DOMAIN K, DOMAIN L)
    BY SizeOf DEF Rearranged
  <2>3. SumFunctionOnSet(Sizes(K), DOMAIN K) = SumFunctionOnSet(Sizes(L), DOMAIN L)
    BY <2>1, <2>2, SumReindex
  <2> QED  BY <2>3, SizeOf
<1>3. InLines(K) = InLines(L)
  <2>1. \A k \in DOMAIN K : ToSet(K[k].members) \subseteq InLines(L)
    BY <1>1 DEF InLines
  <2>2. \A i \in DOMAIN L : ToSet(L[i].members) \subseteq InLines(K)
    <3> TAKE i \in DOMAIN L
    <3>1. PICK k \in DOMAIN K : p[k] = i
      BY <1>1
    <3>2. ToSet(L[i].members) = ToSet(K[k].members)
      BY <1>1, <3>1
    <3> QED  BY <3>2 DEF InLines
  <2> QED  BY <2>1, <2>2 DEF InLines
<1>4. Headed(L) => Headed(K)
  BY <1>1 DEF Headed
<1>5. Coarsened(L, K) /\ Coarsened(K, L)
  <2>1. \A k \in DOMAIN K : ToSet(K[k].members) \subseteq ToSet(L[p[k]].members)
    BY <1>1
  <2>2. \A i \in DOMAIN L : \E k \in DOMAIN K : ToSet(L[i].members) \subseteq ToSet(K[k].members)
    <3> TAKE i \in DOMAIN L
    <3>1. PICK k \in DOMAIN K : p[k] = i
      BY <1>1
    <3>2. ToSet(L[i].members) = ToSet(K[k].members)
      BY <1>1, <3>1
    <3> QED  BY <3>2
  <2> QED  BY <1>1, <2>1, <2>2 DEF Coarsened
<1> QED  BY <1>2, <1>3, <1>4, <1>5

\* cluster_by_block brings the lines into another order.
LEMMA BlockedList ==
  ASSUME NEW L \in Seq(Line), NEW block \in [DOMAIN L -> Nat]
  PROVE  /\ Blocked(L, block) \in Seq(Cluster)
         /\ \E p : /\ Rearranged(Blocked(L, block), L, p)
                   /\ \A k \in DOMAIN L : Blocked(L, block)[k].block = block[p[k]]
<1> DEFINE D == DOMAIN L
           before == {e \in D \X D : \/ block[e[1]] < block[e[2]]
                                     \/ block[e[1]] = block[e[2]] /\ e[1] < e[2]}
           order == InOrder(D, before)
           B == Blocked(L, block)
<1>1. IsList(L) /\ D = 1 .. Len(L) /\ Len(L) \in Nat
  BY Lists DEF IsList
<1>2. IsFiniteSet(D) /\ Cardinality(D) = Len(L)
  <2>1. D = 1 .. Len(L) /\ Len(L) \in Int /\ 1 \in Int
    BY <1>1
  <2>2. IsFiniteSet(1 .. Len(L)) /\ Cardinality(1 .. Len(L)) = IF 1 > Len(L) THEN 0 ELSE Len(L) - 1 + 1
    BY <2>1, FS_Interval
  <2> HIDE DEF D
  <2> QED  BY <1>1, <2>1, <2>2
<1>3. StrictOrder(before, D)
  <2>1. \A x, y \in D : <<x, y>> \in before <=>
          block[x] < block[y] \/ (block[x] = block[y] /\ x < y)
    OBVIOUS
  <2>2. \A x \in D : x \in Nat /\ block[x] \in Nat
    BY <1>1
  <2> HIDE DEF before, D
  <2>3. \A x \in D : <<x, x>> \notin before
    BY <2>1, <2>2
  <2>4. \A x, y \in D : x # y => <<x, y>> \in before \/ <<y, x>> \in before
    BY <2>1, <2>2
  <2>5. ASSUME NEW x \in D, NEW y \in D, NEW z \in D,
               <<x, y>> \in before, <<y, z>> \in before
        PROVE  <<x, z>> \in before
    <3>1. /\ x \in Nat /\ y \in Nat /\ z \in Nat
          /\ block[x] \in Nat /\ block[y] \in Nat /\ block[z] \in Nat
      BY <2>2
    <3>2. block[x] < block[y] \/ (block[x] = block[y] /\ x < y)
      BY <2>1, <2>5
    <3>3. block[y] < block[z] \/ (block[y] = block[z] /\ y < z)
      BY <2>1, <2>5
    <3>4. block[x] < block[z] \/ (block[x] = block[z] /\ x < z)
      BY <3>1, <3>2, <3>3
    <3> QED  BY <2>1, <3>4
  <2> QED  BY <2>3, <2>4, <2>5 DEF StrictOrder
<1>4. order \in Bijection(D, D)
  <2> HIDE DEF before, D
  <2>1. order \in Bijection(1 .. Cardinality(D), D)
    BY <1>2, <1>3, InOrderLists
  <2> QED  BY <1>1, <1>2, <2>1
<1>5. \A n \in D : order[n] \in D
  BY <1>4 DEF Bijection, Injection
<1>6. B = [n \in D |-> [block |-> block[order[n]], head |-> L[order[n]].head,
                        members |-> L[order[n]].members]]
  BY DEF Blocked
<1> HIDE DEF order, B
<1>7. \A n \in D : B[n] \in Cluster
  <2> TAKE n \in D
  <2>1. block[order[n]] \in Nat /\ L[order[n]].head \in Records
        /\ L[order[n]].members \in Seq(Records)
    BY <1>1, <1>5 DEF IsList
  <2> QED  BY <1>6, <2>1 DEF Cluster
<1>8. B \in Seq(Cluster)
  <2>1. B \in [1 .. Len(L) -> Cluster]
    BY <1>1, <1>6, <1>7
  <2> QED  BY <1>1, <2>1, FunctionSeq
<1>9. Rearranged(B, L, order) /\ \A k \in D : B[k].block = block[order[k]]
  BY <1>4, <1>6 DEF Rearranged
<1> QED  BY <1>8, <1>9 DEF B

\* What is printed of the clusters in memory.
LEMMA LinesList ==
  ASSUME NEW S \in Seq(Cluster)
  PROVE  /\ Lines(S) \in Seq(Line)
         /\ Size(Lines(S)) = Size(S) /\ InLines(Lines(S)) = InLines(S)
         /\ Headed(S) => Headed(Lines(S))
         /\ Coarsened(S, Lines(S))
<1>1. IsList(S) /\ DOMAIN S = 1 .. Len(S) /\ Len(S) \in Nat
  BY Lists DEF IsList
<1>2. \A i \in DOMAIN S : Lines(S)[i] \in Line
  BY <1>1 DEF IsList, Lines, Line
<1>3. Lines(S) \in Seq(Line)
  BY <1>1, <1>2 DEF Lines
<1> DEFINE id == [i \in DOMAIN S |-> i]
<1>4. Rearranged(Lines(S), S, id)
  BY DEF Rearranged, Lines, Bijection, Injection, Surjection, IsInjective
<1>5. Rearranged(S, Lines(S), id)
  BY DEF Rearranged, Lines, Bijection, Injection, Surjection, IsInjective
<1>6. IsList(Lines(S))
  BY <1>3, Lists
<1> QED  BY <1>1, <1>3, <1>4, <1>5, <1>6, RearrangedSame

-----------------------------------------------------------------------------
(* Merging two clusters of a list.                                         *)

LEMMA ConcatSet ==
  ASSUME NEW X, NEW s \in Seq(X), NEW t \in Seq(X)
  PROVE  s \o t \in Seq(X) /\ Len(s \o t) = Len(s) + Len(t) /\ ToSet(s \o t) = ToSet(s) \cup ToSet(t)
<1>1. /\ s \o t \in Seq(X) /\ Len(s \o t) = Len(s) + Len(t)
      /\ \A k \in 1 .. Len(s) + Len(t) : (s \o t)[k] = IF k <= Len(s) THEN s[k] ELSE t[k - Len(s)]
  OBVIOUS
<1>2. Len(s) \in Nat /\ Len(t) \in Nat
  OBVIOUS
<1>3. /\ DOMAIN s = 1 .. Len(s) /\ DOMAIN t = 1 .. Len(t)
      /\ DOMAIN (s \o t) = 1 .. Len(s) + Len(t)
  BY <1>1
<1>4. ToSet(s \o t) \subseteq ToSet(s) \cup ToSet(t)
  <2> SUFFICES ASSUME NEW k \in 1 .. Len(s) + Len(t)
               PROVE  (s \o t)[k] \in ToSet(s) \cup ToSet(t)
    BY <1>3 DEF ToSet
  <2>1. CASE k <= Len(s)
    <3>1. k \in DOMAIN s /\ (s \o t)[k] = s[k]
      BY <1>1, <1>2, <1>3, <2>1
    <3> QED  BY <3>1 DEF ToSet
  <2>2. CASE ~ (k <= Len(s))
    <3>1. k - Len(s) \in DOMAIN t /\ (s \o t)[k] = t[k - Len(s)]
      BY <1>1, <1>2, <1>3, <2>2
    <3> QED  BY <3>1 DEF ToSet
  <2> QED  BY <2>1, <2>2
<1>5. ToSet(s) \subseteq ToSet(s \o t)
  <2> SUFFICES ASSUME NEW k \in 1 .. Len(s) PROVE s[k] \in ToSet(s \o t)
    BY <1>3 DEF ToSet
  <2>1. k \in DOMAIN (s \o t) /\ (s \o t)[k] = s[k]
    BY <1>1, <1>2, <1>3
  <2> QED  BY <2>1 DEF ToSet
<1>6. ToSet(t) \subseteq ToSet(s \o t)
  <2> SUFFICES ASSUME NEW k \in 1 .. Len(t) PROVE t[k] \in ToSet(s \o t)
    BY <1>3 DEF ToSet
  <2>1. k + Len(s) \in 1 .. Len(s) + Len(t) /\ ~ (k + Len(s) <= Len(s)) /\ (k + Len(s)) - Len(s) = k
    BY <1>2
  <2>2. k + Len(s) \in DOMAIN (s \o t) /\ (s \o t)[k + Len(s)] = t[k]
    BY <1>1, <1>3, <2>1
  <2> QED  BY <2>2 DEF ToSet
<1> QED  BY <1>1, <1>4, <1>5, <1>6

\* A list without its element j: the others, at their place or the one before.
Skip(n, j) == [k \in 1 .. n - 1 |-> IF k < j THEN k ELSE k + 1]

LEMMA SkipIs ==
  ASSUME NEW n \in Nat, NEW j \in 1 .. n
  PROVE  Skip(n, j) \in Bijection(1 .. n - 1, (1 .. n) \ {j})
<1>1. \A k \in 1 .. n - 1 : Skip(n, j)[k] \in (1 .. n) \ {j}
  BY DEF Skip
<1>2. Skip(n, j) \in [1 .. n - 1 -> (1 .. n) \ {j}]
  BY <1>1 DEF Skip
<1>3. \A k, l \in 1 .. n - 1 : Skip(n, j)[k] = Skip(n, j)[l] => k = l
  BY DEF Skip
<1>4. \A m \in (1 .. n) \ {j} : \E k \in 1 .. n - 1 : Skip(n, j)[k] = m
  <2> TAKE m \in (1 .. n) \ {j}
  <2>1. CASE m < j
    <3>1. m \in 1 .. n - 1 /\ Skip(n, j)[m] = m
      BY <2>1 DEF Skip
    <3> QED  BY <3>1
  <2>2. CASE ~ (m < j)
    <3>1. m - 1 \in 1 .. n - 1 /\ ~ (m - 1 < j) /\ m - 1 + 1 = m
      BY <2>2
    <3>2. Skip(n, j)[m - 1] = m
      BY <3>1 DEF Skip
    <3> QED  BY <3>1, <3>2
  <2> QED  BY <2>1, <2>2
<1> QED  BY <1>2, <1>3, <1>4 DEF Bijection, Injection, Surjection, IsInjective

LEMMA SeqFunction ==
  ASSUME NEW X, NEW s \in Seq(X), NEW g, \A k \in 1 .. Len(s) : s[k] = g[k]
  PROVE  s = [k \in 1 .. Len(s) |-> g[k]]
<1>1. s = [k \in 1 .. Len(s) |-> s[k]]
  OBVIOUS
<1> QED  BY <1>1

LEMMA RemoveAtIs ==
  ASSUME NEW X, NEW s \in Seq(X), NEW j \in DOMAIN s
  PROVE  /\ RemoveAt(s, j) \in Seq(X) /\ Len(RemoveAt(s, j)) = Len(s) - 1
         /\ RemoveAt(s, j) = [k \in 1 .. Len(s) - 1 |-> s[Skip(Len(s), j)[k]]]
<1> DEFINE n == Len(s)
           a == SubSeq(s, 1, j - 1)
           b == SubSeq(s, j + 1, n)
<1>1. n \in Nat /\ j \in 1 .. n
  OBVIOUS
<1>2. a \in Seq(X) /\ Len(a) = j - 1 /\ \A k \in 1 .. j - 1 : a[k] = s[k]
  BY <1>1
<1>3. b \in Seq(X) /\ Len(b) = n - j /\ \A k \in 1 .. n - j : b[k] = s[k + j]
  BY <1>1
<1>4. RemoveAt(s, j) = a \o b
  BY DEF RemoveAt
<1> HIDE DEF a, b
<1>5. a \o b \in Seq(X) /\ Len(a \o b) = n - 1
  BY <1>1, <1>2, <1>3
<1>6. \A k \in 1 .. n - 1 : (a \o b)[k] = s[Skip(n, j)[k]]
  <2> TAKE k \in 1 .. n - 1
  <2>1. CASE k < j
    BY <1>1, <1>2, <1>3, <2>1 DEF Skip
  <2>2. CASE ~ (k < j)
    <3>1. (a \o b)[k] = b[k - (j - 1)]
      BY <1>1, <1>2, <1>3, <2>2
    <3>2. k - (j - 1) \in 1 .. n - j /\ k - (j - 1) + j = k + 1
      BY <1>1, <2>2
    <3>3. b[k - (j - 1)] = s[k + 1]
      BY <1>3, <3>2
    <3> QED  BY <2>2, <3>1, <3>3 DEF Skip
  <2> QED  BY <2>1, <2>2
<1>7. a \o b = [k \in 1 .. n - 1 |-> s[Skip(n, j)[k]]]
  <2> DEFINE c == a \o b
             g == [k \in 1 .. n - 1 |-> s[Skip(n, j)[k]]]
  <2>1. c \in Seq(X) /\ Len(c) = n - 1 /\ \A k \in 1 .. n - 1 : c[k] = g[k]
    BY <1>5, <1>6
  <2>2. g = [k \in 1 .. n - 1 |-> g[k]]
    OBVIOUS
  <2> HIDE DEF c, g, n
  <2>3. c = [k \in 1 .. n - 1 |-> g[k]]
    BY <2>1, SeqFunction
  <2> QED  BY <2>2, <2>3 DEF c, g
<1> QED  BY <1>4, <1>5, <1>7

\* Cluster i of S has got the members of j, under the delegate h.
Gathered(S, i, j, h) ==
  [S EXCEPT ![i].head = h, ![i].members = S[i].members \o S[j].members]

IsGathered(S, i, j, h, G) ==
  /\ Len(G) = Len(S) /\ DOMAIN G = DOMAIN S
  /\ \A k \in DOMAIN S : k # i => G[k] = S[k]
  /\ G[i].head = h
  /\ G[i].members = S[i].members \o S[j].members
  /\ ToSet(G[i].members) = ToSet(S[i].members) \cup ToSet(S[j].members)
  /\ Len(G[i].members) = Len(S[i].members) + Len(S[j].members)
  /\ h \in ToSet(G[i].members)

LEMMA GatheredIs ==
  ASSUME NEW X, X = Line \/ X = Cluster,
         NEW S \in Seq(X), NEW i \in DOMAIN S, NEW j \in DOMAIN S, i # j,
         NEW h \in ToSet(S[i].members \o S[j].members),
         NEW G, G = Gathered(S, i, j, h)
  PROVE  /\ G \in Seq(X) /\ IsGathered(S, i, j, h, G)
         /\ X = Cluster => G[i].block = S[i].block
<1> DEFINE ms == S[i].members \o S[j].members
<1>1. S[i] \in X /\ S[j] \in X
  OBVIOUS
<1>2. \A e \in Line \cup Cluster : e.members \in Seq(Records) /\ ToSet(e.members) \subseteq Records
  <2>1. \A e \in Line \cup Cluster : e.members \in Seq(Records)
    BY DEF Line, Cluster
  <2>2. \A m \in Seq(Records) : ToSet(m) \subseteq Records
    BY DEF ToSet
  <2> QED  BY <2>1, <2>2
<1>3. S[i].members \in Seq(Records) /\ S[j].members \in Seq(Records)
  BY <1>1, <1>2
<1>4. /\ ms \in Seq(Records)
      /\ ToSet(ms) = ToSet(S[i].members) \cup ToSet(S[j].members)
      /\ Len(ms) = Len(S[i].members) + Len(S[j].members)
  BY <1>3, ConcatSet
<1>0. G = [S EXCEPT ![i] = [S[i] EXCEPT !.head = h, !.members = ms]]
  BY DEF Gathered
<1>e. h \in Records
  BY <1>1, <1>2, <1>4
<1> HIDE DEF ms
<1> DEFINE e == [S[i] EXCEPT !.head = h, !.members = ms]
<1>5. e \in X /\ e.head = h /\ e.members = ms /\ (X = Cluster => e.block = S[i].block)
  <2>1. CASE X = Cluster
    BY <1>1, <1>e, <1>4, <2>1 DEF Cluster
  <2>2. CASE X # Cluster
    <3>1. X = Line
      BY <2>2
    <3> QED  BY <1>1, <1>e, <1>4, <2>2, <3>1 DEF Line
  <2> QED  BY <2>1, <2>2
<1>6. G = [S EXCEPT ![i] = e]
  BY <1>0
<1> HIDE DEF e
<1>7. G \in Seq(X) /\ Len(G) = Len(S) /\ DOMAIN G = DOMAIN S /\ G[i] = e
      /\ \A k \in DOMAIN S : k # i => G[k] = S[k]
  BY <1>5, <1>6
<1> QED  BY <1>4, <1>5, <1>7 DEF ms, IsGathered

\* T is G, in which cluster i has got the members of j, without j.
IsMerge(S, i, j, G, T) ==
  /\ IsGathered(S, i, j, G[i].head, G)
  /\ DOMAIN T = 1 .. Len(S) - 1
  /\ \A k \in DOMAIN T : /\ T[k] = G[Skip(Len(S), j)[k]]
                         /\ Skip(Len(S), j)[k] \in DOMAIN S
                         /\ Skip(Len(S), j)[k] # j
  /\ \A m \in DOMAIN S : m # j => \E k \in DOMAIN T : Skip(Len(S), j)[k] = m

LEMMA MergesAre ==
  ASSUME NEW X, X = Line \/ X = Cluster,
         NEW S \in Seq(X), NEW i \in DOMAIN S, NEW j \in DOMAIN S, i # j,
         NEW T \in Merges(S, i, j)
  PROVE  T \in Seq(X) /\ \E G \in Seq(X) : IsMerge(S, i, j, G, T) /\ (X = Cluster => G[i].block = S[i].block)
<1>1. PICK h \in ToSet(S[i].members \o S[j].members) : T = RemoveAt(Gathered(S, i, j, h), j)
  BY DEF Merges, Gathered
<1>0. PICK G : G = Gathered(S, i, j, h)
  OBVIOUS
<1> DEFINE n == Len(S)
           q == Skip(n, j)
<1>2. /\ G \in Seq(X) /\ Len(G) = n /\ DOMAIN G = DOMAIN S
      /\ \A k \in DOMAIN S : k # i => G[k] = S[k]
      /\ IsGathered(S, i, j, h, G) /\ h = G[i].head
      /\ X = Cluster => G[i].block = S[i].block
  <2>1. G \in Seq(X) /\ IsGathered(S, i, j, h, G) /\ (X = Cluster => G[i].block = S[i].block)
    BY <1>0, GatheredIs
  <2> QED  BY <2>1 DEF IsGathered
<1>3. n \in Nat /\ DOMAIN S = 1 .. n
  OBVIOUS
<1>4. T = RemoveAt(G, j) /\ j \in DOMAIN G
  BY <1>0, <1>1, <1>2
<1> HIDE DEF n
<1>5. T \in Seq(X) /\ Len(T) = n - 1 /\ T = [k \in 1 .. n - 1 |-> G[q[k]]]
  <2>1. /\ RemoveAt(G, j) \in Seq(X) /\ Len(RemoveAt(G, j)) = Len(G) - 1
        /\ RemoveAt(G, j) = [k \in 1 .. Len(G) - 1 |-> G[Skip(Len(G), j)[k]]]
    <3>1. G \in Seq(X) /\ j \in DOMAIN G
      BY <1>2, <1>4
    <3> HIDE DEF q
    <3> QED  BY ONLY <3>1, RemoveAtIs
  <2> QED  BY <1>2, <1>4, <2>1
<1>6. q \in Bijection(1 .. n - 1, (1 .. n) \ {j})
  BY <1>3, SkipIs
<1> HIDE DEF q
<1>7. /\ DOMAIN T = 1 .. n - 1
      /\ \A k \in DOMAIN T : T[k] = G[q[k]] /\ q[k] \in DOMAIN S /\ q[k] # j
      /\ \A m \in DOMAIN S : m # j => \E k \in DOMAIN T : q[k] = m
  <2>1. DOMAIN T = 1 .. n - 1 /\ \A k \in 1 .. n - 1 : T[k] = G[q[k]]
    BY <1>5
  <2>2. \A k \in 1 .. n - 1 : q[k] \in (1 .. n) \ {j}
    BY <1>6 DEF Bijection, Injection
  <2>3. \A m \in (1 .. n) \ {j} : \E k \in 1 .. n - 1 : q[k] = m
    BY <1>6 DEF Bijection, Surjection
  <2> QED  BY <1>3, <2>1, <2>2, <2>3
<1> QED  BY <1>2, <1>5, <1>7 DEF n, q, IsMerge

LEMMA MergesKeep ==
  ASSUME NEW X, X = Line \/ X = Cluster,
         NEW S \in Seq(X), NEW i \in DOMAIN S, NEW j \in DOMAIN S, i # j,
         NEW T \in Merges(S, i, j)
  PROVE  /\ T \in Seq(X)
         /\ Size(T) = Size(S) /\ InLines(T) = InLines(S)
         /\ Headed(S) => Headed(T)
         /\ Coarsened(S, T)
<1>1. T \in Seq(X)
  BY MergesAre
<1>0. PICK G \in Seq(X) : IsMerge(S, i, j, G, T)
  BY MergesAre
<1> DEFINE n == Len(S)
           q == Skip(n, j)
<1>2. /\ G \in Seq(X) /\ Len(G) = n /\ DOMAIN G = DOMAIN S
      /\ \A k \in DOMAIN S : k # i => G[k] = S[k]
      /\ G[i].head \in ToSet(G[i].members)
      /\ ToSet(G[i].members) = ToSet(S[i].members) \cup ToSet(S[j].members)
      /\ Len(G[i].members) = Len(S[i].members) + Len(S[j].members)
  BY <1>0 DEF IsMerge, IsGathered
<1>3. n \in Nat /\ DOMAIN S = 1 .. n
  OBVIOUS
<1>5. T \in Seq(X)
  BY <1>1
<1>7. /\ DOMAIN T = 1 .. n - 1
      /\ \A k \in DOMAIN T : T[k] = G[q[k]] /\ q[k] \in DOMAIN S /\ q[k] # j
      /\ \A m \in DOMAIN S : m # j => \E k \in DOMAIN T : q[k] = m
  BY <1>0 DEF IsMerge
<1> HIDE DEF n
<1>6. q \in Bijection(1 .. n - 1, (1 .. n) \ {j})
  BY <1>3, SkipIs
<1> HIDE DEF q
<1>8. IsList(S) /\ IsList(G) /\ IsList(T)
  BY <1>2, <1>5, Lists
<1>9. Size(T) = Size(S)
  <2>1. /\ IsFiniteSet(DOMAIN S) /\ IsFiniteSet(DOMAIN T)
        /\ \A k \in DOMAIN S : Sizes(S)[k] = Len(S[k].members) /\ Sizes(S)[k] \in Int
        /\ \A k \in DOMAIN S : Sizes(G)[k] = Len(G[k].members) /\ Sizes(G)[k] \in Int
        /\ \A k \in DOMAIN T : Sizes(T)[k] = Len(T[k].members) /\ Sizes(T)[k] \in Int
        /\ Size(S) = SumFunctionOnSet(Sizes(S), DOMAIN S)
        /\ Size(T) = SumFunctionOnSet(Sizes(T), DOMAIN T)
    BY <1>2, <1>8, SizeOf
  <2> DEFINE D == DOMAIN S
             sum(f, R) == SumFunctionOnSet(f, R)
  <2>2. sum(Sizes(T), DOMAIN T) = sum(Sizes(G), D \ {j})
    <3>1. \A k \in DOMAIN T : Sizes(T)[k] \in Int /\ Sizes(T)[k] = Sizes(G)[q[k]]
      <4> TAKE k \in DOMAIN T
      <4>1. Sizes(T)[k] \in Int /\ Sizes(T)[k] = Len(T[k].members) /\ T[k] = G[q[k]]
        BY <1>7, <2>1
      <4>2. Sizes(G)[q[k]] = Len(G[q[k]].members)
        BY <1>7, <2>1
      <4> QED  BY <4>1, <4>2
    <3>2. q \in Bijection(DOMAIN T, D \ {j})
      BY <1>3, <1>6, <1>7
    <3> QED  BY <2>1, <3>1, <3>2, SumReindex
  <2>3. IsFiniteSet(D \ {i}) /\ IsFiniteSet(D \ {j}) /\ IsFiniteSet((D \ {j}) \ {i})
    BY <2>1, FS_RemoveElement
  <2> DEFINE rest == (D \ {j}) \ {i}
  <2>4. sum(Sizes(G), D \ {j}) = Sizes(G)[i] + sum(Sizes(G), rest)
    <3>1. i \in D \ {j} /\ \A k \in D \ {j} : Sizes(G)[k] \in Int
      BY <2>1
    <3> QED  BY <2>3, <3>1, SumRemove
  <2>5. sum(Sizes(G), rest) = sum(Sizes(S), rest)
    <3>1. \A k \in rest : Sizes(G)[k] = Sizes(S)[k]
      BY <1>2, <2>1
    <3> HIDE DEF rest
    <3> QED  BY <2>3, <3>1, SumSame DEF rest
  <2>6. sum(Sizes(S), D \ {j}) = Sizes(S)[i] + sum(Sizes(S), rest)
    <3>1. i \in D \ {j} /\ \A k \in D \ {j} : Sizes(S)[k] \in Int
      BY <2>1
    <3> QED  BY <2>3, <3>1, SumRemove
  <2>7. sum(Sizes(S), D) = Sizes(S)[j] + sum(Sizes(S), D \ {j})
    BY <2>1, SumRemove
  <2>8. Sizes(G)[i] = Sizes(S)[i] + Sizes(S)[j]
    BY <1>2, <2>1
  <2>9. sum(Sizes(S), rest) \in Int /\ Sizes(S)[i] \in Int /\ Sizes(S)[j] \in Int
    <3>1. \A k \in rest : Sizes(S)[k] \in Int
      BY <2>1
    <3> HIDE DEF rest
    <3>2. sum(Sizes(S), rest) \in Int
      BY <2>3, <3>1, SumInt DEF rest
    <3> QED  BY <2>1, <3>2
  <2> HIDE DEF rest, D
  <2>10. sum(Sizes(T), DOMAIN T) = sum(Sizes(S), D)
    BY <2>2, <2>4, <2>5, <2>6, <2>7, <2>8, <2>9
  <2> QED  BY <2>1, <2>10 DEF D
<1>10. \A k \in DOMAIN S : ToSet(S[k].members) \subseteq ToSet(G[IF k = j THEN i ELSE k].members)
  BY <1>2
<1>11. Coarsened(S, T)
  <2> SUFFICES ASSUME NEW k \in DOMAIN S
               PROVE  \E l \in DOMAIN T : ToSet(S[k].members) \subseteq ToSet(T[l].members)
    BY DEF Coarsened
  <2> DEFINE m == IF k = j THEN i ELSE k
  <2>1. m \in DOMAIN S /\ m # j
    OBVIOUS
  <2>2. PICK l \in DOMAIN T : q[l] = m
    BY <1>7, <2>1
  <2>3. T[l] = G[m] /\ ToSet(S[k].members) \subseteq ToSet(G[m].members)
    BY <1>7, <1>10, <2>2
  <2> QED  BY <2>3
<1>12. InLines(T) = InLines(S)
  <2>1. \A k \in DOMAIN S : ToSet(S[k].members) \subseteq InLines(T)
    <3> TAKE k \in DOMAIN S
    <3>1. PICK l \in DOMAIN T : ToSet(S[k].members) \subseteq ToSet(T[l].members)
      BY <1>11 DEF Coarsened
    <3>2. ToSet(T[l].members) \subseteq InLines(T)
      BY DEF InLines
    <3> QED  BY <3>1, <3>2
  <2>2. \A k \in DOMAIN S : ToSet(G[k].members) \subseteq InLines(S)
    <3> TAKE k \in DOMAIN S
    <3>1. CASE k = i
      BY <1>2, <3>1 DEF InLines
    <3>2. CASE k # i
      BY <1>2, <3>2 DEF InLines
    <3> QED  BY <3>1, <3>2
  <2>3. \A l \in DOMAIN T : ToSet(T[l].members) \subseteq InLines(S)
    BY <1>7, <2>2
  <2> QED  BY <2>1, <2>3 DEF InLines
<1>13. Headed(S) => Headed(T)
  <2> SUFFICES ASSUME Headed(S), NEW l \in DOMAIN T PROVE T[l].head \in ToSet(T[l].members)
    BY DEF Headed
  <2>1. \A k \in DOMAIN S : G[k].head \in ToSet(G[k].members)
    <3> TAKE k \in DOMAIN S
    <3>1. CASE k = i
      BY <1>2, <3>1
    <3>2. CASE k # i
      BY <1>2, <3>2 DEF Headed
    <3> QED  BY <3>1, <3>2
  <2> QED  BY <1>7, <2>1
<1> QED  BY <1>5, <1>9, <1>11, <1>12, <1>13

-----------------------------------------------------------------------------
(* preliminary_consolidation.                                              *)

LEMMA RecordsFinite == IsFiniteSet(Records) /\ Cardinality(Records) = NumRecords /\ Records \subseteq Nat
<1>1. 1 \in Int /\ NumRecords \in Int /\ NumRecords \in Nat
  BY RoundsAssumption
<1>2. IsFiniteSet(1 .. NumRecords)
      /\ Cardinality(1 .. NumRecords) = IF 1 > NumRecords THEN 0 ELSE NumRecords - 1 + 1
  BY <1>1, FS_Interval
<1>3. Cardinality(1 .. NumRecords) = NumRecords
  BY <1>1, <1>2
<1> QED  BY <1>2, <1>3 DEF Records

\* A set of records, listed in the order of the CSV file.
LEMMA InCsvOrder ==
  ASSUME NEW xs \in SUBSET Records, NEW ms, ms = InOrder(xs, Ascending(xs))
  PROVE  /\ ms \in Seq(Records) /\ Len(ms) = Cardinality(xs) /\ ToSet(ms) = xs
         /\ xs # {} => ms[1] \in xs
<1>1. IsFiniteSet(xs) /\ Cardinality(xs) \in Nat
  BY RecordsFinite, FS_Subset, FS_CardinalityType
<1>2. StrictOrder(Ascending(xs), xs)
  BY RecordsFinite, AscendingOrder
<1> DEFINE n == Cardinality(xs)
<1>3. ms \in Bijection(1 .. n, xs)
  BY <1>1, <1>2, InOrderLists
<1> HIDE DEF n
<1>4. /\ ms \in [1 .. n -> xs]
      /\ \A x \in xs : \E k \in 1 .. n : ms[k] = x
  BY <1>3 DEF Bijection, Injection, Surjection
<1>5. ms \in [1 .. n -> Records] /\ n \in Nat
  BY <1>1, <1>4 DEF n
<1>6. ms \in Seq(Records) /\ Len(ms) = n
  BY <1>5, FunctionSeq
<1>7. ToSet(ms) = xs
  <2>1. DOMAIN ms = 1 .. n
    BY <1>4
  <2> QED  BY <1>4, <2>1 DEF ToSet
<1>8. ASSUME xs # {} PROVE ms[1] \in xs
  <2>1. PICK x \in xs : TRUE
    BY <1>8
  <2>2. PICK k \in 1 .. n : ms[k] = x
    BY <1>4
  <2>3. 1 \in 1 .. n
    BY <1>5, <2>2
  <2> QED  BY <1>4, <2>3
<1> QED  BY <1>6, <1>7, <1>8 DEF n

LEMMA ConsolidatedList ==
  Consolidated \in Seq(Cluster) /\ IsPartition(Consolidated) /\ Apart(Consolidated)
<1> DEFINE keys == {Presort[x] : x \in Records}
           key == InOrder(keys, Ascending(keys))
           class == [k \in keys |-> {x \in Records : Presort[x] = k}]
           list == [k \in keys |-> InOrder(class[k], Ascending(class[k]))]
           n == Cardinality(keys)
           C == Consolidated
<1>1. keys \in SUBSET Nat /\ keys \in SUBSET Int
  BY RoundsAssumption
<1>2. IsFiniteSet(keys) /\ n \in Nat
  <2>1. Presort \in Surjection(Records, keys)
    BY RoundsAssumption DEF Surjection
  <2> HIDE DEF keys
  <2> QED  BY <2>1, RecordsFinite, FS_Surjection, FS_CardinalityType
<1>3. key \in Bijection(1 .. n, keys)
  <2> HIDE DEF keys
  <2> QED  BY <1>1, <1>2, AscendingOrder, InOrderLists
<1>4. \A k \in keys : class[k] \in SUBSET Records /\ class[k] # {}
  OBVIOUS
<1>5. C = [m \in 1 .. n |-> [block |-> key[m], head |-> list[key[m]][1], members |-> list[key[m]]]]
  <2>1. \A m \in 1 .. n : key[m] \in keys
    BY <1>3 DEF Bijection, Injection
  <2>2. \A k \in keys : list[k] = InOrder({x \in Records : Presort[x] = k},
                                          Ascending({x \in Records : Presort[x] = k}))
    OBVIOUS
  <2>3. C = [m \in 1 .. n |->
               [block |-> key[m],
                head |-> InOrder({x \in Records : Presort[x] = key[m]},
                                 Ascending({x \in Records : Presort[x] = key[m]}))[1],
                members |-> InOrder({x \in Records : Presort[x] = key[m]},
                                    Ascending({x \in Records : Presort[x] = key[m]}))]]
    BY DEF Consolidated
  <2> HIDE DEF keys, key, list, n, C
  <2> QED  BY <2>1, <2>2, <2>3
<1>6. \A k \in keys : /\ list[k] \in Seq(Records) /\ Len(list[k]) = Cardinality(class[k])
                      /\ ToSet(list[k]) = class[k] /\ list[k][1] \in class[k]
  <2> TAKE k \in keys
  <2>1. class[k] \in SUBSET Records /\ class[k] # {}
    BY <1>4
  <2>2. list[k] = InOrder(class[k], Ascending(class[k]))
    OBVIOUS
  <2> HIDE DEF class, keys, list
  <2> QED  BY <2>1, <2>2, InCsvOrder
<1>7. \A x \in Records : Presort[x] \in keys /\ x \in class[Presort[x]]
  OBVIOUS
<1>8. \A k \in keys : class[k] = {x \in Records : Presort[x] = k}
  OBVIOUS
<1> HIDE DEF keys, key, class, list, C, n
<1>9. /\ \A m \in 1 .. n : key[m] \in keys
      /\ \A k \in keys : \E m \in 1 .. n : key[m] = k
  BY <1>3 DEF Bijection, Injection, Surjection
<1>10. /\ DOMAIN C = 1 .. n
       /\ \A m \in 1 .. n : /\ C[m].block = key[m] /\ C[m].head = list[key[m]][1]
                            /\ C[m].members = list[key[m]]
  BY <1>5
<1>11. C \in Seq(Cluster)
  <2>1. \A m \in 1 .. n : C[m] \in Cluster
    <3> TAKE m \in 1 .. n
    <3>1. /\ key[m] \in Nat /\ list[key[m]] \in Seq(Records) /\ list[key[m]][1] \in Records
      BY <1>1, <1>4, <1>6, <1>9
    <3> QED  BY <1>5, <3>1 DEF Cluster
  <2>2. C \in [1 .. n -> Cluster]
    BY <1>5, <2>1
  <2> QED  BY <1>2, <2>2, FunctionSeq
<1>12. InLines(C) = Records
  <2>1. \A m \in DOMAIN C : ToSet(C[m].members) \subseteq Records
    <3> TAKE m \in DOMAIN C
    <3>1. key[m] \in keys /\ C[m].members = list[key[m]]
      BY <1>9, <1>10
    <3> QED  BY <1>4, <1>6, <3>1
  <2>2. ASSUME NEW x \in Records PROVE x \in InLines(C)
    <3>1. PICK m \in 1 .. n : key[m] = Presort[x]
      BY <1>7, <1>9
    <3>2. ToSet(C[m].members) = class[Presort[x]]
      BY <1>6, <1>7, <1>10, <3>1
    <3> QED  BY <1>7, <1>10, <3>2 DEF InLines
  <2> QED  BY <2>1, <2>2 DEF InLines
<1>13. Headed(C)
  BY <1>6, <1>9, <1>10 DEF Headed
<1>14. Size(C) = NumRecords
  <2> DEFINE f == [k \in keys |-> Cardinality(class[k])]
  <2>1. \A k \in keys : f[k] = Cardinality(class[k])
    OBVIOUS
  <2>2. SumFunctionOnSet(f, keys) = Cardinality(Records)
    <3>1. \A x \in Records : Presort[x] \in keys
      BY <1>7
    <3>2. \A k \in keys : /\ class[k] \subseteq Records
                          /\ \A x \in Records : x \in class[k] <=> Presort[x] = k
      BY <1>8
    <3> HIDE DEF f
    <3> QED  BY <1>2, <2>1, <3>1, <3>2, RecordsFinite, SumClasses
  <2>3. IsList(C)
    BY <1>11, Lists
  <2>4. \A m \in 1 .. n : Sizes(C)[m] \in Int /\ Sizes(C)[m] = f[key[m]]
    <3> TAKE m \in 1 .. n
    <3>1. Sizes(C)[m] = Len(C[m].members) /\ Sizes(C)[m] \in Int
      <4>1. m \in DOMAIN C
        BY <1>10
      <4>2. Sizes(C)[m] = Len(C[m].members) /\ Sizes(C)[m] \in Nat
        BY ONLY <2>3, <4>1, SizeOf
      <4> QED  BY <4>2
    <3> QED  BY <1>6, <1>9, <1>10, <3>1
  <2>5. IsFiniteSet(1 .. n) /\ Size(C) = SumFunctionOnSet(Sizes(C), 1 .. n)
    BY <1>10, <2>3, SizeOf
  <2> HIDE DEF f
  <2>6. SumFunctionOnSet(Sizes(C), 1 .. n) = SumFunctionOnSet(f, keys)
    <3> DEFINE D == 1 .. n
               z == Sizes(C)
    <3>1. /\ IsFiniteSet(D) /\ key \in Bijection(D, keys)
          /\ \A m \in D : z[m] \in Int /\ z[m] = f[key[m]]
      BY <1>3, <2>4, <2>5
    <3> HIDE DEF D, z
    <3>2. SumFunctionOnSet(z, D) = SumFunctionOnSet(f, keys)
      BY <3>1, SumReindex
    <3> QED  BY <3>2 DEF D, z
  <2> QED  BY <2>2, <2>5, <2>6, RecordsFinite
<1>15. Apart(C)
  <2> SUFFICES ASSUME NEW l \in DOMAIN C, NEW m \in DOMAIN C, l # m
               PROVE  ToSet(C[l].members) \cap ToSet(C[m].members) = {}
    BY DEF Apart
  <2>1. key[l] \in keys /\ key[m] \in keys /\ key[l] # key[m]
    BY <1>3, <1>9, <1>10 DEF Bijection, Injection, IsInjective
  <2>2. ToSet(C[l].members) = class[key[l]] /\ ToSet(C[m].members) = class[key[m]]
    BY <1>6, <1>10, <2>1
  <2> QED  BY <1>8, <2>1, <2>2
<1> QED  BY <1>11, <1>12, <1>13, <1>14, <1>15 DEF IsPartition, Headed, C

-----------------------------------------------------------------------------
(* What is made of the records of a list.                                  *)

LEMMA ClusterOfIs ==
  ASSUME NEW L, IsList(L), NEW x \in InLines(L)
  PROVE  /\ ClusterOf(L, x) \in DOMAIN L
         /\ L[ClusterOf(L, x)].members \in Seq(Records)
         /\ x \in ToSet(L[ClusterOf(L, x)].members)
         /\ ToSet(L[ClusterOf(L, x)].members) \subseteq Records
<1>1. \E i \in DOMAIN L : x \in ToSet(L[i].members)
  BY DEF InLines
<1>2. ClusterOf(L, x) \in DOMAIN L /\ x \in ToSet(L[ClusterOf(L, x)].members)
  BY <1>1 DEF ClusterOf
<1>3. L[ClusterOf(L, x)].members \in Seq(Records)
  BY <1>2 DEF IsList
<1>4. \A ms \in Seq(Records) : ToSet(ms) \subseteq Records
  BY DEF ToSet
<1> QED  BY <1>2, <1>3, <1>4

LEMMA InLinesRecords == ASSUME NEW L, IsList(L) PROVE InLines(L) \subseteq Records
<1>1. \A ms \in Seq(Records) : ToSet(ms) \subseteq Records
  BY DEF ToSet
<1>2. \A i \in DOMAIN L : ToSet(L[i].members) \subseteq Records
  BY <1>1 DEF IsList
<1> QED  BY <1>2 DEF InLines

LEMMA UniteType ==
  ASSUME NEW L, IsList(L), NEW co \in [Records -> SUBSET Coauthors]
  PROVE  Unite(L, co) \in [Records -> SUBSET Coauthors]
<1>1. ASSUME NEW x \in InLines(L)
      PROVE  UNION {co[y] : y \in ToSet(L[ClusterOf(L, x)].members)} \subseteq Coauthors
  <2>1. ToSet(L[ClusterOf(L, x)].members) \subseteq Records
    BY ClusterOfIs
  <2> QED  BY <2>1
<1> QED  BY <1>1 DEF Unite

\* Of finitely many natural numbers there is a greatest.
LEMMA Greatest ==
  ASSUME NEW S, IsFiniteSet(S), S # {}, NEW g, \A x \in S : g[x] \in Nat
  PROVE  \E x \in S : \A y \in S : g[y] <= g[x]
<1> DEFINE above == [x \in S |-> {y \in S : g[x] <= g[y]}]
           T == {above[x] : x \in S}
<1>1. T \subseteq SUBSET S /\ T # {}
  OBVIOUS
<1>2. PICK X \in T : \A Y \in T : Y \subseteq X => Y = X
  <2> HIDE DEF T
  <2> QED  BY <1>1, MinimalSubset
<1>3. PICK x \in S : X = above[x]
  OBVIOUS
<1>4. ASSUME NEW y \in S PROVE g[y] <= g[x]
  <2> SUFFICES ASSUME ~ (g[y] <= g[x]) PROVE FALSE
    OBVIOUS
  <2>1. g[x] \in Nat /\ g[y] \in Nat /\ g[x] < g[y]
    OBVIOUS
  <2>2. above[y] \subseteq above[x]
    <3> SUFFICES ASSUME NEW z \in S, g[y] <= g[z] PROVE g[x] <= g[z]
      OBVIOUS
    <3>1. g[z] \in Nat
      OBVIOUS
    <3> HIDE DEF T
    <3> QED  BY <2>1, <3>1
  <2>3. x \in above[x]
    BY <2>1
  <2>4. x \notin above[y]
    BY <2>1
  <2>5. above[y] \in T
    OBVIOUS
  <2> HIDE DEF above, T
  <2> QED  BY <1>2, <1>3, <2>2, <2>3, <2>4, <2>5
<1> QED  BY <1>4

LEMMA LongestType ==
  ASSUME NEW ms \in Seq(Records), NEW mid \in [Records -> Names],
         NEW x \in ToSet(ms), Length[mid[x]] > 0
  PROVE  LongestMiddle(ms, mid, x) \in Names
<1> DEFINE same == {i \in DOMAIN ms : Lastname[ms[i]] = Lastname[x] /\ Length[mid[ms[i]]] > 0}
           best == {i \in same : \A j \in same : Length[mid[ms[j]]] <= Length[mid[ms[i]]]}
           len == [i \in DOMAIN ms |-> Length[mid[ms[i]]]]
<1>1. Len(ms) \in Nat /\ DOMAIN ms = 1 .. Len(ms) /\ \A i \in DOMAIN ms : ms[i] \in Records
  OBVIOUS
<1>2. \A i \in DOMAIN ms : len[i] \in Nat /\ mid[ms[i]] \in Names
  BY <1>1, RoundsAssumption
<1>3. same \in SUBSET (DOMAIN ms) /\ same # {}
  <2>1. PICK i \in DOMAIN ms : ms[i] = x
    BY DEF ToSet
  <2> QED  BY <2>1
<1>4. IsFiniteSet(same)
  <2>1. 1 \in Int /\ Len(ms) \in Int
    BY <1>1
  <2>2. IsFiniteSet(1 .. Len(ms))
    BY <2>1, FS_Interval
  <2> HIDE DEF same
  <2> QED  BY <1>1, <1>3, <2>2, FS_Subset
<1>5. \A i \in same : \A j \in same : len[j] <= len[i] <=> Length[mid[ms[j]]] <= Length[mid[ms[i]]]
  OBVIOUS
<1>6. best \subseteq same /\ \A i \in same : (\A j \in same : len[j] <= len[i]) => i \in best
  BY <1>5
<1> HIDE DEF same, len
<1>7. \E i \in same : \A j \in same : len[j] <= len[i]
  BY <1>2, <1>3, <1>4, Greatest
<1> HIDE DEF best
<1>8. best \subseteq DOMAIN ms /\ best \in SUBSET Nat /\ best # {}
  <2>1. \A i \in DOMAIN ms : i \in Nat
    BY <1>1
  <2> QED  BY <1>3, <1>6, <1>7, <2>1
<1>9. Min(best) \in best
  BY <1>8, LeastNatural DEF Min
<1>10. mid[ms[Min(best)]] \in Names
  BY <1>2, <1>8, <1>9
<1> QED  BY <1>10 DEF LongestMiddle, best, same

LEMMA ChangeMiddleType ==
  ASSUME NEW L, IsList(L), NEW mid \in [Records -> Names]
  PROVE  ChangeMiddle(L, mid) \in [Records -> Names]
<1>1. ASSUME NEW x \in InLines(L), Length[mid[x]] > 0
      PROVE  LongestMiddle(L[ClusterOf(L, x)].members, mid, x) \in Names
  BY <1>1, ClusterOfIs, LongestType
<1> QED  BY <1>1 DEF ChangeMiddle

LEMMA BlockOfType ==
  ASSUME NEW mid \in [Records -> Names], round \in Rounds, NEW x \in Records
  PROVE  BlockOf(x, mid) \in Nat
<1>1. BlockKey[round][x] \in Nat /\ Cardinality(Names) \in Nat /\ mid[x] \in Nat
  <2>1. Cardinality(Names) \in Nat
    BY RoundsAssumption, FS_CardinalityType
  <2>2. Names \subseteq Nat
    BY <2>1, RoundsAssumption
  <2> QED  BY <2>1, <2>2, RoundsAssumption
<1>2. BlockKey[round][x] * (Cardinality(Names) + 1) \in Nat
  BY <1>1
<1> QED  BY <1>1, <1>2 DEF BlockOf

LEMMA ContentsType ==
  ASSUME NEW L \in Seq(Line), intact \in BOOLEAN
  PROVE  /\ Contents(L) \in File /\ Contents(L).lines = L
         /\ Contents(L).whole = intact
BY DEF Contents, File

\* The ways in which a file is cut short.
Broken(L, n, k) == Append(SubSeq(L, 1, n - 1), [L[n] EXCEPT !.members = SubSeq(@, 1, k)])
Misnamed(L, n, x) == Append(SubSeq(L, 1, n - 1), [head |-> x, members |-> <<>>])

LEMMA CutCases ==
  ASSUME NEW L, NEW cut \in CutShort(L)
  PROVE  /\ cut \in [there : BOOLEAN, whole : {FALSE}, torn : BOOLEAN, lines : {cut.lines}]
         /\ \/ \E n \in 0 .. Len(L) : cut.lines = SubSeq(L, 1, n)
            \/ \E n \in DOMAIN L : \E k \in 0 .. Len(L[n].members) - 1 : cut.lines = Broken(L, n, k)
            \/ \E n \in DOMAIN L : \E x \in Records : cut.lines = Misnamed(L, n, x)
<1> DEFINE first == {SubSeq(L, 1, n) : n \in 0 .. Len(L)}
           last == UNION {CutLine(L, n) : n \in DOMAIN L}
<1>1. \/ cut \in [there : {TRUE}, whole : {FALSE}, torn : BOOLEAN, lines : first]
      \/ cut \in [there : {TRUE}, whole : {FALSE}, torn : {FALSE}, lines : last]
  BY DEF CutShort
<1> HIDE DEF first, last
<1>2. /\ cut \in [there : BOOLEAN, whole : {FALSE}, torn : BOOLEAN, lines : {cut.lines}]
      /\ cut.lines \in first \/ cut.lines \in last
  BY <1>1
<1>3. \A n \in DOMAIN L : \A ls \in CutLine(L, n) :
        \/ \E k \in 0 .. Len(L[n].members) - 1 : ls = Broken(L, n, k)
        \/ \E x \in Records : ls = Misnamed(L, n, x)
  BY DEF CutLine, Broken, Misnamed
<1> QED  BY <1>2, <1>3 DEF first, last

\* A file that is cut short is one, and is known not to be whole.
LEMMA CutShortType ==
  ASSUME NEW L \in Seq(Line), NEW cut \in CutShort(L)
  PROVE  cut \in File /\ cut.whole = FALSE
<1>1. ASSUME NEW n \in 0 .. Len(L) PROVE SubSeq(L, 1, n) \in Seq(Line)
  OBVIOUS
<1>2. ASSUME NEW n \in DOMAIN L, NEW k \in 0 .. Len(L[n].members) - 1
      PROVE  Broken(L, n, k) \in Seq(Line)
  <2>1. \A e \in Line : e.members \in Seq(Records)
    BY DEF Line
  <2>2. L[n] \in Line
    OBVIOUS
  <2>3. SubSeq(L[n].members, 1, k) \in Seq(Records)
    <3>1. L[n].members \in Seq(Records)
      BY <2>1, <2>2
    <3> QED  BY <3>1
  <2>4. [L[n] EXCEPT !.members = SubSeq(@, 1, k)] \in Line
    BY <2>2, <2>3 DEF Line
  <2>5. SubSeq(L, 1, n - 1) \in Seq(Line)
    OBVIOUS
  <2> QED  BY <2>4, <2>5 DEF Broken
<1>3. ASSUME NEW n \in DOMAIN L, NEW x \in Records
      PROVE  Misnamed(L, n, x) \in Seq(Line)
  <2>1. SubSeq(L, 1, n - 1) \in Seq(Line)
    OBVIOUS
  <2>2. <<>> \in Seq(Records)
    OBVIOUS
  <2>3. [head |-> x, members |-> <<>>] \in Line
    BY <2>2, Zenon DEF Line
  <2> QED  BY <2>1, <2>3 DEF Misnamed
<1>4. cut.lines \in Seq(Line)
  BY <1>1, <1>2, <1>3, CutCases
<1>5. cut \in [there : BOOLEAN, whole : {FALSE}, torn : BOOLEAN, lines : {cut.lines}]
  BY CutCases
<1>6. PICK ls : ls = cut.lines
  OBVIOUS
<1> QED  BY <1>4, <1>5, <1>6 DEF File

LEMMA SizeNat == ASSUME NEW L, IsList(L) PROVE Size(L) \in Nat
<1>1. /\ IsFiniteSet(DOMAIN L)
      /\ \A i \in DOMAIN L : Sizes(L)[i] \in Nat
      /\ Size(L) = SumFunctionOnSet(Sizes(L), DOMAIN L)
  BY SizeOf
<1> QED  BY <1>1, SumNat

LEMMA CoarsenedReflexive == ASSUME NEW L PROVE Coarsened(L, L)
BY DEF Coarsened

LEMMA CoarsenedTransitive ==
  ASSUME NEW K, NEW L, NEW M, Coarsened(K, L), Coarsened(L, M)
  PROVE  Coarsened(K, M)
<1> SUFFICES ASSUME NEW i \in DOMAIN K
             PROVE  \E k \in DOMAIN M : ToSet(K[i].members) \subseteq ToSet(M[k].members)
  BY DEF Coarsened
<1>1. PICK j \in DOMAIN L : ToSet(K[i].members) \subseteq ToSet(L[j].members)
  BY DEF Coarsened
<1>2. PICK k \in DOMAIN M : ToSet(L[j].members) \subseteq ToSet(M[k].members)
  BY DEF Coarsened
<1> QED  BY <1>1, <1>2

\* The clusters of a file, put into their blocks.
LEMMA ResetBlockingIs ==
  ASSUME NEW f \in Files, files \in [Files -> File], round \in Rounds,
         middle \in [Records -> Names], coauthors \in [Records -> SUBSET Coauthors],
         ResetBlocking(f)
  PROVE  /\ match' \in Seq(Cluster) /\ totalNum' = Size(match') /\ totalNum' \in Nat
         /\ middle' \in [Records -> Names] /\ coauthors' \in [Records -> SUBSET Coauthors]
         /\ Coarsened(files[f].lines, match')
         /\ IsPartition(files[f].lines) => IsPartition(match')
         /\ \E p : Rearranged(match', files[f].lines, p)
         /\ middle' = ChangeMiddle(files[f].lines, middle)
         /\ coauthors' = Unite(files[f].lines, coauthors)
         /\ \A k \in DOMAIN match' : match'[k].block = BlockOf(match'[k].head, middle)
<1>1. PICK L : L = files[f].lines
  OBVIOUS
<1>2. L \in Seq(Line) /\ IsList(L)
  <2>1. files[f] \in File
    OBVIOUS
  <2>2. \A e \in File : e.lines \in Seq(Line)
    BY DEF File
  <2> QED  BY <1>1, <2>1, <2>2, Lists
<1>3. PICK block : block = [i \in DOMAIN L |-> BlockOf(L[i].head, middle)]
  OBVIOUS
<1>4. block \in [DOMAIN L -> Nat]
  <2>1. \A i \in DOMAIN L : L[i].head \in Records
    BY <1>2 DEF IsList
  <2>2. \A i \in DOMAIN L : BlockOf(L[i].head, middle) \in Nat
    BY <2>1, BlockOfType
  <2> QED  BY <1>3, <2>2
<1>5. match' = Blocked(L, block) /\ coauthors' = Unite(L, coauthors)
      /\ middle' = ChangeMiddle(L, middle) /\ totalNum' = Size(L)
  BY <1>1, <1>3 DEF ResetBlocking
<1>6. PICK p : /\ match' \in Seq(Cluster) /\ Rearranged(match', L, p)
               /\ \A k \in DOMAIN L : match'[k].block = block[p[k]]
  <2>1. PICK B : B = Blocked(L, block)
    OBVIOUS
  <2>2. /\ B \in Seq(Cluster)
        /\ \E p : Rearranged(B, L, p) /\ \A k \in DOMAIN L : B[k].block = block[p[k]]
    BY <1>2, <1>4, <2>1, BlockedList
  <2>3. match' = B
    BY <1>5, <2>1
  <2> QED  BY <2>2, <2>3
<1>b. \A k \in DOMAIN match' : match'[k].block = BlockOf(match'[k].head, middle)
  <2>1. /\ \A k \in DOMAIN match' : p[k] \in DOMAIN L /\ match'[k].head = L[p[k]].head
        /\ DOMAIN match' = DOMAIN L
    BY <1>5, <1>6 DEF Rearranged, Bijection, Injection, Blocked
  <2> QED  BY <1>3, <1>6, <2>1
<1>7. IsList(match')
  BY <1>6, Lists
<1>8. /\ Size(match') = Size(L) /\ InLines(match') = InLines(L)
      /\ Headed(L) => Headed(match')
      /\ Coarsened(L, match')
  BY <1>2, <1>6, <1>7, RearrangedSame
<1>9. IsPartition(L) => IsPartition(match')
  BY <1>8 DEF IsPartition, Headed
<1>10. Size(L) \in Nat
  BY <1>2, SizeNat
<1> QED  BY <1>1, <1>2, <1>5, <1>6, <1>b, <1>8, <1>9, <1>10, UniteType, ChangeMiddleType

\* A merge of two clusters, in memory.
LEMMA MergeIs ==
  ASSUME NEW X, X = Line \/ X = Cluster,
         NEW S \in Seq(X), NEW i \in DOMAIN S, NEW j \in DOMAIN S, i # j,
         NEW T \in Merges(S, i, j), NEW L, Coarsened(L, S)
  PROVE  /\ T \in Seq(X) /\ Size(T) = Size(S) /\ Coarsened(L, T)
         /\ IsPartition(S) => IsPartition(T)
<1>1. /\ T \in Seq(X)
      /\ Size(T) = Size(S) /\ InLines(T) = InLines(S)
      /\ Headed(S) => Headed(T)
      /\ Coarsened(S, T)
  BY MergesKeep
<1>2. Coarsened(L, T)
  BY <1>1, CoarsenedTransitive
<1> QED  BY <1>1, <1>2 DEF IsPartition, Headed

-----------------------------------------------------------------------------
(* The invariant, action by action.                                        *)

LEMMA Places ==
  /\ NumRounds \in Nat /\ NumRounds > 0 /\ Rounds = 1 .. NumRounds
  /\ Network = NumRounds + 1 /\ Final = NumRounds + 2 /\ Files = 0 .. NumRounds + 2
BY RoundsAssumption DEF Rounds, Network, Final, Files

LEMMA Empty == <<>> \in Seq(Cluster) /\ <<>> \in Seq(Line) /\ Size(<<>>) \in Nat
<1>1. <<>> \in Seq(Cluster) /\ <<>> \in Seq(Line)
  OBVIOUS
<1> QED  BY <1>1, Lists, SizeNat

LEMMA CsvType == CsvMiddle \in [Records -> Names] /\ CsvCoauthors \in [Records -> SUBSET Coauthors]
BY RoundsAssumption

LEMMA InitInv == Init => RoundsInv
<1> SUFFICES ASSUME Init PROVE RoundsInv
  OBVIOUS
<1>1. Absent \in File /\ Absent.whole = FALSE
  BY DEF Absent, File
<1>2. pc \notin Running /\ pc \in Ended
  BY DEF Init, Running, Ended
<1>3. TypeOK
  BY <1>1, <1>2, CsvType, Empty, Places, RoundsAssumption DEF Init, TypeOK
<1>4. PlaceInv
  BY <1>2 DEF Init, PlaceInv, Running, Prints, InPolished
<1>5. ClustersInv
  BY DEF Init, ClustersInv, AlwaysConsistent, InMatch, InPolished, Prints
<1>6. WholeInv
  BY <1>1, <1>2 DEF Init, WholeInv, WholeIsPartition, InMatch, InPolished, Prints
<1> QED  BY <1>3, <1>4, <1>5, <1>6 DEF RoundsInv

\* A process that is gone.
LEMMA ExitKeeps ==
  ASSUME TypeOK, Exit, pc' \in Ended \ {"inconsistent"}, UNCHANGED <<starts, network>>,
         files' \in [Files -> File], WholeIsPartition'
  PROVE  RoundsInv'
<1>1. pc' \notin Running /\ pc' # "inconsistent"
  BY DEF Ended, Running
<1>2. TypeOK'
  BY CsvType, Empty, Places, RoundsAssumption DEF TypeOK, Exit
<1>3. PlaceInv'
  BY <1>1 DEF PlaceInv, Running, Prints, InPolished
<1>4. ClustersInv'
  BY <1>1 DEF ClustersInv, AlwaysConsistent, InMatch, InPolished, Prints, Running
<1>5. WholeInv'
  BY <1>1 DEF WholeInv, InMatch, InPolished, Prints, Running
<1> QED  BY <1>2, <1>3, <1>4, <1>5 DEF RoundsInv

LEMMA SameFiles == ASSUME TypeOK, WholeInv, UNCHANGED files
                   PROVE  files' \in [Files -> File] /\ WholeIsPartition'
BY DEF TypeOK, WholeInv, WholeIsPartition

LEMMA StutterKeeps == RoundsInv /\ UNCHANGED vars => RoundsInv'
BY DEF RoundsInv, vars, process, TypeOK, PlaceInv, ClustersInv, WholeInv, WholeIsPartition,
       AlwaysConsistent, InMatch, InPolished, Prints, Consolidates

LEMMA StartKeeps == RoundsInv /\ Start => RoundsInv'
<1> SUFFICES ASSUME RoundsInv, Start PROVE RoundsInv'
  OBVIOUS
<1> USE DEF RoundsInv
<1>1. PICK r \in 1 .. NumRounds + 1 :
        /\ r = 1 \/ files[r - 1].there
        /\ round' = r /\ old' = r - 1
        /\ intact' = (r = 1 \/ files[r - 1].whole)
  BY DEF Start
<1>2. /\ pc' = "config" /\ starts' = starts + 1 /\ starts < MaxStarts
      /\ files' = [f \in Files |-> IF f \in {Network, Final} THEN Absent ELSE files[f]]
      /\ UNCHANGED <<network, out, match, totalNum, polished, middle, coauthors>>
  BY DEF Start
<1>3. Absent \in File /\ Absent.whole = FALSE
  BY DEF Absent, File
<1>4. \A f \in File : f.whole \in BOOLEAN
  BY DEF File
<1>5. files' \in [Files -> File]
  BY <1>2, <1>3 DEF TypeOK
<1>6. r - 1 \in Files /\ r \in 0 .. NumRounds + 1 /\ r # 0
  BY Places
<1>7. files[r - 1].whole \in BOOLEAN
  BY <1>4, <1>6 DEF TypeOK
<1>8. TypeOK'
  <2>1. pc' \in Ended \cup Running
    BY <1>2 DEF Running
  <2>2. starts' \in 0 .. MaxStarts
    BY <1>2, RoundsAssumption DEF TypeOK
  <2> QED  BY <1>1, <1>2, <1>5, <1>6, <1>7, <2>1, <2>2 DEF TypeOK
<1>9. PlaceInv'
  BY <1>1, <1>2, <1>6 DEF PlaceInv, InPolished, Prints
<1>10. ClustersInv'
  BY <1>2 DEF ClustersInv, AlwaysConsistent, InMatch, InPolished, Prints
<1>11. WholeIsPartition'
  BY <1>2, <1>3 DEF WholeInv, WholeIsPartition
<1>12. intact' /\ ~ Consolidates' => files'[old'].whole
  <2> SUFFICES ASSUME intact', r # 1 PROVE files'[old'].whole
    BY <1>1, <1>2 DEF Consolidates
  <2>1. files[r - 1].whole
    BY <1>1
  <2>2. r - 1 \notin {Network, Final}
    BY Places
  <2> QED  BY <1>1, <1>2, <1>6, <2>1, <2>2
<1>13. WholeInv'
  BY <1>2, <1>11, <1>12 DEF WholeInv, InMatch, InPolished, Prints
<1> QED  BY <1>8, <1>9, <1>10, <1>13

LEMMA ConfigRoundKeeps == RoundsInv /\ ConfigRound => RoundsInv'
<1> SUFFICES ASSUME RoundsInv, ConfigRound PROVE RoundsInv'
  OBVIOUS
<1> USE DEF RoundsInv
<1>1. /\ pc = "config" /\ round \in Rounds
      /\ pc' = IF round = 1 THEN "consolidate" ELSE "reset"
      /\ UNCHANGED <<starts, network, files, round, old, out, match, totalNum, polished, middle,
                     coauthors, intact>>
  BY DEF ConfigRound, process
<1>2. pc' \in {"consolidate", "reset"} /\ (pc' = "consolidate" <=> round = 1)
  BY <1>1
<1>3. TypeOK'
  BY <1>1, <1>2 DEF TypeOK, Running
<1>4. PlaceInv'
  BY <1>1, <1>2 DEF PlaceInv, InPolished, Prints, Running
<1>5. ClustersInv'
  BY <1>2 DEF ClustersInv, AlwaysConsistent, InMatch, InPolished, Prints
<1>6. WholeInv'
  BY <1>1, <1>2 DEF WholeInv, WholeIsPartition, InMatch, InPolished, Prints, Consolidates, Running
<1> QED  BY <1>3, <1>4, <1>5, <1>6

LEMMA NoConfigFileKeeps == RoundsInv /\ NoConfigFile => RoundsInv'
<1> SUFFICES ASSUME RoundsInv, NoConfigFile PROVE RoundsInv'
  OBVIOUS
<1>1. TypeOK /\ WholeInv /\ UNCHANGED files /\ UNCHANGED <<starts, network>> /\ Exit
      /\ pc' \in Ended \ {"inconsistent"}
  BY DEF RoundsInv, NoConfigFile, Ended
<1> QED  BY <1>1, SameFiles, ExitKeeps

LEMMA ReadThrowsKeeps == RoundsInv /\ ReadThrows => RoundsInv'
<1> SUFFICES ASSUME RoundsInv, ReadThrows PROVE RoundsInv'
  OBVIOUS
<1>1. TypeOK /\ WholeInv /\ UNCHANGED files /\ UNCHANGED <<starts, network>> /\ Exit
      /\ pc' \in Ended \ {"inconsistent"}
  BY DEF RoundsInv, ReadThrows, Ended
<1> QED  BY <1>1, SameFiles, ExitKeeps

LEMMA PolishThrowsKeeps == RoundsInv /\ PolishThrows => RoundsInv'
<1> SUFFICES ASSUME RoundsInv, PolishThrows PROVE RoundsInv'
  OBVIOUS
<1>1. TypeOK /\ WholeInv /\ UNCHANGED files /\ UNCHANGED <<starts, network>> /\ Exit
      /\ pc' \in Ended \ {"inconsistent"}
  BY DEF RoundsInv, PolishThrows, Ended
<1> QED  BY <1>1, SameFiles, ExitKeeps

LEMMA NoLargestClusterKeeps == RoundsInv /\ NoLargestCluster => RoundsInv'
<1> SUFFICES ASSUME RoundsInv, NoLargestCluster PROVE RoundsInv'
  OBVIOUS
<1>1. TypeOK /\ WholeInv /\ UNCHANGED files /\ UNCHANGED <<starts, network>> /\ Exit
      /\ pc' \in Ended \ {"inconsistent"}
  BY DEF RoundsInv, NoLargestCluster, Ended
<1> QED  BY <1>1, SameFiles, ExitKeeps

\* The lines of a file are a list.
LEMMA LinesOf ==
  ASSUME TypeOK, NEW f \in Files
  PROVE  files[f] \in File /\ files[f].lines \in Seq(Line) /\ IsList(files[f].lines)
<1>1. files[f] \in File
  BY DEF TypeOK
<1>2. \A e \in File : e.lines \in Seq(Line)
  BY DEF File
<1> QED  BY <1>1, <1>2, Lists

LEMMA NoMoreRoundsKeeps == RoundsInv /\ NoMoreRounds => RoundsInv'
<1> SUFFICES ASSUME RoundsInv, NoMoreRounds PROVE RoundsInv'
  OBVIOUS
<1> USE DEF RoundsInv
<1>1. /\ pc = "config" /\ round \notin Rounds /\ pc' = "polish" /\ out' = Final
      /\ polished' = files[old].lines /\ coauthors' = Unite(files[old].lines, coauthors)
      /\ UNCHANGED <<starts, network, files, round, old, match, totalNum, middle, intact>>
  BY DEF NoMoreRounds
<1>2. round # 0 /\ round # 1
  BY <1>1, Places DEF PlaceInv, Running
<1>3. old \in Files /\ files[old].lines \in Seq(Line) /\ IsList(files[old].lines)
  BY LinesOf DEF TypeOK
<1>4. TypeOK'
  <2>1. coauthors' \in [Records -> SUBSET Coauthors]
    BY <1>1, <1>3, UniteType DEF TypeOK
  <2> QED  BY <1>1, <1>3, <2>1, Places DEF TypeOK, Running
<1>5. PlaceInv'
  BY <1>1 DEF PlaceInv, InPolished, Prints, Running
<1>6. ClustersInv'
  <2>1. Coarsened(files'[old'].lines, polished')
    BY <1>1, CoarsenedReflexive
  <2> QED  BY <1>1, <2>1 DEF ClustersInv, AlwaysConsistent, InMatch, InPolished, Prints
<1>7. WholeInv'
  <2>1. intact => files[old].whole
    BY <1>1, <1>2 DEF WholeInv, Consolidates, Running
  <2>2. intact => IsPartition(files[old].lines)
    BY <1>3, <2>1 DEF WholeInv, WholeIsPartition
  <2> QED  BY <1>1, <2>1, <2>2 DEF WholeInv, WholeIsPartition, InMatch, InPolished, Prints
<1> QED  BY <1>4, <1>5, <1>6, <1>7

LEMMA ConsolidateKeeps == RoundsInv /\ Consolidate => RoundsInv'
<1> SUFFICES ASSUME RoundsInv, Consolidate PROVE RoundsInv'
  OBVIOUS
<1> USE DEF RoundsInv
<1>1. /\ pc = "consolidate" /\ match' = Consolidated /\ coauthors' = Unite(Consolidated, coauthors)
      /\ totalNum' = Size(Consolidated) /\ pc' = "open" /\ out' = old
      /\ UNCHANGED <<starts, network, files, round, old, polished, middle, intact>>
  BY DEF Consolidate
<1>2. round = 1 /\ old = 0
  BY <1>1, Places DEF PlaceInv, Running
<1>3. Consolidated \in Seq(Cluster) /\ IsPartition(Consolidated)
      /\ IsList(Consolidated) /\ Size(Consolidated) \in Nat
  BY ConsolidatedList, Lists, SizeNat
<1>4. TypeOK'
  <2>1. coauthors' \in [Records -> SUBSET Coauthors]
    BY <1>1, <1>3, UniteType DEF TypeOK
  <2> QED  BY <1>1, <1>3, <2>1 DEF TypeOK, Running
<1>5. PlaceInv'
  BY <1>1, <1>2, Places DEF PlaceInv, InPolished, Prints, Running
<1>6. ClustersInv'
  BY <1>1, <1>2, Places
     DEF ClustersInv, AlwaysConsistent, InMatch, InPolished, Prints, Consolidates
<1>7. WholeInv'
  BY <1>1, <1>2, <1>3, Places
     DEF WholeInv, WholeIsPartition, InMatch, InPolished, Prints, Consolidates
<1> QED  BY <1>4, <1>5, <1>6, <1>7

LEMMA ResetKeeps == RoundsInv /\ Reset => RoundsInv'
<1> SUFFICES ASSUME RoundsInv, Reset PROVE RoundsInv'
  OBVIOUS
<1> USE DEF RoundsInv
<1>1. /\ pc = "reset" /\ ResetBlocking(old)
      /\ \/ network /\ pc' = "polish" /\ polished' = files[old].lines /\ out' = Network
         \/ ~ network /\ pc' = "disambiguate" /\ UNCHANGED <<polished, out>>
      /\ UNCHANGED <<starts, network, files, round, old, intact>>
  BY DEF Reset
<1>2. round \in Rounds /\ old \in Files /\ old = round - 1
  BY <1>1 DEF PlaceInv, TypeOK, Running
<1>3. files[old].lines \in Seq(Line)
  BY <1>2, LinesOf
<1>4. /\ match' \in Seq(Cluster) /\ totalNum' = Size(match') /\ totalNum' \in Nat
      /\ middle' \in [Records -> Names] /\ coauthors' \in [Records -> SUBSET Coauthors]
      /\ Coarsened(files[old].lines, match')
      /\ IsPartition(files[old].lines) => IsPartition(match')
  BY <1>1, <1>2, ResetBlockingIs DEF TypeOK
<1>5. TypeOK'
  BY <1>1, <1>3, <1>4, Places DEF TypeOK, Running
<1>6. PlaceInv'
  BY <1>1, <1>2 DEF PlaceInv, InPolished, Prints, Running
<1>7. ClustersInv'
  <2>1. Coarsened(files[old].lines, files[old].lines)
    BY CoarsenedReflexive
  <2> QED  BY <1>1, <1>4, <2>1 DEF ClustersInv, AlwaysConsistent, InMatch, InPolished, Prints
<1>8. WholeInv'
  <2>1. intact => files[old].whole
    BY <1>1 DEF WholeInv, Consolidates, Running, Prints
  <2>2. intact => IsPartition(files[old].lines) /\ IsPartition(match')
    BY <1>2, <1>4, <2>1 DEF WholeInv, WholeIsPartition
  <2> QED  BY <1>1, <2>1, <2>2 DEF WholeInv, WholeIsPartition, InMatch, InPolished, Prints
<1> QED  BY <1>5, <1>6, <1>7, <1>8

LEMMA ResetAgainKeeps == RoundsInv /\ ResetAgain => RoundsInv'
<1> SUFFICES ASSUME RoundsInv, ResetAgain PROVE RoundsInv'
  OBVIOUS
<1> USE DEF RoundsInv
<1>1. /\ pc = "again" /\ ResetBlocking(Network) /\ pc' = "disambiguate"
      /\ UNCHANGED <<starts, network, files, round, old, out, polished, intact>>
  BY DEF ResetAgain
<1>2. round \in Rounds /\ old = round - 1 /\ Network \in Files
  BY <1>1, Places DEF PlaceInv, Running
<1>3. /\ match' \in Seq(Cluster) /\ totalNum' = Size(match') /\ totalNum' \in Nat
      /\ middle' \in [Records -> Names] /\ coauthors' \in [Records -> SUBSET Coauthors]
      /\ Coarsened(files[Network].lines, match')
      /\ IsPartition(files[Network].lines) => IsPartition(match')
  BY <1>1, <1>2, ResetBlockingIs DEF TypeOK
<1>4. TypeOK'
  BY <1>1, <1>3 DEF TypeOK, Running
<1>5. PlaceInv'
  BY <1>1, <1>2 DEF PlaceInv, InPolished, Prints, Running
<1>6. ClustersInv'
  <2>1. Coarsened(files[old].lines, match')
    BY <1>1, <1>3, CoarsenedTransitive DEF ClustersInv
  <2> QED  BY <1>1, <1>3, <2>1 DEF ClustersInv, AlwaysConsistent, InMatch, InPolished, Prints
<1>7. WholeInv'
  <2>1. intact => files[old].whole /\ files[Network].whole
    BY <1>1 DEF WholeInv, Consolidates, Running, Prints
  <2>2. intact => IsPartition(match')
    BY <1>2, <1>3, <2>1 DEF WholeInv, WholeIsPartition
  <2> QED  BY <1>1, <2>1, <2>2 DEF WholeInv, WholeIsPartition, InMatch, InPolished, Prints
<1> QED  BY <1>4, <1>5, <1>6, <1>7

LEMMA PolishMergeKeeps == RoundsInv /\ PolishMerge => RoundsInv'
<1> SUFFICES ASSUME RoundsInv, PolishMerge PROVE RoundsInv'
  OBVIOUS
<1> USE DEF RoundsInv
<1>1. /\ pc = "polish" /\ pc' = pc /\ coauthors' = Unite(polished', coauthors)
      /\ UNCHANGED <<starts, network, files, round, old, out, match, totalNum, middle, intact>>
  BY DEF PolishMerge
<1>2. PICK i \in DOMAIN polished, j \in DOMAIN polished : i # j /\ polished' \in Merges(polished, i, j)
  BY DEF PolishMerge
<1>3. Coarsened(files[old].lines, polished) /\ polished \in Seq(Line)
  BY <1>1 DEF ClustersInv, InPolished, TypeOK
<1>4. /\ polished' \in Seq(Line) /\ Coarsened(files[old].lines, polished')
      /\ IsPartition(polished) => IsPartition(polished')
  BY <1>2, <1>3, MergeIs
<1>5. TypeOK'
  <2>1. coauthors' \in [Records -> SUBSET Coauthors]
    BY <1>1, <1>4, Lists, UniteType DEF TypeOK
  <2> QED  BY <1>1, <1>4, <2>1 DEF TypeOK
<1>6. PlaceInv'
  BY <1>1 DEF PlaceInv, InPolished, Prints, Running
<1>7. ClustersInv'
  BY <1>1, <1>4 DEF ClustersInv, AlwaysConsistent, InMatch, InPolished, Prints
<1>8. WholeInv'
  BY <1>1, <1>4 DEF WholeInv, WholeIsPartition, InMatch, InPolished, Prints, Consolidates, Running
<1> QED  BY <1>5, <1>6, <1>7, <1>8

LEMMA PolishEndsKeeps == RoundsInv /\ PolishEnds => RoundsInv'
<1> SUFFICES ASSUME RoundsInv, PolishEnds PROVE RoundsInv'
  OBVIOUS
<1> USE DEF RoundsInv
<1>1. /\ pc = "polish" /\ pc' = "open"
      /\ UNCHANGED <<starts, network, files, round, old, out, match, totalNum, polished, middle,
                     coauthors, intact>>
  BY DEF PolishEnds, process
<1>2. out = Final \/ (out = Network /\ round \in Rounds)
  BY <1>1 DEF PlaceInv, InPolished
<1>3. TypeOK'
  BY <1>1 DEF TypeOK, Running
<1>4. PlaceInv'
  BY <1>1, <1>2 DEF PlaceInv, InPolished, Prints, Running
<1>5. ClustersInv'
  BY <1>1, <1>2 DEF ClustersInv, AlwaysConsistent, InMatch, InPolished, Prints
<1>6. WholeInv'
  BY <1>1, <1>2 DEF WholeInv, WholeIsPartition, InMatch, InPolished, Prints, Consolidates, Running
<1> QED  BY <1>3, <1>4, <1>5, <1>6

LEMMA MergeInBlockKeeps == RoundsInv /\ MergeInBlock => RoundsInv'
<1> SUFFICES ASSUME RoundsInv, MergeInBlock PROVE RoundsInv'
  OBVIOUS
<1> USE DEF RoundsInv
<1>1. /\ pc = "disambiguate" /\ pc' = pc /\ coauthors' = Unite(match', coauthors)
      /\ UNCHANGED <<starts, network, files, round, old, out, totalNum, polished, middle, intact>>
  BY DEF MergeInBlock
<1>2. PICK i \in DOMAIN match, j \in DOMAIN match : i < j /\ match' \in Merges(match, i, j)
  BY DEF MergeInBlock
<1>3. /\ Coarsened(files[old].lines, match) /\ match \in Seq(Cluster)
      /\ totalNum = Size(match) /\ totalNum \in Nat
  BY <1>1 DEF ClustersInv, InMatch, TypeOK, Consolidates, Prints
<1>4. i # j
  <2>1. i \in Nat /\ j \in Nat
    BY <1>3
  <2> QED  BY <1>2, <2>1
<1>5. /\ match' \in Seq(Cluster) /\ Coarsened(files[old].lines, match') /\ Size(match') = Size(match)
      /\ IsPartition(match) => IsPartition(match')
  BY <1>2, <1>3, <1>4, MergeIs
<1>6. TypeOK'
  <2>1. coauthors' \in [Records -> SUBSET Coauthors]
    BY <1>1, <1>5, Lists, UniteType DEF TypeOK
  <2> QED  BY <1>1, <1>5, <2>1 DEF TypeOK
<1>7. PlaceInv'
  BY <1>1 DEF PlaceInv, InPolished, Prints, Running
<1>8. ClustersInv'
  BY <1>1, <1>3, <1>5 DEF ClustersInv, AlwaysConsistent, InMatch, InPolished, Prints
<1>9. WholeInv'
  BY <1>1, <1>5 DEF WholeInv, WholeIsPartition, InMatch, InPolished, Prints, Consolidates, Running
<1> QED  BY <1>6, <1>7, <1>8, <1>9

LEMMA EndDisambiguateKeeps == RoundsInv /\ EndDisambiguate => RoundsInv'
<1> SUFFICES ASSUME RoundsInv, EndDisambiguate PROVE RoundsInv'
  OBVIOUS
<1> USE DEF RoundsInv
<1>1. /\ pc = "disambiguate" /\ pc' = "open" /\ out' = round
      /\ UNCHANGED <<starts, network, files, round, old, match, totalNum, polished, middle,
                     coauthors, intact>>
  BY DEF EndDisambiguate
<1>2. round \in Rounds /\ round # Network /\ round # Final /\ round # 0 /\ round \in Files
  BY <1>1, Places DEF PlaceInv
<1>3. TypeOK'
  BY <1>1, <1>2 DEF TypeOK, Running
<1>4. PlaceInv'
  BY <1>1, <1>2 DEF PlaceInv, InPolished, Prints, Running
<1>5. ClustersInv'
  BY <1>1, <1>2 DEF ClustersInv, AlwaysConsistent, InMatch, InPolished, Prints, Consolidates
<1>6. WholeInv'
  BY <1>1, <1>2 DEF WholeInv, WholeIsPartition, InMatch, InPolished, Prints, Consolidates, Running
<1> QED  BY <1>3, <1>4, <1>5, <1>6

-----------------------------------------------------------------------------
(* The steps that write a file.                                            *)

LEMMA PrintedIs ==
  ASSUME RoundsInv, pc = "write"
  PROVE  /\ Printed \in Seq(Line)
         /\ out \in {Network, Final} => InPolished /\ ~ InMatch /\ Printed = polished
         /\ out \notin {Network, Final} => InMatch /\ ~ InPolished /\ Printed = Lines(match)
         /\ intact => IsPartition(Printed)
<1>1. CASE out \in {Network, Final}
  BY <1>1 DEF Printed, RoundsInv, TypeOK, WholeInv, InPolished, InMatch, Prints
<1>2. CASE out \notin {Network, Final}
  <2>1. InMatch /\ ~ InPolished /\ match \in Seq(Cluster) /\ Printed = Lines(match)
    BY <1>2 DEF Printed, RoundsInv, TypeOK, InPolished, InMatch, Prints
  <2>2. intact => IsPartition(match)
    BY <2>1 DEF RoundsInv, WholeInv
  <2>3. /\ Lines(match) \in Seq(Line)
        /\ Size(Lines(match)) = Size(match) /\ InLines(Lines(match)) = InLines(match)
        /\ Headed(match) => Headed(Lines(match))
    BY <2>1, LinesList
  <2>4. intact => IsPartition(Lines(match))
    BY <2>2, <2>3 DEF IsPartition, Headed
  <2> QED  BY <1>2, <2>1, <2>3, <2>4
<1> QED  BY <1>1, <1>2

\* No file is written over that the round started from, but the starting file
\* in round 1, before it is read.
LEMMA OutIsNotOld == ASSUME RoundsInv, Prints PROVE Consolidates \/ out # old
<1>1. round # 0 /\ old = round - 1 /\ round \in 0 .. NumRounds + 1 /\ round \in Nat
  BY Places DEF RoundsInv, PlaceInv, Running, Prints, TypeOK
<1>2. CASE InPolished
  BY <1>1, <1>2, Places DEF RoundsInv, PlaceInv
<1>3. CASE ~ InPolished
  <2>1. (out = round /\ round \in Rounds) \/ (out = 0 /\ round = 1)
    BY <1>3 DEF RoundsInv, PlaceInv
  <2>2. CASE out = round
    BY <1>1, <2>2
  <2>3. CASE out = 0 /\ round = 1
    BY <2>3 DEF Consolidates
  <2> QED  BY <2>1, <2>2, <2>3
<1> QED  BY <1>2, <1>3

LEMMA OpenFileKeeps == RoundsInv /\ OpenFile => RoundsInv'
<1> SUFFICES ASSUME RoundsInv, OpenFile PROVE RoundsInv'
  OBVIOUS
<1> DEFINE empty == [Contents(<<>>) EXCEPT !.whole = FALSE]
<1>1. pc = "open" /\ files' = [files EXCEPT ![out] = empty] /\ UNCHANGED <<starts, network>>
  BY DEF OpenFile
<1>2. empty \in File /\ empty.whole = FALSE
  <2>1. Contents(<<>>) \in File
    BY Empty, ContentsType DEF RoundsInv, TypeOK
  <2> QED  BY <2>1 DEF File
<1> HIDE DEF empty
<1>3. Prints /\ out \in Files
  BY <1>1 DEF Prints, RoundsInv, TypeOK
<1>4. out \in {Network, Final} \/ IsConsistent
  <2> SUFFICES ASSUME out \notin {Network, Final} PROVE IsConsistent
    OBVIOUS
  <2>1. InMatch
    BY <1>3 DEF InMatch
  <2> QED  BY <2>1 DEF RoundsInv, ClustersInv, IsConsistent
<1>5. pc' = "write" /\ UNCHANGED <<round, old, out, match, totalNum, polished, middle, coauthors, intact>>
  BY <1>4 DEF OpenFile, process
<1>6. /\ files' \in [Files -> File]
      /\ \A f \in Files : f # out => files'[f] = files[f]
      /\ files'[out].whole = FALSE
  BY <1>1, <1>2, <1>3 DEF RoundsInv, TypeOK
<1>7. Consolidates \/ files'[old] = files[old]
  BY <1>3, <1>6, OutIsNotOld DEF RoundsInv, TypeOK
<1>8. Prints' /\ (InMatch <=> InMatch') /\ (InPolished <=> InPolished') /\ (Consolidates <=> Consolidates')
  BY <1>1, <1>5 DEF Prints, InMatch, InPolished, Consolidates
<1>9. TypeOK'
  BY <1>1, <1>5, <1>6 DEF RoundsInv, TypeOK, Running
<1>10. PlaceInv'
  BY <1>1, <1>3, <1>5, <1>8 DEF RoundsInv, PlaceInv, Running
<1>11. ClustersInv'
  <2>1. InPolished => ~ Consolidates
    BY <1>1, Places DEF RoundsInv, PlaceInv, InPolished, Consolidates, Prints
  <2> QED  BY <1>5, <1>7, <1>8, <2>1 DEF RoundsInv, ClustersInv, AlwaysConsistent
<1>12. WholeInv'
  <2>1. WholeIsPartition'
    BY <1>6 DEF RoundsInv, WholeInv, WholeIsPartition
  <2> QED  BY <1>1, <1>5, <1>7, <1>8, <2>1 DEF RoundsInv, WholeInv, Running
<1> QED  BY <1>9, <1>10, <1>11, <1>12 DEF RoundsInv

\* A file that has been written holds what was in memory.
LEMMA WrittenIs ==
  ASSUME RoundsInv, NEW f, Written(f)
  PROVE  /\ pc = "write" /\ out = f /\ f \in Files /\ Prints
         /\ files' \in [Files -> File]
         /\ files'[f].lines = Printed /\ files'[f].whole = intact
         /\ \A g \in Files : g # f => files'[g] = files[g]
         /\ WholeIsPartition'
<1>1. pc = "write" /\ out = f /\ files' = [files EXCEPT ![f] = Contents(Printed)] /\ f \in Files
  BY DEF Written, RoundsInv, TypeOK
<1>2. Printed \in Seq(Line) /\ (intact => IsPartition(Printed))
  BY <1>1, PrintedIs
<1>3. Contents(Printed) \in File /\ Contents(Printed).lines = Printed
      /\ Contents(Printed).whole = intact
  BY <1>2, ContentsType DEF RoundsInv, TypeOK
<1>4. files' \in [Files -> File] /\ files'[f] = Contents(Printed)
      /\ \A g \in Files : g # f => files'[g] = files[g]
  BY <1>1, <1>3 DEF RoundsInv, TypeOK
<1>5. WholeIsPartition'
  <2> SUFFICES ASSUME NEW g \in Files, files'[g].whole PROVE IsPartition(files'[g].lines)
    BY DEF WholeIsPartition
  <2>1. CASE g = f
    BY <1>2, <1>3, <1>4, <2>1
  <2>2. CASE g # f
    BY <1>4, <2>2 DEF RoundsInv, WholeInv, WholeIsPartition
  <2> QED  BY <2>1, <2>2
<1> QED  BY <1>1, <1>3, <1>4, <1>5 DEF Prints

LEMMA WriteInputKeeps == RoundsInv /\ WriteInput => RoundsInv'
<1> SUFFICES ASSUME RoundsInv, WriteInput PROVE RoundsInv'
  OBVIOUS
<1>1. PICK f \in {0, Network} : Written(f)
  BY DEF WriteInput
<1>2. /\ pc' = IF out = 0 THEN "reset" ELSE "again"
      /\ polished' = <<>>
      /\ UNCHANGED <<starts, network, round, old, out, match, totalNum, middle, coauthors, intact>>
  BY DEF WriteInput
<1>3. /\ pc = "write" /\ out = f /\ f \in Files /\ Prints
      /\ files' \in [Files -> File]
      /\ files'[f].lines = Printed /\ files'[f].whole = intact
      /\ \A g \in Files : g # f => files'[g] = files[g]
      /\ WholeIsPartition'
  BY <1>1, WrittenIs
<1>4. 0 # Network /\ 0 # Final /\ Network # Final
  BY Places
<1>5. /\ f = 0 => ~ InPolished /\ round = 1 /\ old = 0 /\ pc' = "reset"
      /\ f = Network => InPolished /\ Printed = polished /\ round \in Rounds /\ pc' = "again"
  <2>1. CASE f = 0
    <3>1. ~ InPolished
      BY <1>3, <1>4, <2>1 DEF InPolished
    <3>2. round = 1
      BY <1>3, <2>1, <3>1, Places DEF RoundsInv, PlaceInv
    <3>3. old = 0
      BY <1>3, <3>2 DEF RoundsInv, PlaceInv, Running
    <3> QED  BY <1>2, <1>3, <1>4, <2>1, <3>1, <3>2, <3>3
  <2>2. CASE f = Network
    <3>1. InPolished /\ Printed = polished
      BY <1>3, <2>2, PrintedIs
    <3>2. round \in Rounds
      BY <1>3, <1>4, <2>2, <3>1 DEF RoundsInv, PlaceInv
    <3> QED  BY <1>2, <1>3, <1>4, <2>2, <3>1, <3>2
  <2> QED  BY <2>1, <2>2
<1>6. pc' \in {"reset", "again"} /\ (pc' = "again" => f = Network)
  BY <1>2, <1>3
<1>7. TypeOK'
  BY <1>2, <1>3, <1>6, Empty DEF RoundsInv, TypeOK, Running
<1>8. round \in Rounds /\ round # 0 /\ old = round - 1 /\ old \in Files
  BY <1>3, <1>5, Places DEF RoundsInv, PlaceInv, TypeOK, Running
<1>9. PlaceInv'
  BY <1>2, <1>6, <1>8 DEF PlaceInv, Running, InPolished, Prints
<1>10. f = Network => files'[old] = files[old] /\ ~ Consolidates
  BY <1>3, <1>4, <1>8, Places DEF Consolidates
<1>11. ClustersInv'
  <2>1. f = Network => Coarsened(files[old].lines, polished)
    BY <1>5 DEF RoundsInv, ClustersInv
  <2>2. pc' = "again" => Coarsened(files'[old].lines, files'[Network].lines)
    BY <1>3, <1>5, <1>6, <1>10, <2>1
  <2> QED  BY <1>2, <1>6, <2>2 DEF ClustersInv, AlwaysConsistent, InMatch, InPolished, Prints
<1>12. WholeInv'
  <2>1. intact => files'[old].whole
    <3>1. CASE f = 0
      BY <1>3, <1>5, <3>1
    <3>2. CASE f = Network
      BY <1>3, <1>10, <3>2 DEF RoundsInv, WholeInv, Running
    <3> QED  BY <3>1, <3>2
  <2>2. intact /\ pc' = "again" => files'[Network].whole
    BY <1>3, <1>6
  <2> QED  BY <1>2, <1>3, <1>6, <2>1, <2>2 DEF WholeInv, InMatch, InPolished, Prints
<1> QED  BY <1>7, <1>9, <1>11, <1>12 DEF RoundsInv

LEMMA WriteMatchKeeps == RoundsInv /\ WriteMatch => RoundsInv'
<1> SUFFICES ASSUME RoundsInv, WriteMatch PROVE RoundsInv'
  OBVIOUS
<1>1. PICK f \in Rounds : Written(f)
  BY DEF WriteMatch
<1>2. /\ old' = out /\ round' = round + 1 /\ match' = <<>> /\ totalNum' = 0 /\ pc' = "config"
      /\ UNCHANGED <<starts, network, out, polished, middle, coauthors, intact>>
  BY DEF WriteMatch
<1>3. /\ pc = "write" /\ out = f /\ f \in Files /\ Prints
      /\ files' \in [Files -> File]
      /\ files'[f].lines = Printed /\ files'[f].whole = intact
      /\ WholeIsPartition'
  BY <1>1, WrittenIs
<1>4. f # 0 /\ f # Network /\ f # Final /\ f \in Nat
  BY Places
<1>5. f = round /\ round \in Rounds
  <2>1. ~ InPolished
    BY <1>3, <1>4 DEF InPolished
  <2> QED  BY <1>3, <1>4, <2>1 DEF RoundsInv, PlaceInv
<1>6. round' # 0 /\ round' # 1 /\ old' = round' - 1 /\ round' \in 0 .. NumRounds + 1
  BY <1>2, <1>3, <1>4, <1>5, Places
<1>7. TypeOK'
  BY <1>2, <1>3, <1>6, Empty DEF RoundsInv, TypeOK, Running
<1>8. PlaceInv'
  BY <1>2, <1>6 DEF PlaceInv, InPolished, Prints
<1>9. ClustersInv'
  BY <1>2 DEF ClustersInv, AlwaysConsistent, InMatch, InPolished, Prints
<1>10. WholeInv'
  BY <1>2, <1>3 DEF WholeInv, InMatch, InPolished, Prints
<1> QED  BY <1>7, <1>8, <1>9, <1>10 DEF RoundsInv

LEMMA WriteFinalKeeps == RoundsInv /\ WriteFinal => RoundsInv'
<1> SUFFICES ASSUME RoundsInv, WriteFinal PROVE RoundsInv'
  OBVIOUS
<1>1. Written(Final) /\ Exit /\ pc' \in Ended \ {"inconsistent"} /\ UNCHANGED <<starts, network>>
  BY DEF WriteFinal, Ended
<1>2. files' \in [Files -> File] /\ WholeIsPartition'
  BY <1>1, WrittenIs
<1> QED  BY <1>1, <1>2, ExitKeeps DEF RoundsInv

LEMMA CrashKeeps == RoundsInv /\ Crash => RoundsInv'
<1> SUFFICES ASSUME RoundsInv, Crash PROVE RoundsInv'
  OBVIOUS
<1>1. Exit /\ pc' \in Ended \ {"inconsistent"} /\ UNCHANGED <<starts, network>>
  BY DEF Crash, Ended
<1>2. files' \in [Files -> File] /\ WholeIsPartition'
  <2>1. CASE pc = "write"
    <3>1. PICK cut \in CutShort(Printed) : files' = [files EXCEPT ![out] = cut]
      BY <2>1 DEF Crash
    <3>2. cut \in File /\ cut.whole = FALSE
      BY <2>1, PrintedIs, CutShortType
    <3> QED  BY <3>1, <3>2 DEF RoundsInv, TypeOK, WholeInv, WholeIsPartition
  <2>2. CASE pc # "write"
    BY <2>2, SameFiles DEF Crash, RoundsInv
  <2> QED  BY <2>1, <2>2
<1> QED  BY <1>1, <1>2, ExitKeeps DEF RoundsInv

-----------------------------------------------------------------------------
(* What holds of every run.                                                *)

\* Where the program is, what it holds in memory and what its files hold go
\* together, whatever is read, merged, written, cut short and started again.
THEOREM RoundsInvariant == Spec => []RoundsInv
<1>1. Init => RoundsInv
  BY InitInv
<1>2. RoundsInv /\ [Next]_vars => RoundsInv'
  <2> SUFFICES ASSUME RoundsInv, [Next]_vars PROVE RoundsInv'
    OBVIOUS
  <2>1. CASE Start
    BY <2>1, StartKeeps
  <2>2. CASE Step
    BY <2>2, ConfigRoundKeeps, NoConfigFileKeeps, NoMoreRoundsKeeps, ConsolidateKeeps,
       OpenFileKeeps, WriteInputKeeps, WriteMatchKeeps, WriteFinalKeeps, ResetKeeps,
       ReadThrowsKeeps, PolishMergeKeeps, PolishThrowsKeeps, PolishEndsKeeps,
       ResetAgainKeeps, MergeInBlockKeeps, EndDisambiguateKeeps, NoLargestClusterKeeps DEF Step
  <2>3. CASE Crash
    BY <2>3, CrashKeeps
  <2>4. CASE Rest \/ UNCHANGED vars
    BY <2>4, StutterKeeps DEF Rest
  <2> QED  BY <2>1, <2>2, <2>3, <2>4 DEF Next
<1> QED  BY <1>1, <1>2, PTL DEF Spec

\* A file written to its end from complete input holds every record once, each
\* cluster under a member of its own, after any crashes and restarts.
THEOREM WholeProved == Spec => []WholeIsPartition
<1>1. RoundsInv => WholeIsPartition
  BY DEF RoundsInv, WholeInv
<1> QED  BY <1>1, RoundsInvariant, PTL

\* print never finds the number of records in the clusters different from
\* total_num, although it has then already emptied the file.
THEOREM ConsistentProved == Spec => []AlwaysConsistent
<1>1. RoundsInv => AlwaysConsistent
  BY DEF RoundsInv, ClustersInv
<1> QED  BY <1>1, RoundsInvariant, PTL

\* The result a round starts from is there, whole, until the round ends: a
\* process that dies can be started again at the same round.
THEOREM SurvivesProved == Spec => []SourceSurvives
<1>1. RoundsInv => SourceSurvives
  BY DEF RoundsInv, WholeInv, SourceSurvives, Consolidates
<1> QED  BY <1>1, RoundsInvariant, PTL

\* No round takes records apart that the result it started from had together,
\* though the clusters are blocked anew, polished, written and read on the way.
THEOREM OnlyMergeProved == Spec => []RoundsOnlyMerge
<1>1. RoundsInv => RoundsOnlyMerge
  <2> SUFFICES ASSUME RoundsInv, pc = "disambiguate" \/ (pc = "write" /\ out \in Rounds)
               PROVE  Coarsened(files[old].lines, match)
    BY DEF RoundsOnlyMerge
  <2>1. InMatch /\ ~ Consolidates
    BY Places DEF InMatch, Consolidates, Prints
  <2> QED  BY <2>1 DEF RoundsInv, ClustersInv
<1> QED  BY <1>1, RoundsInvariant, PTL

-----------------------------------------------------------------------------
(* The longest middle name of a cluster.                                   *)

\* Member i is the first of those with the last name of x whose middle name is
\* the longest of theirs.
Candidates(ms, mid, x) ==
  {i \in DOMAIN ms : Lastname[ms[i]] = Lastname[x] /\ Length[mid[ms[i]]] > 0}

IsFirstLongest(ms, mid, x, i) ==
  /\ i \in Candidates(ms, mid, x)
  /\ \A j \in Candidates(ms, mid, x) :
       /\ Length[mid[ms[j]]] <= Length[mid[ms[i]]]
       /\ j < i => Length[mid[ms[j]]] < Length[mid[ms[i]]]

LEMMA MembersAre ==
  ASSUME NEW ms \in Seq(Records), NEW mid \in [Records -> Names]
  PROVE  /\ Len(ms) \in Nat /\ DOMAIN ms = 1 .. Len(ms)
         /\ \A i \in DOMAIN ms : /\ i \in Nat /\ ms[i] \in Records /\ ms[i] \in ToSet(ms)
                                 /\ mid[ms[i]] \in Names /\ Length[mid[ms[i]]] \in Nat
         /\ \A x \in ToSet(ms) : x \in Records /\ \E i \in DOMAIN ms : ms[i] = x
<1>1. Len(ms) \in Nat /\ DOMAIN ms = 1 .. Len(ms) /\ \A i \in DOMAIN ms : ms[i] \in Records
  OBVIOUS
<1>2. \A i \in DOMAIN ms : mid[ms[i]] \in Names /\ Length[mid[ms[i]]] \in Nat
  BY <1>1, RoundsAssumption
<1>3. /\ \A i \in DOMAIN ms : ms[i] \in ToSet(ms)
      /\ \A x \in ToSet(ms) : \E i \in DOMAIN ms : ms[i] = x
  BY DEF ToSet
<1> QED  BY <1>1, <1>2, <1>3

\* last2mid keeps the first of the longest.
LEMMA LongestIs ==
  ASSUME NEW ms \in Seq(Records), NEW mid \in [Records -> Names], NEW x,
         NEW i, IsFirstLongest(ms, mid, x, i)
  PROVE  LongestMiddle(ms, mid, x) = mid[ms[i]]
<1> DEFINE same == Candidates(ms, mid, x)
           best == {k \in same : \A j \in same : Length[mid[ms[j]]] <= Length[mid[ms[k]]]}
<1>1. \A k \in same : k \in Nat /\ Length[mid[ms[k]]] \in Nat
  BY MembersAre DEF Candidates
<1>2. i \in best
  BY DEF IsFirstLongest
<1>3. \A k \in best : i <= k
  <2> SUFFICES ASSUME NEW k \in best, ~ (i <= k) PROVE FALSE
    OBVIOUS
  <2>1. k < i /\ k \in same /\ i \in same
    BY <1>1, <1>2
  <2>2. Length[mid[ms[k]]] < Length[mid[ms[i]]] /\ Length[mid[ms[i]]] <= Length[mid[ms[k]]]
    BY <1>2, <2>1 DEF IsFirstLongest
  <2> HIDE DEF same
  <2> QED  BY <1>1, <2>1, <2>2
<1>4. \A k \in best : k \in Nat
  BY <1>1
<1> HIDE DEF same, best
<1>5. Min(best) = i
  <2>1. \A k \in best : (\A j \in best : k <= j) => k = i
    BY <1>2, <1>3, <1>4
  <2> QED  BY <1>2, <1>3, <2>1 DEF Min
<1> QED  BY <1>5 DEF LongestMiddle, Candidates, best, same

LEMMA LongestExists ==
  ASSUME NEW ms \in Seq(Records), NEW mid \in [Records -> Names], NEW x,
         Candidates(ms, mid, x) # {}
  PROVE  \E i \in DOMAIN ms : IsFirstLongest(ms, mid, x, i)
<1> DEFINE same == Candidates(ms, mid, x)
           best == {k \in same : \A j \in same : Length[mid[ms[j]]] <= Length[mid[ms[k]]]}
           len == [k \in DOMAIN ms |-> Length[mid[ms[k]]]]
<1>1. \A k \in same : k \in Nat /\ k \in DOMAIN ms /\ len[k] \in Nat /\ len[k] = Length[mid[ms[k]]]
  BY MembersAre DEF Candidates
<1>2. IsFiniteSet(same)
  <2>1. 1 \in Int /\ Len(ms) \in Int /\ DOMAIN ms = 1 .. Len(ms)
    BY MembersAre
  <2>2. IsFiniteSet(DOMAIN ms)
    BY <2>1, FS_Interval
  <2>3. same \subseteq DOMAIN ms
    BY DEF Candidates
  <2> HIDE DEF same
  <2> QED  BY <2>2, <2>3, FS_Subset
<1> HIDE DEF same, len
<1>3. PICK k \in same : \A j \in same : len[j] <= len[k]
  BY <1>1, <1>2, Greatest DEF same
<1>4. best \in SUBSET Nat /\ k \in best
  BY <1>1, <1>3
<1>5. PICK i \in best : \A j \in best : i <= j
  BY <1>4, LeastNatural
<1>6. i \in same /\ \A j \in same : len[j] <= len[i]
  BY <1>1, <1>5
<1>7. ASSUME NEW j \in same, j < i PROVE len[j] < len[i]
  <2> SUFFICES ASSUME len[j] = len[i] PROVE FALSE
    BY <1>1, <1>6
  <2>1. j \in best
    BY <1>1, <1>6
  <2>2. i <= j /\ i \in Nat /\ j \in Nat
    BY <1>1, <1>5, <2>1
  <2> QED  BY <1>7, <2>2
<1> HIDE DEF best
<1> QED  BY <1>1, <1>6, <1>7 DEF IsFirstLongest, same

\* What LongestMiddle gives is one of the middle names, not an empty one, and
\* depends on the last name of x only.
LEMMA LongestMember ==
  ASSUME NEW ms \in Seq(Records), NEW mid \in [Records -> Names], NEW x,
         Candidates(ms, mid, x) # {}
  PROVE  /\ \E i \in Candidates(ms, mid, x) : LongestMiddle(ms, mid, x) = mid[ms[i]]
         /\ Length[LongestMiddle(ms, mid, x)] > 0
<1>1. PICK i \in DOMAIN ms : IsFirstLongest(ms, mid, x, i)
  BY LongestExists
<1>2. LongestMiddle(ms, mid, x) = mid[ms[i]] /\ i \in Candidates(ms, mid, x)
  BY <1>1, LongestIs DEF IsFirstLongest
<1> QED  BY <1>2 DEF Candidates

LEMMA SameLastname ==
  ASSUME NEW ms, NEW mid, NEW x, NEW y, Lastname[x] = Lastname[y]
  PROVE  /\ LongestMiddle(ms, mid, x) = LongestMiddle(ms, mid, y)
         /\ Candidates(ms, mid, x) = Candidates(ms, mid, y)
BY DEF LongestMiddle, Candidates

\* The longest of two clusters put together: that of the first, unless the second
\* has a longer one.
LEMMA LongestOfBoth ==
  ASSUME NEW s \in Seq(Records), NEW t \in Seq(Records), NEW mid \in [Records -> Names], NEW x
  PROVE  /\ Candidates(s, mid, x) = {} =>
              LongestMiddle(s \o t, mid, x) = LongestMiddle(t, mid, x)
                \/ Candidates(t, mid, x) = {}
         /\ Candidates(t, mid, x) = {} =>
              LongestMiddle(s \o t, mid, x) = LongestMiddle(s, mid, x)
                \/ Candidates(s, mid, x) = {}
         /\ Candidates(s, mid, x) # {} /\ Candidates(t, mid, x) # {} =>
              LongestMiddle(s \o t, mid, x) =
                IF Length[LongestMiddle(t, mid, x)] > Length[LongestMiddle(s, mid, x)]
                THEN LongestMiddle(t, mid, x) ELSE LongestMiddle(s, mid, x)
<1> DEFINE m == Len(s)
           n == Len(t)
           u == s \o t
<1>1. m \in Nat /\ n \in Nat /\ DOMAIN s = 1 .. m /\ DOMAIN t = 1 .. n
      /\ u \in Seq(Records) /\ DOMAIN u = 1 .. m + n
      /\ \A k \in 1 .. m + n : u[k] = IF k <= m THEN s[k] ELSE t[k - m]
  OBVIOUS
<1> HIDE DEF m, n, u
<1>2. \A k \in 1 .. m : k \in DOMAIN u /\ u[k] = s[k]
  BY <1>1
<1>3. \A k \in 1 .. n : m + k \in DOMAIN u /\ u[m + k] = t[k]
  <2> TAKE k \in 1 .. n
  <2>1. m + k \in 1 .. m + n /\ ~ (m + k <= m) /\ (m + k) - m = k
    BY <1>1
  <2> QED  BY <1>1, <2>1
<1>4. \A k \in DOMAIN u : k \in 1 .. m \/ \E l \in 1 .. n : k = m + l
  <2> SUFFICES ASSUME NEW k \in 1 .. m + n, ~ (k <= m) PROVE \E l \in 1 .. n : k = m + l
    BY <1>1
  <2>1. k - m \in 1 .. n /\ k = m + (k - m)
    BY <1>1
  <2> QED  BY <2>1
<1> DEFINE S == Candidates(s, mid, x)
           T == Candidates(t, mid, x)
           U == Candidates(u, mid, x)
<1>5. \A k \in 1 .. m : k \in U <=> k \in S
  BY <1>1, <1>2 DEF Candidates
<1>6. \A k \in 1 .. n : m + k \in U <=> k \in T
  BY <1>1, <1>3 DEF Candidates
<1>7. U \subseteq DOMAIN u /\ S \subseteq 1 .. m /\ T \subseteq 1 .. n
  BY <1>1 DEF Candidates
<1>8. \A k \in U : k \in S \/ \E l \in T : k = m + l
  BY <1>4, <1>5, <1>6, <1>7
<1>9. /\ \A k \in S : k \in Nat /\ k <= m /\ Length[mid[s[k]]] \in Nat
      /\ \A k \in T : k \in Nat /\ k > 0 /\ Length[mid[t[k]]] \in Nat
  <2>1. \A k \in S : Length[mid[s[k]]] \in Nat
    BY MembersAre DEF Candidates
  <2>2. \A k \in T : Length[mid[t[k]]] \in Nat
    BY MembersAre DEF Candidates
  <2> HIDE DEF S, T
  <2> QED  BY <1>1, <1>7, <2>1, <2>2
<1>0. ASSUME NEW i, IsFirstLongest(u, mid, x, i) PROVE LongestMiddle(u, mid, x) = mid[u[i]]
  BY <1>0, <1>1, LongestIs
<1>s. ASSUME S # {}
      PROVE  \E i \in S : IsFirstLongest(s, mid, x, i) /\ LongestMiddle(s, mid, x) = mid[s[i]]
  <2>1. PICK i \in DOMAIN s : IsFirstLongest(s, mid, x, i)
    BY <1>s, LongestExists
  <2>2. i \in S
    BY <2>1 DEF IsFirstLongest
  <2> QED  BY <2>1, <2>2, LongestIs
<1>t. ASSUME T # {}
      PROVE  \E j \in T : IsFirstLongest(t, mid, x, j) /\ LongestMiddle(t, mid, x) = mid[t[j]]
  <2>1. PICK j \in DOMAIN t : IsFirstLongest(t, mid, x, j)
    BY <1>t, LongestExists
  <2>2. j \in T
    BY <2>1 DEF IsFirstLongest
  <2> QED  BY <2>1, <2>2, LongestIs
<1>10. CASE S = {} /\ T = {}
  BY <1>10
<1>11. CASE S = {} /\ T # {}
  <2>1. PICK j \in T : IsFirstLongest(t, mid, x, j) /\ LongestMiddle(t, mid, x) = mid[t[j]]
    BY <1>t, <1>11
  <2>2. \A l \in T : /\ Length[mid[t[l]]] <= Length[mid[t[j]]]
                     /\ l < j => Length[mid[t[l]]] < Length[mid[t[j]]]
    BY <2>1 DEF IsFirstLongest
  <2>3. m + j \in U /\ u[m + j] = t[j]
    BY <1>3, <1>6, <1>7
  <2>4. ASSUME NEW k \in U
        PROVE  /\ Length[mid[u[k]]] <= Length[mid[u[m + j]]]
               /\ k < m + j => Length[mid[u[k]]] < Length[mid[u[m + j]]]
    <3>1. PICK l \in T : k = m + l
      BY <1>8, <1>11
    <3>2. u[k] = t[l] /\ (k < m + j => l < j)
      BY <1>1, <1>3, <1>7, <1>9, <3>1
    <3> QED  BY <2>2, <2>3, <3>2
  <2>5. IsFirstLongest(u, mid, x, m + j)
    BY <2>3, <2>4 DEF IsFirstLongest
  <2>6. LongestMiddle(u, mid, x) = LongestMiddle(t, mid, x)
    BY <1>0, <2>1, <2>3, <2>5
  <2> QED  BY <1>11, <2>6 DEF u
<1>12. CASE S # {} /\ T = {}
  <2>1. PICK i \in S : IsFirstLongest(s, mid, x, i) /\ LongestMiddle(s, mid, x) = mid[s[i]]
    BY <1>s, <1>12
  <2>2. \A l \in S : /\ Length[mid[s[l]]] <= Length[mid[s[i]]]
                     /\ l < i => Length[mid[s[l]]] < Length[mid[s[i]]]
    BY <2>1 DEF IsFirstLongest
  <2>3. i \in U /\ u[i] = s[i]
    BY <1>2, <1>5, <1>7
  <2>4. \A k \in U : k \in S /\ u[k] = s[k]
    BY <1>2, <1>7, <1>8, <1>12
  <2>5. IsFirstLongest(u, mid, x, i)
    BY <2>2, <2>3, <2>4 DEF IsFirstLongest
  <2>6. LongestMiddle(u, mid, x) = LongestMiddle(s, mid, x)
    BY <1>0, <2>1, <2>3, <2>5
  <2> QED  BY <1>12, <2>6 DEF u
<1>13. CASE S # {} /\ T # {}
  <2>1. PICK i \in S : IsFirstLongest(s, mid, x, i) /\ LongestMiddle(s, mid, x) = mid[s[i]]
    BY <1>s, <1>13
  <2>2. PICK j \in T : IsFirstLongest(t, mid, x, j) /\ LongestMiddle(t, mid, x) = mid[t[j]]
    BY <1>t, <1>13
  <2>3. \A l \in S : /\ Length[mid[s[l]]] <= Length[mid[s[i]]]
                     /\ l < i => Length[mid[s[l]]] < Length[mid[s[i]]]
    BY <2>1 DEF IsFirstLongest
  <2>4. \A l \in T : /\ Length[mid[t[l]]] <= Length[mid[t[j]]]
                     /\ l < j => Length[mid[t[l]]] < Length[mid[t[j]]]
    BY <2>2 DEF IsFirstLongest
  <2>5. i \in U /\ u[i] = s[i] /\ m + j \in U /\ u[m + j] = t[j]
    BY <1>2, <1>3, <1>5, <1>6, <1>7
  <2>6. CASE Length[mid[t[j]]] > Length[mid[s[i]]]
    <3>1. ASSUME NEW k \in U
          PROVE  /\ Length[mid[u[k]]] <= Length[mid[u[m + j]]]
                 /\ k < m + j => Length[mid[u[k]]] < Length[mid[u[m + j]]]
      <4>1. CASE k \in S
        <5>1. u[k] = s[k]
          BY <1>2, <1>7, <4>1
        <5> QED  BY <1>9, <2>3, <2>5, <2>6, <4>1, <5>1
      <4>2. CASE \E l \in T : k = m + l
        <5>1. PICK l \in T : k = m + l
          BY <4>2
        <5>2. u[k] = t[l] /\ (k < m + j => l < j)
          BY <1>1, <1>3, <1>7, <1>9, <5>1
        <5> QED  BY <2>4, <2>5, <5>2
      <4> QED  BY <1>8, <4>1, <4>2
    <3>2. IsFirstLongest(u, mid, x, m + j)
      BY <2>5, <3>1 DEF IsFirstLongest
    <3>3. LongestMiddle(u, mid, x) = LongestMiddle(t, mid, x)
      BY <1>0, <2>2, <2>5, <3>2
    <3> QED  BY <1>13, <2>1, <2>2, <2>6, <3>3 DEF u
  <2>7. CASE ~ (Length[mid[t[j]]] > Length[mid[s[i]]])
    <3>1. ASSUME NEW k \in U
          PROVE  /\ Length[mid[u[k]]] <= Length[mid[u[i]]]
                 /\ k < i => Length[mid[u[k]]] < Length[mid[u[i]]]
      <4>1. CASE k \in S
        <5>1. u[k] = s[k]
          BY <1>2, <1>7, <4>1
        <5> QED  BY <2>3, <2>5, <4>1, <5>1
      <4>2. CASE \E l \in T : k = m + l
        <5>1. PICK l \in T : k = m + l
          BY <4>2
        <5>2. u[k] = t[l] /\ ~ (k < i)
          BY <1>1, <1>3, <1>7, <1>9, <5>1
        <5>3. Length[mid[t[l]]] <= Length[mid[t[j]]] /\ Length[mid[t[l]]] \in Nat
              /\ Length[mid[t[j]]] \in Nat /\ Length[mid[s[i]]] \in Nat
          BY <1>9, <2>4
        <5>4. Length[mid[t[l]]] <= Length[mid[s[i]]]
          BY <2>7, <5>3
        <5> QED  BY <2>5, <5>2, <5>4
      <4> QED  BY <1>8, <4>1, <4>2
    <3>2. IsFirstLongest(u, mid, x, i)
      BY <2>5, <3>1 DEF IsFirstLongest
    <3>3. LongestMiddle(u, mid, x) = LongestMiddle(s, mid, x)
      BY <1>0, <2>1, <2>5, <3>2
    <3> QED  BY <1>13, <2>1, <2>2, <2>7, <3>3 DEF u
  <2> QED  BY <2>6, <2>7
<1> QED  BY <1>10, <1>11, <1>12, <1>13

-----------------------------------------------------------------------------
(* Memory against the CSV file, for a cluster.                             *)

LEMMA MemberRecords == ASSUME NEW ms \in Seq(Records) PROVE ToSet(ms) \subseteq Records
BY DEF ToSet

LEMMA SameCandidates ==
  ASSUME NEW ms \in Seq(Records), NEW mid \in [Records -> Names], SameNames(ms, mid), NEW x
  PROVE  /\ Candidates(ms, mid, x) = Candidates(ms, CsvMiddle, x)
         /\ Candidates(ms, mid, x) # {} =>
              LongestMiddle(ms, mid, x) = LongestMiddle(ms, CsvMiddle, x)
<1>1. CsvMiddle \in [Records -> Names]
  BY CsvType
<1>2. \A i \in DOMAIN ms : /\ Length[mid[ms[i]]] \in Nat /\ Length[CsvMiddle[ms[i]]] \in Nat
                           /\ ms[i] \in ToSet(ms)
  BY <1>1, MembersAre
<1>3. \A i \in DOMAIN ms : Length[mid[ms[i]]] > 0 <=> Length[CsvMiddle[ms[i]]] > 0
  <2> TAKE i \in DOMAIN ms
  <2>1. CASE Length[CsvMiddle[ms[i]]] = 0
    BY <1>2, <2>1 DEF SameNames
  <2>2. CASE Length[CsvMiddle[ms[i]]] # 0
    <3>1. Length[mid[ms[i]]] > 0
      BY <1>2, <2>2 DEF SameNames
    <3> QED  BY <1>2, <2>2, <3>1
  <2> QED  BY <2>1, <2>2
<1>4. Candidates(ms, mid, x) = Candidates(ms, CsvMiddle, x)
  BY <1>3 DEF Candidates
<1>5. ASSUME Candidates(ms, mid, x) # {}
      PROVE  LongestMiddle(ms, mid, x) = LongestMiddle(ms, CsvMiddle, x)
  <2>1. PICK i \in DOMAIN ms : Lastname[ms[i]] = Lastname[x] /\ Length[CsvMiddle[ms[i]]] > 0
    BY <1>4, <1>5 DEF Candidates
  <2>2. LongestMiddle(ms, mid, ms[i]) = LongestMiddle(ms, CsvMiddle, ms[i])
    BY <1>2, <2>1 DEF SameNames
  <2>3. /\ LongestMiddle(ms, mid, ms[i]) = LongestMiddle(ms, mid, x)
        /\ LongestMiddle(ms, CsvMiddle, ms[i]) = LongestMiddle(ms, CsvMiddle, x)
    BY ONLY <2>1, SameLastname
  <2> QED  BY <2>2, <2>3
<1> QED  BY <1>4, <1>5

\* A merge of two clusters whose names in memory do not show is one as well: it
\* does not matter that the names were changed before they came together.
LEMMA NamesOfBoth ==
  ASSUME NEW s \in Seq(Records), NEW t \in Seq(Records), NEW mid \in [Records -> Names],
         SameNames(s, mid), SameNames(t, mid)
  PROVE  SameNames(s \o t, mid)
<1>1. ToSet(s \o t) = ToSet(s) \cup ToSet(t) /\ s \o t \in Seq(Records)
  BY ConcatSet
<1>2. CsvMiddle \in [Records -> Names]
  BY CsvType
<1> SUFFICES ASSUME NEW x \in ToSet(s) \cup ToSet(t)
             PROVE  IF Length[CsvMiddle[x]] = 0 THEN mid[x] = CsvMiddle[x]
                    ELSE /\ Length[mid[x]] > 0
                         /\ LongestMiddle(s \o t, mid, x) = LongestMiddle(s \o t, CsvMiddle, x)
  BY <1>1 DEF SameNames
<1>3. /\ Length[CsvMiddle[x]] = 0 => mid[x] = CsvMiddle[x]
      /\ Length[CsvMiddle[x]] # 0 => Length[mid[x]] > 0
  BY DEF SameNames
<1>4. ASSUME Length[CsvMiddle[x]] # 0
      PROVE  LongestMiddle(s \o t, mid, x) = LongestMiddle(s \o t, CsvMiddle, x)
  <2> DEFINE S == Candidates(s, mid, x)
             T == Candidates(t, mid, x)
  <2>1. /\ S = Candidates(s, CsvMiddle, x)
        /\ S # {} => LongestMiddle(s, mid, x) = LongestMiddle(s, CsvMiddle, x)
    BY SameCandidates
  <2>2. /\ T = Candidates(t, CsvMiddle, x)
        /\ T # {} => LongestMiddle(t, mid, x) = LongestMiddle(t, CsvMiddle, x)
    BY SameCandidates
  <2>3. S # {} \/ T # {}
    <3>1. CASE x \in ToSet(s)
      <4>1. PICK i \in DOMAIN s : s[i] = x
        BY <3>1 DEF ToSet
      <4>2. i \in S
        BY <1>3, <1>4, <4>1 DEF Candidates
      <4> QED  BY <4>2
    <3>2. CASE x \in ToSet(t)
      <4>1. PICK i \in DOMAIN t : t[i] = x
        BY <3>2 DEF ToSet
      <4>2. i \in T
        BY <1>3, <1>4, <4>1 DEF Candidates
      <4> QED  BY <4>2
    <3> QED  BY <3>1, <3>2
  <2> HIDE DEF S, T
  <2>4. /\ S = {} => LongestMiddle(s \o t, mid, x) = LongestMiddle(t, mid, x) \/ T = {}
        /\ T = {} => LongestMiddle(s \o t, mid, x) = LongestMiddle(s, mid, x) \/ S = {}
        /\ S # {} /\ T # {} =>
             LongestMiddle(s \o t, mid, x) =
               IF Length[LongestMiddle(t, mid, x)] > Length[LongestMiddle(s, mid, x)]
               THEN LongestMiddle(t, mid, x) ELSE LongestMiddle(s, mid, x)
    BY LongestOfBoth DEF S, T
  <2>5. /\ S = {} => LongestMiddle(s \o t, CsvMiddle, x) = LongestMiddle(t, CsvMiddle, x) \/ T = {}
        /\ T = {} => LongestMiddle(s \o t, CsvMiddle, x) = LongestMiddle(s, CsvMiddle, x) \/ S = {}
        /\ S # {} /\ T # {} =>
             LongestMiddle(s \o t, CsvMiddle, x) =
               IF Length[LongestMiddle(t, CsvMiddle, x)] > Length[LongestMiddle(s, CsvMiddle, x)]
               THEN LongestMiddle(t, CsvMiddle, x) ELSE LongestMiddle(s, CsvMiddle, x)
    BY <1>2, <2>1, <2>2, LongestOfBoth
  <2> QED  BY <2>1, <2>2, <2>3, <2>4, <2>5
<1> QED  BY <1>3, <1>4

LEMMA CoauthorsOfBoth ==
  ASSUME NEW s \in Seq(Records), NEW t \in Seq(Records), NEW co,
         SameCoauthors(s, co), SameCoauthors(t, co)
  PROVE  SameCoauthors(s \o t, co)
<1>1. PICK both : both = ToSet(s \o t) /\ both = ToSet(s) \cup ToSet(t)
  BY ConcatSet
<1>2. ASSUME NEW f
      PROVE  UNION {f[x] : x \in both}
               = (UNION {f[x] : x \in ToSet(s)}) \cup (UNION {f[x] : x \in ToSet(t)})
  <2>1. UNION {f[x] : x \in ToSet(s) \cup ToSet(t)}
          = (UNION {f[x] : x \in ToSet(s)}) \cup (UNION {f[x] : x \in ToSet(t)})
    OBVIOUS
  <2> QED  BY <1>1, <2>1
<1>3. UNION {co[x] : x \in both} = UNION {CsvCoauthors[x] : x \in both}
  BY <1>2, Zenon DEF SameCoauthors
<1> QED  BY <1>1, <1>3, Zenon DEF SameCoauthors

\* The names of a cluster after change_mid_name, where the cluster is ms.
LEMMA ChangedNames ==
  ASSUME NEW ms \in Seq(Records), NEW mid \in [Records -> Names], SameNames(ms, mid),
         NEW new \in [Records -> Names],
         \A x \in ToSet(ms) : new[x] = IF Length[mid[x]] > 0 THEN LongestMiddle(ms, mid, x)
                                       ELSE mid[x]
  PROVE  /\ SameNames(ms, new)
         /\ \A x \in ToSet(ms) :
              new[x] = IF Length[CsvMiddle[x]] > 0 THEN LongestMiddle(ms, CsvMiddle, x)
                       ELSE CsvMiddle[x]
<1>1. CsvMiddle \in [Records -> Names]
  BY CsvType
<1>2. \A x \in ToSet(ms) : /\ x \in Records /\ Length[mid[x]] \in Nat
                           /\ Length[CsvMiddle[x]] \in Nat /\ Length[new[x]] \in Nat
  BY <1>1, MemberRecords, RoundsAssumption
<1>3. ASSUME NEW x \in ToSet(ms)
      PROVE  new[x] = IF Length[CsvMiddle[x]] > 0 THEN LongestMiddle(ms, CsvMiddle, x)
                      ELSE CsvMiddle[x]
  BY <1>2 DEF SameNames
<1>4. ASSUME NEW x \in ToSet(ms), Length[CsvMiddle[x]] # 0
      PROVE  Length[new[x]] > 0 /\ LongestMiddle(ms, new, x) = LongestMiddle(ms, CsvMiddle, x)
  <2>1. ASSUME NEW y \in ToSet(ms), Lastname[y] = Lastname[x], Length[CsvMiddle[y]] # 0
        PROVE  new[y] = LongestMiddle(ms, CsvMiddle, x) /\ Length[new[y]] > 0
    <3>1. new[y] = LongestMiddle(ms, CsvMiddle, y)
      BY <1>2, <1>3, <2>1
    <3>2. LongestMiddle(ms, CsvMiddle, y) = LongestMiddle(ms, CsvMiddle, x)
      BY <2>1, SameLastname
    <3>3. Candidates(ms, CsvMiddle, y) # {}
      <4>1. PICK i \in DOMAIN ms : ms[i] = y
        BY DEF ToSet
      <4>2. i \in Candidates(ms, CsvMiddle, y)
        BY <1>2, <2>1, <4>1 DEF Candidates
      <4> QED  BY <4>2
    <3>4. Length[LongestMiddle(ms, CsvMiddle, y)] > 0
      BY <1>1, <3>3, LongestMember
    <3> QED  BY <3>1, <3>2, <3>4
  <2>2. Length[new[x]] > 0
    BY <1>4, <2>1
  <2>3. Candidates(ms, new, x) # {}
    <3>1. PICK i \in DOMAIN ms : ms[i] = x
      BY DEF ToSet
    <3>2. i \in Candidates(ms, new, x)
      BY <2>2, <3>1 DEF Candidates
    <3> QED  BY <3>2
  <2>4. PICK i \in Candidates(ms, new, x) : LongestMiddle(ms, new, x) = new[ms[i]]
    BY <2>3, LongestMember
  <2>5. ms[i] \in ToSet(ms) /\ Lastname[ms[i]] = Lastname[x] /\ Length[new[ms[i]]] > 0
    BY <2>4 DEF Candidates, ToSet
  <2>6. Length[CsvMiddle[ms[i]]] # 0
    <3> SUFFICES ASSUME Length[CsvMiddle[ms[i]]] = 0 PROVE FALSE
      OBVIOUS
    <3>1. new[ms[i]] = CsvMiddle[ms[i]]
      BY <1>2, <1>3, <2>5
    <3> QED  BY <2>5, <3>1
  <2> QED  BY <2>1, <2>2, <2>4, <2>5, <2>6
<1>5. ASSUME NEW x \in ToSet(ms), Length[CsvMiddle[x]] = 0 PROVE new[x] = CsvMiddle[x]
  BY <1>2, <1>3, <1>5
<1> QED  BY <1>3, <1>4, <1>5 DEF SameNames

-----------------------------------------------------------------------------
(* Memory against the CSV file, for a list of clusters.                    *)

LEMMA ClusterOfApart ==
  ASSUME NEW L, IsList(L), Apart(L), NEW i \in DOMAIN L, NEW x \in ToSet(L[i].members)
  PROVE  x \in InLines(L) /\ ClusterOf(L, x) = i
<1>1. x \in InLines(L)
  BY DEF InLines
<1>2. ClusterOf(L, x) \in DOMAIN L /\ x \in ToSet(L[ClusterOf(L, x)].members)
  BY <1>1, ClusterOfIs
<1> QED  BY <1>1, <1>2 DEF Apart

\* What Restartable says depends on the clusters only.
LEMMA RearrangedRestartable ==
  ASSUME NEW K, NEW L, NEW p, Rearranged(K, L, p), NEW mid, NEW co, Restartable(L, mid, co)
  PROVE  Restartable(K, mid, co)
<1>1. /\ \A k \in DOMAIN K : p[k] \in DOMAIN L /\ K[k].members = L[p[k]].members
      /\ \A k, l \in DOMAIN K : k # l => p[k] # p[l]
  BY DEF Rearranged, Bijection, Injection, IsInjective
<1>2. Apart(K)
  BY <1>1 DEF Restartable, Apart
<1>3. InLines(K) = InLines(L)
  <2>1. \A k \in DOMAIN K : ToSet(K[k].members) \subseteq InLines(L)
    BY <1>1 DEF InLines
  <2>2. \A i \in DOMAIN L : ToSet(L[i].members) \subseteq InLines(K)
    <3> TAKE i \in DOMAIN L
    <3>1. PICK k \in DOMAIN K : p[k] = i
      BY DEF Rearranged, Bijection, Surjection
    <3>2. ToSet(L[i].members) = ToSet(K[k].members)
      BY <1>1, <3>1
    <3> QED  BY <3>2 DEF InLines
  <2> QED  BY <2>1, <2>2 DEF InLines
<1> QED  BY <1>1, <1>2, <1>3 DEF Restartable

LEMMA LinesRestartable ==
  ASSUME NEW S, NEW mid, NEW co, Restartable(S, mid, co)
  PROVE  Restartable(Lines(S), mid, co)
<1>1. DOMAIN Lines(S) = DOMAIN S /\ \A i \in DOMAIN S : Lines(S)[i].members = S[i].members
  BY DEF Lines
<1>2. InLines(Lines(S)) = InLines(S)
  BY <1>1 DEF InLines
<1> QED  BY <1>1, <1>2 DEF Restartable, Apart

\* A list of which nothing was changed in memory.
LEMMA CsvRestartable ==
  ASSUME NEW L, IsList(L), Apart(L)
  PROVE  Restartable(L, CsvMiddle, CsvCoauthors)
<1>1. ASSUME NEW i \in DOMAIN L, NEW x \in ToSet(L[i].members), Length[CsvMiddle[x]] # 0
      PROVE  Length[CsvMiddle[x]] > 0
  <2>1. x \in Records
    BY MemberRecords DEF IsList
  <2>2. Length[CsvMiddle[x]] \in Nat
    BY <2>1, RoundsAssumption
  <2> QED  BY <1>1, <2>2
<1> QED  BY <1>1 DEF Restartable, SameNames, SameCoauthors

\* Two clusters become one.
LEMMA MergesRestartable ==
  ASSUME NEW X, X = Line \/ X = Cluster,
         NEW S \in Seq(X), NEW i \in DOMAIN S, NEW j \in DOMAIN S, i # j,
         NEW T \in Merges(S, i, j),
         NEW mid \in [Records -> Names], NEW co, Restartable(S, mid, co)
  PROVE  Restartable(T, mid, co)
<1>1. PICK G \in Seq(X) : IsMerge(S, i, j, G, T)
  BY MergesAre
<1>2. /\ G[i].members = S[i].members \o S[j].members
      /\ ToSet(G[i].members) = ToSet(S[i].members) \cup ToSet(S[j].members)
      /\ \A k \in DOMAIN S : k # i => G[k] = S[k]
  BY <1>1 DEF IsMerge, IsGathered
<1>3. \A k \in DOMAIN S : S[k].members \in Seq(Records)
  BY Lists DEF IsList
<1>4. SameNames(G[i].members, mid) /\ SameCoauthors(G[i].members, co)
  BY <1>2, <1>3, NamesOfBoth, CoauthorsOfBoth DEF Restartable
<1>5. \A k \in DOMAIN S : SameNames(G[k].members, mid) /\ SameCoauthors(G[k].members, co)
  BY <1>2, <1>4 DEF Restartable
<1>6. \A k, l \in DOMAIN S :
        k # j /\ l # j /\ k # l => ToSet(G[k].members) \cap ToSet(G[l].members) = {}
  <2>1. \A k, l \in DOMAIN S : k # l => ToSet(S[k].members) \cap ToSet(S[l].members) = {}
    BY DEF Restartable, Apart
  <2>2. ASSUME NEW k \in DOMAIN S, k # j, k # i
        PROVE  ToSet(G[k].members) \cap ToSet(G[i].members) = {}
    <3>1. /\ ToSet(S[k].members) \cap ToSet(S[i].members) = {}
          /\ ToSet(S[k].members) \cap ToSet(S[j].members) = {}
      BY <2>1, <2>2
    <3>2. G[k] = S[k]
      BY <1>2, <2>2
    <3> QED  BY <1>2, <3>1, <3>2
  <2>3. \A k, l \in DOMAIN S :
          k # i /\ l # i /\ k # l => ToSet(G[k].members) \cap ToSet(G[l].members) = {}
    BY <1>2, <2>1
  <2> QED  BY <2>2, <2>3
<1> DEFINE q == Skip(Len(S), j)
<1>7. \A k, l \in DOMAIN T : k # l => q[k] # q[l]
  <2>1. Len(S) \in Nat /\ j \in 1 .. Len(S)
    OBVIOUS
  <2>2. q \in Bijection(1 .. Len(S) - 1, (1 .. Len(S)) \ {j})
    BY <2>1, SkipIs
  <2> HIDE DEF q
  <2> QED  BY <1>1, <2>2 DEF IsMerge, Bijection, Injection, IsInjective
<1>8. \A k \in DOMAIN T : T[k] = G[q[k]] /\ q[k] \in DOMAIN S /\ q[k] # j
  BY <1>1 DEF IsMerge
<1> HIDE DEF q
<1>9. Apart(T)
  BY <1>6, <1>7, <1>8 DEF Apart
<1>10. InLines(T) = InLines(S)
  BY MergesKeep
<1> QED  BY <1>5, <1>8, <1>9, <1>10 DEF Restartable

\* Clusters that lost members, or that are not all there.
LEMMA ShrunkApart ==
  ASSUME NEW K, NEW L, Apart(L), DOMAIN K \subseteq DOMAIN L,
         \A i \in DOMAIN K : ToSet(K[i].members) \subseteq ToSet(L[i].members)
  PROVE  Apart(K)
BY DEF Apart

\* change_mid_name and the union of the coauthors leave a list of clusters with
\* what a process would have that reads them as its first.
LEMMA ReadRestartable ==
  ASSUME NEW L, IsList(L), NEW mid \in [Records -> Names],
         NEW co \in [Records -> SUBSET Coauthors], Restartable(L, mid, co)
  PROVE  /\ Restartable(L, ChangeMiddle(L, mid), Unite(L, co))
         /\ Restartable(L, mid, Unite(L, co))
         /\ \A x \in Records : ChangeMiddle(L, mid)[x] = ChangeMiddle(L, CsvMiddle)[x]
         /\ \A i \in DOMAIN L : \A x \in ToSet(L[i].members) :
              Unite(L, co)[x] = UNION {CsvCoauthors[y] : y \in ToSet(L[i].members)}
<1>1. PICK new : new = ChangeMiddle(L, mid)
  OBVIOUS
<1>2. PICK co2 : co2 = Unite(L, co)
  OBVIOUS
<1>3. new \in [Records -> Names] /\ Apart(L)
  BY <1>1, ChangeMiddleType DEF Restartable
<1>4. ASSUME NEW i \in DOMAIN L
      PROVE  /\ L[i].members \in Seq(Records)
             /\ \A x \in ToSet(L[i].members) :
                  x \in Records /\ x \in InLines(L) /\ ClusterOf(L, x) = i
  BY <1>3, MemberRecords, ClusterOfApart DEF IsList
<1>5. ASSUME NEW i \in DOMAIN L
      PROVE  /\ SameNames(L[i].members, new)
             /\ \A x \in ToSet(L[i].members) :
                  new[x] = IF Length[CsvMiddle[x]] > 0 THEN LongestMiddle(L[i].members, CsvMiddle, x)
                           ELSE CsvMiddle[x]
  <2>1. L[i].members \in Seq(Records) /\ SameNames(L[i].members, mid)
    BY <1>4 DEF Restartable
  <2>2. \A x \in ToSet(L[i].members) :
          new[x] = IF Length[mid[x]] > 0 THEN LongestMiddle(L[i].members, mid, x) ELSE mid[x]
    BY <1>1, <1>4 DEF ChangeMiddle
  <2> QED  BY <1>3, <2>1, <2>2, ChangedNames
<1>6. ASSUME NEW i \in DOMAIN L, NEW x \in ToSet(L[i].members)
      PROVE  co2[x] = UNION {CsvCoauthors[y] : y \in ToSet(L[i].members)}
  <2>1. co2[x] = UNION {co[y] : y \in ToSet(L[i].members)}
    BY <1>2, <1>4 DEF Unite
  <2> QED  BY <2>1 DEF Restartable, SameCoauthors
<1>7. ASSUME NEW i \in DOMAIN L PROVE SameCoauthors(L[i].members, co2)
  <2>1. PICK ms : ms = ToSet(L[i].members)
    OBVIOUS
  <2>2. PICK all : all = UNION {CsvCoauthors[y] : y \in ms}
    OBVIOUS
  <2>3. \A x \in ms : co2[x] = all
    BY <1>6, <2>1, <2>2
  <2>4. CASE ms = {}
    BY <2>1, <2>4 DEF SameCoauthors
  <2>5. CASE ms # {}
    <3>1. UNION {co2[x] : x \in ms} = all
      BY <2>3, <2>5
    <3> QED  BY <2>1, <2>2, <3>1 DEF SameCoauthors
  <2> QED  BY <2>4, <2>5
<1>8. ASSUME NEW x \in InLines(L) PROVE new[x] = ChangeMiddle(L, CsvMiddle)[x]
  <2>1. PICK i \in DOMAIN L : x \in ToSet(L[i].members)
    BY DEF InLines
  <2>2. x \in Records /\ ClusterOf(L, x) = i
    BY <1>4, <2>1
  <2> QED  BY <1>5, <2>1, <2>2 DEF ChangeMiddle
<1>9. ASSUME NEW x \in Records \ InLines(L)
      PROVE  new[x] = CsvMiddle[x] /\ ChangeMiddle(L, CsvMiddle)[x] = CsvMiddle[x]
  BY <1>1 DEF ChangeMiddle, Restartable
<1>10. \A x \in Records : new[x] = ChangeMiddle(L, CsvMiddle)[x]
  BY <1>8, <1>9
<1> QED  BY <1>1, <1>2, <1>3, <1>5, <1>6, <1>7, <1>9, <1>10 DEF Restartable

\* A file that was cut short has no record twice either.
LEMMA CutApart ==
  ASSUME NEW L \in Seq(Line), Apart(L), NEW cut \in CutShort(L)
  PROVE  Apart(cut.lines)
<1>1. ASSUME NEW n \in 0 .. Len(L) PROVE Apart(SubSeq(L, 1, n))
  <2>1. DOMAIN SubSeq(L, 1, n) \subseteq DOMAIN L
        /\ \A i \in DOMAIN SubSeq(L, 1, n) : SubSeq(L, 1, n)[i] = L[i]
    OBVIOUS
  <2> QED  BY <2>1, ShrunkApart
<1>2. ASSUME NEW n \in DOMAIN L, NEW k \in 0 .. Len(L[n].members) - 1,
             NEW K, K = Append(SubSeq(L, 1, n - 1), [L[n] EXCEPT !.members = SubSeq(@, 1, k)])
      PROVE  Apart(K)
  <2>1. L[n] \in Line /\ n \in 1 .. Len(L)
    OBVIOUS
  <2>2. L[n].members \in Seq(Records)
    BY <2>1 DEF Line
  <2> DEFINE ms == SubSeq(L[n].members, 1, k)
             e == [L[n] EXCEPT !.members = ms]
             a == SubSeq(L, 1, n - 1)
  <2>3. ms \in Seq(Records) /\ ToSet(ms) \subseteq ToSet(L[n].members)
    <3>1. ms \in Seq(Records) /\ \A m \in DOMAIN ms : m \in DOMAIN L[n].members /\ ms[m] = L[n].members[m]
      BY <2>2
    <3> HIDE DEF ms
    <3> QED  BY <3>1 DEF ToSet
  <2>4. e.members = ms
    BY <2>1 DEF Line
  <2>5. a \in Seq(Line) /\ Len(a) = n - 1 /\ \A m \in 1 .. n - 1 : a[m] = L[m]
    BY <2>1
  <2>6. K = Append(a, e)
    BY <1>2
  <2> HIDE DEF a, e, ms
  <2>7. DOMAIN K = 1 .. n /\ K[n] = e /\ \A m \in 1 .. n - 1 : K[m] = L[m]
    BY <2>1, <2>5, <2>6
  <2>8. DOMAIN K \subseteq DOMAIN L
    BY <2>1, <2>7
  <2>9. \A m \in DOMAIN K : ToSet(K[m].members) \subseteq ToSet(L[m].members)
    <3> TAKE m \in DOMAIN K
    <3>1. CASE m = n
      BY <2>3, <2>4, <2>7, <3>1
    <3>2. CASE m # n
      BY <2>1, <2>7, <3>2
    <3> QED  BY <3>1, <3>2
  <2> QED  BY <2>8, <2>9, ShrunkApart
<1>3. ASSUME NEW n \in DOMAIN L, NEW x \in Records PROVE Apart(Misnamed(L, n, x))
  <2> DEFINE a == SubSeq(L, 1, n - 1)
             e == [head |-> x, members |-> <<>>]
             K == Misnamed(L, n, x)
  <2>1. n \in 1 .. Len(L) /\ ToSet(e.members) = {} /\ e \in Line
    BY DEF ToSet, Line
  <2>2. a \in Seq(Line) /\ Len(a) = n - 1 /\ \A m \in 1 .. n - 1 : a[m] = L[m]
    BY <2>1
  <2>3. K = Append(a, e)
    BY DEF Misnamed
  <2> HIDE DEF a, e, K
  <2>4. DOMAIN K = 1 .. n /\ K[n] = e /\ \A m \in 1 .. n - 1 : K[m] = L[m]
    BY <2>1, <2>2, <2>3
  <2>5. DOMAIN K \subseteq DOMAIN L
    BY <2>1, <2>4
  <2>6. \A m \in DOMAIN K : ToSet(K[m].members) \subseteq ToSet(L[m].members)
    <3> TAKE m \in DOMAIN K
    <3>1. CASE m = n
      BY <2>1, <2>4, <3>1
    <3>2. CASE m # n
      BY <2>1, <2>4, <3>2
    <3> QED  BY <3>1, <3>2
  <2>7. Apart(K)
    BY <2>5, <2>6, ShrunkApart
  <2> QED  BY <2>7 DEF K
<1> QED  BY <1>1, <1>2, <1>3, CutCases DEF Broken

\* Coauthors shared by the members of every cluster are those of Unite.
LEMMA SharedCoauthors ==
  ASSUME NEW T, IsList(T), Apart(T), NEW co,
         \A i \in DOMAIN T : \A x \in ToSet(T[i].members) :
           co[x] = UNION {CsvCoauthors[y] : y \in ToSet(T[i].members)}
  PROVE  \A x \in InLines(T) : co[x] = Unite(T, CsvCoauthors)[x]
<1> TAKE x \in InLines(T)
<1>1. PICK i \in DOMAIN T : x \in ToSet(T[i].members)
  BY DEF InLines
<1>2. ClusterOf(T, x) = i
  BY <1>1, ClusterOfApart
<1>3. x \in Records
  BY InLinesRecords
<1> QED  BY <1>1, <1>2, <1>3 DEF Unite

LEMMA ResetRestartable ==
  ASSUME NEW f \in Files, RoundsInv, round \in Rounds, ResetBlocking(f),
         Restartable(files[f].lines, middle, coauthors)
  PROVE  /\ Restartable(files[f].lines, middle', coauthors')
         /\ Restartable(match', middle', coauthors')
         /\ \A x \in Records : middle'[x] = ChangeMiddle(files[f].lines, CsvMiddle)[x]
         /\ InLines(files[f].lines) \subseteq Records
         /\ \A x \in InLines(match') : coauthors'[x] = Unite(match', CsvCoauthors)[x]
<1>1. PICK L : L = files[f].lines
  OBVIOUS
<1>2. IsList(L) /\ middle \in [Records -> Names] /\ coauthors \in [Records -> SUBSET Coauthors]
  BY <1>1, LinesOf DEF RoundsInv, TypeOK
<1>3. /\ match' \in Seq(Cluster) /\ \E p : Rearranged(match', L, p)
      /\ middle' = ChangeMiddle(L, middle)
      /\ coauthors' = Unite(L, coauthors)
  BY <1>1, ResetBlockingIs DEF RoundsInv, TypeOK
<1>4. /\ Restartable(L, middle', coauthors')
      /\ \A x \in Records : middle'[x] = ChangeMiddle(L, CsvMiddle)[x]
      /\ \A i \in DOMAIN L : \A x \in ToSet(L[i].members) :
           coauthors'[x] = UNION {CsvCoauthors[y] : y \in ToSet(L[i].members)}
  BY <1>1, <1>2, <1>3, ReadRestartable
<1>5. PICK p : Rearranged(match', L, p)
  BY <1>3
<1>6. Restartable(match', middle', coauthors')
  BY <1>4, <1>5, RearrangedRestartable
<1>7. \A x \in InLines(match') : coauthors'[x] = Unite(match', CsvCoauthors)[x]
  <2>1. \A k \in DOMAIN match' : p[k] \in DOMAIN L /\ match'[k].members = L[p[k]].members
    BY <1>5 DEF Rearranged, Bijection, Injection
  <2>2. \A i \in DOMAIN match' : \A x \in ToSet(match'[i].members) :
          coauthors'[x] = UNION {CsvCoauthors[y] : y \in ToSet(match'[i].members)}
    BY <1>4, <2>1
  <2>3. IsList(match') /\ Apart(match')
    BY <1>3, <1>6, Lists DEF Restartable
  <2> QED  BY <2>2, <2>3, SharedCoauthors
<1>8. InLines(L) \subseteq Records
  BY <1>2, InLinesRecords
<1> QED  BY <1>1, <1>4, <1>6, <1>7, <1>8

LEMMA ReadUnited ==
  ASSUME NEW L, IsList(L), NEW mid \in [Records -> Names],
         NEW co \in [Records -> SUBSET Coauthors], Restartable(L, mid, co)
  PROVE  /\ Restartable(L, mid, Unite(L, co))
         /\ \A x \in InLines(L) : Unite(L, co)[x] = Unite(L, CsvCoauthors)[x]
<1>1. /\ Restartable(L, mid, Unite(L, co))
      /\ \A i \in DOMAIN L : \A x \in ToSet(L[i].members) :
           Unite(L, co)[x] = UNION {CsvCoauthors[y] : y \in ToSet(L[i].members)}
  BY ReadRestartable
<1>2. Apart(L)
  BY DEF Restartable
<1> QED  BY <1>1, <1>2, SharedCoauthors

-----------------------------------------------------------------------------
(* MemoryInv and NamesOfRestart, action by action.                      *)

Memory == MemoryInv /\ NamesOfRestart

FilesApart == \A f \in Files : Apart(files[f].lines)

LEMMA InitMemory == Init => Memory
<1> SUFFICES ASSUME Init PROVE Memory
  OBVIOUS
<1>1. FilesApart
  BY DEF Init, FilesApart, Absent, Apart
<1>2. pc = "off" /\ middle = CsvMiddle /\ coauthors = CsvCoauthors
  BY DEF Init
<1> QED  BY <1>1, <1>2
         DEF Memory, MemoryInv, FilesApart, NamesOfRestart, InMatch, InPolished, Prints

LEMMA ExitRemembers ==
  ASSUME Exit, pc' \in Ended, FilesApart'
  PROVE  Memory'
<1>1. pc' \notin {"config", "reset", "again", "disambiguate", "polish", "open", "write"}
  BY DEF Ended
<1>2. middle' = CsvMiddle /\ coauthors' = CsvCoauthors
  BY DEF Exit
<1> QED  BY <1>1, <1>2
         DEF Memory, MemoryInv, FilesApart, NamesOfRestart, InMatch, InPolished, Prints

LEMMA StutterMemory == Memory /\ UNCHANGED vars => Memory'
BY DEF Memory, MemoryInv, NamesOfRestart, vars, process, InMatch, InPolished, Prints,
       Consolidates, Source

LEMMA StartMemory == RoundsInv /\ RoundsInv' /\ Memory /\ Start => Memory'
<1> SUFFICES ASSUME RoundsInv, RoundsInv', Memory, Start PROVE Memory'
  OBVIOUS
<1>1. PICK r \in 1 .. NumRounds + 1 : round' = r /\ old' = r - 1
  BY DEF Start
<1>2. /\ pc \in Ended /\ pc' = "config"
      /\ files' = [f \in Files |-> IF f \in {Network, Final} THEN Absent ELSE files[f]]
      /\ UNCHANGED <<network, out, match, totalNum, polished, middle, coauthors>>
  BY DEF Start
<1>3. FilesApart'
  <2>1. Apart(Absent.lines)
    BY DEF Absent, Apart
  <2> QED  BY <1>2, <2>1 DEF Memory, MemoryInv, FilesApart
<1>4. middle' = CsvMiddle /\ coauthors' = CsvCoauthors
  BY <1>2 DEF Memory, MemoryInv
<1>5. Restartable(files'[old'].lines, middle', coauthors')
  <2>1. old' \in Files
    BY <1>1, Places
  <2>2. IsList(files'[old'].lines)
    <3>1. files'[old'] \in File
      BY <2>1 DEF RoundsInv, TypeOK
    <3>2. \A e \in File : e.lines \in Seq(Line)
      BY DEF File
    <3> QED  BY <3>1, <3>2, Lists
  <2>3. Apart(files'[old'].lines)
    BY <1>3, <2>1 DEF FilesApart
  <2> QED  BY <1>4, <2>2, <2>3, CsvRestartable
<1> QED  BY <1>2, <1>3, <1>4, <1>5
         DEF Memory, MemoryInv, FilesApart, NamesOfRestart, InMatch, InPolished, Prints

LEMMA ConfigRoundMemory == Memory /\ ConfigRound => Memory'
<1> SUFFICES ASSUME Memory, ConfigRound PROVE Memory'
  OBVIOUS
<1>1. /\ pc = "config" /\ pc' = IF round = 1 THEN "consolidate" ELSE "reset"
      /\ UNCHANGED <<starts, network, files, round, old, out, match, totalNum, polished, middle,
                     coauthors, intact>>
  BY DEF ConfigRound, process
<1>2. pc' \in {"consolidate", "reset"} /\ (pc' = "consolidate" <=> round = 1)
  BY <1>1
<1>3. (Consolidates /\ ~ Prints) \/ (pc = "config" /\ ~ Consolidates)
  BY <1>1 DEF Prints
<1> QED  BY <1>1, <1>2, <1>3
         DEF Memory, MemoryInv, NamesOfRestart, InMatch, InPolished, Prints, Consolidates, Ended

LEMMA NoMoreRoundsMemory == RoundsInv /\ Memory /\ NoMoreRounds => Memory'
<1> SUFFICES ASSUME RoundsInv, Memory, NoMoreRounds PROVE Memory'
  OBVIOUS
<1>1. /\ pc = "config" /\ round \notin Rounds /\ pc' = "polish" /\ out' = Final
      /\ polished' = files[old].lines /\ coauthors' = Unite(files[old].lines, coauthors)
      /\ UNCHANGED <<starts, network, files, round, old, match, totalNum, middle, intact>>
  BY DEF NoMoreRounds
<1>2. ~ Consolidates /\ Network # Final
  BY <1>1, Places DEF Consolidates
<1>3. Restartable(files[old].lines, middle, coauthors)
  BY <1>1, <1>2 DEF Memory, MemoryInv
<1>4. Restartable(polished', middle', coauthors')
  <2>1. IsList(files[old].lines) /\ middle \in [Records -> Names]
        /\ coauthors \in [Records -> SUBSET Coauthors]
    BY LinesOf DEF RoundsInv, TypeOK
  <2> QED  BY <1>1, <1>3, <2>1, ReadUnited
<1> QED  BY <1>1, <1>2, <1>4
         DEF Memory, MemoryInv, NamesOfRestart, InMatch, InPolished, Prints, Consolidates, Ended

LEMMA ConsolidateMemory == RoundsInv /\ Memory /\ Consolidate => Memory'
<1> SUFFICES ASSUME RoundsInv, Memory, Consolidate PROVE Memory'
  OBVIOUS
<1>1. /\ pc = "consolidate" /\ match' = Consolidated /\ coauthors' = Unite(Consolidated, coauthors)
      /\ pc' = "open" /\ out' = old
      /\ UNCHANGED <<starts, network, files, round, old, polished, middle, intact>>
  BY DEF Consolidate
<1>2. round = 1 /\ old = 0 /\ 0 # Network /\ 0 # Final
  BY <1>1, Places DEF RoundsInv, PlaceInv, Running
<1>3. middle = CsvMiddle /\ coauthors = CsvCoauthors
  BY <1>1, <1>2 DEF Memory, MemoryInv, Consolidates, Prints
<1>4. Restartable(match', middle', coauthors')
  <2>1. Consolidated \in Seq(Cluster) /\ Apart(Consolidated)
    BY ConsolidatedList
  <2>2. IsList(Consolidated)
    BY <2>1, Lists
  <2>3. Restartable(Consolidated, CsvMiddle, CsvCoauthors)
    BY <2>1, <2>2, CsvRestartable
  <2> QED  BY <1>1, <1>3, <2>2, <2>3, CsvType, ReadUnited
<1> QED  BY <1>1, <1>2, <1>4
         DEF Memory, MemoryInv, NamesOfRestart, InMatch, InPolished, Prints, Consolidates, Ended

LEMMA ResetMemory == RoundsInv /\ Memory /\ Reset => Memory'
<1> SUFFICES ASSUME RoundsInv, Memory, Reset PROVE Memory'
  OBVIOUS
<1>1. /\ pc = "reset" /\ ResetBlocking(old)
      /\ \/ network /\ pc' = "polish" /\ polished' = files[old].lines /\ out' = Network
         \/ ~ network /\ pc' = "disambiguate" /\ UNCHANGED <<polished, out>>
      /\ UNCHANGED <<starts, network, files, round, old, intact>>
  BY DEF Reset
<1>2. round \in Rounds /\ old \in Files
  BY <1>1 DEF RoundsInv, PlaceInv, TypeOK
<1>3. Restartable(files[old].lines, middle, coauthors)
  BY <1>1 DEF Memory, MemoryInv, Consolidates, Prints
<1>4. /\ Restartable(files[old].lines, middle', coauthors')
      /\ Restartable(match', middle', coauthors')
      /\ \A x \in InLines(files[old].lines) :
           middle'[x] = ChangeMiddle(files[old].lines, CsvMiddle)[x]
      /\ \A x \in InLines(match') : coauthors'[x] = Unite(match', CsvCoauthors)[x]
  BY <1>1, <1>2, <1>3, ResetRestartable
<1>5. FilesApart'
  BY <1>1 DEF Memory, MemoryInv, FilesApart
<1>6. CASE network /\ pc' = "polish" /\ polished' = files[old].lines /\ out' = Network
  <2>1. MemoryInv'
    BY <1>1, <1>4, <1>5, <1>6
       DEF MemoryInv, FilesApart, InMatch, InPolished, Prints, Consolidates, Ended
  <2> QED  BY <1>6, <2>1 DEF Memory, NamesOfRestart
<1>7. CASE ~ network /\ pc' = "disambiguate" /\ UNCHANGED <<polished, out>>
  <2>1. MemoryInv'
    BY <1>1, <1>4, <1>5, <1>7
       DEF MemoryInv, FilesApart, InMatch, InPolished, Prints, Consolidates, Ended
  <2>2. Source' = old /\ files' = files
    BY <1>1, <1>7 DEF Source
  <2>3. NamesOfRestart'
    BY <1>4, <2>2 DEF NamesOfRestart
  <2> QED  BY <2>1, <2>3 DEF Memory
<1> QED  BY <1>1, <1>6, <1>7

LEMMA ResetAgainMemory == RoundsInv /\ Memory /\ ResetAgain => Memory'
<1> SUFFICES ASSUME RoundsInv, Memory, ResetAgain PROVE Memory'
  OBVIOUS
<1>1. /\ pc = "again" /\ ResetBlocking(Network) /\ pc' = "disambiguate"
      /\ UNCHANGED <<starts, network, files, round, old, out, polished, intact>>
  BY DEF ResetAgain
<1>2. round \in Rounds /\ Network \in Files
  BY <1>1, Places DEF RoundsInv, PlaceInv
<1>3. Restartable(files[Network].lines, middle, coauthors) /\ network
  BY <1>1 DEF Memory, MemoryInv
<1>4. /\ Restartable(match', middle', coauthors')
      /\ \A x \in InLines(files[Network].lines) :
           middle'[x] = ChangeMiddle(files[Network].lines, CsvMiddle)[x]
      /\ \A x \in InLines(match') : coauthors'[x] = Unite(match', CsvCoauthors)[x]
  BY <1>1, <1>2, <1>3, ResetRestartable
<1>5. FilesApart'
  BY <1>1 DEF Memory, MemoryInv, FilesApart
<1>6. MemoryInv'
  BY <1>1, <1>4, <1>5
     DEF MemoryInv, FilesApart, InMatch, InPolished, Prints, Consolidates, Ended
<1>7. Source' = Network /\ files' = files
  BY <1>1, <1>3 DEF Source
<1>8. NamesOfRestart'
  BY <1>4, <1>7 DEF NamesOfRestart
<1> QED  BY <1>6, <1>8 DEF Memory

LEMMA PolishMergeMemory == RoundsInv /\ Memory /\ PolishMerge => Memory'
<1> SUFFICES ASSUME RoundsInv, Memory, PolishMerge PROVE Memory'
  OBVIOUS
<1>1. /\ pc = "polish" /\ pc' = pc /\ coauthors' = Unite(polished', coauthors)
      /\ UNCHANGED <<starts, network, files, round, old, out, match, totalNum, middle, intact>>
  BY DEF PolishMerge
<1>2. PICK i \in DOMAIN polished, j \in DOMAIN polished : i # j /\ polished' \in Merges(polished, i, j)
  BY DEF PolishMerge
<1>3. /\ polished \in Seq(Line) /\ middle \in [Records -> Names]
      /\ coauthors \in [Records -> SUBSET Coauthors]
      /\ Restartable(polished, middle, coauthors)
  BY <1>1 DEF RoundsInv, TypeOK, Memory, MemoryInv, InPolished
<1>4. polished' \in Seq(Line) /\ Restartable(polished', middle, coauthors)
  BY <1>2, <1>3, MergesAre, MergesRestartable
<1>5. Restartable(polished', middle', coauthors')
  BY <1>1, <1>3, <1>4, Lists, ReadUnited
<1> QED  BY <1>1, <1>5
         DEF Memory, MemoryInv, NamesOfRestart, InMatch, InPolished, Prints, Consolidates, Ended

LEMMA MergeInBlockMemory == RoundsInv /\ Memory /\ MergeInBlock => Memory'
<1> SUFFICES ASSUME RoundsInv, Memory, MergeInBlock PROVE Memory'
  OBVIOUS
<1>1. /\ pc = "disambiguate" /\ pc' = pc /\ coauthors' = Unite(match', coauthors)
      /\ UNCHANGED <<starts, network, files, round, old, out, totalNum, polished, middle, intact>>
  BY DEF MergeInBlock
<1>2. PICK i \in DOMAIN match, j \in DOMAIN match : i < j /\ match' \in Merges(match, i, j)
  BY DEF MergeInBlock
<1>3. /\ match \in Seq(Cluster) /\ middle \in [Records -> Names]
      /\ coauthors \in [Records -> SUBSET Coauthors]
      /\ Restartable(match, middle, coauthors)
  BY <1>1 DEF RoundsInv, TypeOK, Memory, MemoryInv, InMatch
<1>4. i # j
  <2>1. i \in Nat /\ j \in Nat
    BY <1>3
  <2> QED  BY <1>2, <2>1
<1>5. match' \in Seq(Cluster) /\ Restartable(match', middle, coauthors)
  BY <1>2, <1>3, <1>4, MergesAre, MergesRestartable
<1>6. /\ Restartable(match', middle', coauthors')
      /\ \A x \in InLines(match') : coauthors'[x] = Unite(match', CsvCoauthors)[x]
  BY <1>1, <1>3, <1>5, Lists, ReadUnited
<1>7. MemoryInv'
  BY <1>1, <1>6
     DEF Memory, MemoryInv, InMatch, InPolished, Prints, Consolidates, Ended
<1>8. NamesOfRestart'
  <2>1. Source' = Source /\ files' = files /\ middle' = middle
    BY <1>1 DEF Source
  <2> QED  BY <1>1, <1>6, <2>1 DEF Memory, NamesOfRestart
<1> QED  BY <1>7, <1>8 DEF Memory

LEMMA PolishEndsMemory == RoundsInv /\ Memory /\ PolishEnds => Memory'
<1> SUFFICES ASSUME RoundsInv, Memory, PolishEnds PROVE Memory'
  OBVIOUS
<1>1. /\ pc = "polish" /\ pc' = "open"
      /\ UNCHANGED <<starts, network, files, round, old, out, match, totalNum, polished, middle,
                     coauthors, intact>>
  BY DEF PolishEnds, process
<1>2. out \in {Network, Final} /\ InPolished
  BY <1>1 DEF RoundsInv, PlaceInv, InPolished
<1> QED  BY <1>1, <1>2
         DEF Memory, MemoryInv, NamesOfRestart, InMatch, InPolished, Prints, Consolidates, Ended

LEMMA EndDisambiguateMemory == RoundsInv /\ Memory /\ EndDisambiguate => Memory'
<1> SUFFICES ASSUME RoundsInv, Memory, EndDisambiguate PROVE Memory'
  OBVIOUS
<1>1. /\ pc = "disambiguate" /\ pc' = "open" /\ out' = round
      /\ UNCHANGED <<starts, network, files, round, old, match, totalNum, polished, middle,
                     coauthors, intact>>
  BY DEF EndDisambiguate
<1>2. round \in Rounds /\ round # Network /\ round # Final /\ InMatch
  BY <1>1, Places DEF RoundsInv, PlaceInv, InMatch
<1> QED  BY <1>1, <1>2
         DEF Memory, MemoryInv, NamesOfRestart, InMatch, InPolished, Prints, Consolidates, Ended

LEMMA OpenFileMemory == RoundsInv /\ Memory /\ OpenFile => Memory'
<1> SUFFICES ASSUME RoundsInv, Memory, OpenFile PROVE Memory'
  OBVIOUS
<1>1. /\ pc = "open" /\ files' = [files EXCEPT ![out] = [Contents(<<>>) EXCEPT !.whole = FALSE]]
      /\ UNCHANGED <<starts, network>>
  BY DEF OpenFile
<1>2. FilesApart'
  <2>1. [Contents(<<>>) EXCEPT !.whole = FALSE].lines = <<>>
    BY DEF Contents
  <2>2. Apart(<<>>)
    BY DEF Apart
  <2>3. \A f \in Files : files'[f].lines = <<>> \/ files'[f] = files[f]
    BY <1>1, <2>1 DEF RoundsInv, TypeOK
  <2> QED  BY <2>2, <2>3 DEF Memory, MemoryInv, FilesApart
<1>3. CASE pc' = "write" /\ UNCHANGED process
  <2>1. UNCHANGED <<round, old, out, match, totalNum, polished, middle, coauthors, intact>>
    BY <1>3 DEF process
  <2> QED  BY <1>1, <1>2, <1>3, <2>1
           DEF Memory, MemoryInv, FilesApart, NamesOfRestart, InMatch, InPolished, Prints,
               Consolidates, Ended
<1>4. CASE pc' = "inconsistent" /\ Exit
  BY <1>2, <1>4, ExitRemembers DEF Ended
<1> QED  BY <1>3, <1>4 DEF OpenFile

\* What is written has no record twice.
LEMMA WrittenApart ==
  ASSUME RoundsInv, Memory, NEW f, Written(f)
  PROVE  /\ FilesApart' /\ files'[f].lines = Printed
         /\ Restartable(Printed, middle, coauthors)
<1>1. /\ pc = "write" /\ out = f /\ f \in Files /\ files'[f].lines = Printed
      /\ \A g \in Files : g # f => files'[g] = files[g]
  BY WrittenIs
<1>2. Restartable(Printed, middle, coauthors)
  <2>1. CASE out \in {Network, Final}
    BY <1>1, <2>1, PrintedIs DEF Memory, MemoryInv
  <2>2. CASE out \notin {Network, Final}
    BY <1>1, <2>2, PrintedIs, LinesRestartable DEF Memory, MemoryInv
  <2> QED  BY <2>1, <2>2
<1>3. FilesApart'
  BY <1>1, <1>2 DEF Memory, MemoryInv, FilesApart, Restartable
<1> QED  BY <1>1, <1>2, <1>3

LEMMA WriteInputMemory == RoundsInv /\ Memory /\ WriteInput => Memory'
<1> SUFFICES ASSUME RoundsInv, Memory, WriteInput PROVE Memory'
  OBVIOUS
<1>1. PICK f \in {0, Network} : Written(f)
  BY DEF WriteInput
<1>2. /\ pc' = IF out = 0 THEN "reset" ELSE "again"
      /\ UNCHANGED <<starts, network, round, old, out, match, totalNum, middle, coauthors, intact>>
  BY DEF WriteInput
<1>3. /\ FilesApart' /\ files'[f].lines = Printed
      /\ Restartable(Printed, middle, coauthors)
      /\ pc = "write" /\ out = f
  BY <1>1, WrittenApart, WrittenIs
<1>4. 0 # Network /\ 0 # Final /\ Network # Final
  BY Places
<1>5. CASE f = 0
  <2>1. ~ InPolished /\ Prints
    BY <1>3, <1>4, <1>5 DEF InPolished, Prints
  <2>2. round = 1
    BY <1>3, <1>5, <2>1, Places DEF RoundsInv, PlaceInv
  <2>3. old = 0 /\ pc' = "reset"
    BY <1>2, <1>3, <1>5, <2>2 DEF RoundsInv, PlaceInv, Running
  <2>4. Restartable(files'[old'].lines, middle', coauthors')
    BY <1>2, <1>3, <1>5, <2>3
  <2> QED  BY <1>2, <1>3, <2>2, <2>3, <2>4
           DEF Memory, MemoryInv, FilesApart, NamesOfRestart, InMatch, InPolished, Prints,
               Consolidates, Ended
<1>6. CASE f = Network
  <2>1. pc' = "again" /\ InPolished
    BY <1>2, <1>3, <1>4, <1>6 DEF InPolished, Prints
  <2>2. network
    BY <1>3, <1>6, <2>1 DEF Memory, MemoryInv
  <2>3. Restartable(files'[Network].lines, middle', coauthors')
    BY <1>2, <1>3, <1>6
  <2> QED  BY <1>2, <1>3, <2>1, <2>2, <2>3
           DEF Memory, MemoryInv, FilesApart, NamesOfRestart, InMatch, InPolished, Prints,
               Consolidates, Ended
<1> QED  BY <1>1, <1>5, <1>6

LEMMA WriteMatchMemory == RoundsInv /\ RoundsInv' /\ Memory /\ WriteMatch => Memory'
<1> SUFFICES ASSUME RoundsInv, RoundsInv', Memory, WriteMatch PROVE Memory'
  OBVIOUS
<1>1. PICK f \in Rounds : Written(f)
  BY DEF WriteMatch
<1>2. /\ old' = out /\ round' = round + 1 /\ pc' = "config"
      /\ UNCHANGED <<starts, network, out, polished, middle, coauthors, intact>>
  BY DEF WriteMatch
<1>3. /\ FilesApart' /\ files'[f].lines = Printed
      /\ Restartable(Printed, middle, coauthors)
      /\ pc = "write" /\ out = f
  BY <1>1, WrittenApart, WrittenIs
<1>4. round' # 1
  <2>1. old' = round' - 1 /\ old' # 0 /\ round' \in Nat
    BY <1>2, <1>3, Places DEF RoundsInv, PlaceInv, TypeOK, Running
  <2> QED  BY <2>1
<1>5. Restartable(files'[old'].lines, middle', coauthors')
  BY <1>2, <1>3
<1> QED  BY <1>2, <1>3, <1>4, <1>5
         DEF Memory, MemoryInv, FilesApart, NamesOfRestart, InMatch, InPolished, Prints,
             Consolidates, Ended

LEMMA WriteFinalMemory == RoundsInv /\ Memory /\ WriteFinal => Memory'
<1> SUFFICES ASSUME RoundsInv, Memory, WriteFinal PROVE Memory'
  OBVIOUS
<1>1. Written(Final) /\ pc' \in Ended /\ Exit
  BY DEF WriteFinal, Ended
<1>2. FilesApart'
  BY <1>1, WrittenApart
<1> QED  BY <1>1, <1>2, ExitRemembers

LEMMA ThrowsMemory ==
  Memory /\ (NoConfigFile \/ ReadThrows \/ PolishThrows \/ NoLargestCluster) => Memory'
<1> SUFFICES ASSUME Memory, NoConfigFile \/ ReadThrows \/ PolishThrows \/ NoLargestCluster
             PROVE  Memory'
  OBVIOUS
<1>1. Exit /\ pc' \in Ended /\ files' = files
  BY DEF NoConfigFile, ReadThrows, PolishThrows, NoLargestCluster, Ended
<1>2. FilesApart'
  BY <1>1 DEF Memory, MemoryInv, FilesApart
<1> QED  BY <1>1, <1>2, ExitRemembers

LEMMA CrashMemory == RoundsInv /\ Memory /\ Crash => Memory'
<1> SUFFICES ASSUME RoundsInv, Memory, Crash PROVE Memory'
  OBVIOUS
<1>1. Exit /\ pc' \in Ended
  BY DEF Crash, Ended
<1>2. FilesApart'
  <2>1. CASE pc = "write"
    <3>1. PICK cut \in CutShort(Printed) : files' = [files EXCEPT ![out] = cut]
      BY <2>1 DEF Crash
    <3>2. Printed \in Seq(Line) /\ Apart(Printed)
      <4>1. CASE out \in {Network, Final}
        BY <2>1, <4>1, PrintedIs DEF Memory, MemoryInv, Restartable
      <4>2. CASE out \notin {Network, Final}
        <5>1. Restartable(match, middle, coauthors) /\ Printed = Lines(match) /\ Printed \in Seq(Line)
          BY <2>1, <4>2, PrintedIs DEF Memory, MemoryInv
        <5> QED  BY <5>1, LinesRestartable DEF Restartable
      <4> QED  BY <4>1, <4>2
    <3>3. Apart(cut.lines)
      BY <3>2, CutApart
    <3>4. \A f \in Files : files'[f] = cut \/ files'[f] = files[f]
      BY <3>1 DEF RoundsInv, TypeOK
    <3> QED  BY <3>3, <3>4 DEF Memory, MemoryInv, FilesApart
  <2>2. CASE pc # "write"
    BY <2>2 DEF Crash, Memory, MemoryInv, FilesApart
  <2> QED  BY <2>1, <2>2
<1> QED  BY <1>1, <1>2, ExitRemembers

\* What the records hold in memory is, wherever the program is, what the clusters
\* it works on and the CSV file say.
THEOREM MemoryInvariant == Spec => [](MemoryInv /\ NamesOfRestart)
<1>1. Init => Memory
  BY InitMemory
<1>2. RoundsInv /\ RoundsInv' /\ Memory /\ [Next]_vars => Memory'
  <2> SUFFICES ASSUME RoundsInv, RoundsInv', Memory, [Next]_vars PROVE Memory'
    OBVIOUS
  <2>1. CASE Start
    BY <2>1, StartMemory
  <2>2. CASE Step
    BY <2>2, ConfigRoundMemory, NoMoreRoundsMemory, ConsolidateMemory,
       OpenFileMemory, WriteInputMemory, WriteMatchMemory, WriteFinalMemory, ResetMemory,
       ThrowsMemory, PolishMergeMemory, PolishEndsMemory, ResetAgainMemory,
       MergeInBlockMemory, EndDisambiguateMemory DEF Step
  <2>3. CASE Crash
    BY <2>3, CrashMemory
  <2>4. CASE Rest \/ UNCHANGED vars
    BY <2>4, StutterMemory DEF Rest
  <2> QED  BY <2>1, <2>2, <2>3, <2>4 DEF Next
<1>3. Memory => MemoryInv /\ NamesOfRestart
  BY DEF Memory
<1> QED  BY <1>1, <1>2, <1>3, RoundsInvariant, PTL DEF Spec

-----------------------------------------------------------------------------
(* The blocks of a round.                                                  *)

\* The clusters of a file are blocked by their delegates: by what the middle names
\* mid give, if those are in memory or the round does not look at middle names.
LEMMA ReadBlocks ==
  ASSUME NEW f \in Files, RoundsInv, round \in Rounds, ResetBlocking(f), Apart(files[f].lines),
         NEW mid, round \in MiddleRounds => \A x \in Records : middle[x] = mid[x],
         NEW i \in DOMAIN match', NEW l \in DOMAIN files[f].lines,
         ToSet(files[f].lines[l].members) \cap ToSet(match'[i].members) # {}
  PROVE  match'[i].block = BlockOf(files[f].lines[l].head, mid)
<1>1. PICK L : L = files[f].lines
  OBVIOUS
<1>2. IsList(L) /\ L[l].head \in Records
  BY <1>1, LinesOf DEF RoundsInv, IsList
<1>3. PICK p : Rearranged(match', L, p)
  BY <1>1, ResetBlockingIs DEF RoundsInv, TypeOK
<1>4. match'[i].block = BlockOf(match'[i].head, middle)
  BY ResetBlockingIs DEF RoundsInv, TypeOK
<1>5. p[i] \in DOMAIN L /\ match'[i].members = L[p[i]].members /\ match'[i].head = L[p[i]].head
  BY <1>3 DEF Rearranged, Bijection, Injection
<1>6. p[i] = l
  BY <1>1, <1>5 DEF Apart
<1>7. match'[i].block = BlockOf(L[l].head, middle)
  BY <1>4, <1>5, <1>6
<1>8. BlockOf(L[l].head, middle) = BlockOf(L[l].head, mid)
  BY <1>2 DEF BlockOf
<1> QED  BY <1>1, <1>7, <1>8

\* A cluster that two of a block were merged into is in that block.
LEMMA MergesBlocks ==
  ASSUME NEW S \in Seq(Cluster), NEW i \in DOMAIN S, NEW j \in DOMAIN S, i # j,
         S[i].block = S[j].block, NEW T \in Merges(S, i, j), NEW k \in DOMAIN T
  PROVE  \A x \in ToSet(T[k].members) :
           \E m \in DOMAIN S : x \in ToSet(S[m].members) /\ T[k].block = S[m].block
<1>1. PICK G : IsMerge(S, i, j, G, T) /\ G[i].block = S[i].block
  BY MergesAre
<1>2. PICK n \in DOMAIN S : T[k] = G[n]
  BY <1>1 DEF IsMerge
<1>3. CASE n = i
  <2>1. ToSet(T[k].members) = ToSet(S[i].members) \cup ToSet(S[j].members)
    BY <1>1, <1>2, <1>3 DEF IsMerge, IsGathered
  <2> QED  BY <1>1, <1>2, <1>3, <2>1
<1>4. CASE n # i
  <2>1. T[k] = S[n]
    BY <1>1, <1>2, <1>4 DEF IsMerge, IsGathered
  <2> QED  BY <2>1
<1> QED  BY <1>3, <1>4

Blocks == BlocksInv /\ BlocksOfRestart

\* Steps that lead to where no clusters of the round are in use, or to clusters
\* that are on their way to another file.
LEMMA NoBlocks ==
  ASSUME pc' \notin {"again", "disambiguate"}, pc' \in {"polish", "open", "write"} => out' # Network
  PROVE  Blocks'
BY DEF Blocks, BlocksInv, BlocksOfRestart, InPolished, Prints

LEMMA NoBlocksSteps ==
  ASSUME RoundsInv,
         \/ Start \/ ConfigRound \/ NoConfigFile \/ NoMoreRounds \/ Consolidate \/ WriteMatch
         \/ WriteFinal \/ ReadThrows \/ PolishThrows \/ EndDisambiguate \/ NoLargestCluster \/ Crash
  PROVE  Blocks'
<1>1. CASE \/ Start \/ ConfigRound \/ NoConfigFile \/ WriteMatch \/ WriteFinal \/ ReadThrows
           \/ PolishThrows \/ NoLargestCluster \/ Crash
  <2>1. pc' \notin {"again", "disambiguate", "polish", "open", "write"}
    BY <1>1 DEF Start, ConfigRound, NoConfigFile, WriteMatch, WriteFinal, ReadThrows,
                PolishThrows, NoLargestCluster, Crash
  <2> QED  BY <2>1, NoBlocks
<1>2. CASE NoMoreRounds
  <2>1. pc' = "polish" /\ out' = Final /\ Final # Network
    BY <1>2, Places DEF NoMoreRounds
  <2> QED  BY <2>1, NoBlocks
<1>3. CASE Consolidate
  <2>1. pc' = "open" /\ out' = old /\ old = 0 /\ Network # 0
    BY <1>3, Places DEF Consolidate, RoundsInv, PlaceInv, Running
  <2> QED  BY <2>1, NoBlocks
<1>4. CASE EndDisambiguate
  <2>1. pc' = "open" /\ out' = round /\ round # Network
    BY <1>4, Places DEF EndDisambiguate, RoundsInv, PlaceInv
  <2> QED  BY <2>1, NoBlocks
<1> QED  BY <1>1, <1>2, <1>3, <1>4

LEMMA ResetBlocks == RoundsInv /\ Memory /\ Reset => Blocks'
<1> SUFFICES ASSUME RoundsInv, Memory, Reset PROVE Blocks'
  OBVIOUS
<1>1. /\ pc = "reset" /\ ResetBlocking(old)
      /\ \/ network /\ pc' = "polish"
         \/ ~ network /\ pc' = "disambiguate"
      /\ UNCHANGED <<starts, network, files, round, old, intact>>
  BY DEF Reset
<1>2. round \in Rounds /\ old \in Files
  BY <1>1 DEF RoundsInv, PlaceInv, TypeOK
<1>3. Restartable(files[old].lines, middle, coauthors)
  BY <1>1 DEF Memory, MemoryInv, Consolidates, Prints
<1>4. CASE network /\ pc' = "polish"
  <2>1. \A x \in Records : middle'[x] = ChangeMiddle(files[old].lines, CsvMiddle)[x]
    BY <1>1, <1>2, <1>3, ResetRestartable
  <2>2. ChangeMiddle(files[old].lines, CsvMiddle)' = ChangeMiddle(files[old].lines, CsvMiddle)
    BY <1>1
  <2> QED  BY <1>4, <2>1, <2>2 DEF Blocks, BlocksInv, BlocksOfRestart
<1>5. CASE ~ network /\ pc' = "disambiguate"
  <2> SUFFICES ASSUME round' \notin MiddleRounds PROVE SameBlocks'
    BY <1>1, <1>5 DEF Blocks, BlocksInv, BlocksOfRestart, InPolished, Prints
  <2>1. Source' = old /\ RestartMiddle' = CsvMiddle
    BY <1>1, <1>5 DEF Source, RestartMiddle
  <2> SUFFICES ASSUME NEW i \in DOMAIN match', NEW l \in DOMAIN files[old].lines,
                      ToSet(files[old].lines[l].members) \cap ToSet(match'[i].members) # {}
               PROVE  match'[i].block = BlockOf(files[old].lines[l].head, CsvMiddle)'
    BY <1>1, <2>1 DEF SameBlocks
  <2>2. match'[i].block = BlockOf(files[old].lines[l].head, CsvMiddle)
    BY <1>1, <1>2, <1>3, ReadBlocks DEF Restartable
  <2> QED  BY <1>1, <2>2 DEF BlockOf
<1> QED  BY <1>1, <1>4, <1>5

LEMMA ResetAgainBlocks == RoundsInv /\ Memory /\ Blocks /\ ResetAgain => Blocks'
<1> SUFFICES ASSUME RoundsInv, Memory, Blocks, ResetAgain PROVE Blocks'
  OBVIOUS
<1>1. /\ pc = "again" /\ ResetBlocking(Network) /\ pc' = "disambiguate"
      /\ UNCHANGED <<starts, network, files, round, old, out, polished, intact>>
  BY DEF ResetAgain
<1>2. round \in Rounds /\ Network \in Files
  BY <1>1, Places DEF RoundsInv, PlaceInv
<1>3. Apart(files[Network].lines) /\ network
  BY <1>1 DEF Memory, MemoryInv, Restartable
<1>4. PICK mid : mid = ChangeMiddle(files[old].lines, CsvMiddle)
  OBVIOUS
<1>5. \A x \in Records : middle[x] = mid[x]
  BY <1>1, <1>4 DEF Blocks, BlocksInv
<1>6. Source' = Network /\ RestartMiddle' = mid
  <2>1. ChangeMiddle(files[old].lines, CsvMiddle)' = ChangeMiddle(files[old].lines, CsvMiddle)
    BY <1>1
  <2> QED  BY <1>1, <1>3, <1>4, <2>1 DEF Source, RestartMiddle
<1>7. SameBlocks'
  <2> SUFFICES ASSUME NEW i \in DOMAIN match', NEW l \in DOMAIN files[Network].lines,
                      ToSet(files[Network].lines[l].members) \cap ToSet(match'[i].members) # {}
               PROVE  match'[i].block = BlockOf(files[Network].lines[l].head, mid)'
    BY <1>1, <1>6 DEF SameBlocks
  <2>1. match'[i].block = BlockOf(files[Network].lines[l].head, mid)
    BY <1>1, <1>2, <1>3, <1>5, ReadBlocks
  <2> QED  BY <1>1, <2>1 DEF BlockOf
<1> QED  BY <1>1, <1>7 DEF Blocks, BlocksInv, BlocksOfRestart, InPolished, Prints

LEMMA MergeInBlockBlocks == RoundsInv /\ Blocks /\ MergeInBlock => Blocks'
<1> SUFFICES ASSUME RoundsInv, Blocks, MergeInBlock PROVE Blocks'
  OBVIOUS
<1>1. /\ pc = "disambiguate" /\ pc' = pc
      /\ UNCHANGED <<starts, network, files, round, old, out, totalNum, polished, middle, intact>>
  BY DEF MergeInBlock
<1>2. PICK i \in DOMAIN match, j \in DOMAIN match :
        i < j /\ match[i].block = match[j].block /\ match' \in Merges(match, i, j)
  BY DEF MergeInBlock
<1>3. match \in Seq(Cluster) /\ i # j
  <2>1. match \in Seq(Cluster)
    BY DEF RoundsInv, TypeOK
  <2>2. i \in Nat /\ j \in Nat
    BY <2>1
  <2> QED  BY <1>2, <2>1, <2>2
<1> SUFFICES ASSUME round \in MiddleRounds => network, SameBlocks PROVE SameBlocks'
  BY <1>1 DEF Blocks, BlocksInv, BlocksOfRestart, InPolished, Prints
<1>4. PICK L, mid : L = files[Source].lines /\ mid = RestartMiddle
  OBVIOUS
<1>5. L = files[Source].lines' /\ mid = RestartMiddle'
  <2>1. Source' = Source
    BY <1>1 DEF Source
  <2>2. ChangeMiddle(files[old].lines, CsvMiddle)' = ChangeMiddle(files[old].lines, CsvMiddle)
    BY <1>1
  <2> QED  BY <1>1, <1>4, <2>1, <2>2 DEF RestartMiddle
<1> SUFFICES ASSUME NEW k \in DOMAIN match', NEW l \in DOMAIN L,
                    ToSet(L[l].members) \cap ToSet(match'[k].members) # {}
             PROVE  match'[k].block = BlockOf(L[l].head, mid)'
  BY <1>5 DEF SameBlocks
<1>6. PICK x : x \in ToSet(L[l].members) /\ x \in ToSet(match'[k].members)
  OBVIOUS
<1>7. PICK m \in DOMAIN match : x \in ToSet(match[m].members) /\ match'[k].block = match[m].block
  BY <1>2, <1>3, <1>6, MergesBlocks
<1>8. match[m].block = BlockOf(L[l].head, mid)
  BY <1>4, <1>6, <1>7 DEF SameBlocks
<1> QED  BY <1>1, <1>7, <1>8 DEF BlockOf

\* The clusters are polished, written and read again.
LEMMA PolishBlocks ==
  RoundsInv /\ Blocks /\ (PolishMerge \/ PolishEnds \/ OpenFile \/ WriteInput) => Blocks'
<1> SUFFICES ASSUME RoundsInv, Blocks, PolishMerge \/ PolishEnds \/ OpenFile \/ WriteInput
             PROVE  Blocks'
  OBVIOUS
<1>0. pc' # "disambiguate"
  <2>1. CASE PolishMerge \/ PolishEnds
    BY <2>1 DEF PolishMerge, PolishEnds
  <2>2. CASE OpenFile
    BY <2>2 DEF OpenFile
  <2>3. CASE WriteInput
    BY <2>3 DEF WriteInput
  <2> QED  BY <2>1, <2>2, <2>3
<1> SUFFICES ASSUME pc' \in {"polish", "open", "write", "again"},
                    pc' \in {"polish", "open", "write"} => out' = Network
             PROVE  Blocks'
  BY <1>0, NoBlocks
<1>1. InPolished /\ out = Network /\ UNCHANGED <<old, middle>>
  <2>1. CASE PolishMerge \/ PolishEnds
    BY <2>1 DEF PolishMerge, PolishEnds, process, InPolished
  <2>2. CASE OpenFile
    BY <2>2 DEF OpenFile, process, InPolished, Prints
  <2>3. CASE WriteInput
    <3>1. pc = "write" /\ out \in {0, Network} /\ (out = 0 => pc' = "reset") /\ UNCHANGED <<old, middle>>
      BY <2>3 DEF WriteInput, Written
    <3> QED  BY <3>1 DEF InPolished, Prints
  <2> QED  BY <2>1, <2>2, <2>3
<1>2. files'[old] = files[old]
  <2>1. CASE PolishMerge \/ PolishEnds
    BY <2>1 DEF PolishMerge, PolishEnds
  <2>2. CASE OpenFile \/ WriteInput
    <3>1. Prints /\ \E c : files' = [files EXCEPT ![out] = c]
      BY <2>2 DEF OpenFile, WriteInput, Written, Prints
    <3>2. ~ Consolidates
      BY <1>1, <3>1, Places DEF Consolidates, Prints
    <3>3. out # old /\ old \in Files
      BY <3>1, <3>2, OutIsNotOld DEF RoundsInv, TypeOK
    <3> QED  BY <3>1, <3>3 DEF RoundsInv, TypeOK
  <2> QED  BY <2>1, <2>2
<1>3. \A x \in Records : middle[x] = ChangeMiddle(files[old].lines, CsvMiddle)[x]
  BY <1>1 DEF Blocks, BlocksInv
<1>4. ChangeMiddle(files[old].lines, CsvMiddle)' = ChangeMiddle(files[old].lines, CsvMiddle)
  BY <1>1, <1>2
<1>5. BlocksInv'
  BY <1>1, <1>3, <1>4 DEF BlocksInv
<1> QED  BY <1>0, <1>5 DEF Blocks, BlocksOfRestart

LEMMA StutterBlocks == Blocks /\ UNCHANGED vars => Blocks'
BY DEF Blocks, BlocksInv, BlocksOfRestart, SameBlocks, BlockOf, Source, RestartMiddle,
       ChangeMiddle, InPolished, Prints, vars, process

\* What the first reading of a round gave the middle names is kept until the polished
\* clusters are read, and merges stay within blocks.
THEOREM BlocksInvariant == Spec => [](BlocksInv /\ BlocksOfRestart)
<1>1. Init => Blocks
  BY DEF Init, Blocks, BlocksInv, BlocksOfRestart, InPolished, Prints
<1>2. RoundsInv /\ Memory /\ Blocks /\ [Next]_vars => Blocks'
  <2> SUFFICES ASSUME RoundsInv, Memory, Blocks, [Next]_vars PROVE Blocks'
    OBVIOUS
  <2>1. CASE Start \/ Crash
    BY <2>1, NoBlocksSteps
  <2>2. CASE Step
    BY <2>2, NoBlocksSteps, ResetBlocks, ResetAgainBlocks, MergeInBlockBlocks, PolishBlocks DEF Step
  <2>3. CASE Rest \/ UNCHANGED vars
    BY <2>3, StutterBlocks DEF Rest
  <2> QED  BY <2>1, <2>2, <2>3 DEF Next
<1>3. Memory <=> MemoryInv /\ NamesOfRestart
  BY DEF Memory
<1>4. Blocks => BlocksInv /\ BlocksOfRestart
  BY DEF Blocks
<1> QED  BY <1>1, <1>2, <1>3, <1>4, RoundsInvariant, MemoryInvariant, PTL DEF Spec

\* The middle names and coauthors a round works with are those a process would have
\* that is started at that round, whichever rounds the running one has come through.
\* With post-processing after each round, and in a round that does not block by middle
\* names, each cluster is in the block that process would put it into.
THEOREM RestartProved == Spec => []RestartAgrees
<1>1. NamesOfRestart /\ BlocksOfRestart => RestartAgrees
  BY DEF RestartAgrees
<1> QED  BY <1>1, MemoryInvariant, BlocksInvariant, PTL

-----------------------------------------------------------------------------
(* A run takes finitely many steps.                                        *)

\* What is left to do, the coarsest first: starts of the program, ending, the
\* rounds, the stages of a round, and the merges of a ClusterSet and of blocks.
StagesLeft ==
  CASE pc = "config"        -> 12
    [] pc = "consolidate"   -> 11
    [] pc = "open"  /\ out = 0 -> 10
    [] pc = "write" /\ out = 0 -> 9
    [] pc = "reset"         -> 8
    [] pc = "polish"        -> 7
    [] pc = "open"  /\ out \in {Network, Final} -> 6
    [] pc = "write" /\ out \in {Network, Final} -> 5
    [] pc = "again"         -> 4
    [] pc = "disambiguate"  -> 3
    [] pc = "open"  /\ out \in Rounds -> 2
    [] OTHER                -> 1

Measure ==
  <<MaxStarts - starts, IF pc \in Running THEN 1 ELSE 0, NumRounds + 1 - round, StagesLeft,
    Len(polished), Len(match)>>

LEMMA MeasureNat == RoundsInv => \A k \in 1 .. 6 : Measure[k] \in Nat
<1> SUFFICES ASSUME RoundsInv PROVE \A k \in 1 .. 6 : Measure[k] \in Nat
  OBVIOUS
<1>1. MaxStarts - starts \in Nat /\ NumRounds + 1 - round \in Nat
  BY RoundsAssumption DEF RoundsInv, TypeOK
<1>2. Len(polished) \in Nat /\ Len(match) \in Nat
  BY DEF RoundsInv, TypeOK
<1>3. StagesLeft \in Nat
  BY DEF StagesLeft
<1> QED
  BY <1>1, <1>2, <1>3 DEF Measure

LEMMA MergesShorten ==
  ASSUME NEW X, X = Line \/ X = Cluster,
         NEW S \in Seq(X), NEW i \in DOMAIN S, NEW j \in DOMAIN S, i # j,
         NEW T \in Merges(S, i, j)
  PROVE  Len(T) \in Nat /\ Len(S) \in Nat /\ Len(T) < Len(S)
<1>1. PICK G \in Seq(X) : IsMerge(S, i, j, G, T)
  BY MergesAre
<1>2. T \in Seq(X)
  BY MergesAre
<1> QED
  BY <1>1, <1>2 DEF IsMerge

LEMMA MeasureStep == RoundsInv /\ (Start \/ Step \/ Crash) => LexLess(Measure', Measure, 6)
<1> SUFFICES ASSUME RoundsInv, Start \/ Step \/ Crash PROVE LexLess(Measure', Measure, 6)
  OBVIOUS
<1>0. /\ starts \in Nat /\ starts <= MaxStarts /\ MaxStarts \in Nat
      /\ round \in 0 .. NumRounds + 1 /\ NumRounds \in Nat /\ NumRounds > 0
      /\ polished \in Seq(Line) /\ match \in Seq(Cluster)
  BY RoundsAssumption DEF RoundsInv, TypeOK
<1>a. Rounds = 1 .. NumRounds /\ Network = NumRounds + 1 /\ Final = NumRounds + 2
  BY Places
<1>1. CASE Start
  <2>1. starts' = starts + 1
    BY <1>1 DEF Start
  <2> QED
    BY <1>0, <2>1, LexSix DEF Measure
\* A process ends.
<1>2. CASE NoConfigFile \/ ReadThrows \/ PolishThrows \/ NoLargestCluster \/ WriteFinal \/ Crash
  <2>1. starts' = starts /\ pc \in Running /\ pc' \notin Running
    BY <1>2 DEF NoConfigFile, ReadThrows, PolishThrows, NoLargestCluster, WriteFinal, Written,
                Crash, Running
  <2> QED
    BY <1>0, <2>1, LexSix DEF Measure
\* The next stage of the round.
<1>3. ASSUME starts' = starts, pc \in Running, pc' \in Running, round' = round,
             StagesLeft' < StagesLeft
      PROVE  LexLess(Measure', Measure, 6)
  BY <1>0, <1>3, LexSix DEF Measure
<1>4. CASE ConfigRound \/ NoMoreRounds \/ Consolidate
  <2>1. starts' = starts /\ round' = round /\ pc \in Running /\ pc' \in Running
    BY <1>4 DEF ConfigRound, NoMoreRounds, Consolidate, process, Running
  <2>2. StagesLeft' < StagesLeft
    BY <1>4 DEF ConfigRound, NoMoreRounds, Consolidate, process, StagesLeft, RoundsInv, PlaceInv, Running
  <2> QED
    BY <1>3, <2>1, <2>2
<1>5. CASE OpenFile
  <2>1. CASE pc' = "inconsistent"
    <3>1. starts' = starts /\ pc \in Running /\ pc' \notin Running
      BY <1>5, <2>1 DEF OpenFile, Running
    <3> QED
      BY <1>0, <3>1, LexSix DEF Measure
  <2>2. CASE pc' # "inconsistent"
    <3>1. starts' = starts /\ round' = round /\ out' = out /\ pc = "open" /\ pc' = "write"
      BY <1>5, <2>2 DEF OpenFile, process
    <3>2. out = 0 \/ out \in {Network, Final} \/ out \in Rounds
      BY <3>1 DEF RoundsInv, PlaceInv, Prints, InPolished, Running
    <3>3. StagesLeft' < StagesLeft
      BY <1>0, <1>a, <3>1, <3>2 DEF StagesLeft, Network, Final, Rounds
    <3> QED
      BY <1>3, <3>1, <3>3 DEF Running
  <2> QED
    BY <2>1, <2>2
<1>6. CASE WriteInput
  <2>1. starts' = starts /\ round' = round /\ out' = out /\ out \in {0, Network}
        /\ pc = "write" /\ pc' = IF out = 0 THEN "reset" ELSE "again"
    BY <1>6 DEF WriteInput, Written
  <2>2. StagesLeft' < StagesLeft
    BY <1>0, <1>a, <2>1 DEF StagesLeft, Network, Final, Rounds
  <2> QED
    BY <1>3, <2>1, <2>2 DEF Running
<1>7. CASE WriteMatch
  <2>1. starts' = starts /\ round' = round + 1 /\ pc = "write" /\ pc' = "config"
    BY <1>7 DEF WriteMatch, Written
  <2>2. NumRounds + 1 - round' < NumRounds + 1 - round
    BY <1>0, <2>1
  <2> QED
    BY <2>1, <2>2, LexSix DEF Measure, Running
<1>8. CASE Reset \/ PolishEnds \/ ResetAgain \/ EndDisambiguate
  <2>1. starts' = starts /\ round' = round /\ pc \in Running /\ pc' \in Running
    BY <1>8 DEF Reset, PolishEnds, ResetAgain, EndDisambiguate, process, Running
  <2>2. CASE PolishEnds
    <3>1. pc = "polish" /\ pc' = "open" /\ out' = out /\ out \in {Network, Final}
      BY <2>2 DEF PolishEnds, process, RoundsInv, PlaceInv, InPolished
    <3>2. StagesLeft' < StagesLeft
      BY <1>0, <1>a, <3>1 DEF StagesLeft, Network, Final
    <3> QED
      BY <1>3, <2>1, <3>2
  <2>3. CASE EndDisambiguate
    <3>1. pc = "disambiguate" /\ pc' = "open" /\ out' = round /\ round \in Rounds
      BY <2>3 DEF EndDisambiguate, RoundsInv, PlaceInv
    <3>2. StagesLeft' < StagesLeft
      BY <1>0, <1>a, <3>1 DEF StagesLeft, Network, Final, Rounds
    <3> QED
      BY <1>3, <2>1, <3>2
  <2>4. ASSUME Reset \/ ResetAgain PROVE StagesLeft' < StagesLeft
    BY <2>4 DEF Reset, ResetAgain, StagesLeft
  <2> QED
    BY <1>3, <1>8, <2>1, <2>2, <2>3, <2>4
<1>9. CASE PolishMerge
  <2>1. PICK i, j \in DOMAIN polished : i # j /\ polished' \in Merges(polished, i, j)
    BY <1>9 DEF PolishMerge
  <2>2. Len(polished') < Len(polished)
    BY <1>0, <2>1, MergesShorten
  <2>3. starts' = starts /\ round' = round /\ pc' = pc /\ StagesLeft' = StagesLeft
    BY <1>9 DEF PolishMerge, StagesLeft
  <2> QED
    BY <2>2, <2>3, LexSix DEF Measure
<1>10. CASE MergeInBlock
  <2>1. PICK i, j \in DOMAIN match : i < j /\ match' \in Merges(match, i, j)
    BY <1>10 DEF MergeInBlock
  <2>2. i # j
    BY <1>0, <2>1
  <2>3. Len(match') < Len(match)
    BY <1>0, <2>1, <2>2, MergesShorten
  <2>4. starts' = starts /\ round' = round /\ pc' = pc /\ StagesLeft' = StagesLeft /\ polished' = polished
    BY <1>10 DEF MergeInBlock, StagesLeft
  <2> QED
    BY <2>3, <2>4, LexSix DEF Measure
<1> QED
  BY <1>1, <1>2, <1>4, <1>5, <1>6, <1>7, <1>8, <1>9, <1>10 DEF Step

\* Whatever the files hold, wherever processes die and whichever clusters are
\* merged, every step leaves less to do, in an order in which nothing decreases
\* for ever (NoDescent): a run cannot go on for ever, nor its rounds repeat.
THEOREM RunDescends ==
  Spec => /\ [](\A k \in 1 .. 6 : Measure[k] \in Nat)
          /\ [][LexLess(Measure', Measure, 6)]_vars
<1>1. RoundsInv /\ [Next]_vars => [LexLess(Measure', Measure, 6)]_vars
  BY MeasureStep DEF Next, Rest
<1> QED
  BY <1>1, MeasureNat, RoundsInvariant, PTL DEF Spec
==============================================================================
