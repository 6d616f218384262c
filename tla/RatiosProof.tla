----------------------------- MODULE RatiosProof -----------------------------
(***************************************************************************)
(* Proofs about Ratios, for all records and rounds, all scores of names    *)
(* and places, and any pairs the training finds.                           *)
(***************************************************************************)
EXTENDS Ratios, DataTheorems, SequenceTheorems

-----------------------------------------------------------------------------
(* Lists.                                                                  *)

LEMMA FunctionSeq == ASSUME NEW S, NEW n \in Nat, NEW f \in [1 .. n -> S]
                     PROVE  f \in Seq(S) /\ Len(f) = n
BY SeqDef

LEMMA IntervalCard == ASSUME NEW n \in Nat PROVE Cardinality(1 .. n) = n /\ IsFiniteSet(1 .. n)
<1>1. 1 \in Int /\ n \in Int
  OBVIOUS
<1>2. IsFiniteSet(1 .. n) /\ Cardinality(1 .. n) = IF 1 > n THEN 0 ELSE n - 1 + 1
  BY <1>1, FS_Interval
<1> QED  BY <1>2

\* What no list repeats, and what lists of lists do not repeat.
Distinct(s) == \A a, b \in DOMAIN s : s[a] = s[b] => a = b
AllDistinct(ss) ==
  \A i, j \in DOMAIN ss : \A a \in DOMAIN ss[i], b \in DOMAIN ss[j] :
    ss[i][a] = ss[j][b] => i = j /\ a = b

IsConcat(r, s, t, V) ==
  /\ r \in Seq(V) /\ Len(r) = Len(s) + Len(t)
  /\ Len(s) \in Nat /\ Len(t) \in Nat
  /\ DOMAIN s = 1 .. Len(s) /\ DOMAIN t = 1 .. Len(t)
  /\ DOMAIN r = 1 .. Len(s) + Len(t)
  /\ \A a \in DOMAIN s : a \in DOMAIN r /\ r[a] = s[a]
  /\ \A b \in DOMAIN t : Len(s) + b \in DOMAIN r /\ r[Len(s) + b] = t[b]
  /\ \A k \in DOMAIN r : \/ k \in DOMAIN s
                         \/ k - Len(s) \in DOMAIN t /\ k = Len(s) + (k - Len(s))
  /\ ToSet(r) = ToSet(s) \cup ToSet(t)

LEMMA ConcatIs ==
  ASSUME NEW V, NEW s \in Seq(V), NEW t \in Seq(V)
  PROVE  IsConcat(s \o t, s, t, V)
<1>1. /\ s \o t \in Seq(V) /\ Len(s \o t) = Len(s) + Len(t)
      /\ \A i \in 1 .. Len(s) + Len(t) :
           (s \o t)[i] = IF i <= Len(s) THEN s[i] ELSE t[i - Len(s)]
  BY ConcatProperties
<1>2. /\ Len(s) \in Nat /\ Len(t) \in Nat
      /\ DOMAIN s = 1 .. Len(s) /\ DOMAIN t = 1 .. Len(t)
      /\ DOMAIN (s \o t) = 1 .. Len(s) + Len(t)
  BY <1>1, LenProperties
<1>3. \A a \in DOMAIN s : a \in DOMAIN (s \o t) /\ (s \o t)[a] = s[a]
  BY <1>1, <1>2
<1>4. ASSUME NEW b \in DOMAIN t
      PROVE  Len(s) + b \in DOMAIN (s \o t) /\ (s \o t)[Len(s) + b] = t[b]
  <2>1. b \in 1 .. Len(t) /\ Len(s) + b \in 1 .. Len(s) + Len(t) /\ ~ (Len(s) + b <= Len(s))
        /\ (Len(s) + b) - Len(s) = b
    BY <1>2
  <2> QED  BY <1>1, <1>2, <2>1
<1>5. ASSUME NEW k \in DOMAIN (s \o t)
      PROVE  \/ k \in DOMAIN s
             \/ k - Len(s) \in DOMAIN t /\ k = Len(s) + (k - Len(s))
  BY <1>2
<1>6. ToSet(s \o t) = ToSet(s) \cup ToSet(t)
  <2>1. Range(s \o t) = Range(s) \cup Range(t)
    BY RangeConcatenation
  <2> QED  BY <2>1 DEF ToSet, Range
<1> QED  BY <1>1, <1>2, <1>3, <1>4, <1>5, <1>6 DEF IsConcat

\* What a flattened list holds, and when it repeats nothing.
LEMMA FlattenIs ==
  ASSUME NEW V, NEW ss \in Seq(Seq(V))
  PROVE  /\ FlattenSeq(ss) \in Seq(V)
         /\ ToSet(FlattenSeq(ss)) = UNION {ToSet(ss[i]) : i \in DOMAIN ss}
         /\ AllDistinct(ss) => Distinct(FlattenSeq(ss))
<1>1. Len(ss) \in Nat /\ DOMAIN ss = 1 .. Len(ss) /\ \A i \in DOMAIN ss : ss[i] \in Seq(V)
  BY LenProperties
<1>2. CASE Len(ss) = 0
  <2>1. FlattenSeq(ss) = ss /\ DOMAIN ss = {}
    BY <1>1, <1>2 DEF FlattenSeq
  <2>2. ss \in [1 .. 0 -> V]
    BY <1>1, <1>2, LenProperties
  <2>3. ss \in Seq(V)
    BY <2>2, FunctionSeq
  <2> QED  BY <2>1, <2>3 DEF ToSet, Distinct
<1>3. CASE Len(ss) # 0
  <2> DEFINE N == Len(ss)
             Is(f) == f = [i \in 1 .. N |-> IF i = 1 THEN ss[i] ELSE f[i - 1] \o ss[i]]
             F == CHOOSE f : Is(f)
             G(k) == {ss[i] : i \in 1 .. k}
             Good(k) == /\ F[k] \in Seq(V)
                        /\ ToSet(F[k]) = UNION {ToSet(ss[i]) : i \in 1 .. k}
                        /\ AllDistinct(ss) => Distinct(F[k])
  <2>1. FlattenSeq(ss) = F[N]
    BY <1>3 DEF FlattenSeq
  <2>2. N - 1 \in Nat /\ N \in Nat /\ 1 \in 1 .. N /\ N \in 1 .. N
    BY <1>1, <1>3
  <2>3. \E f : Is(f)
    <3> DEFINE grow == [e \in (1 .. N - 1) \X Seq(V) |-> e[2] \o ss[e[1] + 1]]
    <3>1. ASSUME NEW e \in (1 .. N - 1) \X Seq(V) PROVE e[2] \o ss[e[1] + 1] \in Seq(V)
      <4>1. e[1] + 1 \in 1 .. N /\ e[2] \in Seq(V)
        BY <2>2
      <4>2. ss[e[1] + 1] \in Seq(V)
        BY <1>1, <4>1
      <4> QED  BY <4>1, <4>2, ConcatProperties
    <3>2. grow \in [(1 .. N - 1) \X Seq(V) -> Seq(V)]
      BY <3>1
    <3>3. ss[1] \in Seq(V)
      BY <1>1, <2>2
    <3>4. \A k \in 1 .. N - 1, g \in Seq(V) : grow[<<k, g>>] = g \o ss[k + 1]
      OBVIOUS
    <3> DEFINE M == N - 1
               W == Seq(V)
    <3> DEFINE b == ss[1]
    <3>9. M \in Nat /\ b \in W /\ grow \in [(1 .. M) \X W -> W]
      BY <2>2, <3>2, <3>3
    <3> HIDE DEF grow, N, M, W, b
    <3>10. \E g \in [0 .. M -> W] : Recurs(g, M, b, grow)
      BY <3>9, RecursionOnNat
    <3>5. PICK g \in [0 .. N - 1 -> Seq(V)] :
            g[0] = ss[1] /\ \A k \in 1 .. N - 1 : g[k] = grow[<<k, g[k - 1]>>]
      BY <3>10 DEF M, W, b, Recurs
    <3> DEFINE f == [i \in 1 .. N |-> g[i - 1]]
    <3>6. ASSUME NEW i \in 1 .. N PROVE f[i] = IF i = 1 THEN ss[i] ELSE f[i - 1] \o ss[i]
      <4>1. CASE i = 1
        BY <3>5, <4>1
      <4>2. CASE i # 1
        <5>1. i - 1 \in 1 .. N - 1 /\ i - 1 \in 1 .. N /\ (i - 1) - 1 \in 0 .. N - 1
              /\ (i - 1) + 1 = i
          BY <2>2, <4>2
        <5>2. f[i] = g[i - 1] /\ f[i - 1] = g[(i - 1) - 1] /\ g[(i - 1) - 1] \in Seq(V)
          BY <3>5, <5>1
        <5>3. g[i - 1] = grow[<<i - 1, g[(i - 1) - 1]>>]
          BY <3>5, <5>1
        <5>4. grow[<<i - 1, g[(i - 1) - 1]>>] = g[(i - 1) - 1] \o ss[(i - 1) + 1]
          BY <3>4, <5>1, <5>2
        <5> HIDE DEF f
        <5> QED  BY <4>2, <5>1, <5>2, <5>3, <5>4
      <4> QED  BY <4>1, <4>2
    <3>7. f = [i \in 1 .. N |-> f[i]]
      OBVIOUS
    <3> HIDE DEF f
    <3>8. Is(f)
      BY <3>6, <3>7
    <3> QED  BY <3>8
  <2>4. Is(F)
    BY <2>3
  <2> HIDE DEF F, N
  <2>5. F[1] = ss[1] /\ \A k \in 1 .. N : k # 1 => F[k] = F[k - 1] \o ss[k]
    BY <2>2, <2>4
  <2>6. Good(1)
    <3>1. 1 .. 1 = {1} /\ ss[1] \in Seq(V) /\ 1 \in DOMAIN ss
      BY <1>1, <2>2 DEF N
    <3>2. UNION {ToSet(ss[i]) : i \in 1 .. 1} = ToSet(ss[1])
      BY <3>1
    <3> QED  BY <2>5, <3>1, <3>2 DEF Distinct, AllDistinct
  <2>7. ASSUME NEW k \in 1 .. N, k # 1, Good(k - 1) PROVE Good(k)
    <3> DEFINE p == F[k - 1]
    <3>1. F[k] = p \o ss[k] /\ p \in Seq(V) /\ ss[k] \in Seq(V) /\ k \in DOMAIN ss
      BY <1>1, <2>5, <2>7 DEF N
    <3>2. ToSet(p) = UNION {ToSet(ss[i]) : i \in 1 .. k - 1}
      BY <2>7
    <3>3. AllDistinct(ss) => Distinct(p)
      BY <2>7
    <3> HIDE DEF p
    <3> DEFINE q == ss[k]
    <3>8. q \in Seq(V)
      BY <3>1
    <3> HIDE DEF q
    <3>9. IsConcat(p \o q, p, q, V)
      BY <3>1, <3>8, ConcatIs
    <3>4. /\ p \o ss[k] \in Seq(V) /\ Len(p) \in Nat
          /\ DOMAIN p = 1 .. Len(p) /\ DOMAIN ss[k] = 1 .. Len(ss[k])
          /\ \A a \in DOMAIN p : (p \o ss[k])[a] = p[a]
          /\ \A b \in DOMAIN ss[k] : (p \o ss[k])[Len(p) + b] = ss[k][b]
          /\ \A m \in DOMAIN (p \o ss[k]) :
               m \in DOMAIN p \/ (m - Len(p) \in DOMAIN ss[k] /\ m = Len(p) + (m - Len(p)))
          /\ ToSet(p \o ss[k]) = ToSet(p) \cup ToSet(ss[k])
      BY <3>9 DEF q, IsConcat
    <3>5. 1 .. k = (1 .. k - 1) \cup {k}
      OBVIOUS
    <3>6. ToSet(F[k]) = UNION {ToSet(ss[i]) : i \in 1 .. k}
      BY <3>1, <3>2, <3>4, <3>5
    <3>7. ASSUME AllDistinct(ss) PROVE Distinct(F[k])
      <4>1. ASSUME NEW a \in DOMAIN p, NEW b \in DOMAIN ss[k] PROVE p[a] # ss[k][b]
        <5>1. p[a] \in ToSet(p)
          BY DEF ToSet
        <5>2. PICK i \in 1 .. k - 1 : p[a] \in ToSet(ss[i])
          BY <3>2, <5>1
        <5>3. i \in DOMAIN ss /\ i # k
          BY <1>1, <2>2 DEF N
        <5>4. PICK c \in DOMAIN ss[i] : p[a] = ss[i][c]
          BY <5>2 DEF ToSet
        <5> QED  BY <3>1, <3>7, <5>3, <5>4 DEF AllDistinct
      <4>2. ASSUME NEW m \in DOMAIN F[k], NEW n \in DOMAIN F[k], F[k][m] = F[k][n] PROVE m = n
        <5>1. /\ m \in DOMAIN p \/ (m - Len(p) \in DOMAIN ss[k] /\ m = Len(p) + (m - Len(p)))
              /\ n \in DOMAIN p \/ (n - Len(p) \in DOMAIN ss[k] /\ n = Len(p) + (n - Len(p)))
          BY <3>1, <3>4
        <5>2. CASE m \in DOMAIN p /\ n \in DOMAIN p
          BY <3>1, <3>3, <3>4, <3>7, <4>2, <5>2 DEF Distinct
        <5>3. CASE m \in DOMAIN p /\ n \notin DOMAIN p
          BY <3>1, <3>4, <4>1, <4>2, <5>1, <5>3
        <5>4. CASE m \notin DOMAIN p /\ n \in DOMAIN p
          BY <3>1, <3>4, <4>1, <4>2, <5>1, <5>4
        <5>5. CASE m \notin DOMAIN p /\ n \notin DOMAIN p
          <6>1. ss[k][m - Len(p)] = ss[k][n - Len(p)]
            BY <3>1, <3>4, <4>2, <5>1, <5>5
          <6>2. m - Len(p) = n - Len(p)
            BY <3>1, <3>7, <5>1, <5>5, <6>1 DEF AllDistinct
          <6> QED  BY <5>1, <5>5, <6>2
        <5> QED  BY <5>2, <5>3, <5>4, <5>5
      <4> QED  BY <4>2 DEF Distinct
    <3> QED  BY <3>1, <3>4, <3>6, <3>7
  <2> HIDE DEF Good
  <2>8. Good(N)
    <3> DEFINE bad == {k \in 1 .. N : ~ Good(k)}
    <3> SUFFICES ASSUME bad # {} PROVE FALSE
      BY <2>2
    <3>1. bad \subseteq Nat
      OBVIOUS
    <3>2. PICK k \in bad : \A m \in bad : k <= m
      BY <3>1, LeastNatural
    <3>3. k \in 1 .. N /\ ~ Good(k) /\ k # 1
      BY <2>6, <3>2
    <3>4. k - 1 \in 1 .. N /\ ~ (k <= k - 1)
      BY <2>2, <3>3
    <3>5. Good(k - 1)
      BY <3>2, <3>4
    <3> QED  BY <2>7, <3>3, <3>5
  <2> QED  BY <1>1, <2>1, <2>8 DEF Good, N
<1> QED  BY <1>2, <1>3, <1>1

LEMMA ListedSeq ==
  ASSUME NEW P \in SUBSET Nat, IsFiniteSet(P)
  PROVE  /\ Listed(P) \in Seq(P) /\ Len(Listed(P)) = Cardinality(P)
         /\ DOMAIN Listed(P) = 1 .. Cardinality(P)
         /\ ToSet(Listed(P)) = P /\ Distinct(Listed(P))
         /\ \A m, n \in DOMAIN Listed(P) : m < n => Listed(P)[m] < Listed(P)[n]
<1>1. /\ Listed(P) \in Bijection(1 .. Cardinality(P), P)
      /\ Increasing(Listed(P), Cardinality(P))
      /\ DOMAIN Listed(P) = 1 .. Cardinality(P)
      /\ Cardinality(P) \in Nat
  BY ListedIs
<1>2. /\ Listed(P) \in [1 .. Cardinality(P) -> P]
      /\ \A x \in P : \E n \in 1 .. Cardinality(P) : Listed(P)[n] = x
      /\ \A m, n \in 1 .. Cardinality(P) : Listed(P)[m] = Listed(P)[n] => m = n
  BY <1>1 DEF Bijection, Injection, Surjection, IsInjective
<1>3. ToSet(Listed(P)) = P
  BY <1>1, <1>2 DEF ToSet
<1>4. Listed(P) \in Seq(P) /\ Len(Listed(P)) = Cardinality(P)
  BY <1>1, <1>2, FunctionSeq
<1> QED  BY <1>1, <1>2, <1>3, <1>4 DEF Distinct, Increasing

LEMMA SelectedIs ==
  ASSUME NEW V, NEW s \in Seq(V), NEW P \in SUBSET (DOMAIN s)
  PROVE  /\ Selected(s, P) \in Seq(V)
         /\ DOMAIN Selected(s, P) = 1 .. Cardinality(P)
         /\ ToSet(Selected(s, P)) = {s[p] : p \in P}
         /\ \A n \in DOMAIN Selected(s, P) :
              n \in DOMAIN Listed(P) /\ Listed(P)[n] \in P /\ Selected(s, P)[n] = s[Listed(P)[n]]
         /\ Distinct(s) => Distinct(Selected(s, P))
<1>1. DOMAIN s = 1 .. Len(s) /\ Len(s) \in Nat /\ \A i \in DOMAIN s : s[i] \in V
  BY LenProperties
<1>2. IsFiniteSet(1 .. Len(s)) /\ P \in SUBSET (1 .. Len(s))
  BY <1>1, FS_Interval
<1>3. IsFiniteSet(P) /\ P \in SUBSET Nat
  BY <1>2, FS_Subset
<1>4. /\ Listed(P) \in Seq(P)
      /\ DOMAIN Listed(P) = 1 .. Cardinality(P)
      /\ ToSet(Listed(P)) = P /\ Distinct(Listed(P))
  BY <1>3, ListedSeq
<1>5. Cardinality(P) \in Nat
  BY <1>3, FS_CardinalityType
<1>6. \A n \in DOMAIN Listed(P) : Listed(P)[n] \in P
  BY <1>4 DEF ToSet
<1>7. /\ DOMAIN Selected(s, P) = 1 .. Cardinality(P)
      /\ \A n \in DOMAIN Listed(P) : Selected(s, P)[n] = s[Listed(P)[n]]
      /\ Selected(s, P) \in [1 .. Cardinality(P) -> V]
  BY <1>1, <1>4, <1>6 DEF Selected
<1>8. Selected(s, P) \in Seq(V)
  BY <1>5, <1>7, FunctionSeq
<1>9. ToSet(Selected(s, P)) = {s[p] : p \in P}
  BY <1>4, <1>6, <1>7 DEF ToSet
<1>10. Distinct(s) => Distinct(Selected(s, P))
  BY <1>4, <1>6, <1>7 DEF Distinct
<1> QED  BY <1>4, <1>6, <1>7, <1>8, <1>9, <1>10

LEMMA SetToSeqIs ==
  ASSUME NEW S, IsFiniteSet(S)
  PROVE  /\ SetToSeq(S) \in Seq(S) /\ Len(SetToSeq(S)) = Cardinality(S)
         /\ ToSet(SetToSeq(S)) = S /\ Distinct(SetToSeq(S))
<1> DEFINE N == Cardinality(S)
           q == SetToSeq(S)
<1>1. N \in Nat /\ ExistsBijection(1 .. N, S)
  BY FS_CardinalityType
<1>2. PICK f \in [1 .. N -> S] : IsInjective(f)
  BY <1>1 DEF ExistsBijection, Bijection, Injection
<1>3. q \in [1 .. N -> S] /\ IsInjective(q)
  BY <1>2 DEF SetToSeq
<1> HIDE DEF q
<1>4. q \in Injection(1 .. N, S)
  BY <1>3 DEF Injection
<1>5. IsFiniteSet(1 .. N) /\ Cardinality(1 .. N) = N
  BY <1>1, FS_Interval
<1>6. q \in Surjection(1 .. N, S)
  BY <1>4, <1>5, FS_Injection
<1>7. ToSet(q) = S
  BY <1>3, <1>6 DEF ToSet, Surjection
<1>8. q \in Seq(S) /\ Len(q) = N
  BY <1>1, <1>3, FunctionSeq
<1> QED  BY <1>3, <1>7, <1>8 DEF q, Distinct, IsInjective

\* A list has as many elements as it has places, when none is repeated.
LEMMA DistinctLen ==
  ASSUME NEW V, NEW s \in Seq(V), Distinct(s), NEW S, IsFiniteSet(S), ToSet(s) \subseteq S
  PROVE  Len(s) <= Cardinality(S)
<1>1. s \in Injection(1 .. Len(s), S) /\ Len(s) \in Nat
  BY LenProperties DEF Injection, IsInjective, Distinct, ToSet
<1>2. Cardinality(1 .. Len(s)) <= Cardinality(S)
  BY <1>1, FS_Injection
<1> QED  BY <1>1, <1>2, FS_Interval

\* The pairs of two loops over a list.
LEMMA PairsOfIs ==
  ASSUME NEW V, NEW s \in Seq(V)
  PROVE  /\ PairsOf(s) \in Seq(V \X V)
         /\ \A p : p \in ToSet(PairsOf(s)) <=>
                     \E a, b \in DOMAIN s : a < b /\ p = <<s[a], s[b]>>
         /\ Distinct(s) => Distinct(PairsOf(s))
<1> DEFINE row(i) == [k \in 1 .. Len(s) - i |-> <<s[i], s[i + k]>>]
           ss == [i \in DOMAIN s |-> row(i)]
<1>1. DOMAIN s = 1 .. Len(s) /\ Len(s) \in Nat /\ \A i \in DOMAIN s : s[i] \in V
  BY LenProperties
<1>2. ASSUME NEW i \in DOMAIN s PROVE row(i) \in Seq(V \X V)
  <2>1. Len(s) - i \in Nat
    BY <1>1
  <2>2. \A k \in 1 .. Len(s) - i : i + k \in DOMAIN s
    BY <1>1
  <2>3. row(i) \in [1 .. Len(s) - i -> V \X V]
    BY <1>1, <2>2
  <2> QED  BY <2>1, <2>3, FunctionSeq
<1>3. ss \in [1 .. Len(s) -> Seq(V \X V)]
  BY <1>1, <1>2
<1>4. ss \in Seq(Seq(V \X V))
  BY <1>1, <1>3, FunctionSeq
<1>5. PairsOf(s) = FlattenSeq(ss)
  BY DEF PairsOf
<1>6. DOMAIN ss = DOMAIN s /\ \A i \in DOMAIN s : ss[i] = row(i)
  OBVIOUS
<1> DEFINE W == V \X V
<1> HIDE DEF ss, W
<1>7. /\ FlattenSeq(ss) \in Seq(W)
      /\ ToSet(FlattenSeq(ss)) = UNION {ToSet(ss[i]) : i \in DOMAIN ss}
      /\ AllDistinct(ss) => Distinct(FlattenSeq(ss))
  BY <1>4, FlattenIs DEF W
<1>8. ASSUME NEW p
      PROVE  p \in ToSet(PairsOf(s)) <=> \E a, b \in DOMAIN s : a < b /\ p = <<s[a], s[b]>>
  <2>1. ASSUME NEW i \in DOMAIN s, p \in ToSet(row(i))
        PROVE  \E a, b \in DOMAIN s : a < b /\ p = <<s[a], s[b]>>
    <3>1. PICK k \in 1 .. Len(s) - i : p = <<s[i], s[i + k]>>
      BY <2>1 DEF ToSet
    <3>2. i + k \in DOMAIN s /\ i < i + k
      BY <1>1
    <3> QED  BY <3>1, <3>2
  <2>2. ASSUME NEW a \in DOMAIN s, NEW b \in DOMAIN s, a < b, p = <<s[a], s[b]>>
        PROVE  p \in ToSet(row(a))
    <3>1. b - a \in 1 .. Len(s) - a /\ a + (b - a) = b
      BY <1>1, <2>2
    <3>2. row(a)[b - a] = p
      BY <2>2, <3>1
    <3> QED  BY <3>1, <3>2 DEF ToSet
  <2> HIDE DEF row
  <2>3. p \in ToSet(PairsOf(s)) <=> \E i \in DOMAIN s : p \in ToSet(row(i))
    BY <1>5, <1>6, <1>7
  <2> QED  BY <2>1, <2>2, <2>3
<1>9. ASSUME Distinct(s) PROVE AllDistinct(ss)
  <2>1. ASSUME NEW i \in DOMAIN s, NEW j \in DOMAIN s, NEW a \in DOMAIN row(i),
               NEW b \in DOMAIN row(j), row(i)[a] = row(j)[b]
        PROVE  i = j /\ a = b
    <3>1. a \in 1 .. Len(s) - i /\ b \in 1 .. Len(s) - j
      OBVIOUS
    <3>2. s[i] = s[j] /\ s[i + a] = s[j + b]
      BY <2>1, <3>1
    <3>3. i + a \in DOMAIN s /\ j + b \in DOMAIN s
      BY <1>1, <3>1
    <3>4. i = j /\ i + a = j + b
      BY <1>9, <3>2, <3>3 DEF Distinct
    <3> QED  BY <1>1, <3>1, <3>4
  <2> HIDE DEF row
  <2> QED  BY <1>6, <2>1 DEF AllDistinct
<1> QED  BY <1>5, <1>7, <1>8, <1>9 DEF W

-----------------------------------------------------------------------------
(* The training by name.                                                   *)

Numbered == DOMAIN records = 1 .. Len(records) /\ Len(records) \in Nat

LEMMA ImageFinite ==
  ASSUME NEW S, IsFiniteSet(S), NEW f
  PROVE  IsFiniteSet({f[x] : x \in S}) /\ Cardinality({f[x] : x \in S}) <= Cardinality(S)
<1> DEFINE T == {f[x] : x \in S}
           g == [x \in S |-> f[x]]
<1>1. g \in Surjection(S, T)
  BY DEF Surjection
<1> HIDE DEF g, T
<1>2. IsFiniteSet(T) /\ Cardinality(T) <= Cardinality(S)
  BY <1>1, FS_Surjection
<1> QED  BY <1>2 DEF T

LEMMA LeastIs ==
  ASSUME NEW S \in SUBSET Nat, S # {}
  PROVE  Min(S) \in S /\ \A y \in S : Min(S) <= y
<1>1. \E x \in S : \A y \in S : x <= y
  BY LeastNatural
<1> QED  BY <1>1 DEF Min

\* The records of a list of find_rare_names_v2 are the first ones of their full names,
\* and each is there once.
FirstOnes(s) ==
  /\ s \in Seq(DOMAIN records) /\ Distinct(s)
  /\ \A k \in DOMAIN s, i \in DOMAIN records : FullName(i) = FullName(s[k]) => s[k] <= i

LEMMA FirstOfIs ==
  ASSUME Numbered, NEW j \in DOMAIN records, NEW name, name = FullName(j)
  PROVE  /\ FirstOf(name) \in DOMAIN records /\ FullName(FirstOf(name)) = name
         /\ \A i \in DOMAIN records : FullName(i) = name => FirstOf(name) <= i
<1> DEFINE S == {i \in DOMAIN records : FullName(i) = name}
<1>1. S \in SUBSET Nat /\ S # {}
  BY DEF Numbered
<1> HIDE DEF S
<1>2. Min(S) \in S /\ \A y \in S : Min(S) <= y
  BY <1>1, LeastIs
<1>3. FirstOf(name) = Min(S)
  BY DEF FirstOf, S
<1> QED  BY <1>2, <1>3 DEF S

LEMMA RareListIs ==
  ASSUME Numbered, NEW col \in 1 .. 2
  PROVE  FirstOnes(RareList(col))
<1> DEFINE S == {FullName(i) : i \in DOMAIN records}
           P == {b \in DOMAIN Blocks : ToSet(Blocks[b][col]) \cap Chosen(col) # {}}
           hits == Selected(Blocks, P)
           list == [b \in DOMAIN hits |-> FirstOf(hits[b])]
<1>1. IsFiniteSet(DOMAIN records)
  BY FS_Interval DEF Numbered
<1>2. IsFiniteSet(S)
  <2> DEFINE f == [i \in DOMAIN records |-> FullName(i)]
  <2>1. S = {f[i] : i \in DOMAIN records}
    OBVIOUS
  <2> HIDE DEF f, S
  <2> QED  BY <1>1, <2>1, ImageFinite
<1> HIDE DEF S
<1>3. Blocks \in Seq(S) /\ Distinct(Blocks)
  BY <1>2, SetToSeqIs DEF Blocks, S
<1>4. P \in SUBSET (DOMAIN Blocks)
  OBVIOUS
<1>5. RareList(col) = list
  BY DEF RareList
<1> HIDE DEF P
<1>6. hits \in Seq(S) /\ Distinct(hits)
  BY <1>3, <1>4, SelectedIs
<1>7. DOMAIN hits = 1 .. Len(hits) /\ Len(hits) \in Nat /\ \A b \in DOMAIN hits : hits[b] \in S
  BY <1>6, LenProperties
<1> HIDE DEF hits
<1>8. ASSUME NEW b \in DOMAIN hits
      PROVE  /\ list[b] \in DOMAIN records /\ FullName(list[b]) = hits[b]
             /\ \A i \in DOMAIN records : FullName(i) = hits[b] => list[b] <= i
  <2>1. PICK j \in DOMAIN records : hits[b] = FullName(j)
    BY <1>7 DEF S
  <2>2. list[b] = FirstOf(hits[b])
    OBVIOUS
  <2> QED  BY <2>1, <2>2, FirstOfIs
<1>9. DOMAIN list = 1 .. Len(hits)
  BY <1>7
<1> HIDE DEF list
<1>10. list \in [1 .. Len(hits) -> DOMAIN records]
  BY <1>5, <1>7, <1>8, <1>9 DEF list
<1>11. list \in Seq(DOMAIN records)
  BY <1>7, <1>10, FunctionSeq
<1>12. Distinct(list)
  BY <1>6, <1>7, <1>8, <1>9 DEF Distinct
<1> QED  BY <1>5, <1>7, <1>8, <1>9, <1>11, <1>12 DEF FirstOnes

\* What the limit leaves of a list.
LEMMA UpToLimitIs ==
  ASSUME NEW V, NEW s \in Seq(V), limit \in Nat
  PROVE  /\ UpToLimit(s) \in Seq(V)
         /\ DOMAIN UpToLimit(s) \subseteq DOMAIN s
         /\ \A k \in DOMAIN UpToLimit(s) : UpToLimit(s)[k] = s[k]
         /\ Len(s) < limit => UpToLimit(s) = s
<1> DEFINE max == Max({limit, 1})
           n == Min({Len(s), max})
<1>1. Len(s) \in Nat /\ DOMAIN s = 1 .. Len(s) /\ \A i \in DOMAIN s : s[i] \in V
  BY LenProperties
<1>2. max \in Nat /\ max >= limit
  <2>1. \E x \in {limit, 1} : \A y \in {limit, 1} : x >= y
    OBVIOUS
  <2>2. max \in {limit, 1} /\ \A y \in {limit, 1} : max >= y
    BY <2>1 DEF Max
  <2> QED  BY <2>2
<1> HIDE DEF max
<1>3. {Len(s), max} \in SUBSET Nat /\ {Len(s), max} # {}
  BY <1>1, <1>2
<1>4. n \in {Len(s), max} /\ n <= Len(s) /\ n <= max /\ n \in Nat
  BY <1>1, <1>2, <1>3, LeastIs
<1>5. UpToLimit(s) = SubSeq(s, 1, n)
  BY DEF UpToLimit, max
<1> HIDE DEF n
<1>11. Len(s) \in Nat
  BY <1>1
<1>10. n \in 0 .. Len(s)
  BY ONLY <1>11, <1>4
<1>6. \A i \in 1 .. n : s[i] \in V /\ i \in DOMAIN s
  BY <1>1, <1>10
<1>7. /\ SubSeq(s, 1, n) \in Seq(V)
      /\ Len(SubSeq(s, 1, n)) = n
      /\ \A i \in 1 .. n : SubSeq(s, 1, n)[i] = s[i]
  BY <1>4, <1>6, SubSeqProperties
<1>8. DOMAIN SubSeq(s, 1, n) = 1 .. n
  BY <1>7, LenProperties
<1>9. ASSUME Len(s) < limit PROVE SubSeq(s, 1, n) = s
  <2>1. n = Len(s)
    <3>1. n = max => Len(s) < n
      BY <1>11, <1>2, <1>9
    <3> QED  BY <1>11, <1>4, <1>10, <3>1
  <2> QED  BY <1>1, <1>7, <2>1, SeqEqual
<1> QED  BY <1>5, <1>6, <1>7, <1>8, <1>9

\* A record's name in one of the columns, the names of a list, the records of a name, and
\* the pairs of records found through a list (create_tset02).
NameIn(col, i) == records[i][NameColumns[col]]
NamesOf(col) == SetToSeq({NameIn(col, rare[col][k]) : k \in DOMAIN rare[col]})
RecordsOf(col, n) == Listed({i \in DOMAIN records : NameIn(col, i) = n})
FoundBy(col) ==
  FlattenSeq([k \in DOMAIN NamesOf(col) |-> PairsOf(RecordsOf(col, NamesOf(col)[k]))])

RareName(i) == \E col \in 1 .. 2 : \E k \in DOMAIN rare[col] :
                 records[rare[col][k]][NameColumns[col]] = records[i][NameColumns[col]]
Wanted == {p \in (DOMAIN records) \X (DOMAIN records) :
             p[1] < p[2] /\ FullName(p[1]) = FullName(p[2]) /\ RareName(p[1])}

LEMMA FoundByIs ==
  ASSUME Numbered, NEW col \in 1 .. 2, rare[col] \in Seq(DOMAIN records)
  PROVE  /\ FoundBy(col) \in Seq((DOMAIN records) \X (DOMAIN records))
         /\ Distinct(FoundBy(col))
         /\ \A p : p \in ToSet(FoundBy(col)) <=>
                     \E i, j \in DOMAIN records :
                       /\ p = <<i, j>> /\ i < j /\ NameIn(col, i) = NameIn(col, j)
                       /\ \E k \in DOMAIN rare[col] : NameIn(col, rare[col][k]) = NameIn(col, i)
<1> DEFINE R == DOMAIN records
           names == NamesOf(col)
           S == {NameIn(col, rare[col][k]) : k \in DOMAIN rare[col]}
           of(n) == {i \in R : NameIn(col, i) = n}
           group(k) == RecordsOf(col, names[k])
           ss == [k \in DOMAIN names |-> PairsOf(group(k))]
<1>1. IsFiniteSet(R) /\ R \in SUBSET Nat
  BY FS_Interval DEF Numbered
<1>2. IsFiniteSet(S)
  <2> DEFINE f == [k \in DOMAIN rare[col] |-> NameIn(col, rare[col][k])]
  <2>1. S = {f[k] : k \in DOMAIN rare[col]}
    OBVIOUS
  <2>2. DOMAIN rare[col] = 1 .. Len(rare[col]) /\ Len(rare[col]) \in Nat
    BY LenProperties
  <2>3. IsFiniteSet(DOMAIN rare[col])
    BY <2>2, FS_Interval
  <2> HIDE DEF f, S
  <2> QED  BY <2>1, <2>3, ImageFinite
<1>3. names = SetToSeq(S)
  BY DEF NamesOf
<1> HIDE DEF S, names
<1>4. names \in Seq(S) /\ ToSet(names) = S /\ Distinct(names)
  BY <1>2, <1>3, SetToSeqIs
<1>5. DOMAIN names = 1 .. Len(names) /\ Len(names) \in Nat
  BY <1>4, LenProperties
<1>6. ASSUME NEW k \in DOMAIN names
      PROVE  /\ group(k) \in Seq(R) /\ Distinct(group(k))
             /\ ToSet(group(k)) = of(names[k])
             /\ \A m, n \in DOMAIN group(k) : m < n => group(k)[m] < group(k)[n]
             /\ DOMAIN group(k) \subseteq Nat
  <2> DEFINE P == of(names[k])
  <2>1. P \in SUBSET R
    OBVIOUS
  <2>2. IsFiniteSet(P) /\ P \in SUBSET Nat
    BY <1>1, <2>1, FS_Subset
  <2>3. group(k) = Listed(P)
    BY DEF RecordsOf
  <2> HIDE DEF P
  <2>4. /\ Listed(P) \in Seq(P) /\ ToSet(Listed(P)) = P /\ Distinct(Listed(P))
        /\ \A m, n \in DOMAIN Listed(P) : m < n => Listed(P)[m] < Listed(P)[n]
        /\ DOMAIN Listed(P) = 1 .. Cardinality(P)
    BY <2>2, ListedSeq
  <2>5. Listed(P) \in Seq(R)
    BY <2>1, <2>4, SeqMonotonic
  <2> HIDE DEF group
  <2> QED  BY <2>3, <2>4, <2>5 DEF P
<1> HIDE DEF group
<1>7. ASSUME NEW k \in DOMAIN names
      PROVE  /\ PairsOf(group(k)) \in Seq(R \X R)
             /\ Distinct(PairsOf(group(k)))
             /\ \A p : p \in ToSet(PairsOf(group(k))) <=>
                         \E a, b \in DOMAIN group(k) : a < b /\ p = <<group(k)[a], group(k)[b]>>
  BY <1>6, PairsOfIs
<1>8. ASSUME NEW k \in DOMAIN names, NEW p
      PROVE  p \in ToSet(PairsOf(group(k))) <=>
               \E i, j \in R : /\ p = <<i, j>> /\ i < j
                               /\ NameIn(col, i) = names[k] /\ NameIn(col, j) = names[k]
  <2> DEFINE g == group(k)
  <2>1. ToSet(g) = of(names[k]) /\ \A m, n \in DOMAIN g : m < n => g[m] < g[n]
    BY <1>6
  <2>2. \A a \in DOMAIN g : g[a] \in R /\ NameIn(col, g[a]) = names[k]
    BY <2>1 DEF ToSet
  <2>3. \A i \in R : NameIn(col, i) = names[k] => \E a \in DOMAIN g : g[a] = i
    BY <2>1 DEF ToSet
  <2>4. DOMAIN g \subseteq Nat
    BY <1>6
  <2>5. p \in ToSet(PairsOf(g)) <=> \E a, b \in DOMAIN g : a < b /\ p = <<g[a], g[b]>>
    BY <1>7
  <2> HIDE DEF g, of
  <2>6. ASSUME NEW i \in R, NEW j \in R, p = <<i, j>>, i < j,
               NameIn(col, i) = names[k], NameIn(col, j) = names[k]
        PROVE  \E a, b \in DOMAIN g : a < b /\ p = <<g[a], g[b]>>
    <3>1. PICK a \in DOMAIN g : g[a] = i
      BY <2>3, <2>6
    <3>2. PICK b \in DOMAIN g : g[b] = j
      BY <2>3, <2>6
    <3>3. a \in Nat /\ b \in Nat /\ i \in Nat /\ j \in Nat
      BY <1>1, <2>4
    <3>4. a # b /\ ~ (b < a)
      BY <2>1, <2>6, <3>1, <3>2, <3>3
    <3>5. a < b
      BY <3>3, <3>4
    <3> QED  BY <2>6, <3>1, <3>2, <3>5
  <2>7. ASSUME NEW a \in DOMAIN g, NEW b \in DOMAIN g, a < b, p = <<g[a], g[b]>>
        PROVE  \E i, j \in R : /\ p = <<i, j>> /\ i < j
                               /\ NameIn(col, i) = names[k] /\ NameIn(col, j) = names[k]
    BY <2>1, <2>2, <2>7
  <2> QED  BY <2>5, <2>6, <2>7 DEF g
<1>9. DOMAIN ss = DOMAIN names /\ \A k \in DOMAIN names : ss[k] = PairsOf(group(k))
  OBVIOUS
<1>10. FoundBy(col) = FlattenSeq(ss)
  BY DEF FoundBy, names, group
<1> DEFINE W == R \X R
<1> HIDE DEF ss, W
<1>11. ss \in [1 .. Len(names) -> Seq(W)]
  <2>1. \A k \in DOMAIN names : ss[k] \in Seq(W)
    BY <1>7, <1>9 DEF W
  <2>2. ss = [k \in DOMAIN names |-> ss[k]]
    BY DEF ss
  <2> QED  BY <1>5, <2>1, <2>2
<1>12. ss \in Seq(Seq(W))
  BY <1>5, <1>11, FunctionSeq
<1>13. /\ FlattenSeq(ss) \in Seq(W)
       /\ ToSet(FlattenSeq(ss)) = UNION {ToSet(ss[k]) : k \in DOMAIN ss}
       /\ AllDistinct(ss) => Distinct(FlattenSeq(ss))
  BY <1>12, FlattenIs
<1>14. AllDistinct(ss)
  <2>1. ASSUME NEW k \in DOMAIN ss, NEW l \in DOMAIN ss,
               NEW a \in DOMAIN ss[k], NEW b \in DOMAIN ss[l], ss[k][a] = ss[l][b]
        PROVE  k = l /\ a = b
    <3> DEFINE p == ss[k][a]
    <3>1. p \in ToSet(ss[k]) /\ p \in ToSet(ss[l])
      BY <2>1 DEF ToSet
    <3> HIDE DEF p
    <3>2. PICK i, j \in R : p = <<i, j>> /\ NameIn(col, i) = names[k]
      BY <1>8, <1>9, <3>1
    <3>3. PICK x, y \in R : p = <<x, y>> /\ NameIn(col, x) = names[l]
      BY <1>8, <1>9, <3>1
    <3>4. names[k] = names[l]
      BY <3>2, <3>3
    <3>5. k = l
      BY <1>4, <1>9, <3>4 DEF Distinct
    <3>6. Distinct(ss[k])
      BY <1>7, <1>9
    <3> QED  BY <2>1, <3>5, <3>6 DEF Distinct
  <2> QED  BY <2>1 DEF AllDistinct
<1>15. ASSUME NEW p
       PROVE  p \in ToSet(FoundBy(col)) <=>
                \E i, j \in DOMAIN records :
                  /\ p = <<i, j>> /\ i < j /\ NameIn(col, i) = NameIn(col, j)
                  /\ \E k \in DOMAIN rare[col] : NameIn(col, rare[col][k]) = NameIn(col, i)
  <2>1. p \in ToSet(FoundBy(col)) <=> \E k \in DOMAIN names : p \in ToSet(PairsOf(group(k)))
    BY <1>9, <1>10, <1>13
  <2>2. \A n : (\E k \in DOMAIN names : names[k] = n)
                 <=> \E m \in DOMAIN rare[col] : NameIn(col, rare[col][m]) = n
    BY <1>4 DEF ToSet, S
  <2>3. ASSUME p \in ToSet(FoundBy(col))
        PROVE  \E i, j \in R : /\ p = <<i, j>> /\ i < j /\ NameIn(col, i) = NameIn(col, j)
                               /\ \E k \in DOMAIN rare[col] : NameIn(col, rare[col][k]) = NameIn(col, i)
    <3>1. PICK k \in DOMAIN names : p \in ToSet(PairsOf(group(k)))
      BY <2>1, <2>3
    <3>2. PICK i, j \in R : /\ p = <<i, j>> /\ i < j
                            /\ NameIn(col, i) = names[k] /\ NameIn(col, j) = names[k]
      BY <1>8, <3>1
    <3>3. \E m \in DOMAIN rare[col] : NameIn(col, rare[col][m]) = NameIn(col, i)
      BY <2>2, <3>2
    <3> QED  BY <3>2, <3>3
  <2>4. ASSUME NEW i \in R, NEW j \in R, p = <<i, j>>, i < j, NameIn(col, i) = NameIn(col, j),
               NEW k \in DOMAIN rare[col], NameIn(col, rare[col][k]) = NameIn(col, i)
        PROVE  p \in ToSet(FoundBy(col))
    <3>1. PICK m \in DOMAIN names : names[m] = NameIn(col, i)
      BY <2>2, <2>4
    <3>2. p \in ToSet(PairsOf(group(m)))
      BY <1>8, <2>4, <3>1
    <3> QED  BY <2>1, <3>2
  <2> QED  BY <2>3, <2>4
<1> QED  BY <1>10, <1>13, <1>14, <1>15 DEF W

LEMMA FoundIs ==
  ASSUME Numbered, \A col \in 1 .. 2 : rare[col] \in Seq(DOMAIN records)
  PROVE  /\ Found \in Seq((DOMAIN records) \X (DOMAIN records))
         /\ ToSet(Found) = Wanted
         /\ IsFiniteSet(Wanted) /\ Cardinality(Wanted) \in Nat
         /\ Len(Found) <= 2 * Cardinality(Wanted)
<1> DEFINE R == DOMAIN records
           s == FoundBy(1)
           t == FoundBy(2)
           pairs == s \o t
           P == {k \in DOMAIN pairs : SameNames(pairs[k][1], pairs[k][2])}
           W == R \X R
<1>1. Found = Selected(pairs, P)
  BY DEF Found, FoundBy, RecordsOf, NamesOf, NameIn
<1>2. IsFiniteSet(Wanted) /\ Cardinality(Wanted) \in Nat
  <2>1. IsFiniteSet(R)
    BY FS_Interval DEF Numbered
  <2>2. IsFiniteSet(W)
    BY <2>1, FS_Product
  <2>3. Wanted \in SUBSET W
    BY DEF Wanted
  <2> HIDE DEF W
  <2>4. IsFiniteSet(Wanted)
    BY <2>2, <2>3, FS_Subset
  <2> QED  BY <2>4, FS_CardinalityType
<1>3. /\ s \in Seq(W) /\ Distinct(s) /\ t \in Seq(W) /\ Distinct(t)
      /\ \A p : p \in ToSet(s) <=>
                  \E i, j \in R : /\ p = <<i, j>> /\ i < j /\ NameIn(1, i) = NameIn(1, j)
                                  /\ \E k \in DOMAIN rare[1] : NameIn(1, rare[1][k]) = NameIn(1, i)
      /\ \A p : p \in ToSet(t) <=>
                  \E i, j \in R : /\ p = <<i, j>> /\ i < j /\ NameIn(2, i) = NameIn(2, j)
                                  /\ \E k \in DOMAIN rare[2] : NameIn(2, rare[2][k]) = NameIn(2, i)
  <2>1. 1 \in 1 .. 2 /\ 2 \in 1 .. 2
    OBVIOUS
  <2> QED  BY <2>1, FoundByIs
<1>4. \A i \in R : FullName(i) = <<NameIn(1, i), NameIn(2, i)>>
  BY DEF FullName, NameIn, NameColumns
<1>5. \A i \in R : RareName(i) <=>
        \/ \E k \in DOMAIN rare[1] : NameIn(1, rare[1][k]) = NameIn(1, i)
        \/ \E k \in DOMAIN rare[2] : NameIn(2, rare[2][k]) = NameIn(2, i)
  <2>1. 1 .. 2 = {1, 2}
    OBVIOUS
  <2> QED  BY <2>1 DEF RareName, NameIn
<1> HIDE DEF s, t, P, W
<1>6. IsConcat(pairs, s, t, W)
  BY <1>3, ConcatIs
<1> HIDE DEF pairs
<1>7. ToSet(pairs) = ToSet(s) \cup ToSet(t) /\ pairs \in Seq(W)
  BY <1>6 DEF IsConcat
<1>8. P \in SUBSET (DOMAIN pairs)
  BY DEF P
<1>9. /\ Selected(pairs, P) \in Seq(W) /\ DOMAIN Selected(pairs, P) = 1 .. Cardinality(P)
      /\ ToSet(Selected(pairs, P)) = {pairs[p] : p \in P}
  BY <1>7, <1>8, SelectedIs
<1>10. ASSUME NEW p
       PROVE  p \in {pairs[k] : k \in P} <=> p \in ToSet(pairs) /\ SameNames(p[1], p[2])
  BY DEF P, ToSet
<1>11. ASSUME NEW p PROVE p \in ToSet(pairs) /\ SameNames(p[1], p[2]) <=> p \in Wanted
  <2>1. ASSUME p \in ToSet(pairs), SameNames(p[1], p[2]) PROVE p \in Wanted
    <3>1. PICK i, j \in R : /\ p = <<i, j>> /\ i < j
                            /\ \/ \E k \in DOMAIN rare[1] : NameIn(1, rare[1][k]) = NameIn(1, i)
                               \/ \E k \in DOMAIN rare[2] : NameIn(2, rare[2][k]) = NameIn(2, i)
      <4>1. CASE p \in ToSet(s)
        BY <1>3, <4>1
      <4>2. CASE p \in ToSet(t)
        BY <1>3, <4>2
      <4> QED  BY <1>7, <2>1, <4>1, <4>2
    <3>2. FullName(i) = FullName(j) /\ RareName(i)
      BY <1>5, <2>1, <3>1 DEF SameNames
    <3> QED  BY <3>1, <3>2 DEF Wanted
  <2>2. ASSUME p \in Wanted PROVE p \in ToSet(pairs) /\ SameNames(p[1], p[2])
    <3>1. PICK i, j \in R : p = <<i, j>> /\ i < j /\ FullName(i) = FullName(j) /\ RareName(i)
      BY <2>2 DEF Wanted
    <3>2. NameIn(1, i) = NameIn(1, j) /\ NameIn(2, i) = NameIn(2, j)
      BY <1>4, <3>1
    <3>3. p \in ToSet(s) \/ p \in ToSet(t)
      BY <1>3, <1>5, <3>1, <3>2
    <3> QED  BY <1>7, <3>1, <3>3 DEF SameNames
  <2> QED  BY <2>1, <2>2
<1>12. ToSet(Found) = Wanted
  BY <1>1, <1>9, <1>10, <1>11
<1>13. Cardinality(P) <= 2 * Cardinality(Wanted) /\ Cardinality(P) \in Nat
  <2> DEFINE A == {k \in P : k \in DOMAIN s}
             B == P \ A
             f == [k \in A |-> s[k]]
             g == [k \in B |-> t[k - Len(s)]]
  <2>1. /\ \A k \in A : k \in DOMAIN s /\ pairs[k] = s[k]
        /\ \A k \in B : k - Len(s) \in DOMAIN t /\ pairs[k] = t[k - Len(s)] /\ k = Len(s) + (k - Len(s))
    BY <1>6, <1>8 DEF IsConcat
  <2>2. \A k \in P : pairs[k] \in Wanted
    BY <1>10, <1>11
  <2>3. f \in Injection(A, Wanted)
    <3>1. f \in [A -> Wanted]
      BY <2>1, <2>2
    <3>2. \A a, b \in A : f[a] = f[b] => a = b
      BY <1>3, <2>1 DEF Distinct
    <3> QED  BY <3>1, <3>2 DEF Injection, IsInjective
  <2>4. g \in Injection(B, Wanted)
    <3>1. g \in [B -> Wanted]
      BY <2>1, <2>2
    <3>2. ASSUME NEW a \in B, NEW b \in B, g[a] = g[b] PROVE a = b
      <4>1. t[a - Len(s)] = t[b - Len(s)]
        BY <3>2
      <4>2. a - Len(s) = b - Len(s)
        BY <1>3, <2>1, <4>1 DEF Distinct
      <4> QED  BY <2>1, <4>2
    <3> QED  BY <3>1, <3>2 DEF Injection, IsInjective
  <2> HIDE DEF f, g
  <2>5. /\ IsFiniteSet(A) /\ Cardinality(A) <= Cardinality(Wanted)
        /\ IsFiniteSet(B) /\ Cardinality(B) <= Cardinality(Wanted)
    BY <1>2, <2>3, <2>4, FS_Injection
  <2>6. A \cap B = {} /\ P = A \cup B
    OBVIOUS
  <2> HIDE DEF A, B
  <2>7. Cardinality(P) = Cardinality(A) + Cardinality(B)
    BY <2>5, <2>6, DisjointUnion
  <2>8. Cardinality(A) \in Nat /\ Cardinality(B) \in Nat
    BY <2>5, FS_CardinalityType
  <2> QED  BY <1>2, <2>5, <2>7, <2>8
<1>14. Len(Found) = Cardinality(P)
  <2>1. Len(Found) \in Nat /\ DOMAIN Found = 1 .. Len(Found)
    BY <1>1, <1>9, LenProperties
  <2>2. Cardinality(1 .. Len(Found)) = Len(Found) /\ Cardinality(1 .. Cardinality(P)) = Cardinality(P)
    BY <1>13, <2>1, IntervalCard
  <2> QED  BY <1>1, <1>9, <2>1, <2>2
<1> QED  BY <1>1, <1>2, <1>9, <1>12, <1>13, <1>14 DEF W

\* Reconfiguring leaves the full names of the records as they are.
LEMMA AsReadIs ==
  ASSUME NEW l \in Lists
  PROVE  /\ DOMAIN l = 1 .. Len(l) /\ Len(l) \in Nat
         /\ DOMAIN AsRead(l) = DOMAIN l /\ DOMAIN Reconfigured(AsRead(l)) = DOMAIN l
         /\ \A i \in DOMAIN l :
              /\ DOMAIN AsRead(l)[i] = DOMAIN l[i] \cup {"Firstword", "Initials"}
              /\ DOMAIN Reconfigured(AsRead(l))[i] = DOMAIN AsRead(l)[i]
              /\ \A c \in (DOMAIN l[i]) \ {"Firstword", "Middlename", "Initials"} :
                   /\ AsRead(l)[i][c] = l[i][c]
                   /\ c # "Coauthor" => Reconfigured(AsRead(l))[i][c] = l[i][c]
<1>1. l \in Seq(ToSet(l))
  BY NameAssumption
<1>2. DOMAIN l = 1 .. Len(l) /\ Len(l) \in Nat
  BY <1>1, LenProperties
<1>3. DOMAIN AsRead(l) = DOMAIN l /\ \A i \in DOMAIN l : AsRead(l)[i] = Split(l[i])
  BY DEF AsRead
<1>4. ASSUME NEW i \in DOMAIN l
      PROVE  /\ DOMAIN Split(l[i]) = DOMAIN l[i] \cup {"Firstword", "Initials"}
             /\ \A c \in (DOMAIN l[i]) \ {"Firstword", "Middlename", "Initials"} :
                  Split(l[i])[c] = l[i][c]
  BY DEF Split
<1>5. DOMAIN Reconfigured(AsRead(l)) = DOMAIN l
  BY <1>3 DEF Reconfigured
<1>6. ASSUME NEW i \in DOMAIN l
      PROVE  /\ DOMAIN Reconfigured(AsRead(l))[i] = DOMAIN AsRead(l)[i]
             /\ \A c \in (DOMAIN l[i]) \ {"Firstword", "Middlename", "Initials", "Coauthor"} :
                  Reconfigured(AsRead(l))[i][c] = AsRead(l)[i][c]
  <2> DEFINE r == AsRead(l)[i]
             co == CoauthorNames(AsRead(l), i)
  <2>1. Reconfigured(AsRead(l))[i] = [AsianNames(r) EXCEPT !["Coauthor"] = co]
    BY <1>3 DEF Reconfigured
  <2>2. DOMAIN l[i] \subseteq DOMAIN r
    BY <1>3, <1>4
  <2> HIDE DEF r, co
  <2>3. /\ DOMAIN AsianNames(r) = DOMAIN r
        /\ \A c \in (DOMAIN r) \ {"Firstword", "Middlename", "Initials"} : AsianNames(r)[c] = r[c]
    BY DEF AsianNames
  <2> DEFINE a == AsianNames(r)
  <2> HIDE DEF a
  <2>4. /\ DOMAIN [a EXCEPT !["Coauthor"] = co] = DOMAIN a
        /\ \A c \in (DOMAIN a) \ {"Coauthor"} : [a EXCEPT !["Coauthor"] = co][c] = a[c]
    OBVIOUS
  <2>5. /\ DOMAIN Reconfigured(AsRead(l))[i] = DOMAIN r
        /\ \A c \in (DOMAIN r) \ {"Firstword", "Middlename", "Initials", "Coauthor"} :
             Reconfigured(AsRead(l))[i][c] = r[c]
    BY <2>1, <2>3, <2>4 DEF a
  <2>6. \A c \in (DOMAIN l[i]) \ {"Firstword", "Middlename", "Initials", "Coauthor"} :
          Reconfigured(AsRead(l))[i][c] = r[c]
    BY ONLY <2>2, <2>5
  <2> QED  BY ONLY <2>5, <2>6 DEF r
<1>7. ASSUME NEW i \in DOMAIN l
      PROVE  /\ DOMAIN AsRead(l)[i] = DOMAIN l[i] \cup {"Firstword", "Initials"}
             /\ DOMAIN Reconfigured(AsRead(l))[i] = DOMAIN AsRead(l)[i]
  <2>1. AsRead(l)[i] = Split(l[i])
    BY ONLY <1>3, <1>7
  <2> QED  BY ONLY <2>1, <1>4, <1>6, <1>7
<1>8. ASSUME NEW i \in DOMAIN l,
             NEW c \in (DOMAIN l[i]) \ {"Firstword", "Middlename", "Initials"}
      PROVE  /\ AsRead(l)[i][c] = l[i][c]
             /\ c # "Coauthor" => Reconfigured(AsRead(l))[i][c] = l[i][c]
  <2>1. AsRead(l)[i][c] = l[i][c]
    BY ONLY <1>3, <1>4, <1>8
  <2>2. ASSUME c # "Coauthor" PROVE Reconfigured(AsRead(l))[i][c] = l[i][c]
    <3>1. c \in (DOMAIN l[i]) \ {"Firstword", "Middlename", "Initials", "Coauthor"}
      BY ONLY <1>8, <2>2
    <3> QED  BY ONLY <1>6, <1>8, <2>1, <3>1
  <2> QED  BY ONLY <2>1, <2>2
<1> QED  BY ONLY <1>2, <1>3, <1>5, <1>7, <1>8

LEMMA NumberedFunction ==
  ASSUME NEW n \in Nat, NEW f, f = [i \in 1 .. n |-> f[i]]
  PROVE  DOMAIN f = 1 .. Len(f) /\ Len(f) = n
<1>1. f \in [1 .. n -> {f[i] : i \in 1 .. n}]
  OBVIOUS
<1>2. f \in Seq({f[i] : i \in 1 .. n}) /\ Len(f) = n
  BY <1>1, FunctionSeq
<1> QED  BY <1>1, <1>2

\* The names of the records are those of the file.
LEMMA RecordsAre ==
  ASSUME RecordsInv
  PROVE  /\ Numbered
         /\ \E l \in Lists : /\ DOMAIN records = DOMAIN l
                             /\ \A i \in DOMAIN l : /\ records[i]["Firstname"] = l[i]["Firstname"]
                                                    /\ records[i]["Lastname"] = l[i]["Lastname"]
<1>1. PICK l \in Lists : records = IF pc = "names" THEN AsRead(l) ELSE Reconfigured(AsRead(l))
  BY DEF RecordsInv
<1>2. /\ DOMAIN l = 1 .. Len(l) /\ Len(l) \in Nat
      /\ DOMAIN AsRead(l) = DOMAIN l /\ DOMAIN Reconfigured(AsRead(l)) = DOMAIN l
      /\ \A i \in DOMAIN l :
           \A c \in (DOMAIN l[i]) \ {"Firstword", "Middlename", "Initials"} :
             /\ AsRead(l)[i][c] = l[i][c]
             /\ c # "Coauthor" => Reconfigured(AsRead(l))[i][c] = l[i][c]
  BY AsReadIs
<1>3. \A i \in DOMAIN l : "Firstname" \in DOMAIN l[i] /\ "Lastname" \in DOMAIN l[i]
  <2>1. ToSet(NameColumns) = {"Firstname", "Lastname"}
    BY DEF ToSet, NameColumns
  <2> QED  BY <2>1, NameAssumption
<1>4. DOMAIN records = DOMAIN l
  BY <1>1, <1>2
<1>5. \A i \in DOMAIN l : /\ records[i]["Firstname"] = l[i]["Firstname"]
                          /\ records[i]["Lastname"] = l[i]["Lastname"]
  BY <1>1, <1>2, <1>3
<1>6. records = [i \in 1 .. Len(l) |-> records[i]]
  BY <1>1, <1>2 DEF AsRead, Reconfigured
<1>7. Numbered
  BY <1>2, <1>6, NumberedFunction DEF Numbered
<1> QED  BY <1>4, <1>5, <1>7

-----------------------------------------------------------------------------
(* The training sets by name. *)

LEMMA MatchPairsIs ==
  MatchPairs <=> (step = "made" => /\ matches \subseteq Wanted
                                   /\ 2 * Cardinality(Wanted) < limit => matches = Wanted)
BY DEF MatchPairs, Wanted, RareName

LEMMA NameInvInit == ASSUME Init PROVE NameInv
<1>1. /\ records \in {[i \in DOMAIN l |-> Split(l[i])] : l \in Lists} /\ limit \in Limits
      /\ step = "rare" /\ nonmatches = <<>> /\ pc = "names"
  BY DEF Init, NameInit
<1>2. limit \in Nat
  BY <1>1, NameAssumption
<1>3. RecordsInv
  BY <1>1 DEF RecordsInv, AsRead
<1>4. nonmatches \in Seq((DOMAIN records) \X (DOMAIN records))
  BY <1>1
<1>5. RareInv /\ NonMatchPairs /\ MatchPairs
  BY <1>1 DEF RareInv, NonMatchPairs, MatchPairs
<1> QED  BY <1>1, <1>2, <1>3, <1>4, <1>5 DEF NameInv

LEMMA RareInvStep ==
  ASSUME NameInv, pc = "names", UNCHANGED pc, FindRareNames
  PROVE  NameInv'
<1>1. /\ step = "rare" /\ step' = "nonmatches"
      /\ rare' = [col \in 1 .. 2 |-> RareList(col)]
      /\ UNCHANGED <<records, limit, nonmatches, matches, pc>>
  BY DEF FindRareNames, input
<1>2. Numbered
  BY RecordsAre DEF NameInv
<1>3. ASSUME NEW col \in 1 .. 2 PROVE FirstOnes(rare'[col])
  BY <1>1, <1>2, RareListIs
<1>4. RareInv'
  <2>1. ASSUME NEW col \in 1 .. 2
        PROVE  /\ rare'[col] \in Seq(DOMAIN records)
               /\ \A j, k \in DOMAIN rare'[col] : rare'[col][j] = rare'[col][k] => j = k
               /\ \A k \in DOMAIN rare'[col], i \in DOMAIN records :
                    FullName(i) = FullName(rare'[col][k]) => rare'[col][k] <= i
    BY <1>3 DEF FirstOnes, Distinct
  <2> QED  BY <1>1, <2>1 DEF RareInv, FullName
<1>5. RecordsInv'
  BY <1>1 DEF NameInv, RecordsInv
<1>6. (NonMatchPairs /\ MatchPairs)'
  BY <1>1 DEF NonMatchPairs, MatchPairs
<1> QED  BY <1>1, <1>4, <1>5, <1>6 DEF NameInv

\* A pair of create_xset03 whose full names agree is one record that is in both lists.
LEMMA NonMatchStep ==
  ASSUME NameInv, pc = "names", UNCHANGED pc, CreateNonMatches
  PROVE  NameInv'
<1> DEFINE R == DOMAIN records
           s == rare[1] \o rare[2]
<1>1. /\ step = "nonmatches" /\ step' = "matches"
      /\ nonmatches' = UpToLimit(PairsOf(s))
      /\ UNCHANGED <<records, limit, rare, matches, pc>>
  BY DEF CreateNonMatches, input
<1>2. \A col \in 1 .. 2 : FirstOnes(rare[col])
  BY <1>1 DEF NameInv, RareInv, FirstOnes, Distinct
<1>3. rare[1] \in Seq(R) /\ rare[2] \in Seq(R)
  BY <1>2 DEF FirstOnes
<1>4. IsConcat(s, rare[1], rare[2], R)
  BY <1>3, ConcatIs
<1>5. s \in Seq(R)
  BY <1>4 DEF IsConcat
<1> HIDE DEF s
<1>6. /\ PairsOf(s) \in Seq(R \X R)
      /\ \A p : p \in ToSet(PairsOf(s)) <=>
                  \E a, b \in DOMAIN s : a < b /\ p = <<s[a], s[b]>>
  BY <1>5, PairsOfIs
<1>7. /\ nonmatches' \in Seq(R \X R)
      /\ \A k \in DOMAIN nonmatches' : nonmatches'[k] \in ToSet(PairsOf(s))
  BY <1>1, <1>6, UpToLimitIs DEF NameInv, ToSet
<1>8. ASSUME NEW a \in DOMAIN s, NEW b \in DOMAIN s, a < b, FullName(s[a]) = FullName(s[b])
      PROVE  s[a] = s[b] /\ s[a] \in ToSet(rare[1]) \cap ToSet(rare[2])
  <2>1. \E col \in 1 .. 2 : \E j \in DOMAIN rare[col] : s[a] = rare[col][j]
    <3>1. CASE a \in DOMAIN rare[1]
      <4>1. s[a] = rare[1][a]
        BY <1>4, <3>1 DEF IsConcat
      <4> QED  BY <3>1, <4>1
    <3>2. CASE a \notin DOMAIN rare[1]
      <4>1. /\ a - Len(rare[1]) \in DOMAIN rare[2]
            /\ s[Len(rare[1]) + (a - Len(rare[1]))] = rare[2][a - Len(rare[1])]
            /\ a = Len(rare[1]) + (a - Len(rare[1]))
        BY <1>4, <3>2 DEF IsConcat
      <4> QED  BY <4>1
    <3> QED  BY <3>1, <3>2
  <2>2. \E col \in 1 .. 2 : \E j \in DOMAIN rare[col] : s[b] = rare[col][j]
    <3>1. CASE b \in DOMAIN rare[1]
      <4>1. s[b] = rare[1][b]
        BY <1>4, <3>1 DEF IsConcat
      <4> QED  BY <3>1, <4>1
    <3>2. CASE b \notin DOMAIN rare[1]
      <4>1. /\ b - Len(rare[1]) \in DOMAIN rare[2]
            /\ s[Len(rare[1]) + (b - Len(rare[1]))] = rare[2][b - Len(rare[1])]
            /\ b = Len(rare[1]) + (b - Len(rare[1]))
        BY <1>4, <3>2 DEF IsConcat
      <4> QED  BY <4>1
    <3> QED  BY <3>1, <3>2
  <2>3. s[a] \in R /\ s[b] \in R /\ s[a] \in Nat /\ s[b] \in Nat
    <3>1. s[a] \in R /\ s[b] \in R
      BY <2>1, <2>2, <1>3
    <3>2. R \subseteq Nat
      BY RecordsAre DEF NameInv, Numbered
    <3> QED  BY <3>1, <3>2
  <2>4. s[a] <= s[b]
    BY <1>2, <1>8, <2>1, <2>3 DEF FirstOnes
  <2>5. s[b] <= s[a]
    BY <1>2, <1>8, <2>2, <2>3 DEF FirstOnes
  <2>6. s[a] = s[b]
    BY <2>3, <2>4, <2>5
  <2>7. a \in DOMAIN rare[1] /\ b \notin DOMAIN rare[1]
    <3>1. a \in Nat /\ b \in Nat
      BY <1>4 DEF IsConcat
    <3>2. ASSUME a \in DOMAIN rare[1], b \in DOMAIN rare[1] PROVE FALSE
      <4>1. rare[1][a] = rare[1][b]
        BY <1>4, <2>6, <3>2 DEF IsConcat
      <4>2. a = b
        BY <1>2, <3>2, <4>1 DEF FirstOnes, Distinct
      <4> QED  BY <1>8, <3>1, <4>2
    <3>3. ASSUME a - Len(rare[1]) \in DOMAIN rare[2], b - Len(rare[1]) \in DOMAIN rare[2],
                 a = Len(rare[1]) + (a - Len(rare[1])), b = Len(rare[1]) + (b - Len(rare[1]))
          PROVE  FALSE
      <4>1. rare[2][a - Len(rare[1])] = rare[2][b - Len(rare[1])]
        BY <1>4, <2>6, <3>3 DEF IsConcat
      <4>2. a - Len(rare[1]) = b - Len(rare[1])
        BY <1>2, <3>3, <4>1 DEF FirstOnes, Distinct
      <4> QED  BY <1>8, <3>1, <3>3, <4>2
    <3>4. b \in DOMAIN rare[1] => a \in DOMAIN rare[1]
      BY <1>4, <1>8, <3>1 DEF IsConcat
    <3> QED  BY <1>4, <3>2, <3>3, <3>4 DEF IsConcat
  <2>8. s[a] \in ToSet(rare[1]) /\ s[b] \in ToSet(rare[2])
    <3>1. s[a] = rare[1][a]
      BY <1>4, <2>7 DEF IsConcat
    <3>2. /\ b - Len(rare[1]) \in DOMAIN rare[2]
          /\ s[Len(rare[1]) + (b - Len(rare[1]))] = rare[2][b - Len(rare[1])]
          /\ b = Len(rare[1]) + (b - Len(rare[1]))
      BY <1>4, <2>7 DEF IsConcat
    <3>3. s[b] = rare[2][b - Len(rare[1])]
      BY <3>2
    <3> QED  BY <2>7, <3>1, <3>2, <3>3 DEF ToSet
  <2> QED  BY <2>6, <2>8
<1>9. ASSUME NEW k \in DOMAIN nonmatches'
      PROVE  \/ FullName(nonmatches'[k][1]) # FullName(nonmatches'[k][2])
             \/ /\ nonmatches'[k][1] = nonmatches'[k][2]
                /\ nonmatches'[k][1] \in ToSet(rare[1]) \cap ToSet(rare[2])
  <2>1. PICK a \in DOMAIN s, b \in DOMAIN s : a < b /\ nonmatches'[k] = <<s[a], s[b]>>
    BY <1>6, <1>7
  <2> QED  BY <1>8, <2>1
<1>10. NonMatchPairs'
  BY <1>1, <1>9 DEF NonMatchPairs, FullName
<1>11. (RecordsInv /\ RareInv)'
  BY <1>1 DEF NameInv, RecordsInv, RareInv, FullName
<1>12. MatchPairs'
  BY <1>1 DEF MatchPairs
<1> QED  BY <1>1, <1>7, <1>10, <1>11, <1>12 DEF NameInv

LEMMA MatchStep ==
  ASSUME NameInv, pc = "names", UNCHANGED pc, CreateMatches
  PROVE  NameInv'
<1>1. /\ step = "matches" /\ step' = "made"
      /\ matches' = ToSet(UpToLimit(Found))
      /\ UNCHANGED <<records, limit, rare, nonmatches, pc>>
  BY DEF CreateMatches, input
<1>2. \A col \in 1 .. 2 : rare[col] \in Seq(DOMAIN records)
  BY <1>1 DEF NameInv, RareInv
<1>3. /\ Found \in Seq((DOMAIN records) \X (DOMAIN records))
      /\ ToSet(Found) = Wanted
      /\ Cardinality(Wanted) \in Nat /\ Len(Found) <= 2 * Cardinality(Wanted)
  BY <1>2, FoundIs, RecordsAre DEF NameInv
<1>4. limit \in Nat /\ Len(Found) \in Nat
  BY <1>3, LenProperties DEF NameInv
<1>5. /\ DOMAIN UpToLimit(Found) \subseteq DOMAIN Found
      /\ \A k \in DOMAIN UpToLimit(Found) : UpToLimit(Found)[k] = Found[k]
      /\ Len(Found) < limit => UpToLimit(Found) = Found
  BY <1>3, <1>4, UpToLimitIs
<1>6. matches' \subseteq Wanted
  BY <1>1, <1>3, <1>5 DEF ToSet
<1>7. 2 * Cardinality(Wanted) < limit => matches' = Wanted
  <2>1. 2 * Cardinality(Wanted) < limit => Len(Found) < limit
    BY <1>3, <1>4
  <2> QED  BY <1>1, <1>3, <1>5, <2>1
<1>8. Wanted' = Wanted
  BY <1>1 DEF Wanted, RareName, FullName
<1>9. MatchPairs'
  BY <1>1, <1>6, <1>7, <1>8, MatchPairsIs DEF MatchPairs, Wanted, RareName
<1>10. (RecordsInv /\ RareInv)'
  BY <1>1 DEF NameInv, RecordsInv, RareInv, FullName
<1>11. NonMatchPairs'
  BY <1>1 DEF NameInv, NonMatchPairs, FullName
<1> QED  BY <1>1, <1>9, <1>10, <1>11 DEF NameInv

\* The names the lists were made from stay with their records.
LEMMA ReconfigureStep ==
  ASSUME NameInv, Reconfigure
  PROVE  NameInv'
<1>1. /\ pc = "names" /\ step = "made" /\ pc' = "config"
      /\ records' = Reconfigured(records)
      /\ UNCHANGED <<limit, step, rare, nonmatches, matches>>
  BY DEF Reconfigure
<1>2. PICK l \in Lists : records = AsRead(l)
  BY <1>1 DEF NameInv, RecordsInv
<1>3. RecordsInv'
  BY <1>1, <1>2 DEF RecordsInv
<1>4. ToSet(NameColumns) = {"Firstname", "Lastname"}
  BY DEF ToSet, NameColumns
<1>5. \A i \in DOMAIN l : "Firstname" \in DOMAIN l[i] /\ "Lastname" \in DOMAIN l[i]
  BY <1>4, NameAssumption
<1>6. /\ DOMAIN AsRead(l) = DOMAIN l /\ DOMAIN Reconfigured(AsRead(l)) = DOMAIN l
      /\ \A i \in DOMAIN l :
           \A c \in (DOMAIN l[i]) \ {"Firstword", "Middlename", "Initials"} :
             /\ AsRead(l)[i][c] = l[i][c]
             /\ c # "Coauthor" => Reconfigured(AsRead(l))[i][c] = l[i][c]
  BY AsReadIs
<1>7. DOMAIN records' = DOMAIN records
  BY <1>1, <1>2, <1>6
<1>8. ASSUME NEW i \in DOMAIN records
      PROVE  /\ records'[i]["Firstname"] = records[i]["Firstname"]
             /\ records'[i]["Lastname"] = records[i]["Lastname"]
  BY <1>1, <1>2, <1>5, <1>6
<1>9. ASSUME NEW i \in DOMAIN records PROVE FullName(i)' = FullName(i)
  BY <1>8 DEF FullName
<1>10. ASSUME NEW i \in DOMAIN records, NEW col \in 1 .. 2
       PROVE  records'[i][NameColumns[col]] = records[i][NameColumns[col]]
  BY <1>8 DEF NameColumns
<1>11. ASSUME NEW col \in 1 .. 2
       PROVE  /\ rare[col] \in Seq(DOMAIN records)
              /\ \A k \in DOMAIN rare[col] : rare[col][k] \in DOMAIN records
  BY <1>1, ElementOfSeq DEF NameInv, RareInv
<1>12. RareInv'
  <2>1. ASSUME NEW col \in 1 .. 2, NEW k \in DOMAIN rare[col], NEW i \in DOMAIN records,
               FullName(i)' = FullName(rare[col][k])'
        PROVE  rare[col][k] <= i
    BY <1>1, <1>9, <1>11, <2>1 DEF NameInv, RareInv
  <2> QED  BY <1>1, <1>7, <1>11, <2>1 DEF NameInv, RareInv
<1>13. ASSUME NEW k \in DOMAIN nonmatches
       PROVE  nonmatches[k][1] \in DOMAIN records /\ nonmatches[k][2] \in DOMAIN records
  BY DEF NameInv
<1>14. NonMatchPairs'
  <2>1. ASSUME NEW k \in DOMAIN nonmatches
        PROVE  \/ FullName(nonmatches[k][1])' # FullName(nonmatches[k][2])'
               \/ /\ nonmatches[k][1] = nonmatches[k][2]
                  /\ nonmatches[k][1] \in ToSet(rare[1]) \cap ToSet(rare[2])
    <3>1. \/ FullName(nonmatches[k][1]) # FullName(nonmatches[k][2])
          \/ /\ nonmatches[k][1] = nonmatches[k][2]
             /\ nonmatches[k][1] \in ToSet(rare[1]) \cap ToSet(rare[2])
      BY <1>1 DEF NameInv, NonMatchPairs
    <3> QED  BY <1>1, <1>8, <1>13, <3>1 DEF FullName
  <2> QED  BY <1>1, <2>1 DEF NonMatchPairs
<1>15. Wanted' = Wanted
  <2>1. ASSUME NEW i \in DOMAIN records PROVE RareName(i)' <=> RareName(i)
    <3>1. ASSUME NEW col \in 1 .. 2, NEW k \in DOMAIN rare[col]
          PROVE  records'[rare[col][k]][NameColumns[col]] = records'[i][NameColumns[col]]
                   <=> records[rare[col][k]][NameColumns[col]] = records[i][NameColumns[col]]
      BY <1>10, <1>11
    <3> QED  BY <1>1, <3>1 DEF RareName
  <2>2. ASSUME NEW p \in (DOMAIN records) \X (DOMAIN records)
        PROVE  (p[1] < p[2] /\ FullName(p[1]) = FullName(p[2]) /\ RareName(p[1]))'
                 <=> (p[1] < p[2] /\ FullName(p[1]) = FullName(p[2]) /\ RareName(p[1]))
    BY <1>9, <2>1
  <2> QED  BY <1>7, <2>2 DEF Wanted
<1>16. MatchPairs'
  <2>1. matches \subseteq Wanted /\ (2 * Cardinality(Wanted) < limit => matches = Wanted)
    BY <1>1, MatchPairsIs DEF NameInv
  <2> QED  BY <1>1, <1>15, <2>1 DEF MatchPairs, Wanted, RareName
<1> QED  BY <1>1, <1>3, <1>7, <1>12, <1>14, <1>16 DEF NameInv

LEMMA NameInvKept ==
  ASSUME NameInv, UNCHANGED nameVars, pc = "names" <=> pc' = "names"
  PROVE  NameInv'
<1>1. UNCHANGED <<records, limit, step, rare, nonmatches, matches>>
  BY DEF nameVars
<1>2. (RecordsInv /\ RareInv)'
  BY <1>1 DEF NameInv, RecordsInv, RareInv, FullName
<1>3. NonMatchPairs'
  BY <1>1 DEF NameInv, NonMatchPairs, FullName
<1>4. MatchPairs'
  <2>1. Wanted' = Wanted
    BY <1>1 DEF Wanted, RareName, FullName
  <2>2. step = "made" => /\ matches \subseteq Wanted
                         /\ 2 * Cardinality(Wanted) < limit => matches = Wanted
    BY MatchPairsIs DEF NameInv
  <2> QED  BY <1>1, <2>1, <2>2 DEF MatchPairs, Wanted, RareName
<1> QED  BY <1>1, <1>2, <1>3, <1>4 DEF NameInv

LEMMA NameInvNext ==
  ASSUME NameInv, [Next]_vars
  PROVE  NameInv'
<1>1. CASE TrainByName
  BY <1>1, RareInvStep, NonMatchStep, MatchStep DEF TrainByName, NameNext
<1>2. CASE Reconfigure
  BY <1>2, ReconfigureStep
<1>3. CASE \/ ConfigRound \/ NoMoreRounds \/ SwitchOn \/ TrainByPatent
           \/ PreparePersonal \/ PreparePatent \/ PrepareExits \/ Compose
  <2>1. UNCHANGED nameVars /\ pc # "names" /\ pc' # "names"
    BY <1>3 DEF ConfigRound, NoMoreRounds, SwitchOn, TrainByPatent, PreparePersonal,
                PreparePatent, PrepareExits, Compose
  <2> QED  BY <2>1, NameInvKept
<1>4. CASE Smooth \/ SmoothThrows \/ WriteFile \/ ReadFile \/ ReadThrows \/ SetUpBlocks
  <2>1. UNCHANGED nameVars /\ pc # "names" /\ pc' # "names"
    BY <1>4 DEF Smooth, SmoothThrows, WriteFile, ReadFile, ReadThrows, SetUpBlocks
  <2> QED  BY <2>1, NameInvKept
<1>5. CASE Disambiguate \/ DisambiguateThrows \/ EndRound \/ Die \/ Restart
  <2>1. UNCHANGED nameVars /\ pc # "names" /\ pc' # "names"
    BY <1>5 DEF Disambiguate, DisambiguateThrows, EndRound, Die, Restart, Ended
  <2> QED  BY <2>1, NameInvKept
<1>6. CASE UNCHANGED vars
  BY <1>6, NameInvKept DEF vars
<1> QED  BY <1>1, <1>2, <1>3, <1>4, <1>5, <1>6 DEF Next

\* The lists of records with a rare word, and what the pairs made of them are, in
\* whatever state the program is (make_stable_training_sets_by_personal and the
\* reconfigurators).
THEOREM NameInvariant == Spec => []NameInv
<1>1. Init => NameInv
  BY NameInvInit
<1>2. NameInv /\ [Next]_vars => NameInv'
  BY NameInvNext
<1> QED  BY <1>1, <1>2, PTL DEF Spec

\* No non-matching pair has one full name, save a record paired with itself because both
\* of its names have a rare word.
THEOREM NonMatchProved == Spec => []NonMatchPairs
<1>1. NameInv => NonMatchPairs
  BY DEF NameInv
<1> QED  BY <1>1, NameInvariant, PTL

\* The matching pairs have one full name with a part in the lists, and below the limit
\* no such pair is missing.
THEOREM MatchProved == Spec => []MatchPairs
<1>1. NameInv => MatchPairs
  BY DEF NameInv
<1> QED  BY <1>1, NameInvariant, PTL

-----------------------------------------------------------------------------
(* The priors of the blocks. *)

LEMMA MaxIs ==
  ASSUME NEW S \in SUBSET Nat, IsFiniteSet(S), S # {}
  PROVE  Max(S) \in S /\ \A y \in S : y <= Max(S)
BY GreatestNatural DEF Max

\* A product in thousandths, rounded up.
LEMMA ScaledIs ==
  ASSUME NEW p \in Nat, NEW f \in Nat
  PROVE  Scaled(p, f) \in Nat /\ p * f <= 1000 * Scaled(p, f) /\ 1000 * Scaled(p, f) < p * f + 1000
<1> DEFINE q == p \div 1000
           r == p % 1000
           a == r * f + 999
           u == a \div 1000
           v == a % 1000
<1>1. q \in Nat /\ r \in Nat /\ p = q * 1000 + r
  BY DivMod DEF IsDiv
<1> HIDE DEF q, r
<1>2. a \in Nat
  BY <1>1, ProductNat
<1> HIDE DEF a
<1>3. u \in Nat /\ v \in 0 .. 999 /\ a = u * 1000 + v
  BY <1>2, DivMod DEF IsDiv
<1> HIDE DEF u, v
<1>4. Scaled(p, f) = q * f + u
  BY DEF Scaled, q, r, a, u
<1>5. q * f \in Nat /\ r * f \in Nat
  BY <1>1, ProductNat
<1>6. p * f = 1000 * (q * f) + r * f
  BY <1>1
<1>7. a = r * f + 999
  BY DEF a
<1> DEFINE x == q * f
           y == r * f
           z == p * f
<1>8. x \in Nat /\ y \in Nat /\ z = 1000 * x + y /\ a = y + 999 /\ Scaled(p, f) = x + u
  BY <1>4, <1>5, <1>6, <1>7
<1> HIDE DEF x, y, z
<1>9. Scaled(p, f) \in Nat /\ z <= 1000 * Scaled(p, f) /\ 1000 * Scaled(p, f) < z + 1000
  BY <1>3, <1>8
<1> QED  BY <1>9 DEF z

LEMMA ScaledNat == ASSUME NEW p \in Nat, NEW f \in Nat PROVE Scaled(p, f) \in Nat
<1>1. Scaled(p, f) \in Nat /\ p * f <= 1000 * Scaled(p, f) /\ 1000 * Scaled(p, f) < p * f + 1000
  BY ScaledIs
<1> QED  BY <1>1

\* Scaling keeps the order, and a factor of at least 1 does not make less of p.
LEMMA ScaledGrows ==
  ASSUME NEW p \in Nat, NEW more \in Nat, p <= more, NEW f \in Nat, NEW g \in Nat, f <= g
  PROVE  /\ Scaled(p, f) <= Scaled(more, g)
         /\ g >= 1000 => Scaled(p, g) >= p
         /\ g <= 1000 => Scaled(p, g) <= p
         /\ g >= 1 /\ p >= 1 => Scaled(p, g) >= 1
<1>1. p * f <= more * g /\ p * f \in Nat /\ more * g \in Nat
  <2>1. p * f <= more * f /\ p * f \in Nat /\ more * f \in Nat /\ more * g \in Nat
    BY ProductUp, ProductNat
  <2>2. f * more <= g * more
    BY ProductUp
  <2>3. f * more = more * f /\ g * more = more * g
    OBVIOUS
  <2> QED  BY <2>1, <2>2, <2>3
<1>2. /\ Scaled(p, f) \in Nat /\ 1000 * Scaled(p, f) < p * f + 1000
      /\ Scaled(more, g) \in Nat /\ more * g <= 1000 * Scaled(more, g)
      /\ Scaled(p, g) \in Nat /\ p * g <= 1000 * Scaled(p, g) /\ 1000 * Scaled(p, g) < p * g + 1000
  <2>1. Scaled(p, f) \in Nat /\ 1000 * Scaled(p, f) < p * f + 1000
    BY ScaledIs
  <2>2. Scaled(more, g) \in Nat /\ more * g <= 1000 * Scaled(more, g)
    BY ScaledIs
  <2>3. Scaled(p, g) \in Nat /\ p * g <= 1000 * Scaled(p, g) /\ 1000 * Scaled(p, g) < p * g + 1000
    BY ScaledIs
  <2> QED  BY <2>1, <2>2, <2>3
<1> DEFINE x == p * f
           y == more * g
           z == p * g
<1>3. z \in Nat
  BY ProductNat
<1>4. g >= 1000 => z >= 1000 * p
  <2>1. ASSUME g >= 1000 PROVE 1000 * p <= g * p
    BY <2>1, ProductUp
  <2> QED  BY <2>1
<1>5. g <= 1000 => z <= 1000 * p
  <2>1. ASSUME g <= 1000 PROVE g * p <= 1000 * p
    BY <2>1, ProductUp
  <2> QED  BY <2>1
<1>6. g >= 1 /\ p >= 1 => z >= 1
  <2>1. ASSUME g >= 1 PROVE 1 * p <= g * p
    BY <2>1, ProductUp
  <2> QED  BY <2>1
<1> HIDE DEF x, y, z
<1>7. x <= y /\ x \in Nat /\ y \in Nat
  BY <1>1 DEF x, y
<1>8. /\ 1000 * Scaled(p, f) < x + 1000 /\ y <= 1000 * Scaled(more, g)
      /\ z <= 1000 * Scaled(p, g) /\ 1000 * Scaled(p, g) < z + 1000
  BY <1>2 DEF x, y, z
<1> DEFINE s == Scaled(p, f)
           t == Scaled(more, g)
           w == Scaled(p, g)
<1>9. s \in Nat /\ t \in Nat /\ w \in Nat
  BY <1>2
<1> HIDE DEF s, t, w
<1>10. /\ 1000 * s < x + 1000 /\ y <= 1000 * t
       /\ z <= 1000 * w /\ 1000 * w < z + 1000
  BY <1>8 DEF s, t, w
<1>11. s <= t
  BY <1>7, <1>9, <1>10
<1>12. (g >= 1000 => w >= p) /\ (g <= 1000 => w <= p) /\ (g >= 1 /\ p >= 1 => w >= 1)
  BY <1>3, <1>4, <1>5, <1>6, <1>9, <1>10
<1> QED  BY <1>11, <1>12 DEF s, t, w

\* The products of the factors of the first parts of a blocking string.
Products(g, of, b, prior, S, n) ==
  /\ g \in [0 .. n -> Nat] /\ g[0] = prior
  /\ \A k \in 1 .. n : g[k] = IF k \in S THEN Scaled(g[k - 1], Factor(of, b, k)) ELSE g[k - 1]

LEMMA TimesFactorsIs ==
  ASSUME NEW of, NEW b, NEW n \in Nat, Len(b) = n, NEW prior \in Nat, NEW S,
         \A k \in S : Factor(of, b, k) \in Nat
  PROVE  \E g : Products(g, of, b, prior, S, n) /\ TimesFactors(of, b, prior, S) = g[n]
<1> DEFINE Step(g, k) == IF k = 0 THEN prior
                         ELSE IF k \in S THEN Scaled(g[k - 1], Factor(of, b, k))
                         ELSE g[k - 1]
           product == CHOOSE g : g = [k \in 0 .. n |-> Step(g, k)]
           move == [e \in (1 .. n) \X Nat |->
                      IF e[1] \in S THEN Scaled(e[2], Factor(of, b, e[1])) ELSE e[2]]
<1>1. TimesFactors(of, b, prior, S) = product[n]
  BY DEF TimesFactors
<1>2. move \in [(1 .. n) \X Nat -> Nat]
  BY ScaledNat
<1> HIDE DEF move
<1>3. PICK g \in [0 .. n -> Nat] : Recurs(g, n, prior, move)
  BY <1>2, RecursionOnNat
<1>4. ASSUME NEW k \in 1 .. n PROVE g[k] = Step(g, k)
  <2>1. <<k, g[k - 1]>> \in (1 .. n) \X Nat /\ k # 0
    <3>1. k - 1 \in 0 .. n
      OBVIOUS
    <3> QED  BY <1>3, <3>1
  <2>2. g[k] = move[<<k, g[k - 1]>>]
    BY <1>3 DEF Recurs
  <2> QED  BY <2>1, <2>2 DEF move
<1>5. g[0] = prior
  BY <1>3 DEF Recurs
<1>6. g = [k \in 0 .. n |-> Step(g, k)]
  <2>1. \A k \in 0 .. n : k = 0 \/ k \in 1 .. n
    OBVIOUS
  <2>2. \A k \in 0 .. n : g[k] = Step(g, k)
    BY <1>4, <1>5, <2>1
  <2> HIDE DEF Step
  <2> QED  BY <1>3, <2>2
<1>7. product = [k \in 0 .. n |-> Step(product, k)]
  <2> HIDE DEF Step
  <2> QED  BY <1>6
<1>8. \A k \in 0 .. n : product[k] = Step(product, k)
  <2> HIDE DEF product, Step
  <2> QED  BY <1>7
<1> HIDE DEF product
<1> DEFINE same == {k \in 0 .. n : product[k] = g[k]}
<1>9. 0 \in same
  BY <1>5, <1>8
<1>10. \A k \in 1 .. n : k - 1 \in same => k \in same
  BY <1>4, <1>8
<1> HIDE DEF same
<1>11. n \in same
  <2>1. 0 .. n \subseteq same
    BY <1>9, <1>10, IntervalInduction
  <2> QED  BY <2>1
<1>12. Products(g, of, b, prior, S, n)
  BY <1>3, <1>4, <1>5 DEF Products
<1> QED  BY <1>1, <1>11, <1>12 DEF same

\* Factors of at least 1 do not make less of the prior, and more or larger ones do not
\* make less of it than fewer or smaller ones.
LEMMA ProductsGrow ==
  ASSUME NEW of, NEW b, NEW d, NEW n \in Nat, NEW prior \in Nat, NEW S, NEW T,
         \A k \in S : Factor(of, b, k) \in Nat /\ Factor(of, b, k) >= 1000,
         \A k \in T : k \in S /\ Factor(of, d, k) \in Nat /\ Factor(of, d, k) <= Factor(of, b, k),
         NEW g, Products(g, of, b, prior, S, n), NEW h, Products(h, of, d, prior, T, n)
  PROVE  g[n] >= prior /\ g[n] >= h[n]
<1> DEFINE fine == {k \in 0 .. n : g[k] >= prior /\ g[k] >= h[k]}
<1>1. 0 \in fine
  BY DEF Products
<1>2. ASSUME NEW k \in 1 .. n, k - 1 \in fine PROVE k \in fine
  <2>1. g[k - 1] \in Nat /\ h[k - 1] \in Nat /\ g[k] \in Nat /\ h[k] \in Nat
    <3>1. k - 1 \in 0 .. n
      OBVIOUS
    <3> QED  BY <3>1 DEF Products
  <2>2. g[k - 1] >= prior /\ g[k - 1] >= h[k - 1]
    BY <1>2
  <2>3. g[k] = IF k \in S THEN Scaled(g[k - 1], Factor(of, b, k)) ELSE g[k - 1]
    BY DEF Products
  <2>4. h[k] = IF k \in T THEN Scaled(h[k - 1], Factor(of, d, k)) ELSE h[k - 1]
    BY DEF Products
  <2>5. g[k] >= g[k - 1]
    <3>1. ASSUME k \in S PROVE Scaled(g[k - 1], Factor(of, b, k)) >= g[k - 1]
      BY <2>1, <3>1, ScaledGrows
    <3> QED  BY <2>1, <2>3, <3>1
  <2>6. g[k] >= h[k]
    <3>1. CASE k \in T
      <4>1. Scaled(h[k - 1], Factor(of, d, k)) <= Scaled(g[k - 1], Factor(of, b, k))
        BY <2>1, <2>2, <3>1, ScaledGrows
      <4> QED  BY <2>1, <2>3, <2>4, <3>1, <4>1
    <3>2. CASE k \notin T
      BY <2>1, <2>2, <2>4, <2>5, <3>2
    <3> QED  BY <3>1, <3>2
  <2>7. g[k] >= prior
    BY <2>1, <2>2, <2>5
  <2> QED  BY <2>6, <2>7
<1> HIDE DEF fine
<1>3. n \in fine
  <2>1. 0 .. n \subseteq fine
    BY <1>1, <1>2, IntervalInduction
  <2> QED  BY <2>1
<1> QED  BY <1>3 DEF fine

\* The largest factor, if there is one.
IsFinal(final, of, b) ==
  /\ final \in Nat /\ \A k \in Involved(b) : Factor(of, b, k) <= final
  /\ final = 0 \/ \E k \in Involved(b) : Factor(of, b, k) = final

LEMMA AdjustedIs ==
  ASSUME NEW of, NEW b, IsFiniteSet(DOMAIN b),
         \A k \in Involved(b) : Factor(of, b, k) \in Nat, NEW prior
  PROVE  \E final : /\ IsFinal(final, of, b)
                    /\ Adjusted(of, b, prior)
                         = IF final <= 1000 THEN Scaled(prior, final)
                           ELSE TimesFactors(of, b, prior,
                                             {k \in Involved(b) : Factor(of, b, k) > 1000})
<1> DEFINE factor == [k \in Involved(b) |-> Factor(of, b, k)]
           F == {factor[k] : k \in Involved(b)}
           final == Max({0} \cup F)
<1>1. final = Max({0} \cup {Factor(of, b, k) : k \in Involved(b)})
  OBVIOUS
<1>2. {0} \cup F \in SUBSET Nat
  OBVIOUS
<1>3. IsFiniteSet(F)
  <2>1. IsFiniteSet(Involved(b))
    BY FS_Subset DEF Involved
  <2> HIDE DEF factor
  <2> QED  BY <2>1, ImageFinite
<1>4. IsFiniteSet({0} \cup F)
  <2> HIDE DEF F
  <2>1. IsFiniteSet(F \cup {0}) /\ {0} \cup F = F \cup {0}
    BY <1>3, FS_AddElement
  <2> QED  BY <2>1
<1>5. final \in {0} \cup F /\ \A y \in {0} \cup F : y <= final
  <2> HIDE DEF F
  <2> QED  BY <1>2, <1>4, MaxIs
<1>6. Adjusted(of, b, prior)
        = IF final <= 1000 THEN Scaled(prior, final)
          ELSE TimesFactors(of, b, prior, {k \in Involved(b) : Factor(of, b, k) > 1000})
  BY <1>1 DEF Adjusted
<1> HIDE DEF final
<1>7. IsFinal(final, of, b)
  BY <1>2, <1>5 DEF IsFinal
<1> QED  BY <1>6, <1>7

\* What the factors do to the prior of a block, and how the priors of two blocks compare.
LEMMA AdjustedGrows ==
  ASSUME NEW of, NEW b, NEW d, NEW n \in Nat, Len(b) = n, Len(d) = n,
         DOMAIN b = 1 .. n, DOMAIN d = 1 .. n, NEW prior \in Nat,
         \A k \in Involved(b) : /\ Factor(of, b, k) \in Nat /\ Factor(of, d, k) \in Nat
                                /\ Factor(of, d, k) <= Factor(of, b, k)
  PROVE  /\ Adjusted(of, b, prior) \in Nat /\ Adjusted(of, d, prior) \in Nat
         /\ Adjusted(of, d, prior) <= Adjusted(of, b, prior)
         /\ prior >= 1 /\ (\E k \in Involved(d) : Factor(of, d, k) >= 1)
              => Adjusted(of, d, prior) >= 1
<1> DEFINE above(c) == {k \in Involved(c) : Factor(of, c, k) > 1000}
<1>1. Involved(b) = Involved(d) /\ IsFiniteSet(DOMAIN b) /\ IsFiniteSet(DOMAIN d)
  BY IntervalCard DEF Involved
<1>2. PICK finalB : /\ IsFinal(finalB, of, b)
                    /\ Adjusted(of, b, prior) = IF finalB <= 1000 THEN Scaled(prior, finalB)
                                                ELSE TimesFactors(of, b, prior, above(b))
  BY <1>1, AdjustedIs
<1>3. PICK finalD : /\ IsFinal(finalD, of, d)
                    /\ Adjusted(of, d, prior) = IF finalD <= 1000 THEN Scaled(prior, finalD)
                                                ELSE TimesFactors(of, d, prior, above(d))
  <2>1. \A k \in Involved(d) : Factor(of, d, k) \in Nat
    BY <1>1
  <2> HIDE DEF above
  <2>2. IsFiniteSet(DOMAIN d)
    BY <1>1
  <2>3. PICK final : /\ IsFinal(final, of, d)
                     /\ Adjusted(of, d, prior)
                          = IF final <= 1000 THEN Scaled(prior, final)
                            ELSE TimesFactors(of, d, prior,
                                              {k \in Involved(d) : Factor(of, d, k) > 1000})
    BY ONLY <2>1, <2>2, AdjustedIs
  <2> QED  BY <2>3 DEF above
<1>4. PICK g : Products(g, of, b, prior, above(b), n) /\ TimesFactors(of, b, prior, above(b)) = g[n]
  <2>1. \A k \in above(b) : Factor(of, b, k) \in Nat
    OBVIOUS
  <2> HIDE DEF above
  <2> QED  BY <2>1, TimesFactorsIs
<1>5. PICK h : Products(h, of, d, prior, above(d), n) /\ TimesFactors(of, d, prior, above(d)) = h[n]
  <2>1. \A k \in above(d) : Factor(of, d, k) \in Nat
    BY <1>1
  <2> HIDE DEF above
  <2> QED  BY <2>1, TimesFactorsIs
<1>6. \A k \in above(b) : Factor(of, b, k) \in Nat /\ Factor(of, b, k) >= 1000
  OBVIOUS
<1>7. \A k \in above(d) : /\ k \in above(b) /\ Factor(of, d, k) \in Nat
                          /\ Factor(of, d, k) <= Factor(of, b, k) /\ Factor(of, d, k) >= 1000
  BY <1>1
<1>8. finalD \in Nat /\ finalB \in Nat /\ finalD <= finalB
  <2>1. finalD \in Nat /\ finalB \in Nat
    BY <1>2, <1>3 DEF IsFinal
  <2>2. CASE finalD = 0
    BY <2>1, <2>2
  <2>3. CASE finalD # 0
    <3>1. PICK k \in Involved(d) : Factor(of, d, k) = finalD
      BY <1>3, <2>3 DEF IsFinal
    <3>2. Factor(of, b, k) <= finalB /\ Factor(of, b, k) \in Nat /\ finalD <= Factor(of, b, k)
      BY <1>1, <1>2, <3>1 DEF IsFinal
    <3> QED  BY <2>1, <3>2
  <2> QED  BY <2>1, <2>2, <2>3
<1> HIDE DEF above
<1>9. g[n] >= prior /\ g[n] >= h[n]
  BY <1>4, <1>5, <1>6, <1>7, ProductsGrow
<1>10. h[n] >= prior
  <2>1. \A k \in above(d) : Factor(of, d, k) \in Nat /\ Factor(of, d, k) >= 1000
    BY <1>7
  <2>2. \A k \in above(d) : k \in above(d) /\ Factor(of, d, k) \in Nat
                            /\ Factor(of, d, k) <= Factor(of, d, k)
    BY <1>7
  <2> QED  BY <1>5, <2>1, <2>2, ProductsGrow
<1>11. g[n] \in Nat /\ h[n] \in Nat
  BY <1>4, <1>5 DEF Products
<1>12. Scaled(prior, finalB) \in Nat /\ Scaled(prior, finalD) \in Nat
  BY <1>8, ScaledNat
<1>13. /\ Scaled(prior, finalD) <= Scaled(prior, finalB)
       /\ finalD <= 1000 => Scaled(prior, finalD) <= prior
       /\ finalD >= 1 /\ prior >= 1 => Scaled(prior, finalD) >= 1
  BY <1>8, ScaledGrows
<1>14. (\E k \in Involved(d) : Factor(of, d, k) >= 1) => finalD >= 1
  <2>1. ASSUME NEW k \in Involved(d), Factor(of, d, k) >= 1 PROVE finalD >= 1
    <3>1. Factor(of, d, k) <= finalD /\ Factor(of, d, k) \in Nat
      BY <1>1, <1>3 DEF IsFinal
    <3> QED  BY <1>8, <2>1, <3>1
  <2> QED  BY <2>1
<1>15. Adjusted(of, b, prior) = IF finalB <= 1000 THEN Scaled(prior, finalB) ELSE g[n]
  BY <1>2, <1>4
<1>16. Adjusted(of, d, prior) = IF finalD <= 1000 THEN Scaled(prior, finalD) ELSE h[n]
  BY <1>3, <1>5
<1> QED  BY <1>8, <1>9, <1>10, <1>11, <1>12, <1>13, <1>14, <1>15, <1>16

\* No division by 0: where two records are in one cluster, there are two records.
LEMMA InitialPriorIs ==
  ASSUME NEW clusters, IsFiniteSet(clusters),
         \A cl \in clusters : Cardinality(cl.members) \in Nat
  PROVE  InitialPrior(clusters) \in Nat /\ InitialPrior(clusters) >= 1
<1> DEFINE size == [cl \in clusters |-> Cardinality(cl.members)]
           pairs == [cl \in clusters |-> Cardinality(cl.members) * (Cardinality(cl.members) - 1)]
           all == SumFunctionOnSet(size, clusters)
           together == SumFunctionOnSet(pairs, clusters)
           ordered == all * (all - 1)
<1>1. \A cl \in clusters : size[cl] \in Nat /\ pairs[cl] = size[cl] * (size[cl] - 1)
  OBVIOUS
<1>2. InitialPrior(clusters) = IF together = 0 THEN PriorDefault
                               ELSE (One * together + ordered - 1) \div ordered
  BY DEF InitialPrior, SumFunction
<1> HIDE DEF size, pairs
<1>3. \A cl \in clusters : pairs[cl] \in Nat
  <2>1. ASSUME NEW n \in Nat PROVE n * (n - 1) \in Nat
    <3>1. CASE n = 0
      BY <3>1
    <3>2. CASE n # 0
      <4>1. n - 1 \in Nat
        BY <3>2
      <4> QED  BY <4>1, ProductNat
    <3> QED  BY <3>1, <3>2
  <2> QED  BY <1>1, <2>1
<1>4. all \in Nat /\ together \in Nat
  BY <1>1, <1>3, SumNat
<1>5. ASSUME together # 0 PROVE all >= 2
  <2>1. PICK cl \in clusters : pairs[cl] # 0
    <3> SUFFICES ASSUME \A cl \in clusters : pairs[cl] = 0 PROVE together = 0
      BY <1>5
    <3>1. \A cl \in clusters : pairs[cl] \in 0 .. 0
      OBVIOUS
    <3>2. together \in Nat /\ together <= 0 * Cardinality(clusters)
      BY <3>1, SumBounded
    <3>3. Cardinality(clusters) \in Nat
      BY FS_CardinalityType
    <3> HIDE DEF together
    <3> QED  BY <3>2, <3>3
  <2>2. size[cl] >= 2
    <3>1. ASSUME NEW n \in Nat, n * (n - 1) # 0 PROVE n >= 2
      <4>1. n = 0 => n * (n - 1) = 0
        OBVIOUS
      <4>2. n = 1 => n * (n - 1) = 0
        OBVIOUS
      <4> QED  BY <3>1, <4>1, <4>2
    <3> QED  BY <1>1, <2>1, <3>1
  <2>3. size[cl] <= all
    BY <1>1, SumTerm
  <2> HIDE DEF all
  <2> QED  BY <1>1, <1>4, <2>2, <2>3
<1> HIDE DEF all, together
<1>6. ASSUME together # 0
      PROVE  /\ (One * together + ordered - 1) \div ordered \in Nat
             /\ (One * together + ordered - 1) \div ordered >= 1
  <2>1. ordered \in Nat /\ ordered >= 1
    <3>1. all \in Nat /\ all - 1 \in Nat /\ all >= 1 /\ all - 1 >= 1
      BY <1>4, <1>5, <1>6
    <3>2. 1 * (all - 1) <= all * (all - 1)
      BY <3>1, ProductUp
    <3>3. all * (all - 1) \in Nat
      BY <3>1, ProductNat
    <3> QED  BY <3>1, <3>2, <3>3
  <2> DEFINE i == One * together + ordered - 1
  <2>2. One * together \in Nat /\ One * together >= 1
    BY <1>4, <1>6 DEF One
  <2>3. i \in Nat /\ i >= ordered
    <3> HIDE DEF ordered
    <3> QED  BY <2>1, <2>2
  <2> HIDE DEF i, ordered
  <2>4. i \div ordered \in Nat /\ i \div ordered >= 1
    BY <2>1, <2>3, DivPositive
  <2> QED  BY <2>4 DEF i
<1>7. PriorDefault \in Nat /\ PriorDefault >= 1
  BY DEF PriorDefault, One
<1> HIDE DEF ordered
<1> QED  BY <1>2, <1>6, <1>7

\* The initial prior depends on how many clusters of each size there are.
Sized(clusters, n) == {cl \in clusters : Cardinality(cl.members) = n}

LEMMA InitialPriorBySizes ==
  ASSUME NEW N \in Nat, NEW C, NEW D, IsFiniteSet(C), IsFiniteSet(D),
         \A cl \in C \cup D : Cardinality(cl.members) \in 1 .. N,
         \A n \in 1 .. N : Cardinality(Sized(C, n)) = Cardinality(Sized(D, n))
  PROVE  InitialPrior(C) = InitialPrior(D)
<1> DEFINE size(S) == [cl \in S |-> Cardinality(cl.members)]
           pairs(S) == [cl \in S |-> Cardinality(cl.members) * (Cardinality(cl.members) - 1)]
           once == [n \in 1 .. N |-> n]
           twice == [n \in 1 .. N |-> n * (n - 1)]
           sizes(S) == [n \in 1 .. N |-> once[n] * Cardinality(Sized(S, n))]
           couples(S) == [n \in 1 .. N |-> twice[n] * Cardinality(Sized(S, n))]
<1>1. IsFiniteSet(1 .. N) /\ \A n \in 1 .. N : once[n] \in Nat /\ twice[n] \in Nat
  <2>1. ASSUME NEW n \in 1 .. N PROVE n * (n - 1) \in Nat
    <3>1. n \in Nat /\ n - 1 \in Nat
      OBVIOUS
    <3> QED  BY <3>1, ProductNat
  <2> QED  BY <2>1, IntervalCard
<1>2. ASSUME NEW S \in {C, D}
      PROVE  /\ SumFunctionOnSet(size(S), S) = SumFunctionOnSet(sizes(S), 1 .. N)
             /\ SumFunctionOnSet(pairs(S), S) = SumFunctionOnSet(couples(S), 1 .. N)
  <2> DEFINE P == size(S)
             K == 1 .. N
             f == pairs(S)
             h1 == sizes(S)
             h2 == couples(S)
  <2>1. IsFiniteSet(S) /\ \A cl \in S : P[cl] \in K
    OBVIOUS
  <2>2. \A cl \in S : P[cl] = once[P[cl]] /\ f[cl] = twice[P[cl]]
    OBVIOUS
  <2>3. \A n \in K : Sized(S, n) = {cl \in S : P[cl] = n}
    BY DEF Sized
  <2>4. \A n \in K : /\ h1[n] = once[n] * Cardinality({cl \in S : P[cl] = n})
                     /\ h2[n] = twice[n] * Cardinality({cl \in S : P[cl] = n})
    BY <2>3
  <2>5. IsFiniteSet(K) /\ \A n \in K : once[n] \in Nat /\ twice[n] \in Nat
    BY <1>1
  <2> HIDE DEF P, K, f, h1, h2, once, twice
  <2>6. SumFunctionOnSet(P, S) = SumFunctionOnSet(h1, K)
    <3>1. \A cl \in S : P[cl] = once[P[cl]]
      BY <2>2
    <3>2. \A n \in K : h1[n] = once[n] * Cardinality({cl \in S : P[cl] = n})
      BY <2>4
    <3>3. \A n \in K : once[n] \in Nat
      BY <2>5
    <3>4. IsFiniteSet(S) /\ IsFiniteSet(K)
      BY <2>1, <2>5
    <3>5. \A cl \in S : P[cl] \in K
      BY <2>1
    <3> QED  BY ONLY <3>1, <3>2, <3>3, <3>4, <3>5, SumByValue, SMTT(30)
  <2>7. SumFunctionOnSet(f, S) = SumFunctionOnSet(h2, K)
    <3>1. \A cl \in S : f[cl] = twice[P[cl]]
      BY <2>2
    <3>2. \A n \in K : h2[n] = twice[n] * Cardinality({cl \in S : P[cl] = n})
      BY <2>4
    <3>3. \A n \in K : twice[n] \in Nat
      BY <2>5
    <3>4. IsFiniteSet(S) /\ IsFiniteSet(K)
      BY <2>1, <2>5
    <3>5. \A cl \in S : P[cl] \in K
      BY <2>1
    <3> QED  BY ONLY <3>1, <3>2, <3>3, <3>4, <3>5, SumByValue, SMTT(30)
  <2> QED  BY <2>6, <2>7 DEF P, K, f, h1, h2
<1>3. sizes(C) = sizes(D) /\ couples(C) = couples(D)
  OBVIOUS
<1> DEFINE prior(a, t) == IF t = 0 THEN PriorDefault
                          ELSE (One * t + a * (a - 1) - 1) \div (a * (a - 1))
<1>4. ASSUME NEW S
      PROVE  InitialPrior(S) = prior(SumFunctionOnSet(size(S), S), SumFunctionOnSet(pairs(S), S))
  BY DEF InitialPrior, SumFunction
<1> HIDE DEF size, pairs, sizes, couples, prior
<1> QED  BY <1>2, <1>3, <1>4

\* How many blocks have the same part as b.
Often(of, b, k) == Cardinality({d \in DOMAIN of : d[k] = b[k]})

LEMMA OccurrencesAre ==
  ASSUME NEW N \in Nat, NEW of, IsFiniteSet(DOMAIN of), Cardinality(DOMAIN of) <= N,
         NEW b \in DOMAIN of, NEW k
  PROVE  /\ MaxOccurrence(of, k) \in 0 .. N /\ Often(of, b, k) \in 1 .. N
         /\ b[k] # <<>> => Often(of, b, k) <= MaxOccurrence(of, k)
         /\ MaxOccurrence(of, k) # 0 => ColumnStat(of, k)[b[k]] \in 1 .. MaxOccurrence(of, k)
         /\ Often(of, b, k) <= MaxOccurrence(of, k)
              => ColumnStat(of, k)[b[k]] = Often(of, b, k)
<1> DEFINE V == {d[k] : d \in DOMAIN of}
           counts == Counted(of, k)
           W == {counts[v] : v \in V \ {<<>>}}
<1>1. DOMAIN counts = V /\ \A v \in V : counts[v] = Cardinality({d \in DOMAIN of : d[k] = v})
  BY DEF Counted
<1>2. ASSUME NEW v \in V PROVE counts[v] \in 1 .. N
  <2> DEFINE C == {d \in DOMAIN of : d[k] = v}
  <2>1. C # {} /\ C \subseteq DOMAIN of
    OBVIOUS
  <2> HIDE DEF C
  <2>2. IsFiniteSet(C) /\ Cardinality(C) <= Cardinality(DOMAIN of)
    BY <2>1, FS_Subset
  <2>3. Cardinality(C) \in Nat /\ Cardinality(C) # 0 /\ Cardinality(DOMAIN of) \in Nat
    BY <2>1, <2>2, FS_CardinalityType, FS_EmptySet
  <2>4. counts[v] = Cardinality(C)
    BY <1>1 DEF C
  <2> HIDE DEF counts
  <2> QED  BY <2>2, <2>3, <2>4
<1>3. IsFiniteSet(V)
  <2> DEFINE part == [d \in DOMAIN of |-> d[k]]
  <2>1. V = {part[d] : d \in DOMAIN of}
    OBVIOUS
  <2> HIDE DEF part, V
  <2> QED  BY <2>1, ImageFinite
<1>4. b[k] \in V /\ counts[b[k]] = Often(of, b, k)
  BY <1>1 DEF Often
<1>5. IsFiniteSet(V \ {<<>>})
  BY <1>3, FS_Subset
<1>6. MaxOccurrence(of, k) = Max({0} \cup W)
  BY <1>1 DEF MaxOccurrence
<1> HIDE DEF V, counts
<1>7. IsFiniteSet(W)
  BY <1>5, ImageFinite
<1>8. {0} \cup W \in SUBSET (0 .. N)
  BY <1>2
<1>9. b[k] # <<>> => counts[b[k]] \in {0} \cup W
  BY <1>4
<1> HIDE DEF W
<1>10. IsFiniteSet({0} \cup W)
  BY <1>7, FS_AddElement
<1>11. MaxOccurrence(of, k) \in {0} \cup W /\ \A y \in {0} \cup W : y <= MaxOccurrence(of, k)
  <2>1. {0} \cup W \in SUBSET Nat /\ {0} \cup W # {}
    BY <1>8
  <2> QED  BY <1>6, <1>10, <2>1, MaxIs
<1> DEFINE m == MaxOccurrence(of, k)
           c == counts[b[k]]
<1>12. m \in 0 .. N /\ c \in 1 .. N /\ (b[k] # <<>> => c <= m)
  BY <1>2, <1>4, <1>8, <1>9, <1>11
<1>13. ColumnStat(of, k)[b[k]] = Min({c, m})
  BY <1>1, <1>4 DEF ColumnStat, counts
<1> HIDE DEF c, m
<1>14. Min({c, m}) \in {c, m} /\ Min({c, m}) <= m /\ Min({c, m}) <= c
  <2>1. {c, m} \in SUBSET Nat /\ {c, m} # {}
    BY <1>12
  <2> QED  BY <2>1, LeastIs
<1>15. (m # 0 => Min({c, m}) \in 1 .. m) /\ (c <= m => Min({c, m}) = c)
  BY <1>12, <1>14
<1>16. c = Often(of, b, k)
  BY <1>4 DEF c
<1> QED  BY <1>12, <1>13, <1>15, <1>16 DEF m

\* The factor of a part: a natural number; not larger for a more frequent part; and 0
\* only for the most frequent ones.
FactorFits(of, b, d, k) ==
  /\ Factor(of, b, k) \in Nat
  /\ b[k] # <<>> /\ d[k] # <<>> /\ Often(of, b, k) <= Often(of, d, k)
       => Factor(of, d, k) <= Factor(of, b, k)
  /\ d[k] # <<>> /\ Often(of, b, k) < Often(of, d, k) => Factor(of, b, k) >= 1

LEMMA FactorIs ==
  ASSUME NEW l \in Lists, Len(l) \in Nat,
         NEW of, IsFiniteSet(DOMAIN of), Cardinality(DOMAIN of) <= Len(l),
         NEW b \in DOMAIN of, NEW d \in DOMAIN of, NEW k
  PROVE  FactorFits(of, b, d, k)
<1>1. CASE ~ (frequency_adjust_mode /\ MaxOccurrence(of, k) # 0)
  BY <1>1 DEF Factor, FactorFits
<1>2. CASE frequency_adjust_mode /\ MaxOccurrence(of, k) # 0
  <2> DEFINE N == Len(l)
             m == MaxOccurrence(of, k)
             x == ColumnStat(of, k)[b[k]]
             y == ColumnStat(of, k)[d[k]]
             ob == Often(of, b, k)
             od == Often(of, d, k)
  <2>1. /\ m \in 1 .. N /\ ob \in 1 .. N /\ x \in 1 .. m
        /\ (b[k] # <<>> => ob <= m) /\ (ob <= m => x = ob)
    <3>1. MaxOccurrence(of, k) \in 0 .. N /\ MaxOccurrence(of, k) # 0
      BY <1>2, OccurrencesAre
    <3>2. MaxOccurrence(of, k) \in 1 .. N
      BY <3>1
    <3> QED  BY <1>2, <3>2, OccurrencesAre
  <2>2. od \in 1 .. N /\ y \in 1 .. m /\ (d[k] # <<>> => od <= m) /\ (od <= m => y = od)
    BY <1>2, OccurrencesAre
  <2>3. Factor(of, b, k) = Log(m, x) /\ Factor(of, d, k) = Log(m, y)
    BY <1>2 DEF Factor
  <2> HIDE DEF N, m, x, y, ob, od
  <2>4. l \in Lists /\ m \in 1 .. Len(l)
    BY <2>1 DEF N
  <2>5. Log(m, x) \in Nat /\ (Log(m, x) = 0 <=> m = x)
    BY <2>1, <2>4, PriorsAssumption
  <2>6. ASSUME NEW fewer \in 1 .. y PROVE Log(m, fewer) >= Log(m, y)
    BY <2>2, <2>4, PriorsAssumption
  <2>7. N \in Nat
    BY DEF N
  <2>8. ASSUME b[k] # <<>>, d[k] # <<>>, ob <= od PROVE Log(m, y) <= Log(m, x)
    <3>1. x \in 1 .. y
      BY <2>1, <2>2, <2>7, <2>8
    <3>2. Log(m, x) >= Log(m, y)
      BY <2>6, <3>1
    <3>3. Log(m, y) \in Nat
      BY <2>2, <2>4, PriorsAssumption
    <3> QED  BY <2>5, <3>2, <3>3
  <2>9. ASSUME d[k] # <<>>, ob < od PROVE Log(m, x) >= 1
    <3>1. ob < m /\ x = ob
      BY <2>1, <2>2, <2>7, <2>9
    <3>2. m # x
      BY <2>1, <2>7, <3>1
    <3> QED  BY <2>5, <3>2
  <2> QED  BY <2>3, <2>5, <2>8, <2>9 DEF FactorFits, ob, od
<1> QED  BY <1>1, <1>2

\* The clusters of the blocks: not empty, and of records of the list.
BlocksFit(of, N, n) ==
  /\ IsFiniteSet(DOMAIN of) /\ Cardinality(DOMAIN of) <= N
  /\ \A b \in DOMAIN of : /\ DOMAIN b = 1 .. n /\ Len(b) = n /\ IsFiniteSet(of[b])
                          /\ \A cl \in of[b] : Cardinality(cl.members) \in 1 .. N

\* d is in no place rarer than b, and in one not the most frequent.
Rarer(of, N, b, d) ==
  /\ \A n \in 1 .. N : Cardinality(Sized(of[b], n)) = Cardinality(Sized(of[d], n))
  /\ \E k \in Involved(d), e \in DOMAIN of : e[k] # <<>> /\ Often(of, d, k) < Often(of, e, k)
  /\ \A k \in Involved(b) : b[k] # <<>> /\ d[k] # <<>> /\ Often(of, b, k) <= Often(of, d, k)

LEMMA AdjustedOrder ==
  ASSUME NEW l \in Lists, Len(l) \in Nat, NEW of, NEW n \in Nat, BlocksFit(of, Len(l), n),
         NEW b \in DOMAIN of, NEW d \in DOMAIN of, NEW prior \in Nat,
         \A k \in Involved(b) : b[k] # <<>> /\ d[k] # <<>> /\ Often(of, b, k) <= Often(of, d, k)
  PROVE  /\ Adjusted(of, b, prior) \in Nat /\ Adjusted(of, d, prior) \in Nat
         /\ Adjusted(of, d, prior) <= Adjusted(of, b, prior)
         /\ prior >= 1 /\ (\E k \in Involved(d) : Factor(of, d, k) >= 1)
              => Adjusted(of, d, prior) >= 1
<1>1. DOMAIN b = 1 .. n /\ DOMAIN d = 1 .. n /\ Len(b) = n /\ Len(d) = n
  BY DEF BlocksFit
<1>2. IsFiniteSet(DOMAIN of) /\ Cardinality(DOMAIN of) <= Len(l)
  BY DEF BlocksFit
<1>3. ASSUME NEW k \in Involved(b)
      PROVE  /\ Factor(of, b, k) \in Nat /\ Factor(of, d, k) \in Nat
             /\ Factor(of, d, k) <= Factor(of, b, k)
  <2>1. FactorFits(of, b, d, k) /\ FactorFits(of, d, b, k)
    BY <1>2, FactorIs
  <2> QED  BY <2>1 DEF FactorFits
<1> QED  BY <1>1, <1>3, AdjustedGrows

LEMMA AdjustedNat ==
  ASSUME NEW l \in Lists, Len(l) \in Nat, NEW of, NEW n \in Nat, BlocksFit(of, Len(l), n),
         NEW b \in DOMAIN of, NEW prior \in Nat
  PROVE  Adjusted(of, b, prior) \in Nat
<1>1. DOMAIN b = 1 .. n /\ Len(b) = n
  BY DEF BlocksFit
<1>2. IsFiniteSet(DOMAIN of) /\ Cardinality(DOMAIN of) <= Len(l)
  BY DEF BlocksFit
<1>3. ASSUME NEW k \in Involved(b)
      PROVE  Factor(of, b, k) \in Nat /\ Factor(of, b, k) <= Factor(of, b, k)
  <2>1. FactorFits(of, b, b, k)
    BY <1>2, FactorIs
  <2> QED  BY <2>1 DEF FactorFits
<1> QED  BY <1>1, <1>3, AdjustedGrows

LEMMA PriorValueIs ==
  ASSUME NEW l \in Lists, Len(l) \in Nat, NEW of, NEW n \in Nat, BlocksFit(of, Len(l), n),
         NEW b \in DOMAIN of
  PROVE  PriorValue(of, b) \in 0 .. PriorMax
<1> DEFINE a == Adjusted(of, b, InitialPrior(of[b]))
<1>1. PriorValue(of, b) = Min({a, PriorMax})
  BY DEF PriorValue
<1>2. InitialPrior(of[b]) \in Nat
  <2>1. IsFiniteSet(of[b]) /\ \A cl \in of[b] : Cardinality(cl.members) \in Nat
    BY DEF BlocksFit
  <2> QED  BY <2>1, InitialPriorIs
<1>3. a \in Nat /\ PriorMax \in Nat
  BY <1>2, AdjustedNat DEF PriorMax, One
<1> HIDE DEF a
<1>4. {a, PriorMax} \in SUBSET Nat /\ {a, PriorMax} # {}
  BY <1>3
<1>5. Min({a, PriorMax}) \in {a, PriorMax} /\ Min({a, PriorMax}) <= PriorMax
  BY <1>4, LeastIs
<1> QED  BY <1>1, <1>3, <1>5

LEMMA PriorValueOrder ==
  ASSUME NEW l \in Lists, Len(l) \in Nat, NEW of, NEW n \in Nat, BlocksFit(of, Len(l), n),
         NEW b \in DOMAIN of, NEW d \in DOMAIN of, Rarer(of, Len(l), b, d)
  PROVE  PriorToUse(PriorValue(of, b)) >= PriorToUse(PriorValue(of, d))
<1> DEFINE p == InitialPrior(of[d])
           x == Adjusted(of, b, p)
           y == Adjusted(of, d, p)
<1>1. /\ IsFiniteSet(of[b]) /\ \A cl \in of[b] : Cardinality(cl.members) \in 1 .. Len(l)
      /\ IsFiniteSet(of[d]) /\ \A cl \in of[d] : Cardinality(cl.members) \in 1 .. Len(l)
  BY DEF BlocksFit
<1>2. InitialPrior(of[b]) = p
  <2>1. \A m \in 1 .. Len(l) : Cardinality(Sized(of[b], m)) = Cardinality(Sized(of[d], m))
    BY DEF Rarer
  <2>2. \A cl \in of[b] \cup of[d] : Cardinality(cl.members) \in 1 .. Len(l)
    BY <1>1
  <2> QED  BY <1>1, <2>1, <2>2, InitialPriorBySizes
<1>3. p \in Nat /\ p >= 1
  <2>1. \A cl \in of[d] : Cardinality(cl.members) \in Nat
    BY <1>1
  <2> QED  BY <1>1, <2>1, InitialPriorIs
<1>4. PriorValue(of, b) = Min({x, PriorMax}) /\ PriorValue(of, d) = Min({y, PriorMax})
  BY <1>2 DEF PriorValue
<1> HIDE DEF p
<1>5. \E k \in Involved(d) : Factor(of, d, k) >= 1
  <2>1. PICK k \in Involved(d), e \in DOMAIN of : e[k] # <<>> /\ Often(of, d, k) < Often(of, e, k)
    BY DEF Rarer
  <2>2. FactorFits(of, d, e, k)
    BY FactorIs DEF BlocksFit
  <2> QED  BY <2>1, <2>2 DEF FactorFits
<1>6. x \in Nat /\ y \in Nat /\ y <= x /\ y >= 1
  BY <1>3, <1>5, AdjustedOrder DEF Rarer
<1>7. PriorMax \in Nat /\ PriorMax >= 1
  BY DEF PriorMax, One
<1> HIDE DEF x, y
<1>8. {x, PriorMax} \in SUBSET Nat /\ {y, PriorMax} \in SUBSET Nat
  BY <1>6, <1>7
<1>9. Min({x, PriorMax}) \in {x, PriorMax}
  BY <1>8, LeastIs
<1>10. Min({y, PriorMax}) \in {y, PriorMax} /\ Min({y, PriorMax}) <= PriorMax
       /\ Min({y, PriorMax}) <= y
  BY <1>8, LeastIs
<1>11. /\ Min({x, PriorMax}) \in Nat /\ Min({y, PriorMax}) \in Nat
       /\ Min({y, PriorMax}) >= 1 /\ Min({x, PriorMax}) >= Min({y, PriorMax})
  BY <1>6, <1>7, <1>9, <1>10
<1> DEFINE u == Min({x, PriorMax})
           v == Min({y, PriorMax})
<1>12. u \in Nat /\ v \in Nat /\ v >= 1 /\ u >= v
  BY <1>11
<1> HIDE DEF u, v
<1>13. PriorToUse(u) = u /\ PriorToUse(v) = v
  BY <1>12 DEF PriorToUse
<1> QED  BY <1>4, <1>12, <1>13 DEF u, v

LEMMA BlocksAre ==
  ASSUME NEW l \in Lists, Len(l) \in Nat, NEW clusters \in Results(Len(l)), round \in Rounds
  PROVE  BlocksFit(BlocksOf(round, clusters), Len(l), Len(BlockColumns[round]))
         /\ Len(BlockColumns[round]) \in Nat
<1> DEFINE of == BlocksOf(round, clusters)
           id == [cl \in clusters |-> BlockId(round, records[cl.head])]
           head == [cl \in clusters |-> cl.head]
           N == Len(l)
           columns == BlockColumns[round]
           n == Len(columns)
<1>1. /\ \A cl \in clusters : cl.members \subseteq 1 .. N /\ cl.head \in cl.members
      /\ \A cl, other \in clusters : cl # other => cl.members \cap other.members = {}
  BY RatiosAssumption
<1>2. DOMAIN of = {id[cl] : cl \in clusters}
  BY DEF BlocksOf
<1>3. \A b \in DOMAIN of : of[b] \subseteq clusters
  BY DEF BlocksOf
<1>4. DOMAIN columns = 1 .. n /\ n \in Nat
  <2>1. columns \in Seq([column : STRING, nchar : Nat, forward : BOOLEAN])
    BY RatiosAssumption
  <2> HIDE DEF columns
  <2> QED  BY <2>1
<1> HIDE DEF columns, n
<1>5. ASSUME NEW b \in DOMAIN of PROVE DOMAIN b = 1 .. n /\ Len(b) = n
  <2>1. PICK cl \in clusters : b = id[cl]
    BY <1>2
  <2> DEFINE r == records[cl.head]
             V == {Piece(r, columns[k]) : k \in 1 .. n}
  <2>2. b = [k \in 1 .. n |-> Piece(r, columns[k])]
    BY <1>4, <2>1 DEF BlockId, columns
  <2>3. b \in [1 .. n -> V]
    BY <2>2
  <2> HIDE DEF V
  <2> QED  BY <1>4, <2>3, FunctionSeq
<1>6. head \in Injection(clusters, 1 .. N)
  <2>1. head \in [clusters -> 1 .. N]
    BY <1>1
  <2>2. \A cl, other \in clusters : head[cl] = head[other] => cl = other
    BY <1>1
  <2> QED  BY <2>1, <2>2 DEF Injection, IsInjective
<1> HIDE DEF head, of, id
<1>7. IsFiniteSet(clusters) /\ Cardinality(clusters) <= N
  BY <1>6, IntervalCard, FS_Injection
<1>8. IsFiniteSet(DOMAIN of) /\ Cardinality(DOMAIN of) <= Cardinality(clusters)
  BY <1>2, <1>7, ImageFinite
<1>9. Cardinality(DOMAIN of) <= N
  <2>1. Cardinality(DOMAIN of) \in Nat /\ Cardinality(clusters) \in Nat
    BY <1>7, <1>8, FS_CardinalityType
  <2> QED  BY <1>7, <1>8, <2>1
<1>10. ASSUME NEW b \in DOMAIN of PROVE IsFiniteSet(of[b])
  BY <1>3, <1>7, FS_Subset
<1>11. ASSUME NEW b \in DOMAIN of, NEW cl \in of[b] PROVE Cardinality(cl.members) \in 1 .. N
  <2>1. cl.members \subseteq 1 .. N /\ cl.members # {}
    BY <1>1, <1>3
  <2>2. IsFiniteSet(1 .. N) /\ Cardinality(1 .. N) = N
    BY IntervalCard
  <2>3. IsFiniteSet(cl.members) /\ Cardinality(cl.members) <= N
    BY <2>1, <2>2, FS_Subset
  <2>4. Cardinality(cl.members) \in Nat /\ Cardinality(cl.members) # 0
    BY <2>1, <2>3, FS_CardinalityType, FS_EmptySet
  <2> QED  BY <2>3, <2>4
<1>12. BlocksFit(of, N, n)
  BY <1>5, <1>8, <1>9, <1>10, <1>11 DEF BlocksFit
<1> QED  BY <1>4, <1>12 DEF of, N, n, columns

LEMMA RecordsLen ==
  ASSUME RecordsInv
  PROVE  \E l \in Lists : Len(records) = Len(l) /\ Len(l) \in Nat
<1>1. PICK l \in Lists : DOMAIN records = DOMAIN l
  BY RecordsAre
<1>2. DOMAIN l = 1 .. Len(l) /\ Len(l) \in Nat
  BY AsReadIs
<1>3. DOMAIN records = 1 .. Len(records) /\ Len(records) \in Nat
  BY RecordsAre DEF Numbered
<1>4. Len(records) = Len(l)
  BY <1>1, <1>2, <1>3, IntervalCard
<1> QED  BY <1>2, <1>4

PriorsInv == RoundInv /\ PriorsUsable /\ RareFavoured

LEMMA SetUpBlocksStep ==
  ASSUME NameInv, PriorsInv, SetUpBlocks
  PROVE  PriorsUsable' /\ RareFavoured'
<1>1. pc = "disambiguate" /\ round \in Rounds
  BY DEF SetUpBlocks, PriorsInv, RoundInv, Working
<1>2. PICK l \in Lists : Len(records) = Len(l) /\ Len(l) \in Nat
  BY RecordsLen DEF NameInv
<1>9. PICK clusters \in Results(Len(records)) : \E debug \in BOOLEAN :
        \E listed \in {{}} \cup {{b} : b \in DOMAIN BlocksOf(round, clusters)} :
          blocks' = SetUp(BlocksOf(round, clusters), listed, debug)
  BY DEF SetUpBlocks
<1>3. PICK debug \in BOOLEAN : \E listed \in {{}} \cup {{b} : b \in DOMAIN BlocksOf(round, clusters)} :
        blocks' = SetUp(BlocksOf(round, clusters), listed, debug)
  BY <1>9
<1>10. PICK listed \in {{}} \cup {{b} : b \in DOMAIN BlocksOf(round, clusters)} :
        blocks' = SetUp(BlocksOf(round, clusters), listed, debug)
  BY <1>3
<1>8. clusters \in Results(Len(l))
  BY <1>2, <1>9
<1> DEFINE byId == BlocksOf(round, clusters)
           on == Active(byId, listed)
           n == Len(BlockColumns[round])
<1>4. on \subseteq DOMAIN byId
  BY DEF Active
<1>11. BlocksFit(byId, Len(l), n) /\ n \in Nat
  BY <1>1, <1>2, <1>8, BlocksAre
<1>6. blocks'.active = on /\ blocks'.prior = ConfigPrior(byId, on, debug) /\ blocks'.of = byId
  BY <1>10 DEF SetUp
<1>12. records' = records
  BY DEF SetUpBlocks, nameVars
<1> HIDE DEF byId, on, n
<1>5. \A b \in DOMAIN byId : PriorValue(byId, b) \in 0 .. PriorMax
  BY <1>2, <1>11, PriorValueIs
<1>7. ASSUME NEW b \in on
      PROVE  /\ b \in DOMAIN ConfigPrior(byId, on, debug)
             /\ PriorToUse(ConfigPrior(byId, on, debug)[b]) \in 1 .. PriorMax
  <2>1. b \in DOMAIN ConfigPrior(byId, on, debug) /\ ConfigPrior(byId, on, debug)[b] = PriorValue(byId, b)
    BY <1>4 DEF ConfigPrior
  <2>2. PriorValue(byId, b) \in 0 .. PriorMax
    BY <1>4, <1>5
  <2>4. PriorMax \in Nat /\ One \div 100 \in Nat /\ One \div 100 >= 1 /\ One \div 100 <= PriorMax
    BY ONLY DEF PriorMax, One
  <2>3. ASSUME NEW p \in 0 .. PriorMax PROVE PriorToUse(p) \in 1 .. PriorMax
    BY <2>4 DEF PriorToUse
  <2> QED  BY <2>1, <2>2, <2>3
<1>13. PriorsUsable'
  BY <1>6, <1>7 DEF PriorsUsable
<1> DEFINE priors == ConfigPrior(byId, on, debug)
           sizes(b) == [m \in 1 .. Len(records) |->
                          Cardinality({cl \in byId[b] : Cardinality(cl.members) = m})]
           often(b, k) == Cardinality({d \in DOMAIN byId : d[k] = b[k]})
           most(b) == \A k \in Involved(b), d \in DOMAIN byId :
                        d[k] = <<>> \/ often(d, k) <= often(b, k)
<1>14. ASSUME NEW b \in DOMAIN priors, NEW d \in DOMAIN priors,
              sizes(b) = sizes(d), ~ most(d),
              \A k \in Involved(b) : b[k] # <<>> /\ d[k] # <<>> /\ often(b, k) <= often(d, k)
       PROVE  PriorToUse(priors[b]) >= PriorToUse(priors[d])
  <2>1. /\ b \in DOMAIN byId /\ d \in DOMAIN byId
        /\ priors[b] = PriorValue(byId, b) /\ priors[d] = PriorValue(byId, d)
    BY DEF ConfigPrior
  <2>2. \A e, k : often(e, k) = Often(byId, e, k)
    BY DEF Often
  <2>3. \A m \in 1 .. Len(l) : Cardinality(Sized(byId[b], m)) = Cardinality(Sized(byId[d], m))
    <3>1. ASSUME NEW m \in 1 .. Len(l), NEW e \in {b, d}
          PROVE  sizes(e)[m] = Cardinality(Sized(byId[e], m))
      BY <1>2 DEF Sized
    <3>2. ASSUME NEW m \in 1 .. Len(l) PROVE sizes(b)[m] = sizes(d)[m]
      BY <1>14
    <3> HIDE DEF sizes
    <3> QED  BY <3>1, <3>2
  <2>4. \E k \in Involved(d), e \in DOMAIN byId :
          e[k] # <<>> /\ Often(byId, d, k) < Often(byId, e, k)
    <3>1. PICK k \in Involved(d), e \in DOMAIN byId : e[k] # <<>> /\ ~ (often(e, k) <= often(d, k))
      BY <1>14
    <3>2. Often(byId, e, k) \in 1 .. Len(l) /\ Often(byId, d, k) \in 1 .. Len(l)
      BY <1>2, <1>11, <2>1, OccurrencesAre DEF BlocksFit
    <3>3. ~ (Often(byId, e, k) <= Often(byId, d, k))
      <4> HIDE DEF often
      <4> QED  BY <2>2, <3>1
    <3>4. Often(byId, d, k) < Often(byId, e, k)
      BY <3>2, <3>3
    <3> QED  BY <3>1, <3>4
  <2>5. \A k \in Involved(b) : b[k] # <<>> /\ d[k] # <<>> /\ Often(byId, b, k) <= Often(byId, d, k)
    <3> HIDE DEF often
    <3> QED  BY <1>14, <2>2
  <2>6. Rarer(byId, Len(l), b, d)
    BY <2>3, <2>4, <2>5 DEF Rarer
  <2> HIDE DEF priors, sizes, often, most
  <2> QED  BY <1>2, <1>11, <2>1, <2>6, PriorValueOrder
<1>15. RareFavoured'
  BY <1>6, <1>12, <1>14 DEF RareFavoured
<1> QED  BY <1>13, <1>15

\* RareFavoured, of given blocks and so many records.
Favours(given, len) ==
  LET of == given.of
      sizes(b) == [n \in 1 .. len |->
                     Cardinality({cl \in of[b] : Cardinality(cl.members) = n})]
      often(b, k) == Cardinality({d \in DOMAIN of : d[k] = b[k]})
      most(b) == \A k \in Involved(b), d \in DOMAIN of : d[k] = <<>> \/ often(d, k) <= often(b, k)
  IN  \A b, d \in DOMAIN given.prior :
        /\ sizes(b) = sizes(d) /\ ~ most(d)
        /\ \A k \in Involved(b) : b[k] # <<>> /\ d[k] # <<>> /\ often(b, k) <= often(d, k)
        => PriorToUse(given.prior[b]) >= PriorToUse(given.prior[d])

LEMMA RareFavouredIs == RareFavoured <=> (pc = "compare" => Favours(blocks, Len(records)))
BY Zenon DEF RareFavoured, Favours

LEMMA PriorsInvNext ==
  ASSUME NameInv, PriorsInv, [Next]_vars
  PROVE  PriorsInv'
<1> USE DEF PriorsInv
<1>1. CASE TrainByName \/ Reconfigure \/ ConfigRound \/ NoMoreRounds \/ SwitchOn \/ TrainByPatent
  BY <1>1 DEF RoundInv, Working, PriorsUsable, RareFavoured, TrainByName, Reconfigure, ConfigRound,
              NoMoreRounds, SwitchOn, TrainByPatent, held
<1>2. CASE PreparePersonal \/ PreparePatent \/ PrepareExits \/ Compose \/ Smooth \/ SmoothThrows
  BY <1>2 DEF RoundInv, Working, PriorsUsable, RareFavoured, PreparePersonal, PreparePatent,
              PrepareExits, Compose, Smooth, SmoothThrows
<1>3. CASE WriteFile \/ ReadFile \/ ReadThrows
  BY <1>3 DEF RoundInv, Working, PriorsUsable, RareFavoured, WriteFile, ReadFile, ReadThrows
<1>4. CASE SetUpBlocks
  <2>1. PriorsUsable' /\ RareFavoured'
    BY <1>4, SetUpBlocksStep
  <2>2. RoundInv'
    BY <1>4 DEF RoundInv, Working, SetUpBlocks
  <2> QED  BY <2>1, <2>2
<1>5. CASE Disambiguate \/ DisambiguateThrows \/ EndRound \/ Die \/ Restart
  BY <1>5 DEF RoundInv, Working, PriorsUsable, RareFavoured, Disambiguate, DisambiguateThrows,
              EndRound, Die, Restart
<1>6. CASE UNCHANGED vars
  <2>1. records' = records /\ pc' = pc /\ blocks' = blocks /\ round' = round
    BY <1>6 DEF vars, nameVars
  <2>2. RoundInv' /\ PriorsUsable'
    BY <1>6 DEF RoundInv, PriorsUsable, vars
  <2>3. RareFavoured'
    <3>1. (RareFavoured <=> (pc = "compare" => Favours(blocks, Len(records))))'
      BY RareFavouredIs, PTL
    <3> QED  BY <2>1, <3>1, RareFavouredIs
  <2> QED  BY <2>2, <2>3
<1> QED  BY <1>1, <1>2, <1>3, <1>4, <1>5, <1>6 DEF Next

\* Every block a worker may take has a prior, above 0 and below 1, whatever the counts
\* and the debug block file are (config_prior, get_initial_prior, get_prior_value).
THEOREM PriorsProved == Spec => []PriorsUsable
<1>1. Init => PriorsInv
  BY DEF Init, PriorsInv, RoundInv, Working, PriorsUsable, RareFavoured
<1>2. NameInv /\ PriorsInv /\ [Next]_vars => PriorsInv'
  BY PriorsInvNext
<1>3. PriorsInv => PriorsUsable
  BY DEF PriorsInv
<1> QED  BY <1>1, <1>2, <1>3, NameInvariant, PTL DEF Spec

\* Of two blocks with clusters of the same sizes, the one with the rarer parts does not
\* get the smaller prior, for all logarithms that keep the order of the counts: unless
\* all parts of the other are the most frequent (get_prior_value, Cluster::disambiguate).
THEOREM RareProved == Spec => []RareFavoured
<1>1. Init => PriorsInv
  BY DEF Init, PriorsInv, RoundInv, Working, PriorsUsable, RareFavoured
<1>2. NameInv /\ PriorsInv /\ [Next]_vars => PriorsInv'
  BY PriorsInvNext
<1>3. PriorsInv => RareFavoured
  BY DEF PriorsInv
<1> QED  BY <1>1, <1>2, <1>3, NameInvariant, PTL DEF Spec

-----------------------------------------------------------------------------
(* The numbers of the profiles: a mixed radix. *)

NodesStep(max, n, k) ==
  IF k = 0 THEN 1
  ELSE IF n[k - 1] >= MaxNodes \div (max[k] + 1) THEN 0 ELSE n[k - 1] * (max[k] + 1)
NodesUpTo(max) == CHOOSE n : n = [k \in 0 .. Len(max) |-> NodesStep(max, n, k)]

LEMMA NodesAre ==
  ASSUME NEW max \in Seq(Nat)
  PROVE  /\ Nodes(max) = NodesUpTo(max)[Len(max)]
         /\ NodesUpTo(max) \in [0 .. Len(max) -> Nat]
         /\ \A k \in 0 .. Len(max) : NodesUpTo(max)[k] = NodesStep(max, NodesUpTo(max), k)
<1> DEFINE L == Len(max)
           n == NodesUpTo(max)
           next == [e \in (1 .. L) \X Nat |->
                      IF e[2] >= MaxNodes \div (max[e[1]] + 1) THEN 0 ELSE e[2] * (max[e[1]] + 1)]
<1>1. L \in Nat /\ DOMAIN max = 1 .. L /\ \A k \in 1 .. L : max[k] \in Nat
  BY LenProperties
<1>2. next \in [(1 .. L) \X Nat -> Nat]
  <2>1. ASSUME NEW e \in (1 .. L) \X Nat PROVE e[2] * (max[e[1]] + 1) \in Nat
    <3>1. e[2] \in Nat /\ max[e[1]] + 1 \in Nat
      BY <1>1
    <3> QED  BY <3>1, ProductNat
  <2> QED  BY <2>1
<1>3. 1 \in Nat
  OBVIOUS
<1> HIDE DEF next, L, n
<1>4. PICK g \in [0 .. L -> Nat] : Recurs(g, L, 1, next)
  BY <1>1, <1>2, <1>3, RecursionOnNat
<1>5. g = [k \in 0 .. L |-> NodesStep(max, g, k)]
  <2>1. ASSUME NEW k \in 0 .. L PROVE g[k] = NodesStep(max, g, k)
    <3>1. CASE k = 0
      BY <1>4, <3>1 DEF Recurs, NodesStep
    <3>2. CASE k # 0
      <4>1. k \in 1 .. L /\ k - 1 \in 0 .. L
        BY <1>1, <3>2
      <4>2. g[k] = next[<<k, g[k - 1]>>] /\ g[k - 1] \in Nat
        BY <1>4, <4>1 DEF Recurs
      <4> QED  BY <3>2, <4>1, <4>2 DEF next, NodesStep
    <3> QED  BY <3>1, <3>2
  <2> QED  BY <2>1
<1>6. n = [k \in 0 .. L |-> NodesStep(max, n, k)]
  BY <1>5 DEF NodesUpTo, n, L
<1>7. \A k \in 0 .. L : n[k] = NodesStep(max, n, k)
  BY <1>6
<1> DEFINE P == {k \in 0 .. L : n[k] \in Nat}
<1>8. 0 \in P
  BY <1>1, <1>7 DEF NodesStep
<1>9. ASSUME NEW k \in 1 .. L, k - 1 \in P PROVE k \in P
  <2>1. n[k - 1] \in Nat /\ max[k] + 1 \in Nat
    BY <1>1, <1>9
  <2>2. n[k - 1] * (max[k] + 1) \in Nat
    BY <2>1, ProductNat
  <2>3. k \in 0 .. L /\ k # 0
    BY <1>1
  <2>4. n[k] = NodesStep(max, n, k)
    BY <1>7, <2>3
  <2>5. n[k] \in Nat
    BY <2>2, <2>3, <2>4 DEF NodesStep
  <2> QED  BY <2>3, <2>5
<1> HIDE DEF P
<1>10. 0 .. L \subseteq P
  BY <1>1, <1>8, <1>9, IntervalInduction
<1>11. n \in [0 .. L -> Nat]
  BY <1>6, <1>10 DEF P
<1>12. Nodes(max) = n[L]
  BY DEF Nodes, NodesUpTo, NodesStep, n, L
<1> QED  BY <1>7, <1>11, <1>12 DEF n, L

\* Below the bound, the number of nodes is the product of the ranges.
Radix(max, n) ==
  /\ Len(max) \in Nat /\ DOMAIN max = 1 .. Len(max)
  /\ \A k \in 1 .. Len(max) : max[k] \in Nat
  /\ n \in [0 .. Len(max) -> Nat]
  /\ n[0] = 1 /\ n[Len(max)] = Nodes(max)
  /\ \A k \in 0 .. Len(max) : n[k] >= 1
  /\ \A k \in 1 .. Len(max) : n[k] = n[k - 1] * (max[k] + 1)

LEMMA NodesRadix ==
  ASSUME NEW max \in Seq(Nat), Nodes(max) # 0
  PROVE  Radix(max, NodesUpTo(max))
<1> DEFINE L == Len(max)
           n == NodesUpTo(max)
           P == {k \in 0 .. L : n[k] # 0}
<1>1. L \in Nat /\ DOMAIN max = 1 .. L /\ \A k \in 1 .. L : max[k] \in Nat
  BY LenProperties
<1>2. /\ Nodes(max) = n[L] /\ n \in [0 .. L -> Nat]
      /\ \A k \in 0 .. L : n[k] = NodesStep(max, n, k)
  BY NodesAre
<1>3. L \in P
  BY <1>1, <1>2
<1> HIDE DEF L, n
<1>4. ASSUME NEW k \in 1 .. L, n[k] # 0
      PROVE  n[k - 1] # 0 /\ n[k] = n[k - 1] * (max[k] + 1)
  <2>1. n[k] = n[k - 1] * (max[k] + 1)
    BY <1>1, <1>2, <1>4 DEF NodesStep
  <2>2. n[k - 1] = 0 => n[k - 1] * (max[k] + 1) = 0
    BY <1>1
  <2> QED  BY <1>4, <2>1, <2>2
<1>5. ASSUME NEW k \in 1 .. L, k \in P PROVE k - 1 \in P
  BY <1>1, <1>4, <1>5
<1> HIDE DEF P
<1>6. 0 .. L \subseteq P
  BY <1>1, <1>3, <1>5, IntervalInductionDown
<1>7. \A k \in 0 .. L : n[k] >= 1
  BY <1>2, <1>6 DEF P
<1>8. \A k \in 1 .. L : n[k] = n[k - 1] * (max[k] + 1)
  BY <1>1, <1>4, <1>6 DEF P
<1>9. n[0] = 1
  BY <1>1, <1>2 DEF NodesStep
<1> QED  BY <1>1, <1>2, <1>7, <1>8, <1>9 DEF Radix, n, L

\* The profiles up to the maximum.
Box(max) == {sp \in [DOMAIN max -> Nat] : \A k \in DOMAIN max : sp[k] <= max[k]}

IndexStep(sp, max, n, k) == IF k = 0 THEN 0 ELSE n[k - 1] * (max[k] + 1) + sp[k]
IndexUpTo(sp, max) == CHOOSE n : n = [k \in 0 .. Len(max) |-> IndexStep(sp, max, n, k)]

LEMMA IndexAre ==
  ASSUME NEW max, NEW n, Radix(max, n), NEW sp \in Box(max)
  PROVE  /\ Index(sp, max) = IndexUpTo(sp, max)[Len(max)]
         /\ IndexUpTo(sp, max)[0] = 0
         /\ \A k \in 0 .. Len(max) : IndexUpTo(sp, max)[k] \in 0 .. n[k] - 1
         /\ \A k \in 1 .. Len(max) :
              IndexUpTo(sp, max)[k] = IndexUpTo(sp, max)[k - 1] * (max[k] + 1) + sp[k]
<1> DEFINE L == Len(max)
           i == IndexUpTo(sp, max)
           next == [e \in (1 .. L) \X Nat |-> e[2] * (max[e[1]] + 1) + sp[e[1]]]
<1>1. /\ L \in Nat /\ DOMAIN max = 1 .. L
      /\ \A k \in 1 .. L : max[k] \in Nat /\ sp[k] \in 0 .. max[k]
  BY DEF Radix, Box
<1>2. /\ n \in [0 .. L -> Nat] /\ n[0] = 1
      /\ \A k \in 1 .. L : n[k] = n[k - 1] * (max[k] + 1)
  BY DEF Radix
<1>3. next \in [(1 .. L) \X Nat -> Nat] /\ 0 \in Nat
  <2>1. ASSUME NEW e \in (1 .. L) \X Nat PROVE e[2] * (max[e[1]] + 1) + sp[e[1]] \in Nat
    <3>1. e[2] \in Nat /\ max[e[1]] + 1 \in Nat /\ sp[e[1]] \in Nat
      BY <1>1
    <3>2. e[2] * (max[e[1]] + 1) \in Nat
      BY <3>1, ProductNat
    <3> QED  BY <3>1, <3>2
  <2> QED  BY <2>1
<1> HIDE DEF next, L, i
<1>4. PICK g \in [0 .. L -> Nat] : Recurs(g, L, 0, next)
  BY <1>1, <1>3, RecursionOnNat
<1>5. g = [k \in 0 .. L |-> IndexStep(sp, max, g, k)]
  <2>1. ASSUME NEW k \in 0 .. L PROVE g[k] = IndexStep(sp, max, g, k)
    <3>1. CASE k = 0
      BY <1>4, <3>1 DEF Recurs, IndexStep
    <3>2. CASE k # 0
      <4>1. k \in 1 .. L /\ k - 1 \in 0 .. L
        BY <1>1, <3>2
      <4>2. g[k] = next[<<k, g[k - 1]>>] /\ g[k - 1] \in Nat
        BY <1>4, <4>1 DEF Recurs
      <4> QED  BY <3>2, <4>1, <4>2 DEF next, IndexStep
    <3> QED  BY <3>1, <3>2
  <2> QED  BY <2>1
<1>6. i = [k \in 0 .. L |-> IndexStep(sp, max, i, k)]
  BY <1>5 DEF IndexUpTo, i, L
<1>7. \A k \in 0 .. L : i[k] = IndexStep(sp, max, i, k)
  BY <1>6
<1>8. i[0] = 0
  BY <1>1, <1>7 DEF IndexStep
<1>9. ASSUME NEW k \in 1 .. L PROVE i[k] = i[k - 1] * (max[k] + 1) + sp[k]
  <2>1. k \in 0 .. L /\ k # 0
    BY <1>1
  <2> QED  BY <1>7, <2>1 DEF IndexStep
<1> DEFINE P == {k \in 0 .. L : i[k] \in 0 .. n[k] - 1}
<1>10. 0 \in P
  BY <1>1, <1>2, <1>8
<1>11. ASSUME NEW k \in 1 .. L, k - 1 \in P PROVE k \in P
  <2>1. /\ i[k - 1] \in Nat /\ n[k - 1] \in Nat /\ i[k - 1] + 1 <= n[k - 1]
        /\ max[k] + 1 \in Nat /\ sp[k] \in Nat /\ sp[k] < max[k] + 1
    <3>1. k - 1 \in 0 .. L /\ i[k - 1] \in 0 .. n[k - 1] - 1
      BY <1>11
    <3>2. n[k - 1] \in Nat
      BY <1>2, <3>1
    <3>3. max[k] \in Nat /\ sp[k] \in 0 .. max[k]
      BY <1>1
    <3> QED  BY <3>1, <3>2, <3>3
  <2> DEFINE a == i[k - 1]
             r == max[k] + 1
             m == n[k - 1]
             s == sp[k]
  <2>2. a \in Nat /\ m \in Nat /\ a + 1 <= m /\ r \in Nat /\ s \in Nat /\ s < r
    BY <2>1
  <2>3. i[k] = a * r + s /\ n[k] = m * r
    BY <1>2, <1>9
  <2> HIDE DEF a, r, m, s
  <2>4. (a + 1) * r <= m * r /\ (a + 1) * r = a * r + r
    BY <2>2, ProductUp
  <2>5. a * r \in Nat /\ m * r \in Nat
    BY <2>2, ProductNat
  <2>6. a * r + s \in Nat /\ a * r + s < m * r
    BY <2>2, <2>4, <2>5
  <2> QED  BY <1>1, <2>3, <2>5, <2>6
<1> HIDE DEF P
<1>12. 0 .. L \subseteq P
  BY <1>1, <1>10, <1>11, IntervalInduction
<1>13. Index(sp, max) = i[L]
  BY DEF Index, IndexUpTo, IndexStep, i, L
<1> QED  BY <1>8, <1>9, <1>12, <1>13 DEF P, i, L

RestStep(index, max, n, k) == IF k = Len(max) THEN index ELSE n[k + 1] \div (max[k + 1] + 1)
RestFrom(index, max) == CHOOSE n : n = [k \in DOMAIN max |-> RestStep(index, max, n, k)]

LEMMA RestAre ==
  ASSUME NEW max, NEW n, Radix(max, n), Len(max) # 0, NEW index \in 0 .. Nodes(max) - 1
  PROVE  /\ IndexToSp(index, max)
              = [k \in DOMAIN max |-> RestFrom(index, max)[k] % (max[k] + 1)]
         /\ RestFrom(index, max)[Len(max)] = index
         /\ \A k \in 1 .. Len(max) : RestFrom(index, max)[k] \in 0 .. n[k] - 1
         /\ \A k \in 1 .. Len(max) - 1 :
              RestFrom(index, max)[k] = RestFrom(index, max)[k + 1] \div (max[k + 1] + 1)
<1> DEFINE L == Len(max)
           d == RestFrom(index, max)
           next == [e \in (1 .. L - 1) \X Nat |-> e[2] \div (max[L - e[1] + 1] + 1)]
<1>1. /\ L \in Nat \ {0} /\ DOMAIN max = 1 .. L /\ \A k \in 1 .. L : max[k] \in Nat
      /\ n \in [0 .. L -> Nat] /\ n[L] = Nodes(max)
      /\ \A k \in 0 .. L : n[k] >= 1
      /\ \A k \in 1 .. L : n[k] = n[k - 1] * (max[k] + 1)
  BY DEF Radix
<1>2. next \in [(1 .. L - 1) \X Nat -> Nat]
  <2>1. ASSUME NEW e \in (1 .. L - 1) \X Nat PROVE e[2] \div (max[L - e[1] + 1] + 1) \in Nat
    <3>1. e[2] \in Nat /\ L - e[1] + 1 \in 1 .. L
      BY <1>1
    <3>2. max[L - e[1] + 1] + 1 \in Nat /\ max[L - e[1] + 1] + 1 >= 1
      BY <1>1, <3>1
    <3>3. IsDiv(e[2], max[L - e[1] + 1] + 1, e[2] \div (max[L - e[1] + 1] + 1),
                e[2] % (max[L - e[1] + 1] + 1))
      BY <3>1, <3>2, DivMod
    <3> QED  BY <3>3 DEF IsDiv
  <2> QED  BY <2>1
<1>3. L - 1 \in Nat /\ index \in Nat
  BY <1>1
<1> HIDE DEF next, L, d
<1>4. PICK g \in [0 .. L - 1 -> Nat] : Recurs(g, L - 1, index, next)
  BY <1>2, <1>3, RecursionOnNat
<1> DEFINE h == [k \in 1 .. L |-> g[L - k]]
<1>5. h = [k \in DOMAIN max |-> RestStep(index, max, h, k)]
  <2>1. ASSUME NEW k \in 1 .. L PROVE h[k] = RestStep(index, max, h, k)
    <3>1. CASE k = L
      BY <1>1, <1>4, <3>1 DEF Recurs, RestStep, L
    <3>2. CASE k # L
      <4>1. /\ L - k \in 1 .. L - 1 /\ k + 1 \in 1 .. L
            /\ (L - k) - 1 = L - (k + 1) /\ L - (L - k) + 1 = k + 1 /\ L - (k + 1) \in 0 .. L - 1
        BY <1>1, <3>2
      <4>2. g[L - k] = next[<<L - k, g[(L - k) - 1]>>]
        BY <1>4, <4>1 DEF Recurs
      <4>3. g[L - (k + 1)] \in Nat
        BY <1>4, <4>1
      <4>4. next[<<L - k, g[L - (k + 1)]>>] = g[L - (k + 1)] \div (max[L - (L - k) + 1] + 1)
        BY <4>1, <4>3 DEF next
      <4>5. g[L - k] = g[L - (k + 1)] \div (max[k + 1] + 1)
        BY <4>1, <4>2, <4>4
      <4>6. h[k] = g[L - k] /\ h[k + 1] = g[L - (k + 1)]
        BY <4>1
      <4> HIDE DEF h
      <4> QED  BY <3>2, <4>5, <4>6 DEF RestStep, L
    <3> QED  BY <3>1, <3>2
  <2>2. h = [k \in 1 .. L |-> h[k]]
    OBVIOUS
  <2> HIDE DEF h
  <2> QED  BY <1>1, <2>1, <2>2
<1> HIDE DEF h
<1>6. d = [k \in DOMAIN max |-> RestStep(index, max, d, k)]
  BY <1>5 DEF RestFrom, d
<1>7. \A k \in 1 .. L : d[k] = RestStep(index, max, d, k)
  BY <1>1, <1>6
<1>8. d[L] = index
  <2>1. L \in 1 .. L
    BY <1>1
  <2>2. RestStep(index, max, d, L) = index
    BY DEF RestStep, L
  <2> QED  BY <1>7, <2>1, <2>2
<1>9. ASSUME NEW k \in 1 .. L - 1 PROVE d[k] = d[k + 1] \div (max[k + 1] + 1)
  <2>1. k \in 1 .. L /\ k # L
    BY <1>1
  <2> QED  BY <1>7, <2>1 DEF RestStep, L
<1> DEFINE P == {k \in 0 .. L - 1 : d[k + 1] \in 0 .. n[k + 1] - 1}
<1>10. L - 1 \in P
  <2>1. L - 1 + 1 = L /\ L - 1 \in 0 .. L - 1
    BY <1>1
  <2> QED  BY <1>1, <1>8, <2>1
<1>11. ASSUME NEW k \in 1 .. L - 1, k \in P PROVE k - 1 \in P
  <2>1. k + 1 \in 1 .. L /\ k \in 1 .. L /\ (k + 1) - 1 = k /\ (k - 1) + 1 = k
    BY <1>1
  <2> DEFINE a == d[k + 1]
             r == max[k + 1] + 1
             m == n[k]
  <2>2. n[k + 1] = m * r /\ a \in 0 .. n[k + 1] - 1 /\ d[k] = a \div r
    BY <1>1, <1>9, <1>11, <2>1
  <2>3. r \in Nat /\ r >= 1 /\ m \in Nat
    <3>0. \A j \in 1 .. L : max[j] \in Nat
      BY <1>1
    <3>1. max[k + 1] \in Nat /\ k \in 0 .. L
      BY <2>1, <3>0
    <3>2. n[k] \in Nat
      BY <1>1, <3>1
    <3> QED  BY <3>1, <3>2
  <2> HIDE DEF a, r, m
  <2>4. m * r \in Nat
    BY <2>3, ProductNat
  <2>5. a \in Nat /\ a < m * r
    BY <2>2, <2>4
  <2>6. a \div r < m
    BY <2>3, <2>5, DivBound
  <2>7. a \div r \in Nat
    BY <2>3, <2>5, DivMod DEF IsDiv
  <2>8. d[k] \in 0 .. m - 1
    <3>1. d[k] \in Nat /\ d[k] < m
      BY <2>2, <2>6, <2>7
    <3> QED  BY <2>3, <3>1
  <2> QED  BY <1>1, <2>1, <2>8 DEF m
<1> HIDE DEF P
<1>12. 0 .. L - 1 \subseteq P
  BY <1>3, <1>10, <1>11, IntervalInductionDown
<1>13. ASSUME NEW k \in 1 .. L PROVE d[k] \in 0 .. n[k] - 1
  <2>1. k - 1 \in 0 .. L - 1 /\ (k - 1) + 1 = k
    BY <1>1
  <2> QED  BY <1>12, <2>1 DEF P
<1>14. IndexToSp(index, max) = [k \in DOMAIN max |-> d[k] % (max[k] + 1)]
  BY DEF IndexToSp, RestFrom, RestStep, d
<1> QED  BY <1>8, <1>9, <1>13, <1>14 DEF d, L

\* Numbers and profiles are two names of the same nodes.
LEMMA RadixIs ==
  ASSUME NEW max \in Seq(Nat), Len(max) # 0, Nodes(max) # 0
  PROVE  /\ \A i \in 0 .. Nodes(max) - 1 :
              IndexToSp(i, max) \in Box(max) /\ Index(IndexToSp(i, max), max) = i
         /\ \A sp \in Box(max) :
              Index(sp, max) \in 0 .. Nodes(max) - 1 /\ IndexToSp(Index(sp, max), max) = sp
         /\ Nodes(max) \in Nat
<1> DEFINE L == Len(max)
           n == NodesUpTo(max)
           N == Nodes(max)
<1>1. Radix(max, n)
  BY NodesRadix
<1>2. /\ L \in Nat \ {0} /\ DOMAIN max = 1 .. L /\ \A k \in 1 .. L : max[k] \in Nat
      /\ n \in [0 .. L -> Nat] /\ n[0] = 1 /\ n[L] = N /\ N \in Nat
      /\ \A k \in 1 .. L : n[k] = n[k - 1] * (max[k] + 1)
  BY <1>1 DEF Radix
<1> HIDE DEF L, n, N
<1>3. ASSUME NEW i \in 0 .. N - 1
      PROVE  IndexToSp(i, max) \in Box(max) /\ Index(IndexToSp(i, max), max) = i
  <2> DEFINE d == RestFrom(i, max)
             sp == IndexToSp(i, max)
             x == IndexUpTo(sp, max)
  <2>1. /\ sp = [k \in DOMAIN max |-> d[k] % (max[k] + 1)]
        /\ d[L] = i
        /\ \A k \in 1 .. L : d[k] \in 0 .. n[k] - 1
        /\ \A k \in 1 .. L - 1 : d[k] = d[k + 1] \div (max[k + 1] + 1)
    BY <1>1, <1>2, RestAre DEF L, N
  <2> HIDE DEF d
  <2>2. ASSUME NEW k \in 1 .. L
        PROVE  /\ d[k] \in Nat /\ max[k] + 1 \in Nat /\ max[k] + 1 >= 1
               /\ IsDiv(d[k], max[k] + 1, d[k] \div (max[k] + 1), d[k] % (max[k] + 1))
    <3>1. max[k] + 1 \in Nat /\ max[k] + 1 >= 1
      BY <1>2
    <3>2. d[k] \in Nat
      BY <1>2, <2>1
    <3> QED  BY <3>1, <3>2, DivMod
  <2> HIDE DEF sp
  <2>3. ASSUME NEW k \in 1 .. L PROVE sp[k] = d[k] % (max[k] + 1) /\ sp[k] \in 0 .. max[k]
    <3>1. sp[k] = d[k] % (max[k] + 1)
      BY <1>2, <2>1
    <3>2. d[k] % (max[k] + 1) \in 0 .. max[k]
      <4>1. d[k] % (max[k] + 1) \in 0 .. (max[k] + 1) - 1
        BY <2>2 DEF IsDiv
      <4>2. (max[k] + 1) - 1 = max[k]
        BY <1>2
      <4> QED  BY <4>1, <4>2
    <3> QED  BY <3>1, <3>2
  <2>4. sp \in Box(max)
    <3>1. sp = [k \in 1 .. L |-> sp[k]]
      BY <1>2, <2>1
    <3>2. sp \in [1 .. L -> Nat] /\ \A k \in 1 .. L : sp[k] <= max[k]
      BY <1>2, <2>3, <3>1
    <3> QED  BY <1>2, <3>2 DEF Box
  <2>5. /\ Index(sp, max) = x[L] /\ x[0] = 0
        /\ \A k \in 0 .. L : x[k] \in 0 .. n[k] - 1
        /\ \A k \in 1 .. L : x[k] = x[k - 1] * (max[k] + 1) + sp[k]
    BY <1>1, <2>4, IndexAre DEF L
  <2> HIDE DEF x
  <2> DEFINE P == {k \in 0 .. L - 1 : x[k + 1] = d[k + 1]}
  <2>6. 0 \in P
    <3>1. 1 \in 1 .. L /\ 0 \in 0 .. L - 1
      BY <1>2
    <3>2. n[1] = max[1] + 1
      <4>1. n[1] = n[0] * (max[1] + 1) /\ 1 - 1 = 0
        BY <1>2, <3>1
      <4> QED  BY <1>2, <3>1, <4>1
    <3>3. x[1] = sp[1]
      <4> DEFINE r == max[1] + 1
                 s == sp[1]
      <4>1. x[1] = x[1 - 1] * r + s
        BY <2>5, <3>1
      <4>2. r \in Nat /\ s \in Nat
        BY <1>2, <2>3, <3>1
      <4>3. x[1 - 1] = 0
        BY <2>5
      <4> HIDE DEF r, s
      <4>4. 0 * r + s = s
        BY <4>2
      <4>5. x[1] = s
        BY <4>1, <4>3, <4>4
      <4> QED  BY <4>5 DEF s
    <3>4. d[1] % (max[1] + 1) = d[1]
      <4> DEFINE a == d[1]
                 r == max[1] + 1
      <4>1. a \in 0 .. r - 1 /\ r \in Nat
        BY <2>1, <2>2, <3>1, <3>2
      <4> HIDE DEF a, r
      <4>2. IsDiv(a, r, 0, a)
        <5>1. a = 0 * r + a
          BY <4>1
        <5> QED  BY <4>1, <5>1 DEF IsDiv
      <4>3. a % r = a
        BY ONLY <4>1, <4>2, DivIs
      <4> QED  BY <4>3 DEF a, r
    <3> QED  BY <2>3, <3>1, <3>3, <3>4
  <2>7. ASSUME NEW k \in 1 .. L - 1, k - 1 \in P PROVE k \in P
    <3>1. k + 1 \in 1 .. L /\ k \in 1 .. L /\ (k - 1) + 1 = k /\ (k + 1) - 1 = k
      BY <1>2
    <3>2. x[k] = d[k]
      BY <2>7, <3>1
    <3> DEFINE a == d[k + 1]
               r == max[k + 1] + 1
               q == a \div r
               s == a % r
    <3>3. x[k + 1] = x[k] * r + sp[k + 1]
      BY <2>5, <3>1
    <3>4. IsDiv(a, r, q, s)
      BY <2>2, <3>1
    <3>5. d[k] = q
      BY <2>1
    <3>6. sp[k + 1] = s
      BY <2>3, <3>1
    <3> HIDE DEF r, q, s
    <3>7. x[k + 1] = q * r + s
      BY <3>2, <3>3, <3>5, <3>6
    <3>8. a = q * r + s
      BY <3>4 DEF IsDiv
    <3>9. x[k + 1] = d[k + 1]
      BY <3>7, <3>8
    <3> QED  BY <1>2, <3>9
  <2> HIDE DEF P
  <2>8. 0 .. L - 1 \subseteq P
    <3>1. L - 1 \in Nat
      BY <1>2
    <3> QED  BY <2>6, <2>7, <3>1, IntervalInduction
  <2>9. x[L] = d[L]
    <3>1. L - 1 \in P /\ (L - 1) + 1 = L
      BY <1>2, <2>8
    <3> QED  BY <3>1 DEF P
  <2> QED  BY <2>1, <2>4, <2>5, <2>9 DEF sp
<1>4. ASSUME NEW sp \in Box(max)
      PROVE  Index(sp, max) \in 0 .. N - 1 /\ IndexToSp(Index(sp, max), max) = sp
  <2> DEFINE x == IndexUpTo(sp, max)
             i == Index(sp, max)
             d == RestFrom(i, max)
  <2>1. /\ i = x[L] /\ x[0] = 0
        /\ \A k \in 0 .. L : x[k] \in 0 .. n[k] - 1
        /\ \A k \in 1 .. L : x[k] = x[k - 1] * (max[k] + 1) + sp[k]
    BY <1>1, IndexAre DEF L
  <2>2. i \in 0 .. N - 1
    BY <1>2, <2>1
  <2> HIDE DEF x, i
  <2>3. /\ IndexToSp(i, max) = [k \in DOMAIN max |-> d[k] % (max[k] + 1)]
        /\ d[L] = i
        /\ \A k \in 1 .. L - 1 : d[k] = d[k + 1] \div (max[k + 1] + 1)
    BY <1>1, <1>2, <2>2, RestAre DEF L, N
  <2> HIDE DEF d
  <2>4. ASSUME NEW k \in 1 .. L PROVE sp[k] \in 0 .. max[k] /\ sp[k] \in Nat
    <3>1. sp \in [1 .. L -> Nat] /\ sp[k] <= max[k]
      BY <1>2 DEF Box
    <3>2. sp[k] \in Nat /\ max[k] \in Nat
      BY <1>2, <3>1
    <3> QED  BY <3>1, <3>2
  <2>5. ASSUME NEW k \in 1 .. L
        PROVE  x[k] \div (max[k] + 1) = x[k - 1] /\ x[k] % (max[k] + 1) = sp[k]
    <3> DEFINE a == x[k]
               q == x[k - 1]
               r == max[k] + 1
               s == sp[k]
    <3>1. q \in Nat
      <4>1. k - 1 \in 0 .. L
        BY <1>2
      <4>2. n[k - 1] \in Nat /\ q \in 0 .. n[k - 1] - 1
        BY <1>2, <2>1, <4>1
      <4> QED  BY <4>2
    <3>2. r \in Nat /\ s \in 0 .. r - 1
      <4>1. max[k] \in Nat /\ sp[k] \in 0 .. max[k]
        BY <1>2, <2>4
      <4> QED  BY <4>1
    <3>3. a = q * r + s
      BY <2>1
    <3> HIDE DEF a, q, r, s
    <3>4. IsDiv(a, r, q, s)
      BY ONLY <3>1, <3>2, <3>3 DEF IsDiv
    <3>5. a \div r = q /\ a % r = s
      BY ONLY <3>2, <3>4, DivIs
    <3> QED  BY <3>5 DEF a, q, r, s
  <2> DEFINE P == {k \in 0 .. L - 1 : x[k + 1] = d[k + 1]}
  <2>6. L - 1 \in P
    <3>1. L - 1 \in 0 .. L - 1 /\ (L - 1) + 1 = L
      BY <1>2
    <3> QED  BY <2>1, <2>3, <3>1
  <2>7. ASSUME NEW k \in 1 .. L - 1, k \in P PROVE k - 1 \in P
    <3>1. k + 1 \in 1 .. L /\ (k + 1) - 1 = k /\ (k - 1) + 1 = k /\ k - 1 \in 0 .. L - 1
      BY <1>2
    <3>2. x[k + 1] = d[k + 1]
      BY <2>7
    <3>3. x[k + 1] \div (max[k + 1] + 1) = x[k]
      BY <2>5, <3>1
    <3>4. d[k] = d[k + 1] \div (max[k + 1] + 1)
      BY <2>3
    <3>5. x[k] = d[k]
      BY ONLY <3>2, <3>3, <3>4
    <3> QED  BY <3>1, <3>5
  <2> HIDE DEF P
  <2>8. 0 .. L - 1 \subseteq P
    <3>1. L - 1 \in Nat
      BY <1>2
    <3> QED  BY <2>6, <2>7, <3>1, IntervalInductionDown
  <2>9. ASSUME NEW k \in 1 .. L PROVE d[k] % (max[k] + 1) = sp[k]
    <3>1. k - 1 \in 0 .. L - 1 /\ (k - 1) + 1 = k
      BY <1>2
    <3>2. x[k] = d[k]
      BY <2>8, <3>1 DEF P
    <3> QED  BY <2>5, <3>2
  <2>10. sp = [k \in 1 .. L |-> sp[k]]
    BY <1>2 DEF Box
  <2>11. IndexToSp(i, max) = sp
    BY <1>2, <2>3, <2>9, <2>10
  <2> QED  BY <2>2, <2>11 DEF i
<1> QED  BY <1>2, <1>3, <1>4 DEF N

-----------------------------------------------------------------------------
(* The profiles of two records. *)

LEMMA CapIs ==
  ASSUME NEW score \in Nat, NEW c, MaxValue[c] \in Nat
  PROVE  Cap(score, c) \in 0 .. MaxValue[c]
BY DEF Cap

LEMMA SmallCount ==
  ASSUME NEW S, IsFiniteSet(S), NEW T, T \subseteq S
  PROVE  Cardinality(T) \in 0 .. Cardinality(S)
BY FS_Subset, FS_CardinalityType

LEMMA FourCounted ==
  ASSUME NEW T, T \subseteq {1, 10, 25, 50}
  PROVE  Cardinality(T) \in 0 .. 4
<1> DEFINE f == <<1, 10, 25, 50>>
<1>1. IsFiniteSet(1 .. 4) /\ Cardinality(1 .. 4) = 4
  BY IntervalCard
<1>2. {f[x] : x \in 1 .. 4} = {1, 10, 25, 50}
  OBVIOUS
<1> HIDE DEF f
<1>3. IsFiniteSet({1, 10, 25, 50}) /\ Cardinality({1, 10, 25, 50}) <= 4
  BY <1>1, <1>2, ImageFinite
<1>4. Cardinality(T) \in 0 .. Cardinality({1, 10, 25, 50})
  BY <1>3, SmallCount
<1>5. Cardinality({1, 10, 25, 50}) \in Nat
  BY <1>3, FS_CardinalityType
<1> QED  BY <1>3, <1>4, <1>5

LEMMA FiveCounted ==
  ASSUME NEW T, T \subseteq {70, 80, 90, 95, 99}
  PROVE  Cardinality(T) \in Nat
<1> DEFINE f == <<70, 80, 90, 95, 99>>
<1>1. IsFiniteSet(1 .. 5)
  BY IntervalCard
<1>2. {f[x] : x \in 1 .. 5} = {70, 80, 90, 95, 99}
  OBVIOUS
<1> HIDE DEF f
<1>3. IsFiniteSet({70, 80, 90, 95, 99})
  BY <1>1, <1>2, ImageFinite
<1> QED  BY <1>3, FS_Subset, FS_CardinalityType

LEMMA MidnameIs == ASSUME NEW s, NEW t PROVE MidnameCompare(s, t) \in Nat
BY DEF MidnameCompare

LEMMA NameIs == ASSUME NEW s, NEW t, NEW p, NEW q PROVE NameCompare(s, t, p, q) \in Nat
BY DEF NameCompare

LEMMA JaroIs == ASSUME NEW s, NEW t PROVE JaroCompare(s, t) \in Nat
<1>1. {x \in {70, 80, 90, 95, 99} : Jaro(s, t) > x} \subseteq {70, 80, 90, 95, 99}
  OBVIOUS
<1>2. Cardinality({x \in {70, 80, 90, 95, 99} : Jaro(s, t) > x}) \in Nat
  BY <1>1, FiveCounted
<1> QED  BY <1>2 DEF JaroCompare

LEMMA AssigneeIs == ASSUME NEW s, NEW t PROVE AssigneeNames(s, t) \in Nat
BY DEF AssigneeNames

LEMMA DistanceIs == ASSUME NEW p, NEW q PROVE Distance(p, q) \in 1 .. 5
<1>1. {x \in {1, 10, 25, 50} : Miles(p, q) < x} \subseteq {1, 10, 25, 50}
  OBVIOUS
<1>2. Cardinality({x \in {1, 10, 25, 50} : Miles(p, q) < x}) \in 0 .. 4
  BY <1>1, FourCounted
<1> QED  BY <1>2 DEF Distance

\* Sets that are compared are finite.
LEMMA SetsFinite ==
  ASSUME RecordsInv, pc # "names", NEW i \in DOMAIN records, NEW c \in {"Class", "Coauthor"},
         c \in DOMAIN Group
  PROVE  IsFiniteSet(records[i][c])
<1>1. PICK l \in Lists : records = Reconfigured(AsRead(l))
  BY DEF RecordsInv
<1> DEFINE a == AsRead(l)
<1>2. /\ DOMAIN l = 1 .. Len(l) /\ Len(l) \in Nat
      /\ DOMAIN a = DOMAIN l /\ DOMAIN Reconfigured(a) = DOMAIN l
      /\ DOMAIN a[i] = DOMAIN l[i] \cup {"Firstword", "Initials"}
      /\ DOMAIN Reconfigured(a)[i] = DOMAIN a[i]
      /\ \A d \in (DOMAIN l[i]) \ {"Firstword", "Middlename", "Initials"} :
           d # "Coauthor" => Reconfigured(a)[i][d] = l[i][d]
  BY <1>1, AsReadIs
<1>3. i \in DOMAIN l /\ DOMAIN l[i] = DOMAIN Group
      /\ ("Class" \in DOMAIN Group => IsFiniteSet(l[i]["Class"]))
  BY <1>1, <1>2, RatiosAssumption
<1>4. CASE c = "Class"
  <2>1. "Class" \in (DOMAIN l[i]) \ {"Firstword", "Middlename", "Initials"}
    BY <1>3, <1>4
  <2>2. Reconfigured(a)[i]["Class"] = l[i]["Class"]
    BY <1>2, <2>1
  <2> QED  BY <1>1, <1>3, <1>4, <2>2
<1>5. CASE c = "Coauthor"
  <2> DEFINE co == CoauthorNames(a, i)
             others == {j \in DOMAIN a : j # i /\ a[j]["Patent"] = a[i]["Patent"]}
             f == [j \in others |-> <<FirstWordOf(a[j]["Firstname"]), FlattenSeq(a[j]["Lastname"])>>]
  <2>1. Reconfigured(a)[i] = [AsianNames(a[i]) EXCEPT !["Coauthor"] = co]
    BY <1>2, <1>3 DEF Reconfigured
  <2>2. "Coauthor" \in DOMAIN Reconfigured(a)[i]
    BY <1>2, <1>3, <1>5
  <2> HIDE DEF co
  <2>3. Reconfigured(a)[i]["Coauthor"] = co
    BY <2>1, <2>2
  <2>4. co = {f[j] : j \in others}
    BY DEF CoauthorNames, co
  <2>5. IsFiniteSet(1 .. Len(l)) /\ others \subseteq 1 .. Len(l)
    BY <1>2, IntervalCard
  <2>6. IsFiniteSet(others)
    BY <2>5, FS_Subset
  <2> HIDE DEF f, others
  <2>7. IsFiniteSet(co)
    BY <2>4, <2>6, ImageFinite
  <2> QED  BY <1>1, <1>5, <2>3, <2>7
<1> QED  BY <1>4, <1>5

\* A comparison has a value up to the largest of its column.
LEMMA CompareIs ==
  ASSUME RecordsInv, pc # "names", NEW c \in ToSet(Columns), Group[c] # "NONE",
         NEW i \in DOMAIN records, NEW j \in DOMAIN records, NEW trunc
  PROVE  Compare(records, trunc, c, i, j) \in 0 .. MaxValue[c]
<1> DEFINE r == records[i]
           s == records[j]
<1>1. c \in Compared /\ c \in DOMAIN Group /\ MaxValue[c] \in Nat /\ MaxValue[c] >= 1
  <2>3. ToSet(Columns) = DOMAIN Group
    BY RatiosAssumption
  <2>4. \A d \in DOMAIN Group : Group[d] # "NONE" => d \in Compared
    BY RatiosAssumption
  <2>5. \A d \in ToSet(Columns) : Group[d] # "NONE" => MaxValue[d] \in Nat \ {0}
    BY RatiosAssumption
  <2>1. /\ c \in DOMAIN Group
        /\ \A d \in DOMAIN Group : Group[d] # "NONE" => d \in Compared
        /\ \A d \in ToSet(Columns) : Group[d] # "NONE" => MaxValue[d] \in Nat \ {0}
    BY <2>3, <2>4, <2>5
  <2>2. MaxValue[c] \in Nat \ {0}
    BY <2>1
  <2> QED  BY <2>1, <2>2
<1>2. c \in {"Firstname", "Middlename", "Lastname", "Latitude", "Longitude", "Assignee", "Class",
             "Coauthor"}
  BY <1>1 DEF Compared, NameParts, ToSet
<1>3. MaxValue[c] \in 0 .. MaxValue[c] /\ 0 \in 0 .. MaxValue[c] /\ 1 \in Nat /\ 5 \in Nat /\ 6 \in Nat
  BY <1>1
<1>4. CASE c = "Firstname"
  <2>1. Cap(NameCompare(r["Firstword"], s["Firstword"], trunc, trunc), "Firstname")
          \in 0 .. MaxValue[c]
    BY <1>1, <1>4, NameIs, CapIs
  <2> QED  BY <1>3, <1>4, <2>1 DEF Compare, FirstnameCompare
<1>5. CASE c = "Middlename"
  <2>1. Cap(MidnameCompare(r[c], s[c]), c) \in 0 .. MaxValue[c]
    BY <1>1, MidnameIs, CapIs
  <2> QED  BY <1>5, <2>1 DEF Compare
<1>6. CASE c = "Lastname"
  <2>1. Cap(JaroCompare(r["Lastname"], s["Lastname"]), "Lastname") \in 0 .. MaxValue[c]
    BY <1>1, <1>6, JaroIs, CapIs
  <2> QED  BY <1>3, <1>6, <2>1 DEF Compare, LastnameCompare
<1>7. CASE c = "Latitude"
  <2>1. MaxValue["Latitude"] >= 5
    BY <1>1, <1>7, RatiosAssumption
  <2>2. Distance(Place(r), Place(s)) \in 1 .. 5
    BY DistanceIs
  <2>3. /\ Distance(Place(r), Place(s)) - 1 \in 0 .. MaxValue[c]
        /\ Distance(Place(r), Place(s)) \in 0 .. MaxValue[c]
    BY <1>1, <1>7, <2>1, <2>2
  <2> QED  BY <1>3, <1>7, <2>3 DEF Compare, LatitudeCompare
<1>8. CASE c = "Longitude"
  <2>1. Cap(1, "Longitude") \in 0 .. MaxValue[c]
    BY <1>1, <1>8, CapIs
  <2> QED  BY <1>3, <1>8, <2>1 DEF Compare, LongitudeCompare
<1>9. CASE c = "Assignee"
  <2>1. /\ Cap(1, "Assignee") \in 0 .. MaxValue[c] /\ Cap(5, "Assignee") \in 0 .. MaxValue[c]
        /\ Cap(6, "Assignee") \in 0 .. MaxValue[c]
    BY <1>1, <1>3, <1>9, CapIs
  <2>2. Cap(AssigneeNames(r["Assignee"], s["Assignee"]), "Assignee") \in 0 .. MaxValue[c]
    BY <1>1, <1>9, AssigneeIs, CapIs
  <2> QED  BY <1>9, <2>1, <2>2 DEF Compare, AssigneeCompare
<1>10. CASE c \in {"Class", "Coauthor"}
  <2>1. IsFiniteSet(r[c])
    BY <1>1, <1>10, SetsFinite
  <2>2. IsFiniteSet(r[c] \cap s[c])
    BY <2>1, FS_Subset
  <2>3. Cardinality(r[c] \cap s[c]) \in Nat
    BY <2>2, FS_CardinalityType
  <2>4. SetCompare(c, r, s) \in 0 .. MaxValue[c]
    BY <1>1, <2>3, CapIs DEF SetCompare
  <2> QED  BY <1>10, <2>4 DEF Compare
<1> QED  BY <1>2, <1>4, <1>5, <1>6, <1>7, <1>8, <1>9, <1>10

-----------------------------------------------------------------------------
(* The places of the columns in a profile.                                 *)

ActiveAt == {k \in DOMAIN Columns : Columns[k] \in active}
GroupAt(group) == {k \in DOMAIN Columns : Columns[k] \in active /\ Group[Columns[k]] = group}
PlacesOf(group) == {n \in DOMAIN Listed(ActiveAt) : Group[Columns[Listed(ActiveAt)[n]]] = group}

\* A part of a list of numbers in their order, by its places in the list.
LEMMA SubList ==
  ASSUME NEW P \in SUBSET Nat, IsFiniteSet(P), NEW Q \in SUBSET P
  PROVE  LET M == {n \in DOMAIN Listed(P) : Listed(P)[n] \in Q}
         IN  /\ IsFiniteSet(M) /\ M \in SUBSET Nat
             /\ Cardinality(M) = Cardinality(Q)
             /\ \A j \in 1 .. Cardinality(M) :
                  /\ Listed(M)[j] \in M
                  /\ Listed(Q)[j] = Listed(P)[Listed(M)[j]]
<1> DEFINE M == {n \in DOMAIN Listed(P) : Listed(P)[n] \in Q}
           c == Listed(P)
           K == Cardinality(P)
<1>1. /\ c \in Bijection(1 .. K, P) /\ Increasing(c, K) /\ DOMAIN c = 1 .. K /\ K \in Nat
  BY ListedIs
<1>2. /\ c \in [1 .. K -> P]
      /\ \A x \in P : \E n \in 1 .. K : c[n] = x
      /\ \A m, n \in 1 .. K : c[m] = c[n] => m = n
  BY <1>1 DEF Bijection, Injection, Surjection, IsInjective
<1>3. IsFiniteSet(M) /\ M \in SUBSET Nat
  <2>1. M \subseteq 1 .. K
    BY <1>1
  <2> QED  BY <1>1, <2>1, IntervalCard, FS_Subset
<1>4. IsFiniteSet(Q) /\ Q \in SUBSET Nat
  BY FS_Subset
<1> HIDE DEF c
<1> DEFINE g == [n \in M |-> c[n]]
<1>5. g \in Bijection(M, Q)
  <2>1. M = {n \in 1 .. K : c[n] \in Q}
    BY <1>1 DEF c
  <2>2. g \in [M -> Q] /\ \A m, n \in M : g[m] = g[n] => m = n
    BY <1>2, <2>1
  <2>3. ASSUME NEW x \in Q PROVE \E n \in M : g[n] = x
    BY <1>2, <2>1
  <2> HIDE DEF g, M
  <2> QED  BY <2>2, <2>3 DEF Bijection, Injection, Surjection, IsInjective
<1> HIDE DEF g, M
<1>6. Cardinality(M) = Cardinality(Q)
  BY <1>3, <1>5, FS_Bijection DEF ExistsBijection
<1> DEFINE N == Cardinality(M)
           f == Listed(M)
           h == [j \in 1 .. N |-> c[f[j]]]
<1>7. f \in Bijection(1 .. N, M) /\ Increasing(f, N) /\ N \in Nat
  BY <1>3, ListedIs
<1>8. Listed(Q) \in Bijection(1 .. N, Q) /\ Increasing(Listed(Q), N)
  BY <1>4, <1>6, ListedIs
<1> HIDE DEF f, N
<1>9. /\ f \in [1 .. N -> M]
      /\ \A x \in M : \E n \in 1 .. N : f[n] = x
      /\ \A m, n \in 1 .. N : f[m] = f[n] => m = n
  BY <1>7 DEF Bijection, Injection, Surjection, IsInjective
<1>10. /\ g \in [M -> Q]
       /\ \A x \in Q : \E n \in M : g[n] = x
       /\ \A m, n \in M : g[m] = g[n] => m = n
       /\ \A n \in M : g[n] = c[n]
  <2>1. g \in [M -> Q] /\ (\A x \in Q : \E n \in M : g[n] = x) /\ \A m, n \in M : g[m] = g[n] => m = n
    BY <1>5 DEF Bijection, Injection, Surjection, IsInjective
  <2>2. \A n \in M : g[n] = c[n]
    BY DEF g
  <2> QED  BY <2>1, <2>2
<1>11. h \in Bijection(1 .. N, Q)
  <2>1. h \in [1 .. N -> Q] /\ \A m, n \in 1 .. N : h[m] = h[n] => m = n
    BY <1>9, <1>10
  <2>2. ASSUME NEW x \in Q PROVE \E n \in 1 .. N : h[n] = x
    <3>1. PICK m \in M : g[m] = x
      BY <1>10
    <3>2. PICK n \in 1 .. N : f[n] = m
      BY <1>9
    <3> QED  BY <1>10, <3>1, <3>2
  <2> HIDE DEF h
  <2> QED  BY <2>1, <2>2 DEF Bijection, Injection, Surjection, IsInjective
<1>12. Increasing(h, N)
  <2>1. ASSUME NEW m \in 1 .. N, NEW n \in 1 .. N, m < n PROVE h[m] < h[n]
    <3>1. f[m] < f[n] /\ f[m] \in M /\ f[n] \in M
      BY <1>7, <1>9, <2>1 DEF Increasing
    <3>2. f[m] \in 1 .. K /\ f[n] \in 1 .. K
      BY <1>1, <3>1 DEF M, c
    <3>3. c[f[m]] < c[f[n]]
      BY <1>1, <3>1, <3>2 DEF Increasing
    <3> QED  BY <3>3
  <2> QED  BY <2>1 DEF Increasing
<1> HIDE DEF h
<1>13. h = Listed(Q)
  BY <1>4, <1>7, <1>8, <1>11, <1>12, IncreasingUnique
<1>14. \A j \in 1 .. N : f[j] \in M /\ Listed(Q)[j] = c[f[j]]
  BY <1>9, <1>13 DEF h
<1> QED  BY <1>3, <1>6, <1>14 DEF f, N, c, M

ColumnsGood ==
  /\ Columns \in Seq(DOMAIN Group) /\ Distinct(Columns)
  /\ DOMAIN Columns = 1 .. Len(Columns) /\ Len(Columns) \in Nat
  /\ \A k \in DOMAIN Columns : Columns[k] \in DOMAIN Group
LEMMA ColumnsAre == ColumnsGood
<1>1. Columns \in Seq(DOMAIN Group) /\ \A j, k \in DOMAIN Columns : Columns[j] = Columns[k] => j = k
  BY RatiosAssumption
<1>2. DOMAIN Columns = 1 .. Len(Columns) /\ Len(Columns) \in Nat /\ \A k \in DOMAIN Columns : Columns[k] \in DOMAIN Group
  BY <1>1, LenProperties
<1> QED  BY <1>1, <1>2 DEF ColumnsGood, Distinct

LEMMA PlacesFinite ==
  ASSUME NEW S \in SUBSET (DOMAIN Columns)
  PROVE  IsFiniteSet(S) /\ S \in SUBSET Nat
<1>1. DOMAIN Columns = 1 .. Len(Columns) /\ Len(Columns) \in Nat
  BY ColumnsAre DEF ColumnsGood
<1> QED  BY <1>1, IntervalCard, FS_Subset

\* get_similarity_info puts the columns of a group where record_compare puts them.
LEMMA PlacesAre ==
  ASSUME active \subseteq {c \in ToSet(Columns) : Group[c] # "NONE"}, NEW group
  PROVE  /\ InRecord(group) = Listed(GroupAt(group)) /\ InRatios(group) = Listed(PlacesOf(group))
         /\ IsFiniteSet(GroupAt(group)) /\ GroupAt(group) \in SUBSET Nat
         /\ IsFiniteSet(PlacesOf(group)) /\ PlacesOf(group) \in SUBSET Nat
         /\ Cardinality(PlacesOf(group)) = Cardinality(GroupAt(group))
         /\ \A j \in 1 .. Cardinality(PlacesOf(group)) :
              /\ InRatios(group)[j] \in PlacesOf(group)
              /\ InRecord(group)[j] = Listed(ActiveAt)[InRatios(group)[j]]
<1> DEFINE P == ActiveAt
           Q == GroupAt(group)
           M == {n \in DOMAIN Listed(P) : Listed(P)[n] \in Q}
<1>1. P \in SUBSET (DOMAIN Columns) /\ Q \in SUBSET P /\ Q \in SUBSET (DOMAIN Columns)
  BY DEF ActiveAt, GroupAt
<1>2. IsFiniteSet(P) /\ P \in SUBSET Nat /\ IsFiniteSet(Q) /\ Q \in SUBSET Nat
  BY <1>1, PlacesFinite
<1>3. \A n \in DOMAIN Listed(P) : Listed(P)[n] \in P
  BY <1>2, ListedSeq DEF ToSet
<1>4. M = PlacesOf(group)
  BY <1>3 DEF PlacesOf, ActiveAt, GroupAt
<1>5. InRecord(group) = Listed(Q)
  BY DEF InRecord, GroupAt
<1>6. \A k \in P : Group[Columns[k]] # "None"
  <2>1. ASSUME NEW k \in P PROVE Group[Columns[k]] # "None"
    <3>1. Columns[k] \in DOMAIN Group
      BY <1>1, ColumnsAre DEF ColumnsGood
    <3>2. \A c \in DOMAIN Group : Group[c] \in {"NONE", "Personal", "Patent"}
      BY RatiosAssumption
    <3> QED  BY <3>1, <3>2
  <2> QED  BY <2>1
<1>7. {k \in DOMAIN Columns : Columns[k] \in active /\ Group[Columns[k]] # "None"} = P
  BY <1>6 DEF ActiveAt
<1>8. InRatios(group) = Listed(PlacesOf(group))
  BY <1>7 DEF InRatios, PlacesOf
<1> HIDE DEF P, Q
<1>9. /\ IsFiniteSet(M) /\ M \in SUBSET Nat
      /\ Cardinality(M) = Cardinality(Q)
      /\ \A j \in 1 .. Cardinality(M) : Listed(M)[j] \in M /\ Listed(Q)[j] = Listed(P)[Listed(M)[j]]
  BY <1>1, <1>2, SubList
<1> QED  BY <1>2, <1>4, <1>5, <1>8, <1>9 DEF P, Q

\* The columns of the two groups share the places between them.
LEMMA GroupsShare ==
  ASSUME active \subseteq {c \in ToSet(Columns) : Group[c] # "NONE"}
  PROVE  /\ PlacesOf("Patent") \cap PlacesOf("Personal") = {}
         /\ PlacesOf("Patent") \cup PlacesOf("Personal") = DOMAIN Listed(ActiveAt)
         /\ DOMAIN Listed(ActiveAt) = 1 .. Cardinality(ActiveAt)
         /\ Cardinality(ActiveAt) \in Nat
         /\ Cardinality(PlacesOf("Patent")) + Cardinality(PlacesOf("Personal"))
              = Cardinality(ActiveAt)
<1> DEFINE P == ActiveAt
           N == Cardinality(P)
<1>1. P \in SUBSET (DOMAIN Columns)
  BY DEF ActiveAt
<1>2. IsFiniteSet(P) /\ P \in SUBSET Nat
  BY <1>1, PlacesFinite
<1>3. /\ DOMAIN Listed(P) = 1 .. N /\ N \in Nat
      /\ \A n \in DOMAIN Listed(P) : Listed(P)[n] \in P
  BY <1>2, ListedSeq, FS_CardinalityType DEF ToSet
<1>4. ASSUME NEW n \in DOMAIN Listed(P)
      PROVE  Group[Columns[Listed(P)[n]]] \in {"Patent", "Personal"}
  <2>1. Listed(P)[n] \in DOMAIN Columns /\ Columns[Listed(P)[n]] \in active
    BY <1>3 DEF ActiveAt
  <2>2. /\ Columns[Listed(P)[n]] \in DOMAIN Group
        /\ Group[Columns[Listed(P)[n]]] # "NONE"
    BY <2>1, ColumnsAre DEF ColumnsGood
  <2>3. \A c \in DOMAIN Group : Group[c] \in {"NONE", "Personal", "Patent"}
    BY RatiosAssumption
  <2> QED  BY <2>2, <2>3
<1>5. /\ PlacesOf("Patent") \cap PlacesOf("Personal") = {}
      /\ PlacesOf("Patent") \cup PlacesOf("Personal") = 1 .. N
  BY <1>3, <1>4 DEF PlacesOf
<1>6. IsFiniteSet(PlacesOf("Patent")) /\ IsFiniteSet(PlacesOf("Personal"))
  BY PlacesAre
<1> HIDE DEF N
<1>7. Cardinality(1 .. N) = N
  BY <1>3, IntervalCard
<1>8. Cardinality(PlacesOf("Patent") \cup PlacesOf("Personal"))
        = Cardinality(PlacesOf("Patent")) + Cardinality(PlacesOf("Personal"))
          - Cardinality(PlacesOf("Patent") \cap PlacesOf("Personal"))
  BY <1>6, FS_Union
<1>9. Cardinality({}) = 0 /\ Cardinality(PlacesOf("Patent")) \in Nat /\ Cardinality(PlacesOf("Personal")) \in Nat
  BY <1>6, FS_EmptySet, FS_CardinalityType
<1>10. Cardinality(PlacesOf("Patent")) + Cardinality(PlacesOf("Personal")) = N
  <2>1. Cardinality(PlacesOf("Patent") \cup PlacesOf("Personal")) = N
    BY <1>5, <1>7
  <2>2. Cardinality(PlacesOf("Patent") \cap PlacesOf("Personal")) = 0
    BY <1>5, <1>9
  <2> DEFINE x == Cardinality(PlacesOf("Patent"))
             y == Cardinality(PlacesOf("Personal"))
  <2>3. x \in Nat /\ y \in Nat /\ N = x + y - 0
    BY <1>8, <1>9, <2>1, <2>2
  <2> HIDE DEF x, y
  <2>4. x + y = N
    BY <2>3
  <2> QED  BY <2>4 DEF x, y
<1> QED  BY <1>3, <1>5, <1>10 DEF N

LEMMA OverlayIs ==
  ASSUME NEW key, NEW sp, NEW places, Distinct(places)
  PROVE  /\ DOMAIN Overlay(key, sp, places) = DOMAIN key
         /\ \A j \in DOMAIN places :
              places[j] \in DOMAIN key => Overlay(key, sp, places)[places[j]] = sp[j]
         /\ \A n \in DOMAIN key :
              (\A j \in DOMAIN places : places[j] # n) => Overlay(key, sp, places)[n] = key[n]
<1>1. ASSUME NEW j \in DOMAIN places, places[j] \in DOMAIN key
      PROVE  Overlay(key, sp, places)[places[j]] = sp[j]
  <2>1. (CHOOSE i \in DOMAIN places : places[i] = places[j]) = j
    BY DEF Distinct
  <2> QED  BY <1>1, <2>1 DEF Overlay
<1> QED  BY <1>1 DEF Overlay

\* The similarity names are the active columns in the order of their places.
LEMMA SimilarityIs ==
  ASSUME NEW on, on = active
  PROVE  /\ SimilarityNames(on) = [n \in DOMAIN Listed(ActiveAt) |-> Columns[Listed(ActiveAt)[n]]]
         /\ SimilarityNames(on) \in Seq(DOMAIN Group)
         /\ DOMAIN SimilarityNames(on) = 1 .. Cardinality(ActiveAt)
         /\ Len(SimilarityNames(on)) = Cardinality(ActiveAt)
         /\ Distinct(SimilarityNames(on))
<1>1. SimilarityNames(on) = Selected(Columns, ActiveAt)
  BY DEF SimilarityNames, ActiveAt
<1>2. ActiveAt \in SUBSET (DOMAIN Columns)
  BY DEF ActiveAt
<1>3. Columns \in Seq(DOMAIN Group) /\ Distinct(Columns)
  BY ColumnsAre DEF ColumnsGood
<1>4. /\ Selected(Columns, ActiveAt) \in Seq(DOMAIN Group)
      /\ DOMAIN Selected(Columns, ActiveAt) = 1 .. Cardinality(ActiveAt)
      /\ Distinct(Selected(Columns, ActiveAt))
  BY <1>2, <1>3, SelectedIs
<1>5. Cardinality(ActiveAt) \in Nat
  BY <1>2, PlacesFinite, FS_CardinalityType
<1>6. Len(Selected(Columns, ActiveAt)) = Cardinality(ActiveAt)
  <2> DEFINE s == Selected(Columns, ActiveAt)
             N == Cardinality(ActiveAt)
  <2>1. s \in Seq(DOMAIN Group) /\ DOMAIN s = 1 .. N /\ N \in Nat
    BY <1>4, <1>5
  <2> HIDE DEF s, N
  <2>2. Len(s) = N
    BY <2>1
  <2> QED  BY <2>2 DEF s, N
<1> QED  BY <1>1, <1>4, <1>6 DEF Selected

\* After both components were multiplied in, the names are those of the active columns.
LEMMA ComposedNames ==
  ASSUME active \subseteq {c \in ToSet(Columns) : Group[c] # "NONE"},
         parts[1].inRatios = InRatios("Patent"), parts[1].inRecord = InRecord("Patent"),
         parts[2].inRatios = InRatios("Personal"), parts[2].inRecord = InRecord("Personal")
  PROVE  Composed.names = SimilarityNames(active)
<1> DEFINE N == Cardinality(ActiveAt)
           a == InRatios("Patent")
           b == InRatios("Personal")
           na == [j \in DOMAIN InRecord("Patent") |-> Columns[InRecord("Patent")[j]]]
           nb == [j \in DOMAIN InRecord("Personal") |-> Columns[InRecord("Personal")[j]]]
           s == SimilarityNames(active)
           null == [n \in 1 .. Len(a) + Len(b) |-> "Invalid Attribute"]
<1>1. /\ a = Listed(PlacesOf("Patent")) /\ b = Listed(PlacesOf("Personal"))
      /\ InRecord("Patent") = Listed(GroupAt("Patent"))
      /\ InRecord("Personal") = Listed(GroupAt("Personal"))
      /\ \A g \in {"Patent", "Personal"} :
           /\ IsFiniteSet(GroupAt(g)) /\ GroupAt(g) \in SUBSET Nat
           /\ IsFiniteSet(PlacesOf(g)) /\ PlacesOf(g) \in SUBSET Nat
           /\ Cardinality(PlacesOf(g)) = Cardinality(GroupAt(g))
  BY PlacesAre
<1>2. /\ Len(a) = Cardinality(PlacesOf("Patent")) /\ DOMAIN a = 1 .. Cardinality(PlacesOf("Patent"))
      /\ ToSet(a) = PlacesOf("Patent") /\ Distinct(a)
      /\ Len(b) = Cardinality(PlacesOf("Personal")) /\ DOMAIN b = 1 .. Cardinality(PlacesOf("Personal"))
      /\ ToSet(b) = PlacesOf("Personal") /\ Distinct(b)
  BY <1>1, ListedSeq
<1>3. /\ DOMAIN na = DOMAIN a /\ DOMAIN nb = DOMAIN b
  BY <1>1, <1>2, ListedSeq
<1>4. /\ PlacesOf("Patent") \cup PlacesOf("Personal") = 1 .. N /\ Len(a) + Len(b) = N
      /\ DOMAIN Listed(ActiveAt) = 1 .. N
  BY <1>2, GroupsShare
<1>5. DOMAIN s = 1 .. N /\ \A n \in 1 .. N : s[n] = Columns[Listed(ActiveAt)[n]]
  BY <1>4, SimilarityIs
<1>6. s = [n \in 1 .. N |-> s[n]]
  BY <1>4, <1>5, SimilarityIs
<1>7. \A j \in DOMAIN a : na[j] = s[a[j]] /\ a[j] \in 1 .. N
  <2>1. ASSUME NEW j \in DOMAIN a PROVE na[j] = s[a[j]] /\ a[j] \in 1 .. N
    <3>1. a[j] \in PlacesOf("Patent") /\ InRecord("Patent")[j] = Listed(ActiveAt)[a[j]]
      BY <1>2, PlacesAre
    <3> QED  BY <1>3, <1>4, <1>5, <3>1
  <2> QED  BY <2>1
<1>8. \A j \in DOMAIN b : nb[j] = s[b[j]] /\ b[j] \in 1 .. N
  <2>1. ASSUME NEW j \in DOMAIN b PROVE nb[j] = s[b[j]] /\ b[j] \in 1 .. N
    <3>1. b[j] \in PlacesOf("Personal") /\ InRecord("Personal")[j] = Listed(ActiveAt)[b[j]]
      BY <1>2, PlacesAre
    <3> QED  BY <1>3, <1>4, <1>5, <3>1
  <2> QED  BY <2>1
<1>9. Composed.names = Overlay(Overlay(null, na, a), nb, b)
  BY DEF Composed, MoreComponents, NullTable, Places
<1> DEFINE t == Overlay(null, na, a)
           u == Overlay(t, nb, b)
<1>14. DOMAIN null = 1 .. N
  BY <1>4
<1> HIDE DEF na, nb, null, a, b, s, N
<1>10. /\ DOMAIN t = 1 .. N
       /\ \A j \in DOMAIN a : a[j] \in 1 .. N => t[a[j]] = na[j]
  <2>1. /\ DOMAIN t = DOMAIN null
        /\ \A j \in DOMAIN a : a[j] \in DOMAIN null => t[a[j]] = na[j]
    BY <1>2, OverlayIs
  <2> QED  BY <1>14, <2>1
<1> HIDE DEF t
<1>11. /\ DOMAIN u = 1 .. N
       /\ \A j \in DOMAIN b : b[j] \in 1 .. N => u[b[j]] = nb[j]
       /\ \A n \in 1 .. N : (\A j \in DOMAIN b : b[j] # n) => u[n] = t[n]
  <2>1. /\ DOMAIN u = DOMAIN t
        /\ \A j \in DOMAIN b : b[j] \in DOMAIN t => u[b[j]] = nb[j]
        /\ \A n \in DOMAIN t : (\A j \in DOMAIN b : b[j] # n) => u[n] = t[n]
    BY <1>2, OverlayIs
  <2> QED  BY <1>10, <2>1
<1>12. ASSUME NEW n \in 1 .. N PROVE u[n] = s[n]
  <2>1. CASE \E j \in DOMAIN b : b[j] = n
    BY <1>8, <1>11, <2>1
  <2>2. CASE \A j \in DOMAIN b : b[j] # n
    <3>1. n \notin PlacesOf("Personal")
      BY <1>2, <2>2 DEF ToSet
    <3>2. PICK j \in DOMAIN a : a[j] = n
      BY <1>2, <1>4, <3>1 DEF ToSet
    <3> QED  BY <1>7, <1>10, <1>11, <2>2, <3>2
  <2> QED  BY <2>1, <2>2
<1>15. u = [n \in 1 .. N |-> u[n]]
  BY <1>11 DEF u, Overlay
<1> HIDE DEF u
<1>13. u = s
  BY <1>6, <1>12, <1>15
<1> QED  BY <1>9, <1>13 DEF t, u, s

-----------------------------------------------------------------------------
(* The names of a round. *)

\* Numbers from 1 on without a gap are listed at their own places.
LEMMA InitialListed ==
  ASSUME NEW P \in SUBSET (Nat \ {0}), IsFiniteSet(P), NEW m \in Nat, 1 .. m \subseteq P
  PROVE  \A n \in 1 .. m : n \in 1 .. Cardinality(P) /\ Listed(P)[n] = n
<1> DEFINE f == Listed(P)
           N == Cardinality(P)
<1>1. f \in Bijection(1 .. N, P) /\ Increasing(f, N) /\ N \in Nat
  BY ListedIs
<1>2. /\ f \in [1 .. N -> P]
      /\ \A x \in P : \E n \in 1 .. N : f[n] = x
  BY <1>1 DEF Bijection, Injection, Surjection, IsInjective
<1>3. m <= N
  BY IntervalCard, FS_Subset
<1> HIDE DEF f, N
<1> DEFINE apart == {n \in 1 .. m : f[n] # n}
<1>4. CASE apart # {}
  <2>1. apart \subseteq Nat
    OBVIOUS
  <2>2. PICK n \in apart : \A k \in apart : n <= k
    BY <1>4, <2>1, LeastNatural
  <2>3. n \in 1 .. m /\ f[n] # n /\ n \in P /\ n \in 1 .. N /\ \A k \in 1 .. n - 1 : f[k] = k
    BY <1>1, <1>3, <2>2
  <2>4. PICK i \in 1 .. N : f[i] = n
    BY <1>2, <2>3
  <2>5. i > n
    BY <1>1, <2>3, <2>4
  <2>6. f[n] < n /\ f[n] \in Nat /\ f[n] >= 1
    <3>1. f[n] < f[i]
      BY <1>1, <2>3, <2>4, <2>5 DEF Increasing
    <3>2. f[n] \in P
      BY <1>2, <2>3
    <3>3. f[n] \in Nat \ {0}
      BY <3>2
    <3> QED  BY <2>4, <3>1, <3>3
  <2>7. f[n] \in 1 .. n - 1 /\ f[n] \in 1 .. N
    BY <1>1, <2>3, <2>6
  <2>8. f[f[n]] = f[n] /\ f[f[n]] < f[n]
    BY <1>1, <2>3, <2>6, <2>7 DEF Increasing
  <2> QED  BY <2>6, <2>8
<1> QED  BY <1>1, <1>3, <1>4 DEF f, N

NamesOn == ToSet(NameParts) \subseteq active

\* The names have the first places of every profile, and all three are there.
LEMMA NamesFirst ==
  ASSUME active \subseteq {c \in ToSet(Columns) : Group[c] # "NONE"}, NamesOn
  PROVE  /\ Cardinality(ActiveAt) \in Nat /\ Cardinality(ActiveAt) >= 3
         /\ \A k \in 1 .. 3 : /\ k \in DOMAIN SimilarityNames(active)
                              /\ SimilarityNames(active)[k] = Columns[k]
         /\ \A k \in 1 .. 3 : \E j \in 1 .. 3 : Columns[j] = NameParts[k]
<1>1. ToSet(SubSeq(Columns, 1, 3)) = ToSet(NameParts) /\ Len(Columns) >= 3
  BY RatiosAssumption
<1>2. DOMAIN Columns = 1 .. Len(Columns) /\ Len(Columns) \in Nat /\ Columns \in Seq(DOMAIN Group)
  BY ColumnsAre DEF ColumnsGood
<1>3. /\ DOMAIN SubSeq(Columns, 1, 3) = 1 .. 3
      /\ \A k \in 1 .. 3 : SubSeq(Columns, 1, 3)[k] = Columns[k]
  BY <1>1, <1>2
<1>4. \A k \in 1 .. 3 : Columns[k] \in ToSet(NameParts)
  BY <1>1, <1>3 DEF ToSet
<1>5. DOMAIN NameParts = 1 .. 3
  BY DEF NameParts
<1>6. \A k \in 1 .. 3 : \E j \in 1 .. 3 : Columns[j] = NameParts[k]
  <2>1. ASSUME NEW k \in 1 .. 3 PROVE NameParts[k] \in ToSet(SubSeq(Columns, 1, 3))
    BY <1>1, <1>5 DEF ToSet
  <2> QED  BY <1>3, <2>1 DEF ToSet
<1>7. 1 .. 3 \subseteq ActiveAt
  BY <1>1, <1>2, <1>4 DEF NamesOn, ActiveAt
<1>8. ActiveAt \in SUBSET (Nat \ {0}) /\ IsFiniteSet(ActiveAt)
  <2>1. ActiveAt \in SUBSET (DOMAIN Columns)
    BY DEF ActiveAt
  <2> QED  BY <1>2, <2>1, PlacesFinite
<1>9. \A n \in 1 .. 3 : n \in 1 .. Cardinality(ActiveAt) /\ Listed(ActiveAt)[n] = n
  BY <1>7, <1>8, InitialListed
<1>10. Cardinality(ActiveAt) \in Nat
  BY <1>8, FS_CardinalityType
<1>11. 3 \in 1 .. 3 /\ 3 \in 1 .. Cardinality(ActiveAt)
  BY <1>9
<1>12. /\ SimilarityNames(active) = [n \in DOMAIN Listed(ActiveAt) |-> Columns[Listed(ActiveAt)[n]]]
       /\ DOMAIN SimilarityNames(active) = 1 .. Cardinality(ActiveAt)
  BY SimilarityIs
<1> QED  BY <1>6, <1>9, <1>10, <1>11, <1>12

-----------------------------------------------------------------------------
(* The table of a round. *)

TableInv == RoundInv /\ ActiveInv /\ MadeInv /\ FilesInv /\ PositionsInv

\* What the round activates are columns with a group, the names among them.
LEMMA ActiveInIs ==
  ASSUME NEW r \in Rounds
  PROVE  /\ ActiveIn(r) \subseteq {c \in ToSet(Columns) : Group[c] # "NONE"}
         /\ ToSet(NameParts) \subseteq ActiveIn(r)
<1>1. ActiveIn(r) \subseteq {c \in ToSet(Columns) : Group[c] # "NONE"}
  BY DEF ActiveIn, Activable
<1>2. /\ ToSet(NameParts) \subseteq ToSet(RoundAttributes[r])
      /\ \A c \in ToSet(RoundAttributes[r]) : c \in ToSet(Columns)
  BY RatiosAssumption
<1>3. \A c \in ToSet(NameParts) : Group[c] = "Personal"
  BY RatiosAssumption
<1> QED  BY <1>1, <1>2, <1>3 DEF ActiveIn, Activable

\* Activating the columns that a list of active columns names changes nothing.
LEMMA SimilaritySet ==
  ASSUME NEW on, on \subseteq {c \in ToSet(Columns) : Group[c] # "NONE"}
  PROVE  Activable(ToSet(SimilarityNames(on))) = on
<1> DEFINE P == {k \in DOMAIN Columns : Columns[k] \in on}
<1>1. Columns \in Seq(DOMAIN Group) /\ P \in SUBSET (DOMAIN Columns)
  BY ColumnsAre DEF ColumnsGood
<1>2. ToSet(Selected(Columns, P)) = {Columns[p] : p \in P}
  BY <1>1, SelectedIs
<1>3. {Columns[p] : p \in P} = on
  BY DEF ToSet
<1>4. ToSet(SimilarityNames(on)) = on
  BY <1>2, <1>3 DEF SimilarityNames
<1> QED  BY <1>4 DEF Activable

LEMMA ActivateIs ==
  ASSUME NEW on, Activate(on), on \subseteq {c \in ToSet(Columns) : Group[c] # "NONE"}
  PROVE  /\ active' = on /\ similarity' = SimilarityNames(on)
         /\ active' \subseteq {c \in ToSet(Columns) : Group[c] # "NONE"}
         /\ similarity' = SimilarityNames(active')
<1>1. active' = on /\ similarity' = SimilarityNames(on)
  BY DEF Activate
<1> QED  BY <1>1 DEF SimilarityNames

LEMMA ActiveInvNext ==
  ASSUME RoundInv, ActiveInv, FilesInv, [Next]_vars
  PROVE  ActiveInv'
<1> DEFINE on == {c \in ToSet(Columns) : Group[c] # "NONE"}
<1>1. CASE ConfigRound
  <2>1. /\ pc' \in {"read", "switch"} /\ round' = round /\ round \in Rounds
        /\ Activate(ActiveIn(round))
    BY <1>1 DEF ConfigRound, ActiveIn
  <2>2. ActiveIn(round) \subseteq on
    BY <2>1, ActiveInIs
  <2>3. active' = ActiveIn(round) /\ active' \subseteq on /\ similarity' = SimilarityNames(active')
    BY <2>1, <2>2, ActivateIs
  <2> QED  BY <2>1, <2>3 DEF ActiveInv, ActiveIn, SimilarityNames
<1>2. CASE SwitchOn
  <2>1. /\ pc = "switch" /\ pc' = "train" /\ round' = round
        /\ wasActive' = active \cap Temporary
        /\ Activate(active \cup Activable(Temporary))
        /\ active = ActiveIn(round) /\ active \subseteq on
    BY <1>2 DEF SwitchOn, ActiveInv
  <2>2. active \cup Activable(Temporary) \subseteq on
    BY <2>1 DEF Activable
  <2>3. /\ active' = active \cup Activable(Temporary)
        /\ active' \subseteq on /\ similarity' = SimilarityNames(active')
    BY <2>1, <2>2, ActivateIs
  <2> QED  BY <2>1, <2>3 DEF ActiveInv, ActiveIn, SimilarityNames
<1>3. CASE TrainByPatent
  <2>1. /\ pc = "train" /\ pc' = "personal" /\ round' = round
        /\ Activate(active \ (Activable(Temporary) \ wasActive))
        /\ active = ActiveIn(round) \cup Activable(Temporary)
        /\ wasActive = ActiveIn(round) \cap Temporary /\ active \subseteq on
    BY <1>3 DEF TrainByPatent, ActiveInv
  <2>2. active \ (Activable(Temporary) \ wasActive) = ActiveIn(round)
    BY <2>1 DEF Activable
  <2>3. /\ active' = ActiveIn(round)
        /\ active' \subseteq on /\ similarity' = SimilarityNames(active')
    BY <2>1, <2>2, ActivateIs
  <2> QED  BY <2>1, <2>3 DEF ActiveInv, ActiveIn, SimilarityNames
<1>4. CASE ReadFile
  <2>1. /\ pc = "read" /\ pc' = "disambiguate" /\ round' = round
        /\ Activate(Activable(ToSet(files[round].names)))
    BY <1>4 DEF ReadFile, held
  <2>2. Activable(ToSet(files[round].names)) \subseteq on
    BY DEF Activable
  <2>3. active' \subseteq on /\ similarity' = SimilarityNames(active')
    BY <2>1, <2>2, ActivateIs
  <2> QED  BY <2>1, <2>3 DEF ActiveInv, SimilarityNames
<1>5. CASE NoMoreRounds \/ PrepareExits \/ SmoothThrows \/ ReadThrows \/ DisambiguateThrows \/ Die
  <2>1. active' = {} /\ pc' \notin Working /\ pc' \notin {"switch", "train"}
    BY <1>5 DEF NoMoreRounds, PrepareExits, SmoothThrows, ReadThrows, DisambiguateThrows, Die,
                Exit, Working
  <2> QED  BY <2>1 DEF ActiveInv, Working
<1>6. CASE TrainByName \/ Reconfigure \/ EndRound \/ Restart
  <2>1. /\ active' = active /\ similarity' = similarity
        /\ pc' \notin Working
    BY <1>6 DEF TrainByName, Reconfigure, EndRound, Restart, Working
  <2> QED  BY <2>1 DEF ActiveInv, Working
<1>7. CASE PreparePersonal \/ PreparePatent \/ Compose \/ Smooth \/ WriteFile
  <2>1. /\ active' = active /\ similarity' = similarity /\ round' = round
        /\ pc \in {"personal", "patent", "compose", "smooth", "write"}
        /\ pc' \in {"patent", "compose", "smooth", "write", "disambiguate"}
    BY <1>7 DEF PreparePersonal, PreparePatent, Compose, Smooth, WriteFile
  <2> QED  BY <2>1 DEF ActiveInv, Working, ActiveIn, SimilarityNames
<1>8. CASE SetUpBlocks \/ Disambiguate
  <2>1. /\ active' = active /\ similarity' = similarity /\ round' = round
        /\ pc \in {"disambiguate", "compare"}
        /\ pc' \in {"compare", "match"}
    BY <1>8 DEF SetUpBlocks, Disambiguate
  <2> QED  BY <2>1 DEF ActiveInv, Working, ActiveIn, SimilarityNames
<1>9. CASE UNCHANGED vars
  BY <1>9 DEF ActiveInv, ActiveIn, SimilarityNames, vars
<1> QED  BY <1>1, <1>2, <1>3, <1>4, <1>5, <1>6, <1>7, <1>8, <1>9 DEF Next

\* What a component and the table are made of, as functions of the state they depend on.
InRecordOf(on, group) ==
  Listed({k \in DOMAIN Columns : Columns[k] \in on /\ Group[Columns[k]] = group})
CountedOf(on) ==
  Listed({k \in DOMAIN Columns : Columns[k] \in on /\ Group[Columns[k]] # "None"})
InRatiosOf(on, group) ==
  Listed({n \in DOMAIN CountedOf(on) : Group[Columns[CountedOf(on)[n]]] = group})
ProfilesOf(of, on, trunc, pairs, group) ==
  [p \in DOMAIN pairs |->
     Profile(of, trunc, [k \in DOMAIN InRecordOf(on, group) |-> Columns[InRecordOf(on, group)[k]]],
             pairs[p][1], pairs[p][2])]
StatsOf(of, on, trunc, pairs, group) ==
  [v \in Range(ProfilesOf(of, on, trunc, pairs, group)) |->
     Cardinality({p \in DOMAIN pairs : ProfilesOf(of, on, trunc, pairs, group)[p] = v})]
RatiosOf(x, m) ==
  [x |-> Restrict(x, DOMAIN x \cap DOMAIN m), m |-> Restrict(m, DOMAIN x \cap DOMAIN m),
   ratio |-> [v \in DOMAIN x \cap DOMAIN m |-> <<m[v], x[v]>>]]
CorrectedOf(x, m) == RatiosOf(Corrected(x, Considered(x, m)), Corrected(m, Considered(x, m)))
PreparedOf(of, on, trunc, group, pairs) ==
  LET r == CorrectedOf(StatsOf(of, on, trunc, pairs.x, group), StatsOf(of, on, trunc, pairs.m, group))
  IN  [inRatios |-> InRatiosOf(on, group), inRecord |-> InRecordOf(on, group),
       x |-> r.x, m |-> r.m, ratio |-> r.ratio]
StableOf(non, match) == [x |-> non, m |-> [p \in match |-> p]]

LEMMA StatsAre ==
  ASSUME NEW pairs, NEW group
  PROVE  Stats(pairs, group) = StatsOf(records, active, Truncation[round], pairs, group)
BY DEF Stats, StatsOf, ProfilesOf, InRecord, InRecordOf

LEMMA InAre ==
  ASSUME NEW group
  PROVE  InRecord(group) = InRecordOf(active, group) /\ InRatios(group) = InRatiosOf(active, group)
BY DEF InRecord, InRecordOf, InRatios, InRatiosOf, CountedOf

LEMMA PreparedIs ==
  ASSUME NEW group, NEW pairs
  PROVE  Prepared(group, pairs) = PreparedOf(records, active, Truncation[round], group, pairs)
<1> DEFINE x == Stats(pairs.x, group)
           m == Stats(pairs.m, group)
           a == InRecord(group)
           b == InRatios(group)
<1>1. /\ x = StatsOf(records, active, Truncation[round], pairs.x, group)
      /\ m = StatsOf(records, active, Truncation[round], pairs.m, group)
      /\ a = InRecordOf(active, group) /\ b = InRatiosOf(active, group)
  BY StatsAre, InAre
<1>2. Prepared(group, pairs)
        = [inRatios |-> b, inRecord |-> a, x |-> CorrectedOf(x, m).x, m |-> CorrectedOf(x, m).m,
           ratio |-> CorrectedOf(x, m).ratio]
  BY DEF Prepared, CorrectedOf, RatiosOf
<1> HIDE DEF x, m, a, b
<1>3. Prepared(group, pairs)
        = [inRatios |-> InRatiosOf(active, group), inRecord |-> InRecordOf(active, group),
           x |-> CorrectedOf(StatsOf(records, active, Truncation[round], pairs.x, group),
                             StatsOf(records, active, Truncation[round], pairs.m, group)).x,
           m |-> CorrectedOf(StatsOf(records, active, Truncation[round], pairs.x, group),
                             StatsOf(records, active, Truncation[round], pairs.m, group)).m,
           ratio |-> CorrectedOf(StatsOf(records, active, Truncation[round], pairs.x, group),
                                 StatsOf(records, active, Truncation[round], pairs.m, group)).ratio]
  BY <1>1, <1>2
<1> QED  BY <1>3 DEF PreparedOf

PersonalOf == PreparedOf(records, active, Truncation[round], "Personal", byPatent)
PatentOf == PreparedOf(records, active, Truncation[round], "Patent", StableOf(nonmatches, matches))

LEMMA BothPrepared ==
  Prepared("Personal", byPatent) = PersonalOf /\ Prepared("Patent", Stable) = PatentOf
<1>1. Stable = StableOf(nonmatches, matches)
  BY DEF Stable, StableOf
<1> QED  BY <1>1, PreparedIs DEF PersonalOf, PatentOf

LEMMA PreparedKept ==
  ASSUME UNCHANGED <<nameVars, active, round, byPatent>>
  PROVE  /\ Prepared("Personal", byPatent)' = Prepared("Personal", byPatent)
         /\ Prepared("Patent", Stable)' = Prepared("Patent", Stable)
<1>1. Prepared("Personal", byPatent) = PersonalOf /\ Prepared("Patent", Stable) = PatentOf
  BY BothPrepared
<1>2. (Prepared("Personal", byPatent) = PersonalOf /\ Prepared("Patent", Stable) = PatentOf)'
  BY BothPrepared, PTL
<1>3. PersonalOf' = PersonalOf /\ PatentOf' = PatentOf
  BY DEF nameVars, PersonalOf, PatentOf
<1> QED  BY <1>1, <1>2, <1>3

NullOf(ps) ==
  LET null == [n \in 1 .. Len(ps[1].inRatios) + Len(ps[2].inRatios) |-> impossible_value]
  IN  [names |-> [n \in 1 .. Len(ps[1].inRatios) + Len(ps[2].inRatios) |-> "Invalid Attribute"],
       rows  |-> [k \in {null} |-> [num |-> 1, den |-> 1, x |-> 0, m |-> 0]]]
ComposedOf(ps) == MoreComponents(MoreComponents(NullOf(ps), ps[1]), ps[2])

LEMMA ComposedIs == Composed = ComposedOf(parts)
BY DEF Composed, ComposedOf, NullTable, NullOf

LEMMA ComposedKept == ASSUME UNCHANGED parts PROVE Composed' = Composed
<1>1. Composed = ComposedOf(parts)
  BY ComposedIs
<1>2. (Composed = ComposedOf(parts))'
  BY ComposedIs, PTL
<1> QED  BY <1>1, <1>2

Making == {"personal", "patent", "compose", "smooth", "write"}

LEMMA MadeInvNext ==
  ASSUME MadeInv, [Next]_vars
  PROVE  MadeInv'
<1>1. CASE TrainByPatent
  <2>1. /\ byPatent' \in PairsByPatent
        /\ \A p \in Range(byPatent'.x) \cup Range(byPatent'.m) : ToSet(p) \subseteq DOMAIN records
        /\ pc' = "personal" /\ UNCHANGED <<records, parts>>
    BY <1>1 DEF TrainByPatent, nameVars
  <2> QED  BY <2>1 DEF MadeInv
<1>2. CASE PreparePersonal
  <2>1. /\ pc = "personal" /\ pc' = "patent" /\ UNCHANGED <<nameVars, active, round, byPatent>>
        /\ parts' = [parts EXCEPT ![2] = Prepared("Personal", byPatent)]
    BY <1>2 DEF PreparePersonal
  <2>2. parts'[2] = Prepared("Personal", byPatent)' /\ DOMAIN parts' = 1 .. 2
    BY <2>1, PreparedKept DEF MadeInv
  <2> QED  BY <2>1, <2>2 DEF MadeInv, nameVars
<1>3. CASE PreparePatent
  <2>1. /\ pc = "patent" /\ pc' = "compose" /\ UNCHANGED <<nameVars, active, round, byPatent>>
        /\ parts' = [parts EXCEPT ![1] = Prepared("Patent", Stable)]
    BY <1>3 DEF PreparePatent
  <2>2. /\ parts'[1] = Prepared("Patent", Stable)' /\ DOMAIN parts' = 1 .. 2
        /\ parts'[2] = Prepared("Personal", byPatent)'
    BY <2>1, PreparedKept DEF MadeInv
  <2> QED  BY <2>1, <2>2 DEF MadeInv, nameVars
<1>4. CASE Compose
  <2>1. /\ pc = "compose" /\ pc' = "smooth"
        /\ UNCHANGED <<nameVars, active, round, byPatent, parts>>
        /\ table' = Composed
    BY <1>4 DEF Compose, Composed, training
  <2>2. table' = Composed' /\ parts'[2] = Prepared("Personal", byPatent)'
        /\ parts'[1] = Prepared("Patent", Stable)'
    BY <2>1, PreparedKept, ComposedKept DEF MadeInv
  <2> QED  BY <2>1, <2>2 DEF MadeInv, nameVars
<1>5. CASE Smooth
  <2>1. /\ pc = "smooth" /\ pc' = "write"
        /\ UNCHANGED <<nameVars, active, round, byPatent, parts>>
        /\ table = Composed /\ problem' = Problem(Composed) /\ table' = Smoothed(Composed)
        /\ Nodes(MaxProfile(Composed.names)) # 0
    BY <1>5 DEF Smooth, Overflows, MadeInv
  <2>2. Composed' = Composed /\ parts'[2] = Prepared("Personal", byPatent)'
        /\ parts'[1] = Prepared("Patent", Stable)'
    BY <2>1, PreparedKept, ComposedKept DEF MadeInv
  <2>3. /\ problem' = Problem(Composed)' /\ table' = Smoothed(Composed)'
        /\ Nodes(MaxProfile(Composed.names))' # 0
    BY <2>1, <2>2
  <2> QED  BY <2>1, <2>2, <2>3 DEF MadeInv, nameVars
<1>6. CASE \/ NoMoreRounds \/ PrepareExits \/ SmoothThrows \/ ReadThrows \/ DisambiguateThrows
           \/ Die \/ WriteFile
  <2>1. pc' \notin Making /\ DOMAIN parts' = 1 .. 2
    BY <1>6 DEF NoMoreRounds, PrepareExits, SmoothThrows, ReadThrows, DisambiguateThrows, Die,
                WriteFile, Exit, Making
  <2> QED  BY <2>1 DEF MadeInv, Making
<1>7. CASE \/ TrainByName \/ Reconfigure \/ EndRound \/ Restart \/ ConfigRound \/ SwitchOn
           \/ ReadFile \/ SetUpBlocks \/ Disambiguate
  <2>1. pc' \notin Making /\ parts' = parts
    BY <1>7 DEF TrainByName, Reconfigure, EndRound, Restart, ConfigRound, SwitchOn, ReadFile,
                SetUpBlocks, Disambiguate, Making, training
  <2> QED  BY <2>1 DEF MadeInv, Making
<1>8. CASE UNCHANGED vars
  <2>1. UNCHANGED <<nameVars, active, round, byPatent, parts, pc, table, problem>>
    BY <1>8 DEF vars
  <2>2. Composed' = Composed /\ Prepared("Personal", byPatent)' = Prepared("Personal", byPatent)
        /\ Prepared("Patent", Stable)' = Prepared("Patent", Stable)
    BY <2>1, PreparedKept, ComposedKept
  <2>3. /\ Problem(Composed)' = Problem(Composed) /\ Smoothed(Composed)' = Smoothed(Composed)
        /\ Nodes(MaxProfile(Composed.names))' = Nodes(MaxProfile(Composed.names))
    BY <2>2
  <2> QED  BY <2>1, <2>2, <2>3 DEF MadeInv, nameVars
<1> QED  BY <1>1, <1>2, <1>3, <1>4, <1>5, <1>6, <1>7, <1>8 DEF Next

LEMMA PositionsInvNext ==
  ASSUME RoundInv, ActiveInv, PositionsInv, [Next]_vars
  PROVE  PositionsInv'
<1>1. CASE Disambiguate
  <2>1. /\ pc = "compare" /\ pc' = "match"
        /\ namePositions # <<>> \/ ToSet(NameParts) \subseteq ToSet(similarity)
        /\ namePositions' = IF namePositions # <<>> THEN namePositions
                            ELSE [k \in 1 .. 3 |-> PositionOf(NameParts[k])]
    BY <1>1 DEF Disambiguate, NamesThere
  <2>2. CASE namePositions # <<>>
    BY <2>1, <2>2 DEF PositionsInv
  <2>3. CASE namePositions = <<>>
    <3>1. /\ active \subseteq {c \in ToSet(Columns) : Group[c] # "NONE"}
          /\ similarity = SimilarityNames(active)
      BY <2>1 DEF ActiveInv, Working
    <3>2. ToSet(similarity) \subseteq active
      <4>1. Activable(ToSet(SimilarityNames(active))) = active
        BY <3>1, SimilaritySet
      <4> DEFINE P == {k \in DOMAIN Columns : Columns[k] \in active}
      <4>2. Columns \in Seq(DOMAIN Group) /\ P \in SUBSET (DOMAIN Columns)
        BY ColumnsAre DEF ColumnsGood
      <4>3. ToSet(Selected(Columns, P)) = {Columns[p] : p \in P}
        BY <4>2, SelectedIs
      <4> QED  BY <3>1, <4>3 DEF SimilarityNames
    <3>3. NamesOn
      BY <2>1, <2>3, <3>2 DEF NamesOn
    <3>4. /\ \A k \in 1 .. 3 : k \in DOMAIN similarity /\ similarity[k] = Columns[k]
          /\ \A k \in 1 .. 3 : \E j \in 1 .. 3 : Columns[j] = NameParts[k]
      BY <3>1, <3>3, NamesFirst
    <3>5. \A j, k \in DOMAIN similarity : similarity[j] = similarity[k] => j = k
      BY <3>1, SimilarityIs DEF Distinct
    <3>6. ASSUME NEW k \in 1 .. 3
          PROVE  PositionOf(NameParts[k]) \in 1 .. 3 /\ Columns[PositionOf(NameParts[k])] = NameParts[k]
      <4>1. PICK j \in 1 .. 3 : Columns[j] = NameParts[k]
        BY <3>4
      <4>2. j \in DOMAIN similarity /\ similarity[j] = NameParts[k]
        BY <3>4, <4>1
      <4>3. PositionOf(NameParts[k]) = j
        BY <3>5, <4>2 DEF PositionOf
      <4> QED  BY <4>1, <4>3
    <3>7. namePositions' = [k \in 1 .. 3 |-> PositionOf(NameParts[k])]
      BY <2>1, <2>3
    <3>8. namePositions' # <<>>
      <4>1. DOMAIN namePositions' = 1 .. 3 /\ 1 \in 1 .. 3
        BY <3>7
      <4>2. DOMAIN <<>> = {}
        OBVIOUS
      <4> QED  BY <4>1, <4>2
    <3> QED  BY <2>1, <3>6, <3>7, <3>8 DEF PositionsInv
  <2> QED  BY <2>2, <2>3
<1>2. CASE NoMoreRounds \/ PrepareExits \/ SmoothThrows \/ ReadThrows \/ DisambiguateThrows \/ Die
  BY <1>2 DEF NoMoreRounds, PrepareExits, SmoothThrows, ReadThrows, DisambiguateThrows, Die,
              Exit, PositionsInv
<1>3. CASE \/ TrainByName \/ Reconfigure \/ EndRound \/ Restart \/ ConfigRound \/ SwitchOn
           \/ ReadFile \/ SetUpBlocks
  BY <1>3 DEF TrainByName, Reconfigure, EndRound, Restart, ConfigRound, SwitchOn, ReadFile,
              SetUpBlocks, PositionsInv, memory
<1>4. CASE TrainByPatent \/ PreparePersonal \/ PreparePatent \/ Compose \/ Smooth \/ WriteFile
  BY <1>4 DEF TrainByPatent, PreparePersonal, PreparePatent, Compose, Smooth, WriteFile,
              PositionsInv, memory
<1>5. CASE UNCHANGED vars
  BY <1>5 DEF PositionsInv, vars
<1> QED  BY <1>1, <1>2, <1>3, <1>4, <1>5 DEF Next

LEMMA PreparedParts ==
  ASSUME MadeInv, pc \in {"compose", "smooth", "write"}
  PROVE  /\ parts[1].inRatios = InRatios("Patent") /\ parts[1].inRecord = InRecord("Patent")
         /\ parts[2].inRatios = InRatios("Personal") /\ parts[2].inRecord = InRecord("Personal")
<1>1. parts[2] = Prepared("Personal", byPatent) /\ parts[1] = Prepared("Patent", Stable)
  BY DEF MadeInv
<1>2. ASSUME NEW g, NEW pairs
      PROVE  Prepared(g, pairs).inRatios = InRatios(g) /\ Prepared(g, pairs).inRecord = InRecord(g)
  BY DEF Prepared
<1> QED  BY <1>1, <1>2

\* What is written serves the round.
LEMMA MadeServes ==
  ASSUME RoundInv, ActiveInv, MadeInv, pc = "write"
  PROVE  Serves(table, round) /\ active = ActiveIn(round)
<1>1. /\ active = ActiveIn(round) /\ active \subseteq {c \in ToSet(Columns) : Group[c] # "NONE"}
      /\ table = Smoothed(Composed) /\ Nodes(MaxProfile(Composed.names)) # 0
  BY DEF ActiveInv, MadeInv
<1>2. Composed.names = SimilarityNames(active)
  BY <1>1, PreparedParts, ComposedNames
<1>3. table.names = Composed.names /\ table.keys = Smoothed(Composed).keys
  BY <1>1 DEF Smoothed
<1>4. Smoothed(table).keys = Smoothed(Composed).keys
  BY <1>3 DEF Smoothed
<1> QED  BY <1>1, <1>2, <1>3, <1>4 DEF Serves

LEMMA FilesInvNext ==
  ASSUME RoundInv, ActiveInv, MadeInv, FilesInv, [Next]_vars
  PROVE  FilesInv'
<1>1. CASE WriteFile
  <2>1. /\ pc = "write" /\ pc' = "disambiguate" /\ files' = [files EXCEPT ![round] = table]
        /\ UNCHANGED <<round, active, table>>
    BY <1>1 DEF WriteFile
  <2>2. Serves(table, round) /\ active = ActiveIn(round)
    BY <2>1, MadeServes
  <2>3. DOMAIN files' = Rounds
    BY <2>1 DEF FilesInv
  <2>4. ASSUME NEW r \in Rounds, files'[r].there, files'[r].whole PROVE Serves(files'[r], r)
    <3>1. CASE r = round
      BY <2>1, <2>2, <3>1 DEF FilesInv
    <3>2. CASE r # round
      <4>1. files'[r] = files[r]
        BY <2>1, <3>2
      <4> QED  BY <2>4, <4>1 DEF FilesInv
    <3> QED  BY <3>1, <3>2
  <2>5. Serves(table', round') /\ active' = ActiveIn(round')
    BY <2>1, <2>2
  <2> QED  BY <2>1, <2>3, <2>4, <2>5 DEF FilesInv, ActiveIn
<1>2. CASE ReadFile
  <2>1. /\ pc = "read" /\ pc' = "disambiguate" /\ files[round].there /\ table' = files[round]
        /\ Activate(Activable(ToSet(files[round].names)))
        /\ UNCHANGED <<round, files>>
    BY <1>2 DEF ReadFile, held
  <2>2. round \in Rounds
    BY <2>1 DEF RoundInv, Working
  <2>3. ASSUME table'.whole PROVE Serves(table', round') /\ active' = ActiveIn(round')
    <3>1. Serves(files[round], round)
      BY <2>1, <2>2, <2>3 DEF FilesInv
    <3>2. files[round].names = SimilarityNames(ActiveIn(round))
      BY <3>1 DEF Serves
    <3>3. ActiveIn(round) \subseteq {c \in ToSet(Columns) : Group[c] # "NONE"}
      BY <2>2, ActiveInIs
    <3>4. Activable(ToSet(files[round].names)) = ActiveIn(round)
      BY <3>2, <3>3, SimilaritySet
    <3>5. active' = ActiveIn(round)
      BY <2>1, <3>4 DEF Activate
    <3> QED  BY <2>1, <3>1, <3>5
  <2> QED  BY <2>1, <2>3 DEF FilesInv, ActiveIn
<1>3. CASE Die
  <2>1. pc' = "dead"
    BY <1>3 DEF Die
  <2>2. CASE pc = "write"
    <3>1. PICK f \in CutShort(table) : files' = [files EXCEPT ![round] = f]
      BY <1>3, <2>2 DEF Die
    <3>2. table = Smoothed(Composed)
      BY <2>2 DEF MadeInv
    <3>3. f.whole = FALSE
      BY <3>1, <3>2 DEF CutShort, Smoothed
    <3>4. DOMAIN files' = Rounds
      BY <3>1 DEF FilesInv
    <3>5. ASSUME NEW r \in Rounds, files'[r].there, files'[r].whole PROVE Serves(files'[r], r)
      <4>1. r # round
        BY <3>1, <3>3, <3>5 DEF FilesInv
      <4>2. files'[r] = files[r]
        BY <3>1, <4>1
      <4> QED  BY <3>5, <4>2 DEF FilesInv
    <3> QED  BY <2>1, <3>4, <3>5 DEF FilesInv
  <2>3. CASE pc # "write"
    BY <1>3, <2>1, <2>3 DEF Die, FilesInv
  <2> QED  BY <2>2, <2>3
<1>4. CASE SetUpBlocks \/ Disambiguate
  <2>1. /\ pc \in {"disambiguate", "compare"} /\ UNCHANGED <<files, table, active, round>>
    BY <1>4 DEF SetUpBlocks, Disambiguate, held
  <2> QED  BY <2>1 DEF FilesInv, ActiveIn
<1>5. CASE \/ TrainByName \/ Reconfigure \/ EndRound \/ Restart \/ ConfigRound \/ SwitchOn
           \/ TrainByPatent \/ PreparePersonal \/ PreparePatent
  <2>1. files' = files /\ pc' \notin {"disambiguate", "compare", "match"}
    BY <1>5 DEF TrainByName, Reconfigure, EndRound, Restart, ConfigRound, SwitchOn,
                TrainByPatent, PreparePersonal, PreparePatent, held
  <2> QED  BY <2>1 DEF FilesInv
<1>6. CASE \/ NoMoreRounds \/ PrepareExits \/ SmoothThrows \/ ReadThrows \/ DisambiguateThrows
           \/ Compose \/ Smooth
  <2>1. files' = files /\ pc' \notin {"disambiguate", "compare", "match"}
    BY <1>6 DEF NoMoreRounds, PrepareExits, SmoothThrows, ReadThrows, DisambiguateThrows,
                Compose, Smooth, held
  <2> QED  BY <2>1 DEF FilesInv
<1>7. CASE UNCHANGED vars
  BY <1>7 DEF FilesInv, ActiveIn, vars
<1> QED  BY <1>1, <1>2, <1>3, <1>4, <1>5, <1>6, <1>7 DEF Next

LEMMA RoundInvNext ==
  ASSUME RoundInv, [Next]_vars
  PROVE  RoundInv'
<1>1. CASE TrainByName \/ Reconfigure \/ ConfigRound \/ NoMoreRounds \/ SwitchOn \/ TrainByPatent
  BY <1>1 DEF RoundInv, Working, TrainByName, Reconfigure, ConfigRound, NoMoreRounds, SwitchOn,
              TrainByPatent, held
<1>2. CASE PreparePersonal \/ PreparePatent \/ PrepareExits \/ Compose \/ Smooth \/ SmoothThrows
  BY <1>2 DEF RoundInv, Working, PreparePersonal, PreparePatent, PrepareExits, Compose, Smooth,
              SmoothThrows
<1>3. CASE WriteFile \/ ReadFile \/ ReadThrows \/ SetUpBlocks
  BY <1>3 DEF RoundInv, Working, WriteFile, ReadFile, ReadThrows, SetUpBlocks
<1>4. CASE Disambiguate \/ DisambiguateThrows \/ EndRound \/ Die \/ Restart
  BY <1>4 DEF RoundInv, Working, Disambiguate, DisambiguateThrows, EndRound, Die, Restart
<1>5. CASE UNCHANGED vars
  BY <1>5 DEF RoundInv, vars
<1> QED  BY <1>1, <1>2, <1>3, <1>4, <1>5 DEF Next

LEMMA TableInvInit == Init => TableInv
<1> SUFFICES ASSUME Init PROVE TableInv
  OBVIOUS
<1>1. RoundInv /\ PositionsInv
  BY DEF Init, RoundInv, Working, PositionsInv
<1>2. ActiveInv
  BY DEF Init, ActiveInv, Working
<1>3. MadeInv
  BY DEF Init, MadeInv
<1>4. FilesInv
  BY DEF Init, FilesInv, Absent
<1> QED  BY <1>1, <1>2, <1>3, <1>4 DEF TableInv

\* The active comparators, the parts of the table, the ratio files and the positions of
\* the names are those of the round wherever the program is, and whatever was cut short.
THEOREM TableInvariant == Spec => []TableInv
<1>1. Init => TableInv
  BY TableInvInit
<1>2. TableInv /\ [Next]_vars => TableInv'
  BY RoundInvNext, ActiveInvNext, MadeInvNext, FilesInvNext, PositionsInvNext DEF TableInv
<1> QED  BY <1>1, <1>2, PTL DEF Spec

\* The maximum profile of the active columns.
LEMMA MaxOfActive ==
  ASSUME active \subseteq {c \in ToSet(Columns) : Group[c] # "NONE"}, NamesOn
  PROVE  LET names == SimilarityNames(active)
             max   == MaxProfile(names)
         IN  /\ DOMAIN names = 1 .. Cardinality(ActiveAt) /\ Cardinality(ActiveAt) \in Nat
             /\ max \in Seq(Nat) /\ Len(max) # 0 /\ DOMAIN max = DOMAIN names
             /\ Len(max) = Cardinality(ActiveAt)
             /\ \A k \in DOMAIN names :
                  /\ names[k] \in ToSet(Columns) /\ Group[names[k]] # "NONE"
                  /\ max[k] = MaxValue[names[k]] /\ max[k] \in Nat
<1> DEFINE names == SimilarityNames(active)
           max == MaxProfile(names)
           N == Cardinality(ActiveAt)
<1>1. N \in Nat /\ N >= 3
  BY NamesFirst
<1>2. /\ names = [n \in DOMAIN Listed(ActiveAt) |-> Columns[Listed(ActiveAt)[n]]]
      /\ DOMAIN names = 1 .. N
  BY SimilarityIs
<1>3. ActiveAt \in SUBSET (DOMAIN Columns)
  BY DEF ActiveAt
<1>4. ActiveAt \in SUBSET Nat /\ IsFiniteSet(ActiveAt)
  BY <1>3, PlacesFinite
<1>5. \A n \in DOMAIN Listed(ActiveAt) : Listed(ActiveAt)[n] \in ActiveAt
  BY <1>4, ListedSeq DEF ToSet
<1>6. ASSUME NEW k \in DOMAIN names
      PROVE  names[k] \in ToSet(Columns) /\ Group[names[k]] # "NONE" /\ MaxValue[names[k]] \in Nat
  <2>1. names[k] \in active
    BY <1>2, <1>5 DEF ActiveAt
  <2>2. names[k] \in ToSet(Columns) /\ Group[names[k]] # "NONE"
    BY <2>1
  <2>3. MaxValue[names[k]] \in Nat \ {0}
    BY <2>2, RatiosAssumption
  <2> QED  BY <2>2, <2>3
<1> HIDE DEF names, N
<1>7. max \in [1 .. N -> Nat] /\ \A k \in 1 .. N : max[k] = MaxValue[names[k]]
  BY <1>2, <1>6 DEF MaxProfile
<1>8. max \in Seq(Nat) /\ Len(max) = N /\ DOMAIN max = 1 .. N
  BY <1>1, <1>7, FunctionSeq
<1>9. \A k \in DOMAIN names : max[k] = MaxValue[names[k]] /\ max[k] \in Nat
  BY <1>2, <1>6, <1>7
<1> QED  BY <1>1, <1>2, <1>6, <1>8, <1>9 DEF names, N

\* A smoothed table has all profiles up to the maximum, and no other.
LEMMA KeysAre ==
  ASSUME NEW t, LET max == MaxProfile(t.names)
                IN  max \in Seq(Nat) /\ Len(max) # 0 /\ Nodes(max) # 0
  PROVE  Smoothed(t).keys = Box(MaxProfile(t.names))
<1> DEFINE max == MaxProfile(t.names)
<1>1. max \in Seq(Nat) /\ Len(max) # 0 /\ Nodes(max) # 0
  OBVIOUS
<1>2. Smoothed(t).keys = {IndexToSp(i, max) : i \in 0 .. Nodes(max) - 1}
  BY DEF Smoothed
<1> HIDE DEF max
<1>3. /\ \A i \in 0 .. Nodes(max) - 1 : IndexToSp(i, max) \in Box(max)
      /\ \A sp \in Box(max) : Index(sp, max) \in 0 .. Nodes(max) - 1
                              /\ IndexToSp(Index(sp, max), max) = sp
  BY <1>1, RadixIs
<1>4. {IndexToSp(i, max) : i \in 0 .. Nodes(max) - 1} = Box(max)
  BY <1>3
<1> QED  BY <1>2, <1>4 DEF max

LEMMA TableServesIs ==
  ASSUME NameInv, TableInv, pc = "match", table.whole
  PROVE  /\ active = Activable(ToSet(RoundAttributes[round]))
         /\ table.names = similarity
         /\ \A i, j \in DOMAIN records : ActiveProfile(i, j) \in table.keys
         /\ \A k \in 1 .. 3 : similarity[namePositions[k]] = NameParts[k]
<1>1. round \in Rounds
  BY DEF TableInv, RoundInv, Working
<1>2. Serves(table, round) /\ active = ActiveIn(round)
  BY DEF TableInv, FilesInv
<1>3. /\ active \subseteq {c \in ToSet(Columns) : Group[c] # "NONE"} /\ NamesOn
      /\ similarity = SimilarityNames(active)
  BY <1>1, <1>2, ActiveInIs DEF NamesOn, TableInv, ActiveInv, Working
<1> DEFINE names == SimilarityNames(active)
           max == MaxProfile(names)
<1>4. /\ table.names = names /\ Nodes(max) # 0 /\ table.keys = Smoothed(table).keys
  BY <1>2 DEF Serves
<1>5. /\ max \in Seq(Nat) /\ Len(max) # 0 /\ DOMAIN max = DOMAIN names
      /\ \A k \in DOMAIN names :
           /\ names[k] \in ToSet(Columns) /\ Group[names[k]] # "NONE"
           /\ max[k] = MaxValue[names[k]] /\ max[k] \in Nat
  BY <1>3, MaxOfActive
<1>6. table.keys = Box(max)
  BY <1>4, <1>5, KeysAre
<1>7. ASSUME NEW i \in DOMAIN records, NEW j \in DOMAIN records
      PROVE  ActiveProfile(i, j) \in table.keys
  <2>1. ActiveProfile(i, j)
          = [k \in DOMAIN names |-> Compare(records, Truncation[round], names[k], i, j)]
    BY DEF ActiveProfile, Profile
  <2> HIDE DEF names, max
  <2>2. ASSUME NEW k \in DOMAIN names
        PROVE  Compare(records, Truncation[round], names[k], i, j) \in 0 .. MaxValue[names[k]]
    <3>1. RecordsInv /\ pc # "names"
      BY DEF NameInv
    <3> QED  BY <1>5, <3>1, CompareIs
  <2> DEFINE sp == ActiveProfile(i, j)
  <2>3. /\ DOMAIN sp = DOMAIN names /\ sp = [k \in DOMAIN names |-> sp[k]]
        /\ \A k \in DOMAIN names : sp[k] = Compare(records, Truncation[round], names[k], i, j)
    BY <2>1
  <2> HIDE DEF sp
  <2>4. ASSUME NEW k \in DOMAIN names PROVE sp[k] \in Nat /\ sp[k] <= max[k]
    <3>1. sp[k] \in 0 .. MaxValue[names[k]] /\ max[k] = MaxValue[names[k]] /\ max[k] \in Nat
      BY <1>5, <2>2, <2>3
    <3> QED  BY <3>1
  <2>5. sp \in [DOMAIN max -> Nat] /\ \A k \in DOMAIN max : sp[k] <= max[k]
    BY <1>5, <2>3, <2>4
  <2> QED  BY <1>6, <2>5 DEF Box, sp
<1>8. ASSUME NEW k \in 1 .. 3 PROVE similarity[namePositions[k]] = NameParts[k]
  <2>1. namePositions[k] \in 1 .. 3 /\ Columns[namePositions[k]] = NameParts[k]
    BY DEF TableInv, PositionsInv
  <2>2. \A n \in 1 .. 3 : similarity[n] = Columns[n]
    BY <1>3, NamesFirst
  <2> QED  BY <2>1, <2>2
<1> QED  BY <1>2, <1>3, <1>4, <1>7, <1>8 DEF ActiveIn

\* Whatever two records are compared in a round, the table has a ratio for them, if its
\* file was not cut short: the comparators, the table's names and the positions of the
\* names agree, and the smoothing leaves no profile out.
THEOREM TableServesProved == Spec => []TableServes
<1>1. NameInv /\ TableInv => TableServes
  BY TableServesIs DEF TableServes
<1> QED  BY <1>1, NameInvariant, TableInvariant, PTL

-----------------------------------------------------------------------------
(* The table is the product of its parts. *)

\* What a component needs to be multiplied in: the rows that are there differ outside of
\* its places.
Fits(t, part, D) ==
  /\ \A key \in DOMAIN t.rows : key = [n \in D |-> key[n]]
  /\ Distinct(Places(part)) /\ ToSet(Places(part)) \subseteq D
  /\ \A v \in DOMAIN part.ratio : v = [j \in DOMAIN Places(part) |-> v[j]]
  /\ \A p, q \in DOMAIN t.rows : (\A n \in D \ ToSet(Places(part)) : p[n] = q[n]) => p = q
  /\ IsFiniteSet(DOMAIN t.rows) /\ IsFiniteSet(DOMAIN part.ratio)

OwnPart(key, places) == [j \in DOMAIN places |-> key[places[j]]]

\* Every product of a row and a profile is a row of its own.
Multiplied(rows, t, part, D) ==
  /\ IsFiniteSet(DOMAIN rows)
  /\ Cardinality(DOMAIN rows) = Cardinality(DOMAIN t.rows) * Cardinality(DOMAIN part.ratio)
  /\ \A key \in DOMAIN rows :
       /\ key = [n \in D |-> key[n]]
       /\ OwnPart(key, Places(part)) \in DOMAIN part.ratio
       /\ \E p \in DOMAIN t.rows :
            /\ \A n \in D \ ToSet(Places(part)) : key[n] = p[n]
            /\ rows[key].num = t.rows[p].num * part.ratio[OwnPart(key, Places(part))][1]
            /\ rows[key].den = t.rows[p].den * part.ratio[OwnPart(key, Places(part))][2]

LEMMA MoreIs ==
  ASSUME NEW t, NEW part, NEW D, Fits(t, part, D)
  PROVE  Multiplied(MoreComponents(t, part).rows, t, part, D)
<1> DEFINE pl == Places(part)
           both == (DOMAIN t.rows) \X (DOMAIN part.ratio)
           made(p) == Overlay(p[1], p[2], pl)
           keys == {made(p) : p \in both}
           from == [q \in keys |-> CHOOSE p \in both : made(p) = q]
           row(p) == [num |-> t.rows[p[1]].num * part.ratio[p[2]][1],
                      den |-> t.rows[p[1]].den * part.ratio[p[2]][2],
                      x   |-> t.rows[p[1]].x + part.x[p[2]],
                      m   |-> t.rows[p[1]].m + part.m[p[2]]]
           rows == MoreComponents(t, part).rows
           own(key) == OwnPart(key, pl)
<1>1. rows = [q \in keys |-> row(from[q])]
  BY DEF MoreComponents
<1>2. /\ \A key \in DOMAIN t.rows : key = [n \in D |-> key[n]]
      /\ \A v \in DOMAIN part.ratio : v = [j \in DOMAIN pl |-> v[j]]
      /\ Distinct(pl) /\ \A j \in DOMAIN pl : pl[j] \in D
      /\ \A p, q \in DOMAIN t.rows : (\A n \in D \ ToSet(pl) : p[n] = q[n]) => p = q
  BY DEF ToSet, Fits
<1>3. ASSUME NEW p \in both
      PROVE  /\ made(p) = [n \in D |-> made(p)[n]]
             /\ own(made(p)) = p[2]
             /\ \A n \in D \ ToSet(pl) : made(p)[n] = p[1][n]
  <2>1. p[1] \in DOMAIN t.rows /\ p[2] \in DOMAIN part.ratio
    OBVIOUS
  <2>2. p[1] = [n \in D |-> p[1][n]] /\ DOMAIN p[1] = D /\ p[2] = [j \in DOMAIN pl |-> p[2][j]]
    BY <1>2, <2>1
  <2> HIDE DEF pl, both
  <2>3. /\ DOMAIN made(p) = DOMAIN p[1]
        /\ \A j \in DOMAIN pl : pl[j] \in DOMAIN p[1] => made(p)[pl[j]] = p[2][j]
        /\ \A n \in DOMAIN p[1] : (\A j \in DOMAIN pl : pl[j] # n) => made(p)[n] = p[1][n]
    BY <1>2, OverlayIs
  <2>4. made(p) = [n \in D |-> made(p)[n]]
    BY <2>2 DEF Overlay
  <2>5. own(made(p)) = [j \in DOMAIN pl |-> p[2][j]]
    BY <1>2, <2>2, <2>3 DEF OwnPart
  <2>6. own(made(p)) = p[2]
    BY <2>2, <2>5
  <2>7. \A n \in D \ ToSet(pl) : \A j \in DOMAIN pl : pl[j] # n
    BY DEF ToSet
  <2> QED  BY <2>2, <2>3, <2>4, <2>6, <2>7
<1>4. ASSUME NEW p \in both, NEW q \in both, made(p) = made(q) PROVE p = q
  <2>1. /\ own(made(p)) = p[2] /\ \A n \in D \ ToSet(pl) : made(p)[n] = p[1][n]
        /\ own(made(q)) = q[2] /\ \A n \in D \ ToSet(pl) : made(q)[n] = q[1][n]
    BY <1>3
  <2> DEFINE a == made(p)
             b == made(q)
  <2>2. a = b
    BY <1>4
  <2>3. p[1] \in DOMAIN t.rows /\ q[1] \in DOMAIN t.rows /\ p = <<p[1], p[2]>> /\ q = <<q[1], q[2]>>
    OBVIOUS
  <2>4. /\ own(a) = p[2] /\ \A n \in D \ ToSet(pl) : a[n] = p[1][n]
        /\ own(b) = q[2] /\ \A n \in D \ ToSet(pl) : b[n] = q[1][n]
    BY <2>1
  <2> HIDE DEF a, b, own, made
  <2>5. p[2] = q[2] /\ p[1] = q[1]
    BY <1>2, <2>2, <2>3, <2>4
  <2> QED  BY <2>3, <2>5
<1> DEFINE f == [p \in both |-> made(p)]
<1>5. /\ IsFiniteSet(both)
      /\ Cardinality(both) = Cardinality(DOMAIN t.rows) * Cardinality(DOMAIN part.ratio)
  BY FS_Product DEF Fits
<1> HIDE DEF both, own, pl, row
<1>6. f \in Bijection(both, keys)
  <2>1. f \in [both -> keys] /\ \A p, q \in both : f[p] = f[q] => p = q
    BY <1>4
  <2>2. \A q \in keys : \E p \in both : f[p] = q
    OBVIOUS
  <2> HIDE DEF f, keys
  <2> QED  BY <2>1, <2>2 DEF Bijection, Injection, Surjection, IsInjective
<1>7. IsFiniteSet(keys) /\ Cardinality(keys) = Cardinality(both)
  <2> HIDE DEF f, keys
  <2> QED  BY <1>5, <1>6, FS_Bijection DEF ExistsBijection
<1>8. ASSUME NEW key \in keys
      PROVE  /\ from[key] \in both /\ made(from[key]) = key
             /\ rows[key] = row(from[key])
  BY <1>1
<1>9. DOMAIN rows = keys
  BY <1>1
<1> HIDE DEF from, keys, rows, made
<1>10. ASSUME NEW key \in keys
       PROVE  /\ key = [n \in D |-> key[n]]
              /\ own(key) \in DOMAIN part.ratio
              /\ \E p \in DOMAIN t.rows :
                   /\ \A n \in D \ ToSet(pl) : key[n] = p[n]
                   /\ rows[key].num = t.rows[p].num * part.ratio[own(key)][1]
                   /\ rows[key].den = t.rows[p].den * part.ratio[own(key)][2]
  <2> DEFINE p == from[key]
  <2>1. p \in both /\ made(p) = key /\ rows[key] = row(p)
    BY <1>8
  <2> HIDE DEF p
  <2>2. p[1] \in DOMAIN t.rows /\ p[2] \in DOMAIN part.ratio
    BY <2>1 DEF both
  <2>3. own(key) = p[2] /\ key = [n \in D |-> key[n]] /\ \A n \in D \ ToSet(pl) : key[n] = p[1][n]
    BY <1>3, <2>1
  <2>4. /\ row(p).num = t.rows[p[1]].num * part.ratio[p[2]][1]
        /\ row(p).den = t.rows[p[1]].den * part.ratio[p[2]][2]
    BY DEF row
  <2> QED  BY <2>1, <2>2, <2>3, <2>4
<1> QED  BY <1>5, <1>7, <1>9, <1>10 DEF rows, own, pl, Multiplied

\* How often the profiles occur: finitely many, all over the columns of the group.
LEMMA StatsGood ==
  ASSUME NEW pairs, IsFiniteSet(DOMAIN pairs), NEW group
  PROVE  LET s == Stats(pairs, group)
         IN  /\ IsFiniteSet(DOMAIN s)
             /\ \A v \in DOMAIN s : s[v] \in Nat /\ v = [k \in DOMAIN InRecord(group) |-> v[k]]
<1> DEFINE columns == [k \in DOMAIN InRecord(group) |-> Columns[InRecord(group)[k]]]
           sp == [p \in DOMAIN pairs |-> Profile(records, Truncation[round], columns,
                                                 pairs[p][1], pairs[p][2])]
           s == Stats(pairs, group)
<1>1. s = [v \in Range(sp) |-> Cardinality({p \in DOMAIN pairs : sp[p] = v})]
  BY DEF Stats
<1>2. ASSUME NEW p \in DOMAIN pairs
      PROVE  sp[p] = [k \in DOMAIN InRecord(group) |-> sp[p][k]]
  <2>1. sp[p] = Profile(records, Truncation[round], columns, pairs[p][1], pairs[p][2])
    OBVIOUS
  <2> DEFINE v == sp[p]
  <2>2. v = [k \in DOMAIN InRecord(group) |->
               Compare(records, Truncation[round], columns[k], pairs[p][1], pairs[p][2])]
    BY <2>1 DEF Profile
  <2> HIDE DEF sp, columns, v
  <2>3. v = [k \in DOMAIN InRecord(group) |-> v[k]]
    BY <2>2
  <2> QED  BY <2>3 DEF v
<1>3. Range(sp) = {sp[p] : p \in DOMAIN pairs}
  BY DEF Range
<1> HIDE DEF sp
<1>4. IsFiniteSet(Range(sp))
  BY <1>3, ImageFinite
<1>5. ASSUME NEW v \in Range(sp)
      PROVE  s[v] \in Nat /\ v = [k \in DOMAIN InRecord(group) |-> v[k]]
  <2>1. IsFiniteSet({p \in DOMAIN pairs : sp[p] = v})
    BY FS_Subset
  <2>2. s[v] \in Nat
    BY <1>1, <2>1, FS_CardinalityType
  <2> QED  BY <1>2, <1>3, <2>2
<1> QED  BY <1>1, <1>4, <1>5 DEF s

\* What prepare makes of the counts x and m: every profile that is kept has both, each
\* with the Laplace correction in it.
LEMMA CorrectedGood ==
  ASSUME NEW x, NEW m, IsFiniteSet(DOMAIN x), IsFiniteSet(DOMAIN m),
         \A v \in DOMAIN x : x[v] \in Nat, \A v \in DOMAIN m : m[v] \in Nat
  PROVE  LET r == CorrectedOf(x, m)
         IN  /\ IsFiniteSet(DOMAIN r.ratio)
             /\ DOMAIN x \cap DOMAIN m \subseteq DOMAIN r.ratio
             /\ \A v \in DOMAIN r.ratio :
                  /\ v \in DOMAIN x \cup DOMAIN m
                  /\ r.ratio[v] = <<r.m[v], r.x[v]>>
                  /\ r.x[v] \in Nat /\ r.x[v] >= laplace_base
                  /\ r.m[v] \in Nat /\ r.m[v] >= laplace_base
<1> DEFINE c == Considered(x, m)
           cx == Corrected(x, c)
           cm == Corrected(m, c)
           both == DOMAIN cx \cap DOMAIN cm
           r == CorrectedOf(x, m)
<1>1. c \subseteq DOMAIN x \cup DOMAIN m /\ DOMAIN x \cap DOMAIN m \subseteq c
  BY DEF Considered
<1> HIDE DEF c
<1>2. /\ r.ratio = [v \in both |-> <<cm[v], cx[v]>>]
      /\ r.x = [v \in both |-> cx[v]] /\ r.m = [v \in both |-> cm[v]]
  BY DEF CorrectedOf, RatiosOf, Restrict, c
<1>3. /\ DOMAIN cx = DOMAIN x \cup c /\ DOMAIN cm = DOMAIN m \cup c
      /\ \A v \in DOMAIN cx : cx[v] = (IF v \in DOMAIN x THEN x[v] ELSE 0)
                                      + (IF v \in c THEN laplace_base ELSE 0)
      /\ \A v \in DOMAIN cm : cm[v] = (IF v \in DOMAIN m THEN m[v] ELSE 0)
                                      + (IF v \in c THEN laplace_base ELSE 0)
  BY DEF Corrected
<1>4. laplace_base \in Nat
  BY RatiosAssumption
<1> HIDE DEF cx, cm, r
<1>5. both = c
  BY <1>1, <1>3
<1>6. \A v \in c : /\ cx[v] \in Nat /\ cx[v] >= laplace_base
                   /\ cm[v] \in Nat /\ cm[v] >= laplace_base
  BY <1>3, <1>4
<1>7. IsFiniteSet(c)
  <2>1. IsFiniteSet(DOMAIN x \cup DOMAIN m)
    BY FS_Union
  <2> QED  BY <1>1, <2>1, FS_Subset
<1> HIDE DEF both
<1>8. DOMAIN r.ratio = c
  BY <1>2, <1>5
<1>9. ASSUME NEW v \in c
      PROVE  r.ratio[v] = <<r.m[v], r.x[v]>> /\ r.x[v] = cx[v] /\ r.m[v] = cm[v]
  BY <1>2, <1>5
<1> QED  BY <1>1, <1>6, <1>7, <1>8, <1>9 DEF r

LEMMA PreparedGood ==
  ASSUME NEW group, NEW pairs, IsFiniteSet(DOMAIN pairs.x), IsFiniteSet(DOMAIN pairs.m)
  PROVE  LET part == Prepared(group, pairs)
         IN  /\ IsFiniteSet(DOMAIN part.ratio)
             /\ DOMAIN Stats(pairs.x, group) \cap DOMAIN Stats(pairs.m, group) \subseteq DOMAIN part.ratio
             /\ \A v \in DOMAIN part.ratio :
                  /\ v \in DOMAIN Stats(pairs.x, group) \cup DOMAIN Stats(pairs.m, group)
                  /\ v = [k \in DOMAIN InRecord(group) |-> v[k]]
                  /\ part.ratio[v] = <<part.m[v], part.x[v]>>
                  /\ part.x[v] \in Nat /\ part.x[v] >= laplace_base
                  /\ part.m[v] \in Nat /\ part.m[v] >= laplace_base
<1> DEFINE x == Stats(pairs.x, group)
           m == Stats(pairs.m, group)
           part == Prepared(group, pairs)
           r == CorrectedOf(x, m)
<1>1. part.x = r.x /\ part.m = r.m /\ part.ratio = r.ratio
  BY DEF Prepared, CorrectedOf, RatiosOf
<1>2. /\ IsFiniteSet(DOMAIN x) /\ IsFiniteSet(DOMAIN m)
      /\ \A v \in DOMAIN x : x[v] \in Nat /\ v = [k \in DOMAIN InRecord(group) |-> v[k]]
      /\ \A v \in DOMAIN m : m[v] \in Nat /\ v = [k \in DOMAIN InRecord(group) |-> v[k]]
  BY StatsGood
<1> HIDE DEF x, m, part
<1>3. /\ IsFiniteSet(DOMAIN r.ratio)
      /\ DOMAIN x \cap DOMAIN m \subseteq DOMAIN r.ratio
      /\ \A v \in DOMAIN r.ratio :
           /\ v \in DOMAIN x \cup DOMAIN m
           /\ r.ratio[v] = <<r.m[v], r.x[v]>>
           /\ r.x[v] \in Nat /\ r.x[v] >= laplace_base
           /\ r.m[v] \in Nat /\ r.m[v] >= laplace_base
  BY <1>2, CorrectedGood
<1> HIDE DEF r
<1> QED  BY <1>1, <1>2, <1>3 DEF x, m, part

\* There are finitely many pairs to train from.
LEMMA TrainingFinite ==
  ASSUME NameInv, MadeInv, pc \in {"compose", "smooth", "write"}
  PROVE  /\ IsFiniteSet(DOMAIN Stable.x) /\ IsFiniteSet(DOMAIN Stable.m)
         /\ IsFiniteSet(DOMAIN byPatent.x) /\ IsFiniteSet(DOMAIN byPatent.m)
<1>1. ASSUME NEW S, NEW s \in Seq(S) PROVE IsFiniteSet(DOMAIN s)
  <2>1. DOMAIN s = 1 .. Len(s) /\ Len(s) \in Nat
    OBVIOUS
  <2> QED  BY <2>1, FS_Interval
<1>2. byPatent.x \in Seq(Nat \X Nat) /\ byPatent.m \in Seq(Nat \X Nat)
  <2>1. byPatent \in PairsByPatent
    BY DEF MadeInv
  <2>2. \A t \in PairsByPatent : t.x \in Seq(Nat \X Nat) /\ t.m \in Seq(Nat \X Nat)
    BY RatiosAssumption
  <2> QED  BY <2>1, <2>2
<1>3. nonmatches \in Seq((DOMAIN records) \X (DOMAIN records))
  BY DEF NameInv
<1>4. IsFiniteSet(matches)
  <2>1. matches \subseteq (DOMAIN records) \X (DOMAIN records)
    BY DEF NameInv, MatchPairs
  <2>2. Numbered
    BY RecordsAre DEF NameInv
  <2>3. IsFiniteSet(DOMAIN records)
    BY <2>2, FS_Interval DEF Numbered
  <2> QED  BY <2>1, <2>3, FS_Product, FS_Subset
<1>5. Stable.x = nonmatches /\ DOMAIN Stable.m = matches
  BY DEF Stable
<1> QED  BY <1>1, <1>2, <1>3, <1>4, <1>5

PartGood(part) ==
  /\ IsFiniteSet(DOMAIN part.ratio)
  /\ Distinct(part.inRatios)
  /\ \A v \in DOMAIN part.ratio :
       /\ v = [j \in DOMAIN part.inRatios |-> v[j]]
       /\ part.ratio[v] = <<part.m[v], part.x[v]>>
       /\ part.x[v] \in Nat /\ part.x[v] >= laplace_base
       /\ part.m[v] \in Nat /\ part.m[v] >= laplace_base

LEMMA PartsGood ==
  ASSUME NameInv, ActiveInv, MadeInv, pc \in {"compose", "smooth", "write"}
  PROVE  /\ PartGood(parts[1]) /\ PartGood(parts[2])
         /\ DOMAIN Stats(Stable.x, "Patent") \cap DOMAIN Stats(Stable.m, "Patent")
              \subseteq DOMAIN parts[1].ratio
         /\ DOMAIN Stats(byPatent.x, "Personal") \cap DOMAIN Stats(byPatent.m, "Personal")
              \subseteq DOMAIN parts[2].ratio
<1>1. active \subseteq {c \in ToSet(Columns) : Group[c] # "NONE"}
  BY DEF ActiveInv
<1>2. ASSUME NEW group
      PROVE  Distinct(InRatios(group)) /\ DOMAIN InRatios(group) = DOMAIN InRecord(group)
  <2>1. /\ InRecord(group) = Listed(GroupAt(group)) /\ InRatios(group) = Listed(PlacesOf(group))
        /\ IsFiniteSet(GroupAt(group)) /\ GroupAt(group) \in SUBSET Nat
        /\ IsFiniteSet(PlacesOf(group)) /\ PlacesOf(group) \in SUBSET Nat
        /\ Cardinality(PlacesOf(group)) = Cardinality(GroupAt(group))
    BY <1>1, PlacesAre
  <2> QED  BY <2>1, ListedSeq
<1>3. parts[2] = Prepared("Personal", byPatent) /\ parts[1] = Prepared("Patent", Stable)
  BY DEF MadeInv
<1>4. /\ parts[1].inRatios = InRatios("Patent") /\ parts[2].inRatios = InRatios("Personal")
  BY PreparedParts
<1>5. ASSUME NEW group, NEW pairs, IsFiniteSet(DOMAIN pairs.x), IsFiniteSet(DOMAIN pairs.m),
             NEW part, part = Prepared(group, pairs), part.inRatios = InRatios(group)
      PROVE  /\ PartGood(part)
             /\ DOMAIN Stats(pairs.x, group) \cap DOMAIN Stats(pairs.m, group) \subseteq DOMAIN part.ratio
  BY <1>2, <1>5, PreparedGood DEF PartGood
<1> HIDE DEF PartGood
<1>6. PartGood(parts[1]) /\ DOMAIN Stats(Stable.x, "Patent") \cap DOMAIN Stats(Stable.m, "Patent")
                              \subseteq DOMAIN parts[1].ratio
  BY <1>3, <1>4, <1>5, TrainingFinite
<1>7. PartGood(parts[2]) /\ DOMAIN Stats(byPatent.x, "Personal") \cap DOMAIN Stats(byPatent.m, "Personal")
                              \subseteq DOMAIN parts[2].ratio
  BY <1>3, <1>4, <1>5, TrainingFinite
<1> QED  BY <1>6, <1>7

\* A row of the table stands for one row of each part.
LEMMA ComposedRows ==
  ASSUME NameInv, ActiveInv, MadeInv, pc \in {"smooth", "write"}
  PROVE  LET own(key, c) == OwnPart(key, parts[c].inRatios)
         IN  /\ IsFiniteSet(DOMAIN Composed.rows)
             /\ Cardinality(DOMAIN Composed.rows)
                  = Cardinality(DOMAIN parts[1].ratio) * Cardinality(DOMAIN parts[2].ratio)
             /\ \A key \in DOMAIN Composed.rows :
                  /\ key = [n \in 1 .. Cardinality(ActiveAt) |-> key[n]]
                  /\ \A c \in 1 .. 2 : own(key, c) \in DOMAIN parts[c].ratio
                  /\ Composed.rows[key].num
                       = parts[1].ratio[own(key, 1)][1] * parts[2].ratio[own(key, 2)][1]
                  /\ Composed.rows[key].den
                       = parts[1].ratio[own(key, 1)][2] * parts[2].ratio[own(key, 2)][2]
<1> DEFINE D == 1 .. Cardinality(ActiveAt)
           one == parts[1]
           two == parts[2]
           a == one.inRatios
           b == two.inRatios
           null == [n \in 1 .. Len(a) + Len(b) |-> impossible_value]
           t0 == NullTable
           t1 == MoreComponents(t0, one)
           t2 == MoreComponents(t1, two)
           A(key) == OwnPart(key, a)
           B(key) == OwnPart(key, b)
<1>1. active \subseteq {c \in ToSet(Columns) : Group[c] # "NONE"}
  BY DEF ActiveInv
<1>2. /\ a = Listed(PlacesOf("Patent")) /\ b = Listed(PlacesOf("Personal"))
      /\ IsFiniteSet(PlacesOf("Patent")) /\ PlacesOf("Patent") \in SUBSET Nat
      /\ IsFiniteSet(PlacesOf("Personal")) /\ PlacesOf("Personal") \in SUBSET Nat
  BY <1>1, PreparedParts, PlacesAre
<1>3. /\ ToSet(a) = PlacesOf("Patent") /\ Len(a) = Cardinality(PlacesOf("Patent"))
      /\ ToSet(b) = PlacesOf("Personal") /\ Len(b) = Cardinality(PlacesOf("Personal"))
  BY <1>2, ListedSeq
<1>4. /\ ToSet(a) \cap ToSet(b) = {} /\ ToSet(a) \cup ToSet(b) = D
      /\ Len(a) + Len(b) = Cardinality(ActiveAt)
  BY <1>1, <1>3, GroupsShare
<1>5. PartGood(one) /\ PartGood(two)
  BY PartsGood
<1>6. /\ DOMAIN t0.rows = {null} /\ t0.rows[null].num = 1 /\ t0.rows[null].den = 1
  BY DEF NullTable
<1>7. null = [n \in D |-> impossible_value]
  BY <1>4
<1>8. Composed = t2
  BY DEF Composed
<1>9. Places(one) = a /\ Places(two) = b
  BY DEF Places
<1>10. IsFiniteSet(DOMAIN t0.rows) /\ Cardinality(DOMAIN t0.rows) = 1
  BY <1>6, FS_Singleton
<1>19. \A c \in 1 .. 2 : parts[c] = IF c = 1 THEN one ELSE two
  OBVIOUS
<1> HIDE DEF D, a, b, null, t0, t1, t2, one, two
<1>11. /\ IsFiniteSet(DOMAIN t1.rows)
       /\ Cardinality(DOMAIN t1.rows) = Cardinality(DOMAIN t0.rows) * Cardinality(DOMAIN one.ratio)
       /\ \A key \in DOMAIN t1.rows :
            /\ key = [n \in D |-> key[n]]
            /\ A(key) \in DOMAIN one.ratio
            /\ \E p \in DOMAIN t0.rows :
                 /\ \A n \in D \ ToSet(a) : key[n] = p[n]
                 /\ t1.rows[key].num = t0.rows[p].num * one.ratio[A(key)][1]
                 /\ t1.rows[key].den = t0.rows[p].den * one.ratio[A(key)][2]
  <2>1. \A key \in DOMAIN t0.rows : key = [n \in D |-> key[n]]
    BY <1>6, <1>7
  <2>2. /\ Distinct(Places(one)) /\ ToSet(Places(one)) \subseteq D
        /\ \A v \in DOMAIN one.ratio : v = [j \in DOMAIN Places(one) |-> v[j]]
        /\ IsFiniteSet(DOMAIN one.ratio)
    BY <1>4, <1>5, <1>9 DEF PartGood, a
  <2>3. \A p, q \in DOMAIN t0.rows : (\A n \in D \ ToSet(Places(one)) : p[n] = q[n]) => p = q
    BY <1>6
  <2>4. Fits(t0, one, D)
    BY <1>10, <2>1, <2>2, <2>3 DEF Fits
  <2>5. Multiplied(t1.rows, t0, one, D)
    BY <2>4, MoreIs DEF t1
  <2> QED  BY <1>9, <2>5 DEF Multiplied
<1>12. ASSUME NEW key \in DOMAIN t1.rows
       PROVE  /\ \A n \in D \ ToSet(a) : key[n] = null[n]
              /\ t1.rows[key].num = one.ratio[A(key)][1]
              /\ t1.rows[key].den = one.ratio[A(key)][2]
              /\ one.ratio[A(key)][1] \in Nat /\ one.ratio[A(key)][2] \in Nat
  <2>1. A(key) \in DOMAIN one.ratio
    BY <1>11
  <2> HIDE DEF A
  <2>2. one.ratio[A(key)][1] \in Nat /\ one.ratio[A(key)][2] \in Nat
    BY <1>5, <2>1 DEF PartGood
  <2>3. /\ \A n \in D \ ToSet(a) : key[n] = null[n]
        /\ t1.rows[key].num = 1 * one.ratio[A(key)][1]
        /\ t1.rows[key].den = 1 * one.ratio[A(key)][2]
    BY <1>6, <1>11
  <2> QED  BY <2>2, <2>3
<1>13. ASSUME NEW p \in DOMAIN t1.rows, NEW q \in DOMAIN t1.rows,
              \A n \in D \ ToSet(b) : p[n] = q[n]
       PROVE  p = q
  <2>1. /\ p = [n \in D |-> p[n]] /\ \A n \in D \ ToSet(a) : p[n] = null[n]
        /\ q = [n \in D |-> q[n]] /\ \A n \in D \ ToSet(a) : q[n] = null[n]
    BY <1>11, <1>12
  <2>2. \A n \in D : p[n] = q[n]
    BY <1>4, <1>13, <2>1
  <2> QED  BY <2>1, <2>2
<1>14. /\ IsFiniteSet(DOMAIN t2.rows)
       /\ Cardinality(DOMAIN t2.rows) = Cardinality(DOMAIN t1.rows) * Cardinality(DOMAIN two.ratio)
       /\ \A key \in DOMAIN t2.rows :
            /\ key = [n \in D |-> key[n]]
            /\ B(key) \in DOMAIN two.ratio
            /\ \E p \in DOMAIN t1.rows :
                 /\ \A n \in D \ ToSet(b) : key[n] = p[n]
                 /\ t2.rows[key].num = t1.rows[p].num * two.ratio[B(key)][1]
                 /\ t2.rows[key].den = t1.rows[p].den * two.ratio[B(key)][2]
  <2>1. \A key \in DOMAIN t1.rows : key = [n \in D |-> key[n]]
    BY <1>11
  <2>2. /\ Distinct(Places(two)) /\ ToSet(Places(two)) \subseteq D
        /\ \A v \in DOMAIN two.ratio : v = [j \in DOMAIN Places(two) |-> v[j]]
        /\ IsFiniteSet(DOMAIN two.ratio)
    BY <1>4, <1>5, <1>9 DEF PartGood, b
  <2>3. \A p, q \in DOMAIN t1.rows : (\A n \in D \ ToSet(Places(two)) : p[n] = q[n]) => p = q
    BY <1>9, <1>13
  <2>4. Fits(t1, two, D)
    BY <1>11, <2>1, <2>2, <2>3 DEF Fits
  <2>5. Multiplied(t2.rows, t1, two, D)
    BY <2>4, MoreIs DEF t2
  <2> QED  BY <1>9, <2>5 DEF Multiplied
<1>15. ASSUME NEW key \in DOMAIN t2.rows
       PROVE  /\ key = [n \in D |-> key[n]] /\ A(key) \in DOMAIN one.ratio /\ B(key) \in DOMAIN two.ratio
              /\ t2.rows[key].num = one.ratio[A(key)][1] * two.ratio[B(key)][1]
              /\ t2.rows[key].den = one.ratio[A(key)][2] * two.ratio[B(key)][2]
  <2>1. key = [n \in D |-> key[n]] /\ B(key) \in DOMAIN two.ratio
    BY <1>14
  <2>2. PICK p \in DOMAIN t1.rows :
          /\ \A n \in D \ ToSet(b) : key[n] = p[n]
          /\ t2.rows[key].num = t1.rows[p].num * two.ratio[B(key)][1]
          /\ t2.rows[key].den = t1.rows[p].den * two.ratio[B(key)][2]
    BY <1>14
  <2>3. \A j \in DOMAIN a : a[j] \in D \ ToSet(b)
    BY <1>4 DEF ToSet
  <2>4. A(key) = A(p)
    BY <2>2, <2>3 DEF OwnPart
  <2>5. A(p) \in DOMAIN one.ratio
    BY <1>11
  <2> HIDE DEF A, B
  <2>6. t1.rows[p].num = one.ratio[A(p)][1] /\ t1.rows[p].den = one.ratio[A(p)][2]
    BY <1>12
  <2> QED  BY <2>1, <2>2, <2>4, <2>5, <2>6
<1>16. Cardinality(DOMAIN t2.rows) = Cardinality(DOMAIN one.ratio) * Cardinality(DOMAIN two.ratio)
  <2>1. Cardinality(DOMAIN one.ratio) \in Nat
    BY <1>5, FS_CardinalityType DEF PartGood
  <2>2. Cardinality(DOMAIN t1.rows) = 1 * Cardinality(DOMAIN one.ratio)
    BY <1>10, <1>11
  <2>3. Cardinality(DOMAIN t1.rows) = Cardinality(DOMAIN one.ratio)
    BY <2>1, <2>2
  <2> QED  BY <1>14, <2>3
<1>17. ASSUME NEW key \in DOMAIN t2.rows, NEW c \in 1 .. 2
       PROVE  OwnPart(key, parts[c].inRatios) \in DOMAIN parts[c].ratio
  <2>1. CASE c = 1
    BY <1>15, <2>1 DEF a, one
  <2>2. CASE c = 2
    BY <1>15, <2>2 DEF b, two
  <2> QED  BY <2>1, <2>2
<1>18. ASSUME NEW key \in DOMAIN Composed.rows
       PROVE  /\ key = [n \in 1 .. Cardinality(ActiveAt) |-> key[n]]
              /\ Composed.rows[key].num
                   = parts[1].ratio[OwnPart(key, parts[1].inRatios)][1]
                     * parts[2].ratio[OwnPart(key, parts[2].inRatios)][1]
              /\ Composed.rows[key].den
                   = parts[1].ratio[OwnPart(key, parts[1].inRatios)][2]
                     * parts[2].ratio[OwnPart(key, parts[2].inRatios)][2]
  BY <1>8, <1>15 DEF D, a, b, one, two
<1>20. /\ IsFiniteSet(DOMAIN Composed.rows)
       /\ Cardinality(DOMAIN Composed.rows)
            = Cardinality(DOMAIN parts[1].ratio) * Cardinality(DOMAIN parts[2].ratio)
  BY <1>8, <1>14, <1>16 DEF one, two
<1> QED  BY <1>8, <1>17, <1>18, <1>20

LEMMA FactorsIndependentIs ==
  ASSUME NameInv, TableInv, pc = "smooth" PROVE FactorsIndependent
<1> USE DEF TableInv
<1>1. /\ active \subseteq {c \in ToSet(Columns) : Group[c] # "NONE"}
      /\ similarity = SimilarityNames(active) /\ table = Composed
  BY DEF ActiveInv, MadeInv, Working
<1>2. table.names = similarity
  BY <1>1, PreparedParts, ComposedNames
<1>3. /\ Cardinality(DOMAIN table.rows)
           = Cardinality(DOMAIN parts[1].ratio) * Cardinality(DOMAIN parts[2].ratio)
      /\ \A key \in DOMAIN table.rows :
           /\ \A c \in 1 .. 2 : OwnPart(key, parts[c].inRatios)
                                  \in DOMAIN parts[c].ratio
           /\ table.rows[key].num
                = parts[1].ratio[OwnPart(key, parts[1].inRatios)][1]
                  * parts[2].ratio[OwnPart(key, parts[2].inRatios)][1]
           /\ table.rows[key].den
                = parts[1].ratio[OwnPart(key, parts[1].inRatios)][2]
                  * parts[2].ratio[OwnPart(key, parts[2].inRatios)][2]
  BY <1>1, ComposedRows
<1>4. /\ PartGood(parts[1]) /\ PartGood(parts[2])
      /\ DOMAIN Stats(Stable.x, "Patent") \cap DOMAIN Stats(Stable.m, "Patent")
           \subseteq DOMAIN parts[1].ratio
      /\ DOMAIN Stats(byPatent.x, "Personal") \cap DOMAIN Stats(byPatent.m, "Personal")
           \subseteq DOMAIN parts[2].ratio
  BY PartsGood
<1>5. ASSUME NEW c \in 1 .. 2, NEW v \in DOMAIN parts[c].ratio
      PROVE  parts[c].x[v] >= laplace_base /\ parts[c].m[v] >= laplace_base
  <2>1. PartGood(parts[c])
    BY <1>4
  <2> QED  BY <2>1 DEF PartGood
<1>6. ASSUME NEW c \in 1 .. 2
      PROVE  (IF c = 1 THEN DOMAIN Stats(Stable.x, "Patent") \cap DOMAIN Stats(Stable.m, "Patent")
              ELSE DOMAIN Stats(byPatent.x, "Personal") \cap DOMAIN Stats(byPatent.m, "Personal"))
             \subseteq DOMAIN parts[c].ratio
  <2>1. CASE c = 1
    BY <1>4, <2>1
  <2>2. CASE c = 2
    BY <1>4, <2>2
  <2> QED  BY <2>1, <2>2
<1> QED  BY <1>2, <1>3, <1>5, <1>6 DEF FactorsIndependent, OwnPart

\* The table before it is smoothed is the product of its parts, whatever the training
\* pairs were: a row for every two rows of the parts and no two of them the same, the
\* ratio their product; what was seen among the matches and among the non-matches is in
\* a part, and no count there is below the Laplace base.
THEOREM FactorsProved == Spec => []FactorsIndependent
<1>1. NameInv /\ TableInv => FactorsIndependent
  <2>1. pc # "smooth" => FactorsIndependent
    BY DEF FactorsIndependent
  <2> QED  BY <2>1, FactorsIndependentIs
<1> QED  BY <1>1, NameInvariant, TableInvariant, PTL

-----------------------------------------------------------------------------
(* The problem of the smoothing. *)

\* The profiles of pairs of records stay below the maximum.
LEMMA StatsBounded ==
  ASSUME RecordsInv, pc # "names", NEW group \in {"Patent", "Personal"},
         active \subseteq {c \in ToSet(Columns) : Group[c] # "NONE"}, NEW pairs,
         \A p \in DOMAIN pairs : pairs[p][1] \in DOMAIN records /\ pairs[p][2] \in DOMAIN records,
         NEW v \in DOMAIN Stats(pairs, group)
  PROVE  \A k \in DOMAIN InRecord(group) : v[k] \in 0 .. MaxValue[Columns[InRecord(group)[k]]]
<1> DEFINE columns == [k \in DOMAIN InRecord(group) |-> Columns[InRecord(group)[k]]]
           sp == [p \in DOMAIN pairs |-> Profile(records, Truncation[round], columns,
                                                 pairs[p][1], pairs[p][2])]
<1>1. Stats(pairs, group) = [w \in Range(sp) |-> Cardinality({p \in DOMAIN pairs : sp[p] = w})]
  BY DEF Stats
<1>2. v \in Range(sp)
  BY <1>1
<1>3. PICK p \in DOMAIN pairs : v = sp[p]
  <2> HIDE DEF sp
  <2>1. DOMAIN sp = DOMAIN pairs
    BY DEF sp
  <2> QED  BY <1>2, <2>1 DEF Range
<1>4. v = [k \in DOMAIN InRecord(group) |->
             Compare(records, Truncation[round], columns[k], pairs[p][1], pairs[p][2])]
  BY <1>3 DEF Profile
<1>5. ASSUME NEW k \in DOMAIN InRecord(group)
      PROVE  columns[k] \in ToSet(Columns) /\ Group[columns[k]] # "NONE"
  <2>1. /\ InRecord(group) = Listed(GroupAt(group))
        /\ IsFiniteSet(GroupAt(group)) /\ GroupAt(group) \in SUBSET Nat
    BY PlacesAre
  <2>2. ToSet(InRecord(group)) = GroupAt(group)
    BY <2>1, ListedSeq
  <2>3. InRecord(group)[k] \in GroupAt(group)
    BY <2>2 DEF ToSet
  <2>4. columns[k] \in active
    BY <2>3 DEF GroupAt
  <2> QED  BY <2>4
<1>6. ASSUME NEW k \in DOMAIN InRecord(group)
      PROVE  v[k] \in 0 .. MaxValue[Columns[InRecord(group)[k]]]
  <2>1. v[k] = Compare(records, Truncation[round], columns[k], pairs[p][1], pairs[p][2])
    BY <1>4
  <2>2. columns[k] = Columns[InRecord(group)[k]]
    OBVIOUS
  <2> DEFINE c == columns[k]
  <2>3. c \in ToSet(Columns) /\ Group[c] # "NONE"
    BY <1>5
  <2> HIDE DEF c, columns
  <2>4. Compare(records, Truncation[round], c, pairs[p][1], pairs[p][2]) \in 0 .. MaxValue[c]
    BY <2>3, CompareIs
  <2> QED  BY <2>1, <2>2, <2>4 DEF c
<1> QED  BY <1>6

\* The pairs of the training are of records.
LEMMA TrainingOfRecords ==
  ASSUME NameInv, MadeInv, pc \in {"compose", "smooth", "write"}
  PROVE  \A pairs \in {Stable.x, Stable.m, byPatent.x, byPatent.m} : \A p \in DOMAIN pairs :
           pairs[p][1] \in DOMAIN records /\ pairs[p][2] \in DOMAIN records
<1>1. ASSUME NEW s \in Seq(Nat \X Nat), \A p \in Range(s) : ToSet(p) \subseteq DOMAIN records,
             NEW p \in DOMAIN s
      PROVE  s[p][1] \in DOMAIN records /\ s[p][2] \in DOMAIN records
  <2>1. s[p] \in Nat \X Nat /\ s[p] \in Range(s)
    BY DEF Range
  <2> DEFINE q == s[p]
  <2>2. q \in Nat \X Nat /\ ToSet(q) \subseteq DOMAIN records
    BY <1>1, <2>1
  <2> HIDE DEF q
  <2>3. q = <<q[1], q[2]>>
    BY <2>2
  <2>4. DOMAIN q = 1 .. 2
    BY <2>3
  <2>5. q[1] \in ToSet(q) /\ q[2] \in ToSet(q)
    BY <2>4 DEF ToSet
  <2> QED  BY <2>2, <2>5 DEF q
<1>2. byPatent.x \in Seq(Nat \X Nat) /\ byPatent.m \in Seq(Nat \X Nat)
  <2>1. byPatent \in PairsByPatent
    BY DEF MadeInv
  <2>2. \A t \in PairsByPatent : t.x \in Seq(Nat \X Nat) /\ t.m \in Seq(Nat \X Nat)
    BY RatiosAssumption
  <2> QED  BY <2>1, <2>2
<1>3. \A p \in Range(byPatent.x) \cup Range(byPatent.m) : ToSet(p) \subseteq DOMAIN records
  BY DEF MadeInv
<1>4. \A p \in DOMAIN byPatent.x : byPatent.x[p][1] \in DOMAIN records /\ byPatent.x[p][2] \in DOMAIN records
  BY <1>1, <1>2, <1>3
<1>5. \A p \in DOMAIN byPatent.m : byPatent.m[p][1] \in DOMAIN records /\ byPatent.m[p][2] \in DOMAIN records
  BY <1>1, <1>2, <1>3
<1>6. \A p \in DOMAIN Stable.x : Stable.x[p][1] \in DOMAIN records /\ Stable.x[p][2] \in DOMAIN records
  <2>1. nonmatches \in Seq((DOMAIN records) \X (DOMAIN records)) /\ Stable.x = nonmatches
    BY DEF NameInv, Stable
  <2> QED  BY <2>1
<1>7. \A p \in DOMAIN Stable.m : Stable.m[p][1] \in DOMAIN records /\ Stable.m[p][2] \in DOMAIN records
  <2>1. matches \subseteq (DOMAIN records) \X (DOMAIN records) /\ Stable.m = [p \in matches |-> p]
    BY DEF NameInv, MatchPairs, Stable
  <2> QED  BY <2>1
<1> QED  BY <1>4, <1>5, <1>6, <1>7

\* The profiles in a part, in the places of the part, are below the maximum.
LEMMA PartBelow ==
  ASSUME NameInv, pc # "names", NEW group \in {"Patent", "Personal"}, NamesOn,
         active \subseteq {c \in ToSet(Columns) : Group[c] # "NONE"},
         NEW pairs, IsFiniteSet(DOMAIN pairs.x), IsFiniteSet(DOMAIN pairs.m),
         \A p \in DOMAIN pairs.x : pairs.x[p][1] \in DOMAIN records /\ pairs.x[p][2] \in DOMAIN records,
         \A p \in DOMAIN pairs.m : pairs.m[p][1] \in DOMAIN records /\ pairs.m[p][2] \in DOMAIN records,
         NEW v \in DOMAIN Prepared(group, pairs).ratio
  PROVE  LET max == MaxProfile(SimilarityNames(active))
         IN  \A j \in DOMAIN InRatios(group) : v[j] \in 0 .. max[InRatios(group)[j]]
<1> DEFINE names == SimilarityNames(active)
           max == MaxProfile(names)
<1>1. v \in DOMAIN Stats(pairs.x, group) \cup DOMAIN Stats(pairs.m, group)
  BY PreparedGood
<1>2. \A k \in DOMAIN InRecord(group) : v[k] \in 0 .. MaxValue[Columns[InRecord(group)[k]]]
  <2>1. RecordsInv
    BY DEF NameInv
  <2>2. CASE v \in DOMAIN Stats(pairs.x, group)
    BY <2>1, <2>2, StatsBounded
  <2>3. CASE v \in DOMAIN Stats(pairs.m, group)
    BY <2>1, <2>3, StatsBounded
  <2> QED  BY <1>1, <2>2, <2>3
<1>3. /\ InRecord(group) = Listed(GroupAt(group)) /\ InRatios(group) = Listed(PlacesOf(group))
      /\ IsFiniteSet(GroupAt(group)) /\ GroupAt(group) \in SUBSET Nat
      /\ IsFiniteSet(PlacesOf(group)) /\ PlacesOf(group) \in SUBSET Nat
      /\ Cardinality(PlacesOf(group)) = Cardinality(GroupAt(group))
      /\ \A j \in 1 .. Cardinality(PlacesOf(group)) :
           /\ InRatios(group)[j] \in PlacesOf(group)
           /\ InRecord(group)[j] = Listed(ActiveAt)[InRatios(group)[j]]
  BY PlacesAre
<1>4. /\ DOMAIN InRatios(group) = 1 .. Cardinality(PlacesOf(group))
      /\ DOMAIN InRecord(group) = 1 .. Cardinality(PlacesOf(group))
  BY <1>3, ListedSeq
<1>5. /\ names = [n \in DOMAIN Listed(ActiveAt) |-> Columns[Listed(ActiveAt)[n]]]
      /\ DOMAIN max = DOMAIN names /\ \A k \in DOMAIN names : max[k] = MaxValue[names[k]]
  BY SimilarityIs, MaxOfActive
<1> HIDE DEF names, max
<1>6. ASSUME NEW j \in DOMAIN InRatios(group) PROVE v[j] \in 0 .. max[InRatios(group)[j]]
  <2> DEFINE n == InRatios(group)[j]
  <2>1. n \in PlacesOf(group) /\ InRecord(group)[j] = Listed(ActiveAt)[n]
    BY <1>3, <1>4
  <2>2. n \in DOMAIN Listed(ActiveAt)
    BY <2>1 DEF PlacesOf
  <2> HIDE DEF n
  <2>3. max[n] = MaxValue[Columns[InRecord(group)[j]]]
    BY <1>5, <2>1, <2>2
  <2> QED  BY <1>2, <1>4, <2>3 DEF n
<1> QED  BY <1>6 DEF max, names

\* The rows of the table are profiles the smoothing has nodes for.
LEMMA ComposedBelow ==
  ASSUME NameInv, ActiveInv, MadeInv, RoundInv, pc \in {"smooth", "write"}
  PROVE  DOMAIN Composed.rows \subseteq Box(MaxProfile(SimilarityNames(active)))
<1> DEFINE names == SimilarityNames(active)
           max == MaxProfile(names)
           N == Cardinality(ActiveAt)
<1>1. active \subseteq {c \in ToSet(Columns) : Group[c] # "NONE"} /\ NamesOn
  <2>1. round \in Rounds /\ active = ActiveIn(round)
    BY DEF RoundInv, ActiveInv, Working
  <2> QED  BY <2>1, ActiveInIs DEF NamesOn
<1>2. DOMAIN max = 1 .. N /\ \A n \in 1 .. N : max[n] \in Nat
  BY <1>1, MaxOfActive
<1>3. parts[2] = Prepared("Personal", byPatent) /\ parts[1] = Prepared("Patent", Stable)
  BY DEF MadeInv
<1>4. /\ parts[1].inRatios = InRatios("Patent") /\ parts[2].inRatios = InRatios("Personal")
  BY PreparedParts
<1>5. \A v \in DOMAIN parts[1].ratio : \A j \in DOMAIN parts[1].inRatios :
        v[j] \in 0 .. max[parts[1].inRatios[j]]
  BY <1>1, <1>3, <1>4, TrainingFinite, TrainingOfRecords, PartBelow
<1>6. \A v \in DOMAIN parts[2].ratio : \A j \in DOMAIN parts[2].inRatios :
        v[j] \in 0 .. max[parts[2].inRatios[j]]
  BY <1>1, <1>3, <1>4, TrainingFinite, TrainingOfRecords, PartBelow
<1> DEFINE a == parts[1].inRatios
           b == parts[2].inRatios
<1>7. ToSet(a) \cup ToSet(b) = 1 .. N
  <2>1. /\ a = Listed(PlacesOf("Patent")) /\ b = Listed(PlacesOf("Personal"))
        /\ IsFiniteSet(PlacesOf("Patent")) /\ PlacesOf("Patent") \in SUBSET Nat
        /\ IsFiniteSet(PlacesOf("Personal")) /\ PlacesOf("Personal") \in SUBSET Nat
    BY <1>1, <1>4, PlacesAre
  <2>2. ToSet(a) = PlacesOf("Patent") /\ ToSet(b) = PlacesOf("Personal")
    BY <2>1, ListedSeq
  <2> QED  BY <1>1, <2>2, GroupsShare
<1> HIDE DEF max
<1>8. ASSUME NEW key \in DOMAIN Composed.rows PROVE key \in Box(max)
  <2>1. /\ key = [n \in 1 .. N |-> key[n]]
        /\ OwnPart(key, a) \in DOMAIN parts[1].ratio /\ OwnPart(key, b) \in DOMAIN parts[2].ratio
    BY ComposedRows
  <2> HIDE DEF a, b, N
  <2>2. ASSUME NEW n \in 1 .. N PROVE key[n] \in 0 .. max[n]
    <3>1. CASE n \in ToSet(a)
      <4>1. PICK j \in DOMAIN a : a[j] = n
        BY <3>1 DEF ToSet
      <4>2. OwnPart(key, a)[j] = key[n]
        BY <4>1 DEF OwnPart
      <4> QED  BY <1>5, <2>1, <4>1, <4>2 DEF a
    <3>2. CASE n \in ToSet(b)
      <4>1. PICK j \in DOMAIN b : b[j] = n
        BY <3>2 DEF ToSet
      <4>2. OwnPart(key, b)[j] = key[n]
        BY <4>1 DEF OwnPart
      <4> QED  BY <1>6, <2>1, <4>1, <4>2 DEF b
    <3> QED  BY <1>7, <3>1, <3>2
  <2>3. \A n \in 1 .. N : key[n] \in Nat /\ key[n] <= max[n]
    BY <1>2, <2>2
  <2> QED  BY <1>2, <2>1, <2>3 DEF Box
<1> QED  BY <1>8 DEF max

\* What RadixIs says of the nodes of a maximum: they stand for the profiles up to it, one each.
Coded(max) ==
  /\ Nodes(max) \in Nat
  /\ \A i \in 0 .. Nodes(max) - 1 : IndexToSp(i, max) \in Box(max) /\ Index(IndexToSp(i, max), max) = i
  /\ \A sp \in Box(max) : Index(sp, max) \in 0 .. Nodes(max) - 1 /\ IndexToSp(Index(sp, max), max) = sp
  /\ \A k \in DOMAIN max : max[k] \in Nat

\* A profile is moved by one in one place.
LEMMA MovedInBox ==
  ASSUME NEW max, \A k \in DOMAIN max : max[k] \in Nat, NEW sp \in Box(max), NEW k \in DOMAIN max
  PROVE  /\ sp[k] # max[k] => /\ [sp EXCEPT ![k] = @ + 1] \in Box(max)
                              /\ [sp EXCEPT ![k] = @ + 1] \in Greater(sp, max)
         /\ sp[k] # 0 => [sp EXCEPT ![k] = @ - 1] \in Box(max)
<1>1. sp \in [DOMAIN max -> Nat] /\ \A n \in DOMAIN max : sp[n] <= max[n]
  BY DEF Box
<1>2. ASSUME sp[k] # max[k]
      PROVE  [sp EXCEPT ![k] = @ + 1] \in Box(max) /\ [sp EXCEPT ![k] = @ + 1] \in Greater(sp, max)
  <2> DEFINE g == [sp EXCEPT ![k] = @ + 1]
  <2>1. g \in [DOMAIN max -> Nat]
    BY <1>1
  <2>2. \A n \in DOMAIN max : g[n] <= max[n]
    BY <1>1, <1>2
  <2>3. g \in Box(max)
    BY <2>1, <2>2 DEF Box
  <2>4. g \in Greater(sp, max)
    BY <1>1, <1>2 DEF Greater
  <2> QED  BY <2>3, <2>4
<1>3. ASSUME sp[k] # 0 PROVE [sp EXCEPT ![k] = @ - 1] \in Box(max)
  <2> DEFINE g == [sp EXCEPT ![k] = @ - 1]
  <2>1. g \in [DOMAIN max -> Nat]
    BY <1>1, <1>3
  <2>2. \A n \in DOMAIN max : g[n] <= max[n]
    BY <1>1, <1>3
  <2> QED  BY <2>1, <2>2 DEF Box
<1> QED  BY <1>2, <1>3

\* Between two nodes of which one is below the other there is a constraint to a node in
\* between: from the lower one, one step up in a place where they differ.
LEMMA RisesBetween ==
  ASSUME NEW max, Coded(max),
         NEW i \in 0 .. Nodes(max) - 1, NEW j \in 0 .. Nodes(max) - 1, i # j,
         \A k \in DOMAIN max : IndexToSp(i, max)[k] <= IndexToSp(j, max)[k]
  PROVE  \E g \in Greater(IndexToSp(i, max), max) :
           /\ Index(g, max) \in 0 .. Nodes(max) - 1
           /\ \A k \in DOMAIN max : IndexToSp(Index(g, max), max)[k] <= IndexToSp(j, max)[k]
<1> DEFINE s == IndexToSp(i, max)
           t == IndexToSp(j, max)
<1>1. s \in Box(max) /\ t \in Box(max) /\ Index(s, max) = i /\ Index(t, max) = j
  BY DEF Coded
<1>2. /\ \A k \in DOMAIN max : s[k] <= t[k] /\ max[k] \in Nat
      /\ \A sp \in Box(max) : Index(sp, max) \in 0 .. Nodes(max) - 1 /\ IndexToSp(Index(sp, max), max) = sp
  BY DEF Coded
<1> HIDE DEF s, t
<1>3. /\ s \in [DOMAIN max -> Nat] /\ t \in [DOMAIN max -> Nat]
      /\ \A k \in DOMAIN max : t[k] <= max[k]
  BY <1>1 DEF Box
<1>4. s # t
  BY <1>1
<1>5. PICK k \in DOMAIN max : s[k] # t[k]
  BY <1>3, <1>4
<1>6. s[k] < t[k] /\ s[k] # max[k]
  <2>1. s[k] \in Nat /\ t[k] \in Nat /\ max[k] \in Nat /\ s[k] <= t[k] /\ t[k] <= max[k]
    BY <1>2, <1>3
  <2> QED  BY <1>5, <2>1
<1> DEFINE g == [s EXCEPT ![k] = @ + 1]
<1>7. g \in Box(max) /\ g \in Greater(s, max)
  BY <1>1, <1>2, <1>6, MovedInBox
<1>8. \A n \in DOMAIN max : g[n] <= t[n]
  BY <1>2, <1>3, <1>6
<1> HIDE DEF g
<1>9. IndexToSp(Index(g, max), max) = g /\ Index(g, max) \in 0 .. Nodes(max) - 1
  BY <1>2, <1>7
<1> QED  BY <1>7, <1>8, <1>9 DEF s, t

\* The two neighbours of a node in one place are on either side of it.
LEMMA NeighboursAround ==
  ASSUME NEW max, Coded(max), NEW i \in 0 .. Nodes(max) - 1,
         NEW g \in Neighbours(IndexToSp(i, max), max)
  PROVE  /\ Index(g[1], max) \in 0 .. Nodes(max) - 1 /\ Index(g[2], max) \in 0 .. Nodes(max) - 1
         /\ \A k \in DOMAIN max :
              /\ IndexToSp(Index(g[1], max), max)[k] <= IndexToSp(i, max)[k]
              /\ IndexToSp(i, max)[k] <= IndexToSp(Index(g[2], max), max)[k]
<1> DEFINE s == IndexToSp(i, max)
<1>1. s \in Box(max)
  BY DEF Coded
<1>2. /\ \A k \in DOMAIN max : max[k] \in Nat
      /\ \A sp \in Box(max) : Index(sp, max) \in 0 .. Nodes(max) - 1 /\ IndexToSp(Index(sp, max), max) = sp
  BY DEF Coded
<1> HIDE DEF s
<1>3. s \in [DOMAIN max -> Nat]
  BY <1>1 DEF Box
<1>4. PICK k \in {n \in DOMAIN s : s[n] # 0 /\ s[n] # max[n]} :
        g = <<[s EXCEPT ![k] = @ - 1], [s EXCEPT ![k] = @ + 1]>>
  BY DEF Neighbours, s
<1> DEFINE a == [s EXCEPT ![k] = @ - 1]
           b == [s EXCEPT ![k] = @ + 1]
<1>5. k \in DOMAIN max /\ s[k] # 0 /\ s[k] # max[k]
  BY <1>3, <1>4
<1>6. a \in Box(max) /\ b \in Box(max)
  BY <1>1, <1>2, <1>5, MovedInBox
<1>7. \A n \in DOMAIN max : a[n] <= s[n] /\ s[n] <= b[n]
  BY <1>3, <1>5
<1>8. g[1] = a /\ g[2] = b
  BY <1>4
<1> HIDE DEF a, b
<1>9. /\ IndexToSp(Index(g[1], max), max) = a /\ IndexToSp(Index(g[2], max), max) = b
      /\ Index(g[1], max) \in 0 .. Nodes(max) - 1 /\ Index(g[2], max) \in 0 .. Nodes(max) - 1
  BY <1>2, <1>6, <1>8
<1> QED  BY <1>7, <1>9 DEF s

\* As many nodes as profiles, and as many fitted as there are ratios.
LEMMA CodedCounts ==
  ASSUME NEW max, Coded(max), NEW S \in SUBSET Box(max), IsFiniteSet(S)
  PROVE  /\ Cardinality({IndexToSp(i, max) : i \in 0 .. Nodes(max) - 1}) = Nodes(max)
         /\ Cardinality({Index(k, max) : k \in S}) = Cardinality(S)
<1> DEFINE N == Nodes(max)
           node == 0 .. N - 1
           f == [i \in node |-> IndexToSp(i, max)]
           keys == {IndexToSp(i, max) : i \in node}
           h == [k \in S |-> Index(k, max)]
           fitted == {Index(k, max) : k \in S}
<1>1. /\ N \in Nat
      /\ \A i \in node : Index(IndexToSp(i, max), max) = i
      /\ \A sp \in Box(max) : IndexToSp(Index(sp, max), max) = sp
  BY DEF Coded
<1> HIDE DEF N
<1>2. IsFiniteSet(node) /\ Cardinality(node) = N
  <2>1. /\ IsFiniteSet(node)
        /\ Cardinality(node) = IF 0 > N - 1 THEN 0 ELSE (N - 1) - 0 + 1
    BY <1>1, FS_Interval
  <2> QED  BY <1>1, <2>1
<1> HIDE DEF node
<1>3. f \in Bijection(node, keys)
  <2>1. f \in [node -> keys] /\ \A i, j \in node : f[i] = f[j] => i = j
    BY <1>1
  <2>2. \A q \in keys : \E i \in node : f[i] = q
    OBVIOUS
  <2> HIDE DEF f, keys
  <2> QED  BY <2>1, <2>2 DEF Bijection, Injection, Surjection, IsInjective
<1>4. h \in Bijection(S, fitted)
  <2>1. h \in [S -> fitted] /\ \A i, j \in S : h[i] = h[j] => i = j
    <3>1. \A i, j \in S : Index(i, max) = Index(j, max) => i = j
      BY <1>1
    <3> QED  BY <3>1
  <2>2. \A q \in fitted : \E i \in S : h[i] = q
    OBVIOUS
  <2> HIDE DEF h, fitted
  <2> QED  BY <2>1, <2>2 DEF Bijection, Injection, Surjection, IsInjective
<1> HIDE DEF f, keys, h, fitted
<1>5. Cardinality(keys) = N
  BY <1>2, <1>3, FS_Bijection DEF ExistsBijection
<1>6. Cardinality(fitted) = Cardinality(S)
  BY <1>4, FS_Bijection DEF ExistsBijection
<1> QED  BY <1>5, <1>6 DEF keys, fitted, N, node

LEMMA SmoothedInOrderIs ==
  ASSUME NameInv, TableInv, pc = "write" PROVE SmoothedInOrder
<1> USE DEF TableInv
<1> DEFINE names == SimilarityNames(active)
           max == MaxProfile(names)
           node == 0 .. Nodes(max) - 1
<1>1. active \subseteq {c \in ToSet(Columns) : Group[c] # "NONE"} /\ NamesOn
  <2>1. round \in Rounds /\ active = ActiveIn(round)
    BY DEF RoundInv, ActiveInv, Working
  <2> QED  BY <2>1, ActiveInIs DEF NamesOn
<1>2. /\ table = Smoothed(Composed) /\ problem = Problem(Composed)
      /\ Nodes(MaxProfile(Composed.names)) # 0
  BY DEF MadeInv
<1>3. Composed.names = names
  BY <1>1, PreparedParts, ComposedNames
<1>4. max \in Seq(Nat) /\ Len(max) # 0 /\ DOMAIN max = DOMAIN names
      /\ \A k \in DOMAIN max : max[k] \in Nat
  BY <1>1, MaxOfActive
<1>5. MaxProfile(table.names) = max
  BY <1>2, <1>3 DEF Smoothed
<1>6. /\ DOMAIN Composed.rows \subseteq Box(max) /\ IsFiniteSet(DOMAIN Composed.rows)
      /\ Cardinality(DOMAIN Composed.rows)
           = Cardinality(DOMAIN parts[1].ratio) * Cardinality(DOMAIN parts[2].ratio)
  BY ComposedBelow, ComposedRows
<1>7. /\ table.keys = {IndexToSp(i, max) : i \in node}
      /\ problem.fitted = {Index(k, max) : k \in DOMAIN Composed.rows}
      /\ problem.rising = UNION {{<<i, Index(g, max)>> : g \in Greater(IndexToSp(i, max), max)} : i \in node}
      /\ problem.even = UNION {{<<Index(g[1], max), i, Index(g[2], max)>> :
                                  g \in Neighbours(IndexToSp(i, max), max)} : i \in node}
  BY <1>2, <1>3 DEF Smoothed, Problem
<1>8. Nodes(max) # 0
  BY <1>2, <1>3
<1> HIDE DEF names, max
<1>9. Coded(max)
  BY <1>4, <1>8, RadixIs DEF Coded
<1>10. /\ Cardinality(table.keys) = Nodes(max)
       /\ Cardinality(problem.fitted)
            = Cardinality(DOMAIN parts[1].ratio) * Cardinality(DOMAIN parts[2].ratio)
  <2> DEFINE S == DOMAIN Composed.rows
  <2>1. S \in SUBSET Box(max) /\ IsFiniteSet(S)
    BY <1>6
  <2>2. Cardinality(S) = Cardinality(DOMAIN parts[1].ratio) * Cardinality(DOMAIN parts[2].ratio)
    BY <1>6
  <2>3. problem.fitted = {Index(k, max) : k \in S}
    BY <1>7
  <2> HIDE DEF S
  <2>4. /\ Cardinality({IndexToSp(i, max) : i \in 0 .. Nodes(max) - 1}) = Nodes(max)
        /\ Cardinality({Index(k, max) : k \in S}) = Cardinality(S)
    BY <1>9, <2>1, CodedCounts
  <2>5. Cardinality(table.keys) = Nodes(max)
    BY <1>7, <2>4
  <2> QED  BY <2>2, <2>3, <2>4, <2>5
<1>11. \A i \in node : Index(IndexToSp(i, max), max) = i
  BY <1>9 DEF Coded
<1>12. ASSUME NEW i \in node, NEW j \in node, i # j,
              \A k \in DOMAIN max : IndexToSp(i, max)[k] <= IndexToSp(j, max)[k]
       PROVE  \E c \in node : /\ <<i, c>> \in problem.rising
                              /\ \A k \in DOMAIN max : IndexToSp(c, max)[k] <= IndexToSp(j, max)[k]
  <2>1. PICK g \in Greater(IndexToSp(i, max), max) :
          /\ Index(g, max) \in node
          /\ \A k \in DOMAIN max : IndexToSp(Index(g, max), max)[k] <= IndexToSp(j, max)[k]
    BY <1>9, <1>12, RisesBetween
  <2>2. <<i, Index(g, max)>> \in problem.rising
    BY <1>7
  <2> QED  BY <2>1, <2>2
<1>13. ASSUME NEW e \in problem.even
       PROVE  /\ e[1] \in node /\ e[2] \in node /\ e[3] \in node
              /\ \A k \in DOMAIN max : /\ IndexToSp(e[1], max)[k] <= IndexToSp(e[2], max)[k]
                                       /\ IndexToSp(e[2], max)[k] <= IndexToSp(e[3], max)[k]
  <2>1. PICK i \in node : e \in {<<Index(g[1], max), i, Index(g[2], max)>> :
                                    g \in Neighbours(IndexToSp(i, max), max)}
    BY <1>7
  <2>2. PICK g \in Neighbours(IndexToSp(i, max), max) : e = <<Index(g[1], max), i, Index(g[2], max)>>
    BY <2>1
  <2>3. e[1] = Index(g[1], max) /\ e[2] = i /\ e[3] = Index(g[2], max)
    BY <2>2
  <2>4. /\ Index(g[1], max) \in node /\ Index(g[2], max) \in node
        /\ \A k \in DOMAIN max :
             /\ IndexToSp(Index(g[1], max), max)[k] <= IndexToSp(i, max)[k]
             /\ IndexToSp(i, max)[k] <= IndexToSp(Index(g[2], max), max)[k]
    BY <1>9, NeighboursAround
  <2> QED  BY <2>3, <2>4
<1> DEFINE sp == [i \in node |-> IndexToSp(i, max)]
           Below(i, j) == \A k \in DOMAIN max : sp[i][k] <= sp[j][k]
           above == [i \in node |-> {c \in node : <<i, c>> \in problem.rising}]
<1>14. \A i \in node : Index(sp[i], max) = i
  BY <1>11
<1>15. \A i, j \in node : i # j /\ Below(i, j) => \E c \in above[i] : Below(c, j)
  BY <1>12
<1>16. \A e \in problem.even : Below(e[1], e[2]) /\ Below(e[2], e[3])
  BY <1>13
<1> QED  BY <1>5, <1>10, <1>14, <1>15, <1>16 DEF SmoothedInOrder

\* The problem the solver is given makes no ratio smaller than that of a profile below
\* it, for every maximum of the columns that does not overflow: nodes and profiles
\* correspond, every ratio there was is fitted, and the constraints between neighbours
\* lead from every profile to every one above it.
THEOREM SmoothedProved == Spec => []SmoothedInOrder
<1>1. NameInv /\ TableInv => SmoothedInOrder
  <2>1. pc # "write" => SmoothedInOrder
    BY DEF SmoothedInOrder
  <2> QED  BY <2>1, SmoothedInOrderIs
<1> QED  BY <1>1, NameInvariant, TableInvariant, PTL
==============================================================================
