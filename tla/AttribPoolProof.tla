--------------------------- MODULE AttribPoolProof ---------------------------
(***************************************************************************)
(* Proofs about AttribPool, for any number of threads and records, any     *)
(* attributes and any way the records are divided among the threads.       *)
(***************************************************************************)
EXTENDS AttribPool, DataTheorems

LEMMA Finite == IsFiniteSet(Records) /\ IsFiniteSet(Threads)
BY AttribPoolAssumption

LEMMA NowhereIsNode == Nowhere \in Nodes
BY DEF Nowhere, Nodes, Values

\* The calls of attrib_merge, one by one.
LEMMA CallTable ==
  ASSUME NEW j
  PROVE  /\ Calls(j)[1] = Call("add", j.a.val \cup j.b.val, 2, Nowhere)
         /\ Calls(j)[2] = Call("reduce", j.a.val, 1, j.a)
         /\ Calls(j)[3] = Call("reduce", j.b.val, 1, j.b)
         /\ Calls(j)[4] = CheckLists
         /\ Calls(j)[5] = Call("reduce", j.a.val, Cardinality(j.l1) - 1, j.a)
         /\ Calls(j)[6] = Call("reduce", j.b.val, Cardinality(j.l2) - 1, j.b)
         /\ Calls(j)[7] = Call("addnew", j.a.val \cup j.b.val,
                               Cardinality(j.l1) + Cardinality(j.l2) - 2, Nowhere)
         /\ Calls(j)[8] = Repoint
BY DEF Calls

LEMMA CallFields ==
  ASSUME NEW op, NEW v, NEW n, NEW of
  PROVE  /\ Call(op, v, n, of).op = op /\ Call(op, v, n, of).val = v
         /\ Call(op, v, n, of).by = n /\ Call(op, v, n, of).of = of
BY DEF Call

\* What there is to a call, in facts without records.
CallIs(t, i, op, v, n, of) ==
  LET c == Calls(job[t])[i] IN c.op = op /\ c.val = v /\ c.by = n /\ c.of = of

LEMMA CallIsOf ==
  ASSUME NEW t, NEW i, NEW op, NEW v, NEW n, NEW of, Calls(job[t])[i] = Call(op, v, n, of)
  PROVE  CallIs(t, i, op, v, n, of)
BY CallFields DEF CallIs

LEMMA CallsOf ==
  ASSUME NEW t
  PROVE  /\ CallIs(t, 1, "add", Union(t), 2, Nowhere)
         /\ CallIs(t, 2, "reduce", job[t].a.val, 1, job[t].a)
         /\ CallIs(t, 3, "reduce", job[t].b.val, 1, job[t].b)
         /\ CallIs(t, 4, "check", {}, 1, Nowhere)
         /\ CallIs(t, 5, "reduce", job[t].a.val, Cardinality(job[t].l1) - 1, job[t].a)
         /\ CallIs(t, 6, "reduce", job[t].b.val, Cardinality(job[t].l2) - 1, job[t].b)
         /\ CallIs(t, 7, "addnew", Union(t),
                   Cardinality(job[t].l1) + Cardinality(job[t].l2) - 2, Nowhere)
         /\ CallIs(t, 8, "repoint", {}, 1, Nowhere)
<1> DEFINE j == job[t]
<1>1. CallIs(t, 1, "add", Union(t), 2, Nowhere)
  BY CallTable, CallIsOf DEF Union
<1>2. CallIs(t, 2, "reduce", j.a.val, 1, j.a) /\ CallIs(t, 3, "reduce", j.b.val, 1, j.b)
  BY CallTable, CallIsOf
<1>3. CallIs(t, 4, "check", {}, 1, Nowhere) /\ CallIs(t, 8, "repoint", {}, 1, Nowhere)
  BY CallTable, CallIsOf DEF CheckLists, Repoint
<1>4. CallIs(t, 5, "reduce", j.a.val, Cardinality(j.l1) - 1, j.a)
  BY CallTable, CallIsOf
<1>5. CallIs(t, 6, "reduce", j.b.val, Cardinality(j.l2) - 1, j.b)
  BY CallTable, CallIsOf
<1>6. CallIs(t, 7, "addnew", Union(t), Cardinality(j.l1) + Cardinality(j.l2) - 2, Nowhere)
  BY CallTable, CallIsOf DEF Union
<1> QED  BY <1>1, <1>2, <1>3, <1>4, <1>5, <1>6

\* The clusters of a merge are finite, not empty and disjoint.
LEMMA JobSizes ==
  ASSUME TypeOK, OwnInv, NEW t \in Threads, pc[t] # "idle"
  PROVE  /\ Cardinality(job[t].l1) \in Nat \ {0} /\ Cardinality(job[t].l2) \in Nat \ {0}
         /\ IsFiniteSet(job[t].l1) /\ IsFiniteSet(job[t].l2)
         /\ job[t].l1 \cap job[t].l2 = {}
         /\ job[t].l1 # {} /\ job[t].l2 # {}
         /\ job[t].l1 \in clusters /\ job[t].l2 \in clusters
         /\ \A r \in Members(t) : owner[r] = t /\ r \in Records
<1>1. /\ job[t].l1 \in clusters /\ job[t].l2 \in clusters /\ job[t].l1 # job[t].l2
      /\ \A r \in job[t].l1 : owner[r] = t
      /\ \A r \in job[t].l2 : owner[r] = t
  BY DEF OwnInv, Own
<1>2. /\ job[t].l1 # {} /\ job[t].l2 # {} /\ job[t].l1 \cap job[t].l2 = {}
      /\ job[t].l1 \in SUBSET Records /\ job[t].l2 \in SUBSET Records
  <2>1. job[t] \in [l1 : SUBSET Records, l2 : SUBSET Records, a : Nodes, b : Nodes]
    BY DEF TypeOK
  <2>2. job[t].l1 \in SUBSET Records /\ job[t].l2 \in SUBSET Records
    BY <2>1
  <2> QED  BY <1>1, <2>2 DEF OwnInv
<1>3. IsFiniteSet(job[t].l1) /\ IsFiniteSet(job[t].l2)
  BY <1>2, Finite, FS_Subset
<1>4. /\ Cardinality(job[t].l1) \in Nat /\ Cardinality(job[t].l2) \in Nat
      /\ Cardinality(job[t].l1) # 0 /\ Cardinality(job[t].l2) # 0
  BY <1>2, <1>3, FS_CardinalityType, FS_EmptySet
<1> QED  BY <1>1, <1>2, <1>3, <1>4 DEF Members

LEMMA IdleHasNone ==
  ASSUME OwnInv, NEW t \in Threads, pc[t] = "idle"
  PROVE  Members(t) = {} /\ Ahead(t) = {}
BY DEF OwnInv, Members, NoJob, Ahead

\* Merges of different threads have no record in common.
LEMMA MembersApart ==
  ASSUME TypeOK, OwnInv, NEW s \in Threads, NEW t \in Threads, s # t
  PROVE  Members(s) \cap Members(t) = {}
<1>1. ASSUME NEW r \in Members(s) PROVE owner[r] = s
  BY JobSizes, IdleHasNone
<1>2. ASSUME NEW r \in Members(t) PROVE owner[r] = t
  BY JobSizes, IdleHasNone
<1> QED  BY <1>1, <1>2

\* What a merge holds is never negative.
LEMMA HeldNat ==
  ASSUME TypeOK, OwnInv, NEW t \in Threads
  PROVE  /\ pc[t] # "idle" => HeldA(t) \in Nat /\ HeldB(t) \in Nat /\ HeldNew(t) \in Nat
         /\ \A n : Held(t, n) \in Nat
<1>1. ASSUME pc[t] # "idle" PROVE HeldA(t) \in Nat /\ HeldB(t) \in Nat /\ HeldNew(t) \in Nat
  BY <1>1, JobSizes DEF HeldA, HeldB, HeldNew
<1>2. ASSUME NEW n PROVE Held(t, n) \in Nat
  BY <1>1 DEF Held
<1> QED  BY <1>1, <1>2

LEMMA HeldNats == TypeOK /\ OwnInv => \A t \in Threads : \A n : Held(t, n) \in Nat
BY HeldNat

LEMMA HeldNatsNext == (TypeOK /\ OwnInv => \A t \in Threads : \A n : Held(t, n) \in Nat)'
BY HeldNats, PTL

LEMMA ReferringNat ==
  ASSUME TypeOK, OwnInv, NEW n
  PROVE  /\ IsFiniteSet(Resting(n)) /\ Cardinality(Resting(n)) \in Nat
         /\ SumFunction([t \in Threads |-> Held(t, n)]) \in Nat
         /\ Referring(n) \in Nat
<1> DEFINE f == [t \in Threads |-> Held(t, n)]
<1>1. Resting(n) \subseteq Records
  BY DEF Resting, Free
<1>2. IsFiniteSet(Resting(n)) /\ Cardinality(Resting(n)) \in Nat
  BY <1>1, Finite, FS_Subset, FS_CardinalityType
<1>3. \A t \in Threads : f[t] \in Nat
  BY HeldNat
<1>4. SumFunction(f) = SumFunctionOnSet(f, Threads)
  BY DEF SumFunction
<1> HIDE DEF f
<1>5. SumFunctionOnSet(f, Threads) \in Nat
  BY <1>3, Finite, SumNat
<1> QED  BY <1>2, <1>4, <1>5 DEF f, Referring

-----------------------------------------------------------------------------
(* What a step of one thread leaves to the others.                         *)

OthersSame(t) ==
  \A s \in Threads \ {t} : /\ pc'[s] = pc[s] /\ next'[s] = next[s] /\ job'[s] = job[s]
                           /\ it'[s] = it[s] /\ new'[s] = new[s]

LEMMA HeldSame ==
  ASSUME NEW s, pc'[s] = pc[s], next'[s] = next[s], job'[s] = job[s], new'[s] = new[s]
  PROVE  /\ Ahead(s)' = Ahead(s) /\ Members(s)' = Members(s) /\ Union(s)' = Union(s)
         /\ HeldA(s)' = HeldA(s) /\ HeldB(s)' = HeldB(s) /\ HeldNew(s)' = HeldNew(s)
         /\ \A n : Held(s, n)' = Held(s, n)
<1>1. Ahead(s)' = Ahead(s)
  BY DEF Ahead
<1>2. HeldA(s)' = HeldA(s) /\ HeldB(s)' = HeldB(s) /\ HeldNew(s)' = HeldNew(s)
  BY <1>1 DEF HeldA, HeldB, HeldNew
<1>3. \A n : Held(s, n)' = Held(s, n)
  BY <1>2 DEF Held
<1> QED  BY <1>1, <1>2, <1>3 DEF Members, Union

\* A reference count changes by what the thread that steps holds.
LEMMA ReferringStep ==
  ASSUME TypeOK, OwnInv, TypeOK', OwnInv', NEW t \in Threads, OthersSame(t),
         NEW n, Resting(n)' = Resting(n)
  PROVE  Referring(n)' = Referring(n) - Held(t, n) + Held(t, n)'
<1> DEFINE f == [s \in Threads |-> Held(s, n)]
           g == [s \in Threads |-> Held(s, n)']
<1>1. \A s \in Threads : f[s] \in Int /\ g[s] \in Int
  <2>1. \A s \in Threads : Held(s, n) \in Nat
    BY HeldNat
  <2>2. (TypeOK /\ OwnInv => \A s \in Threads : \A h : Held(s, h) \in Nat)'
    BY HeldNatsNext
  <2> QED  BY <2>1, <2>2
<1>2. \A s \in Threads \ {t} : g[s] = f[s]
  BY HeldSame DEF OthersSame
<1>3. SumFunction(f) = SumFunctionOnSet(f, Threads) /\ SumFunction(f)' = SumFunctionOnSet(g, Threads)
  BY DEF SumFunction
<1>4. f[t] = Held(t, n) /\ g[t] = Held(t, n)'
  OBVIOUS
<1>5. Referring(n) = Cardinality(Resting(n)) + SumFunction(f)
      /\ Referring(n)' = Cardinality(Resting(n)) + SumFunction(f)'
  BY DEF Referring
<1>6. Cardinality(Resting(n)) \in Nat /\ SumFunction(f) \in Nat
  BY ReferringNat
<1> HIDE DEF f, g
<1>7. SumFunctionOnSet(g, Threads) = SumFunctionOnSet(f, Threads) - f[t] + g[t]
  BY <1>1, <1>2, Finite, SumChange
<1>8. f[t] \in Int /\ g[t] \in Int
  BY <1>1
<1> QED  BY <1>3, <1>4, <1>5, <1>6, <1>7, <1>8

LEMMA RestingSame ==
  ASSUME UNCHANGED <<job, ptr>>
  PROVE  Free' = Free /\ \A n : Resting(n)' = Resting(n)
<1>1. Free' = Free
  BY DEF Free, Members
<1> QED  BY <1>1 DEF Resting

\* Nobody refers to a node nobody uses.
LEMMA ReferringNone ==
  ASSUME TypeOK, OwnInv, NEW n, \A r \in Records : ptr[r] # n,
         \A t \in Threads : Held(t, n) = 0
  PROVE  Referring(n) = 0
<1> DEFINE f == [t \in Threads |-> Held(t, n)]
<1>1. Resting(n) = {}
  BY DEF Resting, Free
<1>2. Cardinality(Resting(n)) = 0
  BY <1>1, FS_EmptySet
<1>3. SumFunction(f) = SumFunctionOnSet(f, Threads) /\ SumFunction(f) \in Nat
  BY ReferringNat DEF SumFunction
<1>4. \A t \in Threads : f[t] \in 0 .. 0
  OBVIOUS
<1>5. 0 \in Nat /\ Cardinality(Threads) \in Nat
  BY Finite, FS_CardinalityType
<1>6. Referring(n) = Cardinality(Resting(n)) + SumFunction(f)
  BY DEF Referring
<1> HIDE DEF f
<1>7. SumFunctionOnSet(f, Threads) <= 0 * Cardinality(Threads)
  BY <1>4, <1>5, Finite, SumBounded
<1> QED  BY <1>2, <1>3, <1>5, <1>6, <1>7

\* The calls between two that are made have no references to move.
LEMMA AdvanceTo ==
  ASSUME TypeOK, NEW t \in Threads, next[t] < 8, Advance(t)
  PROVE  \E k \in 1 .. 8 : /\ k > next[t] /\ Calls(job[t])[k].by # 0
                           /\ \A i \in 1 .. 8 : next[t] < i /\ i < k => Calls(job[t])[i].by = 0
                           /\ next' = [next EXCEPT ![t] = k]
                           /\ pc' = [pc EXCEPT ![t] = "find"]
<1> DEFINE ahead == {k \in 1 .. 8 : k > next[t] /\ Calls(job[t])[k].by # 0}
<1>1. next[t] \in 1 .. 8
  BY DEF TypeOK
<1>2. 8 \in ahead
  BY <1>1, CallsOf DEF CallIs
<1>3. ahead \in SUBSET Nat
  OBVIOUS
<1>4. Advance(t) <=> /\ next' = [next EXCEPT ![t] = Min(ahead)]
                     /\ pc' = [pc EXCEPT ![t] = "find"]
  BY DEF Advance
<1>5. Min(ahead) \in ahead /\ \A k \in ahead : Min(ahead) <= k
  <2> HIDE DEF ahead
  <2> QED  BY <1>2, <1>3, LeastNatural DEF Min
<1>6. PICK k \in ahead : k = Min(ahead)
  BY <1>5
<1>7. \A i \in 1 .. 8 : next[t] < i /\ i < k => Calls(job[t])[i].by = 0
  <2> SUFFICES ASSUME NEW i \in 1 .. 8, next[t] < i, i < k, Calls(job[t])[i].by # 0 PROVE FALSE
    OBVIOUS
  <2>1. i \in ahead
    BY <1>1
  <2>2. k <= i
    BY <1>5, <1>6, <2>1
  <2> QED  BY <2>2
<1> QED  BY <1>4, <1>6, <1>7

-----------------------------------------------------------------------------
(* Steps that change nothing the others see.                               *)

LEMMA OthersKeep ==
  ASSUME TypeOK, NEW t \in Threads, OthersSame(t), UNCHANGED <<pool, gen, ptr>>,
         NEW s \in Threads \ {t}
  PROVE  /\ (pc[s] # "idle" => CallOK(s)) => (pc[s] # "idle" => CallOK(s))'
         /\ KnownOK(s) => KnownOK(s)'
         /\ (pc[s] # "idle" => LiveOK(s)) => (pc[s] # "idle" => LiveOK(s))'
         /\ \A n : Handles(s, n)' = Handles(s, n)
<1>1. pc'[s] = pc[s] /\ next'[s] = next[s] /\ job'[s] = job[s] /\ it'[s] = it[s] /\ new'[s] = new[s]
  BY DEF OthersSame
<1>2. (pc[s] # "idle" => CallOK(s)) => (pc[s] # "idle" => CallOK(s))'
  BY <1>1 DEF CallOK, Current, Union
<1>3. KnownOK(s) => KnownOK(s)'
  BY <1>1 DEF KnownOK, Known
<1>4. LiveOK(s)' = LiveOK(s)
  BY <1>1, HeldSame DEF LiveOK, IsLive
<1>5. \A n : Handles(s, n)' = Handles(s, n)
  BY <1>1 DEF Handles
<1> QED  BY <1>1, <1>2, <1>3, <1>4, <1>5

LEMMA SteadyKeeps ==
  ASSUME OwnInv, ShareInv, NEW t \in Threads, OthersSame(t), pc[t] # "idle", pc'[t] # "idle",
         UNCHANGED <<ptr, clusters, job, owner>>
  PROVE  OwnInv' /\ ShareInv'
<1>1. \A s \in Threads : Own(s)' = Own(s)
  BY DEF Own
<1>2. \A s \in Threads : pc'[s] = "idle" <=> pc[s] = "idle"
  BY DEF OthersSame
<1>3. OwnInv'
  BY <1>1, <1>2 DEF OwnInv
<1>4. ShareInv'
  BY DEF ShareInv
<1> QED  BY <1>3, <1>4

\* What is held after the step is what was held before it.
HoldsOn(t) == HeldA(t)' = HeldA(t) /\ HeldB(t)' = HeldB(t) /\ HeldNew(t)' = HeldNew(t)

LEMMA HoldsOnHeld ==
  ASSUME NEW t, HoldsOn(t), job'[t] = job[t], new'[t] = new[t], pc[t] # "idle", pc'[t] # "idle"
  PROVE  \A n : Held(t, n)' = Held(t, n)
BY DEF HoldsOn, Held

LEMMA SilentKeeps ==
  ASSUME ReferenceInv, TypeOK', NEW t \in Threads, OthersSame(t), pc[t] # "idle", pc'[t] # "idle",
         UNCHANGED <<pool, gen, cnt, ptr, clusters, job, new, fate, owner, lostLive>>,
         HoldsOn(t), CallOK(t)', KnownOK(t)', Solo => SoloOK(t)',
         \A v \in pool : cnt[v] = 0 /\ Handles(t, Node(v)) => Handles(t, Node(v))'
  PROVE  ReferenceInv'
<1> USE DEF ReferenceInv
<1>1. OwnInv' /\ ShareInv'
  BY SteadyKeeps
<1>2. CallInv' /\ KnownInv'
  <2>1. \A s \in Threads \ {t} : (pc[s] # "idle" => CallOK(s))' /\ KnownOK(s)'
    BY OthersKeep DEF CallInv, KnownInv
  <2>2. \A r \in Records : Known(ptr[r])'
    BY DEF KnownInv, Known
  <2> QED  BY <2>1, <2>2 DEF CallInv, KnownInv
<1>3. \A n : Referring(n)' = Referring(n)
  <2> TAKE n
  <2>1. Held(t, n)' = Held(t, n) /\ Held(t, n) \in Nat
    BY HoldsOnHeld, HeldNat
  <2>2. Resting(n)' = Resting(n)
    BY RestingSame
  <2>3. Referring(n)' = Referring(n) - Held(t, n) + Held(t, n)'
    BY <1>1, <2>2, ReferringStep
  <2>4. Referring(n) \in Nat
    BY ReferringNat
  <2> QED  BY <2>1, <2>3, <2>4
<1>4. \A v : Node(v)' = Node(v)
  BY DEF Node
<1>5. CountInv'
  BY <1>3, <1>4 DEF CountInv
<1>6. ZeroInv'
  <2> SUFFICES ASSUME NEW v \in pool, cnt[v] = 0 PROVE \E s \in Threads : Handles(s, Node(v))'
    BY DEF ZeroInv
  <2>1. PICK s \in Threads : Handles(s, Node(v))
    BY DEF ZeroInv
  <2>2. CASE s = t
    BY <2>1, <2>2
  <2>3. CASE s # t
    <3>1. \A n : Handles(s, n)' = Handles(s, n)
      BY <2>3, OthersKeep
    <3>2. Handles(s, Node(v))'
      BY <2>1, <2>3, <1>4 DEF Handles, OthersSame
    <3> QED  BY <3>2
  <2> QED  BY <2>2, <2>3
<1>7. LiveInv'
  <2>1. LiveOK(t)' = LiveOK(t)
    BY DEF LiveOK, IsLive, HoldsOn
  <2>2. \A s \in Threads \ {t} : (pc[s] # "idle" => LiveOK(s)) => (pc[s] # "idle" => LiveOK(s))'
    BY OthersKeep
  <2>3. Free' = Free
    BY RestingSame
  <2> QED  BY <2>1, <2>2, <2>3 DEF LiveInv, IsLive
<1>8. SoloInv'
  <2>1. \A s \in Threads \ {t} : SoloOK(s)' = SoloOK(s)
    BY DEF SoloOK, IsLive, OthersSame
  <2>2. Solo' = Solo
    BY DEF Solo
  <2> QED  BY <2>1, <2>2 DEF SoloInv
<1> QED  BY <1>1, <1>2, <1>5, <1>6, <1>7, <1>8

-----------------------------------------------------------------------------
(* Where a thread is in attrib_merge.                                      *)

LEMMA Positions ==
  ASSUME TypeOK, NEW t \in Threads
  PROVE  /\ next[t] \in {1, 2, 3, 4, 5, 6, 7, 8}
         /\ Current(t).op = "add" <=> next[t] = 1
         /\ Current(t).op = "addnew" <=> next[t] = 7
         /\ Current(t).op = "reduce" <=> next[t] \in {2, 3, 5, 6}
         /\ Current(t).op = "check" <=> next[t] = 4
         /\ Current(t).op = "repoint" <=> next[t] = 8
<1>1. next[t] \in {1, 2, 3, 4, 5, 6, 7, 8}
  BY DEF TypeOK
<1>2. CASE next[t] = 1
  BY <1>2, CallsOf DEF CallIs, Current
<1>3. CASE next[t] = 2
  BY <1>3, CallsOf DEF CallIs, Current
<1>4. CASE next[t] = 3
  BY <1>4, CallsOf DEF CallIs, Current
<1>5. CASE next[t] = 4
  BY <1>5, CallsOf DEF CallIs, Current
<1>6. CASE next[t] = 5
  BY <1>6, CallsOf DEF CallIs, Current
<1>7. CASE next[t] = 6
  BY <1>7, CallsOf DEF CallIs, Current
<1>8. CASE next[t] = 7
  BY <1>8, CallsOf DEF CallIs, Current
<1>9. CASE next[t] = 8
  BY <1>9, CallsOf DEF CallIs, Current
<1> QED  BY <1>1, <1>2, <1>3, <1>4, <1>5, <1>6, <1>7, <1>8, <1>9

\* The value and the number of references of the call a thread is in.
LEMMA AtCall ==
  ASSUME TypeOK, NEW t \in Threads
  PROVE  /\ next[t] \in {1, 7} => Current(t).val = Union(t)
         /\ next[t] \in {2, 5} => Current(t).val = job[t].a.val /\ Current(t).of = job[t].a
         /\ next[t] \in {3, 6} => Current(t).val = job[t].b.val /\ Current(t).of = job[t].b
         /\ next[t] = 1 => Current(t).by = 2
         /\ next[t] \in {2, 3, 4, 8} => Current(t).by = 1
         /\ next[t] = 5 => Current(t).by = Cardinality(job[t].l1) - 1
         /\ next[t] = 6 => Current(t).by = Cardinality(job[t].l2) - 1
         /\ next[t] = 7 => Current(t).by = Cardinality(job[t].l1) + Cardinality(job[t].l2) - 2
<1>1. next[t] \in {1, 7} => Current(t).val = Union(t)
  BY CallsOf DEF CallIs, Current
<1>2. next[t] \in {2, 5} => Current(t).val = job[t].a.val /\ Current(t).of = job[t].a
  BY CallsOf DEF CallIs, Current
<1>3. next[t] \in {3, 6} => Current(t).val = job[t].b.val /\ Current(t).of = job[t].b
  BY CallsOf DEF CallIs, Current
<1>4. next[t] = 1 => Current(t).by = 2
  BY CallsOf DEF CallIs, Current
<1>5. next[t] \in {2, 3, 4, 8} => Current(t).by = 1
  BY CallsOf DEF CallIs, Current
<1>6. next[t] = 5 => Current(t).by = Cardinality(job[t].l1) - 1
  BY CallsOf DEF CallIs, Current
<1>7. next[t] = 6 => Current(t).by = Cardinality(job[t].l2) - 1
  BY CallsOf DEF CallIs, Current
<1>8. next[t] = 7 => Current(t).by = Cardinality(job[t].l1) + Cardinality(job[t].l2) - 2
  BY CallsOf DEF CallIs, Current
<1> QED  BY <1>1, <1>2, <1>3, <1>4, <1>5, <1>6, <1>7, <1>8

LEMMA NodeType == ASSUME TypeOK, NEW v \in Values PROVE Node(v) \in Nodes /\ Node(v).val = v
BY DEF TypeOK, Node, Nodes

LEMMA ValuesOf ==
  ASSUME TypeOK, NEW t \in Threads
  PROVE  /\ job[t].a \in Nodes /\ job[t].b \in Nodes
         /\ job[t].a.val \in Values /\ job[t].b.val \in Values /\ Union(t) \in Values
         /\ it[t] \in Nodes /\ it[t].val \in Values
         /\ new[t] \in Nodes /\ new[t].val \in Values
<1>1. job[t] \in [l1 : SUBSET Records, l2 : SUBSET Records, a : Nodes, b : Nodes]
  BY DEF TypeOK
<1>2. job[t].a \in Nodes /\ job[t].b \in Nodes
  BY <1>1
<1>3. it[t] \in Nodes /\ new[t] \in Nodes
  BY DEF TypeOK
<1>4. \A n \in Nodes : n.val \in Values
  BY DEF Nodes
<1>5. Union(t) \in Values
  BY <1>2, <1>4 DEF Union, Values
<1> QED  BY <1>2, <1>3, <1>4, <1>5

\* A live node is the current one of its value.
LEMMA LiveNode ==
  ASSUME NEW n \in Nodes
  PROVE  IsLive(n) <=> n.val \in pool /\ n = Node(n.val)
BY DEF IsLive, Node, Nodes

\* Memory that was freed is not used while one thread does all the merging.
LEMMA SameState ==
  ASSUME UNCHANGED <<pool, gen, cnt, ptr, clusters, job, next, pc, it, new, owner, lostLive>>
  PROVE  /\ OwnInv => OwnInv'
         /\ ShareInv => ShareInv'
         /\ CallInv => CallInv'
         /\ KnownInv => KnownInv'
         /\ CountInv => CountInv'
         /\ ZeroInv => ZeroInv'
         /\ LiveInv => LiveInv'
<1>1. \A s : /\ Ahead(s)' = Ahead(s) /\ Members(s)' = Members(s) /\ Union(s)' = Union(s)
             /\ HeldA(s)' = HeldA(s) /\ HeldB(s)' = HeldB(s) /\ HeldNew(s)' = HeldNew(s)
             /\ \A n : Held(s, n)' = Held(s, n)
  <2> TAKE s
  <2>1. pc'[s] = pc[s] /\ next'[s] = next[s] /\ job'[s] = job[s] /\ new'[s] = new[s]
    OBVIOUS
  <2> QED  BY <2>1, HeldSame
<1>2. Free' = Free /\ \A n : Resting(n)' = Resting(n)
  BY RestingSame
<1>3. \A n : Referring(n)' = Referring(n)
  BY <1>1, <1>2 DEF Referring
<1>4. OwnInv => OwnInv'
  BY DEF OwnInv, Own
<1>5. ShareInv => ShareInv'
  BY DEF ShareInv
<1>6. CallInv => CallInv'
  BY <1>1 DEF CallInv, CallOK, Current
<1>7. KnownInv => KnownInv'
  BY DEF KnownInv, KnownOK, Known
<1>8. CountInv => CountInv'
  BY <1>3 DEF CountInv, Node
<1>9. ZeroInv => ZeroInv'
  BY DEF ZeroInv, Handles, Node
<1>10. LiveInv => LiveInv'
  BY <1>1, <1>2 DEF LiveInv, LiveOK, IsLive
<1> QED  BY <1>4, <1>5, <1>6, <1>7, <1>8, <1>9, <1>10

LEMMA UndefinedKeeps == ASSUME ReferenceInv, Undefined, ~ Solo PROVE ReferenceInv'
<1> USE DEF ReferenceInv, Undefined
<1>1. TypeOK'
  BY DEF TypeOK
<1>2. (OwnInv /\ ShareInv /\ CallInv /\ KnownInv /\ CountInv /\ ZeroInv /\ LiveInv)'
  BY SameState
<1>3. SoloInv'
  BY DEF SoloInv, Solo
<1> QED  BY <1>1, <1>2, <1>3

\* What is held changes only by the references a call has moved.
LEMMA AdvanceHeld ==
  ASSUME TypeOK, OwnInv, NEW t \in Threads, pc[t] # "idle", next[t] < 8, Advance(t), UNCHANGED job
  PROVE  /\ pc' = [pc EXCEPT ![t] = "find"]
         /\ next' \in [Threads -> 1 .. 8] /\ next'[t] > next[t]
         /\ \A s \in Threads \ {t} : next'[s] = next[s]
         /\ Current(t)'.by # 0
         /\ HeldA(t)' = HeldA(t) - (IF pc[t] \notin {"test", "erase"} /\ next[t] \in {2, 5}
                                    THEN Current(t).by ELSE 0)
         /\ HeldB(t)' = HeldB(t) - (IF pc[t] \notin {"test", "erase"} /\ next[t] \in {3, 6}
                                    THEN Current(t).by ELSE 0)
         /\ HeldNew(t)' = HeldNew(t) + (IF pc[t] \notin {"test", "erase"} /\ next[t] \in {1, 7}
                                        THEN Current(t).by ELSE 0)
<1> DEFINE m == Cardinality(job[t].l1)
           n == Cardinality(job[t].l2)
           done == pc[t] \in {"test", "erase"}
<1>1. PICK k \in 1 .. 8 : /\ k > next[t] /\ Calls(job[t])[k].by # 0
                          /\ \A i \in 1 .. 8 : next[t] < i /\ i < k => Calls(job[t])[i].by = 0
                          /\ next' = [next EXCEPT ![t] = k]
                          /\ pc' = [pc EXCEPT ![t] = "find"]
  BY AdvanceTo
<1>2. m \in Nat \ {0} /\ n \in Nat \ {0}
  BY JobSizes
<1>3. next \in [Threads -> 1 .. 8] /\ pc'[t] = "find" /\ next'[t] = k
  BY <1>1 DEF TypeOK
<1>4. /\ \A i \in 1 .. 8 : i \in Ahead(t) <=> i > next[t] \/ (i = next[t] /\ ~ done)
      /\ \A i \in 1 .. 8 : i \in Ahead(t)' <=> i >= k
  BY <1>3 DEF Ahead
<1>5. /\ next[t] < 2 /\ 2 < k => FALSE
      /\ next[t] < 3 /\ 3 < k => FALSE
      /\ next[t] < 5 /\ 5 < k => m = 1
      /\ next[t] < 6 /\ 6 < k => n = 1
      /\ next[t] < 7 /\ 7 < k => m + n = 2
  <2>1. /\ Calls(job[t])[2].by = 1 /\ Calls(job[t])[3].by = 1
        /\ Calls(job[t])[5].by = m - 1 /\ Calls(job[t])[6].by = n - 1
        /\ Calls(job[t])[7].by = m + n - 2
    BY CallsOf DEF CallIs
  <2>2. \A i \in {2, 3, 5, 6, 7} : next[t] < i /\ i < k => Calls(job[t])[i].by = 0
    BY <1>1
  <2> HIDE DEF m, n
  <2> QED  BY <1>2, <2>1, <2>2
<1>6. /\ next[t] = 1 => Current(t).by = 2
      /\ next[t] \in {2, 3} => Current(t).by = 1
      /\ next[t] = 5 => Current(t).by = m - 1
      /\ next[t] = 6 => Current(t).by = n - 1
      /\ next[t] = 7 => Current(t).by = m + n - 2
  BY AtCall
<1>7. next[t] \in {1, 2, 3, 4, 5, 6, 7}
  BY <1>3
<1>8. /\ HeldA(t) = (IF 2 \in Ahead(t) THEN 1 ELSE 0) + (IF 5 \in Ahead(t) THEN m - 1 ELSE 0)
      /\ HeldB(t) = (IF 3 \in Ahead(t) THEN 1 ELSE 0) + (IF 6 \in Ahead(t) THEN n - 1 ELSE 0)
      /\ HeldNew(t) = (IF 1 \in Ahead(t) THEN 0 ELSE 2) + (IF 7 \in Ahead(t) THEN 0 ELSE m + n - 2)
      /\ HeldA(t)' = (IF 2 \in Ahead(t)' THEN 1 ELSE 0) + (IF 5 \in Ahead(t)' THEN m - 1 ELSE 0)
      /\ HeldB(t)' = (IF 3 \in Ahead(t)' THEN 1 ELSE 0) + (IF 6 \in Ahead(t)' THEN n - 1 ELSE 0)
      /\ HeldNew(t)' = (IF 1 \in Ahead(t)' THEN 0 ELSE 2)
                         + (IF 7 \in Ahead(t)' THEN 0 ELSE m + n - 2)
  BY DEF HeldA, HeldB, HeldNew
<1>9. Current(t)'.by # 0
  BY <1>1, <1>3 DEF Current
<1>10. /\ next' \in [Threads -> 1 .. 8] /\ next'[t] > next[t]
       /\ \A s \in Threads \ {t} : next'[s] = next[s]
  BY <1>1, <1>3
<1> HIDE DEF m, n, done
<1>11. k \in 1 .. 8 /\ k > next[t]
  BY <1>1
<1>12. /\ \A i \in {1, 2, 3, 5, 6, 7} : i \in Ahead(t) <=> i > next[t] \/ (i = next[t] /\ ~ done)
       /\ \A i \in {1, 2, 3, 5, 6, 7} : i \in Ahead(t)' <=> i >= k
  BY <1>4
<1>13. HeldA(t)' = HeldA(t) - (IF ~ done /\ next[t] \in {2, 5} THEN Current(t).by ELSE 0)
  BY ONLY <1>2, <1>5, <1>6, <1>7, <1>8, <1>11, <1>12
<1>14. HeldB(t)' = HeldB(t) - (IF ~ done /\ next[t] \in {3, 6} THEN Current(t).by ELSE 0)
  BY ONLY <1>2, <1>5, <1>6, <1>7, <1>8, <1>11, <1>12
<1>15. HeldNew(t)' = HeldNew(t) + (IF ~ done /\ next[t] \in {1, 7} THEN Current(t).by ELSE 0)
  BY ONLY <1>2, <1>5, <1>6, <1>7, <1>8, <1>11, <1>12
<1> QED  BY <1>1, <1>9, <1>10, <1>13, <1>14, <1>15 DEF done

\* Where no references are moved, nothing held changes.
LEMMA AdvanceHoldsOn ==
  ASSUME TypeOK, OwnInv, NEW t \in Threads, pc[t] # "idle", next[t] < 8, Advance(t), UNCHANGED job,
         pc[t] \in {"test", "erase"} \/ next[t] = 4
  PROVE  HoldsOn(t)
<1>1. HeldA(t) \in Int /\ HeldB(t) \in Int /\ HeldNew(t) \in Int
  BY HeldNat
<1> QED  BY <1>1, AdvanceHeld DEF HoldsOn

-----------------------------------------------------------------------------
(* The steps of static_add_attrib and static_reduce_attrib.                *)

\* A call that is still to be made has references to move, and they keep the
\* nodes it reads from alive while nothing was lost.
LEMMA StillHeld ==
  ASSUME ReferenceInv, NEW t \in Threads, pc[t] # "idle", pc[t] \notin {"test", "erase"}
  PROVE  /\ next[t] \in {2, 5} => HeldA(t) > 0
         /\ next[t] \in {3, 6} => HeldB(t) > 0
         /\ next[t] > 1 => HeldNew(t) > 0
         /\ next[t] \in {1, 2, 3, 5, 6, 7} => Current(t).by \in Nat \ {0}
<1> USE DEF ReferenceInv
<1> DEFINE m == Cardinality(job[t].l1)
           n == Cardinality(job[t].l2)
<1>1. m \in Nat \ {0} /\ n \in Nat \ {0}
  BY JobSizes
<1>2. Current(t).by # 0
  BY DEF CallInv, CallOK
<1>3. next[t] \in {1, 2, 3, 4, 5, 6, 7, 8}
  BY Positions
<1>4. \A i \in {1, 2, 3, 5, 6, 7} : i \in Ahead(t) <=> i >= next[t]
  BY <1>3 DEF Ahead
<1>5. /\ HeldA(t) = (IF 2 \in Ahead(t) THEN 1 ELSE 0) + (IF 5 \in Ahead(t) THEN m - 1 ELSE 0)
      /\ HeldB(t) = (IF 3 \in Ahead(t) THEN 1 ELSE 0) + (IF 6 \in Ahead(t) THEN n - 1 ELSE 0)
      /\ HeldNew(t) = (IF 1 \in Ahead(t) THEN 0 ELSE 2) + (IF 7 \in Ahead(t) THEN 0 ELSE m + n - 2)
  BY DEF HeldA, HeldB, HeldNew
<1>6. /\ next[t] = 1 => Current(t).by = 2
      /\ next[t] \in {2, 3} => Current(t).by = 1
      /\ next[t] = 5 => Current(t).by = m - 1
      /\ next[t] = 6 => Current(t).by = n - 1
      /\ next[t] = 7 => Current(t).by = m + n - 2
  BY AtCall
<1> HIDE DEF m, n
<1> QED  BY ONLY <1>1, <1>2, <1>3, <1>4, <1>5, <1>6

LEMMA AddFindKeeps ==
  ASSUME ReferenceInv, fate = "ok", NEW t \in Threads, AddFind(t)
  PROVE  ReferenceInv'
<1> USE DEF ReferenceInv
<1>1. pc[t] = "find" /\ next[t] \in {1, 7} /\ Current(t).val = Union(t) /\ Union(t) \in Values
  BY Positions, AtCall, ValuesOf DEF AddFind, Doing
<1>2. CASE next[t] = 7 /\ ~ IsLive(new[t])
  <2>1. Undefined
    BY <1>2, Positions DEF AddFind
  <2>2. ~ Solo
    BY <1>1, <1>2, StillHeld DEF LiveInv, LiveOK, SoloInv
  <2> QED  BY <2>1, <2>2, UndefinedKeeps
<1>3. CASE ~ (next[t] = 7 /\ ~ IsLive(new[t]))
  <2> DEFINE v == Union(t)
  <2>1. /\ it' = [it EXCEPT ![t] = IF v \in pool THEN Node(v) ELSE Nowhere]
        /\ pc' = [pc EXCEPT ![t] = IF v \in pool THEN "count" ELSE "insert"]
        /\ UNCHANGED next
        /\ UNCHANGED <<pool, gen, cnt, ptr, clusters, job, new, fate, owner, lostLive>>
    BY <1>1, <1>3, Positions DEF AddFind, Goto
  <2> HIDE DEF v
  <2>2. v \in Values
    BY <1>1 DEF v
  <2>3. TypeOK'
    BY <2>1, <2>2, NodeType, NowhereIsNode DEF TypeOK
  <2>4. OthersSame(t) /\ pc'[t] = (IF v \in pool THEN "count" ELSE "insert")
        /\ it'[t] = (IF v \in pool THEN Node(v) ELSE Nowhere)
    BY <2>1 DEF OthersSame, TypeOK
  <2>5. HoldsOn(t)
    <3>1. Ahead(t)' = Ahead(t)
      BY <1>1, <2>1, <2>4 DEF Ahead
    <3> QED  BY <2>1, <3>1 DEF HoldsOn, HeldA, HeldB, HeldNew
  <2>6. next[t] = 7 => v \in pool /\ new[t] = Node(v)
    <3>1. next[t] = 7 => new[t].val = v /\ IsLive(new[t])
      BY <1>1, <1>3 DEF v, CallInv, CallOK
    <3> QED  BY <3>1, ValuesOf, LiveNode
  <2>7. CallOK(t)'
    <3>1. CallOK(t)
      BY <1>1 DEF CallInv
    <3>2. v \in pool => it'[t].val = v
      BY <2>2, <2>4, NodeType
    <3>3. Union(t)' = v /\ Current(t)' = Current(t)
      BY <2>1 DEF v, Union, Current
    <3> QED  BY <1>1, <2>1, <2>4, <2>6, <3>1, <3>2, <3>3 DEF CallOK
  <2>8. v \in pool => Known(it[t])' /\ IsLive(it[t])'
    BY <2>1, <2>2, <2>4 DEF Known, IsLive, Node, TypeOK
  <2>9. KnownOK(t)'
    BY <1>1, <2>1, <2>4, <2>8 DEF KnownOK, KnownInv, Known
  <2>10. SoloOK(t)'
    BY <2>4, <2>8 DEF SoloOK
  <2>11. \A u : ~ Handles(t, u)
    BY <1>1 DEF Handles
  <2> QED  BY <1>1, <2>1, <2>3, <2>4, <2>5, <2>7, <2>9, <2>10, <2>11, SilentKeeps
<1> QED  BY <1>2, <1>3

\* The entry a call reads from is live if nothing was lost.
LEMMA ReduceFindKeeps ==
  ASSUME ReferenceInv, fate = "ok", NEW t \in Threads, ReduceFind(t)
  PROVE  ReferenceInv'
<1> USE DEF ReferenceInv
<1> DEFINE d == Current(t).of
<1>1. pc[t] = "find" /\ next[t] \in {2, 3, 5, 6}
  BY Positions DEF ReduceFind, Doing
<1>2. /\ next[t] \in {2, 5} => d = job[t].a /\ Current(t).val = job[t].a.val
      /\ next[t] \in {3, 6} => d = job[t].b /\ Current(t).val = job[t].b.val
      /\ d \in Nodes /\ Current(t).val = d.val /\ d.val \in Values
  BY <1>1, AtCall, ValuesOf
<1>3. CASE ~ IsLive(d)
  <2>1. Undefined
    BY <1>3 DEF ReduceFind
  <2>2. ~ Solo
    BY <1>1, <1>2, <1>3, StillHeld DEF LiveInv, LiveOK, SoloInv
  <2> QED  BY <2>1, <2>2, UndefinedKeeps
<1>4. CASE IsLive(d)
  <2>1. d = Node(d.val) /\ d.val \in pool
    BY <1>2, <1>4, LiveNode
  <2>2. /\ it' = [it EXCEPT ![t] = d]
        /\ pc' = [pc EXCEPT ![t] = "count"]
        /\ UNCHANGED next
        /\ UNCHANGED <<pool, gen, cnt, ptr, clusters, job, new, fate, owner, lostLive>>
    BY <1>2, <1>4, <2>1 DEF ReduceFind, Goto
  <2> HIDE DEF d
  <2>3. TypeOK'
    BY <1>2, <2>2 DEF TypeOK
  <2>4. OthersSame(t) /\ pc'[t] = "count" /\ it'[t] = d
    BY <2>2 DEF OthersSame, TypeOK
  <2>5. HoldsOn(t)
    <3>1. Ahead(t)' = Ahead(t)
      BY <1>1, <2>2, <2>4 DEF Ahead
    <3> QED  BY <2>2, <3>1 DEF HoldsOn, HeldA, HeldB, HeldNew
  <2>6. CallOK(t)'
    <3>1. CallOK(t)
      BY <1>1 DEF CallInv
    <3>2. Union(t)' = Union(t) /\ Current(t)' = Current(t)
      BY <2>2 DEF Union, Current
    <3> QED  BY <1>1, <1>2, <2>2, <2>4, <3>1, <3>2 DEF CallOK
  <2>7. Known(it[t])' /\ IsLive(it[t])'
    BY <1>2, <1>4, <2>1, <2>2, <2>4 DEF Known, IsLive, TypeOK
  <2>8. KnownOK(t)'
    BY <1>1, <2>2, <2>4, <2>7 DEF KnownOK, KnownInv, Known
  <2>9. SoloOK(t)'
    BY <2>4, <2>7 DEF SoloOK
  <2>10. \A u : ~ Handles(t, u)
    BY <1>1 DEF Handles
  <2> QED  BY <1>1, <2>2, <2>3, <2>4, <2>5, <2>6, <2>8, <2>9, <2>10, SilentKeeps
<1> QED  BY <1>3, <1>4

\* The conditions on a thread that has come to a new call.
LEMMA NextCallOK ==
  ASSUME NEW t \in Threads, CallOK(t), pc'[t] = "find", UNCHANGED <<job, ptr>>,
         Current(t)'.by # 0, new'[t].val = Union(t)
  PROVE  CallOK(t)'
BY DEF CallOK, Union

LEMMA ReduceTestKeeps ==
  ASSUME ReferenceInv, fate = "ok", NEW t \in Threads, ReduceTest(t)
  PROVE  ReferenceInv'
<1> USE DEF ReferenceInv
<1>1. pc[t] = "test" /\ next[t] \in {2, 3, 5, 6} /\ CallOK(t)
  BY Positions DEF ReduceTest, Doing, CallInv
<1>2. CASE ~ IsLive(it[t])
  <2>1. Undefined
    BY <1>2 DEF ReduceTest
  <2>2. ~ Solo
    BY <1>1, <1>2 DEF SoloInv, SoloOK
  <2> QED  BY <2>1, <2>2, UndefinedKeeps
<1>3. CASE IsLive(it[t]) /\ cnt[it[t].val] <= 0
  <2>1. /\ pc' = [pc EXCEPT ![t] = "erase"]
        /\ UNCHANGED next
        /\ UNCHANGED <<pool, gen, cnt, ptr, clusters, job, it, new, fate, owner, lostLive>>
    BY <1>3 DEF ReduceTest, Goto
  <2>2. TypeOK' /\ OthersSame(t) /\ pc'[t] = "erase"
    BY <2>1 DEF TypeOK, OthersSame
  <2>3. HoldsOn(t)
    <3>1. Ahead(t)' = Ahead(t)
      BY <1>1, <2>1, <2>2 DEF Ahead
    <3> QED  BY <2>1, <3>1 DEF HoldsOn, HeldA, HeldB, HeldNew
  <2>4. CallOK(t)'
    BY <1>1, <2>1, <2>2 DEF CallOK, Union, Current
  <2>5. KnownOK(t)'
    BY <1>1, <2>1, <2>2 DEF KnownOK, KnownInv, Known
  <2>6. SoloOK(t)'
    BY <1>3, <2>1 DEF SoloOK, IsLive
  <2>7. \A v : Handles(t, Node(v)) => Handles(t, Node(v))'
    BY <1>1, <2>1, <2>2 DEF Handles, Node
  <2> QED  BY <1>1, <2>1, <2>2, <2>3, <2>4, <2>5, <2>6, <2>7, SilentKeeps
<1>4. CASE IsLive(it[t]) /\ ~ (cnt[it[t].val] <= 0)
  <2>1. /\ Advance(t)
        /\ UNCHANGED <<pool, gen, cnt, ptr, clusters, job, it, new, fate, owner, lostLive>>
    BY <1>4 DEF ReduceTest
  <2>2. /\ pc' = [pc EXCEPT ![t] = "find"] /\ next' \in [Threads -> 1 .. 8] /\ next'[t] > next[t]
        /\ \A s \in Threads \ {t} : next'[s] = next[s]
        /\ Current(t)'.by # 0 /\ HoldsOn(t)
    BY <1>1, <2>1, AdvanceHeld, AdvanceHoldsOn
  <2>3. TypeOK' /\ OthersSame(t) /\ pc'[t] = "find"
    BY <2>1, <2>2 DEF TypeOK, OthersSame
  <2>4. new[t].val = Union(t) /\ Known(new[t])
    BY <1>1 DEF CallOK, KnownInv, KnownOK
  <2>5. CallOK(t)'
    BY <1>1, <2>1, <2>2, <2>3, <2>4, NextCallOK
  <2>6. KnownOK(t)'
    BY <2>1, <2>3, <2>4 DEF KnownOK, Known
  <2>7. SoloOK(t)'
    BY <2>3 DEF SoloOK
  <2>8. \A v \in pool : cnt[v] = 0 => ~ Handles(t, Node(v))
    <3> SUFFICES ASSUME NEW v \in pool, cnt[v] = 0, it[t] = Node(v) PROVE FALSE
      BY DEF Handles
    <3>1. it[t].val = v
      BY DEF Node
    <3> QED  BY <1>4, <3>1
  <2> QED  BY <1>1, <2>1, <2>2, <2>3, <2>5, <2>6, <2>7, <2>8, SilentKeeps
<1> QED  BY <1>2, <1>3, <1>4

\* The check never fails: the records of a cluster share their entry.
LEMMA CheckPointersKeeps ==
  ASSUME ReferenceInv, fate = "ok", NEW t \in Threads, CheckPointers(t)
  PROVE  ReferenceInv'
<1> USE DEF ReferenceInv
<1>1. pc[t] = "find" /\ next[t] = 4 /\ CallOK(t)
  BY Positions DEF CheckPointers, Doing, CallInv
<1>2. /\ \A r, s \in job[t].l1 : ptr[r] = ptr[s]
      /\ \A r, s \in job[t].l2 : ptr[r] = ptr[s]
  BY <1>1, JobSizes DEF ShareInv
<1>3. /\ Advance(t) /\ UNCHANGED fate
      /\ UNCHANGED <<pool, gen, cnt, ptr, clusters, job, it, new, owner, lostLive>>
  BY <1>2 DEF CheckPointers
<1>4. /\ pc' = [pc EXCEPT ![t] = "find"] /\ next' \in [Threads -> 1 .. 8] /\ next'[t] > next[t]
      /\ \A s \in Threads \ {t} : next'[s] = next[s]
      /\ Current(t)'.by # 0 /\ HoldsOn(t)
  BY <1>1, <1>3, AdvanceHeld, AdvanceHoldsOn
<1>5. TypeOK' /\ OthersSame(t) /\ pc'[t] = "find"
  BY <1>3, <1>4 DEF TypeOK, OthersSame
<1>6. new[t].val = Union(t) /\ Known(new[t])
  BY <1>1 DEF CallOK, KnownInv, KnownOK
<1>7. CallOK(t)'
  BY <1>1, <1>3, <1>4, <1>5, <1>6, NextCallOK
<1>8. KnownOK(t)' /\ SoloOK(t)'
  BY <1>3, <1>5, <1>6 DEF KnownOK, Known, SoloOK
<1>9. \A u : ~ Handles(t, u)
  BY <1>1 DEF Handles
<1> QED  BY <1>1, <1>3, <1>4, <1>5, <1>7, <1>8, <1>9, SilentKeeps

\* While one thread does all the merging the others are idle.
LEMMA SoloOthersIdle ==
  ASSUME TypeOK, OwnInv, Solo, NEW t \in Threads, pc[t] # "idle", NEW s \in Threads, s # t
  PROVE  pc[s] = "idle"
<1> SUFFICES ASSUME pc[s] # "idle" PROVE FALSE
  OBVIOUS
<1>1. PICK r \in job[t].l1 : r \in Records /\ owner[r] = t
  BY JobSizes DEF Members
<1>2. PICK q \in job[s].l1 : q \in Records /\ owner[q] = s
  BY JobSizes DEF Members
<1> QED  BY <1>1, <1>2 DEF Solo

LEMMA SameNode ==
  ASSUME NEW u, NEW v
  PROVE  Node(u) = Node(v) <=> u = v
BY DEF Node

\* The counter of one entry and what the thread holds in it change alike.
LEMMA CountingKeeps ==
  ASSUME ReferenceInv, TypeOK', NEW t \in Threads, OthersSame(t), pc[t] # "idle", pc'[t] # "idle",
         UNCHANGED <<pool, gen, ptr, clusters, job, fate, owner, lostLive>>,
         NEW u \in pool, NEW d \in Int, cnt' = [cnt EXCEPT ![u] = @ + d],
         \A v \in pool : Held(t, Node(v))' = Held(t, Node(v)) + (IF v = u THEN d ELSE 0),
         CallOK(t)', KnownOK(t)', SoloOK(t)', ~ lostLive => LiveOK(t)',
         \A v \in pool \ {u} : ~ Handles(t, Node(v)),
         cnt'[u] = 0 => \E s \in Threads : Handles(s, Node(u))'
  PROVE  ReferenceInv'
<1> USE DEF ReferenceInv
<1>1. OwnInv' /\ ShareInv'
  BY SteadyKeeps
<1>2. CallInv' /\ KnownInv'
  <2>1. \A s \in Threads \ {t} : (pc[s] # "idle" => CallOK(s))' /\ KnownOK(s)'
    BY OthersKeep DEF CallInv, KnownInv
  <2>2. \A r \in Records : Known(ptr[r])'
    BY DEF KnownInv, Known
  <2> QED  BY <2>1, <2>2 DEF CallInv, KnownInv
<1>3. \A v : Node(v)' = Node(v)
  BY DEF Node
<1>4. \A v \in pool : v \in Values /\ cnt[v] \in Int /\ cnt'[v] = cnt[v] + (IF v = u THEN d ELSE 0)
  BY DEF TypeOK
<1>5. CountInv'
  <2> SUFFICES ASSUME NEW v \in pool PROVE cnt'[v] = Referring(Node(v))'
    BY DEF CountInv
  <2> DEFINE n == Node(v)
  <2>1. Resting(n)' = Resting(n)
    BY <1>3, RestingSame DEF Resting
  <2>2. \A h : Resting(h)' = Resting(h)
    BY RestingSame
  <2>3. \A h : Referring(h)' = Referring(h) - Held(t, h) + Held(t, h)'
    BY <1>1, <2>2, ReferringStep
  <2>4. Referring(n)' = Referring(n) - Held(t, n) + Held(t, n)'
    <3>1. \A h : h = n => (Referring(h)' = Referring(n)' /\ Held(t, h)' = Held(t, n)')
      BY <1>3 DEF Referring, Resting, Held
    <3> QED  BY <2>3, <3>1
  <2>5. cnt[v] = Referring(n) /\ Held(t, n) \in Nat
    BY HeldNat DEF CountInv
  <2>6. Held(t, n)' = Held(t, n) + (IF v = u THEN d ELSE 0)
    OBVIOUS
  <2> HIDE DEF n
  <2>7. Referring(n)' = cnt'[v]
    BY <1>4, <2>4, <2>5, <2>6
  <2> QED  BY <2>7 DEF n
<1>6. ZeroInv'
  <2> SUFFICES ASSUME NEW v \in pool, cnt'[v] = 0, v # u
               PROVE  \E s \in Threads : Handles(s, Node(v))'
    BY DEF ZeroInv
  <2>1. PICK s \in Threads : Handles(s, Node(v))
    BY <1>4 DEF ZeroInv
  <2>2. s # t
    BY <2>1
  <2>3. Handles(s, Node(v))'
    BY <2>1, <2>2, <1>3 DEF Handles, OthersSame
  <2> QED  BY <2>3
<1>7. LiveInv'
  <2>1. \A s \in Threads \ {t} : (pc[s] # "idle" => LiveOK(s)) => (pc[s] # "idle" => LiveOK(s))'
    BY OthersKeep
  <2>2. Free' = Free
    BY RestingSame
  <2> QED  BY <2>1, <2>2 DEF LiveInv, IsLive
<1>8. SoloInv'
  <2>1. Solo' = Solo
    BY DEF Solo
  <2>2. Solo => \A s \in Threads \ {t} : pc'[s] = "idle"
    BY SoloOthersIdle DEF OthersSame
  <2>3. Solo => \A s \in Threads : SoloOK(s)'
    BY <2>2 DEF SoloOK
  <2> QED  BY <2>1, <2>3 DEF SoloInv
<1> QED  BY <1>1, <1>2, <1>5, <1>6, <1>7, <1>8

LEMMA AddCountKeeps ==
  ASSUME ReferenceInv, fate = "ok", NEW t \in Threads, AddCount(t)
  PROVE  ReferenceInv'
<1> USE DEF ReferenceInv
<1>1. pc[t] = "count" /\ next[t] \in {1, 7} /\ CallOK(t) /\ Known(it[t])
  BY Positions DEF AddCount, Doing, CallInv, KnownInv, KnownOK
<1>2. CASE ~ IsLive(it[t])
  <2>1. Undefined
    BY <1>2 DEF AddCount
  <2>2. ~ Solo
    BY <1>1, <1>2 DEF SoloInv, SoloOK
  <2> QED  BY <2>1, <2>2, UndefinedKeeps
<1>3. CASE IsLive(it[t])
  <2> DEFINE u == it[t].val
             d == Current(t).by
  <2>1. u \in pool /\ it[t] = Node(u) /\ u = Union(t)
    BY <1>1, <1>3, ValuesOf, LiveNode DEF CallOK
  <2>2. d \in Nat \ {0}
    BY <1>1, StillHeld
  <2>3. /\ cnt' = [cnt EXCEPT ![u] = @ + d]
        /\ new' = IF next[t] = 1 THEN [new EXCEPT ![t] = it[t]] ELSE new
        /\ Advance(t)
        /\ UNCHANGED <<pool, gen, ptr, clusters, job, it, fate, owner, lostLive>>
    BY <1>1, <1>3, Positions DEF AddCount
  <2>4. /\ pc' = [pc EXCEPT ![t] = "find"] /\ next' \in [Threads -> 1 .. 8] /\ next'[t] > next[t]
        /\ \A s \in Threads \ {t} : next'[s] = next[s]
        /\ Current(t)'.by # 0
        /\ HeldA(t)' = HeldA(t) - 0 /\ HeldB(t)' = HeldB(t) - 0 /\ HeldNew(t)' = HeldNew(t) + d
    BY <1>1, <2>3, AdvanceHeld
  <2>5. HeldA(t) \in Nat /\ HeldB(t) \in Nat /\ HeldNew(t) \in Nat
    BY <1>1, HeldNat
  <2>6. next[t] = 1 => HeldNew(t) = 0
    BY <1>1 DEF HeldNew, Ahead
  <2>7. new'[t] = Node(u)
    BY <1>1, <2>1, <2>3 DEF CallOK, TypeOK
  <2>8. next[t] = 7 => new[t] = Node(u)
    BY <1>1, <2>1 DEF CallOK
  <2> HIDE DEF u, d
  <2>9. pc'[t] = "find" /\ pc' \in [Threads -> {"idle", "find", "insert", "count", "test", "erase"}]
    BY <2>4 DEF TypeOK
  <2>10. OthersSame(t)
    BY <2>3, <2>4 DEF OthersSame, TypeOK
  <2>11. u \in Values /\ cnt[u] \in Int /\ cnt' \in [Values -> Int] /\ cnt'[u] = cnt[u] + d
    BY <2>1, <2>2, <2>3 DEF TypeOK
  <2>12. TypeOK'
    BY <2>3, <2>4, <2>9, <2>11 DEF TypeOK
  <2>13. \A v \in pool : Held(t, Node(v))' = Held(t, Node(v)) + (IF v = u THEN d ELSE 0)
    <3> TAKE v \in pool
    <3> DEFINE n == Node(v)
    <3>1. n' = n
      BY <2>3 DEF Node
    <3>2. n = Node(u) <=> v = u
      BY SameNode
    <3>3. Held(t, n)' = (IF job[t].a = n THEN HeldA(t) ELSE 0) + (IF job[t].b = n THEN HeldB(t) ELSE 0)
                          + (IF Node(u) = n THEN HeldNew(t) + d ELSE 0)
      BY <2>3, <2>4, <2>5, <2>7, <2>9, <3>1 DEF Held
    <3>4. Held(t, n) = (IF job[t].a = n THEN HeldA(t) ELSE 0) + (IF job[t].b = n THEN HeldB(t) ELSE 0)
                          + (IF Node(u) = n THEN HeldNew(t) ELSE 0)
      BY <1>1, <2>5, <2>6, <2>8 DEF Held
    <3> HIDE DEF n
    <3>5. Held(t, n)' = Held(t, n) + (IF v = u THEN d ELSE 0)
      BY <2>2, <2>5, <3>2, <3>3, <3>4
    <3> QED  BY <3>5 DEF n
  <2>14. CallOK(t)'
    <3>1. new'[t].val = Union(t)
      BY <2>1, <2>7 DEF Node, u
    <3> QED  BY <1>1, <2>3, <2>4, <2>9, <3>1, NextCallOK
  <2>15. IsLive(new[t])' /\ Known(new[t])'
    BY <2>1, <2>3, <2>7, <2>11 DEF IsLive, Known, Node, TypeOK
  <2>16. KnownOK(t)' /\ SoloOK(t)'
    BY <2>9, <2>15 DEF KnownOK, SoloOK
  <2>17. ~ lostLive => LiveOK(t)'
    <3>1. ~ lostLive => (HeldA(t) > 0 => IsLive(job[t].a)) /\ (HeldB(t) > 0 => IsLive(job[t].b))
      BY <1>1 DEF LiveInv, LiveOK
    <3>2. HeldA(t)' = HeldA(t) /\ HeldB(t)' = HeldB(t)
      BY <2>4, <2>5
    <3> QED  BY <2>3, <2>15, <3>1, <3>2 DEF LiveOK, IsLive
  <2>18. \A v \in pool \ {u} : ~ Handles(t, Node(v))
    BY <2>1, SameNode DEF Handles
  <2>19. cnt'[u] # 0
    <3>1. cnt[u] \in Nat
      BY <2>1, ReferringNat DEF CountInv
    <3> QED  BY <2>2, <2>11, <3>1
  <2>20. d \in Int /\ UNCHANGED <<pool, gen, ptr, clusters, job, fate, owner, lostLive>>
    BY <2>2, <2>3
  <2> QED  BY <1>1, <2>1, <2>3, <2>9, <2>10, <2>12, <2>13, <2>14, <2>16, <2>17, <2>18,
              <2>19, <2>20, CountingKeeps
<1> QED  BY <1>2, <1>3

LEMMA ReduceCountKeeps ==
  ASSUME ReferenceInv, fate = "ok", NEW t \in Threads, ReduceCount(t)
  PROVE  ReferenceInv'
<1> USE DEF ReferenceInv
<1>1. pc[t] = "count" /\ next[t] \in {2, 3, 5, 6} /\ CallOK(t) /\ Known(it[t])
  BY Positions DEF ReduceCount, Doing, CallInv, KnownInv, KnownOK
<1>2. CASE ~ IsLive(it[t])
  <2>1. Undefined
    BY <1>2 DEF ReduceCount
  <2>2. ~ Solo
    BY <1>1, <1>2 DEF SoloInv, SoloOK
  <2> QED  BY <2>1, <2>2, UndefinedKeeps
<1>3. CASE IsLive(it[t])
  <2>a. it[t].val \in pool /\ it[t] = Node(it[t].val)
    BY <1>3, ValuesOf, LiveNode
  <2>b. PICK u \in pool : u = it[t].val
    BY <2>a
  <2>1. u \in pool /\ it[t] = Node(u)
    BY <2>a, <2>b
  <2>2. Current(t).by \in Nat \ {0}
    BY <1>1, StillHeld
  <2>c. PICK d \in Int : d = 0 - Current(t).by
    BY <2>2
  <2>3. u \in Values /\ cnt[u] \in Int
    BY <2>1 DEF TypeOK
  <2>4. /\ cnt' = [cnt EXCEPT ![u] = @ - Current(t).by]
        /\ pc' = [pc EXCEPT ![t] = "test"]
        /\ UNCHANGED next
        /\ UNCHANGED <<pool, gen, ptr, clusters, job, it, new, fate, owner, lostLive>>
    BY <1>3, <2>b DEF ReduceCount, Goto
  <2>5. cnt' = [cnt EXCEPT ![u] = @ + d] /\ d \in Int
    <3>1. cnt[u] - Current(t).by = cnt[u] + d
      BY <2>2, <2>3, <2>c
    <3>2. cnt' = [cnt EXCEPT ![u] = cnt[u] - Current(t).by]
      BY <2>4
    <3> QED  BY <3>1, <3>2
  <2>6. /\ HeldA(t)' = HeldA(t) + (IF next[t] \in {2, 5} THEN d ELSE 0)
        /\ HeldB(t)' = HeldB(t) + (IF next[t] \in {3, 6} THEN d ELSE 0)
        /\ HeldNew(t)' = HeldNew(t)
    <3> DEFINE m == Cardinality(job[t].l1)
               n == Cardinality(job[t].l2)
    <3>1. m \in Nat \ {0} /\ n \in Nat \ {0}
      BY <1>1, JobSizes
    <3>2. pc'[t] = "test" /\ next[t] \in 1 .. 8
      BY <2>4 DEF TypeOK
    <3>3. \A i \in {1, 2, 3, 5, 6, 7} : /\ i \in Ahead(t) <=> i >= next[t]
                                        /\ i \in Ahead(t)' <=> i > next[t]
      BY <1>1, <2>4, <3>2 DEF Ahead
    <3>4. /\ HeldA(t) = (IF 2 \in Ahead(t) THEN 1 ELSE 0) + (IF 5 \in Ahead(t) THEN m - 1 ELSE 0)
          /\ HeldB(t) = (IF 3 \in Ahead(t) THEN 1 ELSE 0) + (IF 6 \in Ahead(t) THEN n - 1 ELSE 0)
          /\ HeldNew(t) = (IF 1 \in Ahead(t) THEN 0 ELSE 2) + (IF 7 \in Ahead(t) THEN 0 ELSE m + n - 2)
          /\ HeldA(t)' = (IF 2 \in Ahead(t)' THEN 1 ELSE 0) + (IF 5 \in Ahead(t)' THEN m - 1 ELSE 0)
          /\ HeldB(t)' = (IF 3 \in Ahead(t)' THEN 1 ELSE 0) + (IF 6 \in Ahead(t)' THEN n - 1 ELSE 0)
          /\ HeldNew(t)' = (IF 1 \in Ahead(t)' THEN 0 ELSE 2)
                             + (IF 7 \in Ahead(t)' THEN 0 ELSE m + n - 2)
      BY <2>4 DEF HeldA, HeldB, HeldNew
    <3>5. /\ next[t] \in {2, 3} => Current(t).by = 1
          /\ next[t] = 5 => Current(t).by = m - 1
          /\ next[t] = 6 => Current(t).by = n - 1
      BY AtCall
    <3> HIDE DEF m, n
    <3> QED  BY <1>1, <2>c, <3>1, <3>3, <3>4, <3>5
  <2>7. HeldA(t) \in Nat /\ HeldB(t) \in Nat /\ HeldNew(t) \in Nat
    BY <1>1, HeldNat
  <2>8. /\ next[t] \in {2, 5} => job[t].a = Node(u)
        /\ next[t] \in {3, 6} => job[t].b = Node(u)
    BY <1>1, <2>1 DEF CallOK
  <2>9. pc'[t] = "test" /\ OthersSame(t)
    BY <2>4 DEF OthersSame, TypeOK
  <2>10. cnt' \in [Values -> Int] /\ TypeOK'
    <3>1. cnt' \in [Values -> Int]
      BY <2>3, <2>5 DEF TypeOK
    <3> QED  BY <2>4, <3>1 DEF TypeOK
  <2>11. \A v \in pool : Held(t, Node(v))' = Held(t, Node(v)) + (IF v = u THEN d ELSE 0)
    <3> TAKE v \in pool
    <3> DEFINE n == Node(v)
    <3>1. n' = n
      BY <2>4 DEF Node
    <3>2. n = Node(u) <=> v = u
      BY SameNode
    <3>3. Held(t, n)' = (IF job[t].a = n THEN HeldA(t)' ELSE 0)
                          + (IF job[t].b = n THEN HeldB(t)' ELSE 0)
                          + (IF new[t] = n THEN HeldNew(t) ELSE 0)
      BY <2>4, <2>6, <2>9, <3>1 DEF Held
    <3>4. Held(t, n) = (IF job[t].a = n THEN HeldA(t) ELSE 0) + (IF job[t].b = n THEN HeldB(t) ELSE 0)
                          + (IF new[t] = n THEN HeldNew(t) ELSE 0)
      BY <1>1 DEF Held
    <3> HIDE DEF n
    <3>5. Held(t, n)' = Held(t, n) + (IF v = u THEN d ELSE 0)
      <4>1. CASE next[t] \in {2, 5}
        BY <2>5, <2>6, <2>7, <2>8, <3>2, <3>3, <3>4, <4>1
      <4>2. CASE next[t] \in {3, 6}
        BY <2>5, <2>6, <2>7, <2>8, <3>2, <3>3, <3>4, <4>2
      <4> QED  BY <1>1, <4>1, <4>2
    <3> QED  BY <3>5 DEF n
  <2>12. CallOK(t)'
    <3>1. Union(t)' = Union(t) /\ Current(t)' = Current(t)
      BY <2>4 DEF Union, Current
    <3> QED  BY <1>1, <2>4, <2>9, <3>1 DEF CallOK
  <2>13. KnownOK(t)' /\ SoloOK(t)'
    <3>1. Known(new[t]) /\ Known(it[t])
      BY <1>1 DEF KnownInv, KnownOK
    <3> QED  BY <1>3, <2>4, <2>9, <3>1 DEF KnownOK, Known, SoloOK, IsLive
  <2>14. ~ lostLive => LiveOK(t)'
    <3>1. ~ lostLive => LiveOK(t)
      BY <1>1 DEF LiveInv
    <3>2. (HeldA(t)' > 0 => HeldA(t) > 0) /\ (HeldB(t)' > 0 => HeldB(t) > 0)
      BY <2>2, <2>6, <2>7, <2>c
    <3> QED  BY <2>4, <2>6, <3>1, <3>2 DEF LiveOK, IsLive
  <2>15. \A v \in pool \ {u} : ~ Handles(t, Node(v))
    BY <1>1 DEF Handles
  <2>16. Handles(t, Node(u))'
    <3>1. Node(u)' = Node(u)
      BY <2>4 DEF Node
    <3>2. pc'[t] = "test" /\ it'[t] = Node(u)
      BY <2>1, <2>4, <2>9
    <3> QED  BY <3>1, <3>2 DEF Handles
  <2> QED  BY <1>1, <2>1, <2>4, <2>5, <2>9, <2>10, <2>11, <2>12, <2>13, <2>14, <2>15, <2>16,
              CountingKeeps
<1> QED  BY <1>2, <1>3

-----------------------------------------------------------------------------
(* Steps that put a node into the pool or take one out.                    *)

\* The part of a thread's conditions that the pool has no part in.
LEMMA OthersCall ==
  ASSUME NEW t \in Threads, OthersSame(t), UNCHANGED ptr, NEW s \in Threads \ {t}
  PROVE  /\ (pc[s] # "idle" => CallOK(s)) => (pc[s] # "idle" => CallOK(s))'
         /\ \A n : Handles(s, n)' = Handles(s, n)
<1>1. pc'[s] = pc[s] /\ next'[s] = next[s] /\ job'[s] = job[s] /\ it'[s] = it[s] /\ new'[s] = new[s]
  BY DEF OthersSame
<1>2. (pc[s] # "idle" => CallOK(s)) => (pc[s] # "idle" => CallOK(s))'
  BY <1>1 DEF CallOK, Current, Union
<1>3. \A n : Handles(s, n)' = Handles(s, n)
  BY <1>1 DEF Handles
<1> QED  BY <1>2, <1>3

\* Nobody has come across the node of a value that is not in the pool.
LEMMA NobodyRefers ==
  ASSUME TypeOK, OwnInv, CallInv, KnownInv, NEW v \in Values \ pool
  PROVE  Referring(Node(v)) = 0
<1> DEFINE n == Node(v)
<1>1. ~ Known(n)
  BY DEF Known, Node, TypeOK
<1>2. \A r \in Records : ptr[r] # n
  BY <1>1 DEF KnownInv
<1>3. ASSUME NEW t \in Threads PROVE Held(t, n) = 0
  <2>1. CASE pc[t] = "idle"
    BY <2>1 DEF Held
  <2>2. CASE pc[t] # "idle"
    <3>1. CallOK(t)
      BY <2>2 DEF CallInv
    <3>2. job[t].a # n /\ job[t].b # n
      <4>1. PICK r \in job[t].l1 : r \in Records
        BY <2>2, JobSizes DEF Members
      <4>2. PICK q \in job[t].l2 : q \in Records
        BY <2>2, JobSizes DEF Members
      <4> QED  BY <1>2, <3>1, <4>1, <4>2 DEF CallOK
    <3>3. CASE next[t] > 1
      <4>1. new[t] # n
        BY <1>1, <2>2, <3>3 DEF KnownInv, KnownOK
      <4> QED  BY <2>2, <3>2, <4>1 DEF Held
    <3>4. CASE ~ (next[t] > 1)
      <4>1. next[t] = 1
        BY <3>4 DEF TypeOK
      <4>2. 1 \in Ahead(t) /\ 7 \in Ahead(t)
        BY <2>2, <3>1, <4>1 DEF Ahead, CallOK
      <4>3. HeldNew(t) = 0
        BY <4>2 DEF HeldNew
      <4> QED  BY <2>2, <3>2, <4>3 DEF Held
    <3> QED  BY <3>3, <3>4
  <2> QED  BY <2>1, <2>2
<1> HIDE DEF n
<1>4. Referring(n) = 0
  BY <1>2, <1>3, ReferringNone
<1> QED  BY <1>4 DEF n

LEMMA AddInsertKeeps ==
  ASSUME ReferenceInv, fate = "ok", NEW t \in Threads, AddInsert(t)
  PROVE  ReferenceInv'
<1> USE DEF ReferenceInv
<1>1. pc[t] = "insert" /\ next[t] = 1 /\ CallOK(t)
  BY DEF AddInsert, Doing, CallInv, CallOK
<1>2. PICK v \in Values : v = Union(t) /\ v = Current(t).val
  BY <1>1, AtCall, ValuesOf
<1>3. /\ pool' = pool \cup {v}
      /\ cnt' = IF v \in pool THEN cnt ELSE [cnt EXCEPT ![v] = 0]
      /\ it' = [it EXCEPT ![t] = Node(v)]
      /\ pc' = [pc EXCEPT ![t] = "count"]
      /\ UNCHANGED <<next, gen, ptr, clusters, job, new, fate, owner, lostLive>>
  BY <1>2 DEF AddInsert, Goto
<1>4. pc'[t] = "count" /\ it'[t] = Node(v) /\ OthersSame(t)
  BY <1>3 DEF OthersSame, TypeOK
<1>5. TypeOK'
  BY <1>3, NodeType DEF TypeOK
<1>6. Node(v) \in Nodes /\ Node(v).val = v /\ Node(v).gen = gen[v]
  BY NodeType DEF Node
<1>7. IsLive(it[t])' /\ Known(it[t])'
  BY <1>3, <1>4, <1>6 DEF IsLive, Known, TypeOK
<1>8. CallOK(t)'
  <2>1. Union(t)' = Union(t) /\ Current(t)' = Current(t)
    BY <1>3 DEF Union, Current
  <2>2. it'[t].val = Union(t)' /\ next'[t] = 1
    BY <1>1, <1>2, <1>3, <1>4, <1>6, <2>1
  <2>3. ~ (next'[t] > 1) /\ next'[t] \notin {2, 3, 5, 6, 7}
    BY <2>2
  <2> QED  BY <1>1, <1>3, <1>4, <2>1, <2>2, <2>3 DEF CallOK
<1>9. KnownOK(t)' /\ SoloOK(t)'
  BY <1>1, <1>3, <1>4, <1>7 DEF KnownOK, SoloOK
<1>10. HoldsOn(t)
  <2>1. Ahead(t)' = Ahead(t)
    BY <1>1, <1>3, <1>4 DEF Ahead
  <2> QED  BY <1>3, <2>1 DEF HoldsOn, HeldA, HeldB, HeldNew
<1>11. \A u : ~ Handles(t, u)
  BY <1>1 DEF Handles
<1>12. CASE v \in pool
  <2>1. pool' = pool /\ cnt' = cnt
    BY <1>3, <1>12
  <2> QED  BY <1>1, <1>3, <1>4, <1>5, <1>8, <1>9, <1>10, <1>11, <2>1, SilentKeeps
<1>13. CASE v \notin pool
  <2>1. OwnInv' /\ ShareInv'
    BY <1>1, <1>3, <1>4, SteadyKeeps
  <2>2. CallInv' /\ KnownInv'
    <3>1. \A s \in Threads \ {t} : (pc[s] # "idle" => CallOK(s))'
      BY <1>3, <1>4, OthersCall DEF CallInv
    <3>2. \A n : Known(n) => Known(n)'
      BY <1>3 DEF Known
    <3>3. \A s \in Threads \ {t} : KnownOK(s)'
      BY <1>3, <1>4, <3>2 DEF KnownInv, KnownOK, OthersSame, Known
    <3>4. \A r \in Records : Known(ptr[r])'
      BY <1>3 DEF KnownInv, Known
    <3> QED  BY <1>8, <1>9, <3>1, <3>3, <3>4 DEF CallInv, KnownInv
  <2>3. \A n : Referring(n)' = Referring(n)
    <3> TAKE n
    <3>1. Held(t, n)' = Held(t, n) /\ Held(t, n) \in Nat
      BY <1>1, <1>3, <1>4, <1>10, HoldsOnHeld, HeldNat
    <3>2. Resting(n)' = Resting(n)
      BY <1>3, RestingSame
    <3>3. Referring(n)' = Referring(n) - Held(t, n) + Held(t, n)'
      BY <1>4, <1>5, <2>1, <3>2, ReferringStep
    <3>4. Referring(n) \in Nat
      BY ReferringNat
    <3> QED  BY <3>1, <3>3, <3>4
  <2>4. \A u : Node(u)' = Node(u)
    BY <1>3 DEF Node
  <2>5. cnt'[v] = 0 /\ \A u \in pool : cnt'[u] = cnt[u]
    BY <1>3, <1>13 DEF TypeOK
  <2>6. CountInv'
    <3>1. Referring(Node(v)) = 0
      BY <1>13, NobodyRefers
    <3> QED  BY <1>3, <2>3, <2>4, <2>5, <3>1 DEF CountInv
  <2>7. ZeroInv'
    <3> SUFFICES ASSUME NEW u \in pool', cnt'[u] = 0 PROVE \E s \in Threads : Handles(s, Node(u))'
      BY DEF ZeroInv
    <3>1. CASE u = v
      <4>1. Handles(t, Node(v))'
        BY <1>1, <1>3, <1>4, <2>4 DEF Handles
      <4> QED  BY <3>1, <4>1
    <3>2. CASE u # v
      <4>1. PICK s \in Threads : Handles(s, Node(u))
        BY <1>3, <2>5, <3>2 DEF ZeroInv
      <4>2. s # t
        BY <1>11, <4>1
      <4>3. Handles(s, Node(u))'
        BY <1>4, <2>4, <4>1, <4>2 DEF Handles, OthersSame
      <4> QED  BY <4>3
    <3> QED  BY <3>1, <3>2
  <2>8. LiveInv'
    <3>1. \A n : IsLive(n) => IsLive(n)'
      BY <1>3 DEF IsLive
    <3>2. LiveOK(t) => LiveOK(t)'
      BY <1>3, <1>10 DEF LiveOK, HoldsOn, IsLive
    <3>3. ASSUME NEW s \in Threads \ {t} PROVE LiveOK(s) => LiveOK(s)'
      <4>1. pc'[s] = pc[s] /\ next'[s] = next[s] /\ job'[s] = job[s] /\ new'[s] = new[s]
        BY <1>4 DEF OthersSame
      <4> QED  BY <1>3, <4>1, HeldSame DEF LiveOK, IsLive
    <3>4. Free' = Free
      BY <1>3, RestingSame
    <3> QED  BY <1>1, <1>3, <1>4, <3>2, <3>3, <3>4 DEF LiveInv, IsLive, OthersSame
  <2>9. SoloInv'
    <3>1. Solo' = Solo
      BY <1>3 DEF Solo
    <3>2. Solo => \A s \in Threads \ {t} : pc'[s] = "idle"
      BY <1>1, <1>4, SoloOthersIdle DEF OthersSame
    <3>3. Solo => \A s \in Threads : SoloOK(s)'
      BY <1>9, <3>2 DEF SoloOK
    <3> QED  BY <1>3, <3>1, <3>3 DEF SoloInv
  <2> QED  BY <1>5, <2>1, <2>2, <2>6, <2>7, <2>8, <2>9
<1> QED  BY <1>12, <1>13

\* A node without references is in nobody's use.
LEMMA NoReference ==
  ASSUME TypeOK, OwnInv, NEW n, Referring(n) = 0
  PROVE  Resting(n) = {} /\ \A t \in Threads : Held(t, n) = 0
<1> DEFINE f == [t \in Threads |-> Held(t, n)]
<1>1. /\ IsFiniteSet(Resting(n)) /\ Cardinality(Resting(n)) \in Nat
      /\ SumFunction(f) \in Nat /\ Referring(n) = Cardinality(Resting(n)) + SumFunction(f)
  BY ReferringNat DEF Referring
<1>2. Cardinality(Resting(n)) = 0 /\ SumFunction(f) = 0
  BY <1>1
<1>3. Resting(n) = {}
  BY <1>1, <1>2, FS_EmptySet
<1>4. SumFunction(f) = SumFunctionOnSet(f, Threads) /\ \A t \in Threads : f[t] \in Nat
  BY HeldNat DEF SumFunction
<1>5. ASSUME NEW t \in Threads PROVE Held(t, n) = 0
  <2>1. f[t] = Held(t, n) /\ f[t] \in Nat
    BY <1>4
  <2> HIDE DEF f
  <2>2. f[t] <= SumFunctionOnSet(f, Threads)
    BY <1>4, Finite, SumTerm
  <2> QED  BY <1>2, <1>4, <2>1, <2>2
<1> QED  BY <1>3, <1>5

LEMMA ReduceEraseKeeps ==
  ASSUME ReferenceInv, fate = "ok", NEW t \in Threads, ReduceErase(t)
  PROVE  ReferenceInv'
<1> USE DEF ReferenceInv
<1>1. pc[t] = "erase" /\ next[t] \in {2, 3, 5, 6} /\ CallOK(t)
  BY Positions DEF ReduceErase, Doing, CallInv
<1>2. CASE ~ IsLive(it[t])
  <2>1. Undefined
    BY <1>2 DEF ReduceErase
  <2>2. ~ Solo
    BY <1>1, <1>2 DEF SoloInv, SoloOK
  <2> QED  BY <2>1, <2>2, UndefinedKeeps
<1>3. CASE IsLive(it[t])
  <2>1. it[t].val \in pool /\ it[t] = Node(it[t].val)
    BY <1>3, ValuesOf, LiveNode
  <2>2. PICK u \in pool : u = it[t].val
    BY <2>1
  <2>3. u \in Values /\ it[t] = Node(u) /\ cnt[u] \in Int /\ gen[u] \in Nat
    BY <2>1, <2>2 DEF TypeOK
  <2>4. /\ pool' = pool \ {u}
        /\ gen' = [gen EXCEPT ![u] = @ + 1]
        /\ lostLive' = (lostLive \/ cnt[u] > 0)
        /\ cnt' = [cnt EXCEPT ![u] = 0]
        /\ Advance(t)
        /\ UNCHANGED <<ptr, clusters, job, it, new, fate, owner>>
    BY <1>3, <2>2 DEF ReduceErase
  <2>5. /\ pc' = [pc EXCEPT ![t] = "find"] /\ next' \in [Threads -> 1 .. 8] /\ next'[t] > next[t]
        /\ \A s \in Threads \ {t} : next'[s] = next[s]
        /\ Current(t)'.by # 0 /\ HoldsOn(t)
    BY <1>1, <2>4, AdvanceHeld, AdvanceHoldsOn
  <2>6. pc'[t] = "find" /\ OthersSame(t)
    BY <2>4, <2>5 DEF OthersSame, TypeOK
  <2>7. TypeOK'
    <3>1. pc' \in [Threads -> {"idle", "find", "insert", "count", "test", "erase"}]
      BY <2>5 DEF TypeOK
    <3>2. gen' \in [Values -> Nat] /\ cnt' \in [Values -> Int] /\ lostLive' \in BOOLEAN
      BY <2>3, <2>4 DEF TypeOK
    <3> QED  BY <2>4, <2>5, <3>1, <3>2 DEF TypeOK
  <2>8. OwnInv' /\ ShareInv'
    BY <1>1, <2>4, <2>6, SteadyKeeps
  <2>9. /\ gen'[u] = gen[u] + 1 /\ \A v \in Values \ {u} : gen'[v] = gen[v] /\ cnt'[v] = cnt[v]
        /\ \A v \in Values \ {u} : Node(v)' = Node(v)
    BY <2>3, <2>4 DEF TypeOK, Node
  <2>10. \A n \in Nodes : Known(n) => /\ n.gen <= gen'[n.val]
                                      /\ n.gen = gen'[n.val] => n.val \in pool'
    <3> TAKE n \in Nodes
    <3>1. n.val \in Values /\ n.gen \in Int
      BY DEF Nodes
    <3>2. CASE n.val = u
      BY <2>3, <2>9, <3>1, <3>2 DEF Known
    <3>3. CASE n.val # u
      BY <2>4, <2>9, <3>1, <3>3 DEF Known
    <3> QED  BY <3>2, <3>3
  <2>11. CallInv' /\ KnownInv'
    <3>1. \A s \in Threads \ {t} : (pc[s] # "idle" => CallOK(s))'
      BY <2>4, <2>6, OthersCall DEF CallInv
    <3>2. new[t].val = Union(t) /\ Known(new[t])
      BY <1>1 DEF CallOK, KnownInv, KnownOK
    <3>3. CallOK(t)'
      BY <1>1, <2>4, <2>5, <2>6, <3>2, NextCallOK
    <3>4. KnownOK(t)'
      BY <2>4, <2>6, <2>10, <3>2, ValuesOf DEF KnownOK, Known
    <3>5. ASSUME NEW s \in Threads \ {t} PROVE KnownOK(s)'
      <4>1. pc'[s] = pc[s] /\ next'[s] = next[s] /\ it'[s] = it[s] /\ new'[s] = new[s]
        BY <2>6 DEF OthersSame
      <4>2. KnownOK(s) /\ it[s] \in Nodes /\ new[s] \in Nodes
        BY ValuesOf DEF KnownInv
      <4> QED  BY <2>10, <4>1, <4>2 DEF KnownOK, Known
    <3>6. \A r \in Records : Known(ptr[r])'
      BY <2>4, <2>10 DEF KnownInv, Known, TypeOK
    <3> QED  BY <3>1, <3>3, <3>4, <3>5, <3>6 DEF CallInv, KnownInv
  <2>12. \A n : Referring(n)' = Referring(n)
    <3> TAKE n
    <3>1. Held(t, n)' = Held(t, n) /\ Held(t, n) \in Nat
      BY <1>1, <2>4, <2>5, <2>6, HoldsOnHeld, HeldNat
    <3>2. Resting(n)' = Resting(n)
      BY <2>4, RestingSame
    <3>3. Referring(n)' = Referring(n) - Held(t, n) + Held(t, n)'
      BY <2>6, <2>7, <2>8, <3>2, ReferringStep
    <3>4. Referring(n) \in Nat
      BY ReferringNat
    <3> QED  BY <3>1, <3>3, <3>4
  <2>13. pool' \subseteq Values \ {u} /\ pool' \subseteq pool
    BY <2>4 DEF TypeOK
  <2>14. CountInv'
    BY <2>9, <2>12, <2>13 DEF CountInv
  <2>15. ZeroInv'
    <3> SUFFICES ASSUME NEW v \in pool', cnt'[v] = 0 PROVE \E s \in Threads : Handles(s, Node(v))'
      BY DEF ZeroInv
    <3>1. PICK s \in Threads : Handles(s, Node(v))
      BY <2>9, <2>13 DEF ZeroInv
    <3>2. s # t
      <4>1. Node(v) # Node(u)
        BY <2>13, SameNode
      <4> QED  BY <2>3, <3>1, <4>1 DEF Handles
    <3>3. Node(v)' = Node(v)
      BY <2>9, <2>13
    <3>4. Handles(s, Node(v))'
      BY <2>6, <3>1, <3>2, <3>3 DEF Handles, OthersSame
    <3> QED  BY <3>4
  <2>16. LiveInv'
    <3> SUFFICES ASSUME ~ lostLive' PROVE /\ \A r \in Free' : IsLive(ptr[r])'
                                          /\ \A s \in Threads : pc'[s] # "idle" => LiveOK(s)'
      BY DEF LiveInv
    <3>1. ~ lostLive /\ Referring(Node(u)) = 0
      <4>1. ~ lostLive /\ ~ (cnt[u] > 0)
        BY <2>4
      <4>2. cnt[u] = Referring(Node(u)) /\ Referring(Node(u)) \in Nat
        BY ReferringNat DEF CountInv
      <4> QED  BY <4>1, <4>2
    <3>2. Resting(Node(u)) = {} /\ \A s \in Threads : Held(s, Node(u)) = 0
      BY <3>1, NoReference
    <3>3. \A n \in Nodes : IsLive(n) /\ n # Node(u) => n.val \in pool' /\ n.gen = gen'[n.val]
      <4> SUFFICES ASSUME NEW n \in Nodes, IsLive(n), n # Node(u)
                   PROVE  n.val \in pool' /\ n.gen = gen'[n.val]
        OBVIOUS
      <4>1. n.val \in pool /\ n.val # u /\ n.val \in Values
        BY LiveNode DEF Nodes
      <4> QED  BY <2>4, <2>9, <4>1 DEF IsLive
    <3>4. ASSUME NEW r \in Free' PROVE IsLive(ptr[r])'
      <4>1. r \in Free /\ ptr'[r] = ptr[r] /\ ptr[r] \in Nodes
        BY <2>4, RestingSame DEF Free, TypeOK
      <4>2. ptr[r] # Node(u)
        BY <3>2, <4>1 DEF Resting
      <4> QED  BY <3>1, <3>3, <4>1, <4>2 DEF LiveInv, IsLive
    <3>5. ASSUME NEW s \in Threads, pc'[s] # "idle" PROVE LiveOK(s)'
      <4>1. /\ pc[s] # "idle" /\ job'[s] = job[s] /\ new'[s] = new[s]
            /\ HeldA(s)' = HeldA(s) /\ HeldB(s)' = HeldB(s) /\ HeldNew(s)' = HeldNew(s)
        <5>1. CASE s = t
          BY <1>1, <2>4, <2>5, <5>1 DEF HoldsOn
        <5>2. CASE s # t
          <6>1. pc'[s] = pc[s] /\ next'[s] = next[s] /\ job'[s] = job[s] /\ new'[s] = new[s]
            BY <2>6, <5>2 DEF OthersSame
          <6> QED  BY <3>5, <6>1, HeldSame
        <5> QED  BY <5>1, <5>2
      <4>2. LiveOK(s)
        BY <3>1, <4>1 DEF LiveInv
      <4>3. HeldA(s) \in Nat /\ HeldB(s) \in Nat /\ HeldNew(s) \in Nat
        BY <4>1, HeldNat
      <4>4. Held(s, Node(u)) = 0
        BY <3>2
      <4>5. /\ HeldA(s) > 0 => job[s].a # Node(u)
            /\ HeldB(s) > 0 => job[s].b # Node(u)
            /\ HeldNew(s) > 0 => new[s] # Node(u)
        BY <4>1, <4>3, <4>4 DEF Held
      <4>6. job[s].a \in Nodes /\ job[s].b \in Nodes /\ new[s] \in Nodes
        BY ValuesOf
      <4> QED  BY <3>3, <4>1, <4>2, <4>5, <4>6 DEF LiveOK, IsLive
    <3> QED  BY <3>4, <3>5
  <2>17. SoloInv'
    <3>1. Solo' = Solo
      BY <2>4 DEF Solo
    <3>2. Solo => \A s \in Threads \ {t} : pc'[s] = "idle"
      BY <1>1, <2>6, SoloOthersIdle DEF OthersSame
    <3>3. Solo => \A s \in Threads : SoloOK(s)'
      BY <2>6, <3>2 DEF SoloOK
    <3>4. Solo => ~ lostLive'
      <4>1. Solo => ~ lostLive /\ cnt[u] <= 0
        BY <1>1, <2>2 DEF SoloInv, SoloOK
      <4>2. cnt[u] <= 0 => ~ (cnt[u] > 0)
        BY <2>3
      <4> QED  BY <2>4, <4>1, <4>2
    <3> QED  BY <2>4, <3>1, <3>3, <3>4 DEF SoloInv
  <2> QED  BY <2>7, <2>8, <2>11, <2>14, <2>15, <2>16, <2>17
<1> QED  BY <1>2, <1>3

-----------------------------------------------------------------------------
(* A merge takes over the references of its records, and returns them.     *)

\* A reference count changes with what the thread holds and what rests.
LEMMA ReferringMove ==
  ASSUME TypeOK, OwnInv, TypeOK', OwnInv', NEW t \in Threads, OthersSame(t), NEW n,
         Cardinality(Resting(n)') + Held(t, n)' = Cardinality(Resting(n)) + Held(t, n),
         Cardinality(Resting(n)') \in Nat
  PROVE  Referring(n)' = Referring(n)
<1> DEFINE f == [s \in Threads |-> Held(s, n)]
           g == [s \in Threads |-> Held(s, n)']
<1>1. \A s \in Threads : f[s] \in Int /\ g[s] \in Int
  <2>1. \A s \in Threads : Held(s, n) \in Nat
    BY HeldNat
  <2>2. (TypeOK /\ OwnInv => \A s \in Threads : \A h : Held(s, h) \in Nat)'
    BY HeldNatsNext
  <2> QED  BY <2>1, <2>2
<1>2. \A s \in Threads \ {t} : g[s] = f[s]
  BY HeldSame DEF OthersSame
<1>3. SumFunction(f) = SumFunctionOnSet(f, Threads) /\ SumFunction(f)' = SumFunctionOnSet(g, Threads)
  BY DEF SumFunction
<1>4. f[t] = Held(t, n) /\ g[t] = Held(t, n)'
  OBVIOUS
<1>5. Referring(n) = Cardinality(Resting(n)) + SumFunction(f)
      /\ Referring(n)' = Cardinality(Resting(n)') + SumFunction(f)'
  BY DEF Referring
<1>6. Cardinality(Resting(n)) \in Nat /\ SumFunction(f) \in Nat
  BY ReferringNat
<1> HIDE DEF f, g
<1>7. SumFunctionOnSet(g, Threads) = SumFunctionOnSet(f, Threads) - f[t] + g[t]
  BY <1>1, <1>2, Finite, SumChange
<1>8. f[t] \in Int /\ g[t] \in Int
  BY <1>1
<1> QED  BY <1>3, <1>4, <1>5, <1>6, <1>7, <1>8

\* What a thread holds at the start of a merge and before its last call.
LEMMA HeldAtEnds ==
  ASSUME NEW t, pc[t] = "find", NEW m \in Nat, NEW n \in Nat,
         m = Cardinality(job[t].l1), n = Cardinality(job[t].l2)
  PROVE  /\ next[t] = 1 => HeldA(t) = m /\ HeldB(t) = n /\ HeldNew(t) = 0
         /\ next[t] = 8 => HeldA(t) = 0 /\ HeldB(t) = 0 /\ HeldNew(t) = m + n
<1>1. /\ next[t] = 1 => \A i \in {1, 2, 3, 5, 6, 7} : i \in Ahead(t)
      /\ next[t] = 8 => \A i \in {1, 2, 3, 5, 6, 7} : i \notin Ahead(t)
  BY DEF Ahead
<1> QED  BY <1>1 DEF HeldA, HeldB, HeldNew

LEMMA HeldAtEndsNext ==
  (\A t \in Threads : \A m, n \in Nat :
     pc[t] = "find" /\ m = Cardinality(job[t].l1) /\ n = Cardinality(job[t].l2) =>
       /\ next[t] = 1 => HeldA(t) = m /\ HeldB(t) = n /\ HeldNew(t) = 0
       /\ next[t] = 8 => HeldA(t) = 0 /\ HeldB(t) = 0 /\ HeldNew(t) = m + n)'
<1>1. \A t \in Threads : \A m, n \in Nat :
        pc[t] = "find" /\ m = Cardinality(job[t].l1) /\ n = Cardinality(job[t].l2) =>
          /\ next[t] = 1 => HeldA(t) = m /\ HeldB(t) = n /\ HeldNew(t) = 0
          /\ next[t] = 8 => HeldA(t) = 0 /\ HeldB(t) = 0 /\ HeldNew(t) = m + n
  BY HeldAtEnds
<1> QED  BY <1>1, PTL

\* An idle thread's clusters are nobody's merge.
LEMMA OwnIsFree ==
  ASSUME TypeOK, OwnInv, NEW t \in Threads, pc[t] = "idle", NEW c \in Own(t)
  PROVE  c \subseteq Free
<1> SUFFICES ASSUME NEW r \in c, NEW s \in Threads, r \in Members(s) PROVE FALSE
  BY DEF Free, Own, TypeOK
<1>1. owner[r] = t
  BY DEF Own
<1>2. pc[s] # "idle"
  BY IdleHasNone
<1>3. owner[r] = s
  BY <1>2, JobSizes
<1> QED  BY <1>1, <1>2, <1>3

LEMMA StartMergeKeeps ==
  ASSUME ReferenceInv, fate = "ok", NEW t \in Threads, StartMerge(t)
  PROVE  ReferenceInv'
<1> USE DEF ReferenceInv
<1>1. pc[t] = "idle"
  BY DEF StartMerge
<1>2. PICK c1 \in Own(t) : \E c2 \in Own(t) \ {c1} : \E r1 \in c1, r2 \in c2 :
       IF ~IsLive(ptr[r1]) \/ ~IsLive(ptr[r2])
       THEN Undefined
       ELSE /\ job' = [job EXCEPT ![t] = [l1 |-> c1, l2 |-> c2, a |-> ptr[r1], b |-> ptr[r2]]]
            /\ next' = [next EXCEPT ![t] = 1]
            /\ pc' = [pc EXCEPT ![t] = "find"]
            /\ UNCHANGED <<pool, gen, cnt, ptr, clusters, it, new, fate, owner, lostLive>>
  BY DEF StartMerge
<1>3. PICK c2 \in Own(t) \ {c1} : \E r1 \in c1, r2 \in c2 :
       IF ~IsLive(ptr[r1]) \/ ~IsLive(ptr[r2])
       THEN Undefined
       ELSE /\ job' = [job EXCEPT ![t] = [l1 |-> c1, l2 |-> c2, a |-> ptr[r1], b |-> ptr[r2]]]
            /\ next' = [next EXCEPT ![t] = 1]
            /\ pc' = [pc EXCEPT ![t] = "find"]
            /\ UNCHANGED <<pool, gen, cnt, ptr, clusters, it, new, fate, owner, lostLive>>
  BY <1>2
<1>4. PICK r1 \in c1, r2 \in c2 :
       IF ~IsLive(ptr[r1]) \/ ~IsLive(ptr[r2])
       THEN Undefined
       ELSE /\ job' = [job EXCEPT ![t] = [l1 |-> c1, l2 |-> c2, a |-> ptr[r1], b |-> ptr[r2]]]
            /\ next' = [next EXCEPT ![t] = 1]
            /\ pc' = [pc EXCEPT ![t] = "find"]
            /\ UNCHANGED <<pool, gen, cnt, ptr, clusters, it, new, fate, owner, lostLive>>
  BY <1>3
<1>5. /\ c1 \in clusters /\ c2 \in clusters /\ c1 # c2 /\ c1 \cap c2 = {}
      /\ c1 \subseteq Free /\ c2 \subseteq Free /\ c1 \subseteq Records /\ c2 \subseteq Records
  BY <1>1, OwnIsFree DEF Own, OwnInv, TypeOK
<1>6. CASE ~IsLive(ptr[r1]) \/ ~IsLive(ptr[r2])
  <2>1. ~ Solo
    BY <1>5, <1>6 DEF SoloInv, LiveInv
  <2> QED  BY <1>4, <1>6, <2>1, UndefinedKeeps
<1>7. CASE ~ (~IsLive(ptr[r1]) \/ ~IsLive(ptr[r2]))
  <2> DEFINE a == ptr[r1]
             b == ptr[r2]
             j == [l1 |-> c1, l2 |-> c2, a |-> a, b |-> b]
  <2>1. /\ job' = [job EXCEPT ![t] = j]
        /\ next' = [next EXCEPT ![t] = 1]
        /\ pc' = [pc EXCEPT ![t] = "find"]
        /\ UNCHANGED <<pool, gen, cnt, ptr, clusters, it, new, fate, owner, lostLive>>
    BY <1>4, <1>7
  <2>2. a \in Nodes /\ b \in Nodes /\ IsLive(a) /\ IsLive(b)
    BY <1>5, <1>7 DEF TypeOK
  <2>3. j \in [l1 : SUBSET Records, l2 : SUBSET Records, a : Nodes, b : Nodes]
    BY <1>5, <2>2
  <2>4. j.l1 = c1 /\ j.l2 = c2 /\ j.a = a /\ j.b = b
    OBVIOUS
  <2>5. (\A r \in c1 : ptr[r] = a) /\ (\A r \in c2 : ptr[r] = b)
    BY <1>5 DEF ShareInv
  <2> HIDE DEF a, b, j
  <2>6. TypeOK'
    BY <2>1, <2>3 DEF TypeOK
  <2>7. OthersSame(t) /\ pc'[t] = "find" /\ next'[t] = 1 /\ job'[t] = j
    BY <2>1 DEF OthersSame, TypeOK
  <2>8. OwnInv'
    <3>1. \A s \in Threads : Own(s)' = Own(s)
      BY <2>1 DEF Own
    <3>2. \A s \in Threads \ {t} : pc'[s] = pc[s] /\ job'[s] = job[s]
      BY <2>7 DEF OthersSame
    <3>3. job'[t].l1 \in Own(t) /\ job'[t].l2 \in Own(t) /\ job'[t].l1 # job'[t].l2
      BY <1>5, <2>4, <2>7
    <3> QED  BY <2>1, <2>7, <3>1, <3>2, <3>3 DEF OwnInv
  <2>9. ShareInv'
    BY <2>1 DEF ShareInv
  <2>10. CallInv'
    <3>1. \A s \in Threads \ {t} : (pc[s] # "idle" => CallOK(s))'
      BY <2>1, <2>7, OthersCall DEF CallInv
    <3>2. Current(t)'.by # 0
      <4>1. Calls(j)[1] = Call("add", j.a.val \cup j.b.val, 2, Nowhere)
        BY CallTable
      <4>2. Calls(j)[1].by = 2
        BY <4>1, CallFields
      <4> QED  BY <2>7, <4>2 DEF Current
    <3>3. ~ (next'[t] > 1)
      BY <2>7
    <3>4. CallOK(t)'
      BY <2>1, <2>4, <2>5, <2>7, <3>2, <3>3 DEF CallOK
    <3> QED  BY <3>1, <3>4 DEF CallInv
  <2>11. KnownInv'
    <3>1. \A s \in Threads \ {t} : KnownOK(s)'
      BY <2>1, <2>6, <2>7, OthersKeep DEF KnownInv
    <3>2. KnownOK(t)'
      BY <2>7 DEF KnownOK
    <3>3. \A r \in Records : Known(ptr[r])'
      BY <2>1 DEF KnownInv, Known
    <3> QED  BY <3>1, <3>2, <3>3 DEF KnownInv
  <2>12. Free' = Free \ (c1 \cup c2)
    <3>1. \A s \in Threads \ {t} : Members(s)' = Members(s)
      BY <2>7 DEF OthersSame, Members
    <3>2. Members(t)' = c1 \cup c2 /\ Members(t) = {}
      BY <1>1, <2>4, <2>7, IdleHasNone DEF Members
    <3> QED  BY <3>1, <3>2 DEF Free
  <2>13. /\ IsFiniteSet(c1) /\ IsFiniteSet(c2)
         /\ Cardinality(c1) \in Nat \ {0} /\ Cardinality(c2) \in Nat \ {0}
    BY <1>5, Finite, FS_Subset, FS_CardinalityType, FS_EmptySet
  <2>14. HeldA(t)' = Cardinality(c1) /\ HeldB(t)' = Cardinality(c2) /\ HeldNew(t)' = 0
    BY <2>4, <2>7, <2>13, HeldAtEndsNext
  <2>15. \A n : Referring(n)' = Referring(n)
    <3> TAKE n
    <3> DEFINE A == IF a = n THEN c1 ELSE {}
               B == IF b = n THEN c2 ELSE {}
               R == Resting(n)
               Q == R \ (A \cup B)
    <3>1. R = (Q \cup A) \cup B /\ Q \cap A = {} /\ (Q \cup A) \cap B = {}
      BY <1>5, <2>5 DEF Resting
    <3>2. Resting(n)' = Q
      BY <2>1, <2>5, <2>12 DEF Resting
    <3>3. IsFiniteSet(R)
      BY ReferringNat
    <3>4. /\ Cardinality(A) = (IF a = n THEN Cardinality(c1) ELSE 0)
          /\ Cardinality(B) = (IF b = n THEN Cardinality(c2) ELSE 0)
      BY FS_EmptySet
    <3>5. Held(t, n) = 0 /\ Held(t, n)' = Cardinality(A) + Cardinality(B)
      BY <1>1, <2>4, <2>7, <2>13, <2>14, <3>4 DEF Held
    <3> HIDE DEF A, B, R
    <3>6. /\ IsFiniteSet(Q) /\ IsFiniteSet(A) /\ IsFiniteSet(B) /\ IsFiniteSet(Q \cup A)
      BY <3>1, <3>3, FS_Subset
    <3> HIDE DEF Q
    <3>7. /\ Cardinality(Q \cup A) = Cardinality(Q) + Cardinality(A)
          /\ Cardinality((Q \cup A) \cup B) = Cardinality(Q \cup A) + Cardinality(B)
      BY <3>1, <3>6, DisjointUnion
    <3>8. Cardinality(Q) \in Nat /\ Cardinality(A) \in Nat /\ Cardinality(B) \in Nat
      BY <3>6, FS_CardinalityType
    <3>9. Cardinality(Resting(n)') + Held(t, n)' = Cardinality(Resting(n)) + Held(t, n)
      BY <3>1, <3>2, <3>5, <3>7, <3>8 DEF R
    <3> QED  BY <2>6, <2>7, <2>8, <3>2, <3>8, <3>9, ReferringMove
  <2>16. CountInv'
    BY <2>1, <2>15 DEF CountInv, Node
  <2>17. ZeroInv'
    <3> SUFFICES ASSUME NEW v \in pool, cnt[v] = 0 PROVE \E s \in Threads : Handles(s, Node(v))'
      BY <2>1 DEF ZeroInv
    <3>1. PICK s \in Threads : Handles(s, Node(v))
      BY DEF ZeroInv
    <3>2. s # t
      BY <1>1, <3>1 DEF Handles
    <3>3. Node(v)' = Node(v)
      BY <2>1 DEF Node
    <3>4. Handles(s, Node(v))'
      BY <2>7, <3>1, <3>2, <3>3 DEF Handles, OthersSame
    <3> QED  BY <3>4
  <2>18. LiveInv'
    <3>1. \A s \in Threads \ {t} : (pc[s] # "idle" => LiveOK(s)) => (pc[s] # "idle" => LiveOK(s))'
      BY <2>1, <2>6, <2>7, OthersKeep
    <3>2. LiveOK(t)'
      BY <2>1, <2>2, <2>4, <2>7, <2>14 DEF LiveOK, IsLive
    <3> QED  BY <2>1, <2>12, <3>1, <3>2 DEF LiveInv, IsLive
  <2>19. SoloInv'
    <3>1. Solo' = Solo
      BY <2>1 DEF Solo
    <3>2. \A s \in Threads \ {t} : SoloOK(s) => SoloOK(s)'
      BY <2>1, <2>7 DEF SoloOK, IsLive, OthersSame
    <3>3. SoloOK(t)'
      BY <2>7 DEF SoloOK
    <3> QED  BY <2>1, <3>1, <3>2, <3>3 DEF SoloInv
  <2> QED  BY <2>6, <2>8, <2>9, <2>10, <2>11, <2>16, <2>17, <2>18, <2>19
<1> QED  BY <1>6, <1>7

\* Both clusters get the entry of the union and become one.
LEMMA SetPointersKeeps ==
  ASSUME ReferenceInv, fate = "ok", NEW t \in Threads, SetPointers(t)
  PROVE  ReferenceInv'
<1> USE DEF ReferenceInv
<1> DEFINE l1 == job[t].l1
           l2 == job[t].l2
           M == Members(t)
           u == new[t]
<1>1. pc[t] = "find" /\ next[t] = 8 /\ CallOK(t)
  BY Positions DEF SetPointers, Doing, CallInv
<1>2. /\ ptr' = [r \in Records |-> IF r \in M THEN u ELSE ptr[r]]
      /\ clusters' = (clusters \ {l1, l2}) \cup {M}
      /\ job' = [job EXCEPT ![t] = NoJob]
      /\ pc' = [pc EXCEPT ![t] = "idle"]
      /\ UNCHANGED <<next, pool, gen, cnt, it, new, fate, owner, lostLive>>
  BY DEF SetPointers, Goto, Members
<1>3. /\ M = l1 \cup l2 /\ l1 \in clusters /\ l2 \in clusters /\ l1 # {} /\ l2 # {}
      /\ l1 \cap l2 = {} /\ IsFiniteSet(l1) /\ IsFiniteSet(l2)
      /\ Cardinality(l1) \in Nat /\ Cardinality(l2) \in Nat
      /\ M \subseteq Records /\ \A r \in M : owner[r] = t
  BY <1>1, JobSizes DEF Members
<1>4. u \in Nodes /\ Known(u)
  BY <1>1, ValuesOf DEF KnownInv, KnownOK
<1>5. HeldA(t) = 0 /\ HeldB(t) = 0 /\ HeldNew(t) = Cardinality(l1) + Cardinality(l2)
  BY <1>1, <1>3, HeldAtEnds
<1>6. IsFiniteSet(M) /\ Cardinality(M) = Cardinality(l1) + Cardinality(l2) /\ Cardinality(M) \in Nat
  <2> HIDE DEF M, l1, l2
  <2>1. IsFiniteSet(M) /\ Cardinality(M) = Cardinality(l1) + Cardinality(l2)
    BY <1>3, DisjointUnion, FS_Union
  <2> QED  BY <1>3, <2>1
<1>7. \A s \in Threads \ {t} : Members(s) \cap M = {}
  BY MembersApart
<1> HIDE DEF l1, l2, M, u
<1>8. OthersSame(t) /\ pc'[t] = "idle" /\ job'[t] = NoJob
  BY <1>2 DEF OthersSame, TypeOK
<1>9. /\ \A r \in Records \ M : ptr'[r] = ptr[r]
      /\ \A r \in M : ptr'[r] = u
  BY <1>2, <1>3
<1>10. TypeOK'
  <2>1. NoJob \in [l1 : SUBSET Records, l2 : SUBSET Records, a : Nodes, b : Nodes]
    BY NowhereIsNode DEF NoJob
  <2>2. ptr' \in [Records -> Nodes]
    BY <1>2, <1>4 DEF TypeOK
  <2>3. clusters' \subseteq SUBSET Records
    BY <1>2, <1>3 DEF TypeOK
  <2>4. job' \in [Threads -> [l1 : SUBSET Records, l2 : SUBSET Records, a : Nodes, b : Nodes]]
    BY <1>2, <2>1 DEF TypeOK
  <2>5. pc' \in [Threads -> {"idle", "find", "insert", "count", "test", "erase"}]
    BY <1>2 DEF TypeOK
  <2> QED  BY <1>2, <2>2, <2>3, <2>4, <2>5 DEF TypeOK
<1>11. \A c \in clusters' : c # M => c \in clusters /\ c # l1 /\ c # l2 /\ c \cap M = {}
  BY <1>2, <1>3 DEF OwnInv
<1>12. OwnInv'
  <2>1. {} \notin clusters'
    BY <1>2, <1>3 DEF OwnInv
  <2>2. \A c, d \in clusters' : c # d => c \cap d = {}
    BY <1>11 DEF OwnInv
  <2>3. ASSUME NEW s \in Threads \ {t}, pc[s] # "idle"
        PROVE  /\ job[s].l1 \in Own(s)' /\ job[s].l2 \in Own(s)' /\ job[s].l1 # job[s].l2
    <3>1. /\ job[s].l1 \in Own(s) /\ job[s].l2 \in Own(s) /\ job[s].l1 # job[s].l2
          /\ job[s].l1 # {} /\ job[s].l2 # {}
      BY <2>3, JobSizes DEF OwnInv
    <3>2. ASSUME NEW c \in Own(s), c # {} PROVE c \in Own(s)'
      <4>1. c # l1 /\ c # l2
        BY <1>3, <3>2 DEF Own
      <4> QED  BY <1>2, <4>1 DEF Own
    <3> QED  BY <3>1, <3>2
  <2>4. ASSUME NEW s \in Threads
        PROVE  IF pc'[s] = "idle" THEN job'[s] = NoJob
               ELSE job'[s].l1 \in Own(s)' /\ job'[s].l2 \in Own(s)' /\ job'[s].l1 # job'[s].l2
    <3>1. CASE s = t
      BY <1>8, <3>1
    <3>2. CASE s # t
      <4>1. pc'[s] = pc[s] /\ job'[s] = job[s]
        BY <1>8, <3>2 DEF OthersSame
      <4> QED  BY <2>3, <3>2, <4>1 DEF OwnInv
    <3> QED  BY <3>1, <3>2
  <2> QED  BY <2>1, <2>2, <2>4 DEF OwnInv
<1>13. ShareInv'
  <2> SUFFICES ASSUME NEW c \in clusters', NEW r \in c, NEW s \in c PROVE ptr'[r] = ptr'[s]
    BY DEF ShareInv
  <2>1. CASE c = M
    BY <1>9, <2>1
  <2>2. CASE c # M
    <3>1. c \in clusters /\ c \cap M = {} /\ r \in Records /\ s \in Records
      BY <1>11, <2>2 DEF TypeOK
    <3> QED  BY <1>9, <3>1 DEF ShareInv
  <2> QED  BY <2>1, <2>2
<1>14. CallInv'
  <2> SUFFICES ASSUME NEW s \in Threads, pc'[s] # "idle" PROVE CallOK(s)'
    BY DEF CallInv
  <2>1. s # t
    BY <1>8
  <2>2. pc'[s] = pc[s] /\ next'[s] = next[s] /\ job'[s] = job[s] /\ it'[s] = it[s] /\ new'[s] = new[s]
    BY <1>8, <2>1 DEF OthersSame
  <2>3. \A r \in Members(s) : ptr'[r] = ptr[r]
    BY <1>7, <1>9, <2>1, <2>2, JobSizes
  <2>4. CallOK(s)
    BY <2>2 DEF CallInv
  <2> QED  BY <2>2, <2>3, <2>4 DEF CallOK, Members, Current, Union
<1>15. KnownInv'
  <2>1. ASSUME NEW s \in Threads PROVE KnownOK(s)'
    <3>1. CASE s = t
      BY <1>8, <3>1 DEF KnownOK
    <3>2. CASE s # t
      <4>1. pc'[s] = pc[s] /\ next'[s] = next[s] /\ it'[s] = it[s] /\ new'[s] = new[s]
        BY <1>8, <3>2 DEF OthersSame
      <4> QED  BY <1>2, <4>1 DEF KnownInv, KnownOK, Known
    <3> QED  BY <3>1, <3>2
  <2>2. ASSUME NEW r \in Records PROVE Known(ptr[r])'
    <3>1. ptr'[r] = ptr[r] \/ ptr'[r] = u
      BY <1>9
    <3> QED  BY <1>2, <1>4, <3>1 DEF KnownInv, Known
  <2> QED  BY <2>1, <2>2 DEF KnownInv
<1>16. Free' = Free \cup M /\ Free \cap M = {}
  <2>1. \A s \in Threads \ {t} : Members(s)' = Members(s)
    BY <1>8 DEF OthersSame, Members
  <2>2. Members(t)' = {}
    BY <1>8 DEF Members, NoJob
  <2>3. Members(t) = M
    BY DEF M
  <2> QED  BY <1>3, <1>7, <2>1, <2>2, <2>3 DEF Free
<1>17. \A n : Referring(n)' = Referring(n)
  <2> TAKE n
  <2> DEFINE A == IF u = n THEN M ELSE {}
             R == Resting(n)
  <2>1. Free \subseteq Records
    BY DEF Free
  <2>2. Resting(n)' = R \cup A /\ R \cap A = {}
    BY <1>9, <1>16, <2>1 DEF Resting
  <2>3. Cardinality(A) = (IF u = n THEN Cardinality(M) ELSE 0) /\ IsFiniteSet(A)
    BY <1>6, FS_EmptySet
  <2>4. Held(t, n)' = 0 /\ Held(t, n) = Cardinality(A)
    BY <1>1, <1>5, <1>6, <1>8, <2>3 DEF Held, u
  <2>5. IsFiniteSet(R) /\ Cardinality(R) \in Nat /\ Cardinality(A) \in Nat
    BY <2>3, ReferringNat, FS_CardinalityType
  <2> HIDE DEF A, R
  <2>6. Cardinality(R \cup A) = Cardinality(R) + Cardinality(A)
    BY <2>2, <2>3, <2>5, DisjointUnion
  <2>7. /\ Cardinality(Resting(n)') + Held(t, n)' = Cardinality(Resting(n)) + Held(t, n)
        /\ Cardinality(Resting(n)') \in Nat
    BY <2>2, <2>4, <2>5, <2>6 DEF R
  <2> QED  BY <1>8, <1>10, <1>12, <2>7, ReferringMove
<1>18. CountInv'
  BY <1>2, <1>17 DEF CountInv, Node
<1>19. ZeroInv'
  <2> SUFFICES ASSUME NEW v \in pool, cnt[v] = 0 PROVE \E s \in Threads : Handles(s, Node(v))'
    BY <1>2 DEF ZeroInv
  <2>1. PICK s \in Threads : Handles(s, Node(v))
    BY DEF ZeroInv
  <2>2. s # t
    BY <1>1, <2>1 DEF Handles
  <2>3. Node(v)' = Node(v)
    BY <1>2 DEF Node
  <2>4. Handles(s, Node(v))'
    BY <1>8, <2>1, <2>2, <2>3 DEF Handles, OthersSame
  <2> QED  BY <2>4
<1>20. LiveInv'
  <2> SUFFICES ASSUME ~ lostLive PROVE /\ \A r \in Free' : IsLive(ptr[r])'
                                       /\ \A s \in Threads : pc'[s] # "idle" => LiveOK(s)'
    BY <1>2 DEF LiveInv
  <2>1. IsLive(u)
    <3>1. HeldNew(t) > 0
      BY <1>1, StillHeld
    <3> QED  BY <1>1, <3>1 DEF LiveInv, LiveOK, u
  <2>2. ASSUME NEW r \in Free' PROVE IsLive(ptr[r])'
    <3>1. r \in M \/ r \in Free \ M
      BY <1>16
    <3>2. r \in M => ptr'[r] = u
      BY <1>9
    <3>3. r \in Free \ M => ptr'[r] = ptr[r] /\ IsLive(ptr[r])
      BY <1>9 DEF LiveInv, Free
    <3> QED  BY <1>2, <2>1, <3>1, <3>2, <3>3 DEF IsLive
  <2>3. ASSUME NEW s \in Threads, pc'[s] # "idle" PROVE LiveOK(s)'
    <3>1. s # t
      BY <1>8, <2>3
    <3>2. pc'[s] = pc[s] /\ next'[s] = next[s] /\ job'[s] = job[s] /\ new'[s] = new[s]
      BY <1>8, <3>1 DEF OthersSame
    <3>3. LiveOK(s)
      BY <2>3, <3>2 DEF LiveInv
    <3> QED  BY <1>2, <3>2, <3>3, HeldSame DEF LiveOK, IsLive
  <2> QED  BY <2>2, <2>3
<1>21. SoloInv'
  <2>1. Solo' = Solo
    BY <1>2 DEF Solo
  <2>2. \A s \in Threads \ {t} : SoloOK(s) => SoloOK(s)'
    BY <1>2, <1>8 DEF SoloOK, IsLive, OthersSame
  <2>3. SoloOK(t)'
    BY <1>8 DEF SoloOK
  <2> QED  BY <1>2, <2>1, <2>2, <2>3 DEF SoloInv
<1> QED  BY <1>10, <1>12, <1>13, <1>14, <1>15, <1>18, <1>19, <1>20, <1>21

\* Between rounds no entry is without references: the clean-up finds nothing.
LEMMA CleanPoolKeeps == ASSUME ReferenceInv, CleanPool PROVE UNCHANGED vars
<1> USE DEF ReferenceInv
<1>1. Idle
  BY DEF CleanPool
<1>2. \A v \in pool : cnt[v] \in Nat /\ cnt[v] # 0
  <2> TAKE v \in pool
  <2>1. cnt[v] \in Nat
    BY ReferringNat DEF CountInv
  <2>2. cnt[v] # 0
    BY <1>1 DEF ZeroInv, Handles, Idle
  <2> QED  BY <2>1, <2>2
<1>3. ~ \E v \in pool : cnt[v] < 0
  BY <1>2
<1>4. /\ pool' = {v \in pool : cnt[v] # 0}
      /\ gen' = [v \in Values |-> IF v \in pool /\ cnt[v] = 0 THEN gen[v] + 1 ELSE gen[v]]
      /\ UNCHANGED <<fate, cnt, ptr, clusters, job, next, pc, it, new, owner, lostLive>>
  BY <1>3 DEF CleanPool
<1>5. pool' = pool
  BY <1>2, <1>4
<1>6. gen' = gen
  BY <1>2, <1>4 DEF TypeOK
<1> QED  BY <1>4, <1>5, <1>6 DEF vars

LEMMA SameKeeps == ASSUME ReferenceInv, UNCHANGED vars PROVE ReferenceInv'
<1> USE DEF ReferenceInv, vars
<1>1. TypeOK'
  BY DEF TypeOK
<1>2. (OwnInv /\ ShareInv /\ CallInv /\ KnownInv /\ CountInv /\ ZeroInv /\ LiveInv)'
  BY SameState
<1>3. SoloInv'
  BY DEF SoloInv, Solo, SoloOK, IsLive
<1> QED  BY <1>1, <1>2, <1>3

-----------------------------------------------------------------------------
(* The invariant.                                                          *)

LEMMA ReferenceInit == ASSUME Init PROVE ReferenceInv
<1>1. PICK a \in [Records -> StartSets] :
       /\ ptr = [r \in Records |-> [val |-> a[r], gen |-> 0]]
       /\ pool = {a[r] : r \in Records}
       /\ cnt = [v \in Values |-> Cardinality({r \in Records : a[r] = v})]
  BY DEF Init
<1>2. /\ gen = [v \in Values |-> 0]
      /\ clusters = {{r} : r \in Records}
      /\ job = [t \in Threads |-> NoJob]
      /\ next = [t \in Threads |-> 1]
      /\ pc = [t \in Threads |-> "idle"]
      /\ it = [t \in Threads |-> Nowhere]
      /\ new = [t \in Threads |-> Nowhere]
      /\ fate = "ok" /\ owner \in Owners /\ lostLive = FALSE
  BY DEF Init
<1>3. \A r \in Records : a[r] \in Values
  BY AttribPoolAssumption
<1>4. \A v \in Values : IsFiniteSet({r \in Records : a[r] = v})
                        /\ Cardinality({r \in Records : a[r] = v}) \in Nat
  BY Finite, FS_Subset, FS_CardinalityType
<1>5. TypeOK
  <2> DEFINE count == [v \in Values |-> Cardinality({r \in Records : a[r] = v})]
  <2>1. cnt \in [Values -> Int] /\ gen \in [Values -> Nat]
    <3>1. \A v \in Values : count[v] \in Int
      BY <1>4
    <3>2. cnt = count
      BY <1>1
    <3> QED  BY <1>2, <3>1, <3>2
  <2>2. ptr \in [Records -> Nodes]
    BY <1>1, <1>3 DEF Nodes
  <2>3. NoJob \in [l1 : SUBSET Records, l2 : SUBSET Records, a : Nodes, b : Nodes]
    BY NowhereIsNode DEF NoJob
  <2>4. clusters \subseteq SUBSET Records
    BY <1>2
  <2>5. pool \subseteq Values
    BY <1>1, <1>3
  <2>6. /\ job \in [Threads -> [l1 : SUBSET Records, l2 : SUBSET Records, a : Nodes, b : Nodes]]
        /\ it \in [Threads -> Nodes] /\ new \in [Threads -> Nodes]
    BY <1>2, <2>3, NowhereIsNode
  <2>7. next \in [Threads -> 1 .. 8]
    BY <1>2
  <2>8. pc \in [Threads -> {"idle", "find", "insert", "count", "test", "erase"}]
    BY <1>2
  <2>9. fate \in {"ok", "undefined", "thrown"} /\ owner \in Owners
    BY <1>2
  <2>10. lostLive \in BOOLEAN
    BY <1>2
  <2> QED  BY <2>1, <2>2, <2>4, <2>5, <2>6, <2>7, <2>8, <2>9, <2>10 DEF TypeOK
<1>6. OwnInv /\ ShareInv
  BY <1>2 DEF OwnInv, ShareInv
<1>7. \A v \in Values : Node(v) = [val |-> v, gen |-> 0]
  BY <1>2 DEF Node
<1>8. \A r \in Records : IsLive(ptr[r]) /\ Known(ptr[r])
  <2> TAKE r \in Records
  <2>1. ptr[r].val = a[r] /\ ptr[r].gen = 0
    BY <1>1
  <2> QED  BY <1>1, <1>2, <1>3, <2>1 DEF IsLive, Known
<1>9. CallInv /\ KnownInv
  BY <1>2, <1>8 DEF CallInv, KnownInv, KnownOK
<1>10. Free = Records
  BY <1>2 DEF Free, Members, NoJob
<1>11. CountInv
  <2> SUFFICES ASSUME NEW v \in pool PROVE cnt[v] = Referring(Node(v))
    BY DEF CountInv
  <2> DEFINE n == Node(v)
             f == [t \in Threads |-> Held(t, n)]
  <2>1. v \in Values
    BY <1>5 DEF TypeOK
  <2>2. Resting(n) = {r \in Records : a[r] = v}
    BY <1>1, <1>7, <1>10, <2>1 DEF Resting
  <2>3. \A t \in Threads : f[t] \in 0 .. 0
    BY <1>2 DEF Held
  <2>4. SumFunction(f) = SumFunctionOnSet(f, Threads) /\ SumFunction(f) \in Nat
    BY <1>5, <1>6, ReferringNat DEF SumFunction
  <2>5. cnt[v] = Cardinality(Resting(n)) /\ cnt[v] \in Nat
    BY <1>1, <1>4, <2>1, <2>2
  <2>6. Referring(n) = Cardinality(Resting(n)) + SumFunction(f)
    BY DEF Referring
  <2>7. 0 \in Nat /\ Cardinality(Threads) \in Nat
    BY Finite, FS_CardinalityType
  <2> HIDE DEF f, n
  <2>8. SumFunctionOnSet(f, Threads) <= 0 * Cardinality(Threads)
    BY <2>3, <2>7, Finite, SumBounded
  <2>9. cnt[v] = Referring(n)
    BY <2>4, <2>5, <2>6, <2>7, <2>8
  <2> QED  BY <2>9 DEF n
<1>12. ZeroInv
  <2> SUFFICES ASSUME NEW v \in pool PROVE cnt[v] # 0
    BY DEF ZeroInv
  <2>1. v \in Values /\ {r \in Records : a[r] = v} # {}
    BY <1>1, <1>3
  <2> QED  BY <1>1, <1>4, <2>1, FS_EmptySet
<1>13. LiveInv /\ SoloInv
  BY <1>2, <1>8, <1>10 DEF LiveInv, SoloInv, SoloOK
<1> QED  BY <1>5, <1>6, <1>9, <1>11, <1>12, <1>13 DEF ReferenceInv

LEMMA ReferenceNext == ASSUME ReferenceInv, [Next]_vars PROVE ReferenceInv'
<1>1. ASSUME NEW t \in Threads, ThreadStep(t) PROVE ReferenceInv'
  <2>1. fate = "ok"
    BY <1>1 DEF ThreadStep
  <2>2. CASE StartMerge(t)
    BY <2>1, <2>2, StartMergeKeeps
  <2>3. CASE AddFind(t)
    BY <2>1, <2>3, AddFindKeeps
  <2>4. CASE AddInsert(t)
    BY <2>1, <2>4, AddInsertKeeps
  <2>5. CASE AddCount(t)
    BY <2>1, <2>5, AddCountKeeps
  <2>6. CASE ReduceFind(t)
    BY <2>1, <2>6, ReduceFindKeeps
  <2>7. CASE ReduceCount(t)
    BY <2>1, <2>7, ReduceCountKeeps
  <2>8. CASE ReduceTest(t)
    BY <2>1, <2>8, ReduceTestKeeps
  <2>9. CASE ReduceErase(t)
    BY <2>1, <2>9, ReduceEraseKeeps
  <2>10. CASE CheckPointers(t)
    BY <2>1, <2>10, CheckPointersKeeps
  <2>11. CASE SetPointers(t)
    BY <2>1, <2>11, SetPointersKeeps
  <2> QED  BY <1>1, <2>2, <2>3, <2>4, <2>5, <2>6, <2>7, <2>8, <2>9, <2>10, <2>11 DEF ThreadStep
<1>2. CASE CleanPool
  BY <1>2, CleanPoolKeeps, SameKeeps
<1>3. CASE Stopped \/ UNCHANGED vars
  BY <1>3, SameKeeps DEF Stopped
<1> QED  BY <1>1, <1>2, <1>3 DEF Next

\* The pool's bookkeeping, at every step and whatever the threads do: every
\* entry's counter is the number of references to that very map node, an entry
\* without references is about to be erased by some thread, and as long as no
\* referenced entry was erased every pointer leads to a live one.
THEOREM ReferenceInvariant == Spec => []ReferenceInv
<1>1. Init => ReferenceInv
  BY ReferenceInit
<1>2. ReferenceInv /\ [Next]_vars => ReferenceInv'
  BY ReferenceNext
<1> QED  BY <1>1, <1>2, PTL DEF Spec

\* attrib_merge's check that the members of a cluster share their entry never
\* fails, and while nothing was lost they do share it.
THEOREM MembersShareEntryProved == Spec => []MembersShareEntry
<1>1. ReferenceInv => MembersShareEntry
  BY DEF ReferenceInv, ShareInv, SoloInv, MembersShareEntry
<1> QED  BY <1>1, ReferenceInvariant, PTL

\* With one thread, no merge uses freed memory and none throws.
THEOREM SoloMergeSafeProved == Spec => []SoloMergeSafe
<1>1. ReferenceInv => SoloMergeSafe
  BY DEF ReferenceInv, SoloInv, Solo, SoloMergeSafe
<1> QED  BY <1>1, ReferenceInvariant, PTL

\* While nothing was lost, the entries of the pool are, whenever no merge is
\* in flight, exactly the attributes that records point to.
THEOREM PoolIsReferencedProved == Spec => []PoolIsReferenced
<1>1. ASSUME ReferenceInv, Idle, ~ lostLive PROVE pool = {ptr[r].val : r \in Records}
  <2> USE DEF ReferenceInv
  <2>1. Free = Records
    BY <1>1 DEF Free, Members, OwnInv, NoJob, Idle
  <2>2. \A r \in Records : ptr[r].val \in pool
    BY <1>1, <2>1 DEF LiveInv, IsLive
  <2>3. ASSUME NEW v \in pool PROVE \E r \in Records : ptr[r].val = v
    <3>1. cnt[v] # 0
      BY <1>1 DEF ZeroInv, Handles, Idle
    <3>2. Referring(Node(v)) # 0
      BY <1>1, <3>1 DEF CountInv
    <3>3. \A t \in Threads : Held(t, Node(v)) = 0
      BY <1>1 DEF Held, Idle
    <3>4. PICK r \in Records : ptr[r] = Node(v)
      BY <1>1, <3>2, <3>3, ReferringNone
    <3> QED  BY <3>4 DEF Node
  <2> QED  BY <2>2, <2>3
<1>2. ReferenceInv => PoolIsReferenced
  BY <1>1 DEF PoolIsReferenced
<1> QED  BY <1>2, ReferenceInvariant, PTL

-----------------------------------------------------------------------------
(* Exact counting.                                                         *)

LEMMA SumSplit ==
  ASSUME NEW S, IsFiniteSet(S), NEW f, \A x \in S : f[x] \in Int, NEW c
  PROVE  /\ SumFunctionOnSet(f, S) = (IF c \in S THEN f[c] ELSE 0) + SumFunctionOnSet(f, S \ {c})
         /\ IsFiniteSet(S \ {c})
         /\ SumFunctionOnSet(f, S \ {c}) \in Int
<1>1. IsFiniteSet(S \ {c})
  BY FS_RemoveElement, FS_Subset
<1>2. SumFunctionOnSet(f, S \ {c}) \in Int
  BY <1>1, SumInt
<1>3. CASE c \in S
  BY <1>1, <1>2, <1>3, SumRemove
<1>4. CASE c \notin S
  <2>1. S \ {c} = S
    BY <1>4
  <2> QED  BY <1>1, <1>2, <1>4, <2>1
<1> QED  BY <1>1, <1>2, <1>3, <1>4

\* A sum over some of the eight calls of attrib_merge.
LEMMA SumOfCalls ==
  ASSUME NEW A, A \subseteq 1 .. 8, NEW f, \A k \in A : f[k] \in Int,
         f[4] = 0, f[8] = 0
  PROVE  SumFunctionOnSet(f, A) =
           (IF 1 \in A THEN f[1] ELSE 0) + (IF 2 \in A THEN f[2] ELSE 0)
             + (IF 3 \in A THEN f[3] ELSE 0) + (IF 5 \in A THEN f[5] ELSE 0)
             + (IF 6 \in A THEN f[6] ELSE 0) + (IF 7 \in A THEN f[7] ELSE 0)
<1> DEFINE T(S) == SumFunctionOnSet(f, S)
           G(S, c) == IF c \in S THEN f[c] ELSE 0
<1>1. IsFiniteSet(A)
  <2>1. PICK i \in Int, k \in Int : i = 1 /\ k = 8
    OBVIOUS
  <2>2. IsFiniteSet(i .. k)
    BY FS_Interval
  <2>3. A \subseteq i .. k
    BY <2>1
  <2> QED  BY <2>2, <2>3, FS_Subset
<1>2. ASSUME NEW S, IsFiniteSet(S), S \subseteq A, NEW c
      PROVE  /\ T(S) = G(S, c) + T(S \ {c}) /\ IsFiniteSet(S \ {c}) /\ S \ {c} \subseteq A
             /\ T(S \ {c}) \in Int
  <2>1. \A x \in S : f[x] \in Int
    BY <1>2
  <2> QED  BY <1>2, <2>1, SumSplit
<1>3. ASSUME NEW c PROVE G(A, c) \in Int
  <2>1. c \in A => f[c] \in Int
    OBVIOUS
  <2> QED  BY <2>1
<1>4. PICK B, C, D, E : B = A \ {1} /\ C = B \ {2} /\ D = C \ {3} /\ E = D \ {4}
  OBVIOUS
<1>5. PICK F, H, I, J : F = E \ {5} /\ H = F \ {6} /\ I = H \ {7} /\ J = I \ {8}
  OBVIOUS
<1>6. J = {}
  BY <1>4, <1>5
<1>7. T(J) = 0
  BY <1>6, SumEmpty
<1>8. /\ G(B, 2) = G(A, 2) /\ G(C, 3) = G(A, 3) /\ G(D, 4) = 0 /\ G(E, 5) = G(A, 5)
      /\ G(F, 6) = G(A, 6) /\ G(H, 7) = G(A, 7) /\ G(I, 8) = 0
  BY <1>4, <1>5
<1> HIDE DEF T, G
<1>9. /\ T(A) = G(A, 1) + T(B) /\ IsFiniteSet(B) /\ B \subseteq A /\ T(B) \in Int
  BY <1>1, <1>2, <1>4
<1>10. /\ T(B) = G(B, 2) + T(C) /\ IsFiniteSet(C) /\ C \subseteq A /\ T(C) \in Int
  BY <1>2, <1>4, <1>9
<1>11. /\ T(C) = G(C, 3) + T(D) /\ IsFiniteSet(D) /\ D \subseteq A /\ T(D) \in Int
  BY <1>2, <1>4, <1>10
<1>12. /\ T(D) = G(D, 4) + T(E) /\ IsFiniteSet(E) /\ E \subseteq A /\ T(E) \in Int
  BY <1>2, <1>4, <1>11
<1>13. /\ T(E) = G(E, 5) + T(F) /\ IsFiniteSet(F) /\ F \subseteq A /\ T(F) \in Int
  BY <1>2, <1>5, <1>12
<1>14. /\ T(F) = G(F, 6) + T(H) /\ IsFiniteSet(H) /\ H \subseteq A /\ T(H) \in Int
  BY <1>2, <1>5, <1>13
<1>15. /\ T(H) = G(H, 7) + T(I) /\ IsFiniteSet(I) /\ I \subseteq A /\ T(I) \in Int
  BY <1>2, <1>5, <1>14
<1>16. /\ T(I) = G(I, 8) + T(J)
  BY <1>2, <1>5, <1>15
<1>17. T(A) = G(A, 1) + G(A, 2) + G(A, 3) + G(A, 5) + G(A, 6) + G(A, 7)
  <2>1. \A c : G(A, c) \in Int
    BY <1>3
  <2>2. T(I) = 0 /\ T(D) = T(E)
    BY <1>7, <1>8, <1>12, <1>16
  <2> QED  BY ONLY <1>8, <1>9, <1>10, <1>11, <1>13, <1>14, <1>15, <2>1, <2>2
<1> QED  BY <1>17 DEF T, G

\* What a merge in flight still owes the counter of a value.
LEMMA OwedIs ==
  ASSUME TypeOK, OwnInv, NEW t \in Threads, pc[t] # "idle", NEW v
  PROVE  Owed(t, v) =
           (IF Union(t) = v
            THEN Cardinality(job[t].l1) + Cardinality(job[t].l2) - HeldNew(t) ELSE 0)
             - (IF job[t].a.val = v THEN HeldA(t) ELSE 0)
             - (IF job[t].b.val = v THEN HeldB(t) ELSE 0)
<1> DEFINE m == Cardinality(job[t].l1)
           n == Cardinality(job[t].l2)
           A == Ahead(t)
           f == [k \in 1 .. 8 |-> Due(Calls(job[t])[k], v)]
           atU == Union(t) = v
           atA == job[t].a.val = v
           atB == job[t].b.val = v
<1>1. m \in Nat \ {0} /\ n \in Nat \ {0}
  BY JobSizes
<1>2. /\ f[1] = (IF atU THEN 2 ELSE 0)
      /\ f[2] = (IF atA THEN 0 - 1 ELSE 0)
      /\ f[3] = (IF atB THEN 0 - 1 ELSE 0)
      /\ f[4] = 0 /\ f[8] = 0
  BY CallsOf DEF CallIs, Due
<1>3. /\ f[5] = (IF atA THEN 0 - (m - 1) ELSE 0)
      /\ f[6] = (IF atB THEN 0 - (n - 1) ELSE 0)
      /\ f[7] = (IF atU THEN m + n - 2 ELSE 0)
  BY CallsOf DEF CallIs, Due
<1>4. /\ HeldA(t) = (IF 2 \in A THEN 1 ELSE 0) + (IF 5 \in A THEN m - 1 ELSE 0)
      /\ HeldB(t) = (IF 3 \in A THEN 1 ELSE 0) + (IF 6 \in A THEN n - 1 ELSE 0)
      /\ HeldNew(t) = (IF 1 \in A THEN 0 ELSE 2) + (IF 7 \in A THEN 0 ELSE m + n - 2)
  BY DEF HeldA, HeldB, HeldNew
<1>5. Owed(t, v) = SumFunctionOnSet(f, A)
  BY DEF Owed
<1>6. A \subseteq 1 .. 8
  BY DEF Ahead
<1> HIDE DEF m, n, A, f, atU, atA, atB
<1>7. \A k \in A : f[k] \in Int
  <2>1. \A k \in {1, 2, 3, 4, 5, 6, 7, 8} : f[k] \in Int
    BY ONLY <1>1, <1>2, <1>3
  <2> QED  BY <1>6, <2>1
<1>8. SumFunctionOnSet(f, A) =
           (IF 1 \in A THEN f[1] ELSE 0) + (IF 2 \in A THEN f[2] ELSE 0)
             + (IF 3 \in A THEN f[3] ELSE 0) + (IF 5 \in A THEN f[5] ELSE 0)
             + (IF 6 \in A THEN f[6] ELSE 0) + (IF 7 \in A THEN f[7] ELSE 0)
  BY <1>2, <1>6, <1>7, SumOfCalls
<1>9. (IF 1 \in A THEN f[1] ELSE 0) + (IF 7 \in A THEN f[7] ELSE 0)
        = (IF atU THEN m + n - HeldNew(t) ELSE 0)
  BY ONLY <1>1, <1>2, <1>3, <1>4
<1>10. (IF 2 \in A THEN f[2] ELSE 0) + (IF 5 \in A THEN f[5] ELSE 0)
         = 0 - (IF atA THEN HeldA(t) ELSE 0)
  BY ONLY <1>1, <1>2, <1>3, <1>4
<1>11. (IF 3 \in A THEN f[3] ELSE 0) + (IF 6 \in A THEN f[6] ELSE 0)
         = 0 - (IF atB THEN HeldB(t) ELSE 0)
  BY ONLY <1>1, <1>2, <1>3, <1>4
<1>12. \A k \in {1, 2, 3, 5, 6, 7} : (IF k \in A THEN f[k] ELSE 0) \in Int
  BY <1>7
<1>13. HeldA(t) \in Int /\ HeldB(t) \in Int /\ HeldNew(t) \in Int
  BY ONLY <1>1, <1>4
<1>14. SumFunctionOnSet(f, A) = (IF atU THEN m + n - HeldNew(t) ELSE 0)
         - (IF atA THEN HeldA(t) ELSE 0) - (IF atB THEN HeldB(t) ELSE 0)
  <2>1. PICK x1, x2, x3, x5, x6, x7 \in Int :
          /\ x1 = (IF 1 \in A THEN f[1] ELSE 0) /\ x2 = (IF 2 \in A THEN f[2] ELSE 0)
          /\ x3 = (IF 3 \in A THEN f[3] ELSE 0) /\ x5 = (IF 5 \in A THEN f[5] ELSE 0)
          /\ x6 = (IF 6 \in A THEN f[6] ELSE 0) /\ x7 = (IF 7 \in A THEN f[7] ELSE 0)
    BY <1>12
  <2>2. PICK y1, y2, y3 \in Int :
          /\ y1 = (IF atU THEN m + n - HeldNew(t) ELSE 0)
          /\ y2 = (IF atA THEN HeldA(t) ELSE 0)
          /\ y3 = (IF atB THEN HeldB(t) ELSE 0)
    BY ONLY <1>1, <1>13
  <2>3. x1 + x7 = y1 /\ x2 + x5 = 0 - y2 /\ x3 + x6 = 0 - y3
    BY <1>9, <1>10, <1>11, <2>1, <2>2
  <2>4. SumFunctionOnSet(f, A) = x1 + x2 + x3 + x5 + x6 + x7
    BY <1>8, <2>1
  <2>5. x1 + x2 + x3 + x5 + x6 + x7 = y1 - y2 - y3
    BY <2>3
  <2> QED  BY <2>2, <2>4, <2>5
<1> QED  BY <1>5, <1>14 DEF m, n, atU, atA, atB

\* While nothing was lost, what a merge has counted for a value and what it
\* still owes it come to the references it has to return, if it is the union.
LEMMA HeldAndOwed ==
  ASSUME ReferenceInv, ~ lostLive, NEW t \in Threads, NEW v \in Values
  PROVE  /\ Owed(t, v) \in Int
         /\ (IF v \in pool THEN Held(t, Node(v)) ELSE 0) + Owed(t, v) =
              (IF pc[t] # "idle" /\ Union(t) = v THEN Cardinality(Members(t)) ELSE 0)
<1> USE DEF ReferenceInv
<1>1. CASE pc[t] = "idle"
  <2>1. Ahead(t) = {}
    BY <1>1 DEF Ahead
  <2>2. Owed(t, v) = 0
    BY <2>1, SumEmpty DEF Owed
  <2>3. Held(t, Node(v)) = 0
    BY <1>1 DEF Held
  <2> QED  BY <1>1, <2>2, <2>3
<1>2. CASE pc[t] # "idle"
  <2> DEFINE m == Cardinality(job[t].l1)
             n == Cardinality(job[t].l2)
             a == job[t].a
             b == job[t].b
             u == new[t]
             w == Node(v)
             U == Union(t)
             ha == HeldA(t)
             hb == HeldB(t)
             hu == HeldNew(t)
  <2>1. ha \in Nat /\ hb \in Nat /\ hu \in Nat
    BY <1>2, HeldNat
  <2>2. m \in Nat /\ n \in Nat /\ Cardinality(Members(t)) = m + n
    <3>1. /\ m \in Nat /\ n \in Nat /\ IsFiniteSet(job[t].l1) /\ IsFiniteSet(job[t].l2)
          /\ job[t].l1 \cap job[t].l2 = {}
      BY <1>2, JobSizes
    <3>2. Cardinality(job[t].l1 \cup job[t].l2) = m + n
      <4> HIDE DEF m, n
      <4> QED  BY <3>1, DisjointUnion DEF m, n
    <3> QED  BY <3>1, <3>2 DEF Members
  <2>3. \A x \in Nodes : IsLive(x) /\ x.val = v => v \in pool /\ x = w
    BY LiveNode
  <2>4. a \in Nodes /\ b \in Nodes /\ u \in Nodes /\ w \in Nodes /\ w.val = v
    BY ValuesOf, NodeType
  <2>5. LiveOK(t)
    BY <1>2 DEF LiveInv
  <2>6. /\ ha > 0 => (a.val = v <=> v \in pool /\ a = w)
        /\ hb > 0 => (b.val = v <=> v \in pool /\ b = w)
        /\ hu > 0 => (u.val = v <=> v \in pool /\ u = w)
    BY <2>3, <2>4, <2>5 DEF LiveOK
  <2>7. hu > 0 => u.val = U
    <3>1. next[t] = 1 => hu = 0
      <4>1. ASSUME next[t] = 1 PROVE 1 \in Ahead(t) /\ 7 \in Ahead(t)
        BY <1>2, <4>1 DEF Ahead, CallInv, CallOK
      <4> QED  BY <4>1 DEF HeldNew
    <3>2. next[t] \in 1 .. 8
      BY DEF TypeOK
    <3>3. CallOK(t)
      BY <1>2 DEF CallInv
    <3> QED  BY <3>1, <3>2, <3>3 DEF CallOK
  <2>8. Owed(t, v) = (IF U = v THEN m + n - hu ELSE 0) - (IF a.val = v THEN ha ELSE 0)
                       - (IF b.val = v THEN hb ELSE 0)
    BY <1>2, OwedIs
  <2>9. Held(t, w) = (IF a = w THEN ha ELSE 0) + (IF b = w THEN hb ELSE 0)
                       + (IF u = w THEN hu ELSE 0)
    BY <1>2 DEF Held
  <2> HIDE DEF m, n, a, b, u, w, U, ha, hb, hu
  <2>10. (IF v \in pool THEN Held(t, w) ELSE 0)
           = (IF a.val = v THEN ha ELSE 0) + (IF b.val = v THEN hb ELSE 0)
               + (IF U = v THEN hu ELSE 0)
    <3>1. (IF v \in pool /\ a = w THEN ha ELSE 0) = (IF a.val = v THEN ha ELSE 0)
      BY <2>1, <2>6
    <3>2. (IF v \in pool /\ b = w THEN hb ELSE 0) = (IF b.val = v THEN hb ELSE 0)
      BY <2>1, <2>6
    <3>3. (IF v \in pool /\ u = w THEN hu ELSE 0) = (IF U = v THEN hu ELSE 0)
      BY <2>1, <2>6, <2>7
    <3>4. (IF v \in pool THEN Held(t, w) ELSE 0)
            = (IF v \in pool /\ a = w THEN ha ELSE 0) + (IF v \in pool /\ b = w THEN hb ELSE 0)
                + (IF v \in pool /\ u = w THEN hu ELSE 0)
      BY <2>9
    <3> QED  BY <3>1, <3>2, <3>3, <3>4
  <2>11. Owed(t, v) \in Int
    BY <2>1, <2>2, <2>8
  <2>12. (IF v \in pool THEN Held(t, w) ELSE 0) + Owed(t, v) = (IF U = v THEN m + n ELSE 0)
    <3>1. PICK y1, y2, y3 \in Int : /\ y1 = (IF U = v THEN hu ELSE 0)
                                    /\ y2 = (IF a.val = v THEN ha ELSE 0)
                                    /\ y3 = (IF b.val = v THEN hb ELSE 0)
      BY <2>1
    <3>2. (IF U = v THEN m + n - hu ELSE 0) = (IF U = v THEN m + n ELSE 0) - y1
      BY <2>1, <2>2, <3>1
    <3>3. (IF U = v THEN m + n ELSE 0) \in Int
      BY <2>2
    <3> QED  BY ONLY <2>8, <2>10, <3>1, <3>2, <3>3
  <2> QED  BY <1>2, <2>2, <2>11, <2>12 DEF w, U
<1> QED  BY <1>1, <1>2

\* The records that will point to v: those at rest that do, and those of the
\* merges whose union it is.
LEMMA ReferencesAre ==
  ASSUME ReferenceInv, NEW v \in Values
  PROVE  Cardinality(References(v)) =
           Cardinality({r \in Free : ptr[r].val = v})
             + SumFunctionOnSet([t \in Threads |-> IF pc[t] # "idle" /\ Union(t) = v
                                                   THEN Cardinality(Members(t)) ELSE 0], Threads)
<1> USE DEF ReferenceInv
<1> DEFINE R == References(v)
           A == {r \in Free : ptr[r].val = v}
           B == R \ Free
           P == [r \in Records |-> owner[r]]
           class == [t \in Threads |-> IF pc[t] # "idle" /\ Union(t) = v THEN Members(t) ELSE {}]
           h == [t \in Threads |-> IF pc[t] # "idle" /\ Union(t) = v
                                   THEN Cardinality(Members(t)) ELSE 0]
<1>1. ASSUME NEW t \in Threads, pc[t] # "idle" PROVE UNION {ptr[s].val : s \in Members(t)} = Union(t)
  <2>1. CallOK(t)
    BY <1>1 DEF CallInv
  <2>2. (\E r \in job[t].l1 : TRUE) /\ (\E r \in job[t].l2 : TRUE)
    BY <1>1, JobSizes
  <2>3. /\ \A s \in job[t].l1 : ptr[s] = job[t].a
        /\ \A s \in job[t].l2 : ptr[s] = job[t].b
    BY <2>1 DEF CallOK
  <2> QED  BY <2>2, <2>3 DEF Members, Union
<1>2. ASSUME NEW t \in Threads, NEW r \in Members(t)
      PROVE  r \in R <=> Union(t) = v
  <2>1. pc[t] # "idle"
    BY IdleHasNone
  <2>2. r \in Records /\ owner[r] = t
    BY <2>1, JobSizes
  <2>3. \E s \in Threads : r \in job[s].l1 \cup job[s].l2
    BY DEF Members
  <2>4. r \in R <=> v = UNION {ptr[s].val : s \in job[t].l1 \cup job[t].l2}
    BY <2>2, <2>3 DEF References
  <2> QED  BY <1>1, <2>1, <2>4 DEF Members
<1>3. ASSUME NEW r \in Free PROVE r \in R <=> ptr[r].val = v
  <2>1. r \in Records /\ ~ \E s \in Threads : r \in job[s].l1 \cup job[s].l2
    BY DEF Free, Members
  <2> QED  BY <2>1 DEF References
<1>4. R \subseteq Records /\ A \subseteq Records
  BY DEF References, Free
<1>5. R = A \cup B /\ A \cap B = {}
  BY <1>3
<1>6. \A r \in B : \E t \in Threads : r \in Members(t)
  BY <1>4 DEF Free
<1>7. \A t \in Threads : class[t] \subseteq B
  <2> SUFFICES ASSUME NEW t \in Threads, NEW r \in class[t] PROVE r \in B
    OBVIOUS
  <2>1. r \in Members(t) /\ Union(t) = v
    OBVIOUS
  <2> QED  BY <1>2, <2>1 DEF Free
<1>8. \A r \in B : P[r] \in Threads /\ \A t \in Threads : r \in class[t] <=> P[r] = t
  <2> TAKE r \in B
  <2>1. PICK t \in Threads : r \in Members(t)
    BY <1>6
  <2>2. pc[t] # "idle"
    BY <2>1, IdleHasNone
  <2>3. P[r] = t /\ r \in Records
    BY <2>1, <2>2, JobSizes
  <2>4. Union(t) = v
    BY <1>2, <2>1
  <2>5. \A s \in Threads : r \in Members(s) => s = t
    BY <2>1, MembersApart
  <2> QED  BY <2>1, <2>2, <2>3, <2>4, <2>5
<1>9. \A t \in Threads : h[t] = Cardinality(class[t])
  BY FS_EmptySet
<1> HIDE DEF R, A, B, P, class, h
<1>10. IsFiniteSet(A) /\ IsFiniteSet(B)
  <2>1. IsFiniteSet(R)
    BY <1>4, Finite, FS_Subset
  <2> QED  BY <1>5, <2>1, FS_Subset
<1>11. Cardinality(R) = Cardinality(A) + Cardinality(B)
  BY <1>5, <1>10, DisjointUnion
<1>12. SumFunctionOnSet(h, Threads) = Cardinality(B)
  BY <1>7, <1>8, <1>9, <1>10, Finite, SumClasses
<1> QED  BY <1>11, <1>12 DEF R, A, h

\* Exact reference counting, for any number of threads.
THEOREM CountsConservedProved == Spec => []CountsConserved
<1>1. ASSUME ReferenceInv, ~ lostLive, NEW v \in Values
      PROVE  (IF v \in pool THEN cnt[v] ELSE 0) + SumFunction([t \in Threads |-> Owed(t, v)])
               = Cardinality(References(v))
  <2> USE <1>1 DEF ReferenceInv
  <2> DEFINE w == Node(v)
             c == IF v \in pool THEN cnt[v] ELSE 0
             A == {r \in Free : ptr[r].val = v}
             f == [t \in Threads |-> Held(t, w)]
             e == [t \in Threads |-> IF v \in pool THEN Held(t, w) ELSE 0]
             g == [t \in Threads |-> Owed(t, v)]
             h == [t \in Threads |-> IF pc[t] # "idle" /\ Union(t) = v
                                     THEN Cardinality(Members(t)) ELSE 0]
  <2>1. SumFunction(f) = SumFunctionOnSet(f, Threads) /\ SumFunction(g) = SumFunctionOnSet(g, Threads)
    BY DEF SumFunction
  <2>2. \A t \in Threads : f[t] \in Nat
    BY HeldNat
  <2>3. \A t \in Threads : e[t] = (IF v \in pool THEN f[t] ELSE 0)
    OBVIOUS
  <2>4. \A t \in Threads : e[t] \in Int /\ g[t] \in Int /\ h[t] = e[t] + g[t]
    BY <2>2, HeldAndOwed
  <2>5. A = (IF v \in pool THEN Resting(w) ELSE {})
    <3>1. \A r \in Free : IsLive(ptr[r]) /\ ptr[r] \in Nodes
      BY DEF LiveInv, Free, TypeOK
    <3>2. w.val = v
      BY NodeType
    <3>3. \A r \in Free : ptr[r].val = v <=> v \in pool /\ ptr[r] = w
      BY <3>1, <3>2, LiveNode
    <3> QED  BY <3>3 DEF Resting, Free
  <2>6. v \in pool => cnt[v] = Cardinality(Resting(w)) + SumFunction(f)
    BY DEF CountInv, Referring
  <2>7. Cardinality(References(v)) = Cardinality(A) + SumFunctionOnSet(h, Threads)
    BY ReferencesAre
  <2>8. Cardinality(Resting(w)) \in Nat
    BY ReferringNat
  <2> HIDE DEF w, c, A, e, f, g, h
  <2>9. SumFunctionOnSet(h, Threads) = SumFunctionOnSet(e, Threads) + SumFunctionOnSet(g, Threads)
    BY <2>4, Finite, SumPlus
  <2>10. SumFunctionOnSet(e, Threads) \in Int /\ SumFunctionOnSet(g, Threads) \in Int
    BY <2>4, Finite, SumInt
  <2>11. c = Cardinality(A) + SumFunctionOnSet(e, Threads)
    <3>1. CASE v \in pool
      <4>1. \A t \in Threads : e[t] = f[t]
        BY <2>3, <3>1
      <4>2. SumFunctionOnSet(e, Threads) = SumFunctionOnSet(f, Threads)
        BY <2>2, <4>1, Finite, SumSame
      <4> QED  BY <2>1, <2>5, <2>6, <3>1, <4>2 DEF c
    <3>2. CASE v \notin pool
      <4>1. \A t \in Threads : e[t] \in 0 .. 0 /\ e[t] \in Nat
        BY <2>3, <3>2
      <4>2. 0 \in Nat /\ Cardinality(Threads) \in Nat
        BY Finite, FS_CardinalityType
      <4>3. SumFunctionOnSet(e, Threads) <= 0 * Cardinality(Threads)
        BY <4>1, <4>2, Finite, SumBounded
      <4>4. SumFunctionOnSet(e, Threads) \in Nat
        BY <4>1, Finite, SumNat
      <4>5. Cardinality(A) = 0 /\ c = 0
        BY <2>5, <3>2, FS_EmptySet DEF c
      <4> QED  BY <4>2, <4>3, <4>4, <4>5
    <3> QED  BY <3>1, <3>2
  <2>12. Cardinality(A) \in Nat
    BY <2>5, <2>8, FS_EmptySet
  <2>13. c + SumFunction(g) = Cardinality(References(v))
    BY <2>1, <2>7, <2>9, <2>10, <2>11, <2>12
  <2> QED  BY <2>13 DEF c, g
<1>2. ReferenceInv => CountsConserved
  BY <1>1 DEF CountsConserved
<1> QED  BY <1>2, ReferenceInvariant, PTL

=============================================================================
