----------------------------- MODULE AttribPool -----------------------------
(***************************************************************************)
(* The reference-counted pool of one set-mode attribute class (Coauthor,   *)
(* Class) while Worker threads merge clusters.  Every record points to a   *)
(* pool entry; entries are found by value.  Merging two clusters replaces  *)
(* the entries of both by the entry of the union of their values, adding   *)
(* and deducting references through static_add_attrib and                  *)
(* static_reduce_attrib.  The threads work on different blocks, so their   *)
(* clusters are disjoint, but the pool is shared.                          *)
(*                                                                         *)
(* Each critical section of attrib_pool_structure_lock or of               *)
(* attrib_pool_count_lock holds one access and is one step; the test of    *)
(* the counter in static_reduce_attrib is outside both locks and is a step *)
(* of its own.  An entry that was erased and inserted again is a new map   *)
(* node: a pointer or iterator names a value and a generation.             *)
(***************************************************************************)
EXTENDS Integers, FiniteSets, FiniteSetsExt, Functions

CONSTANTS
  Threads,      \* worker threads that are merging
  Records,      \* the records of their clusters
  Owners,       \* who may work on what: a subset of [Records -> Threads]
  Elements,     \* coauthor names (or patent classes)
  StartSets     \* the attribute sets records may have at first

Values == SUBSET Elements

ASSUME AttribPoolAssumption ==
  /\ Owners \subseteq [Records -> Threads]
  /\ StartSets \subseteq Values
  /\ IsFiniteSet(Records) /\ IsFiniteSet(Elements) /\ IsFiniteSet(Threads)

VARIABLES
  pool,        \* values in attrib_pool
  gen,         \* how many times each value's node was erased
  cnt,         \* the counter of each value's node
  ptr,         \* the attribute pointer of each record: a node
  clusters,    \* the clusters (sets of records) of all the threads
  job,         \* the merge a thread is in the middle of: records l1 and l2, with
               \* their front entries a and b
  next,        \* the call of attrib_merge it has come to
  pc,          \* where the thread is in that call
  it,          \* its iterator p: a node
  new,         \* new_object_pointer: the node of the union
  fate,        \* "ok"; "undefined": freed memory was used; "thrown"
  owner,       \* the thread that has a record's block
  lostLive     \* history: an entry was erased while its counter was positive

vars == <<pool, gen, cnt, ptr, clusters, job, next, pc, it, new, fate, owner, lostLive>>

Nodes == [val : Values, gen : Int]

Node(v)   == [val |-> v, gen |-> gen[v]]          \* the current node of v
IsLive(n) == n.val \in pool /\ n.gen = gen[n.val]
Nowhere   == [val |-> {}, gen |-> -1]
NoJob     == [l1 |-> {}, l2 |-> {}, a |-> Nowhere, b |-> Nowhere]

\* static_add_attrib(d, n) and static_reduce_attrib(d, n); "of" is the node d
\* is read from (Nowhere if d is a local object); and the pointer checks and
\* the assignment of new pointers at the end of the global attrib_merge.
Call(op, v, n, of) == [op |-> op, val |-> v, by |-> n, of |-> of]
CheckLists == Call("check", {}, 1, Nowhere)
Repoint    == Call("repoint", {}, 1, Nowhere)

TypeOK ==
  /\ pool \subseteq Values
  /\ gen \in [Values -> Nat]
  /\ cnt \in [Values -> Int]
  /\ ptr \in [Records -> Nodes]
  /\ clusters \subseteq SUBSET Records
  /\ job \in [Threads -> [l1 : SUBSET Records, l2 : SUBSET Records, a : Nodes, b : Nodes]]
  /\ next \in [Threads -> 1 .. 8]
  /\ pc \in [Threads -> {"idle", "find", "insert", "count", "test", "erase"}]
  /\ it \in [Threads -> Nodes]
  /\ new \in [Threads -> Nodes]
  /\ fate \in {"ok", "undefined", "thrown"}
  /\ owner \in Owners
  /\ lostLive \in BOOLEAN

-----------------------------------------------------------------------------
(* After loading: one cluster per record, counters equal to references.    *)

Init ==
  /\ \E a \in [Records -> StartSets] :
       /\ ptr = [r \in Records |-> [val |-> a[r], gen |-> 0]]
       /\ pool = {a[r] : r \in Records}
       /\ cnt = [v \in Values |-> Cardinality({r \in Records : a[r] = v})]
  /\ gen = [v \in Values |-> 0]
  /\ clusters = {{r} : r \in Records}
  /\ job = [t \in Threads |-> NoJob]
  /\ next = [t \in Threads |-> 1]
  /\ pc = [t \in Threads |-> "idle"]
  /\ it = [t \in Threads |-> Nowhere]
  /\ new = [t \in Threads |-> Nowhere]
  /\ fate = "ok"
  /\ owner \in Owners
  /\ lostLive = FALSE

Own(t) == {c \in clusters : \A r \in c : owner[r] = t}

\* Faulty variant: the union gets one reference for the two front attributes.
CallsOneReference(j) ==
  LET u == j.a.val \cup j.b.val
      m == Cardinality(j.l1)
      n == Cardinality(j.l2)
  IN  <<Call("add", u, 1, Nowhere),
        Call("reduce", j.a.val, 1, j.a), Call("reduce", j.b.val, 1, j.b),
        CheckLists,
        Call("reduce", j.a.val, m - 1, j.a), Call("reduce", j.b.val, n - 1, j.b),
        Call("addnew", u, m + n - 2, Nowhere),
        Repoint>>

\* The calls of attrib_merge(l1, l2): the member attrib_merge on the two front
\* attributes, the checks, then the references of the other members.
Calls(j) ==
  LET u == j.a.val \cup j.b.val
      m == Cardinality(j.l1)
      n == Cardinality(j.l2)
  IN  <<Call("add", u, 2, Nowhere),
        Call("reduce", j.a.val, 1, j.a), Call("reduce", j.b.val, 1, j.b),
        CheckLists,
        Call("reduce", j.a.val, m - 1, j.a), Call("reduce", j.b.val, n - 1, j.b),
        Call("addnew", u, m + n - 2, Nowhere),
        Repoint>>

Current(t) == Calls(job[t])[next[t]]

Doing(t, op, at) == pc[t] = at /\ Current(t).op \in op

\* On to the next call; calls with no references to move are not made.
Advance(t) ==
  /\ next' = [next EXCEPT ![t] = Min({k \in 1 .. 8 : k > next[t] /\ Calls(job[t])[k].by # 0})]
  /\ pc' = [pc EXCEPT ![t] = "find"]

Goto(t, at) == pc' = [pc EXCEPT ![t] = at] /\ UNCHANGED next

\* Freed memory is read or written: anything may follow, the model stops.
Undefined == fate' = "undefined" /\ UNCHANGED <<pool, gen, cnt, ptr, clusters, job, next,
                                                pc, it, new, owner, lostLive>>

\* Cluster::merge (or a step of Cluster::self_repair) reaches the attribute:
\* the two front entries are read and their union is made.
StartMerge(t) ==
  /\ pc[t] = "idle"
  /\ \E c1 \in Own(t) : \E c2 \in Own(t) \ {c1} : \E r1 \in c1, r2 \in c2 :
       IF ~IsLive(ptr[r1]) \/ ~IsLive(ptr[r2])
       THEN Undefined
       ELSE /\ job' = [job EXCEPT ![t] = [l1 |-> c1, l2 |-> c2,
                                               a |-> ptr[r1], b |-> ptr[r2]]]
            /\ next' = [next EXCEPT ![t] = 1]
            /\ pc' = [pc EXCEPT ![t] = "find"]
            /\ UNCHANGED <<pool, gen, cnt, ptr, clusters, it, new, fate, owner, lostLive>>

\* attrib_pool.find(d) under the read lock; d must be readable.
AddFind(t) ==
  /\ Doing(t, {"add", "addnew"}, "find")
  /\ LET c == Current(t)
     IN  IF c.op = "addnew" /\ ~IsLive(new[t])
         THEN Undefined
         ELSE /\ it' = [it EXCEPT ![t] = IF c.val \in pool THEN Node(c.val) ELSE Nowhere]
              /\ Goto(t, IF c.val \in pool THEN "count" ELSE "insert")
              /\ UNCHANGED <<pool, gen, cnt, ptr, clusters, job, new, fate, owner, lostLive>>

\* Faulty variant: the insertion overwrites a node another thread inserted.
AddInsertFresh(t) ==
  /\ Doing(t, {"add", "addnew"}, "insert")
  /\ LET v == Current(t).val
     IN  /\ pool' = pool \cup {v}
         /\ cnt' = [cnt EXCEPT ![v] = 0]
         /\ it' = [it EXCEPT ![t] = Node(v)]
  /\ Goto(t, "count")
  /\ UNCHANGED <<gen, ptr, clusters, job, new, fate, owner, lostLive>>

\* attrib_pool.insert((d, 0)) under the write lock: finds d if it is there now.
AddInsert(t) ==
  /\ Doing(t, {"add", "addnew"}, "insert")
  /\ LET v == Current(t).val
     IN  /\ pool' = pool \cup {v}
         /\ cnt' = IF v \in pool THEN cnt ELSE [cnt EXCEPT ![v] = 0]
         /\ it' = [it EXCEPT ![t] = Node(v)]
  /\ Goto(t, "count")
  /\ UNCHANGED <<gen, ptr, clusters, job, new, fate, owner, lostLive>>

\* p->second += n under the count lock.
AddCount(t) ==
  /\ Doing(t, {"add", "addnew"}, "count")
  /\ IF ~IsLive(it[t])
     THEN Undefined
     ELSE /\ cnt' = [cnt EXCEPT ![it[t].val] = @ + Current(t).by]
          /\ new' = IF Current(t).op = "add" THEN [new EXCEPT ![t] = it[t]] ELSE new
          /\ Advance(t)
          /\ UNCHANGED <<pool, gen, ptr, clusters, job, it, fate, owner, lostLive>>

\* find under the read lock.  A readable d is an entry, so the exception for a
\* missing one is behind a read of freed memory only.
ReduceFind(t) ==
  /\ Doing(t, {"reduce"}, "find")
  /\ IF ~IsLive(Current(t).of)
     THEN Undefined
     ELSE /\ it' = [it EXCEPT ![t] = Node(Current(t).val)]
          /\ Goto(t, "count")
          /\ UNCHANGED <<pool, gen, cnt, ptr, clusters, job, new, fate, owner, lostLive>>

\* p->second -= n under the count lock.
ReduceCount(t) ==
  /\ Doing(t, {"reduce"}, "count")
  /\ IF ~IsLive(it[t])
     THEN Undefined
     ELSE /\ cnt' = [cnt EXCEPT ![it[t].val] = @ - Current(t).by]
          /\ Goto(t, "test")
          /\ UNCHANGED <<pool, gen, ptr, clusters, job, it, new, fate, owner, lostLive>>

\* Faulty variant: an entry without references is kept.
ReduceTestStrict(t) ==
  /\ Doing(t, {"reduce"}, "test")
  /\ IF cnt[it[t].val] < 0 THEN Goto(t, "erase") ELSE Advance(t)
  /\ UNCHANGED <<pool, gen, cnt, ptr, clusters, job, it, new, fate, owner, lostLive>>

\* if (p->second <= 0), under no lock.
ReduceTest(t) ==
  /\ Doing(t, {"reduce"}, "test")
  /\ IF ~IsLive(it[t])
     THEN Undefined
     ELSE /\ IF cnt[it[t].val] <= 0 THEN Goto(t, "erase") ELSE Advance(t)
          /\ UNCHANGED <<pool, gen, cnt, ptr, clusters, job, it, new, fate, owner, lostLive>>

\* attrib_pool.erase(p) under the write lock.
ReduceErase(t) ==
  /\ Doing(t, {"reduce"}, "erase")
  /\ IF ~IsLive(it[t])
     THEN Undefined
     ELSE /\ pool' = pool \ {it[t].val}
          /\ gen' = [gen EXCEPT ![it[t].val] = @ + 1]
          /\ lostLive' = (lostLive \/ cnt[it[t].val] > 0)
          /\ cnt' = [cnt EXCEPT ![it[t].val] = 0]
          /\ Advance(t)
          /\ UNCHANGED <<ptr, clusters, job, it, new, fate, owner>>

\* The two loops that compare the pointers of each list; a difference throws
\* after the counters have changed.
CheckPointers(t) ==
  /\ Doing(t, {"check"}, "find")
  /\ LET agree(l) == \A r, s \in l : ptr[r] = ptr[s]
     IN  IF agree(job[t].l1) /\ agree(job[t].l2)
         THEN Advance(t) /\ UNCHANGED fate
         ELSE fate' = "thrown" /\ UNCHANGED <<next, pc>>
  /\ UNCHANGED <<pool, gen, cnt, ptr, clusters, job, it, new, owner, lostLive>>

\* Faulty variant: the mergee's records keep their pointers.
SetPointersMerger(t) ==
  /\ Doing(t, {"repoint"}, "find")
  /\ ptr' = [r \in Records |-> IF r \in job[t].l1 THEN new[t] ELSE ptr[r]]
  /\ clusters' = (clusters \ {job[t].l1, job[t].l2}) \cup {job[t].l1 \cup job[t].l2}
  /\ job' = [job EXCEPT ![t] = NoJob]
  /\ Goto(t, "idle")
  /\ UNCHANGED <<pool, gen, cnt, it, new, fate, owner, lostLive>>

\* **p = new_object_pointer for both lists; Cluster::merge joins the members.
SetPointers(t) ==
  /\ Doing(t, {"repoint"}, "find")
  /\ LET members == job[t].l1 \cup job[t].l2
     IN  /\ ptr' = [r \in Records |-> IF r \in members THEN new[t] ELSE ptr[r]]
         /\ clusters' = (clusters \ {job[t].l1, job[t].l2}) \cup {members}
  /\ job' = [job EXCEPT ![t] = NoJob]
  /\ Goto(t, "idle")
  /\ UNCHANGED <<pool, gen, cnt, it, new, fate, owner, lostLive>>

ThreadStep(t) ==
  /\ fate = "ok"
  /\ \/ StartMerge(t) \/ AddFind(t) \/ AddInsert(t) \/ AddCount(t)
     \/ ReduceFind(t) \/ ReduceCount(t) \/ ReduceTest(t) \/ ReduceErase(t)
     \/ CheckPointers(t) \/ SetPointers(t)

Idle == \A t \in Threads : pc[t] = "idle"

\* Record::clean_member_attrib_pool, before the threads of a round start.
CleanPool ==
  /\ fate = "ok" /\ Idle
  /\ IF \E v \in pool : cnt[v] < 0
     THEN fate' = "thrown" /\ UNCHANGED <<pool, gen>>
     ELSE /\ pool' = {v \in pool : cnt[v] # 0}
          /\ gen' = [v \in Values |-> IF v \in pool /\ cnt[v] = 0 THEN gen[v] + 1 ELSE gen[v]]
          /\ UNCHANGED fate
  /\ UNCHANGED <<cnt, ptr, clusters, job, next, pc, it, new, owner, lostLive>>

Stopped ==
  /\ fate # "ok"
  /\ UNCHANGED vars

Next ==
  \/ \E t \in Threads : ThreadStep(t)
  \/ CleanPool
  \/ Stopped

Spec == Init /\ [][Next]_vars

-----------------------------------------------------------------------------
(* Properties.                                                             *)

\* The calls whose references a thread has still to move; the counting of a
\* call in "test" or "erase" is done.
Ahead(t) ==
  {k \in 1 .. 8 : /\ pc[t] # "idle"
                  /\ k > next[t] \/ (k = next[t] /\ pc[t] \notin {"test", "erase"})}

\* What a call adds to the counter of v, and what the calls ahead add.
Due(c, v) ==
  IF c.val # v \/ c.op \in {"check", "repoint"} THEN 0
  ELSE IF c.op = "reduce" THEN 0 - c.by ELSE c.by

Owed(t, v) == SumFunctionOnSet([k \in 1 .. 8 |-> Due(Calls(job[t])[k], v)], Ahead(t))

\* The records that point to v now, or will once the merges in flight end.
References(v) ==
  {r \in Records :
     IF \E t \in Threads : r \in job[t].l1 \cup job[t].l2
     THEN LET t == owner[r] IN v = UNION {ptr[s].val : s \in job[t].l1 \cup job[t].l2}
     ELSE ptr[r].val = v}

\* Reference counting is exact: the counter of every entry, with what the
\* merges in flight still owe it, is the number of records that point to it.
\* (attrib_merge spreads the bookkeeping over up to six calls with 1, 2,
\* size - 1 and size1 + size2 - 2 references.)
CountsConserved ==
  fate = "ok" /\ ~lostLive =>
    \A v \in Values :
      (IF v \in pool THEN cnt[v] ELSE 0) + SumFunction([t \in Threads |-> Owed(t, v)])
        = Cardinality(References(v))

\* Between merges, the pool holds exactly the attributes records point to.
PoolIsReferenced ==
  fate = "ok" /\ Idle /\ ~lostLive => pool = {ptr[r].val : r \in Records}

\* The records of a cluster share one entry, so the pointer check of the
\* next attrib_merge, which comes after counters were changed, never throws.
MembersShareEntry ==
  /\ fate # "thrown"
  /\ fate = "ok" /\ ~lostLive => \A c \in clusters : \A r, s \in c : ptr[r] = ptr[s]

\* When one thread does all the merging (NUMBER OF THREADS = 1), no merge uses
\* an entry that it, or an earlier one, has erased: attrib_merge goes on using
\* both front entries after the member attrib_merge has dropped a reference.
SoloMergeSafe ==
  (\A r, s \in Records : owner[r] = owner[s]) => fate = "ok"

\* attribute.h: "read-write lock of the attrib_pool that synchronize deletion
\* and insertion of new attribute objects": no thread reads or writes an
\* entry that another one has erased.
NoUseAfterErase == fate # "undefined"

-----------------------------------------------------------------------------
(* The inductive invariant.                                                *)

Members(t) == job[t].l1 \cup job[t].l2
Union(t)   == job[t].a.val \cup job[t].b.val
Free       == {r \in Records : \A t \in Threads : r \notin Members(t)}

\* Clusters are disjoint, and a thread in a merge works on two of its own.
OwnInv ==
  /\ {} \notin clusters
  /\ \A c, d \in clusters : c # d => c \cap d = {}
  /\ \A t \in Threads :
       IF pc[t] = "idle" THEN job[t] = NoJob
       ELSE job[t].l1 \in Own(t) /\ job[t].l2 \in Own(t) /\ job[t].l1 # job[t].l2

ShareInv == \A c \in clusters : \A r, s \in c : ptr[r] = ptr[s]

\* Where a thread is in its merge, and what its iterator is there.
CallOK(t) ==
  /\ \A r \in job[t].l1 : ptr[r] = job[t].a
  /\ \A r \in job[t].l2 : ptr[r] = job[t].b
  /\ Current(t).by # 0
  /\ pc[t] = "insert" => next[t] = 1
  /\ pc[t] = "count" => next[t] \in {1, 2, 3, 5, 6, 7}
  /\ pc[t] \in {"test", "erase"} => next[t] \in {2, 3, 5, 6}
  /\ pc[t] \in {"count", "test", "erase"} =>
       /\ next[t] = 1 => it[t].val = Union(t)
       /\ next[t] \in {2, 5} => it[t] = job[t].a
       /\ next[t] \in {3, 6} => it[t] = job[t].b
       /\ next[t] = 7 => it[t] = new[t]
  /\ next[t] > 1 => new[t].val = Union(t)

CallInv == \A t \in Threads : pc[t] # "idle" => CallOK(t)

\* No node in use is one that is still to come.
Known(n) == n.gen <= gen[n.val] /\ (n.gen = gen[n.val] => n.val \in pool)

KnownOK(t) ==
  /\ pc[t] # "idle" /\ next[t] > 1 => Known(new[t])
  /\ pc[t] \in {"count", "test", "erase"} => Known(it[t])

KnownInv == (\A r \in Records : Known(ptr[r])) /\ \A t \in Threads : KnownOK(t)

\* The references a merge in flight has in the front entries of its clusters
\* and in the entry of their union.
HeldA(t) == (IF 2 \in Ahead(t) THEN 1 ELSE 0)
              + (IF 5 \in Ahead(t) THEN Cardinality(job[t].l1) - 1 ELSE 0)
HeldB(t) == (IF 3 \in Ahead(t) THEN 1 ELSE 0)
              + (IF 6 \in Ahead(t) THEN Cardinality(job[t].l2) - 1 ELSE 0)
HeldNew(t) == (IF 1 \in Ahead(t) THEN 0 ELSE 2)
              + (IF 7 \in Ahead(t) THEN 0
                 ELSE Cardinality(job[t].l1) + Cardinality(job[t].l2) - 2)

Held(t, n) ==
  IF pc[t] = "idle" THEN 0
  ELSE (IF job[t].a = n THEN HeldA(t) ELSE 0) + (IF job[t].b = n THEN HeldB(t) ELSE 0)
         + (IF new[t] = n THEN HeldNew(t) ELSE 0)

\* A counter is the number of references to its node: of records at rest, and
\* of merges in flight.  This holds of every node, whatever was lost before.
Resting(n)   == {r \in Free : ptr[r] = n}
Referring(n) == Cardinality(Resting(n)) + SumFunction([t \in Threads |-> Held(t, n)])

CountInv == \A v \in pool : cnt[v] = Referring(Node(v))

\* An entry without references has just been made, or is about to be erased.
Handles(t, n) ==
  /\ it[t] = n
  /\ \/ pc[t] = "count" /\ next[t] = 1
     \/ pc[t] \in {"test", "erase"}

ZeroInv == \A v \in pool : cnt[v] = 0 => \E t \in Threads : Handles(t, Node(v))

\* Nodes with references are live.
LiveOK(t) ==
  /\ HeldA(t) > 0 => IsLive(job[t].a)
  /\ HeldB(t) > 0 => IsLive(job[t].b)
  /\ HeldNew(t) > 0 => IsLive(new[t])

LiveInv ==
  ~lostLive =>
    /\ \A r \in Free : IsLive(ptr[r])
    /\ \A t \in Threads : pc[t] # "idle" => LiveOK(t)

\* Nothing happens to a single thread between two of its steps.
Solo == \A r, s \in Records : owner[r] = owner[s]

SoloOK(t) ==
  /\ pc[t] \in {"count", "test", "erase"} => IsLive(it[t])
  /\ pc[t] = "erase" => cnt[it[t].val] <= 0

SoloInv ==
  /\ fate # "thrown"
  /\ Solo => fate = "ok" /\ ~lostLive /\ \A t \in Threads : SoloOK(t)

ReferenceInv ==
  /\ TypeOK /\ OwnInv /\ ShareInv /\ CallInv /\ KnownInv
  /\ CountInv /\ ZeroInv /\ LiveInv /\ SoloInv
=============================================================================
