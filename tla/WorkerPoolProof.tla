-------------------------- MODULE WorkerPoolProof --------------------------
(***************************************************************************)
(* Theorems about WorkerPool, for every number of blocks, threads and      *)
(* calls: PoolInv is inductive; it implies the safety properties and is    *)
(* what the step simulation of BlockDispatch needs.  Then about BlockLoop, *)
(* what a worker does with a block, for every list of clusters and every   *)
(* number of thresholds and passes: there the inductive invariant is       *)
(* BlockInv, and the abstract specification ClusterMerging.                *)
(***************************************************************************)
EXTENDS WorkerPool, BlockLoop, DataTheorems

USE PoolAssumption DEF Blocks, Workers, End, NoOne, Zero, Own, Garbage

\* The initial state has the inductive invariant.
LEMMA PoolInit == Init => PoolInv
<1> SUFFICES ASSUME Init PROVE PoolInv
  OBVIOUS
<1> USE DEF Init, All, NoRuns, Alive, Over
<1>1. TypeOK
  <2>1. /\ pc \in [Workers -> Alive \cup Over]
        /\ pthis \in [Workers -> 1 .. End]
        /\ runs \in [Blocks -> Nat]
    OBVIOUS
  <2>2. success \in [Workers -> BOOLEAN] /\ tid \in [Workers -> {Zero, Own, Garbage}]
    OBVIOUS
  <2>3. aborted \in BOOLEAN
    OBVIOUS
  <2> QED BY <2>1, <2>2, <2>3 DEF TypeOK
<1>2. LockInv /\ CursorInv /\ TakenInv BY DEF LockInv, CursorInv, TakenInv, Busy
<1>3. EndInv /\ TidInv /\ OnceEach BY DEF EndInv, TidInv, OnceEach
<1>4. LoopInv BY DEF LoopInv, ReturnSafe
<1> QED BY <1>1, <1>2, <1>3, <1>4 DEF PoolInv

\* Types are preserved by every step from a state of the invariant.
LEMMA TypeStep == ASSUME PoolInv, [Next]_vars PROVE TypeOK'
<1>a. TypeOK
  BY DEF PoolInv
<1>b. main \in {"store", "join", "wait"} => mi \in Workers
  BY DEF PoolInv, LoopInv
<1>c. \A w \in Workers : pc[w] = "advance" => cursor \in Blocks /\ pthis[w] \in Blocks
  BY <1>a DEF PoolInv, CursorInv, TypeOK
<1>d. \A w \in Workers : pc[w] = "disambig" => pthis[w] \in Blocks
  BY <1>a DEF PoolInv, TakenInv, Busy, TypeOK
<1> USE <1>a, <1>b, <1>c, <1>d
        DEF TypeOK, Alive, Over, vars, shared, workers, caller, history, All, NoRuns, Goto
<1>1. CASE CallerStep
  <2> USE <1>1 DEF CallerStep, StartThread, StoreTid, StartFails, AllStarted, JoinCheck,
                   JoinCall, JoinInvalid, JoinReturns, AllJoined, Report
  <2>1. (cursor \in 1 .. End /\ iterLock \in Workers \cup {NoOne} /\ count \in Nat)'
    OBVIOUS
  <2>2. (pc \in [Workers -> Alive \cup Over] /\ pthis \in [Workers -> 1 .. End])'
    OBVIOUS
  <2>3. (success \in [Workers -> BOOLEAN] /\ tid \in [Workers -> {Zero, Own, Garbage}])'
    OBVIOUS
  <2>4. (mi \in 1 .. NumThreads + 1 /\ call \in 1 .. MaxCalls /\ reported \in Nat)'
    BY SMTT(30)
  <2>5. (main \in {"create", "store", "check", "join", "wait", "report", "returned"})'
    OBVIOUS
  <2>6. (aborted \in BOOLEAN)'
    OBVIOUS
  <2>7. (runs \in [Blocks -> Nat] /\ okBlocks \in SUBSET Blocks)'
    OBVIOUS
  <2> QED BY <2>1, <2>2, <2>3, <2>4, <2>5, <2>6, <2>7
<1>2. CASE CallAgain
  <2> USE <1>2 DEF CallAgain
  <2>1. (cursor \in 1 .. End /\ iterLock \in Workers \cup {NoOne} /\ count \in Nat)'
    OBVIOUS
  <2>2. (pc \in [Workers -> Alive \cup Over] /\ pthis \in [Workers -> 1 .. End])'
    OBVIOUS
  <2>3. (success \in [Workers -> BOOLEAN] /\ tid \in [Workers -> {Zero, Own, Garbage}])'
    OBVIOUS
  <2>4. (mi \in 1 .. NumThreads + 1 /\ call \in 1 .. MaxCalls /\ reported \in Nat)'
    OBVIOUS
  <2>5. (main \in {"create", "store", "check", "join", "wait", "report", "returned"})'
    OBVIOUS
  <2>6. (aborted \in BOOLEAN)'
    OBVIOUS
  <2>7. (runs \in [Blocks -> Nat] /\ okBlocks \in SUBSET Blocks)'
    OBVIOUS
  <2> QED BY <2>1, <2>2, <2>3, <2>4, <2>5, <2>6, <2>7
<1>3. ASSUME NEW w \in Workers, WorkerStep(w) PROVE TypeOK'
  <2> USE DEF WorkerStep, ThreadEntry, LockForCursor, NoBlockLeft, ReadCursor,
                       AdvanceCursor, WrapperReturns, WrapperThrows, LockForTally, Tally, ClearTid,
                       ThreadExit
  <2>1. (cursor \in 1 .. End /\ iterLock \in Workers \cup {NoOne} /\ count \in Nat)'
    <3>1. /\ cursor' = cursor \/ (cursor \in Blocks /\ cursor' = cursor + 1)
          /\ iterLock' \in {iterLock, w, NoOne}
          /\ count' \in {count, count + 1}
      BY <1>3
    <3> QED BY <3>1
  <2>2. (pc \in [Workers -> Alive \cup Over] /\ pthis \in [Workers -> 1 .. End])'
    BY <1>3
  <2>3. (success \in [Workers -> BOOLEAN] /\ tid \in [Workers -> {Zero, Own, Garbage}])'
    BY <1>3
  <2>4. UNCHANGED <<main, mi, call, reported>> /\ aborted' \in {aborted, TRUE}
    BY <1>3
  <2>5. (runs \in [Blocks -> Nat] /\ okBlocks \in SUBSET Blocks)'
    <3>1. okBlocks' = okBlocks \/ (pthis[w] \in Blocks /\ okBlocks' = okBlocks \cup {pthis[w]})
      BY <1>3
    <3>2. runs' = runs \/ (pthis[w] \in Blocks /\ runs' = [runs EXCEPT ![pthis[w]] = @ + 1])
      BY <1>3
    <3>3. okBlocks' \in SUBSET Blocks BY <3>1
    <3>4. runs' \in [Blocks -> Nat]
      <4>1. CASE runs' = runs BY <4>1
      <4>2. CASE pthis[w] \in Blocks /\ runs' = [runs EXCEPT ![pthis[w]] = @ + 1] BY ONLY <1>a, <4>2 DEF TypeOK
      <4> QED BY <3>2, <4>1, <4>2
    <3> QED BY <3>3, <3>4
  <2> QED BY <2>1, <2>2, <2>3, <2>4, <2>5
<1>4. CASE UNCHANGED vars
  BY <1>4
<1> QED BY <1>1, <1>2, <1>3, <1>4 DEF Next, Stopped

\* A step of the calling thread preserves the inductive invariant.
LEMMA CallerPreserves == ASSUME PoolInv, CallerStep PROVE PoolInv'
<1> USE DEF PoolInv, TypeOK, LockInv, CursorInv, TakenInv, Busy, EndInv, LoopInv, TidInv,
            OnceEach, ReturnSafe, Alive, Over, shared, workers, caller, history
<1>0. TypeOK' BY TypeStep DEF Next
<1>1. CASE StartThread
  <2> USE <1>1 DEF StartThread
  <2>1. (LockInv /\ CursorInv /\ TakenInv)' OBVIOUS
  <2>2. (EndInv /\ TidInv /\ OnceEach)' OBVIOUS
  <2>3. LoopInv' OBVIOUS
  <2> QED BY <1>0, <2>1, <2>2, <2>3
<1>2. CASE StoreTid
  <2> USE <1>2 DEF StoreTid
  <2>1. (LockInv /\ CursorInv /\ TakenInv)' OBVIOUS
  <2>2. (EndInv /\ TidInv /\ OnceEach)' OBVIOUS
  <2>3. LoopInv' OBVIOUS
  <2> QED BY <1>0, <2>1, <2>2, <2>3
<1>3. CASE StartFails
  <2> USE <1>3 DEF StartFails
  <2>1. (LockInv /\ CursorInv /\ TakenInv)' OBVIOUS
  <2>2. (EndInv /\ TidInv /\ OnceEach)' OBVIOUS
  <2>3. LoopInv' OBVIOUS
  <2> QED BY <1>0, <2>1, <2>2, <2>3
<1>4. CASE AllStarted
  <2> USE <1>4 DEF AllStarted
  <2>1. (LockInv /\ CursorInv /\ TakenInv)' OBVIOUS
  <2>2. (EndInv /\ TidInv /\ OnceEach)' OBVIOUS
  <2>3. LoopInv' OBVIOUS
  <2> QED BY <1>0, <2>1, <2>2, <2>3
<1>5. CASE JoinCheck
  <2> USE <1>5 DEF JoinCheck
  <2>1. (LockInv /\ CursorInv /\ TakenInv)' OBVIOUS
  <2>2. (EndInv /\ TidInv /\ OnceEach)' OBVIOUS
  <2>3. LoopInv' BY SMTT(30)
  <2> QED BY <1>0, <2>1, <2>2, <2>3
<1>6. CASE JoinCall
  <2> USE <1>6 DEF JoinCall
  <2>1. (LockInv /\ CursorInv /\ TakenInv)' OBVIOUS
  <2>2. (EndInv /\ TidInv /\ OnceEach)' OBVIOUS
  <2>3. LoopInv' BY SMTT(30)
  <2> QED BY <1>0, <2>1, <2>2, <2>3
<1>7. CASE JoinInvalid
  <2> USE <1>7 DEF JoinInvalid
  <2>1. (LockInv /\ CursorInv /\ TakenInv)' OBVIOUS
  <2>2. (EndInv /\ TidInv /\ OnceEach)' OBVIOUS
  <2>3. LoopInv' BY SMTT(30)
  <2> QED BY <1>0, <2>1, <2>2, <2>3
<1>8. CASE JoinReturns
  <2> USE <1>8 DEF JoinReturns
  <2>1. (LockInv /\ CursorInv /\ TakenInv)' OBVIOUS
  <2>2. (EndInv /\ TidInv /\ OnceEach)' OBVIOUS
  <2>3. LoopInv' BY SMTT(30)
  <2> QED BY <1>0, <2>1, <2>2, <2>3
<1>9. CASE AllJoined
  <2> USE <1>9 DEF AllJoined
  <2>1. (LockInv /\ CursorInv /\ TakenInv)' OBVIOUS
  <2>2. (EndInv /\ TidInv /\ OnceEach)' OBVIOUS
  <2>3. LoopInv' OBVIOUS
  <2> QED BY <1>0, <2>1, <2>2, <2>3
<1>10. CASE Report
  <2> USE <1>10 DEF Report
  <2>1. (LockInv /\ CursorInv /\ TakenInv)' OBVIOUS
  <2>2. (EndInv /\ TidInv /\ OnceEach)' OBVIOUS
  <2>3. LoopInv' OBVIOUS
  <2> QED BY <1>0, <2>1, <2>2, <2>3
<1> QED BY <1>1, <1>2, <1>3, <1>4, <1>5, <1>6, <1>7, <1>8, <1>9, <1>10
        DEF CallerStep

\* The next call, which starts from fresh Worker objects, preserves it.
LEMMA CallAgainPreserves == ASSUME PoolInv, ~aborted, CallAgain PROVE PoolInv'
<1> USE DEF PoolInv, TypeOK, LockInv, CursorInv, TakenInv, Busy, EndInv, LoopInv, TidInv,
            OnceEach, ReturnSafe, Alive, Over, CallAgain, All, NoRuns
<1>1. TypeOK' BY TypeStep DEF Next
<1>2. (LockInv /\ CursorInv /\ TakenInv)' OBVIOUS
<1>3. (EndInv /\ TidInv /\ OnceEach)' OBVIOUS
<1>4. LoopInv' OBVIOUS
<1> QED BY <1>1, <1>2, <1>3, <1>4

\* A step of a worker thread preserves it.
LEMMA WorkerPreserves == ASSUME PoolInv, NEW w \in Workers, WorkerStep(w) PROVE PoolInv'
<1>a. TypeOK' BY TypeStep DEF Next
<1>b. LoopInv'
  <2>1. /\ UNCHANGED <<main, mi>>
        /\ \A v \in Workers : /\ pc[v] = "idle" => pc'[v] = "idle"
                              /\ pc[v] \in Over => pc'[v] \in Over
    BY DEF PoolInv, TypeOK, Over, WorkerStep, ThreadEntry, LockForCursor, NoBlockLeft,
           ReadCursor, AdvanceCursor, WrapperReturns, WrapperThrows, LockForTally, Tally,
           ClearTid, ThreadExit, Goto, caller, workers
  <2> QED BY <2>1 DEF PoolInv, LoopInv, ReturnSafe
<1> USE DEF PoolInv, TypeOK, LockInv, CursorInv, TakenInv, Busy, EndInv, TidInv,
            OnceEach, Alive, Over, shared, workers, caller, history, Goto
<1>1. CASE ThreadEntry(w)
  <2> USE <1>1 DEF ThreadEntry
  <2>1. (LockInv /\ CursorInv /\ TakenInv)' OBVIOUS
  <2>2. (EndInv /\ TidInv /\ OnceEach)' OBVIOUS
  <2> QED BY <1>a, <1>b, <2>1, <2>2 DEF PoolInv
<1>2. CASE LockForCursor(w)
  <2> USE <1>2 DEF LockForCursor
  <2>1. (LockInv /\ CursorInv /\ TakenInv)' OBVIOUS
  <2>2. (EndInv /\ TidInv /\ OnceEach)' OBVIOUS
  <2> QED BY <1>a, <1>b, <2>1, <2>2 DEF PoolInv
<1>3. CASE NoBlockLeft(w)
  <2> USE <1>3 DEF NoBlockLeft
  <2>3. LockInv'
    BY SMTT(30)
  <2>1. (CursorInv /\ TakenInv)' OBVIOUS
  <2>2. (EndInv /\ TidInv /\ OnceEach)' OBVIOUS
  <2> QED BY <1>a, <1>b, <2>1, <2>2, <2>3 DEF PoolInv
<1>4. CASE ReadCursor(w)
  <2> USE <1>4 DEF ReadCursor
  <2>1. (LockInv /\ CursorInv /\ TakenInv)' OBVIOUS
  <2>2. (EndInv /\ TidInv /\ OnceEach)' OBVIOUS
  <2> QED BY <1>a, <1>b, <2>1, <2>2 DEF PoolInv
<1>5. CASE AdvanceCursor(w)
  <2> USE <1>5 DEF AdvanceCursor
  <2>1. (LockInv /\ CursorInv /\ TakenInv)' OBVIOUS
  <2>2. (EndInv /\ TidInv /\ OnceEach)' OBVIOUS
  <2> QED BY <1>a, <1>b, <2>1, <2>2 DEF PoolInv
<1>6. CASE WrapperReturns(w)
  <2> USE <1>6 DEF WrapperReturns
  <2>1. (LockInv /\ CursorInv /\ TakenInv)' OBVIOUS
  <2>2. (EndInv /\ TidInv /\ OnceEach)' OBVIOUS
  <2> QED BY <1>a, <1>b, <2>1, <2>2 DEF PoolInv
<1>7. CASE WrapperThrows(w)
  <2> USE <1>7 DEF WrapperThrows
  <2>1. (LockInv /\ CursorInv /\ TakenInv)' OBVIOUS
  <2>2. (EndInv /\ TidInv /\ OnceEach)' OBVIOUS
  <2> QED BY <1>a, <1>b, <2>1, <2>2 DEF PoolInv
<1>8. CASE LockForTally(w)
  <2> USE <1>8 DEF LockForTally
  <2>1. (LockInv /\ CursorInv /\ TakenInv)' OBVIOUS
  <2>2. (EndInv /\ TidInv /\ OnceEach)' OBVIOUS
  <2> QED BY <1>a, <1>b, <2>1, <2>2 DEF PoolInv
<1>9. CASE Tally(w)
  <2> USE <1>9 DEF Tally
  <2>1. (LockInv /\ CursorInv /\ TakenInv)' OBVIOUS
  <2>2. (EndInv /\ TidInv /\ OnceEach)' OBVIOUS
  <2> QED BY <1>a, <1>b, <2>1, <2>2 DEF PoolInv
<1>10. CASE ClearTid(w)
  <2> USE <1>10 DEF ClearTid
  <2>1. (LockInv /\ CursorInv /\ TakenInv)' OBVIOUS
  <2>2. (EndInv /\ TidInv /\ OnceEach)' OBVIOUS
  <2> QED BY <1>a, <1>b, <2>1, <2>2 DEF PoolInv
<1>11. CASE ThreadExit(w)
  <2> USE <1>11 DEF ThreadExit
  <2>1. (LockInv /\ CursorInv /\ TakenInv)' OBVIOUS
  <2>2. (EndInv /\ TidInv /\ OnceEach)' OBVIOUS
  <2> QED BY <1>a, <1>b, <2>1, <2>2 DEF PoolInv
<1> QED BY <1>1, <1>2, <1>3, <1>4, <1>5, <1>6, <1>7, <1>8, <1>9, <1>10, <1>11
        DEF WorkerStep

\* The inductive invariant holds in every reachable state.
THEOREM PoolInvariant == Spec => []PoolInv
<1>1. Init => PoolInv BY PoolInit
<1>2. PoolInv /\ [Next]_vars => PoolInv'
  <2> SUFFICES ASSUME PoolInv, [Next]_vars PROVE PoolInv'
    OBVIOUS
  <2>1. CASE UNCHANGED vars
    <3>1. TypeOK' BY TypeStep
    <3>2. (LockInv /\ CursorInv /\ TakenInv /\ EndInv /\ LoopInv /\ TidInv /\ OnceEach)'
      BY <2>1 DEF vars, shared, workers, caller, history, PoolInv, LockInv, CursorInv,
                  TakenInv, EndInv, LoopInv, TidInv, OnceEach, ReturnSafe
    <3> QED BY <3>1, <3>2 DEF PoolInv
  <2> QED BY <2>1, CallerPreserves, CallAgainPreserves, WorkerPreserves DEF Next, Stopped
<1> QED BY <1>1, <1>2, PTL DEF Spec

-----------------------------------------------------------------------------
(* The counter.                                                            *)

\* The tallied blocks, whose number count is.
Tallied == {b \in okBlocks : ~Untallied(b)}

\* A step that leaves okBlocks, the caller's and the tallying workers' state
\* alone preserves CountInv.
LEMMA QuietStep ==
  ASSUME CountInv, UNCHANGED <<okBlocks, count, reported>>, cursor' >= cursor, TypeOK, TypeOK',
         main' = "returned" <=> main = "returned",
         \A b \in Blocks : Untallied(b)' <=> Untallied(b),
         \A w \in Workers : pc'[w] = "disambig" => pthis'[w] \notin okBlocks
  PROVE  CountInv'
<1>1. Tallied' = Tallied
  BY DEF Tallied, TypeOK
<1>2. \A b \in okBlocks : b < cursor'
  BY DEF CountInv, TypeOK
<1> QED BY <1>1, <1>2 DEF CountInv, Tallied

\* The calling thread: only Report reads and zeroes the counter.
LEMMA CallerCount == ASSUME PoolInv, CountInv, CallerStep PROVE CountInv'
<1>1. TypeOK /\ TypeOK'
  BY TypeStep DEF PoolInv, Next
<1>2. CASE Report
  <2>1. \A b \in Blocks : ~Untallied(b) /\ ~Untallied(b)'
    BY <1>2 DEF Report, PoolInv, LoopInv, ReturnSafe, Over, Untallied, workers
  <2>2. Tallied = okBlocks
    BY <1>1, <2>1 DEF Tallied, TypeOK
  <2> QED BY <1>1, <1>2, <2>1, <2>2 DEF Report, CountInv, Tallied, workers, history
<1>3. CASE ~Report
  <2> USE DEF CallerStep, StartThread, StoreTid, StartFails, AllStarted, JoinCheck,
              JoinCall, JoinInvalid, JoinReturns, AllJoined, shared, workers, caller, history
  <2>1. UNCHANGED <<okBlocks, count, reported, cursor, pthis, success>>
    BY <1>3
  <2>2. main # "returned" /\ main' # "returned"
    BY <1>3
  <2>3. \A w \in Workers : pc'[w] = pc[w] \/ (pc[w] = "idle" /\ pc'[w] = "born")
    BY <1>1, <1>3 DEF PoolInv, LoopInv, TypeOK
  <2>4. \A b \in Blocks : Untallied(b)' <=> Untallied(b)
    BY <2>1, <2>3 DEF Untallied
  <2>5. \A w \in Workers : pc'[w] = "disambig" => pthis'[w] \notin okBlocks
    BY <2>1, <2>3 DEF CountInv
  <2>6. cursor' >= cursor
    BY <1>1, <2>1 DEF TypeOK
  <2> HIDE DEF CallerStep
  <2> QED BY <1>1, <2>1, <2>2, <2>4, <2>5, <2>6, QuietStep
<1> QED BY <1>2, <1>3

\* The next call starts with nothing tallied, and count was zeroed.
LEMMA CallAgainCount == ASSUME PoolInv, CountInv, ~aborted, CallAgain PROVE CountInv'
<1>1. \A b \in Blocks : ~Untallied(b)'
  BY DEF CallAgain, All, Untallied
<1>2. Tallied' = {} /\ count' = 0 /\ okBlocks' = {} /\ main' = "create"
  BY DEF Tallied, CallAgain, CountInv
<1>3. \A w \in Workers : pc'[w] # "disambig"
  BY DEF CallAgain, All
<1> QED BY <1>1, <1>2, <1>3, FS_EmptySet DEF CountInv, Tallied

\* The workers: WrapperReturns adds a block that is not tallied yet, Tally
\* tallies it.
LEMMA WorkerCount ==
  ASSUME PoolInv, CountInv, NEW w \in Workers, WorkerStep(w) PROVE CountInv'
<1>1. TypeOK /\ TypeOK'
  BY TypeStep DEF PoolInv, Next
<1>2. main' = main /\ reported' = reported
  BY DEF WorkerStep, ThreadEntry, LockForCursor, NoBlockLeft, ReadCursor, AdvanceCursor,
         WrapperReturns, WrapperThrows, LockForTally, Tally, ClearTid, ThreadExit, caller
<1>3. \A v \in Workers \ {w} : pc'[v] = pc[v] /\ pthis'[v] = pthis[v] /\ success'[v] = success[v]
  BY <1>1 DEF TypeOK, WorkerStep, ThreadEntry, LockForCursor, NoBlockLeft, ReadCursor,
         AdvanceCursor, WrapperReturns, WrapperThrows, LockForTally, Tally, ClearTid,
         ThreadExit, Goto, workers
<1>4. CASE WrapperReturns(w)
  <2>1. pc[w] = "disambig" /\ pc'[w] = "toTally" /\ pthis' = pthis
        /\ UNCHANGED <<cursor, count>> /\ main # "returned"
    BY <1>1, <1>4 DEF WrapperReturns, Goto, TypeOK, shared, PoolInv, LoopInv, ReturnSafe, Over
  <2>2. pthis[w] \in Blocks /\ pthis[w] \notin okBlocks /\ pthis[w] < cursor
    BY <1>1, <2>1 DEF PoolInv, TakenInv, Busy, TypeOK, CountInv
  <2>3. CASE success'[w]
    <3>1. okBlocks' = okBlocks \cup {pthis[w]}
      BY <1>1, <1>4, <2>3 DEF WrapperReturns, TypeOK
    <3>2. \A b \in Blocks : Untallied(b)' <=> Untallied(b) \/ b = pthis[w]
      BY <1>3, <2>1, <2>2, <2>3 DEF Untallied
    <3>3. Tallied' = Tallied
      BY <1>1, <2>2, <3>1, <3>2 DEF Tallied, TypeOK, CountInv
    <3>4. \A v \in Workers : pc'[v] = "disambig" => pthis'[v] \notin okBlocks'
      BY <1>3, <2>1, <3>1 DEF CountInv, PoolInv, TakenInv, Busy
    <3> QED BY <1>1, <1>2, <2>1, <2>2, <3>1, <3>2, <3>3, <3>4 DEF CountInv, Tallied, TypeOK
  <2>4. CASE ~success'[w]
    <3>1. okBlocks' = okBlocks
      BY <1>1, <1>4, <2>4 DEF WrapperReturns, TypeOK
    <3>2. \A b \in Blocks : Untallied(b)' <=> Untallied(b)
      BY <1>3, <2>1, <2>4 DEF Untallied
    <3>3. \A v \in Workers : pc'[v] = "disambig" => pthis'[v] \notin okBlocks
      BY <1>3, <2>1 DEF CountInv
    <3>4. cursor' >= cursor
      BY <1>1, <2>1 DEF TypeOK
    <3> QED BY <1>1, <1>2, <2>1, <3>1, <3>2, <3>3, <3>4, QuietStep
  <2> QED BY <2>3, <2>4
<1>5. CASE Tally(w)
  <2>1. /\ pc[w] = "tally" /\ pc'[w] = "toCursor" /\ main # "returned"
        /\ UNCHANGED <<cursor, pthis, success, okBlocks>>
    BY <1>1, <1>5 DEF Tally, Goto, TypeOK, history, PoolInv, LoopInv, ReturnSafe, Over
  <2>2. pthis[w] \in Blocks
    BY <1>1, <2>1 DEF PoolInv, TakenInv, Busy, TypeOK
  <2>3. \A v \in Workers : pc'[v] = "disambig" => pthis'[v] \notin okBlocks
    BY <1>3, <2>1 DEF CountInv
  <2>4. CASE success[w]
    <3>1. Untallied(pthis[w]) /\ pthis[w] \in okBlocks
      BY <2>1, <2>2, <2>4 DEF Untallied, CountInv
    <3>2. \A b \in Blocks : Untallied(b)' <=> Untallied(b) /\ b # pthis[w]
      BY <1>3, <2>1, <2>4 DEF Untallied, PoolInv, TakenInv, Busy
    <3>3. Tallied' = Tallied \cup {pthis[w]} /\ pthis[w] \notin Tallied
      BY <1>1, <2>1, <3>1, <3>2 DEF Tallied, TypeOK
    <3>4. IsFiniteSet(Tallied)
      <4>1. IsFiniteSet(1 .. NumBlocks)
        BY FS_Interval
      <4>2. Tallied \subseteq 1 .. NumBlocks
        BY <1>1 DEF Tallied, TypeOK
      <4> QED BY <4>1, <4>2, FS_Subset
    <3>5. Cardinality(Tallied') = Cardinality(Tallied) + 1
      BY <3>3, <3>4, FS_AddElement
    <3>6. count' = count + 1
      BY <1>5, <2>4 DEF Tally
    <3> QED BY <1>1, <1>2, <2>1, <2>3, <3>2, <3>5, <3>6 DEF CountInv, Tallied
  <2>5. CASE ~success[w]
    <3>1. \A b \in Blocks : Untallied(b)' <=> Untallied(b)
      BY <1>3, <2>1, <2>5 DEF Untallied
    <3>2. count' = count
      BY <1>5, <2>5 DEF Tally
    <3>3. cursor' >= cursor
      BY <1>1, <2>1 DEF TypeOK
    <3> QED BY <1>1, <1>2, <2>1, <2>3, <3>1, <3>2, <3>3, QuietStep
  <2> QED BY <2>4, <2>5
<1>6. CASE ~WrapperReturns(w) /\ ~Tally(w)
  <2> USE DEF WorkerStep, ThreadEntry, LockForCursor, NoBlockLeft, ReadCursor, AdvanceCursor,
              WrapperThrows, LockForTally, ClearTid, ThreadExit, Goto, shared, workers, history
  <2>1. UNCHANGED <<okBlocks, count, success>> /\ cursor' >= cursor
    BY <1>1, <1>6 DEF TypeOK
  <2>2. \/ pc[w] \notin {"disambig", "toTally", "tally"} /\ pc'[w] \notin {"disambig", "toTally", "tally"}
        \/ pc[w] = "advance" /\ pc'[w] = "disambig" /\ pthis'[w] = cursor
        \/ pc[w] \in Busy /\ pc'[w] = pc[w] /\ pthis' = pthis
        \/ pc[w] = "toTally" /\ pc'[w] = "tally" /\ pthis' = pthis
    BY <1>1, <1>6 DEF TypeOK, PoolInv, CursorInv, Busy
  <2>3. \A b \in Blocks : Untallied(b)' <=> Untallied(b)
    BY ONLY <1>3, <2>1, <2>2 DEF Untallied, Busy
  <2>4. \A v \in Workers : pc'[v] = "disambig" => pthis'[v] \notin okBlocks
    BY ONLY w \in Workers, CountInv, <1>1, <1>3, <2>2 DEF CountInv, Busy, TypeOK
  <2> HIDE DEF WorkerStep
  <2> QED BY <1>1, <1>2, <2>1, <2>3, <2>4, QuietStep
<1> QED BY <1>4, <1>5, <1>6

\* The counter agrees with the successes in every reachable state.
THEOREM CountInvariant == Spec => []CountInv
<1>1. Init => CountInv
  <2> SUFFICES ASSUME Init PROVE CountInv
    OBVIOUS
  <2>1. \A b \in Blocks : ~Untallied(b)
    BY DEF Init, All, Untallied
  <2>2. Tallied = {} /\ okBlocks = {} /\ count = 0 /\ main = "create"
    BY DEF Init, Tallied
  <2>3. \A w \in Workers : pc[w] # "disambig"
    BY DEF Init, All
  <2> QED BY <2>1, <2>2, <2>3, FS_EmptySet DEF CountInv, Tallied
<1>2. PoolInv /\ CountInv /\ [Next]_vars => CountInv'
  <2> SUFFICES ASSUME PoolInv, CountInv, [Next]_vars PROVE CountInv'
    OBVIOUS
  <2>1. CASE UNCHANGED vars
    BY <2>1 DEF vars, shared, workers, caller, history, CountInv, Untallied
  <2> QED BY <2>1, CallerCount, CallAgainCount, WorkerCount DEF Next, Stopped
<1> QED BY <1>1, <1>2, PoolInvariant, PTL DEF Spec

-----------------------------------------------------------------------------
(* The properties.                                                         *)

\* No block is given to two workers and none before the cursor is skipped,
\* for every number of blocks, threads and calls.
THEOREM EveryBlockOnce == Spec => []OnceEach
<1>1. PoolInv => OnceEach
  BY DEF PoolInv
<1> QED BY <1>1, PoolInvariant, PTL

\* When the join loop is over no thread can touch what the call owns, even
\* though join skips the workers whose tid it finds zero.
THEOREM NoThreadSurvivesTheCall == Spec => []ReturnSafe
<1>1. PoolInv => ReturnSafe
  BY DEF PoolInv, LoopInv
<1> QED BY <1>1, PoolInvariant, PTL

\* "Disambiguation done!" is printed only after every block was handled, if
\* any thread was started.
THEOREM DoneMeansHandled == Spec => []AllHandled
<1>1. PoolInv => AllHandled
  BY DEF PoolInv, AllHandled, LoopInv, ReturnSafe, EndInv, OnceEach, Over
<1> QED BY <1>1, PoolInvariant, PTL

\* The printed number is the number of blocks disambiguated with success.
THEOREM ReportIsExact == Spec => []ReportExact
<1>1. CountInv => ReportExact
  BY DEF CountInv, ReportExact
<1> QED BY <1>1, CountInvariant, PTL

-----------------------------------------------------------------------------
(* The implementation of BlockDispatch.                                    *)

\* A step that changes neither the cursor, the set of running blocks nor the
\* phase is a stutter of BlockDispatch.
LEMMA SameView ==
  ASSUME cursor' = cursor, main' = main \/ (main # "returned" /\ main' # "returned"),
         aborted' = aborted,
         \A v \in Workers : pc'[v] = "disambig" <=> pc[v] = "disambig",
         \A v \in Workers : pc[v] = "disambig" => pthis'[v] = pthis[v]
  PROVE  UNCHANGED <<cursor, Running, Phase>>
<1>1. Running' = Running
  BY DEF Running
<1>2. Phase' = Phase
  BY DEF Phase
<1> QED BY <1>1, <1>2

\* The initial state maps to the initial state.
LEMMA DispatchInit == Init => Dispatch!Init
<1> SUFFICES ASSUME Init PROVE Dispatch!Init
  OBVIOUS
<1>1. Running = {}
  BY DEF Init, Running, All
<1>2. Phase = "busy" /\ cursor = 1
  BY DEF Init, Phase
<1> QED BY <1>1, <1>2 DEF Dispatch!Init

\* A step of the calling thread maps to Return, Abort or a stutter.
LEMMA CallerView ==
  ASSUME PoolInv, CallerStep
  PROVE  [Dispatch!Next]_<<cursor, Running, Phase>>
<1>1. TypeOK
  BY DEF PoolInv
<1>2. CASE Report
  <2>1. Running = {} /\ Running' = {}
    BY <1>2 DEF Report, workers, PoolInv, LoopInv, ReturnSafe, Over, Running
  <2>2. cursor = 1 \/ cursor = NumBlocks + 1
    BY <1>2 DEF Report, PoolInv, LoopInv, ReturnSafe, Over, EndInv
  <2>3. cursor' = cursor /\ Phase = "busy" /\ Phase' = "returned"
    BY <1>2 DEF Report, CallerStep, Phase
  <2> QED BY <2>1, <2>2, <2>3 DEF Dispatch!Next, Dispatch!Return
<1>3. CASE JoinInvalid /\ aborted' = TRUE /\ main' = main
  <2>1. cursor' = cursor /\ Running' = Running
    BY <1>3 DEF JoinInvalid, shared, workers, Running
  <2>2. Phase = "busy" /\ Phase' = "aborted"
    BY <1>3 DEF JoinInvalid, CallerStep, Phase
  <2> QED BY <2>1, <2>2 DEF Dispatch!Next, Dispatch!Abort
<1>4. CASE ~Report /\ ~(JoinInvalid /\ aborted' = TRUE /\ main' = main)
  <2> USE DEF CallerStep, StartThread, StoreTid, StartFails, AllStarted, JoinCheck,
              JoinCall, JoinInvalid, JoinReturns, AllJoined, shared, workers, caller, history
  <2>1. cursor' = cursor /\ pthis' = pthis /\ aborted' = aborted
    BY <1>4
  <2>2. main # "returned" /\ main' # "returned"
    BY <1>4
  <2>3. \A v \in Workers : pc'[v] = pc[v] \/ (pc[v] = "idle" /\ pc'[v] = "born")
    BY <1>1, <1>4 DEF PoolInv, LoopInv, TypeOK
  <2> HIDE DEF CallerStep
  <2> QED BY <2>1, <2>2, <2>3, SameView
<1> QED BY <1>2, <1>3, <1>4

\* The next call maps to Restart.
LEMMA CallAgainView ==
  ASSUME PoolInv, ~aborted, CallAgain
  PROVE  [Dispatch!Next]_<<cursor, Running, Phase>>
<1>1. Running = {} /\ Running' = {}
  BY DEF CallAgain, PoolInv, LoopInv, ReturnSafe, Over, Running, All
<1>2. cursor' = 1 /\ Phase = "returned" /\ Phase' = "busy"
  BY DEF CallAgain, Phase
<1> QED BY <1>1, <1>2 DEF Dispatch!Next, Dispatch!Restart

\* A step of a worker maps to Take, Finish, Abort or a stutter.
LEMMA WorkerView ==
  ASSUME PoolInv, NEW w \in Workers, WorkerStep(w)
  PROVE  [Dispatch!Next]_<<cursor, Running, Phase>>
<1>1. TypeOK /\ TypeOK'
  BY TypeStep DEF PoolInv, Next
<1>2. main' = main /\ ~aborted
  BY DEF WorkerStep, ThreadEntry, LockForCursor, NoBlockLeft, ReadCursor, AdvanceCursor,
         WrapperReturns, WrapperThrows, LockForTally, Tally, ClearTid, ThreadExit, caller
<1>3. \A v \in Workers \ {w} : pc'[v] = pc[v] /\ pthis'[v] = pthis[v]
  BY <1>1 DEF TypeOK, WorkerStep, ThreadEntry, LockForCursor, NoBlockLeft, ReadCursor,
         AdvanceCursor, WrapperReturns, WrapperThrows, LockForTally, Tally, ClearTid,
         ThreadExit, Goto, workers
<1>4. pc[w] \in Alive => main # "returned"
  BY DEF PoolInv, LoopInv, ReturnSafe, Alive, Over
<1>5. CASE AdvanceCursor(w)
  <2>1. /\ pc[w] = "advance" /\ pc'[w] = "disambig" /\ aborted' = aborted
        /\ pthis'[w] = cursor /\ cursor \in 1 .. NumBlocks /\ cursor' = cursor + 1
    BY <1>1, <1>5 DEF AdvanceCursor, Goto, TypeOK, PoolInv, CursorInv
  <2>2. Running' = Running \cup {cursor}
    BY <1>3, <2>1 DEF Running
  <2>3. Phase = "busy" /\ Phase' = "busy"
    BY <1>2, <1>4, <2>1 DEF Phase, Alive
  <2> QED BY <2>1, <2>2, <2>3 DEF Dispatch!Next, Dispatch!Take, Dispatch!Blocks
<1>6. CASE WrapperReturns(w)
  <2>1. /\ pc[w] = "disambig" /\ pc'[w] = "toTally" /\ aborted' = aborted
        /\ pthis' = pthis /\ cursor' = cursor
    BY <1>1, <1>6 DEF WrapperReturns, Goto, TypeOK, shared
  <2>2. \A v \in Workers \ {w} : pc[v] = "disambig" => pthis[v] # pthis[w]
    BY <2>1 DEF PoolInv, TakenInv, Busy
  <2>3. pthis[w] \in 1 .. NumBlocks /\ pthis[w] \in Running
    BY <1>1, <2>1 DEF PoolInv, TakenInv, Busy, TypeOK, Running
  <2>4. Running' = Running \ {pthis[w]}
    BY <1>3, <2>1, <2>2 DEF Running
  <2>5. Phase = "busy" /\ Phase' = "busy"
    BY <1>2, <1>4, <2>1 DEF Phase, Alive
  <2> QED BY <2>1, <2>3, <2>4, <2>5 DEF Dispatch!Next, Dispatch!Finish, Dispatch!Blocks
<1>7. CASE WrapperThrows(w)
  <2>1. cursor' = cursor /\ Running' = Running
    BY <1>7 DEF WrapperThrows, shared, workers, Running
  <2>2. Phase = "busy" /\ Phase' = "aborted"
    BY <1>2, <1>4, <1>7 DEF WrapperThrows, Phase, Alive
  <2> QED BY <2>1, <2>2 DEF Dispatch!Next, Dispatch!Abort
<1>8. CASE ~AdvanceCursor(w) /\ ~WrapperReturns(w) /\ ~WrapperThrows(w)
  <2> USE DEF WorkerStep, ThreadEntry, LockForCursor, NoBlockLeft, ReadCursor,
              LockForTally, Tally, ClearTid, ThreadExit, Goto, shared, workers, history
  <2>1. cursor' = cursor /\ aborted' = aborted
    BY <1>8
  <2>2. pc[w] # "disambig" /\ pc'[w] # "disambig"
    BY <1>1, <1>8 DEF TypeOK
  <2> HIDE DEF WorkerStep
  <2> QED BY <1>2, <1>3, <2>1, <2>2, SameView
<1> QED BY <1>5, <1>6, <1>7, <1>8

\* The threads, the lock, the start and join loops and the restarts together
\* implement BlockDispatch.
THEOREM PoolImplementsDispatch == Spec => ImplementsDispatch
<1>1. Init => Dispatch!Init
  BY DispatchInit
<1>2. PoolInv /\ [Next]_vars => [Dispatch!Next]_<<cursor, Running, Phase>>
  <2> SUFFICES ASSUME PoolInv, [Next]_vars
               PROVE  [Dispatch!Next]_<<cursor, Running, Phase>>
    OBVIOUS
  <2>1. CASE UNCHANGED vars
    BY <2>1 DEF vars, shared, workers, caller, Running, Phase
  <2> QED BY <2>1, CallerView, CallAgainView, WorkerView DEF Next, Stopped
<1> QED BY <1>1, <1>2, PoolInvariant, PTL
        DEF ImplementsDispatch, Dispatch!Spec, Dispatch!dvars, Spec
-----------------------------------------------------------------------------
(* A call takes finitely many steps.                                       *)

\* What is left to do in all, the coarsest first: the calls, aborting, the
\* caller's loops, their index and the steps of a turn, and the blocks.
LoopsLeft ==
  CASE main \in {"create", "store"} -> 3
    [] main \in {"check", "join", "wait"} -> 2
    [] main = "report" -> 1
    [] OTHER -> 0
TurnLeft == CASE main = "check" -> 2 [] main \in {"create", "join"} -> 1 [] OTHER -> 0
CallLeft ==
  <<MaxCalls - call, IF aborted THEN 0 ELSE 1, LoopsLeft, NumThreads + 1 - mi, TurnLeft,
    End - cursor>>

\* What is left to do for a worker until the cursor moves or it is gone.
StepsLeft(where) ==
  CASE where = "disambig" -> 8
    [] where = "toTally"  -> 7
    [] where = "tally"    -> 6
    [] where = "born"     -> 6
    [] where = "toCursor" -> 5
    [] where = "atCursor" -> 4
    [] where = "advance"  -> 3
    [] where = "leaving"  -> 2
    [] where = "left"     -> 1
    [] OTHER             -> 0

\* The workers come last, in any order: a step is one worker's.
PoolMeasure ==
  [k \in 1 .. 6 + NumThreads |-> IF k <= 6 THEN CallLeft[k] ELSE StepsLeft(pc[k - 6])]

LEMMA PoolMeasureNat == PoolInv => \A k \in 1 .. 6 + NumThreads : PoolMeasure[k] \in Nat
<1> SUFFICES ASSUME PoolInv, NEW k \in 1 .. 6 + NumThreads PROVE PoolMeasure[k] \in Nat
  OBVIOUS
<1>1. PoolMeasure[k] = IF k <= 6 THEN CallLeft[k] ELSE StepsLeft(pc[k - 6])
  BY DEF PoolMeasure
<1>2. MaxCalls - call \in Nat /\ NumThreads + 1 - mi \in Nat /\ End - cursor \in Nat
  BY DEF PoolInv, TypeOK
<1>3. LoopsLeft \in Nat /\ TurnLeft \in Nat
  BY DEF LoopsLeft, TurnLeft
<1>4. CASE k <= 6
  BY <1>1, <1>2, <1>3, <1>4 DEF CallLeft
<1>5. CASE ~ (k <= 6)
  BY <1>1, <1>5 DEF StepsLeft
<1> QED
  BY <1>4, <1>5

LEMMA CallFirst ==
  ASSUME LexLess(CallLeft', CallLeft, 6)
  PROVE  LexLess(PoolMeasure', PoolMeasure, 6 + NumThreads)
<1>1. PICK k \in 1 .. 6 : CallLeft'[k] < CallLeft[k] /\ \A j \in 1 .. k - 1 : CallLeft'[j] = CallLeft[j]
  BY DEF LexLess
<1>2. \A j \in 1 .. 6 : PoolMeasure'[j] = CallLeft'[j] /\ PoolMeasure[j] = CallLeft[j]
  BY DEF PoolMeasure
<1>3. k \in 1 .. 6 + NumThreads /\ \A j \in 1 .. k - 1 : j \in 1 .. 6
  OBVIOUS
<1> HIDE DEF PoolMeasure, CallLeft
<1> QED
  BY <1>1, <1>2, <1>3 DEF LexLess

LEMMA WorkerNext ==
  ASSUME NEW w \in Workers, CallLeft' = CallLeft,
         StepsLeft(pc'[w]) < StepsLeft(pc[w]),
         \A v \in Workers : v # w => pc'[v] = pc[v]
  PROVE  LexLess(PoolMeasure', PoolMeasure, 6 + NumThreads)
<1> DEFINE k == 6 + w
<1>1. k \in 1 .. 6 + NumThreads /\ ~ (k <= 6) /\ k - 6 = w
  OBVIOUS
<1>2. PoolMeasure'[k] = StepsLeft(pc'[w]) /\ PoolMeasure[k] = StepsLeft(pc[w])
  BY <1>1 DEF PoolMeasure
<1>3. ASSUME NEW j \in 1 .. k - 1 PROVE PoolMeasure'[j] = PoolMeasure[j]
  <2>1. CASE j <= 6
    BY <1>1, <2>1 DEF PoolMeasure
  <2>2. CASE ~ (j <= 6)
    <3>1. j - 6 \in Workers /\ j - 6 # w
      BY <2>2
    <3> QED
      BY <1>1, <2>2, <3>1 DEF PoolMeasure
  <2> QED
    BY <2>1, <2>2
<1> HIDE DEF k
<1>4. PoolMeasure'[k] < PoolMeasure[k]
  BY <1>2
<1> QED
  BY <1>1, <1>3, <1>4 DEF LexLess

LEMMA CallerDescends ==
  ASSUME PoolInv, CallerStep \/ (~aborted /\ CallAgain)
  PROVE  LexLess(CallLeft', CallLeft, 6)
<1>0. /\ mi \in 1 .. NumThreads + 1 /\ call \in 1 .. MaxCalls /\ cursor \in 1 .. End
      /\ main \in {"store", "join", "wait"} => mi \in Workers
      /\ ~aborted
  BY DEF PoolInv, TypeOK, LoopInv, CallerStep
<1>1. CASE StartThread \/ StoreTid \/ StartFails
  <2>1. call' = call /\ aborted' = aborted /\ LoopsLeft' = LoopsLeft
    BY <1>1 DEF StartThread, StoreTid, StartFails, LoopsLeft
  <2>2. mi' = mi + 1 \/ (mi' = mi /\ TurnLeft' < TurnLeft)
    BY <1>1 DEF StartThread, StoreTid, StartFails, TurnLeft
  <2> QED
    BY <1>0, <2>1, <2>2, LexSix DEF CallLeft
<1>2. CASE AllStarted \/ AllJoined \/ Report
  <2>1. call' = call /\ aborted' = aborted /\ LoopsLeft' < LoopsLeft
    BY <1>2 DEF AllStarted, AllJoined, Report, LoopsLeft
  <2> QED
    BY <1>0, <2>1, LexSix DEF CallLeft
<1>3. CASE JoinCheck \/ JoinCall \/ JoinReturns
  <2>1. call' = call /\ aborted' = aborted /\ LoopsLeft' = LoopsLeft
    BY <1>3 DEF JoinCheck, JoinCall, JoinReturns, LoopsLeft
  <2>2. mi' = mi + 1 \/ (mi' = mi /\ TurnLeft' < TurnLeft)
    BY <1>3 DEF JoinCheck, JoinCall, JoinReturns, TurnLeft
  <2> QED
    BY <1>0, <2>1, <2>2, LexSix DEF CallLeft
<1>4. CASE JoinInvalid
  <2>1. call' = call
    BY <1>4 DEF JoinInvalid
  <2>2. aborted' \/ (aborted' = aborted /\ LoopsLeft' = LoopsLeft /\ mi' = mi + 1)
    BY <1>4 DEF JoinInvalid, LoopsLeft
  <2> QED
    BY <1>0, <2>1, <2>2, LexSix DEF CallLeft
<1>5. CASE CallAgain
  BY <1>0, <1>5, LexSix DEF CallAgain, CallLeft
<1> QED
  BY <1>1, <1>2, <1>3, <1>4, <1>5 DEF CallerStep

LEMMA WorkerDescends ==
  ASSUME PoolInv, NEW w \in Workers, WorkerStep(w)
  PROVE  LexLess(PoolMeasure', PoolMeasure, 6 + NumThreads)
<1>0. cursor \in 1 .. End /\ pc \in [Workers -> Alive \cup Over] /\ ~aborted
  BY DEF PoolInv, TypeOK, WorkerStep
<1>1. CASE AdvanceCursor(w) \/ WrapperThrows(w)
  <2>1. /\ call' = call /\ mi' = mi /\ LoopsLeft' = LoopsLeft /\ TurnLeft' = TurnLeft
        /\ aborted' \/ (aborted' = aborted /\ cursor' = cursor + 1)
    BY <1>1 DEF AdvanceCursor, WrapperThrows, caller, LoopsLeft, TurnLeft
  <2>2. LexLess(CallLeft', CallLeft, 6)
    BY <1>0, <2>1, LexSix DEF CallLeft
  <2> QED
    BY <2>2, CallFirst
<1>2. CASE \/ ThreadEntry(w) \/ LockForCursor(w) \/ NoBlockLeft(w) \/ ReadCursor(w)
           \/ WrapperReturns(w) \/ LockForTally(w) \/ Tally(w) \/ ClearTid(w) \/ ThreadExit(w)
  <2> USE DEF ThreadEntry, LockForCursor, NoBlockLeft, ReadCursor, WrapperReturns,
              LockForTally, Tally, ClearTid, ThreadExit, Goto, caller, shared
  <2>1. CallLeft' = CallLeft
    BY <1>2 DEF CallLeft, LoopsLeft, TurnLeft
  <2>2. \A v \in Workers : v # w => pc'[v] = pc[v]
    BY <1>0, <1>2
  <2>3. StepsLeft(pc'[w]) < StepsLeft(pc[w])
    BY <1>0, <1>2 DEF StepsLeft
  <2> QED
    BY <2>1, <2>2, <2>3, WorkerNext
<1> QED
  BY <1>1, <1>2 DEF WorkerStep

\* In every interleaving every step of the caller and of the workers leaves less
\* to do, in an order in which nothing decreases for ever (NoDescent): a worker
\* takes iter_lock finitely often, and a call cannot go on for ever.
THEOREM PoolDescends ==
  Spec => /\ [](\A k \in 1 .. 6 + NumThreads : PoolMeasure[k] \in Nat)
          /\ [][LexLess(PoolMeasure', PoolMeasure, 6 + NumThreads)]_vars
<1>1. PoolInv /\ [Next]_vars => [LexLess(PoolMeasure', PoolMeasure, 6 + NumThreads)]_vars
  BY CallerDescends, CallFirst, WorkerDescends DEF Next, Stopped
<1> QED
  BY <1>1, PoolMeasureNat, PoolInvariant, PTL DEF Spec

-----------------------------------------------------------------------------
(* The disambiguation of a block. *)

HIDE PoolAssumption DEF Blocks, Workers, End, NoOne, Zero, Own, Garbage
USE BlockAssumption

-----------------------------------------------------------------------------
(* The list is finite and loses one node when one is erased.               *)

LEMMA NodesFinite ==
  IsFiniteSet(Nodes) /\ Cardinality(Nodes) = NumClusters
<1>1. NumClusters \in Int /\ 1 \in Int
  OBVIOUS
<1>2. IsFiniteSet(1 .. NumClusters)
      /\ Cardinality(1 .. NumClusters) = IF 1 > NumClusters THEN 0 ELSE NumClusters - 1 + 1
  BY <1>1, FS_Interval
<1> QED  BY <1>2 DEF Nodes

LEMMA ListFinite ==
  ASSUME alive \in SUBSET Nodes
  PROVE  IsFiniteSet(alive) /\ Cardinality(alive) \in 0 .. NumClusters
<1>1. IsFiniteSet(alive) /\ Cardinality(alive) <= Cardinality(Nodes)
  BY NodesFinite, FS_Subset
<1>2. Cardinality(alive) \in Nat
  BY <1>1, FS_CardinalityType
<1> QED  BY <1>1, <1>2, NodesFinite

LEMMA EraseOne ==
  ASSUME alive \in SUBSET Nodes, NEW n \in alive
  PROVE  Cardinality(alive \ {n}) = Cardinality(alive) - 1
BY ListFinite, FS_RemoveElement

LEMMA ListEmpty ==
  ASSUME alive \in SUBSET Nodes, Cardinality(alive) = 0
  PROVE  alive = {}
BY ListFinite, FS_EmptySet

-----------------------------------------------------------------------------
(* Type correctness and the iterators.                                     *)

LEMMA InitInv == LoopInit => BlockInv
<1> SUFFICES ASSUME LoopInit PROVE BlockInv
  OBVIOUS
<1>1. LoopTypeOK
  BY DEF LoopInit, LoopTypeOK, CopiedLocs, Nodes, ListEnd, Outcomes
<1>2. Conserved
  BY DEF LoopInit, Conserved, Nodes
<1>3. IterInv
  BY DEF LoopInit, IterInv, IteratorsValid
<1>4. SizeInv
  BY NodesFinite DEF LoopInit, SizeInv, Base, Nodes
<1>5. ClearedInv
  BY DEF LoopInit, ClearedInv, SuccessIsFixpoint
<1>6. RoundInv
  BY DEF LoopInit, RoundInv, Base, EveryPassMerged
<1> QED  BY <1>1, <1>2, <1>3, <1>4, <1>5, <1>6 DEF BlockInv

\* Where ++ takes an iterator.
LEMMA NextNode ==
  ASSUME alive \in SUBSET Nodes, NEW k \in 0 .. ListEnd, NEW x \in alive \cup {ListEnd}, IsNext(k, x)
  PROVE  x \in 0 .. ListEnd /\ k < x
BY DEF IsNext, Nodes, ListEnd

LEMMA LoopTypeStep ==
  ASSUME LoopTypeOK, IterInv, Step
  PROVE  LoopTypeOK'
<1> USE DEF LoopTypeOK, list, Outcomes
<1>1. CASE Refuse
  BY <1>1 DEF Refuse
<1>2. CASE Enter
  BY <1>2 DEF Enter
<1>3. CASE StartPass
  <2>1. 0 \in 0 .. ListEnd
    BY DEF ListEnd
  <2> QED  BY <1>3, <2>1, NextNode DEF StartPass
<1>4. CASE StartInner
  BY <1>4, NextNode DEF StartInner
<1>5. CASE EndInner
  BY <1>5, NextNode DEF EndInner
<1>6. CASE Merge
  <2>1. first \in Nodes /\ second \in Nodes
    BY <1>6 DEF Merge, IterInv, IteratorsValid, Nodes, ListEnd
  <2>2. members' \in [Nodes -> SUBSET Records]
    BY <1>6, <2>1 DEF Merge
  <2>3. ASSUME NEW ms \in SUBSET Records PROVE LocationsOf(ms) \in SUBSET Places
    BY DEF LocationsOf
  <2>4. locs' \in [Nodes -> SUBSET Places]
    BY <1>6, <2>1, <2>3 DEF Merge
  <2>5. second' \in 0 .. ListEnd
    BY <1>6, NextNode DEF Merge
  <2> QED  BY <1>6, <2>2, <2>4, <2>5 DEF Merge
<1>7. CASE Keep
  <2>1. first \in Nodes /\ second \in Nodes
    BY <1>7 DEF Keep, IterInv, IteratorsValid, Nodes, ListEnd
  <2>2. second' \in 0 .. ListEnd
    BY <1>7, NextNode DEF Keep
  <2>3. \A p \in cleared' : p.a \in SUBSET Records /\ p.b \in SUBSET Records
    BY <1>7, <2>1 DEF Keep, Pair
  <2> QED  BY <1>7, <2>2, <2>3 DEF Keep
<1>8. CASE CompareThrows
  BY <1>8 DEF CompareThrows
<1>9. CASE PassAgain
  <2>1. newSize' \in 0 .. NumClusters
    BY <1>9, ListFinite DEF PassAgain, PassEnds
  <2>2. round' \in 0 .. MaxRounds
    BY <1>9 DEF PassAgain, PassEnds, IterInv, Working
  <2> QED  BY <1>9, <2>1, <2>2 DEF PassAgain, PassEnds
<1>10. CASE NextThreshold
  <2>1. newSize' \in 0 .. NumClusters
    BY <1>10, ListFinite DEF NextThreshold, PassEnds
  <2> QED  BY <1>10, <2>1 DEF NextThreshold, PassEnds
<1> QED  BY <1>1, <1>2, <1>3, <1>4, <1>5, <1>6, <1>7, <1>8, <1>9, <1>10 DEF Step

LEMMA ConservedStep ==
  ASSUME LoopTypeOK, Conserved, IterInv, Step
  PROVE  Conserved'
<1>1. CASE Merge
  <2>1. first \in alive /\ second \in alive /\ first # second /\ alive \subseteq Nodes
        /\ members \in [Nodes -> SUBSET Records]
    BY <1>1 DEF Merge, IterInv, IteratorsValid, LoopTypeOK, ListEnd, Nodes
  <2>2. alive' = alive \ {second}
    BY <1>1 DEF Merge
  <2>3. /\ members'[first] = members[first] \cup members[second]
        /\ \A n \in alive \ {first, second} : members'[n] = members[n]
    BY <1>1, <2>1 DEF Merge
  <2>4. ASSUME NEW r \in Records PROVE \E n \in alive' : r \in members'[n]
    <3>1. PICK n \in alive : r \in members[n]
      BY DEF Conserved
    <3>2. CASE n \in {first, second}
      BY <2>1, <2>2, <2>3, <3>1, <3>2
    <3>3. CASE n \notin {first, second}
      BY <2>1, <2>2, <2>3, <3>1, <3>3
    <3> QED  BY <3>2, <3>3
  <2>5. ASSUME NEW m \in alive', NEW n \in alive', m # n
        PROVE  members'[m] \cap members'[n] = {}
    <3>1. \A k \in alive \ {first, second} :
            members[k] \cap members[first] = {} /\ members[k] \cap members[second] = {}
      BY <2>1 DEF Conserved
    <3>2. CASE m # first /\ n # first
      BY <2>2, <2>3, <2>5, <3>2 DEF Conserved
    <3>3. CASE m = first \/ n = first
      BY <2>2, <2>3, <2>5, <3>1, <3>3
    <3> QED  BY <3>2, <3>3
  <2>6. ASSUME NEW n \in alive' PROVE members'[n] # {}
    BY <2>1, <2>2, <2>3 DEF Conserved
  <2> QED  BY <2>4, <2>5, <2>6 DEF Conserved
<1>2. CASE ~Merge
  <2>1. UNCHANGED <<alive, members>>
    BY <1>2 DEF Step, Refuse, Enter, StartPass, StartInner, EndInner, Keep, CompareThrows,
                PassAgain, NextThreshold, list
  <2> QED  BY <2>1 DEF Conserved
<1> QED  BY <1>1, <1>2

LEMMA IterStep ==
  ASSUME LoopTypeOK, IterInv, Step
  PROVE  IterInv'
<1> USE DEF IterInv, IteratorsValid, Working, list
<1>1. CASE Refuse
  BY <1>1 DEF Refuse
<1>2. CASE Enter
  BY <1>2 DEF Enter
<1>3. CASE StartPass
  BY <1>3 DEF StartPass
<1>4. CASE StartInner
  BY <1>4 DEF StartInner, IsNext
<1>5. CASE EndInner
  BY <1>5 DEF EndInner
<1>6. CASE Merge
  <2>1. first \in alive /\ second \in alive /\ first < second
        /\ first \in Nat /\ second \in Nat /\ alive \subseteq Nat
    BY <1>6 DEF Merge, LoopTypeOK, Nodes, ListEnd
  <2>2. PICK x \in alive \cup {ListEnd} : IsNext(second, x) /\ second' = x
    BY <1>6 DEF Merge
  <2>3. x \in Nat /\ second < x
    BY <2>1, <2>2 DEF IsNext, ListEnd
  <2>4. second' \in (alive \cup {ListEnd}) \ {second} /\ first < second'
    BY <2>1, <2>2, <2>3
  <2>5. alive' = alive \ {second} /\ first' = first /\ at' = at /\ round' = round
    BY <1>6 DEF Merge
  <2>6. first # second
    BY <2>1
  <2> QED  BY <1>6, <2>1, <2>4, <2>5, <2>6 DEF Merge
<1>7. CASE Keep
  <2>1. first \in alive /\ second \in alive /\ first < second
        /\ first \in Nat /\ second \in Nat /\ alive \subseteq Nat
    BY <1>7 DEF Keep, LoopTypeOK, Nodes, ListEnd
  <2>2. PICK x \in alive \cup {ListEnd} : IsNext(second, x) /\ second' = x
    BY <1>7 DEF Keep
  <2>3. x \in Nat /\ first < x
    BY <2>1, <2>2 DEF IsNext, ListEnd
  <2> QED  BY <1>7, <2>1, <2>2, <2>3 DEF Keep
<1>8. CASE CompareThrows
  BY <1>8 DEF CompareThrows
<1>9. CASE PassAgain
  BY <1>9 DEF PassAgain, PassEnds, LoopTypeOK
<1>10. CASE NextThreshold
  BY <1>10 DEF NextThreshold, PassEnds
<1> QED  BY <1>1, <1>2, <1>3, <1>4, <1>5, <1>6, <1>7, <1>8, <1>9, <1>10 DEF Step

-----------------------------------------------------------------------------
(* The length of the list.                                                 *)

LEMMA SizeStep ==
  ASSUME LoopTypeOK, IterInv, SizeInv, Step
  PROVE  SizeInv'
<1> USE DEF list
<1>0. /\ alive \in SUBSET Nodes /\ Cardinality(alive) \in 0 .. NumClusters
      /\ newSize \in Nat /\ NumClusters \in Nat
  BY ListFinite DEF LoopTypeOK
<1>1. CASE Refuse \/ Enter \/ CompareThrows
  BY <1>1 DEF Refuse, Enter, CompareThrows, SizeInv, Base
<1>2. CASE StartPass
  BY <1>2 DEF StartPass, SizeInv, Base
<1>3. CASE StartInner \/ EndInner \/ Keep
  BY <1>3 DEF StartInner, EndInner, Keep, SizeInv, Base
<1>4. CASE Merge
  <2>1. first \in alive /\ second \in alive /\ first # second
    BY <1>4 DEF Merge, IterInv, IteratorsValid, LoopTypeOK, ListEnd, Nodes
  <2>2. alive' = alive \ {second} /\ Cardinality(alive') = Cardinality(alive) - 1
    BY <1>0, <1>4, <2>1, EraseOne DEF Merge
  <2>3. Base' = Base /\ Base \in Nat
    BY <1>0, <1>4 DEF Merge, Base
  <2>4. Cardinality(alive') <= Base'
    BY <1>0, <2>2, <2>3 DEF SizeInv
  <2> QED  BY <1>4, <2>1, <2>2, <2>4 DEF Merge, SizeInv
<1>5. CASE PassAgain \/ NextThreshold
  <2>1. alive' = alive /\ newSize' = Cardinality(alive) /\ at' \notin {"outer", "inner"}
    BY <1>5 DEF PassAgain, NextThreshold, PassEnds
  <2>2. Cardinality(alive') <= Base'
    BY <1>0, <2>1 DEF Base
  <2> QED  BY <2>1, <2>2 DEF SizeInv
<1> QED  BY <1>1, <1>2, <1>3, <1>4, <1>5 DEF Step

-----------------------------------------------------------------------------
(* A pass that merges nothing clears every pair.                           *)

\* What an iterator does not jump over.
LEMMA NothingBetween ==
  ASSUME alive \in SUBSET Nodes, NEW k \in 0 .. ListEnd, NEW x \in alive \cup {ListEnd}, IsNext(k, x),
         NEW y \in alive, y < x
  PROVE  y <= k
BY DEF IsNext, Nodes, ListEnd

LEMMA ClearedStep ==
  ASSUME LoopTypeOK, IterInv, SizeInv, ClearedInv, Step
  PROVE  ClearedInv'
<1> USE DEF list
<1>0. /\ alive \in SUBSET Nodes /\ Cardinality(alive) \in 0 .. NumClusters
      /\ newSize \in Nat /\ NumClusters \in Nat
      /\ first \in 0 .. ListEnd /\ second \in 0 .. ListEnd
      /\ \A n \in alive : n \in Nat /\ 0 < n /\ n < ListEnd
  BY ListFinite DEF LoopTypeOK, Nodes, ListEnd
<1>1. CASE Refuse \/ Enter \/ CompareThrows
  BY <1>1 DEF Refuse, Enter, CompareThrows, ClearedInv, SuccessIsFixpoint
<1>2. CASE StartPass
  <2>1. PICK x \in alive \cup {ListEnd} : IsNext(0, x) /\ first' = x
    BY <1>2 DEF StartPass
  <2>2. \A m \in alive : ~(m < x)
    <3>1. 0 \in 0 .. ListEnd
      BY DEF ListEnd
    <3>2. ASSUME NEW m \in alive, m < x PROVE m <= 0
      BY <1>0, <2>1, <3>1, <3>2, NothingBetween
    <3> QED  BY <1>0, <3>2
  <2> QED  BY <1>2, <2>1, <2>2 DEF StartPass, ClearedInv, SuccessIsFixpoint, Passed
<1>3. CASE StartInner
  <2>1. PICK x \in alive \cup {ListEnd} : IsNext(first, x) /\ second' = x
    BY <1>3 DEF StartInner
  <2>2. ASSUME NEW n \in alive, n < x PROVE n <= first
    BY <1>0, <2>1, <2>2, NothingBetween
  <2>3. \A m, n \in alive : m < n /\ Passed(m, n)' => Passed(m, n)
    BY <1>0, <1>3, <2>1, <2>2 DEF StartInner, Passed
  <2>4. \A m, n \in alive : Pair(m, n)' = Pair(m, n)
    BY <1>3 DEF StartInner, Pair
  <2> QED  BY <1>3, <2>3, <2>4 DEF StartInner, ClearedInv, SuccessIsFixpoint, Base
<1>4. CASE EndInner
  <2>1. PICK x \in alive \cup {ListEnd} : IsNext(first, x) /\ first' = x
    BY <1>4 DEF EndInner
  <2>2. ASSUME NEW n \in alive, n < x PROVE n <= first
    BY <1>0, <2>1, <2>2, NothingBetween
  <2>3. \A m, n \in alive : m < n /\ Passed(m, n)' => Passed(m, n)
    BY <1>0, <1>4, <2>1, <2>2 DEF EndInner, Passed
  <2>4. \A m, n \in alive : Pair(m, n)' = Pair(m, n)
    BY <1>4 DEF EndInner, Pair
  <2> QED  BY <1>4, <2>3, <2>4 DEF EndInner, ClearedInv, SuccessIsFixpoint, Base
<1>5. CASE Merge
  <2>1. second \in alive
    BY <1>5 DEF Merge, IterInv, IteratorsValid
  <2>2. Cardinality(alive') = Cardinality(alive) - 1
    BY <1>0, <1>5, <2>1, EraseOne DEF Merge
  <2>3. Base' = Base /\ Base \in Nat
    BY <1>0, <1>5 DEF Merge, Base
  <2>4. Cardinality(alive') # Base'
    BY <1>0, <2>2, <2>3 DEF SizeInv
  <2> QED  BY <1>5, <2>4 DEF Merge, ClearedInv, SuccessIsFixpoint
<1>6. CASE Keep
  <2>1. PICK x \in alive \cup {ListEnd} : IsNext(second, x) /\ second' = x
    BY <1>6 DEF Keep
  <2>2. ASSUME NEW n \in alive, n < x PROVE n <= second
    BY <1>0, <2>1, <2>2, NothingBetween
  <2>3. \A m, n \in alive : m < n /\ Passed(m, n)' => Passed(m, n) \/ (m = first /\ n = second)
    BY <1>0, <1>6, <2>1, <2>2 DEF Keep, Passed
  <2>4. \A m, n \in alive : Pair(m, n)' = Pair(m, n)
    BY <1>6 DEF Keep, Pair
  <2>5. cleared' = cleared \cup {Pair(first, second)}
    BY <1>6 DEF Keep
  <2> QED  BY <1>6, <2>3, <2>4, <2>5 DEF Keep, ClearedInv, SuccessIsFixpoint, Base
<1>7. CASE PassAgain
  BY <1>7 DEF PassAgain, PassEnds, ClearedInv, SuccessIsFixpoint
<1>8. CASE NextThreshold
  <2>1. /\ first = ListEnd /\ newSize' = Cardinality(alive) /\ newSize' = curSize /\ at = "outer"
        /\ UNCHANGED list
    BY <1>8 DEF NextThreshold, PassEnds
  <2>2. Cardinality(alive) = Base
    <3>1. newSize = Cardinality(alive)
      BY <2>1 DEF SizeInv
    <3>2. CASE newSize = 0
      <4>1. alive = {}
        BY <1>0, <3>1, <3>2, ListEmpty
      <4> QED  BY <3>1, <3>2, <4>1 DEF SizeInv, Base
    <3>3. CASE newSize # 0
      BY <3>1, <3>3 DEF Base
    <3> QED  BY <3>2, <3>3
  <2>3. \A m, n \in alive : m < n => Pair(m, n) \in cleared
    BY <1>0, <2>1, <2>2 DEF ClearedInv, Passed
  <2>4. \A m, n \in alive : Pair(m, n)' = Pair(m, n)
    BY <2>1 DEF Pair
  <2> QED  BY <1>8, <2>1, <2>3, <2>4 DEF NextThreshold, ClearedInv, SuccessIsFixpoint
<1> QED  BY <1>1, <1>2, <1>3, <1>4, <1>5, <1>6, <1>7, <1>8 DEF Step

-----------------------------------------------------------------------------
(* Passes and merges.                                                      *)

LEMMA RoundStep ==
  ASSUME LoopTypeOK, IterInv, SizeInv, ClearedInv, RoundInv, Step
  PROVE  RoundInv'
<1> USE DEF list
<1>0. /\ alive \in SUBSET Nodes /\ Cardinality(alive) \in 0 .. NumClusters
      /\ newSize \in 0 .. NumClusters /\ NumClusters \in Nat /\ round \in Nat
      /\ \A n \in alive : n \in Nat /\ 0 < n /\ n < ListEnd
  BY ListFinite DEF LoopTypeOK, Nodes, ListEnd
<1>1. CASE Refuse \/ CompareThrows
  BY <1>1 DEF Refuse, CompareThrows, RoundInv, EveryPassMerged, Working
<1>2. CASE Enter \/ StartPass \/ StartInner \/ EndInner
  <2>1. UNCHANGED <<list, round, newSize, cleared>> /\ at \in Working /\ at' # "exceeded"
    BY <1>2 DEF Enter, StartPass, StartInner, EndInner, Working
  <2> QED  BY <2>1 DEF RoundInv, EveryPassMerged, Base, AllCleared, Pair
<1>3. CASE Merge
  <2>1. first \in alive /\ second \in alive /\ first < second
    BY <1>3 DEF Merge, IterInv, IteratorsValid
  <2>2. ~AllCleared
    BY <1>3, <2>1 DEF Merge, AllCleared
  <2> QED  BY <1>3, <2>2 DEF Merge, RoundInv, EveryPassMerged, Base, Working
<1>4. CASE Keep
  <2>1. UNCHANGED <<list, round, newSize>> /\ at = "inner" /\ at' = "inner"
        /\ cleared \subseteq cleared'
    BY <1>4 DEF Keep
  <2>2. AllCleared => AllCleared'
    BY <2>1 DEF AllCleared, Pair
  <2> QED  BY <2>1, <2>2 DEF RoundInv, EveryPassMerged, Base, Working
<1>5. CASE PassAgain
  <2>1. /\ at = "outer" /\ first = ListEnd /\ round' = round + 1
        /\ newSize' = Cardinality(alive) /\ newSize' # curSize
        /\ UNCHANGED <<list, cleared>>
        /\ at' = "exceeded" => round' = MaxRounds
    BY <1>5 DEF PassAgain, PassEnds
  <2>2. curSize = newSize /\ Cardinality(alive) <= Base
    BY <2>1 DEF SizeInv
  <2>3. newSize' # 0
    <3>1. ASSUME Cardinality(alive) = 0 PROVE FALSE
      <4>1. alive = {}
        BY <1>0, <3>1, ListEmpty
      <4> QED  BY <1>0, <2>1, <2>2, <3>1, <4>1 DEF SizeInv
    <3> QED  BY <2>1, <3>1
  <2>4. Base' = Cardinality(alive) /\ Cardinality(alive') = Cardinality(alive)
    BY <2>1, <2>3 DEF Base
  <2>5. CASE Cardinality(alive) = Base
    <3>1. newSize = 0 /\ Base = NumClusters
      BY <2>1, <2>2, <2>5 DEF Base
    <3>2. round = 0
      BY <1>0, <2>1, <3>1 DEF RoundInv, Working
    <3>3. AllCleared
      BY <1>0, <2>1, <2>5 DEF ClearedInv, Passed, AllCleared
    <3>4. AllCleared'
      BY <2>1, <3>3 DEF AllCleared, Pair
    <3>5. round' <= NumClusters - Base' + 1
      BY <1>0, <2>1, <2>4, <2>5, <3>1, <3>2
    <3>6. EveryPassMerged'
      BY <2>1, <3>2 DEF EveryPassMerged
    <3> QED  BY <2>3, <2>4, <3>4, <3>5, <3>6 DEF RoundInv
  <2>6. CASE Cardinality(alive) # Base
    <3>1. round <= NumClusters - Base /\ Base \in Nat
      BY <1>0, <2>1, <2>6 DEF RoundInv, Working, Base
    <3>2. round' <= NumClusters - Base'
      BY <1>0, <2>1, <2>2, <2>4, <2>6, <3>1
    <3>3. NumClusters >= Cardinality(alive') + round'
      BY <1>0, <2>1, <2>4, <3>2
    <3>4. EveryPassMerged'
      BY <2>1, <3>3 DEF EveryPassMerged
    <3> QED  BY <3>2, <3>4 DEF RoundInv
  <2> QED  BY <2>5, <2>6
<1>6. CASE NextThreshold
  <2>1. /\ newSize' = Cardinality(alive) /\ at' \in {"pass", "success"}
        /\ at' = "pass" => round' = 0
    BY <1>6 DEF NextThreshold, PassEnds
  <2>2. Base' <= NumClusters /\ Base' \in Nat
    BY <1>0, <2>1 DEF Base
  <2> QED  BY <2>1, <2>2 DEF RoundInv, EveryPassMerged, Working
<1> QED  BY <1>1, <1>2, <1>3, <1>4, <1>5, <1>6 DEF Step

-----------------------------------------------------------------------------
(* Theorems.                                                               *)

\* BlockInv holds in every reachable state: the list is a partition of the
\* block's records, iterators are valid, passes are bounded by merges.
THEOREM BlockInvariant == LoopSpec => []BlockInv
<1>1. BlockInv /\ [LoopNext]_loopVars => BlockInv'
  <2> SUFFICES ASSUME BlockInv, [LoopNext]_loopVars PROVE BlockInv'
    OBVIOUS
  <2>1. CASE Step
    BY <2>1, LoopTypeStep, ConservedStep, IterStep, SizeStep, ClearedStep, RoundStep DEF BlockInv
  <2>2. CASE UNCHANGED loopVars
    BY <2>2 DEF BlockInv, LoopTypeOK, Conserved, IterInv, IteratorsValid, SizeInv, Base,
                ClearedInv, SuccessIsFixpoint, Passed, Pair, RoundInv, AllCleared,
                EveryPassMerged, loopVars
  <2> QED  BY <2>1, <2>2 DEF LoopNext, Returned
<1> QED  BY InitInv, <1>1, PTL DEF LoopSpec

\* No record is lost or doubled by the merges of a block.
THEOREM RecordsConserved == LoopSpec => []Conserved
<1>1. BlockInv => Conserved
  BY DEF BlockInv
<1> QED  BY BlockInvariant, <1>1, PTL

\* The two loops never compare an erased cluster.
THEOREM IteratorsAreValid == LoopSpec => []IteratorsValid
<1>1. BlockInv => IteratorsValid
  BY DEF BlockInv, IterInv
<1> QED  BY BlockInvariant, <1>1, PTL

\* disambiguate_wrapper returns true only when nothing is left to merge.
THEOREM TrueMeansFixpoint == LoopSpec => []SuccessIsFixpoint
<1>1. BlockInv => SuccessIsFixpoint
  BY DEF BlockInv, ClearedInv
<1> QED  BY BlockInvariant, <1>1, PTL

\* MAX_ROUNDS is exceeded only by a block with a merge in every pass.
THEOREM RoundsSuffice == LoopSpec => []EveryPassMerged
<1>1. BlockInv => EveryPassMerged
  BY DEF BlockInv, RoundInv
<1> QED  BY BlockInvariant, <1>1, PTL

\* The loop implements the abstract merging of a partition.
THEOREM LoopImplementsMerging == LoopSpec => ImplementsMerging
<1>1. LoopInit => Clustering!Init
  BY DEF LoopInit, Clustering!Init, Outcomes
<1>2. BlockInv /\ [LoopNext]_loopVars => [Clustering!Next]_(Clustering!pvars)
  <2> SUFFICES ASSUME BlockInv, [LoopNext]_loopVars PROVE [Clustering!Next]_(Clustering!pvars)
    OBVIOUS
  <2> USE DEF list, Outcomes, Clustering!pvars
  <2>1. CASE Merge
    <3>1. first \in alive /\ second \in alive /\ first # second
          /\ members \in [Nodes -> SUBSET Records] /\ alive \subseteq Nodes
      BY <2>1 DEF Merge, BlockInv, IterInv, IteratorsValid, LoopTypeOK, ListEnd, Nodes
    <3>2. alive' = alive \ {second} /\ at = "inner" /\ at' = at
          /\ members'[first] = members[first] \cup members[second]
          /\ \A n \in alive \ {first, second} : members'[n] = members[n]
      BY <2>1, <3>1 DEF Merge
    <3>3. members[first] # members[second] /\ members[first] \cap members[second] = {}
          /\ \A n \in alive \ {first, second} :
                members[n] # members[first] /\ members[n] # members[second]
      BY <3>1 DEF BlockInv, Conserved
    <3>4. Parts' = (Parts \ {members[first], members[second]})
                     \cup {members[first] \cup members[second]}
      <4> DEFINE a == members[first]
                 b == members[second]
                 rest == {members[n] : n \in alive \ {first, second}}
      <4>1. Parts = rest \cup {a, b}
        BY <3>1 DEF Parts
      <4>2. Parts' = {members'[n] : n \in alive \ {second}}
        BY <3>2 DEF Parts
      <4>3. {members'[n] : n \in alive \ {second}}
              = {members'[n] : n \in alive \ {first, second}} \cup {members'[first]}
        BY <3>1
      <4>4. {members'[n] : n \in alive \ {first, second}} = rest
        BY <3>2
      <4>5. a \notin rest /\ b \notin rest
        BY <3>3
      <4>6. Parts' = rest \cup {a \cup b}
        BY <3>2, <4>2, <4>3, <4>4
      <4> HIDE DEF rest, a, b
      <4>7. Parts' = (Parts \ {a, b}) \cup {a \cup b}
        BY <4>1, <4>5, <4>6
      <4> QED  BY <4>7 DEF a, b
    <3>5. members[first] \in Parts /\ members[second] \in Parts
      BY <3>1 DEF Parts
    <3>6. Clustering!Merge
      BY <3>2, <3>3, <3>4, <3>5 DEF Clustering!Merge
    <3> QED  BY <3>6 DEF Clustering!Next
  <2>2. CASE Step /\ ~Merge
    <3>1. UNCHANGED <<alive, members>>
      BY <2>2 DEF Step, Refuse, Enter, StartPass, StartInner, EndInner, Keep, CompareThrows,
                  PassAgain, NextThreshold
    <3>2. Parts' = Parts
      BY <3>1 DEF Parts
    <3>3. at \notin Outcomes
      BY <2>2 DEF Step, Refuse, Enter, StartPass, StartInner, EndInner, Keep, CompareThrows,
                  PassAgain, NextThreshold, PassEnds
    <3> QED  BY <3>2, <3>3 DEF Clustering!Next, Clustering!Finish
  <2>3. CASE UNCHANGED loopVars
    BY <2>3 DEF loopVars, Parts
  <2> QED  BY <2>1, <2>2, <2>3 DEF LoopNext, Returned
<1> QED  BY <1>1, <1>2, BlockInvariant, PTL DEF LoopSpec, ImplementsMerging, Clustering!Spec

-----------------------------------------------------------------------------
(* A block takes finitely many steps.                                      *)

\* What is left to do, the coarsest first: entering, the thresholds, the passes,
\* the end of a pass, the clusters it compares, and those each is compared with.
PassLeft   == CASE at = "pass" -> 2 [] at \in {"outer", "inner"} -> 1 [] OTHER -> 0
SecondLeft == IF at = "inner" THEN ListEnd - second ELSE 0

LoopMeasure ==
  <<IF at = "enter" THEN 1 ELSE 0, NumThresholds - threshold, MaxRounds - round, PassLeft,
    ListEnd - first, IF at = "inner" THEN 0 ELSE 1, SecondLeft>>

LEMMA LoopMeasureNat == BlockInv => \A k \in 1 .. 7 : LoopMeasure[k] \in Nat
<1> SUFFICES ASSUME BlockInv PROVE \A k \in 1 .. 7 : LoopMeasure[k] \in Nat
  OBVIOUS
<1>1. NumThresholds - threshold \in Nat /\ MaxRounds - round \in Nat /\ ListEnd - first \in Nat
  BY DEF BlockInv, LoopTypeOK, ListEnd
<1>2. PassLeft \in Nat /\ SecondLeft \in Nat
  BY DEF BlockInv, LoopTypeOK, ListEnd, PassLeft, SecondLeft
<1> QED
  BY <1>1, <1>2 DEF LoopMeasure

\* Every step decreases it.
LEMMA LoopMeasureStep == BlockInv /\ Step => LexLess(LoopMeasure', LoopMeasure, 7)
<1> SUFFICES ASSUME BlockInv, Step PROVE LexLess(LoopMeasure', LoopMeasure, 7)
  OBVIOUS
<1>0. /\ threshold \in Nat /\ round \in Nat /\ first \in Nat /\ second \in Nat /\ ListEnd \in Nat
      /\ first <= ListEnd /\ second <= ListEnd /\ alive \in SUBSET Nat
      /\ NumThresholds \in Nat /\ MaxRounds \in Nat
  BY DEF BlockInv, LoopTypeOK, ListEnd, Nodes
<1>1. CASE Refuse \/ Enter
  BY <1>1, LexSeven DEF Refuse, Enter, LoopMeasure
<1>2. CASE StartPass \/ CompareThrows
  <2>1. (at = "pass" /\ at' = "outer") \/ (at = "inner" /\ at' = "thrown")
    BY <1>2 DEF StartPass, CompareThrows
  <2>2. threshold' = threshold /\ round' = round
    BY <1>2 DEF StartPass, CompareThrows
  <2>3. PassLeft' < PassLeft
    BY <2>1 DEF PassLeft
  <2> QED
    BY <2>1, <2>2, <2>3, LexSeven DEF LoopMeasure
<1>3. CASE StartInner
  BY <1>3, LexSeven DEF StartInner, PassLeft, LoopMeasure
<1>4. CASE EndInner
  <2>1. first' \in Nat /\ first < first' /\ first' <= ListEnd
    BY <1>0, <1>4 DEF EndInner, IsNext, BlockInv, LoopTypeOK, Nodes, ListEnd
  <2>2. PassLeft' = PassLeft /\ threshold' = threshold /\ round' = round
    BY <1>4 DEF EndInner, PassLeft
  <2>3. ListEnd - first' < ListEnd - first /\ at = "inner" /\ at' = "outer"
    BY <1>0, <1>4, <2>1 DEF EndInner
  <2> QED
    BY <2>2, <2>3, LexSeven DEF LoopMeasure, ListEnd
<1>5. CASE Merge \/ Keep
  <2>1. second' \in Nat /\ second < second' /\ second' <= ListEnd
    BY <1>0, <1>5 DEF Merge, Keep, IsNext, BlockInv, LoopTypeOK, Nodes, ListEnd
  <2>2. threshold' = threshold /\ round' = round /\ first' = first /\ at = "inner" /\ at' = "inner"
    BY <1>5 DEF Merge, Keep
  <2>3. SecondLeft' < SecondLeft /\ PassLeft' = PassLeft
    BY <1>0, <2>1, <2>2 DEF SecondLeft, PassLeft, ListEnd
  <2> QED
    BY <2>2, <2>3, LexSeven DEF LoopMeasure, ListEnd
<1>6. CASE PassAgain
  <2>1. round' = round + 1 /\ threshold' = threshold /\ at = "outer" /\ at' # "enter"
    BY <1>6 DEF PassAgain, PassEnds
  <2> QED
    BY <1>0, <2>1, LexSeven DEF LoopMeasure
<1>7. CASE NextThreshold
  <2>1. at = "outer" /\ at' # "enter"
    BY <1>7 DEF NextThreshold, PassEnds
  <2>2. \/ threshold' = threshold + 1
        \/ threshold' = threshold /\ round' = round /\ at' = "success"
    BY <1>7 DEF NextThreshold
  <2> QED
    BY <1>0, <2>1, <2>2, LexSeven DEF LoopMeasure, PassLeft
<1> QED
  BY <1>1, <1>2, <1>3, <1>4, <1>5, <1>6, <1>7 DEF Step

\* Every step of disambiguate_wrapper leaves less to do, in an order in which
\* nothing decreases for ever (NoDescent): whatever the comparisons say, a
\* worker comes back from every block.
THEOREM LoopDescends ==
  LoopSpec => /\ [](\A k \in 1 .. 7 : LoopMeasure[k] \in Nat)
              /\ [][LexLess(LoopMeasure', LoopMeasure, 7)]_loopVars
<1>1. BlockInv /\ [LoopNext]_loopVars => [LexLess(LoopMeasure', LoopMeasure, 7)]_loopVars
  BY LoopMeasureStep DEF LoopNext, Returned
<1> QED
  BY <1>1, LoopMeasureNat, BlockInvariant, PTL DEF LoopSpec
=============================================================================
