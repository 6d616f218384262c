----------------------------- MODULE WorkerPool -----------------------------
(***************************************************************************)
(* The multi-threaded part of a round: ClusterInfo::disambiguate creates a *)
(* vector of Worker threads that share one iterator into cluster_by_block  *)
(* (the cursor, behind Worker::iter_lock) and one static counter, starts   *)
(* them, joins them, prints the counter and zeroes it.                     *)
(*                                                                         *)
(* The granularity is that of the shared accesses: a mutex operation, a    *)
(* read of the cursor, its increment, a call of disambiguate_wrapper, the  *)
(* update of count, and the unsynchronised accesses to Thread::tid, which  *)
(* the parent (pthread_create, join) and the child (run1) both make.  The  *)
(* build is the repository's (-O0): join loads tid twice.                  *)
(***************************************************************************)
EXTENDS Naturals, FiniteSets

CONSTANTS
  NumBlocks,     \* entries of cluster_by_block, in the order of the map
  NumThreads,    \* NUMBER OF THREADS of the engine configuration
  Skipped,       \* blocks the wrapper refuses: useless tag, or inactive
  MaxCalls       \* bound: calls of ClusterInfo::disambiguate (one per round)

Blocks  == 1 .. NumBlocks
Workers == 1 .. NumThreads
End     == NumBlocks + 1          \* cluster_by_block.end()

ASSUME PoolAssumption ==
  /\ NumBlocks \in Nat
  /\ NumThreads \in Nat
  /\ Skipped \subseteq Blocks
  /\ MaxCalls \in Nat \ {0}

NoOne   == 0                      \* iter_lock is free

\* What Thread::tid holds: 0, the identity of the thread, or what a failed
\* pthread_create left there.
Zero    == "zero"
Own     == "own"
Garbage == "garbage"

VARIABLES
  cursor,        \* *ppdisambiged
  iterLock,      \* holder of Worker::iter_lock, or NoOne
  count,         \* Worker::count
  pc,            \* where each Worker is
  pthis,         \* the block a Worker has read from the cursor
  success,       \* is_success of a Worker
  tid,           \* Thread::tid of each Worker object
  main,          \* where the calling thread is
  mi,            \* index of the caller's start and join loops
  call,          \* number of the current call
  aborted,       \* the process was terminated
  runs,          \* history: wrapper calls made for each block in this call
  okBlocks,      \* history: blocks whose wrapper returned true in this call
  reported       \* history: the count printed by the last call that returned

shared  == <<cursor, iterLock, count>>
workers == <<pc, pthis, success>>
caller  == <<main, mi, call, reported>>
history == <<runs, okBlocks>>
vars    == <<shared, workers, tid, caller, aborted, history>>

\* A Worker that has a thread which may still touch the Worker object.
Alive == {"born", "toCursor", "atCursor", "advance", "disambig",
          "toTally", "tally", "leaving"}
\* A Worker whose thread is past its last access, or never existed.
Over  == {"idle", "left", "gone"}

TypeOK ==
  /\ cursor \in 1 .. End
  /\ iterLock \in Workers \cup {NoOne}
  /\ count \in Nat
  /\ pc \in [Workers -> Alive \cup Over]
  /\ pthis \in [Workers -> 1 .. End]
  /\ success \in [Workers -> BOOLEAN]
  /\ tid \in [Workers -> {Zero, Own, Garbage}]
  /\ main \in {"create", "store", "check", "join", "wait", "report", "returned"}
  /\ mi \in 1 .. NumThreads + 1
  /\ call \in 1 .. MaxCalls
  /\ aborted \in BOOLEAN
  /\ runs \in [Blocks -> Nat]
  /\ okBlocks \in SUBSET Blocks
  /\ reported \in Nat

-----------------------------------------------------------------------------
(* The state on entry to a call: a fresh cursor and fresh Worker objects.  *)

All(v)    == [w \in Workers |-> v]
NoRuns    == [b \in Blocks |-> 0]

Init ==
  /\ cursor = 1
  /\ iterLock = NoOne
  /\ count = 0
  /\ pc = All("idle") /\ pthis = All(1) /\ success = All(FALSE)
  /\ tid = All(Zero)
  /\ runs = NoRuns /\ okBlocks = {}
  /\ main = "create"
  /\ mi = 1
  /\ call = 1
  /\ aborted = FALSE
  /\ reported = 0

-----------------------------------------------------------------------------
(* The calling thread.                                                     *)

\* Thread::start succeeds.  The library may store the new thread's identity
\* before the thread runs, or after (the caller is then in "store").
StartThread ==
  /\ main = "create" /\ mi \in Workers
  /\ pc' = [pc EXCEPT ![mi] = "born"]
  /\ \/ /\ tid' = [tid EXCEPT ![mi] = Own]
        /\ mi' = mi + 1
        /\ UNCHANGED main
     \/ /\ main' = "store"
        /\ UNCHANGED <<tid, mi>>
  /\ UNCHANGED <<shared, pthis, success, call, reported, aborted, history>>

StoreTid ==
  /\ main = "store"
  /\ tid' = [tid EXCEPT ![mi] = Own]
  /\ main' = "create"
  /\ mi' = mi + 1
  /\ UNCHANGED <<shared, workers, call, reported, aborted, history>>

\* Thread::start returns false and ClusterInfo::disambiguate ignores it;
\* pthread_create leaves tid undefined.
StartFails ==
  /\ main = "create" /\ mi \in Workers
  /\ \E garbage \in {Zero, Garbage} : tid' = [tid EXCEPT ![mi] = garbage]
  /\ mi' = mi + 1
  /\ UNCHANGED <<shared, workers, main, call, reported, aborted, history>>

AllStarted ==
  /\ main = "create" /\ mi \notin Workers
  /\ main' = "check"
  /\ mi' = 1
  /\ UNCHANGED <<shared, workers, tid, call, reported, aborted, history>>

\* Thread::join, first load of tid: "if (tid > 0)".
JoinCheck ==
  /\ main = "check" /\ mi \in Workers
  /\ IF tid[mi] = Zero
     THEN mi' = mi + 1 /\ UNCHANGED main
     ELSE main' = "join" /\ UNCHANGED mi
  /\ UNCHANGED <<shared, workers, tid, call, reported, aborted, history>>

\* Thread::join, second load: "pthread_join(tid, NULL)" with a live identity.
JoinCall ==
  /\ main = "join" /\ tid[mi] = Own
  /\ main' = "wait"
  /\ UNCHANGED <<shared, workers, tid, mi, call, reported, aborted, history>>

\* The second load yields no thread: pthread_join crashes, or fails at once.
JoinInvalid ==
  /\ main = "join" /\ tid[mi] # Own
  /\ \/ aborted' = TRUE /\ UNCHANGED <<main, mi>>
     \/ main' = "check" /\ mi' = mi + 1 /\ UNCHANGED aborted
  /\ UNCHANGED <<shared, workers, tid, call, reported, history>>

\* Faulty variant: the join does not wait.
JoinReturnsAtOnce ==
  /\ main = "wait"
  /\ main' = "check"
  /\ mi' = mi + 1
  /\ UNCHANGED <<shared, workers, tid, call, reported, aborted, history>>

\* pthread_join returns once the thread has terminated.
JoinReturns ==
  /\ main = "wait" /\ pc[mi] = "gone"
  /\ main' = "check"
  /\ mi' = mi + 1
  /\ UNCHANGED <<shared, workers, tid, call, reported, aborted, history>>

AllJoined ==
  /\ main = "check" /\ mi \notin Workers
  /\ main' = "report"
  /\ UNCHANGED <<shared, workers, tid, mi, call, reported, aborted, history>>

\* Faulty variant: the counter is not zeroed.
ReportKeepsCount ==
  /\ main = "report"
  /\ reported' = count
  /\ main' = "returned"
  /\ UNCHANGED <<shared, workers, tid, mi, call, aborted, history>>

\* Worker::get_count, Worker::zero_count, and the return, which destroys the
\* Worker objects.  The report of the largest cluster in between, which changes nothing
\* but needs a cluster, is in Rounds (NoLargestCluster).
Report ==
  /\ main = "report"
  /\ reported' = count
  /\ count' = 0
  /\ main' = "returned"
  /\ UNCHANGED <<cursor, iterLock, workers, tid, mi, call, aborted, history>>

\* Faulty variant: the iterator is kept from one call to the next.
CallAgainOldCursor ==
  /\ main = "returned" /\ call < MaxCalls
  /\ call' = call + 1
  /\ pc' = All("idle") /\ pthis' = All(1) /\ success' = All(FALSE)
  /\ tid' = All(Zero)
  /\ runs' = NoRuns /\ okBlocks' = {}
  /\ main' = "create"
  /\ mi' = 1
  /\ UNCHANGED <<cursor, iterLock, count, reported, aborted>>

\* The next round calls ClusterInfo::disambiguate again.
CallAgain ==
  /\ main = "returned" /\ call < MaxCalls
  /\ call' = call + 1
  /\ cursor' = 1
  /\ pc' = All("idle") /\ pthis' = All(1) /\ success' = All(FALSE)
  /\ tid' = All(Zero)
  /\ runs' = NoRuns /\ okBlocks' = {}
  /\ main' = "create"
  /\ mi' = 1
  /\ UNCHANGED <<iterLock, count, reported, aborted>>

CallerStep ==
  /\ ~aborted
  /\ \/ StartThread \/ StoreTid \/ StartFails \/ AllStarted
     \/ JoinCheck \/ JoinCall \/ JoinInvalid \/ JoinReturns
     \/ AllJoined \/ Report

-----------------------------------------------------------------------------
(* A Worker thread.                                                        *)

Goto(w, from, to) == pc[w] = from /\ pc' = [pc EXCEPT ![w] = to]

\* Thread::run1: tid = pthread_self(), then run().
ThreadEntry(w) ==
  /\ Goto(w, "born", "toCursor")
  /\ tid' = [tid EXCEPT ![w] = Own]
  /\ UNCHANGED <<shared, pthis, success, caller, aborted, history>>

\* Faulty variant: iter_lock is not taken for the cursor.
LockForCursorUnchecked(w) ==
  /\ Goto(w, "toCursor", "atCursor")
  /\ iterLock' = w
  /\ UNCHANGED <<cursor, count, pthis, success, tid, caller, aborted, history>>

LockForCursor(w) ==
  /\ Goto(w, "toCursor", "atCursor")
  /\ iterLock = NoOne
  /\ iterLock' = w
  /\ UNCHANGED <<cursor, count, pthis, success, tid, caller, aborted, history>>

\* Faulty variant: the last block is taken for the end.
NoBlockLeftEarly(w) ==
  /\ Goto(w, "atCursor", "leaving")
  /\ cursor >= NumBlocks
  /\ iterLock' = NoOne
  /\ UNCHANGED <<cursor, count, pthis, success, tid, caller, aborted, history>>

\* Faulty variant: the worker leaves the loop without unlocking.
NoBlockLeftLocked(w) ==
  /\ Goto(w, "atCursor", "leaving")
  /\ cursor = End
  /\ UNCHANGED <<shared, pthis, success, tid, caller, aborted, history>>

\* The cursor is at the end: unlock and leave run(); run1 sets threadStatus.
NoBlockLeft(w) ==
  /\ Goto(w, "atCursor", "leaving")
  /\ cursor = End
  /\ iterLock' = NoOne
  /\ UNCHANGED <<cursor, count, pthis, success, tid, caller, aborted, history>>

ReadCursor(w) ==
  /\ Goto(w, "atCursor", "advance")
  /\ cursor # End
  /\ pthis' = [pthis EXCEPT ![w] = cursor]
  /\ UNCHANGED <<shared, success, tid, caller, aborted, history>>

\* ++(*ppdisambiged), unlock, and the call of disambiguate_wrapper begins.
AdvanceCursor(w) ==
  /\ Goto(w, "advance", "disambig")
  /\ cursor' = cursor + 1
  /\ iterLock' = NoOne
  /\ runs' = [runs EXCEPT ![pthis[w]] = @ + 1]
  /\ UNCHANGED <<count, pthis, success, tid, caller, aborted, okBlocks>>

\* disambiguate_wrapper returns: false for a skipped block, true or (after
\* MAX_ROUNDS) false for the others.
WrapperReturns(w) ==
  /\ Goto(w, "disambig", "toTally")
  /\ \E r \in BOOLEAN :
       /\ pthis[w] \in Skipped => ~r
       /\ success' = [success EXCEPT ![w] = r]
       /\ okBlocks' = IF r THEN okBlocks \cup {pthis[w]} ELSE okBlocks
  /\ UNCHANGED <<shared, pthis, tid, caller, aborted, runs>>

\* An exception leaves the thread function: std::terminate.
WrapperThrows(w) ==
  /\ pc[w] = "disambig" /\ pthis[w] \notin Skipped
  /\ aborted' = TRUE
  /\ UNCHANGED <<shared, workers, tid, caller, history>>

\* Faulty variant: the counter is updated without iter_lock.
LockForTallyUnchecked(w) ==
  /\ Goto(w, "toTally", "tally")
  /\ iterLock' = w
  /\ UNCHANGED <<cursor, count, pthis, success, tid, caller, aborted, history>>

LockForTally(w) ==
  /\ Goto(w, "toTally", "tally")
  /\ iterLock = NoOne
  /\ iterLock' = w
  /\ UNCHANGED <<cursor, count, pthis, success, tid, caller, aborted, history>>

Tally(w) ==
  /\ Goto(w, "tally", "toCursor")
  /\ count' = IF success[w] THEN count + 1 ELSE count
  /\ iterLock' = NoOne
  /\ UNCHANGED <<cursor, pthis, success, tid, caller, aborted, history>>

\* run1 after run(): tid = 0.
ClearTid(w) ==
  /\ Goto(w, "leaving", "left")
  /\ tid' = [tid EXCEPT ![w] = Zero]
  /\ UNCHANGED <<shared, pthis, success, caller, aborted, history>>

\* pthread_exit(NULL).
ThreadExit(w) ==
  /\ Goto(w, "left", "gone")
  /\ UNCHANGED <<shared, pthis, success, tid, caller, aborted, history>>

WorkerStep(w) ==
  /\ ~aborted
  /\ \/ ThreadEntry(w) \/ LockForCursor(w) \/ NoBlockLeft(w) \/ ReadCursor(w)
     \/ AdvanceCursor(w) \/ WrapperReturns(w) \/ WrapperThrows(w)
     \/ LockForTally(w) \/ Tally(w) \/ ClearTid(w) \/ ThreadExit(w)

-----------------------------------------------------------------------------

\* The run is over: the last call returned, or the process was terminated.
Stopped ==
  /\ aborted \/ (main = "returned" /\ call = MaxCalls)
  /\ UNCHANGED vars

Next ==
  \/ CallerStep
  \/ ~aborted /\ CallAgain
  \/ \E w \in Workers : WorkerStep(w)
  \/ Stopped

Spec == Init /\ [][Next]_vars

\* Every thread is scheduled as long as it can run.  Each Worker acquires
\* iter_lock finitely often, so weak fairness is enough for the lock.
FairSpec ==
  /\ Spec
  /\ WF_vars(CallerStep)
  /\ \A w \in Workers : WF_vars(WorkerStep(w))

-----------------------------------------------------------------------------
(* Properties.                                                             *)

\* The cursor hands every block to exactly one worker: a block before the
\* cursor was given to disambiguate_wrapper once, one at or after it never
\* (Worker::run reads and advances the shared iterator in two steps, and only
\* iter_lock keeps two workers from reading the same position).
OnceEach == \A b \in Blocks : runs[b] = IF b < cursor THEN 1 ELSE 0

\* When ClusterInfo::disambiguate goes on after its join loop, no thread can
\* touch its Worker object, the shared iterator (a local variable) or count
\* any more, although join skips a Worker whose tid it finds zero.
ReturnSafe == main \in {"report", "returned"} => \A w \in Workers : pc[w] \in Over

\* "Disambiguation done!" is true: if any thread was started, every block of
\* cluster_by_block went through disambiguate_wrapper before the call returned.
AllHandled ==
  main \in {"report", "returned"} /\ (\E w \in Workers : pc[w] # "idle")
     => cursor = End /\ \A b \in Blocks : runs[b] = 1

\* The number of disambiguated blocks a call prints is the number of blocks
\* whose wrapper returned true in that call: no increment of Worker::count is
\* lost, and none is carried over from the call before.
ReportExact == main = "returned" => reported = Cardinality(okBlocks)

\* Every call of ClusterInfo::disambiguate ends: it returns, or the process
\* is terminated by an exception of a worker or an invalid join.
CallReturns == (main = "create") ~> (main = "returned" \/ aborted)

\* What Thread::join promises (threading.h: "Block the main thread until child
\* threads finish by calling void join()"): the value it passes to
\* pthread_join is the identity of the thread that was started.
JoinsItsThread == main = "join" /\ pc[mi] # "idle" => tid[mi] = Own

\* The abstract view: the blocks a worker is inside the wrapper for, and
\* whether the call is going on.
Running == {pthis[w] : w \in {v \in Workers : pc[v] = "disambig"}}
Phase   == IF aborted THEN "aborted"
           ELSE IF main = "returned" THEN "returned" ELSE "busy"

Dispatch == INSTANCE BlockDispatch
              WITH next <- cursor, running <- Running, phase <- Phase

\* The pool implements BlockDispatch: blocks are taken in map order, each
\* once, and the call returns only when none is running and none is left (or
\* no thread ever ran).
ImplementsDispatch == Dispatch!Spec

-----------------------------------------------------------------------------
(* The inductive invariant behind the properties above.                    *)

\* iter_lock is held exactly by the worker inside a critical section of run.
LockInv == \A w \in Workers : pc[w] \in {"atCursor", "advance", "tally"} <=> iterLock = w

\* Between reading the cursor and advancing it the two agree, off the end.
CursorInv == \A w \in Workers : pc[w] = "advance" => pthis[w] = cursor /\ cursor # End

\* Blocks taken and not yet tallied are behind the cursor, one worker each.
Busy == {"disambig", "toTally", "tally"}
TakenInv ==
  \A w \in Workers : pc[w] \in Busy =>
     /\ pthis[w] < cursor
     /\ \A v \in Workers \ {w} : pc[v] \in Busy => pthis[v] # pthis[w]

\* A worker leaves only when the cursor is at the end; the cursor moves only
\* if some worker was started.
EndInv ==
  /\ \A w \in Workers : pc[w] \in {"leaving", "left", "gone"} => cursor = End
  /\ cursor # 1 => \E w \in Workers : pc[w] # "idle"

\* The start loop has not reached the later workers; the join loop has passed
\* the earlier ones, which are over.
LoopInv ==
  /\ main = "create" => \A w \in Workers : w >= mi => pc[w] = "idle"
  /\ main = "store"  => \A w \in Workers : w > mi => pc[w] = "idle"
  /\ main \in {"store", "join", "wait"} => mi \in Workers
  /\ main \in {"check", "join", "wait"} => \A w \in Workers : w < mi => pc[w] \in Over
  /\ ReturnSafe

\* While a thread may touch its Worker, tid names it, unless pthread_create
\* has not stored it yet.
TidInv ==
  \A w \in Workers : pc[w] \in Alive => tid[w] = Own \/ (main = "store" /\ mi = w)

\* Blocks whose success is known but not yet added to Worker::count.
Untallied(b) == \E w \in Workers : pc[w] \in {"toTally", "tally"} /\ success[w] /\ pthis[w] = b

\* okBlocks grows only by a block that is being worked on, and count is the
\* number of those already tallied, until the caller reads and zeroes it.
CountInv ==
  /\ \A w \in Workers : pc[w] = "disambig" => pthis[w] \notin okBlocks
  /\ \A b \in Blocks : Untallied(b) => b \in okBlocks
  /\ \A b \in okBlocks : b < cursor
  /\ main # "returned" => count = Cardinality({b \in okBlocks : ~Untallied(b)})
  /\ main = "returned" => count = 0 /\ reported = Cardinality(okBlocks)

\* All of it: an invariant that every step preserves by itself.
PoolInv ==
  /\ TypeOK /\ LockInv /\ CursorInv /\ TakenInv /\ EndInv
  /\ LoopInv /\ TidInv /\ OnceEach
=============================================================================
