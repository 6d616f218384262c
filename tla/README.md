# Formal models of the inventor disambiguator

This directory holds TLA+ models of the disambiguation engine in `src/`
(implementation: `src/src/*.cpp`, headers: `src/include/*.h`), TLC
configurations that check them on small instances, and proofs, checked by TLAPS,
of the properties that matter most for every instance.

## 1. The system

The program reads records (one per patent and inventor) from a CSV file and
groups those that belong to one inventor. It works in rounds. Each round blocks
the clusters of the round before by a key made of name columns, trains a table
of likelihood ratios for similarity profiles, and merges clusters block by block.
The result of a round is a text file that the next round reads back.

| Component | Code | State | Operations |
|---|---|---|---|
| Worker pool | `cluster.cpp` 830-944, `threading.cpp`, `worker.h` | shared iterator into `cluster_by_block`, `iter_lock`, static `count`, `tid` of each thread | start, join, take the next block, tally, report |
| Disambiguation of a block | `cluster.cpp` 986-1135, `newcluster.cpp` | list of clusters (members, locations), the two list iterators, sizes, threshold | pass, compare, merge and erase, next threshold |
| Comparison of two clusters | `newcluster.cpp` 172-246, `engine.cpp` 43-223 | kept probabilities, number and sum of the qualified | screen, compare pairs, decide, new cohesion |
| Attribute pools | `attribute.h` 675-904, `attribute.cpp` 102-154 | value -> reference count, two locks | add, reduce, merge, clean |
| Training pairs by patent | `training.cpp` 147-633, `utilities.cpp` 16-116 | quota, used quota and two cursors of each block, free quota | reset, create a set in two rounds, print |
| Training pairs by name | `training.cpp` 637-1044 | word counts, lists of rare names | find rare names, make pairs up to a limit |
| Comparison of records | `attribute.cpp`, `comparators.cpp`, `record.cpp` 138-252 | which comparators are active | compare, make a profile, activate |
| Ratios | `ratios.cpp` | counts of similarity profiles, ratio maps, ratio files | count, Laplace correction, combine, write and read |
| Ratio smoothing | `ratio_smoothing.cpp` | a quadratic program | set up, solve |
| Rounds, configuration, restart | `disambiguate.cpp` | round, file names, truncation | configure, run a round, post-process |
| Clusters between rounds | `cluster.cpp` 81-430 | `cluster_by_block`, `total_num`, column statistics | consolidate, read, re-block, print |
| Debug activation, priors | `cluster.cpp` 442-823 | `block_activity`, `prior_data` | activate, compute priors |
| Blocking by coauthors | `blocking_operation.cpp` | patent tree, record -> inventor, inventor -> count | build, top N coauthors |
| Post-processing | `postprocess.cpp`, `utilities.cpp` 176-205 | list of clusters, delegate -> cluster, record -> inventor | polish, read, write |
| Records, attributes, reconfiguration | `record.cpp`, `attribute.cpp`, `record_reconfigurator.cpp` | attribute pointers of each record | load, reconfigure |
| Blocking strings | `blocking_operation.cpp` 1-100, `string_manipulator.cpp` | none | truncate, join |

How they interact: the driver calls everything else in sequence; only
`ClusterInfo::disambiguate` starts threads. Its workers share the iterator and
the counter (under `iter_lock`), read the ratios and priors, and each changes the
list of clusters of the block it took. Merging two clusters replaces set-valued
attributes (coauthors, classes) of their records in the attribute pools, which
all threads share, under two more locks. What passes from round to round is the
result file, the attribute pools, and static variables.

Where it is hard: unsynchronised reads of `tid` and of reference counts, a
wrapper call between two critical sections, erasing list elements inside nested
loops over the list, size comparisons that stand for "nothing merged", averages
over an order-dependent sample, quotas in unsigned arithmetic, and files that
carry state over a restart.

## 2. Modules

| Module | What it is |
|---|---|
| `BlockDispatch` | what the worker pool promises: blocks taken in map order, each once; the call returns when none is running and none is left |
| `WorkerPool` | the pool at the granularity of its shared accesses; implements `BlockDispatch` |
| `ClusterMerging` | what disambiguating a block promises: a partition that changes by two parts becoming one |
| `BlockLoop` | `disambiguate_wrapper` and `disambiguate_by_block`; implements `ClusterMerging` |
| `WorkerPoolProof` | the theorems of both |
| `SetComparison` | `Cluster::disambiguate` and `disambiguate_by_set` for two clusters |
| `SetComparisonProof` | its theorems |
| `AttribPool` | the reference-counted attribute pool under concurrent merges |
| `AttribPoolProof` | its theorems |
| `TrainingQuota` | `cBlocking_For_Training`: quotas, cursors, the two rounds of `create_set`, the two sets |
| `TrainingQuotaProof` | its theorems |
| `Delegates` | `find_representative`: which members may become the delegate of a cluster |
| `PostPolish` | `post_polish`: centers, links and merges with the three maps they keep in step; implements `ClusterMerging` |
| `PostPolishProof` | its theorems |
| `Rounds` | `Full_Disambiguation` with its files: rounds, consolidation, polishing, crash and restart |
| `RoundsProof` | its theorems |
| `NameData` | the names of a record, and the two reconfigurators |
| `Comparisons` | the compare functions of the attributes and the string comparisons behind them |
| `NameTraining` | the training pairs by name |
| `Priors` | blocks, their column statistics, activity and prior probabilities |
| `Ratios` | a round's table of ratios, from the training pairs to the first comparison; contains the four modules above |
| `RatiosProof` | its theorems |
| `Ordering` | sets gone through in an order, and the parts of a list that a loop does not skip |
| `DataTheorems` | facts about numbers, sums, orders and recursive functions, for the proofs |
| `MC...` | values of the constants for TLC |

The definitions marked "Faulty variant" are plausible mistakes in an action;
they are not part of any specification. Putting one in the place of the action
it precedes must make TLC find one of the properties violated, which shows that
the property says something about the code.

### WorkerPool

`cursor` is `*ppdisambiged` (blocks are numbers in map order), `iterLock` the
holder of `Worker::iter_lock`, `count` the static counter, `pc`, `pthis` and
`success` the locals of `Worker::run`, `tid` the unsynchronised `Thread::tid`;
`main`, `mi` and `call` are the position of the calling thread, the index of its
loops and the round. Each action is one shared access. The caller: `StartThread`,
`StoreTid` (the library may store the identity late), `StartFails` (its result is
ignored), `JoinCheck` and `JoinCall` (the two loads of `tid` in `join`),
`JoinInvalid`, `JoinReturns`, `AllJoined`, `Report`, `CallAgain` (the next round). The
report of the largest cluster, which ends the process when there is no cluster, is in
`Rounds`.
A worker: `ThreadEntry`, `LockForCursor`, `NoBlockLeft` or `ReadCursor` and
`AdvanceCursor`, `WrapperReturns` or `WrapperThrows`, `LockForTally`, `Tally`,
`ClearTid`, `ThreadExit`. An uncaught exception of a worker ends the process
(`aborted`).

### BlockLoop

List nodes are numbers in list order, `alive` is what is left of the list,
`members` and `locs` are each cluster's `m_fellows` and `locs`. `Enter`/`Refuse`
are the validity checks of the wrapper, `StartPass` .. `EndInner` the two nested
loops, `Merge`/`Keep`/`CompareThrows` the outcome of a comparison, `PassAgain` and
`NextThreshold` the loop of the wrapper. The outcome of a comparison is free
except that it is a function of the two clusters and the threshold: a pair found
different stays different until one of the two changes. `cleared` is that memory.
`SetComparison` is the same comparison from inside.

### SetComparison

Probabilities are percentages and every pair's is chosen freely, so every order
of results is covered; the threshold is computed from the head of the clusters
as the code does, in integer units. A veto (no common name, conflicting
countries) ends the comparison at once. `Total / Count` is the average the code takes,
of the qualified pairs or of the kept set; `Cohesion` is kept as a fraction, so its
range (`CohesionInRange`) is stated without division: at least the lower of the two
cohesions or the threshold, at most 1.

### AttribPool

The pool maps a value (a set of names) to a counter; a pointer is a value and a
generation, so an entry that was erased and inserted again is told from the old
one. `StartMerge` reads the two front entries; with the two clusters they are the
thread's `job`, from which `Calls` says which eight calls the member and the global
`attrib_merge` make, and `next` is the one the thread has come to (`Advance` passes
over calls that would move no reference). Each call runs in its critical sections: `AddFind`, `AddInsert`, `AddCount`; `ReduceFind`, `ReduceCount`,
`ReduceTest` (under no lock), `ReduceErase`. Then `CheckPointers` and
`SetPointers`. Using a node that is no longer live ends the behaviour
(`fate = "undefined"`): in the program anything may follow.

### TrainingQuota

Blocks are numbers in map order, `quota`, `used`, `outer` and `inner` the four maps
of the class (cursors are positions in a block's list), `left` is `quota_left`,
`chosen` the list of pairs with the set each was taken for. `weightTo` and
`quotaTo` are the running sums of `reset` (`quota_distributor`, `temp_sum`) kept for
every number of blocks, so that a sum over blocks is a difference of two entries.
`Weigh` .. `ResetDone` are `reset`, one block a step; `CreateSet`, `SkipBlock`,
`EnterBlock`, `SecondRound`, `SetDone` are `create_set`; `TakePair`, `PassPair`,
`BlockFull`, `BlockExhausted` the loop that `create_xset01_on_block` and
`create_tset05_on_block` share (their conditions on a pair differ, and either
answer is taken); `PrintSet`, `NoFile`, `Reset` the calls of
`make_changable_training_sets_by_patent`. Unsigned values wrap at `Modulus`, and
calling `create_set` or `print` out of order throws. A quota is the truncated
double; when the exact quotient is whole the rounded one may lie just below it. (It
could also be rounded up to the next number when the weights add up to more than
about 2^50, which the model leaves out.) With no block of two records the quotient
is 0/0 or infinity times 0, which x86-64 converts to 0.

### Delegates, PostPolish

Records are numbered in the order of their addresses and nodes of the cluster list
in list order; `alive`, `members` and `head` are the list, `record2cluster` and
`uid2uinv` the two maps, `q` the outer iterator (the center), `links` the list of
links of the center with its iterators `r` and `s`, and `rhead` the delegate that
`*r` has become. `BuildTrees` and `MapClusters` fill the maps, `StartPass`,
`SkipCenter`, `TakeCenter` are the loop over centers, `TakeLink`, `KeepLink`,
`MergeLinked`, `EndLink`, `EndCenter` the loops over links, `EndPass` the test that
asks for another pass. `MergeLinked` is everything between the comparison of two names
and the increment of `s`: the members move, `find_representative` picks any member it
may pick (`Representatives`), both maps and both lists follow. A lookup that fails
throws (`"thrown"`); erasing the center would leave an iterator on freed memory
(`"undefined"`).

### Rounds

`files` is what each file holds: the starting file, one result a round, the polished
result, `final.txt`. A file has its lines, whether it was written to its end from complete
input (`whole`) and whether it was cut within a key (`torn`). `match` and `totalNum` are the `ClusterInfo`, `polished` the
`ClusterSet`; `middle` and `coauthors` are what the records hold in memory; `network`
is "POSTPROCESS AFTER EACH ROUND". `ConfigRound` and `NoMoreRounds` are
`config_blocking`, `Consolidate` .. `WriteInput` the first round's consolidation,
`Reset`/`ReadThrows` the reading of the clusters, `PolishMerge` .. `ResetAgain` the
polishing between rounds, `MergeInBlock` and `EndDisambiguate` the disambiguation (with `NoLargestCluster` when no
cluster has a member: `pmax` is NULL and the process dies, `cluster.cpp:897`),
`OpenFile`/`WriteMatch`/`WriteFinal` the output. `Merges` gives every list that can come
of two clusters becoming one, `InOrder` the order of the blocks, `Size` the number of
records in a list of clusters. Clusters are blocked by their delegate's names as they are
in memory (`BlockOf`, `cluster.cpp:163`) and get their new middle names after that. `Crash` ends the process in any of these
states, in the middle of a file too (`CutShort`: some of the lines, the last perhaps without its last
members, under a key that lost its end and is no record's, `torn`, or another record's), and `Start` starts it again at any round
whose file is there. Disambiguation and polishing merge freely here; what they promise is
in `BlockLoop` and `PostPolish`.

### NameData, Comparisons, NameTraining, Priors, Ratios

Letters are small numbers, a word is a sequence of letters, a name a sequence of words;
other values are atoms. `Jaro` (the Jaro-Winkler score), `Miles` (distances) and `Log`
are tables given to the model; nothing is assumed of `Jaro`, which is not even symmetric: the
score is raised for long names unless the *first* begins with a digit (`strcmp95.c:193`). Everything is in one state machine, `Ratios`: the
driver from the training by name to the first comparison of each round. `FindRareNames`,
`CreateNonMatches`, `CreateMatches` make the sets by name, `Reconfigure` changes names and
coauthors, `ConfigRound` activates the comparators of a round, `SwitchOn` and
`TrainByPatent` are `make_changable_training_sets_by_patent` seen from the comparators (the
pairs themselves are any of a few lists; which pairs may come is `TrainingQuota`'s
business), `PreparePersonal` and `PreparePatent` count profiles, `Compose`, `Smooth` and
`WriteFile` make the table and its file, `ReadFile` takes a table that is there,
`SetUpBlocks` makes blocks active and sets their priors, `Disambiguate` is the first
comparison. `PrepareExits`, `SmoothThrows`, `ReadThrows` and `DisambiguateThrows` are the
ways out, `Die` and `Restart` a crash (which may cut the ratio file short) and a new start.

A ratio is a pair of counts until the smoothing, whose solver is not part of the code:
`problem` holds the program it is given, and a smoothed table is the set of profiles
that get a value. Priors are in units of 1e-8, logarithms in thousandths, both rounded
up: what is not 0 among the doubles of the program does not become 0.

## 3. Runs

| Run | Instance | What it shows |
|---|---|---|
| `WorkerPool` | 3 blocks (one skipped), 2 workers, 2 calls | each block handed out once, no thread survives the call, exact report, the call ends, refinement of `BlockDispatch` |
| `WorkerPool_join` | 2 blocks, 2 workers, 1 call | (violated) `join` may pass 0 to `pthread_join` |
| `AttribPool` | 4 records, 3 names, 1 or 2 threads | exact counts, no leaked entry, members share one entry, a single thread never uses an erased entry |
| `AttribPool_freed` | 4 records, 3 names, 2 threads | (violated) an entry is used after another thread erased it |
| `BlockLoop` | 5 clusters, 2 thresholds, MAX_ROUNDS 3 | records conserved and iterators valid (`BlockInv`), success is a fixed point, termination, refinement of `ClusterMerging` |
| `BlockLoop_locs` | 4 clusters, 1 threshold | (violated) clusters are compared without their locations |
| `SetComparison` | sizes up to 3 and 4, four levels | verdict and cohesion follow the qualified pairs |
| `TrainingQuota` | 5 lists of 3 blocks (1 to 4 records, one with an empty blocking string), limits 0 to 9 | quota conserved (`QuotaInv`), no pair twice, share of the second round, the call ends |
| `TrainingQuota_fill` | same, limit 3 | (violated) quota stays unused although pairs were never looked at |
| `PostPolish` | 6 records on 2 patents, every clustering, complete or cut | list, maps and links in step, no exception from a complete result, the end is a fixed point and is reached, refinement of `ClusterMerging` |
| `Rounds` | 3 records, 2 rounds, 2 starts | whole files are partitions, the source of a round survives it, a process started again agrees with one that came through the rounds (`RestartAgrees`: on middle names and coauthors always, on blocks with post-processing or in rounds that do not block by middle names), rounds only merge, every run ends |
| `Ratios` | 6 lists of records, 4 rounds, 2 starts, 4 lists of pairs | training pairs by name, the table serves its round, factors are independent, smoothing keeps order, priors are usable and favour rare names |

Bounds. Two workers are enough for every race on the cursor and the counter
(all conflicts are between two accesses), three blocks let a worker be in the
wrapper while the other takes and finishes a block, and two calls show what is
carried over. Two threads with two records each let both merge clusters of equal
attributes at once; three names give unions that are, and are not, already in the
pool. Five clusters and three passes let a block run out of passes
(`MAX_ROUNDS` is 40 in the code and is scaled down to 3) and also settle below
the limit; two thresholds show what is carried from one to the next. Sizes 2x4
and 3x4 give 2 and 3 candidates for averaging, 1x1 and 1x2 the corrected 1. The
numbers 1 / 4000000 in `SetComparison` are the scale in which thresholds are
exact enough to tell all levels apart. For the training sets the lists of blocks
contain a block that is exhausted below its quota, one that fills it, one without
any pair and a list without any; 9 is above and 3 below the number of pairs there
are; `Modulus` 64 is far above every sum, as 2^32 is above the limit.
Six records on two patents let a center have two links that are merged while a third
follows, and names that are alike only below the higher threshold of Asian countries.
Three records in two rounds give a consolidation, a merge in each round, three middle
names of which two are equally long (so that which of the longest comes first matters), one
that is replaced twice, and, with two starts, a restart at either round from a whole or a
cut file. In `Ratios` the numbers of `training.h` (rare names in fewer
than 3 full names, more than 1 and fewer than 6 records), the count of a profile that is
worth a correction (2) and the limit on pairs (1 or 9) are scaled so that each is met from
both sides; the bound on profiles (100 for 2^32 - 1) is passed by the first round and by no
other, the second has no patent columns, the third and fourth run through. Jaro-Winkler
scores, distances and logarithms are tables over the few values there are. `MaxStarts` is
2 in both modules with restarts: what a start leaves behind is files, and a third start
finds nothing else.

Fairness. `CallReturns`, `Ends` and `RunEnds` assume weak fairness of each thread (the
only one, in `BlockLoop`, `TrainingQuota`, `PostPolish` and `Rounds`): the operating
system runs a thread that can run. `iter_lock` needs no strong fairness because each worker
acquires it finitely often (`PoolDescends`, section 5). Nothing is assumed of `CallAgain`, of the outcome of
comparisons, of the start of threads, of crashes or of restarts. `CHECK_DEADLOCK FALSE`
stands in `Ratios.cfg`, where the program stops and no more starts are allowed, and in the two
configurations of `TrainingQuota`, where it stops after the second training set.

## 4. Disagreements between the code and its documentation

* `Thread::join` (`threading.cpp:80`) loads `tid` twice, and the child zeroes it
  in between (`JoinsItsThread`). The caller is then past a thread that has
  nothing left to do but exit, unless `pthread_join(0)` crashes, so the
  properties that rest on the join (`ReturnSafe`) still hold.
* `static_reduce_attrib` (`attribute.h:797`) erases an entry another thread may
  be counting up (`NoUseAfterErase`). The conservation properties of `AttribPool`
  are therefore stated for behaviours in which that has not happened.
* The copy constructor of `Cluster` (`newcluster.cpp:154`) drops the locations
  (`LocationsKnown`).
* The second round of `create_set` (`training.cpp:609`) frees at most a block's own
  quota once more, where the comment in `training.h:73-77` has it fill up all the
  residue (`FillsQuota`).

Noticed, without a run of its own:

* Training. The pool of `create_xset03` joins two lists of rare-named records, so a
  record with both a rare first and a rare last name is paired with itself
  (`training.cpp:916-941`), although the manual has the pairs be of different, rare names
  (`manual.tex:148-149`); `NonMatchPairs` allows just that case. `create_tset02` counts a
  pair found by both of its names twice, so it may return fewer pairs than the limit; a word
  that a name repeats counts twice. When the small training sets share no profile the
  table is empty and the smoothing fits nothing.
* Comparison. The kept probabilities are a `std::set` (`engine.cpp:130`) where the manual
  has a priority queue (`manual.tex:635-661`): equal results hold one place. The manual has
  the cohesion of a merged cluster be the average of the queue (`manual.tex:665-668`), the
  code mixes it with the two old cohesions (`engine.cpp:210`); the manual discards low
  results when the queue is full (`manual.tex:657`), the code always drops the lowest kept
  one (`engine.cpp:171`). `is_misspell` takes a substitution after an insertion for one
  missing letter. Two assignees with an empty number share it, and score 5 or 6 whatever their
  names; the comment in `attribute.cpp` speaks of patents where records are counted. The
  current and the previous truncation of first names are always equal
  (`disambiguate.cpp:707-709`), so the branch for a round that lowers it
  (`comparators.cpp:436`) is never taken. The comment at `attribute.cpp:263` has the two
  strings of a first name the other way round.
* Priors. A block whose parts are all the most frequent gets the prior 0, and
  `newcluster.cpp:221` makes that 0.01, more than a block of rare names gets, although the
  adjustment is there to "penalize those frequent names" (`cluster.cpp:687-688`). `RareFavoured`
  leaves out these blocks only: TLC violates it without its condition `~ most(d)`.
  `column_stat` counts a block once, however many clusters it has. A debug block file chooses blocks outside debug mode as well.
* Restart. The input of a round is to be the result of the one before (`manual.tex:66-68`,
  `371-372`), but clusters are blocked by what is in memory (`cluster.cpp:163`): rounds 2 and 3
  of `config/BlockingConfig.txt` block by middle names, which are replaced after the blocking
  (`cluster.cpp:309`, `newcluster.cpp:141`) and never written. So a process that came through a
  round before may block otherwise than one started at this round from the same file. With
  "POSTPROCESS AFTER EACH ROUND" every process reads and changes the names once more before
  it blocks, and the blocks agree. `BlocksOfRestart` leaves out rounds that block by middle
  names without post-processing: TLC violates it for them in an instance of three rounds of
  which the last two block by middle names.
* Rounds. The manual says the process goes on until no merge can happen
  (`manual.tex:215`), the code stops after `MAX_ROUNDS` passes. `print` throws "Not Consistent!" only after the output file was emptied. The stable
  training sets are made before names and coauthors are reconfigured. A component with no
  active column ends the program with `exit(0)`, as if it had succeeded (`record.cpp:226`).
* Files. A result file that was cut short is read without complaint, unless it ends in a
  part of a key that is no record's, and so is a ratio file (`ratios.cpp:722`): missing profiles
  then have the ratio 0 (`engine.cpp:34`), and a cut header switches comparators off, where
  the manual has the ratios database map all possible profiles (`manual.tex:160-162`).
  `TableServes` is stated for tables from whole files: TLC violates it without its condition
  `table.whole`.

## 5. Proofs

`WorkerPoolProof` proves for every number of blocks and threads, every set of
skipped blocks and every bound on calls (assumption `PoolAssumption`):
`PoolInv`, the inductive invariant: who holds the lock (`LockInv`); between
reading and advancing the cursor the two agree (`CursorInv`); taken blocks lie
behind the cursor and are pairwise different (`TakenInv`); a worker leaves only at
the end (`EndInv`); the caller's loops have passed only workers that are over
(`LoopInv`), which needs `TidInv`: while a thread may touch its Worker, `tid`
names it unless the library has not stored it yet, so `join` skips only workers
that are over. `OnceEach`, `ReturnSafe` and `AllHandled` follow. `CountInv` is
proved inductive relative to `PoolInv`; it relates the counter to the blocks
already tallied and gives `ReportExact`. `PoolImplementsDispatch` maps every step
to a step of `BlockDispatch` or a stutter.

`WorkerPoolProof` also proves about `BlockLoop`, for every list of clusters, every number of thresholds
and every MAX_ROUNDS (`BlockAssumption`), `BlockInv`, with `Conserved`,
`IteratorsValid`, the sizes (`SizeInv`), the pairs a pass without merges has been
through (`ClearedInv`) and the bound on the passes (`RoundInv`): each pass under a
threshold lost a cluster, except that the first may have found everything settled
and only the carried-over size made the loop repeat. `SuccessIsFixpoint` and
`EveryPassMerged` follow, and `LoopImplementsMerging` refines `ClusterMerging`.

`TrainingQuotaProof` proves for every number and size of blocks and every limit
below 2^31 (`QuotaAssumption`): `QuotaInv`, with the prefix sums (`SumInv`: the
quotas given out, times the distributor, are at most the limit times the weights,
so together they are at most the limit) and what each block has used
(`ShareInv`: before the first round comes to a block it has used nothing, after it
the block is exhausted or full, and while the second round works on a block what
it may still take is at most the free quota). `QuotaConserved` is one of its parts:
no subtraction wraps around and no set exceeds the limit. `PairsAreFresh` adds
`CursorInv`: the cursors of a block only move forward in the order of pairs.

`PostPolishProof` proves for every number of records, every patents, countries, names
and attributes, and every result to start from (`PolishAssumption`): `PolishInv`, by
one lemma for each action that does more than move an iterator. If the result was
complete, the clusters are a partition, each under one of its own members (`ListInv`);
every record is sent to the delegate of its cluster, and delegates and nodes lead to each
other (`MapsInv`); the links still ahead are delegates of clusters other than the center
(`LinksInv`), which is why a merge, whichever member becomes the delegate, neither erases
the center nor makes a link ahead stale. `CompleteIsPolished` follows from it action by
action (`LookupsFind`: both lookups of a merge find their clusters), and
`PolishImplementsMerging` refines `ClusterMerging`.

`FixpointProved` adds `PassInv`, relative to `PolishInv`: while a pass has merged nothing,
every center it has gone through, and every pair of links of the center it is at, was
found to have nothing alike (`LinksTried`), and the threshold is the one of that center.
A pass that ends with nothing merged has therefore tried them all, and `PolishIsFixpoint`
follows, although the code only compares two counters.

`DataTheorems` has the facts about sums, orders and numbers the other proofs need; they
say nothing of the program. Of `SumFunctionOnSet`: its
equation, that a sum is moved along a bijection (`SumReindex`), that the sizes of the
classes of a partition add up to the whole (`SumClasses`), that a sum of what depends on
the class only can be taken over the classes (`SumByValue`), that sums add (`SumPlus`), that
they change by what one term changes (`SumChange`); that sorting lists every element once
(`InOrderLists`); division; and that functions defined by recursion on numbers
(`RecursionOnNat`) exist and obey their equations; and the lexicographic order. The
library's induction theorems cannot be used here, so each is shown of a minimal
counterexample, among numbers or among the subsets of a finite set (`MinimalSubset`).

`SetComparisonProof` proves for all sizes, levels and numbers of candidates
(`ComparisonAssumption`): `CompareInv`. `ProbsInv`: the kept set never
exceeds its bound, the qualified probabilities reach the threshold on average, and while
none has qualified all kept ones lie below it. `VerdictInv`: the verdict is that of the
averages, and the set is not empty once the delegates were met. `VerdictFollows` then
needs that a set of probabilities below the threshold has its average below it, and one with more
than the candidates qualified takes the other average. `CohesionInRange` is arithmetic on the
fraction: a weighted mean of the two cohesions and the average lies between its parts, and the
average reaches the threshold when the clusters merge.

`SecondShareProved` (in `TrainingQuotaProof`) adds `GivenInv` to `QuotaInv`: what a block has given
is what `create_set` counts as used, until the second round grants it its quota once more;
from then on the two differ by just what the free quota lost.

`RoundsProof` proves for every number of records, rounds and starts and all names,
blocking strings and coauthors (`RoundsAssumption`): `RoundsInv`. `PlaceInv`: which
round and which files belong to a place in the program. `ClustersInv`: `total_num` is
the size of the clusters in memory, and these, those of the ClusterSet and those of the
network file, hold together what the result the round started from held together. `WholeInv`:
while no cut file was read, the source is whole and the clusters in use are a
partition. The four properties `WholeIsPartition`, `AlwaysConsistent`, `SourceSurvives`
and `RoundsOnlyMerge` are parts of it. It rests on lemmas about lists of clusters: sorting into
blocks is a bijection (`InOrderLists`, `RearrangedSame`), merging keeps the records, their
number and the delegates (`MergesKeep`), consolidation makes a partition
(`ConsolidatedList`), what a crash leaves of a file is known not to be whole (`CutShortType`).

`MemoryInvariant` adds `MemoryInv`, relative to `RoundsInv`, and with it `NamesOfRestart`:
no file has a record in two clusters (`CutApart`: not even one that was cut short), and whatever
clusters are in use, the middle names and coauthors in memory give each of them what those of
the CSV file would (`Restartable`). Reading keeps that (`ReadRestartable`), because every name
of a cluster becomes the longest, which is then still the longest. Merging
keeps it (`NamesOfBoth`): the longest name of two clusters put together is the
first of their longest ones, whether they were changed before or not (`LongestOfBoth`).
This is about names and coauthors; the blocks made of the names are another matter.

`BlocksInvariant` adds `BlocksInv`, relative to the two before, and with it `BlocksOfRestart`.
Reading a file gives the middle names that the CSV file would give
(`MemoryInv`), so with post-processing, where a round reads its file twice, the names at the
second reading are known: polishing and printing change none of them. Each cluster is put
into the block of its delegate by these names (`ReadBlocks`), and merging two clusters of one
block keeps every record in the block it was in (`MergesBlocks`). A round that does not block by
middle names does not look at them. What is left, a round blocking by middle names
without post-processing, is where the blocks may differ (section 4). `RestartProved` puts both
parts together.

`AttribPoolProof` proves for every number of threads, records and names and every
assignment of records to threads (`AttribPoolAssumption`): `ReferenceInv`. Clusters are
disjoint and a thread works on two of its own (`OwnInv`); records of a cluster share an
entry (`ShareInv`), so the pointer check never throws; where a thread is in its calls,
and what its iterator is there (`CallInv`); no node in use is one still to come
(`KnownInv`). `CountInv` is the core: the counter of every node in the pool is the number of
references to that very node, of records at rest and of merges in flight, and it holds
even after an entry with references was lost, because the lost node is another one than its successor. `ZeroInv`:
an entry without references has just been made or is about to be erased by a thread
that stands at it. `LiveInv`: while nothing was lost, nodes with references are live.
`SoloInv`: with one thread, nothing happens to its iterator between two steps.
`CountsConserved` then compares the two ways of counting: what the calls ahead owe an entry and
what the merge holds in it add up to the size of the merge (`Held` and `Owed`), summed over
threads by the owner of each record (`SumClasses`). `PoolIsReferenced`, `MembersShareEntry`
and `SoloMergeSafe` follow directly. `CleanPoolKeeps` shows in passing that
`clean_attrib_pool` finds nothing to drop between rounds.

`RatiosProof` proves, for any lists of records, limits and thresholds of rare names
(`NameAssumption`, `PriorsAssumption`, `RatiosAssumption`): `NameInv`, through crashes and
restarts. `RareInv`: each list of rare names holds the first record of a full name, and each
record once, which is why pairs from the two lists are of different names unless one record
is in both (`NonMatchPairs`). `NonMatchPairs` and `MatchPairs` are themselves parts of it:
when the names of the records are reconfigured, `RecordsInv` says that the columns
they speak of stay as they were read. That matches are complete below the limit (`FoundIs`)
rests on what two nested loops visit (`PairsOfIs`), on lists put one behind the other (`FlattenIs`)
and on a count: a pair is found at most twice, once for each column, so with fewer than
half the limit nothing is cut off (`UpToLimitIs`).

`PriorsInv`, in the same module, has `PriorsUsable` and `RareFavoured`, and both are arithmetic
about the blocks a round sets up (`BlocksAre`). The initial prior is above 0
(`InitialPriorIs`: nothing is divided by 0, because two records in one cluster are two
records) and depends on nothing but how many clusters of each size there are
(`InitialPriorBySizes`, by `SumByValue`). A logarithm is taken of the highest count and one
not above it (`OccurrencesAre`), so a rarer part has no smaller factor, and only a most
frequent part has 0 (`FactorIs`). Multiplying keeps the order of two priors and of two
factors, also when the result is rounded (`ScaledGrows`), so does the product of the factors
above 1 when it has more or larger ones (`ProductsGrow`, by induction over the columns), and
a prior times a largest factor of at most 1 is never above such a product
(`AdjustedGrows`). This is why it matters that the code multiplies in the order of the
columns: rounded products in different orders need not compare. The bound of 0.95 keeps the
order, and a prior above 0 is not replaced (`PriorValueOrder`).

`TableInvariant`, in the same module, is about the rest of a round. `ActiveInv`: the active
comparators are those of the round, but for the training by patent, and the similarity
names follow them. `MadeInv`: what the training, the two components, the product and the
smoothing each leave for the next step. `FilesInv`: a ratio file that is whole, and the table
made of it, has all profiles of its round's columns; crashes leave only files that are
not whole. `PositionsInv`: the static positions of the names, found in the first round, are
right in all of them, because the names come first in a record.
The three properties of the table follow from it and from these lemmas:
* `RadixIs`: for any maximum profile whose nodes do not overflow, `index2sp` and `sp2index`
  are inverse to each other between the nodes and the profiles up to the maximum. Both
  are recursive functions, `NodesAre`, `IndexAre` and `RestAre` give their equations.
* `CompareIs`: no comparison of two records exceeds the maximum of its column. With it
  the smoothed table has every profile that is asked for (`TableServes`).
* `PlacesAre`, `GroupsShare`: the places of the two groups in a key do not overlap and fill
  it, and a column has the same place in a component as in the similarity names.
  `MoreIs` then says that multiplying a component in makes every pair of a row and a
  profile a row of its own (`FactorsIndependent`).
* `RisesBetween`: from a node to any node above it, one step up in a place where they
  differ stays below the upper one; `CodedCounts`: no two ratios are fitted to one node
  (`SmoothedInOrder`).

That the loops of the program come to an end is proved as far as it does not depend on
fairness. `NoDescent` (in `DataTheorems`) shows that no sequence of tuples of natural numbers
decreases for ever in the lexicographic order `LexLess`. For each module with a liveness
property a tuple of what is left to do, the coarsest first, is proved to consist of natural
numbers and to decrease with every step, from the inductive invariants above:
* `PoolDescends`: calls, the caller's two loops and their turns, blocks behind the cursor,
  then the place of each worker in its loop. It holds of every interleaving: a worker
  takes `iter_lock` finitely often, which is why weak fairness is enough for it.
* `LoopDescends`: thresholds, passes, the two iterators over the list.
* `QuotaDescends`: sets, phases, blocks, the two cursors of a block (the second round goes
  on from them, it never takes them back).
* `PolishDescends`: the clusters there are, a pass that follows one with merges, the centers,
  the two iterators over the links. This one needs that a merge takes a cluster out of the
  list, so that two lookups that succeed never find the same one, and for a result
  that was cut short too, of which `PolishInv` says little; `CutInvariant` is what is left
  of `ListInv`, `MapsInv` and `LinksInv` then (`CutLookups`).
* `RunDescends`: starts, the rounds, the stages of a round, the clusters left to merge;
  neither crashes nor cut files make a run repeat a round within one start.

What the liveness properties say beyond this, that until the end is reached a step can be
taken and is taken, is checked by the runs.

Of the assumptions, those of `Lists` say what a file of records is (columns are there,
names are words), those of `Results` what the result of an earlier round is: disjoint
clusters of the records there are, with the delegate among the members (`WholeIsPartition` of
`Rounds`). `PriorsAssumption` says of logarithms of quotients of at least 1 what is
true of `log`, rounded up: they are not negative, 0 only of the quotient 1, and a smaller
divisor does not make them smaller. `RatiosAssumption` says that the columns of a record are different ones
with the groups of `attribute.cpp:172-232`, the three names first; that the blocking columns of
a round are a list; that a similarity
column is one of those with a comparison in use (the second way to score classes
is "Not in use now", `attribute.cpp:540-543`); that a latitude may score up to 5
(`cLatitude::compare`); and that sets of classes are finite.

Each inductive invariant was checked by TLC before it was proved, as an invariant of the
runs above; `CutInv` and the five tuples of what is left to do were checked on the same
instances.

Only model-checked:
* the liveness properties (`CallReturns`, `Ends`, `RunEnds`): temporal reasoning from
  fairness needs ENABLED, which the prover does not have. Their other half, that
  steps run out, is proved.

## 6. Not modelled

* The solver of the quadratic programs and the values it returns (`ratio_smoothing.cpp`:
  doubles, an external library), the Jaro-Winkler score (`strcmp95.c`), distances and
  logarithms: numerical. What is decided from their results is modelled.
* Reading the CSV file and the two configuration files, the registration of attribute
  classes, log output: parsing and wording.
* `get_topN_coauthors` and the blocking by coauthors, `min_occurrence`,
  `adjust_prior`: code the program does not call or use.
* The string pools (`data_pool`), which only grow.
* `txt2sqlite3`, a stand-alone converter of result files.
