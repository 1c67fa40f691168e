# flatnav in TLA+

flatnav is an in-memory index for approximate nearest-neighbor search: a graph
over the stored vectors, built by parallel insertion and walked by beam search.
This directory models the parts of it that carry state, checks them with TLC
and proves the central results with TLAPS. Paths below are relative to `src/`;
`Index.h` is `include/flatnav/index/Index.h`, and the other headers are under
`include/flatnav/`.

## 1. The system

| Component | State | Operations | Interacts with |
|---|---|---|---|
| Construction (`Index.h`: `addBatch`, `add`, `allocateNode`, `initializeSearch`, `beamSearch`, `processCandidateNode`, `selectNeighbors`, `connectNeighbors`; `util/Multithreading.h`) | node memory (vector, `_M` link slots, label), `_cur_num_nodes`, `_index_data_guard`, one mutex per node, the row counter of `executeInParallel` | take a row, check the capacity, allocate, search, connect, join | workers share everything; each polls a visited set |
| Visited set (`util/VisitedSetPool.h`) | `_mark` (8 bits), `_table`, `_dirty` | `insert`, `isVisited`, `clear` | read and written by one search or relabelling at a time |
| Visited-set pool (same file) | a stack of sets, its mutex | `pollAvailableSet`, `pushVisitedSet`, `setPoolSize` | all searches; `setNumThreads` |
| Single search (`Index.h`: `search`) | two queues, a visited set | one call | reads the graph |
| Batch search (`Index.h`: `concurrentBatchSearch` and what it calls; `index/QueryState.h`) | one `QueryState` per slot, `next_query`, `slot_query_idx`, `active_count` | one distance per turn, round robin over the slots, refill of a finished slot | reads the graph; copies the logic of `search` |
| Relabelling (`Index.h`: `relabel`, `swapNodes`) | the node memory, a visited set, the loop's `src` and `dest` | rename all links, move nodes along the cycles of a permutation | run by reordering |
| Reordering (`util/Reordering.h`, `util/GorderPriorityQueue.h`; `Index.h`: `doGraphReordering`; `bindings.cpp`: `reorder`) | the permutation, the priority queue and its key table, the queue and visited set of RCM | gorder, rcm, lists of them | reads the graph, calls `relabel` |
| Saving and loading (`Index.h`: `serialize`, `saveIndex`, `loadIndex`) | the file | save, load | the whole index, without a mutex |
| Manual construction (`bindings.cpp`: `allocateNodes`; `Index.h`: `buildGraphLinks`, `getGraphOutdegreeTable`) | node memory, `_label_id` | allocate, read links from a Matrix Market file | bypasses `add` |
| Python bindings (`python-bindings/src/flatnav/bindings.cpp`) | `_label_id`, the index, the interpreter lock | add, search, batch search, save, load, statistics | everything; release the interpreter lock in `add` and batch search |
| Distances (`distances/*Dispatcher.h`, `util/*SimdExtensions.h`, `util/SimdUtils.h`, `util/Macros.h`) | what the machine supports, cached in four atomics | choose a kernel, run its loops | called by every search; all threads share the caches |
| Product quantization (`developmental-features/quantization/`) | centroids, tables of their distances | train, encode, distances between vectors and codes | uses the distances; not used by the index |
| Data types, docstrings | none | names of types, text | |
| Tools, experiments, tests | none | drivers | use the public interface |

What is hard here, and what makes each part right:

* Construction locks nodes one inside another in an order that depends on
  distances. It must not deadlock; scans must see consistent links; no link may
  go past the slots of its node, be listed twice or leave a node without any;
  every row must be stored once; and a full index must be noticed.
* The visited set is reused by changing one byte. It must behave as a set; the
  overflow of the byte decides for how long it does.
* A pooled set must have one user at a time while the pool grows and shrinks.
* Batch search must answer as `search` does, whatever order its turns take and
  whatever an earlier query left in a slot.
* Relabelling must carry out any permutation without losing a node; the
  heuristics must return permutations, and those they promise; several of them
  in a row, or a failure in the middle, must leave the same graph.
* A saved index must load as what was saved or not at all, even if saving was
  interrupted; and what goes wrong in a call from Python should be raised.
* A distance must not depend on the kernel that happens to compute it, and the
  kernel not on the order in which threads discover the machine. Most kernels
  are right for some dimensions only and do not test that they have one.
* Clustering runs in parallel over shared sums, and encoding, the tables and the
  codes must stay consistent when a quantizer is trained again.

## 2. Modules

| Module | Models | State and actions |
|---|---|---|
| `IndexBuild` | construction | One process per worker. `FetchRow` (the atomic `fetch_add`), `CheckCapacity`/`RejectFull` (the test before `_index_data_guard`), `AllocateFirst`/`AllocateNode`/`Overrun` (the section under `_index_data_guard`: entry sampling, then allocation), `PopCandidate`, `LockCandidate`, `VisitLink` (one link, mutex of the candidate held), `EndSearch` (end of the beam search and selection), `LockOwn`, `PickNeighbor` (own link written), `BackLink` (the neighbor's section under its mutex), `FinishConnect`, `Join` |
| `IndexBuildProofs` | theorems about its locks, links and rows | |
| `SearchMarks` | what a search expects of its visited set: a set | abstract specification |
| `MarkTable` | the data of a visited set: mark, table of bytes, list of dirty nodes | operators only: `NewTable`, `Inserted`, `Cleared`; `clears` and `inserted` are history |
| `VisitedSet` | one visited set | `Insert`, `Clear` on a table of marks |
| `VisitedSetProofs` | theorems about it | |
| `VisitedSetPool` | the pool, its searches and `setNumThreads` | `PollPooled`, `PollNew`, `ClearSet`, `Visit`, `Push`, `SetNumThreads`, `ShrinkPool`, on one table of marks per set; `seen` and `peak` are history |
| `VisitedSetPoolProofs` | theorems about it | |
| `BeamSearch` | `search` on a graph nobody changes, as the function `Search` of the graph, the query and the stale nodes its visited set shows | operators only; `Scanned` is the loop over the links of a candidate, `BeamOf` the loop over the candidates |
| `BatchSearch` | `concurrentBatchSearch` | `ProbeNode` (interleaved entry search), `SeedSlots`, then per turn `PopCandidate`, `FinishSlot` or `RefillSlot`, `ProcessOneLink`, `SkipDone`; `Return` |
| `BatchSearchProofs` | theorems about it | |
| `Relabel` | `relabel`, `swapNodes` | `Rewire`, `EnterCycle`, `FollowCycle`, `LeaveCycle`, `SkipPlace`, `Finish` |
| `GorderQueue` | `GorderPriorityQueue` | operators on a record of list and key table |
| `Reordering` | `reorder` of the binding, `doGraphReordering`, `gOrder`, `rcmOrder` | extends `Relabel` and `GorderQueue`: `CheckNames`, per strategy `BeginGorder`, `EnterTurn`, `UpdateQueue`, `PlaceNode`, `EndGorder` or `BeginRcm`, `NextSorted`, `NextCandidate`, `EndRcm`, then the steps of `Relabel` and `NextMethod`; `node` and `graph0` are history |
| `ReorderingProofs` | theorems about it and about `Relabel` | |
| `Distances` | the dispatchers, the detection of the machine, the kernels | Per thread: `Ask`, `ReadSupport`, `DispatchSse`, `DispatchDefault` (the levels of a dispatcher); `InitAvx`, `StoreAvx`, `ReadyAvx`, `Init512`, `Probe512`, `Store512`, `Ready512` (one access each to the atomics of `initializePlatformSupport`); `RunLoop`, `NextLoop`, `Return`, or `Stop` at an instruction the machine lacks. A kernel is the sequence of its loops |
| `DistancesProofs` | theorems about it | |
| `PyIndex` | the index as Python uses it: bindings, saving and loading, manual construction | `Add` and per row `CheckCapacity` or `RejectRow`, `StoreNode`, `CountNode`, `LinkNode`, then `EndAdd`; `Search`, `SearchUninitialized`, `BatchSearch`, `StrayBatch`, `EndBatch`, `SetNumThreads`, `Reorder`, `AllocateNodes`, `BuildGraphLinks`; `Save`, `SaveMembers`, `SaveNode`, `EndSave`, `Load`; `Crash`, `Restart`. `saved`, `given`, `harm`, `alone`, `loose` and `overlapped` are history |
| `PyIndexProofs` | theorems about it | |
| `Quantizer` | the product quantizer | `Train`, per subquantizer `InitializeCentroids`, per iteration `AssignVectors`, `AddVector` (a turn of the parallel loop), `UpdateCentroids`; `SetParameters`, `FinishTrain`; `Encode`, per block `ComputePQCode` (a turn) and `NextBlock`, `FinishEncode`; `encoded` is history |
| `QuantizerProofs` | theorems about it | |
| `MC*` | instances for TLC | values of constants only |

`Reordering` composes the heuristics with `Relabel`. `BatchSearch` is compared
with `BeamSearch`: both are translated from code that the program has twice
(`processCandidateNode` and `processOneLink`), and they share the operators for
the queues, where the two copies agree line by line. `VisitedSet` and
`VisitedSetPool` share the operators of `MarkTable`, so a set that comes back
from the pool holds the marks of the searches before. `IndexBuild` and `Relabel`
use a visited set abstractly: `StaleMarks = FALSE` is an empty set after
`clear()`, `StaleMarks = TRUE` lets any old mark show again, which covers what
`VisitedSet` allows (`StaleOnlyByWholeLaps`) after enough searches.

`PyIndex` stands above `IndexBuild`, `Reordering` and the searches and keeps of
them what a caller can see: an add stores, counts and links its rows in the order
of the mutex, and neighbors are any; a reordering is any permutation, which is
what `Reordering` establishes; a search finds between one and K neighbors, unless
links that were never written lead it out of the index (`Astray`).

Definitions marked "Faulty" are wrong versions of the definition that follows.
No specification uses them: each shows, put in place of the right one, that one
of the properties notices that kind of mistake.

### Abstractions

* A vector is the row of the batch it came from; distances are a table. The
  distance of the code is a function of two vectors, so nothing else is lost.
  The table need not be symmetric or a metric.
* The queues order by distance alone. In construction, where
  `std::priority_queue` leaves equal distances open, the choice is open. In the
  searches they are the arrays `push_heap` and `pop_heap` keep: any functions of
  the array that keep it a heap (`HeapAssumption`), those of libstdc++ in the run,
  so that nodes at the same distance come out as they do in the code.
  `selectNeighbors` orders by distance and id, and the model does too. `std::sort`
  in `rcmOrder` is not stable, so equal degrees are open.
* A section that runs under one mutex and touches nothing else that is shared
  is one step. The scan of a candidate is not: it goes link by link.
* `_cur_num_nodes` is read without a lock by the capacity test. In C++ that is
  a data race; on the platforms the build supports an aligned 8-byte read gives
  some value the variable has had, and the model reads the current one. The
  violations it finds need nothing worse.
* A write past the allocated memory ends the behavior (`outcome = "overrun"`),
  and so does an exception that leaves a thread (`"terminated"`).
* `Reordering` has a parameter for the window; `doGraphReordering` passes 5.
* `Distances`: the numbers are what is summed. A sum maps each coordinate to how
  often its term was added, lane by lane, so that losing, doubling or negating a
  term shows, while rounding and the order of a sum do not; the 1 of `1 - x` is
  kept beside it. A loop is one step, because the vectors do not change under it.
  A machine has or lacks AVX, AVX512F and AVX512BW. A thread is `"stopped"` where
  the machine would end the process; that the others end with it is left out.
* `PyIndex`: a vector is the number of the row it came in with; a row added to an
  index finds one neighbor, and the slots a prune leaves are any that
  `BackLinked` allows. The memory of a new process is `Raw`, which may look like
  a free slot. A search goes to every place that links may lead it to
  (`Reached`); links that were never written may name any place or none, and then
  it may write marks and lock mutexes outside the index. Nodes of
  `allocate_nodes` in an index of int8 or uint8 hold the bytes of floats, which
  are no vector anybody passed in (`Scrambled`). The program is assumed to wait for running adds before it
  reorders, allocates, links or loads, and edges of a file to name its vertices.
* `Quantizer`: a subvector is a point on a line, in units that make the means
  exact. The parallel loops that write what other turns touch, the sums and the
  codes, are interleaved; the others write one cell per turn and are one step.

## 3. Runs

| Run | Instance | Distinct states | Result |
|---|---|---|---|
| `build_three_workers` | 3 workers, 4 rows, room for 4, M = 2, ef = 3 | 64,678 | `TypeOK`, `LockOrder`, `NoDeadlock`, `LinkSlotsSuffice`, `NoDuplicateLinks`, `ConnectedNodesLeadOut`, `EveryRowStoredOnce`, `ScanSeesOneState` hold |
| `build_past_capacity` | 2 workers, 5 rows, room for 4, M = 4, stale marks | 70,312 | `Completes` under fairness |
| `build_overruns` | 2 workers, 3 rows, room for 2 | | `CapacityRespected` violated |
| `build_loses_links` | 2 workers, 3 rows | | `LinksGoOnlyWhenFull` violated |
| `visited_set` | 3 nodes, 2 bits of mark, 7 clears | 3,126 | `StaleOnlyByWholeLaps`, refinement of `SearchMarks` until the overflow |
| `visited_set_pool` | 3 threads, 3 sets of 1 node, 2 marks, 4 clears of each, 2 cores | 173,283 | `SearchSeesOwnMarks`, `SetsHaveOneOwner`, `LiveSetsBounded` |
| `batch_search` | 3 queries in 2 slots, 5 nodes, 2 samples, every graph with two links from the entries and one from two others | 181,974 | `SameAsSearch`, `ReturnsAllAnswers` |
| `relabel_stale` | every permutation of 3 nodes, stale marks | | `EveryNodeInPlace` violated |
| `reorder` | every graph of 4 nodes with one or two links each, window 1 | 335,859 | `LinksTravelWithNodes`, `EveryNodeInPlace`, `SameGraph`, `GreedyOrder`, `CuthillMcKee`, `ReorderReturns` |
| `distances` | 2 threads, every build and machine, both metrics, 3 types, 9 dimensions | 82,133 | `DistanceIsDefault`, `UndefinedOnlyForTinyL2`, `KernelOfTheMachine` |
| `py_index` | 2 callers, 4 calls, 1 crash, 2 places, M = 2, threads 1 to 4 | 964,152 | `StoredRowsWereGiven`, `GraphIsClosed`, `FailuresAreRaised`, `LoadRestores`, `BuiltAsFiled`, `CallsEnd` |
| `quantizer` | 2 subquantizers of 4 centroids, 3 iterations, 5 batches in blocks of 3, 3 calls | 372,298 | `TrainedAsKMeans`, `DistortionNeverGrows`, `DistancesAgree` |

### Why these bounds

* Construction: with M = 2 the selection keeps one link, so every slot of a
  node fills, prunes happen and back-connections displace links already with
  four rows. The rows lie on a line with later rows between earlier ones. Three
  workers allow a cycle of waits longer than two. `build_past_capacity` has M = 4, so that a
  worker connects to two neighbors and holds its own mutex in between. The results that matter most of these do not rest on the
  bounds: they are proved.
* Visited set: with two bits the mark overflows after three clears; seven
  clears pass two overflows, so a mark can be stale by one lap and by two.
* Pool: three threads can empty it, grow it and find it shrunk while they hold
  sets. Three sets are as many as can be alive, and the
  memory of a set that was deleted is used for a new one. A lap of two clears is over
  twice within four, so a set shows what an earlier holder inserted.
* Batch search: three queries and two slots force a refill. The entry search
  samples the nodes 0, 2 and 4 of five and steps over the end; the graphs are
  all those in which the nodes searches begin at have two links, two others one
  and one none, so searches branch, meet cycles, dead ends and nodes they have
  seen. The queries lie between nodes, so distances tie, among the samples too.
  EfSearch = 1 is below K = 2, so the buffer is K. With fewer queries than slots
  the call makes as many slots as queries; the proof covers every number of both.
* Reordering: with window 1 and four nodes a node leaves the window and its
  contribution is taken back. The permutations of the heuristics are checked
  here; all permutations of any size are covered by the proof.

* Distances: two threads are enough for one to see the caches half filled. The
  dimensions lie on both sides of every comparison and multiple the dispatchers
  use. The proofs cover all dimensions and any number of threads.
* Python: two places are filled by one add of two rows, so that every call also
  meets a full index, and two adds the last place together. Four calls are
  enough to store, save, crash, start again and load, or to allocate, link, save
  and load. Thread numbers are one that is allowed and one that is not; a loaded
  index has two.
* Quantizer: the batches leave clusters empty, lie on both sides of the origin,
  have as many vectors as centroids, and too few; one of five vectors makes two
  blocks, the second shorter. Three calls train, train again and encode, or
  encode before the first training.

### Fairness

* `IndexBuild`: weak fairness of each worker. The operating system runs every
  thread that can run. Nothing is assumed about mutexes: a worker that waits
  need only go on if the mutex stays free.
* `BatchSearch`, `Reordering`: weak fairness of the next-state relation. One
  thread runs a loop and never waits.

* `PyIndex`: weak fairness of the work of each caller, not of the calls
  themselves: whether a call is made, or a process started, is up to the user.
  A caller that released the interpreter lock gets it back because Python hands
  it over when the holder's call ends or blocks. Weak fairness is enough: with a
  bounded number of calls the lock is free from some point on.

### Deadlock

TLC's deadlock check is off where the program stops (the batch is done, the
bounded number of clears is used up). `IndexBuild` has an explicit final
stutter and `VisitedSetPool` never stops, so there it is on; `NoDeadlock` also
states the absence of partial deadlocks.

## 4. What the runs found

* **Overrun at the capacity** (`build_overruns`). Two workers pass the unlocked
  test for the last place; the second writes behind the node memory.
* **Overwritten back-connections** (`build_loses_links`). A new node can be
  sampled and linked before it connects itself; its own links then overwrite
  the back-connection although slots are free.
* **Stale marks** (`relabel_stale`). `clear()` forgets old entries of the table
  before the mark overflows, so 255 clears later they show again. A search
  misses a node; `relabel` leaves nodes in the wrong place and ruins the graph.

What the passing runs say about failures:

* `FailuresAreRaised` lists what goes wrong in silence. With more than one thread
  a full index ends the process: the exception of `add` leaves a `std::thread`,
  and the `std::runtime_error` that `addBatch` documents never reaches its caller.
  So does a search on several threads with `num_initializations` of zero or less,
  which `initializeSearch` throws for; on one thread, and in `add` and the batch
  search, it is raised. Memory outside the index is touched by adds that share
  the last place, by `allocate_nodes`, which never asks for room, by reordering an
  empty index or one whose links lead to nodes that were not stored, and by every
  kind of search, and an add, that follows such links. Results nobody computed
  are returned by the parallel search and by the batch search when a query finds
  fewer than K neighbors, where the sequential search raises, and by a search
  of an empty index or of such a graph.
* `reorder` accepts a name in capitals and passes it on; the index then throws,
  after the strategies before it have moved the nodes. `SameGraph` says that the
  graph is whole nevertheless.
* A save during an add holds links to nodes it does not count (`loose`); the
  stored rows are right even then (`StoredRowsWereGiven`), except that nodes of
  `allocate_nodes` in an index of int8 or uint8 hold no row.
* `UndefinedOnlyForTinyL2`: for float vectors of one to three dimensions, L2 and
  a build with SSE, the dispatcher reaches the end of a function without a
  return. The quantizer reaches this with short subvectors.
* `KernelOfTheMachine`: the machine is asked for AVX512F alone (`Macros.h:140`), and
  `computeL2_Avx512_Uint8` uses AVX512BW (`util/SquaredL2SimdExtensions.h:46`). On a
  processor with the first and not the second the kernel ends the process, though
  `Macros.h:107` would have the question asked "before using any AVX or AVX512
  instructions". This is the only such instruction.
* `DistancesAgree` needs `CodesFit`. A code has a byte per bit of a centroid number
  (`ProductQuantization.h:123`) and one byte is written per subquantizer (169), which the
  constructor does not compare: with more subquantizers than bits each code runs
  into the next, in an order the parallel loop chooses, and the last one out of
  its memory; with more than eight bits a centroid number does not fit its byte.
* The specialization of L2 for `int8` tests `USE_SSE_4_1`, where `Macros.h`
  defines `USE_SSE4_1`: its kernel is in no build, and the plain loop runs.

Not findings, but worth knowing: the comments of `CentroidsGenerator.h` speak of
the distance that was given (86, 112) and of l2 (94), where the code uses the one
given, and its `normalized` (36) is never read. `gOrder` never takes its first node out of the
window, as its own pseudo-code says (`i > w + 1`); `GreedyOrder` states the
scores accordingly. The section under `_index_data_guard` matters for the node
mutexes too: a node's entry is sampled before the node exists, and the proof
that the waits are ordered rests on that.

## 5. Proofs

All theorems hold for every value of the constants that satisfies the `ASSUME`s.

* `IndexBuildProofs`
  * `TypeCorrect` (`TypeOK`): links, queues and owners name allocated nodes.
  * `WaitsAreOrdered` (`LockOrder`) and `DeadlockFree` (`NoDeadlock`).
  * `ScansAreConsistent` (`ScanSeesOneState`).
  * `RowsStoredOnce` (`EveryRowStoredOnce`), `SlotsSuffice`
    (`LinkSlotsSuffice`), `LinksAreDistinct` (`NoDuplicateLinks`) and
    `NodesLeadOut` (`ConnectedNodesLeadOut`), for any number of workers, rows and
    links, any capacity and any table of distances.
* `VisitedSetProofs`
  * `TypeCorrect`, `ASetForALap` (`ActsAsSetForALap`: the refinement of
    `SearchMarks`), `StaleNodesAreLapsOld` (`StaleOnlyByWholeLaps`), for any
    width of the mark and any number of nodes.
* `BatchSearchProofs`
  * `BatchIsSearch` (`SameAsSearch`), for every graph, every batch, any number
    of slots, any distances, ties included, and any heap that satisfies
    `HeapAssumption`. The search it speaks of shows no stale nodes: `search` polls
    a pooled set, whose old marks return after 255 clears, while a slot has a
    set of its own, so beyond that the two may differ.
* `ReorderingProofs`, assuming `StaleMarks = FALSE`; `relabel_stale` shows the
  assumption is needed
  * `LinksTravel` (`LinksTravelWithNodes`) and `RelabelIsRight`
    (`EveryNodeInPlace`), for any permutation.
  * `ReorderTyped` (`ReorderTypeOK`), `GraphIsKept` (`SameGraph`) and
    `RelabelWithin` (`LinksTravelWithNodes` and `EveryNodeInPlace`, for a
    relabelling that is one of several), for every graph, window and list of
    strategies.
  * `LayersAreOrdered` (`CuthillMcKee`), however `std::sort` breaks ties: also that a
    traversal starts only when what is placed leads to no node left, and at one
    with the fewest links; and
    `GorderIsGreedy` (`GreedyOrder`), for any window.
* `PyIndexProofs`
  * `TypeCorrect` (`TypeOK`), `RowsAreGiven` (`StoredRowsWereGiven`, which
    exempts the `Scrambled` nodes of an index of int8 or uint8),
    `LinksStayInside` (`GraphIsClosed`), `LoadsRestore` (`LoadRestores`),
    `GraphIsAsFiled` (`BuiltAsFiled`) and
    `SilentFailuresConfined` (`FailuresAreRaised`), for any number of callers,
    threads, places and links, any batches, and any number of calls and crashes.
* `VisitedSetPoolProofs`
  * `TypeCorrect`, `OneOwner` (`SetsHaveOneOwner`), `OwnMarksOnly`
    (`SearchSeesOwnMarks`: all its own marks, and of others only those made whole
    laps of clears ago) and `NoSetIsLost` (`LiveSetsBounded`), for any number of
    threads, sets and cores and any width of the mark.
* `DistancesProofs`
  * `TypeCorrect` (`TypeOK`): a thread's loop is one of its kernel's, and its register
    has the width of that loop.
  * `WidestKernelEverywhere` (`KernelOfTheMachine`), for any number of threads.
  * `DefinedFromFourDimensions` (`UndefinedOnlyForTinyL2`) and
    `EveryKernelIsTheDefault` (`DistanceIsDefault`), for any dimension.
* `QuantizerProofs`
  * `TrainingIsKMeans` (`TrainedAsKMeans`), `CodesStandForVectors`
    (`DistancesAgree`, for quantizers whose codes fit, `CodesFit`) and
    `DistortionShrinks` (`DistortionNeverGrows`), for any batches, numbers of parts,
    centroids and iterations, any size of a block, and any sequence of calls. `Grain` makes means exact; in the code they are rounded.

**Why construction cannot deadlock.** `connectNeighbors` keeps the mutex of its
node while it waits for a neighbor's, so the waits must be shown acyclic. They
are ordered by node id, though the code never compares ids. Links join a node
only to nodes its search has seen, and the search began at a node allocated
earlier. So the nodes fall into classes closed under links, each named by a
lower bound of its members, and a node that has not begun to connect still names
its own class (`ClassInv`). A neighbor that begins to connect after a worker has
seen it names the class the worker has seen, and that name is smaller than the
worker's node (`BelowInv`). A neighbor that was already connecting could not
have been scanned, because its mutex was held; and the search scans every
neighbor it returns before it ends. `LockOrder` alone is not inductive: it says
nothing of the searches that decide who will wait for whom. The least connecting
node then never waits for another connecting one, and scans never wait while
they hold a mutex, so somebody can always go on.

**Why every row is stored once.** Each row below the shared counter is in one
node or in the hands of one worker that has not stored it yet (`RowsInv`).

**Why links are distinct and there are slots for them.** `connectNeighbors` does
not look whether a link is there already. While a worker connects its node,
no neighbor it has left links to that node, and the node links to none of them
but the one it is waiting to answer (`HalfLinkInv`). Others can add such a link
only by connecting to the node themselves, and of two workers that connect only
the one with the larger node can have the other's among its neighbors, which is
what `LockOrder` rests on. The neighbors left and the slots used are at most M
together (`SlotInv`). A prune keeps the neighbor that is closest, and a
search always finds one, so no node ends without a link out (`LeadInv`).

**Why a batch search is a search.** The batch stops in the middle of a scan and
goes on later, and its slots hold what earlier queries left. The invariant says
of each slot that the search it holds leads to the beam its query leads to from
its entry (`TurnInv`), where a scan that was stopped leads where the rest of its links
lead. For this the recursive functions of `BeamSearch` must be known to
satisfy their equations. No induction theorem of the library can be used here;
a scan is followed by the number of links it has looked at, a beam by a rank
that each pop lowers (twice the nodes not visited, plus the candidates), and the
least rank at which the equations could fail is led to a contradiction.

**Why reordering keeps the graph.** Relabelling is right for a permutation, so
each heuristic must return one. In `gOrder` the keys of the queue and the nodes
placed divide the nodes between them (`PlacingInv`); popping removes one key
because the queue's table finds each key, and the bounds that move an entry rely
on the list being sorted, so both are in the invariant (`QueueOK`). In `rcmOrder`
every node taken from the sorted list has been placed, none twice. Between
strategies the graph on hand is the first one with its nodes moved (`MovedInv`).

**Why `rcmOrder` is Cuthill and McKee's.** The order speaks of the first node that
leads to a place, which the program does not keep. The invariant says that
the entries of the queue have sources among the nodes placed, in ascending
order and with the entries of one source by degree, and that whatever a placed
node leads to is marked or waits behind it (`Traced`); so the head of the queue
goes behind its parent and its siblings. A root comes from a list sorted by
degree (`Rooted`), when no queue is left; whatever a placed node leads to has then
been placed too (`RootsDue`).

**Why `gOrder` is greedy.** Its priorities are sums of ones, added and taken away
as nodes enter and leave the window. A priority and the changes of this turn
still to be made add up to how close the key is to the nodes in the window
(`ScoreInv`). What a node adds to the closeness of a key when it enters is
what the turn counts: the slots of either that lead to the other, and the pairs
of links from a third node to both (`ClosenessGrows`, `TouchedCounts`). The turn
counts them through the outdegree table and the in-edges derived from it, so
each list must be matched one to one with the slots it stands for (`ListsSlots`,
`InEdgesAre`, `FlattenedList`). The back of the list is the highest priority
because the list stays sorted.

**Why what is saved was given.** A save takes no mutex, and adds go on while it
copies. The row that holds `_index_data_guard` has filled the node after the
last one that counts, with what it was passed (`RowInv`), so the count never
runs ahead of the memory. The file takes its count before the memory, so every
node below that count was filled before it was copied; what an add changes
afterwards are links (`SaveInv`). The links are another matter: a node may have
been linked to one that the file does not count, and only a save without an add
under way holds a closed graph and exactly what the index holds at its end. The
interpreter lock keeps every other call out meanwhile, so this lasts until the
file is whole (`FileInv`), which is then the only kind of file a load accepts; a
crash leaves the file as it is.

**Why a graph is built as filed.** After the first lines of the file the links of
a node are the targets of its edges among those lines, in order, as far as there
are slots, and then slots that name the node (`Filled`). The next line goes to
the first of those, or nowhere when it is a self-edge, belongs to another node or
finds the node full; memory that was never written is not met, since
`allocate_nodes` wrote every slot.

**Why failures stay where they are.** The unlocked test of the capacity is still
true when the node is stored if the add has one thread, which works at one row
at a time, and nobody else adds (`AloneInv`). Relabelling and searching follow
links, which lead inside the index unless they came from a file (`IndexInv`), and
then the nodes that count are closed under them (`ReachedCounts`). What is left
are the calls that look at nothing: `allocate_nodes`, the parallel and the batch
search.

**Why the visited set is right for a lap.** Marks within one lap name distinct
clears; the invariant relates each entry of the table to the number of clears at
which it was written, modulo the lap.

**Why the pool shares nothing and loses nothing.** Every live set is once in the
pool or with one thread that is not idle, and these are all the live sets. Each
action moves one set between the two, adds one that was in neither, or deletes
sets of the pool. A set is added only when the pool is empty, and then the live
sets are exactly those held, so their number never passes the peak of holders.
The table of each set satisfies what is shown of one visited set, whoever held it,
and between two clears only its holder inserts; so a mark the holder did not
make is as old as a whole number of laps.

**Why relabelling works.** Between cycles the visited places are whole cycles of
P, hold their nodes, and the rest is untouched (`WholeCycles`). Within a cycle
the entry place parks the node that lived at `dest`; every other place that a
visited one leads to is settled, and `dest` is unvisited until it is the entry
(`OpenCycle`). Injectivity of P closes the cycle exactly where it began.

**Why the kernel is the widest.** Four atomics are written in a fixed order but by
several threads, so no flag alone tells what a cache holds. The invariant says
what a thread knows when it comes to read: from a flag, which is raised only
after the cache holds the machine's answer (`CacheInv`), or because it has stored
the answer itself (`ProbeInv`). Later stores repeat the same value, since what
the machine supports does not change; for AVX512 that also needs the cache of AVX
to hold its answer before it is consulted. A thread gives up a level only if no
kernel of it can be used (`LevelInv`).

**Why every kernel computes the default.** The dimension that led to a kernel
makes each of its loops meet the end it compares its pointer with. Between loops
the lanes of the register together hold each coordinate before `at` once and no
other; the sum outside the register holds what the body returned. The additions
of `reduce_add` reach every lane exactly once, for each width there is.

**Why clustering is k-means and never gets worse.** While the parallel loop runs,
the sums and counts of a centroid are those of the vectors assigned to it whose
turn is over (`SumInv`); when all are, its mean is that of k-means, and the
number of iterations tells how far k-means has come (`TrainInv`). An assignment
moves no single vector away from its centroid. A mean does move some, but not
its cluster: the sum of squares to any other point is larger by the number of
vectors times the square of its distance from the mean. `Total` is a fold, so
that sums may be split, changed at one place and compared is proved first, by
induction over finite sets; the induction theorems of the library cannot be
used, and the least set that a claim fails for is led to a contradiction
(`SetInduction`).

**Why codes and tables agree.** The bytes of a vector lie apart from those of the
others if a code has room for every part (`PlacesApart`), and the blocks follow
one another without a gap, so turns of the
encoding do not disturb each other, and later calls leave the codes alone until
a subquantizer gets new centroids (`CodeInv`). The tables are written by every
training after the last part (`TableInv`).

**Model-checked only.** Liveness (`Completes`, `ReturnsAllAnswers`,
`ReorderReturns`, `CallsEnd`): the prover has no rules for
fairness. Every safety invariant and action property of the passing runs is
stated by a theorem.

## 6. Not modelled

* Rounding of floating-point sums, and that another order of the sum gives other
  last bits.
* `computeL2_Sse_int8`, which no build contains.
* The kinds of training and initialization of the quantizer that nothing selects
  (shared, hot start, hypercube, k-means++), `decode`, which copies the first
  centroid of each part whatever the code says (`ProductQuantization.h:294`), and
  serialization. Of codes that do not fit (`CodesFit`) the model has the bytes that
  are written, and nothing is claimed.
* Search concurrent with `add` from another Python thread reads vectors that are
  being copied, which C++ leaves undefined. `PyIndex` lets the two overlap and
  says nothing of the results.
* Reordering, allocating, linking or loading while an add runs in another thread.
* The count of distance computations, the search concurrency setting, summaries
  and the conversion of arrays in the bindings.
* Data types, docstrings: names and text. Tools, experiments, tests: drivers
  around the public interface.

## 7. What could follow

1. Searches of several callers over one pool, with the stale nodes a set shows
   passed on to `Search`, and how far their answers can differ.
2. That each slot of `BatchSearch` refines a single search step by step, as an
   abstract specification that does not share operators with it.
