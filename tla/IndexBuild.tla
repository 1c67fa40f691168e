----------------------------- MODULE IndexBuild -----------------------------
(***************************************************************************)
(* Index::addBatch (include/flatnav/index/Index.h) run by the workers of   *)
(* executeInParallel (include/flatnav/util/Multithreading.h).              *)
(*                                                                         *)
(* A worker takes the next row of the batch from one atomic counter and    *)
(* adds it: an unlocked capacity check, a section under _index_data_guard  *)
(* that samples an entry node and allocates the new node, a beam search    *)
(* that locks one node at a time, and connectNeighbors, which holds the    *)
(* mutex of the new node while it takes that of each neighbor in turn.     *)
(*                                                                         *)
(* A code section that runs under one mutex and touches nothing else       *)
(* shared is one step, except the scan of a candidate's links, which goes  *)
(* link by link with the mutex held.  Vectors are rows of the batch;       *)
(* distances are the table Dist.  The two heaps of the search order by     *)
(* distance only, so equal distances leave the choice open here.           *)
(*                                                                         *)
(* A definition marked "Faulty" stands before the one it distorts and is   *)
(* used nowhere else: with it in place of the right one, a property fails. *)
(***************************************************************************)
EXTENDS Integers, FiniteSets

CONSTANTS
    Threads,         \* the worker threads (_num_threads of them)
    NumRows,         \* total_num_nodes, the rows of the batch
    Capacity,        \* _max_node_count
    M,               \* _M, link slots per node
    EfConstruction,  \* ef_construction, the beam width
    NumInit,         \* num_initializations
    Dist,            \* Dist[r, s], the distance between rows r and s
    StaleMarks,      \* whether a cleared visited set may still show old marks
    Free             \* owner of an unlocked mutex

Rows  == 0 .. NumRows - 1
Nodes == 0 .. Capacity - 1
Slots == 0 .. M - 1

ASSUME ThreadsAssumption == Threads # {} /\ IsFiniteSet(Threads) /\ Free \notin Threads
ASSUME SizesAssumption ==
    /\ NumRows \in Nat /\ Capacity \in Nat
    /\ M \in Nat \ {0} /\ EfConstruction \in Nat \ {0} /\ NumInit \in Nat \ {0}
ASSUME DistAssumption == Dist \in [Rows \X Rows -> Int]
ASSUME StaleMarksAssumption == StaleMarks \in BOOLEAN

VARIABLES
    current,      \* the atomic row counter of executeInParallel
    curNumNodes,  \* _cur_num_nodes
    vec,          \* the row stored in each allocated node
    links,        \* the M link slots of each allocated node
    owner,        \* _node_links_mutexes
    pc,           \* where each worker stands
    row,          \* the row a worker is adding
    node,         \* the node it allocated (new_node_id)
    cand,         \* beamSearch's candidates
    nbrs,         \* neighbors, of beamSearch and then of connectNeighbors
    visited,      \* the visited set the worker has polled
    at,           \* the candidate being scanned / the neighbor being linked
    slot,         \* i, the link slot being read / written
    outcome       \* how addBatch ended, or "running"

vars == <<current, curNumNodes, vec, links, owner, pc, row, node, cand, nbrs,
          visited, at, slot, outcome>>

Allocated == 0 .. curNumNodes - 1

Running(t, label) == outcome = "running" /\ pc[t] = label

Goto(t, label) == pc' = [pc EXCEPT ![t] = label]

-----------------------------------------------------------------------------
(* Distances, sampling and the two selections. *)

\* The distance from the vector of row r to node n.
D(r, n) == Dist[r, vec[n]]

Closest(r, S)  == {x \in S : \A y \in S : D(r, x) <= D(r, y)}
Furthest(r, S) == {x \in S : \A y \in S : D(r, x) >= D(r, y)}

\* The nodes initializeSearch looks at: every step_size-th of those allocated.
SampledNodes ==
    LET step == IF curNumNodes \div NumInit = 0 THEN 1 ELSE curNumNodes \div NumInit
    IN  {n \in Allocated : n % step = 0}

\* The closest of them, the first one met on a tie (dist < min_dist).
EntryNodes(r) ==
    {e \in Closest(r, SampledNodes) : \A x \in Closest(r, SampledNodes) : e <= x}

\* The queue after one more push: the furthest leaves once it is over ef.
Trimmed(r, S) ==
    IF Cardinality(S) > EfConstruction THEN {S \ {x} : x \in Furthest(r, S)} ELSE {S}

\* selectNeighbors pops by distance, the larger id first on a tie.
Before(r, y, x) == D(r, y) < D(r, x) \/ (D(r, y) = D(r, x) /\ y > x)

\* Its greedy choice: x stays when fewer than m were saved before it and it is
\* no closer to any of them than to the query.
Selections(r, S, m) ==
    IF Cardinality(S) < m
    THEN {S}
    ELSE {R \in SUBSET S : \A x \in S :
            x \in R <=> LET saved == {y \in R : Before(r, y, x)}
                        IN  /\ Cardinality(saved) < m
                            /\ \A y \in saved : D(vec[y], x) >= D(r, x)}

SelectionM == IF M \div 2 > 1 THEN M \div 2 ELSE 1

\* The links of node n without its self-loops.
OutLinks(n) == {links[n][s] : s \in Slots} \ {n}

\* Faulty: j starts over before the self-loops are filled in.
RewrittenFromStart(n, R) == {[s \in Slots |-> n]}

\* The slots of node n after a prune to R: furthest first, then self-loops.
Rewritten(n, R) ==
    {a \in [Slots -> R \cup {n}] :
        /\ R \subseteq {a[s] : s \in Slots}
        /\ \A s \in Slots :
            IF s < Cardinality(R)
            THEN a[s] \in R /\ \A u \in 0 .. s - 1 : D(vec[n], a[u]) >= D(vec[n], a[s])
            ELSE a[s] = n}

-----------------------------------------------------------------------------
(* Taking a row, the capacity check and the allocation. *)

Init ==
    /\ current = 0
    /\ curNumNodes = 0
    /\ vec = [n \in {} |-> 0]
    /\ links = [n \in {} |-> [s \in Slots |-> 0]]
    /\ owner = [n \in Nodes |-> Free]
    /\ pc = [t \in Threads |-> "fetch"]
    /\ row = [t \in Threads |-> 0]
    /\ node = [t \in Threads |-> 0]
    /\ cand = [t \in Threads |-> {}]
    /\ nbrs = [t \in Threads |-> {}]
    /\ visited = [t \in Threads |-> {}]
    /\ at = [t \in Threads |-> 0]
    /\ slot = [t \in Threads |-> 0]
    /\ outcome = "running"

\* Faulty: the increment of a counter that is not atomic gets lost.
FetchRowTorn(t) ==
    /\ Running(t, "fetch")
    /\ current' \in {current, current + 1}
    /\ IF current < NumRows
       THEN row' = [row EXCEPT ![t] = current] /\ Goto(t, "check")
       ELSE row' = row /\ Goto(t, "done")
    /\ UNCHANGED <<curNumNodes, vec, links, owner, node, cand, nbrs, visited, at, slot, outcome>>

\* current.fetch_add(1), and the break once the batch is exhausted.
FetchRow(t) ==
    /\ Running(t, "fetch")
    /\ current' = current + 1
    /\ IF current < NumRows
       THEN row' = [row EXCEPT ![t] = current] /\ Goto(t, "check")
       ELSE row' = row /\ Goto(t, "done")
    /\ UNCHANGED <<curNumNodes, vec, links, owner, node, cand, nbrs, visited, at, slot, outcome>>

\* add reads _cur_num_nodes before it takes _index_data_guard.
CheckCapacity(t) ==
    /\ Running(t, "check")
    /\ curNumNodes < Capacity
    /\ Goto(t, "alloc")
    /\ UNCHANGED <<current, curNumNodes, vec, links, owner, row, node, cand, nbrs, visited, at, slot, outcome>>

\* The runtime_error of a full index: addBatch passes it on when it runs the
\* rows itself, and an exception that leaves a std::thread ends the process.
RejectFull(t) ==
    /\ Running(t, "check")
    /\ curNumNodes >= Capacity
    /\ outcome' = IF Threads = {t} THEN "threw" ELSE "terminated"
    /\ UNCHANGED <<current, curNumNodes, vec, links, owner, pc, row, node, cand, nbrs, visited, at, slot>>

\* Faulty: the links are filled once _cur_num_nodes has been incremented.
StoreLinksLate(t) ==
    /\ vec' = [n \in 0 .. curNumNodes |-> IF n = curNumNodes THEN row[t] ELSE vec[n]]
    /\ curNumNodes' = curNumNodes + 1
    /\ links' = [n \in 0 .. curNumNodes |->
                    IF n = curNumNodes THEN [s \in Slots |-> curNumNodes'] ELSE links[n]]
    /\ node' = [node EXCEPT ![t] = curNumNodes]

\* allocateNode: the vector, every link to the node itself, then the count.
Store(t) ==
    /\ vec' = [n \in 0 .. curNumNodes |-> IF n = curNumNodes THEN row[t] ELSE vec[n]]
    /\ links' = [n \in 0 .. curNumNodes |->
                    IF n = curNumNodes THEN [s \in Slots |-> n] ELSE links[n]]
    /\ curNumNodes' = curNumNodes + 1
    /\ node' = [node EXCEPT ![t] = curNumNodes]

\* Node 0 has nobody to be connected to: add returns.
AllocateFirst(t) ==
    /\ Running(t, "alloc")
    /\ curNumNodes = 0 /\ curNumNodes < Capacity
    /\ Store(t)
    /\ Goto(t, "fetch")
    /\ UNCHANGED <<current, owner, row, cand, nbrs, visited, at, slot, outcome>>

\* The marks a visited set may show right after clear().
MarksAfterClear == IF StaleMarks THEN SUBSET Allocated ELSE {{}}

\* The section under _index_data_guard, and the start of beamSearch, which
\* touches only the worker's own queues and visited set.
AllocateNode(t) ==
    /\ Running(t, "alloc")
    /\ curNumNodes > 0 /\ curNumNodes < Capacity
    /\ \E e \in EntryNodes(row[t]), marks \in MarksAfterClear :
        /\ cand' = [cand EXCEPT ![t] = {e}]
        /\ nbrs' = [nbrs EXCEPT ![t] = {e}]
        /\ visited' = [visited EXCEPT ![t] = marks \cup {e}]
    /\ Store(t)
    /\ Goto(t, "search")
    /\ UNCHANGED <<current, owner, row, at, slot, outcome>>

\* The same section entered with the index already full: the vector is written
\* past the end of _index_memory.  Nothing after that is defined.
Overrun(t) ==
    /\ Running(t, "alloc")
    /\ curNumNodes >= Capacity
    /\ outcome' = "overrun"
    /\ UNCHANGED <<current, curNumNodes, vec, links, owner, pc, row, node, cand, nbrs, visited, at, slot>>

-----------------------------------------------------------------------------
(* beamSearch and processCandidateNode. *)

\* Faulty: the search stops at the first full beam.
SearchOverWhenFull(t) == cand[t] = {} \/ Cardinality(nbrs[t]) >= EfConstruction

\* No candidate left, or the closest is further than all of a full beam.
SearchOver(t) ==
    \/ cand[t] = {}
    \/ /\ Cardinality(nbrs[t]) >= EfConstruction
       /\ \A c \in cand[t], x \in nbrs[t] : D(row[t], c) > D(row[t], x)

PopCandidate(t) ==
    /\ Running(t, "search")
    /\ ~SearchOver(t)
    /\ \E c \in Closest(row[t], cand[t]) :
        /\ at' = [at EXCEPT ![t] = c]
        /\ cand' = [cand EXCEPT ![t] = @ \ {c}]
    /\ Goto(t, "lock")
    /\ UNCHANGED <<current, curNumNodes, vec, links, owner, row, node, nbrs, visited, slot, outcome>>

LockCandidate(t) ==
    /\ Running(t, "lock")
    /\ owner[at[t]] = Free
    /\ owner' = [owner EXCEPT ![at[t]] = t]
    /\ slot' = [slot EXCEPT ![t] = 0]
    /\ Goto(t, "scan")
    /\ UNCHANGED <<current, curNumNodes, vec, links, row, node, cand, nbrs, visited, at, outcome>>

\* Faulty: the target is not marked visited.
ConsiderUnmarked(t, n) ==
    /\ UNCHANGED visited
    /\ IF \/ Cardinality(nbrs[t]) < EfConstruction
          \/ \E x \in nbrs[t] : D(row[t], n) < D(row[t], x)
       THEN /\ cand' = [cand EXCEPT ![t] = @ \cup {n}]
            /\ \E kept \in Trimmed(row[t], nbrs[t] \cup {n}) : nbrs' = [nbrs EXCEPT ![t] = kept]
       ELSE UNCHANGED <<cand, nbrs>>

\* A link target seen for the first time joins both queues if the beam has
\* room or the target beats its furthest member.
Consider(t, n) ==
    /\ visited' = [visited EXCEPT ![t] = @ \cup {n}]
    /\ IF \/ Cardinality(nbrs[t]) < EfConstruction
          \/ \E x \in nbrs[t] : D(row[t], n) < D(row[t], x)
       THEN /\ cand' = [cand EXCEPT ![t] = @ \cup {n}]
            /\ \E kept \in Trimmed(row[t], nbrs[t] \cup {n}) : nbrs' = [nbrs EXCEPT ![t] = kept]
       ELSE UNCHANGED <<cand, nbrs>>

\* One turn of the loop over the candidate's links; the last one unlocks.
VisitLink(t) ==
    /\ Running(t, "scan")
    /\ LET n == links[at[t]][slot[t]]
       IN  IF n \in visited[t] THEN UNCHANGED <<visited, cand, nbrs>> ELSE Consider(t, n)
    /\ IF slot[t] < M - 1
       THEN slot' = [slot EXCEPT ![t] = @ + 1] /\ UNCHANGED <<owner, pc>>
       ELSE owner' = [owner EXCEPT ![at[t]] = Free] /\ Goto(t, "search") /\ UNCHANGED slot
    /\ UNCHANGED <<current, curNumNodes, vec, links, row, node, at, outcome>>

\* Faulty: the neighbors found are all connected, without selectNeighbors.
EndSearchUnpruned(t) ==
    /\ Running(t, "search")
    /\ SearchOver(t)
    /\ cand' = [cand EXCEPT ![t] = {}]
    /\ visited' = [visited EXCEPT ![t] = {}]
    /\ Goto(t, "own")
    /\ UNCHANGED <<current, curNumNodes, vec, links, owner, row, node, nbrs, at, slot, outcome>>

\* The visited set goes back to the pool and selectNeighbors keeps M/2.
EndSearch(t) ==
    /\ Running(t, "search")
    /\ SearchOver(t)
    /\ \E R \in Selections(row[t], nbrs[t], SelectionM) : nbrs' = [nbrs EXCEPT ![t] = R]
    /\ cand' = [cand EXCEPT ![t] = {}]
    /\ visited' = [visited EXCEPT ![t] = {}]
    /\ Goto(t, "own")
    /\ UNCHANGED <<current, curNumNodes, vec, links, owner, row, node, at, slot, outcome>>

-----------------------------------------------------------------------------
(* connectNeighbors. *)

LockOwn(t) ==
    /\ Running(t, "own")
    /\ owner[node[t]] = Free
    /\ owner' = [owner EXCEPT ![node[t]] = t]
    /\ slot' = [slot EXCEPT ![t] = 0]
    /\ Goto(t, "pick")
    /\ UNCHANGED <<current, curNumNodes, vec, links, row, node, cand, nbrs, visited, at, outcome>>

\* The link to the furthest remaining neighbor goes into slot i, whatever the
\* slot held, before the neighbor's mutex is requested.
PickNeighbor(t) ==
    /\ Running(t, "pick")
    /\ \E n \in Furthest(row[t], nbrs[t]) :
        /\ at' = [at EXCEPT ![t] = n]
        /\ links' = [links EXCEPT ![node[t]][slot[t]] = n]
    /\ Goto(t, "back")
    /\ UNCHANGED <<current, curNumNodes, vec, owner, row, node, cand, nbrs, visited, slot, outcome>>

\* Faulty: without the break, the new node replaces every self-loop.
BackLinkedEverywhere(t, n) ==
    IF n \in {links[n][s] : s \in Slots}
    THEN {[s \in Slots |-> IF links[n][s] = n THEN node[t] ELSE links[n][s]]}
    ELSE UNION {Rewritten(n, R) : R \in Selections(vec[n], OutLinks(n) \cup {node[t]}, M)}

\* The new node replaces the first self-loop of n, or n's links are pruned.
BackLinked(t, n) ==
    IF n \in {links[n][s] : s \in Slots}
    THEN {[links[n] EXCEPT ![s] = node[t]] :
            s \in {u \in Slots : links[n][u] = n /\ \A k \in 0 .. u - 1 : links[n][k] # n}}
    ELSE UNION {Rewritten(n, R) : R \in Selections(vec[n], OutLinks(n) \cup {node[t]}, M)}

\* Faulty: the neighbor's links are rewritten without its mutex.
BackLinkUnlocked(t) ==
    /\ Running(t, "back")
    /\ \E a \in BackLinked(t, at[t]) : links' = [links EXCEPT ![at[t]] = a]
    /\ nbrs' = [nbrs EXCEPT ![t] = @ \ {at[t]}]
    /\ slot' = [slot EXCEPT ![t] = @ + 1]
    /\ Goto(t, "pick")
    /\ UNCHANGED <<current, curNumNodes, vec, owner, row, node, cand, visited, at, outcome>>

\* The section under the neighbor's mutex.
BackLink(t) ==
    /\ Running(t, "back")
    /\ owner[at[t]] = Free
    /\ \E a \in BackLinked(t, at[t]) : links' = [links EXCEPT ![at[t]] = a]
    /\ nbrs' = [nbrs EXCEPT ![t] = @ \ {at[t]}]
    /\ slot' = [slot EXCEPT ![t] = @ + 1]
    /\ Goto(t, "pick")
    /\ UNCHANGED <<current, curNumNodes, vec, owner, row, node, cand, visited, at, outcome>>

\* Faulty: the node's own mutex is not released.
FinishConnectLocked(t) ==
    /\ Running(t, "pick")
    /\ nbrs[t] = {}
    /\ Goto(t, "fetch")
    /\ UNCHANGED <<current, curNumNodes, vec, links, owner, row, node, cand, nbrs, visited, at, slot, outcome>>

FinishConnect(t) ==
    /\ Running(t, "pick")
    /\ nbrs[t] = {}
    /\ owner' = [owner EXCEPT ![node[t]] = Free]
    /\ Goto(t, "fetch")
    /\ UNCHANGED <<current, curNumNodes, vec, links, row, node, cand, nbrs, visited, at, slot, outcome>>

-----------------------------------------------------------------------------
\* join() of every worker: addBatch returns.
Join ==
    /\ outcome = "running"
    /\ \A t \in Threads : pc[t] = "done"
    /\ outcome' = "returned"
    /\ UNCHANGED <<current, curNumNodes, vec, links, owner, pc, row, node, cand, nbrs, visited, at, slot>>

\* Nothing happens after addBatch has ended one way or another.
Ended == outcome # "running" /\ UNCHANGED vars

Step(t) ==
    \/ FetchRow(t) \/ CheckCapacity(t) \/ RejectFull(t)
    \/ AllocateFirst(t) \/ AllocateNode(t) \/ Overrun(t)
    \/ PopCandidate(t) \/ LockCandidate(t) \/ VisitLink(t) \/ EndSearch(t)
    \/ LockOwn(t) \/ PickNeighbor(t) \/ BackLink(t) \/ FinishConnect(t)

Next == (\E t \in Threads : Step(t)) \/ Join \/ Ended

Spec == Init /\ [][Next]_vars

\* Every worker that can run eventually does.  std::mutex promises no turn to
\* a thread that keeps asking, and none is assumed: a thread waiting for a
\* mutex need only go on if the mutex stays free.
FairSpec == Spec /\ (\A t \in Threads : WF_vars(Step(t))) /\ WF_vars(Join)

-----------------------------------------------------------------------------
(* Properties. *)

Labels == {"fetch", "check", "alloc", "search", "lock", "scan", "own", "pick", "back", "done"}

\* Every variable keeps its type; links and queues name allocated nodes only,
\* so no thread ever reads a node that has not been written.
TypeOK ==
    /\ current \in Nat
    /\ curNumNodes \in 0 .. Capacity
    /\ vec \in [Allocated -> Rows]
    /\ links \in [Allocated -> [Slots -> Allocated]]
    /\ owner \in [Nodes -> Threads \cup {Free}]
    /\ pc \in [Threads -> Labels]
    /\ row \in [Threads -> Nat]
    /\ node \in [Threads -> Nat]
    /\ cand \in [Threads -> SUBSET Allocated]
    /\ nbrs \in [Threads -> SUBSET Allocated]
    /\ visited \in [Threads -> SUBSET Allocated]
    /\ at \in [Threads -> Nat]
    /\ slot \in [Threads -> Nat]
    /\ outcome \in {"running", "returned", "threw", "terminated", "overrun"}

Searching(t)  == pc[t] \in {"search", "lock", "scan"}
Connecting(t) == pc[t] \in {"pick", "back"}
Building(t)   == Searching(t) \/ pc[t] = "own" \/ Connecting(t)

\* connectNeighbors holds the mutex of its own node while it waits for that of
\* a neighbor, and takes them in no declared order.  Yet a worker that waits
\* for a mutex held by another connecting worker is always connecting a larger
\* node: the waits of connectNeighbors cannot form a cycle.
LockOrder ==
    \A t, u \in Threads :
        pc[t] = "back" /\ Connecting(u) /\ owner[at[t]] = u => node[u] < node[t]

\* A thread that is asking for a mutex another thread, or itself, holds.
Blocked(t) ==
    \/ pc[t] \in {"lock", "back"} /\ owner[at[t]] # Free
    \/ pc[t] = "own" /\ owner[node[t]] # Free

\* No set of workers ever waits for each other's node mutexes: as long as some
\* worker is not done, one that is not done is not blocked.
NoDeadlock ==
    (\E t \in Threads : pc[t] # "done") => \E t \in Threads : pc[t] # "done" /\ ~Blocked(t)

\* connectNeighbors never writes a link past the M slots of its node, however
\* many neighbors the search returned.
LinkSlotsSuffice == \A t \in Threads : pc[t] = "pick" /\ nbrs[t] # {} => slot[t] < M

\* No node ever lists the same neighbor twice, although links come from the
\* node's own worker and from the back-connections of others: a duplicate
\* would waste a slot and put one node twice in selectNeighbors' queue.
NoDuplicateLinks ==
    \A n \in Allocated : \A s, u \in Slots :
        links[n][s] = links[n][u] /\ links[n][s] # n => s = u

\* Once add has returned for a node other than the first, the node has a link
\* out: no prune and no overwrite by another worker leaves it stranded.
ConnectedNodesLeadOut ==
    \A n \in Allocated \ {0} :
        (\A t \in Threads : Building(t) => node[t] # n) => OutLinks(n) # {}

\* No row is stored in two nodes, and when addBatch returns all are stored:
\* the atomic counter hands out every row exactly once.
EveryRowStoredOnce ==
    /\ \A n, m \in Allocated : vec[n] = vec[m] => n = m
    /\ outcome = "returned" => \A r \in Rows : \E n \in Allocated : vec[n] = r

\* The links of a node stand still while a worker scans them.
ScanSeesOneState ==
    [][\A t \in Threads : pc[t] = "scan" => links'[at[t]] = links[at[t]]]_vars

\* A link disappears only in a prune, which needs a full node: "If there is a
\* self-loop, replace the self-loop", otherwise "we have to be very careful"
\* (Index.h:1060 and 1068).
LinksGoOnlyWhenFull ==
    [][\A n \in Allocated :
        n \in {links[n][s] : s \in Slots} =>
            OutLinks(n) \subseteq {links'[n][s] : s \in Slots}]_vars

\* addBatch comes to an end.
Completes == <>(outcome # "running")

\* add never writes past the memory allocated for the index.
CapacityRespected == outcome # "overrun"

=============================================================================
