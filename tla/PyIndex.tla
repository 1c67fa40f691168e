------------------------------ MODULE PyIndex ------------------------------
(***************************************************************************)
(* The index as Python programs use it: the class PyIndex of               *)
(* python-bindings/src/flatnav/bindings.cpp over the public functions of   *)
(* include/flatnav/index/Index.h, with the file an index is saved to and a *)
(* process that may end and be started again.                              *)
(*                                                                         *)
(* A call holds Python's interpreter lock from its beginning to its end;   *)
(* only add and concurrent_batch_search release it while they work, so     *)
(* only they overlap with other calls.  How add finds neighbors is left to *)
(* IndexBuild, how a reordering is chosen and carried out to Reordering.   *)
(*                                                                         *)
(* Vectors are numbered in the order they are passed in.  The program is   *)
(* assumed to wait for running adds and batch searches before it reorders, *)
(* allocates, links or loads; it may add, search and save at any time.     *)
(*                                                                         *)
(* A definition marked "Faulty" stands before the one it distorts and is   *)
(* used nowhere else.                                                      *)
(***************************************************************************)
EXTENDS Integers, Sequences, FiniteSets, SequencesExt

CONSTANTS
    Callers,          \* Python threads
    Nobody,           \* not a caller
    Capacity,         \* dataset_size
    M,                \* max_edges_per_node
    HardwareThreads,  \* std::thread::hardware_concurrency()
    ThreadNumbers,    \* numbers of threads asked for
    Batches,          \* what is added by one call: rows and whether they have labels
    EdgeFiles,        \* the contents of Matrix Market files
    MaxCalls,         \* bound: calls in one behavior
    MaxCrashes        \* bound: crashes in one behavior

ASSUME PyIndexSizes ==
    /\ Capacity \in Nat \ {0} /\ M \in Nat \ {0} /\ HardwareThreads \in Nat \ {0}
    /\ ThreadNumbers \subseteq Nat
    /\ Batches \subseteq [rows : Nat \ {0}, labelled : BOOLEAN] /\ MaxCalls \in Nat /\ MaxCrashes \in Nat
    /\ Nobody \notin Callers

\* Edges name vertices of their file, counted from 1.
ASSUME EdgeFilesAreGraphs ==
    \A f \in EdgeFiles :
        /\ f.vertices \in Nat /\ f.edges \in Nat
        /\ f.list \in Seq((1 .. f.vertices) \X (1 .. f.vertices))

Places == 0 .. Capacity - 1
Slots  == 1 .. M
Types  == {"float32", "int8"}   \* uint8 differs from int8 in no call

Raw       == 0    \* what was never written, as a vector, a label or a link
Scrambled == -1   \* the bytes of floats in an index of another type

RawNode == [vec |-> Raw, label |-> Raw, links |-> [s \in Slots |-> -1]]

VARIABLES
    process,   \* "up", "down", or "corrupt" after an access outside the index
    index,     \* type, _cur_num_nodes, the memory of the nodes; ghost: loose
               \* once links may lead to nodes that are not counted
    threads,   \* _num_threads
    labelId,   \* _label_id
    guard,     \* the row that holds _index_data_guard, as <<caller, row>>
    gil,       \* the caller in a call of several steps that keeps the lock
    call,      \* the call each caller is in; ghost: alone, no other add meanwhile
    file,      \* what the last save left on disk
    saved,     \* ghost: what the index held when that save ended
    given,     \* ghost: the rows passed in so far
    harm,      \* ghost: what went wrong in this process and raised no exception
    calls, crashes

vars == <<process, index, threads, labelId, guard, gil, call, file, saved, given, harm, calls, crashes>>

NoCall == [op |-> "none", rows |-> <<>>, state |-> <<>>, node |-> <<>>, threads |-> 1, alone |-> TRUE]

NewIndex(t) == [type |-> t, count |-> 0, nodes |-> [p \in Places |-> RawNode], loose |-> FALSE]

Contents(ix) == [type |-> ix.type, nodes |-> [p \in 0 .. ix.count - 1 |-> ix.nodes[p]]]

NoFile == [state |-> "none", copied |-> 0, overlapped |-> FALSE, type |-> "float32", count |-> 0,
           nodes |-> [p \in Places |-> RawNode], loose |-> FALSE]

Idle(c) == call[c].op = "none"
Busy(op) == \E c \in Callers : call[c].op = op
Quiet == \A c \in Callers : Idle(c)

\* The process ends, and what it kept in memory is gone.
Ends ==
    /\ process' = "down"
    /\ threads' = 1 /\ labelId' = 0 /\ guard' = <<>> /\ gil' = Nobody
    /\ call' = [c \in Callers |-> NoCall]

\* The caller enters a call that nobody overlaps with a step of.
Enters(c) ==
    /\ process = "up"
    /\ gil = Nobody
    /\ Idle(c)
    /\ calls < MaxCalls
    /\ calls' = calls + 1

Init ==
    /\ process = "up"
    /\ index \in {NewIndex(t) : t \in Types}
    /\ threads = 1
    /\ labelId = 0
    /\ guard = <<>>
    /\ gil = Nobody
    /\ call = [c \in Callers |-> NoCall]
    /\ file = NoFile
    /\ saved = Contents(index)
    /\ given = {}
    /\ harm = {}
    /\ calls = 0
    /\ crashes = 0

-----------------------------------------------------------------------------
(* add. *)

Fresh(n) == [r \in 1 .. n |-> Cardinality(given) + r]

\* Labels are those passed in, here ten more than the vector, or 0, 1, ...
Add(c, b) ==
    /\ Enters(c)
    /\ LET n == b.rows
           rows == [r \in 1 .. n |-> [vec |-> Fresh(n)[r],
                                      label |-> IF b.labelled THEN Fresh(n)[r] + 10 ELSE r - 1]]
       IN  /\ given' = given \cup ToSet(rows)
           /\ call' = [d \in Callers |->
                  IF d = c
                  THEN [op |-> "add", rows |-> rows, threads |-> threads, alone |-> ~Busy("add"),
                        state |-> [r \in 1 .. n |-> "waiting"], node |-> [r \in 1 .. n |-> 0]]
                  ELSE [call[d] EXCEPT !.alone = FALSE]]
    /\ UNCHANGED <<process, index, threads, labelId, guard, gil, file, saved, harm, crashes>>

Working == {"checked", "stored", "counted"}

\* A row can be taken up when the rows before it have been and a thread is idle.
Turn(c, r) ==
    /\ process = "up"
    /\ call[c].op = "add"
    /\ call[c].state[r] = "waiting"
    /\ \A q \in 1 .. r - 1 : call[c].state[q] # "waiting"
    /\ Cardinality({q \in DOMAIN call[c].rows : call[c].state[q] \in Working}) < call[c].threads

Row(c, r, s) == call' = [call EXCEPT ![c].state[r] = s]

\* The check takes no mutex.
CheckCapacity(c, r) ==
    /\ Turn(c, r)
    /\ index.count < Capacity
    /\ Row(c, r, "checked")
    /\ UNCHANGED <<process, index, threads, labelId, guard, gil, file, saved, given, harm, calls, crashes>>

\* Faulty: the exception of a full index is lost in every case.
RejectRowSilently(c, r) ==
    /\ Turn(c, r)
    /\ index.count >= Capacity
    /\ harm' = harm \cup {"terminated"} /\ Ends
    /\ UNCHANGED <<index, file, saved, given, calls, crashes>>

\* The exception reaches the caller from its own thread, and nobody from a worker.
RejectRow(c, r) ==
    /\ Turn(c, r)
    /\ index.count >= Capacity
    /\ IF call[c].threads = 1
       THEN /\ call' = [call EXCEPT ![c].state = [q \in DOMAIN @ |-> IF q < r THEN @[q] ELSE "done"]]
            /\ UNCHANGED <<process, threads, labelId, guard, gil, harm>>
       ELSE harm' = harm \cup {"terminated"} /\ Ends
    /\ UNCHANGED <<index, file, saved, given, calls, crashes>>

SelfLinks(p) == [s \in Slots |-> p]

\* Faulty: the links are not set.
StoredUnlinked(ix, vec, label) ==
    [ix EXCEPT !.nodes[ix.count].vec = vec, !.nodes[ix.count].label = label]

NewNode(vec, label, p) == [vec |-> vec, label |-> label, links |-> SelfLinks(p)]

\* What allocateNode does to the memory: vector, label and links, then the count.
Stored(ix, vec, label) == [ix EXCEPT !.nodes[ix.count] = NewNode(vec, label, ix.count)]

\* allocateNode under _index_data_guard, up to the count.  Past the capacity it
\* writes behind the memory of the index.
StoreNode(c, r) ==
    /\ process = "up" /\ call[c].op = "add"
    /\ call[c].state[r] = "checked"
    /\ guard = <<>>
    /\ IF index.count < Capacity
       THEN /\ index' = Stored(index, call[c].rows[r].vec, call[c].rows[r].label)
            /\ guard' = <<c, r>>
            /\ call' = [call EXCEPT ![c].state[r] = "stored", ![c].node[r] = index.count]
            /\ UNCHANGED <<process, harm>>
       ELSE /\ process' = "corrupt" /\ harm' = harm \cup {"overrun"}
            /\ UNCHANGED <<index, guard, call>>
    /\ UNCHANGED <<threads, labelId, gil, file, saved, given, calls, crashes>>

\* Faulty: the mutex of the first node is kept by the early return.
CountNodeLocked(c, r) ==
    /\ process = "up" /\ call[c].op = "add"
    /\ call[c].state[r] = "stored"
    /\ index' = [index EXCEPT !.count = @ + 1]
    /\ guard' = IF call[c].node[r] = 0 THEN guard ELSE <<>>
    /\ Row(c, r, IF call[c].node[r] = 0 THEN "done" ELSE "counted")
    /\ UNCHANGED <<process, threads, labelId, gil, file, saved, given, harm, calls, crashes>>

\* The first node has nothing to connect to.
CountNode(c, r) ==
    /\ process = "up" /\ call[c].op = "add"
    /\ call[c].state[r] = "stored"
    /\ index' = [index EXCEPT !.count = @ + 1]
    /\ guard' = <<>>
    /\ Row(c, r, IF call[c].node[r] = 0 THEN "done" ELSE "counted")
    /\ UNCHANGED <<process, threads, labelId, gil, file, saved, given, harm, calls, crashes>>

\* The links of p after n connected to it: a free slot, or the slots a prune
\* of the neighbors leaves.
BackLinked(links, p, n) ==
    IF \E s \in Slots : links[s] = p
    THEN {[links EXCEPT ![CHOOSE s \in Slots : links[s] = p /\ \A q \in 1 .. s - 1 : links[q] # p] = n]}
    ELSE {ls \in [Slots -> ToSet(links) \cup {p, n}] :
              /\ ls[1] # p
              /\ \A s, q \in Slots : s < q => ls[q] = p \/ (ls[s] # p /\ ls[s] # ls[q])}

\* Links lead to nodes that count.
Closed(ix) == \A p \in 0 .. ix.count - 1 : ToSet(ix.nodes[p].links) \subseteq 0 .. ix.count - 1

\* Sets of places that hold every node beamSearch can start at and that no
\* link leads out of.
Closures(ix) ==
    {S \in SUBSET Places :
         /\ {0} \cup 0 .. ix.count - 1 \subseteq S
         /\ \A p \in S : ToSet(ix.nodes[p].links) \subseteq S}

\* beamSearch can come to links that were never written.  It takes them as they
\* are, and marks and locks what they name.
Strays(ix) == Closures(ix) = {}

\* The places beamSearch can come to; unwritten links may name any of them.
Reached(ix) == {p \in Places : \A S \in Closures(ix) : p \in S}

\* beamSearch writes its marks or locks a mutex outside the index.
Astray ==
    /\ Strays(index)
    /\ process' = "corrupt" /\ harm' = harm \cup {"overrun"}

\* beamSearch, and connectNeighbors: links out, and one link back from each
\* neighbor.  Here a node finds one neighbor.
LinkNode(c, r) ==
    /\ process = "up" /\ call[c].op = "add"
    /\ call[c].state[r] = "counted"
    /\ \/ Astray /\ UNCHANGED <<index, call>>
       \/ /\ \E p \in Reached(index) :
                 LET n == call[c].node[r] IN
                 /\ p # n
                 /\ \E back \in BackLinked(index.nodes[p].links, p, n) :
                        index' = [index EXCEPT !.nodes[n].links[1] = p, !.nodes[p].links = back]
          /\ Row(c, r, "done")
          /\ UNCHANGED <<process, harm>>
    /\ UNCHANGED <<threads, labelId, guard, gil, file, saved, given, calls, crashes>>

\* The caller takes the interpreter lock back and returns or raises.
EndAdd(c) ==
    /\ process = "up" /\ gil = Nobody
    /\ call[c].op = "add"
    /\ \A r \in DOMAIN call[c].rows : call[c].state[r] = "done"
    /\ call' = [call EXCEPT ![c] = NoCall]
    /\ UNCHANGED <<process, index, threads, labelId, guard, gil, file, saved, given, harm, calls, crashes>>

-----------------------------------------------------------------------------
(* Searches: how many neighbors they find, of the K asked for. *)

\* A search of an empty index begins at node 0, which was never counted; there
\* and in an open graph what it finds, 0 here, may be no node that counts.
Found(K) ==
    IF Closed(index) /\ index.count > 0
    THEN 1 .. (IF K < index.count THEN K ELSE index.count)
    ELSE 0 .. K

\* search_single and search on one thread raise if there are fewer than K; on
\* several threads the cells are filled from behind the results.
Garbage(found, K) == found = 0 \/ (threads > 1 /\ found < K)

Search(c, K) ==
    /\ Enters(c)
    /\ \/ Astray
       \/ /\ \E found \in Found(K) :
                 harm' = IF Garbage(found, K) THEN harm \cup {"garbage"} ELSE harm
          /\ UNCHANGED process
    /\ UNCHANGED <<index, threads, labelId, guard, gil, call, file, saved, given, crashes>>

\* A search with num_initializations <= 0.  initializeSearch throws: in the
\* thread of the caller, which raises, or in a worker, which ends the process.
\* add and batch searches check the number before they start one.
SearchUninitialized(c) ==
    /\ Enters(c)
    /\ \/ UNCHANGED <<process, threads, labelId, guard, gil, call, harm>>
       \/ threads > 1 /\ harm' = harm \cup {"terminated"} /\ Ends
    /\ UNCHANGED <<index, file, saved, given, crashes>>

BatchSearch(c) ==
    /\ Enters(c)
    /\ call' = [call EXCEPT ![c] = [NoCall EXCEPT !.op = "batch"]]
    /\ UNCHANGED <<process, index, threads, labelId, guard, gil, file, saved, given, harm, crashes>>

StrayBatch(c) ==
    /\ process = "up"
    /\ call[c].op = "batch"
    /\ Astray
    /\ UNCHANGED <<index, threads, labelId, guard, gil, call, file, saved, given, calls, crashes>>

\* The cells of answers that were not found are never written.
EndBatch(c, K) ==
    /\ process = "up" /\ gil = Nobody
    /\ call[c].op = "batch"
    /\ \E found \in Found(K) :
           harm' = IF found < K THEN harm \cup {"garbage"} ELSE harm
    /\ call' = [call EXCEPT ![c] = NoCall]
    /\ UNCHANGED <<process, index, threads, labelId, guard, gil, file, saved, given, calls, crashes>>

-----------------------------------------------------------------------------
(* Calls that keep the interpreter lock and finish in one step. *)

\* Exceptions leave everything as it was.  A pool without a set makes
\* setPoolSize(1) raise after the number was assigned, which looks the same.
SetNumThreads(c, n) ==
    /\ Enters(c)
    /\ threads' = IF n = 0 \/ n > HardwareThreads THEN threads ELSE n
    /\ UNCHANGED <<process, index, labelId, guard, gil, call, file, saved, given, harm, crashes>>

Rearrangements == {p \in [0 .. index.count - 1 -> 0 .. index.count - 1] :
                       \A i, j \in DOMAIN p : p[i] = p[j] => i = j}

\* What relabel does for a permutation of the counted nodes.
Moved(P) ==
    LET old(p) == index.nodes[CHOOSE q \in DOMAIN P : P[q] = p]
        new(p) == [old(p) EXCEPT !.links = [s \in Slots |-> P[old(p).links[s]]]]
    IN  [index EXCEPT !.nodes =
            [p \in Places |-> IF p >= index.count THEN index.nodes[p] ELSE new(p)]]

\* A link to a node that is not counted makes relabel read outside P, and in an
\* empty index gOrder takes a node from an empty queue.
Reorder(c) ==
    /\ Enters(c)
    /\ Quiet
    /\ \/ Closed(index) /\ (\E P \in Rearrangements : index' = Moved(P)) /\ UNCHANGED <<process, harm>>
       \/ /\ ~Closed(index) \/ index.count = 0
          /\ process' = "corrupt" /\ harm' = harm \cup {"overrun"} /\ UNCHANGED index
    /\ UNCHANGED <<threads, labelId, guard, gil, call, file, saved, given, crashes>>

\* allocate_nodes: one allocateNode for each row, with no look at the capacity.
\* The rows are floats, whatever the index holds.
AllocateNodes(c, n) ==
    /\ Enters(c)
    /\ Quiet
    /\ LET rows == [r \in 1 .. n |-> [vec |-> IF index.type = "float32" THEN Fresh(n)[r] ELSE Scrambled,
                                      label |-> labelId + r - 1]]
       IN  /\ given' = given \cup {[vec |-> Fresh(n)[r], label |-> rows[r].label] : r \in 1 .. n}
           /\ IF index.count + n <= Capacity
              THEN /\ index' = [index EXCEPT !.count = @ + n, !.nodes = [p \in Places |->
                           IF p \in index.count .. index.count + n - 1
                           THEN NewNode(rows[p - index.count + 1].vec, rows[p - index.count + 1].label, p)
                           ELSE index.nodes[p]]]
                   /\ labelId' = labelId + n
                   /\ UNCHANGED <<process, harm>>
              ELSE /\ process' = "corrupt" /\ harm' = harm \cup {"overrun"}
                   /\ UNCHANGED <<index, labelId>>
    /\ UNCHANGED <<threads, guard, gil, call, file, saved, crashes>>

\* Faulty: the loop goes on after the first free slot.
WithEdgeEverywhere(nodes, u, v, lucky) ==
    [nodes EXCEPT ![u].links = [s \in Slots |-> IF @[s] = u \/ (lucky /\ @[s] = -1) THEN v ELSE @[s]]]

\* The first slot that names its own node takes the edge; a full node drops it.
\* Memory that was never written may look like a free slot.
WithEdge(nodes, u, v, lucky) ==
    LET free == {s \in Slots : nodes[u].links[s] = u \/ (lucky /\ nodes[u].links[s] = -1)}
    IN  IF free = {} THEN nodes
        ELSE [nodes EXCEPT ![u].links[CHOOSE s \in free : \A q \in free : s <= q] = v]

\* The edges of a file, one after the other.
WithEdges(nodes, list, lucky) ==
    LET after[i \in 0 .. Len(list)] ==
            IF i = 0 THEN nodes ELSE WithEdge(after[i - 1], list[i][1] - 1, list[i][2] - 1, lucky)
    IN  after

\* The number of edges in the header must be that of the links of a node; the
\* edges that follow are not counted.
BuildGraphLinks(c, f) ==
    /\ Enters(c)
    /\ Quiet
    /\ IF f.vertices # Capacity \/ f.edges # M
       THEN UNCHANGED index
       ELSE \E lucky \in BOOLEAN :
                index' = [index EXCEPT !.loose = TRUE,
                                     !.nodes = WithEdges(@, f.list, lucky)[Len(f.list)]]
    /\ UNCHANGED <<process, threads, labelId, guard, gil, call, file, saved, given, harm, crashes>>

-----------------------------------------------------------------------------
(* Saving, crashing and loading. *)

\* std::ofstream empties the file when it opens it.
Save(c) ==
    /\ Enters(c)
    /\ gil' = c
    /\ call' = [call EXCEPT ![c] = [NoCall EXCEPT !.op = "save"]]
    /\ file' = [NoFile EXCEPT !.state = "empty", !.overlapped = Busy("add"),
                        !.loose = index.loose \/ Busy("add")]
    /\ UNCHANGED <<process, index, threads, labelId, guard, saved, given, harm, crashes>>

\* The members come before the memory.
SaveMembers(c) ==
    /\ process = "up" /\ gil = c
    /\ file.state = "empty"
    /\ file' = [file EXCEPT !.state = "partial", !.type = index.type, !.count = index.count]
    /\ UNCHANGED <<process, index, threads, labelId, guard, gil, call, saved, given, harm, calls, crashes>>

\* The memory, in ascending order, without a mutex.
SaveNode(c) ==
    /\ process = "up" /\ gil = c
    /\ file.state = "partial"
    /\ file.copied < Capacity
    /\ file' = [file EXCEPT !.nodes[file.copied] = index.nodes[file.copied], !.copied = @ + 1]
    /\ UNCHANGED <<process, index, threads, labelId, guard, gil, call, saved, given, harm, calls, crashes>>

\* Faulty: the members are written last.
EndSaveCounting(c) ==
    /\ process = "up" /\ gil = c
    /\ file.state = "partial" /\ file.copied = Capacity
    /\ file' = [file EXCEPT !.state = "whole", !.count = index.count]
    /\ saved' = Contents(index)
    /\ gil' = Nobody
    /\ call' = [call EXCEPT ![c] = NoCall]
    /\ UNCHANGED <<process, index, threads, labelId, guard, given, harm, calls, crashes>>

EndSave(c) ==
    /\ process = "up" /\ gil = c
    /\ file.state = "partial" /\ file.copied = Capacity
    /\ file' = [file EXCEPT !.state = "whole"]
    /\ saved' = Contents(index)
    /\ gil' = Nobody
    /\ call' = [call EXCEPT ![c] = NoCall]
    /\ UNCHANGED <<process, index, threads, labelId, guard, given, harm, calls, crashes>>

Crash ==
    /\ process = "up"
    /\ crashes < MaxCrashes
    /\ crashes' = crashes + 1
    /\ harm' = {}
    /\ index' = NewIndex(index.type)
    /\ Ends
    /\ UNCHANGED <<file, saved, given, calls>>

\* A new process creates an empty index.
Restart ==
    /\ process = "down"
    /\ process' = "up"
    /\ index' = NewIndex(index.type)
    /\ harm' = {}
    /\ UNCHANGED <<threads, labelId, guard, gil, call, file, saved, given, calls, crashes>>

LoadedThreads == IF HardwareThreads \div 2 > 1 THEN HardwareThreads \div 2 ELSE 1

Loaded == [type |-> file.type, count |-> file.count, nodes |-> file.nodes, loose |-> file.loose]

\* Faulty: that the file ends too early goes unnoticed.
LoadShort(c) ==
    /\ Enters(c)
    /\ Quiet
    /\ IF file.state \in {"partial", "whole"}
       THEN index' = Loaded /\ threads' = LoadedThreads /\ labelId' = 0
       ELSE UNCHANGED <<index, threads, labelId>>
    /\ UNCHANGED <<process, guard, gil, call, file, saved, given, harm, crashes>>

\* A file that ends too early raises.  The number of threads is not in the
\* file, nor is the next label of allocate_nodes.
Load(c) ==
    /\ Enters(c)
    /\ Quiet
    /\ IF file.state = "whole"
       THEN index' = Loaded /\ threads' = LoadedThreads /\ labelId' = 0
       ELSE UNCHANGED <<index, threads, labelId>>
    /\ UNCHANGED <<process, guard, gil, call, file, saved, given, harm, crashes>>

-----------------------------------------------------------------------------

Work(c) ==
    \/ \E r \in DOMAIN call[c].rows :
           CheckCapacity(c, r) \/ RejectRow(c, r) \/ StoreNode(c, r) \/ CountNode(c, r) \/ LinkNode(c, r)
    \/ EndAdd(c)
    \/ StrayBatch(c) \/ \E K \in 1 .. 2 : EndBatch(c, K)
    \/ SaveMembers(c) \/ SaveNode(c) \/ EndSave(c)

Begin(c) ==
    \/ \E b \in Batches : Add(c, b)
    \/ \E K \in 1 .. 2 : Search(c, K)
    \/ SearchUninitialized(c)
    \/ BatchSearch(c)
    \/ \E n \in ThreadNumbers : SetNumThreads(c, n)
    \/ Reorder(c)
    \/ \E b \in Batches : AllocateNodes(c, b.rows)
    \/ \E f \in EdgeFiles : BuildGraphLinks(c, f)
    \/ Save(c) \/ Load(c)

Next == Crash \/ Restart \/ \E c \in Callers : Begin(c) \/ Work(c)

Spec == Init /\ [][Next]_vars

\* A call under way goes on; that one is made, or a process started again, is
\* up to the user.
FairSpec == Spec /\ \A c \in Callers : WF_vars(Work(c))
-----------------------------------------------------------------------------
(* Properties. *)

Pairs == [vec : Nat \cup {Scrambled}, label : Nat]
Memory == [Places -> [vec : Nat \cup {Scrambled}, label : Nat, links : [Slots -> Places \cup {-1}]]]

TypeOK ==
    /\ process \in {"up", "down", "corrupt"}
    /\ index.type \in Types /\ index.count \in 0 .. Capacity /\ index.nodes \in Memory
    /\ threads \in 1 .. HardwareThreads /\ labelId \in Nat
    /\ guard \in {<<>>} \cup (Callers \X Nat)
    /\ gil \in Callers \cup {Nobody}
    /\ \A c \in Callers : \A r \in DOMAIN call[c].rows :
           /\ call[c].state[r] \in Working \cup {"waiting", "done"}
           /\ (call[c].state[r] = "stored") = (guard = <<c, r>>)
    /\ file.state \in {"none", "empty", "partial", "whole"} /\ file.nodes \in Memory
    /\ given \subseteq Pairs
    /\ harm \subseteq {"overrun", "terminated", "garbage"}

StoresGivenRows(ix) ==
    \A p \in 0 .. ix.count - 1 :
        IF ix.nodes[p].vec = Scrambled THEN ix.type # "float32"
        ELSE [vec |-> ix.nodes[p].vec, label |-> ix.nodes[p].label] \in given

\* Every node that counts holds a vector with the label it was given, in the
\* index and in a saved file, even one saved while add runs: the members, and
\* the count among them, are written before the memory, and a node is filled
\* before it is counted.  Exempt are the nodes of allocate_nodes in an index of
\* int8 or uint8: they hold the bytes of floats, which are no vector that was
\* passed in.  An index of floats has none of these.
StoredRowsWereGiven ==
    StoresGivenRows(index) /\ (file.state = "whole" => StoresGivenRows(file))

\* Links lead to nodes that count, through adding, reordering, saving and
\* loading, unless they came from a Matrix Market file or were saved while add
\* ran: the memory is copied after the count was, and shows later nodes.
GraphIsClosed ==
    /\ index.loose \/ Closed(index)
    /\ file.state = "whole" /\ ~file.loose => Closed(file)

New(h) == h \in harm' /\ h \notin harm

Confined ==
    /\ New("terminated") =>
           \/ index.count = Capacity /\ \E c \in Callers : call[c].op = "add" /\ call[c].threads > 1
           \/ threads > 1 /\ \E c \in Callers : SearchUninitialized(c)
    /\ New("overrun") =>
           \/ /\ index.count = Capacity
              /\ \E c \in Callers : call[c].op = "add" /\ (call[c].threads > 1 \/ ~call[c].alone)
           \/ index.loose \/ index.count = 0
           \/ Quiet /\ \E b \in Batches : index.count + b.rows > Capacity
    /\ New("garbage") => threads > 1 \/ index.loose \/ index.count = 0 \/ call' # call

\* What goes wrong without an exception: the end of the process only to an add
\* on several threads that finds the index full, and to a search on several
\* threads that asks for no initializations; an access outside the index only
\* to adds to a full index that overlap or have several threads, to
\* allocate_nodes past the capacity, and to calls that follow the links of an
\* empty index or of a graph read from a file; results that were never computed
\* only to searches on several threads, batch searches, an empty index and a
\* graph read from a file.
FailuresAreRaised == [][Confined]_vars

\* A load gives what the index held when its file was saved, or raises, however
\* many saves broke off and processes ended in between.  Exempt are files saved
\* while an add ran, whose count is older than the nodes that follow it.
LoadRestores ==
    [][\A c \in Callers :
           Load(c) /\ index' # index /\ ~file.overlapped => Contents(index') = saved]_vars

\* The k-th smallest member of S.
Nth(S, k) == CHOOSE i \in S : Cardinality({j \in S : j < i}) = k - 1

\* The lines of a file that lead from u to another node.
EdgesFrom(list, u) == {i \in DOMAIN list : list[i][1] - 1 = u /\ list[i][2] - 1 # u}

\* The first M targets of u in the file that are not u.
Targets(f, u) ==
    LET out == EdgesFrom(f.list, u)
    IN  [s \in 1 .. (IF Cardinality(out) < M THEN Cardinality(out) ELSE M) |-> f.list[Nth(out, s)][2] - 1]

Unlinked(ix) == ix.count = Capacity /\ \A p \in Places : ix.nodes[p].links = SelfLinks(p)

\* getGraphOutdegreeTable: the links of each node that do not name itself.
OutdegreeTable(ix) ==
    [p \in 0 .. ix.count - 1 |->
        LET used == {s \in Slots : ix.nodes[p].links[s] # p}
        IN  [i \in 1 .. Cardinality(used) |-> ix.nodes[p].links[Nth(used, i)]]]

\* build_graph_links after allocate_nodes gives each node the first M edges of
\* the file that leave it for another node, in their order; a self-edge takes
\* no slot.
BuiltAsFiled ==
    [][\A c \in Callers, f \in EdgeFiles :
           BuildGraphLinks(c, f) /\ f.vertices = Capacity /\ f.edges = M /\ Unlinked(index) =>
               OutdegreeTable(index') = [p \in Places |-> Targets(f, p)]]_vars

\* The calls end, with a result, an exception or the process: a caller that
\* released the interpreter lock is given it back, and no row keeps
\* _index_data_guard from the others.  Behaviors have MaxCalls calls at most.
CallsEnd == <>[](Quiet \/ process # "up")

=============================================================================
