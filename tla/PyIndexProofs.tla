--------------------------- MODULE PyIndexProofs ---------------------------
(***************************************************************************)
(* Proofs about the index as Python uses it: what is stored and saved was  *)
(* given, links stay inside the index, a load restores a save, what goes   *)
(* wrong in silence is confined to the calls FailuresAreRaised names, and  *)
(* a graph read from a file has the edges of the file.                     *)
(***************************************************************************)
EXTENDS PyIndex, FiniteSetTheorems, WellFoundedInduction, TLAPS

-----------------------------------------------------------------------------
(* The invariant. *)

NodeContents == [vec : Nat \cup {Scrambled}, label : Nat, links : [Slots -> Places \cup {-1}]]

Indexes == [type : Types, count : 0 .. Capacity, nodes : Memory, loose : BOOLEAN]

Files == [state : {"none", "empty", "partial", "whole"}, copied : 0 .. Capacity, overlapped : BOOLEAN,
          type : Types, count : 0 .. Capacity, nodes : Memory, loose : BOOLEAN]

Calls == [op : {"none", "add", "batch", "save"}, rows : Seq([vec : Nat, label : Nat]),
          state : Seq(Working \cup {"waiting", "done"}), node : Seq(Nat),
          threads : 1 .. HardwareThreads, alone : BOOLEAN]

\* What each variable holds.
ShapeInv ==
    /\ process \in {"up", "down", "corrupt"}
    /\ index \in Indexes
    /\ threads \in 1 .. HardwareThreads
    /\ labelId \in Nat
    /\ guard \in {<<>>} \cup (Callers \X Nat)
    /\ gil \in Callers \cup {Nobody}
    /\ call \in [Callers -> Calls]
    /\ file \in Files
    /\ given \in SUBSET Pairs
    /\ IsFiniteSet(given)
    /\ harm \in SUBSET {"overrun", "terminated", "garbage"}

\* Only an add has rows, and they were given.
CallInv ==
    \A c \in Callers :
        /\ call[c].op # "add" => call[c].rows = <<>>
        /\ Len(call[c].state) = Len(call[c].rows) /\ Len(call[c].node) = Len(call[c].rows)
        /\ \A r \in DOMAIN call[c].rows : call[c].rows[r] \in given

\* A node holds a row's vector and label, and has no links yet; a search that
\* follows unwritten links may link it early.
HoldsRow(node, row, p, loose) ==
    node.vec = row.vec /\ node.label = row.label /\ (loose \/ node.links = SelfLinks(p))

\* The row that holds _index_data_guard has filled the node after the last one
\* that counts; a row that has counted its node has a node that counts.
RowInv ==
    /\ \A c \in Callers, r \in Nat : guard = <<c, r>> => r \in DOMAIN call[c].rows
    /\ \A c \in Callers : \A r \in DOMAIN call[c].rows :
           /\ (call[c].state[r] = "stored") = (guard = <<c, r>>)
           /\ call[c].state[r] = "stored" =>
                  /\ index.count < Capacity
                  /\ call[c].node[r] = index.count
                  /\ HoldsRow(index.nodes[index.count], call[c].rows[r], index.count, index.loose)
           /\ call[c].state[r] = "counted" => call[c].node[r] < index.count

\* A single thread works at one row, and what it has checked stays true while
\* no other add is under way.
AloneInv ==
    \A c \in Callers : call[c].op = "add" =>
        /\ call[c].threads = 1 =>
               \A q, r \in DOMAIN call[c].rows :
                   call[c].state[q] \in Working /\ call[c].state[r] \in Working => q = r
        /\ call[c].alone => \A d \in Callers : call[d].op = "add" => d = c
        /\ call[c].threads = 1 /\ call[c].alone =>
               \A r \in DOMAIN call[c].rows : call[c].state[r] = "checked" => index.count < Capacity

IsGiven(node, type) ==
    IF node.vec = Scrambled THEN type # "float32" ELSE [vec |-> node.vec, label |-> node.label] \in given

\* The file while it is written.
SaveInv ==
    /\ process = "down" => gil = Nobody /\ Quiet
    /\ gil # Nobody =>
         /\ call[gil].op = "save"
         /\ file.state \in {"empty", "partial"}
         /\ file.state = "empty" => file.copied = 0
         /\ file.state = "partial" =>
                /\ file.type = index.type
                /\ file.count <= index.count
                /\ \A p \in 0 .. file.copied - 1 : p < file.count => IsGiven(file.nodes[p], file.type)
         /\ ~file.overlapped =>
                /\ ~Busy("add")
                /\ file.state = "partial" =>
                       /\ file.count = index.count
                       /\ \A p \in 0 .. file.copied - 1 : file.nodes[p] = index.nodes[p]
         /\ ~file.loose => ~file.overlapped /\ ~index.loose

\* The file once it is written.
FileInv ==
    file.state = "whole" =>
        /\ StoresGivenRows(file)
        /\ ~file.overlapped => Contents(file) = saved
        /\ ~file.loose => Closed(file)

IndexInv == StoresGivenRows(index) /\ (index.loose \/ Closed(index))

IInv == ShapeInv /\ CallInv /\ RowInv /\ AloneInv /\ SaveInv /\ FileInv /\ IndexInv

-----------------------------------------------------------------------------
(* Steps that leave the calls alone, or end them all. *)

\* The numbers of places, slots and threads.
LEMMA PlacesAreNumbers ==
    /\ Capacity \in Nat /\ Capacity > 0 /\ Places = 0 .. Capacity - 1 /\ M \in Nat /\ M > 0
    /\ Slots = 1 .. M /\ HardwareThreads \in Nat /\ HardwareThreads > 0 /\ Nobody \notin Callers
BY PyIndexSizes DEF Places, Slots

\* Memory that was never written is memory.
LEMMA RawNodes == [p \in Places |-> RawNode] \in Memory
<1>1. RawNode \in NodeContents
  BY DEF RawNode, NodeContents, Raw
<1>. QED BY <1>1 DEF Memory, NodeContents

\* An index begins with no node that counts.
LEMMA NewIndexFits ==
    ASSUME NEW t \in Types
    PROVE  /\ NewIndex(t) \in Indexes
           /\ StoresGivenRows(NewIndex(t)) /\ Closed(NewIndex(t))
<1>1. NewIndex(t) \in Indexes
  BY RawNodes, PlacesAreNumbers DEF NewIndex, Indexes
<1>2. NewIndex(t).count = 0 /\ 0 .. 0 - 1 = {}
  BY DEF NewIndex
<1>. QED BY <1>1, <1>2 DEF StoresGivenRows, Closed

\* No call is under way.
LEMMA NoCallFits == NoCall \in Calls /\ NoCall.rows = <<>> /\ NoCall.state = <<>> /\ NoCall.node = <<>>
                    /\ NoCall.op = "none"
BY PlacesAreNumbers DEF NoCall, Calls

\* A call with another operation.
LEMMA OtherOp ==
    ASSUME NEW k \in Calls, NEW o \in {"none", "add", "batch", "save"}
    PROVE  LET l == [k EXCEPT !.op = o]
           IN  l \in Calls /\ l.op = o /\ l.rows = k.rows /\ l.state = k.state /\ l.node = k.node
BY DEF Calls

\* The invariant holds at the start.
LEMMA InitPyIndex == Init => IInv
<1>. SUFFICES ASSUME Init PROVE IInv
  OBVIOUS
<1>1. PICK t \in Types : index = NewIndex(t)
  BY DEF Init
<1>2. index \in Indexes /\ IndexInv
  BY <1>1, NewIndexFits DEF IndexInv
<1>3. file \in Files /\ file.state = "none"
  BY RawNodes, PlacesAreNumbers DEF Init, NoFile, Files, Types
<1>4. call \in [Callers -> Calls] /\ \A c \in Callers : call[c] = NoCall
  BY NoCallFits DEF Init
<1>5. ShapeInv
  BY <1>2, <1>3, <1>4, PlacesAreNumbers, FS_EmptySet DEF Init, ShapeInv
<1>6. \A c \in Callers : call[c].op = "none" /\ call[c].rows = <<>> /\ Len(call[c].state) = 0
                           /\ Len(call[c].node) = 0 /\ DOMAIN call[c].rows = {}
  BY <1>4, NoCallFits
<1>7. CallInv /\ RowInv /\ AloneInv
  BY <1>6 DEF Init, CallInv, RowInv, AloneInv
<1>8. SaveInv /\ FileInv
  BY <1>3 DEF Init, SaveInv, FileInv
<1>. QED BY <1>2, <1>5, <1>7, <1>8 DEF IInv

\* Calls that change the threads, the next label or the record of failures only.
LEMMA SmallStep ==
    ASSUME IInv, UNCHANGED <<index, guard, gil, call, file, saved>>, process' \in {"up", "corrupt"},
           threads' \in 1 .. HardwareThreads, labelId' \in Nat,
           given \subseteq given', given' \in SUBSET Pairs, IsFiniteSet(given'),
           harm' \in SUBSET {"overrun", "terminated", "garbage"}
    PROVE  IInv'
<1>. USE DEF IInv
<1>1. ShapeInv'
  BY DEF ShapeInv
<1>2. CallInv' /\ RowInv' /\ AloneInv'
  BY DEF CallInv, RowInv, AloneInv
<1>3. SaveInv'
  BY DEF SaveInv, IsGiven, Busy
<1>4. FileInv'
  BY DEF FileInv, StoresGivenRows, Contents, Closed
<1>5. IndexInv'
  BY DEF IndexInv, StoresGivenRows, Closed
<1>. QED BY <1>1, <1>2, <1>3, <1>4, <1>5

\* When no call is under way there are no rows to store.
LEMMA QuietHasNoRows ==
    ASSUME IInv, Quiet, NEW c \in Callers
    PROVE  call[c].op = "none" /\ call[c].rows = <<>> /\ DOMAIN call[c].rows = {}
BY DEF IInv, CallInv, Quiet, Idle

\* Calls that replace the index while no other call is under way.
LEMMA QuietStep ==
    ASSUME IInv, Quiet, gil = Nobody, UNCHANGED <<guard, gil, call, file, saved>>, process' \in {"up", "corrupt"},
           threads' \in 1 .. HardwareThreads, labelId' \in Nat,
           given \subseteq given', given' \in SUBSET Pairs, IsFiniteSet(given'),
           harm' \in SUBSET {"overrun", "terminated", "garbage"}, index' \in Indexes, IndexInv'
    PROVE  IInv'
<1>. USE DEF IInv
<1>1. ShapeInv'
  BY DEF ShapeInv
<1>2. CallInv'
  BY DEF CallInv
<1>3. \A c \in Callers : call'[c].op = "none" /\ DOMAIN call'[c].rows = {}
  BY QuietHasNoRows
<1>4. \A c \in Callers, r \in Nat : guard # <<c, r>>
  BY <1>3 DEF RowInv
<1>5. RowInv' /\ AloneInv'
  BY <1>3, <1>4 DEF RowInv, AloneInv
<1>6. SaveInv'
  BY DEF SaveInv
<1>7. FileInv'
  BY DEF FileInv, StoresGivenRows, Contents, Closed
<1>. QED BY <1>1, <1>2, <1>5, <1>6, <1>7

\* The process ends.
LEMMA EndsKeeps ==
    ASSUME IInv, Ends, UNCHANGED <<file, saved, given>>, index' \in Indexes, IndexInv',
           harm' \in SUBSET {"overrun", "terminated", "garbage"}
    PROVE  IInv'
<1>. USE DEF IInv
<1>0. /\ process' = "down" /\ threads' = 1 /\ labelId' = 0 /\ guard' = <<>> /\ gil' = Nobody
      /\ call' = [c \in Callers |-> NoCall]
  BY DEF Ends
<1>1. \A c \in Callers : /\ call'[c].op = "none" /\ call'[c].rows = <<>> /\ Len(call'[c].state) = 0
                           /\ Len(call'[c].node) = 0 /\ DOMAIN call'[c].rows = {}
  BY <1>0, NoCallFits
<1>2. ShapeInv'
  BY <1>0, NoCallFits, PlacesAreNumbers DEF ShapeInv
<1>3. CallInv' /\ RowInv' /\ AloneInv'
  BY <1>0, <1>1 DEF CallInv, RowInv, AloneInv
<1>4. SaveInv'
  BY <1>0, <1>1 DEF SaveInv, Quiet, Idle
<1>5. FileInv'
  BY DEF FileInv, StoresGivenRows, Contents, Closed
<1>. QED BY <1>2, <1>3, <1>4, <1>5

\* A crash and a restart leave the file, and an empty index.
LEMMA CrashKeeps ==
    ASSUME IInv, Crash \/ Restart
    PROVE  IInv'
<1>1. index.type \in Types /\ index' = NewIndex(index.type) /\ harm' = {} /\ UNCHANGED <<file, saved, given>>
  BY DEF IInv, ShapeInv, Indexes, Crash, Restart
<1>2. index' \in Indexes /\ StoresGivenRows(index') /\ Closed(index')
  BY <1>1, NewIndexFits
<1>3. IndexInv'
  BY <1>1, <1>2 DEF IndexInv, StoresGivenRows, Closed
<1>4. CASE Crash
  BY <1>1, <1>2, <1>3, <1>4, EndsKeeps DEF Crash
<1>5. CASE Restart
  <2>1. Quiet /\ gil = Nobody
    BY <1>5 DEF Restart, IInv, SaveInv
  <2>2. UNCHANGED <<guard, gil, call, file, saved, threads, labelId, given>> /\ process' = "up"
    BY <1>5 DEF Restart
  <2>3. threads' \in 1 .. HardwareThreads /\ labelId' \in Nat /\ given' \in SUBSET Pairs /\ IsFiniteSet(given')
    BY <2>2 DEF IInv, ShapeInv
  <2>. QED BY <1>1, <1>2, <1>3, <2>1, <2>2, <2>3, QuietStep
<1>. QED BY <1>4, <1>5

-----------------------------------------------------------------------------
(* Calls of one step. *)

\* Links that stay among the nodes that count.
LEMMA ClosedMeans ==
    ASSUME NEW ix, ix.nodes \in Memory, ix.count \in 0 .. Capacity
    PROVE  Closed(ix) <=> \A p \in 0 .. ix.count - 1, s \in Slots : ix.nodes[p].links[s] \in 0 .. ix.count - 1
<1>1. \A p \in 0 .. ix.count - 1 : p \in Places
  BY PlacesAreNumbers
<1>2. \A p \in 0 .. ix.count - 1 : ix.nodes[p] \in NodeContents
  BY <1>1 DEF Memory, NodeContents
<1>3. \A p \in 0 .. ix.count - 1 : DOMAIN ix.nodes[p].links = Slots
  BY <1>2 DEF NodeContents
<1>4. ASSUME NEW p \in 0 .. ix.count - 1
      PROVE  ToSet(ix.nodes[p].links) = {ix.nodes[p].links[s] : s \in Slots}
  <2>1. DOMAIN ix.nodes[p].links = Slots
    BY <1>3
  <2>. QED BY <2>1 DEF ToSet
<1>5. ASSUME NEW p \in 0 .. ix.count - 1
      PROVE  ToSet(ix.nodes[p].links) \subseteq 0 .. ix.count - 1
                 <=> \A s \in Slots : ix.nodes[p].links[s] \in 0 .. ix.count - 1
  <2>. DEFINE here == 0 .. ix.count - 1
              L == ix.nodes[p].links
  <2>1. ToSet(L) = {L[s] : s \in Slots}
    BY <1>4
  <2>. HIDE DEF here, L
  <2>2. ToSet(L) \subseteq here <=> \A s \in Slots : L[s] \in here
    BY <2>1
  <2>. QED BY <2>2 DEF here, L
<1>. QED BY <1>5, Zenon DEF Closed

\* What the parts of an index are.
LEMMA IndexParts ==
    ASSUME IInv
    PROVE  /\ index.type \in Types /\ index.count \in 0 .. Capacity /\ index.nodes \in [Places -> NodeContents]
           /\ index.loose \in BOOLEAN
           /\ \A p \in 0 .. index.count - 1 : p \in Places /\ IsGiven(index.nodes[p], index.type)
           /\ index.loose \/ \A p \in 0 .. index.count - 1, s \in Slots :
                                index.nodes[p].links[s] \in 0 .. index.count - 1
<1>1. index \in Indexes /\ IndexInv
  BY DEF IInv, ShapeInv
<1>2. index.type \in Types /\ index.count \in 0 .. Capacity /\ index.nodes \in Memory /\ index.loose \in BOOLEAN
  BY <1>1 DEF Indexes
<1>3. index.nodes \in [Places -> NodeContents]
  BY <1>2 DEF Memory, NodeContents
<1>4. \A p \in 0 .. index.count - 1 : p \in Places /\ IsGiven(index.nodes[p], index.type)
  BY <1>1, <1>2, PlacesAreNumbers DEF IndexInv, StoresGivenRows, IsGiven
<1>5. index.loose \/ \A p \in 0 .. index.count - 1, s \in Slots : index.nodes[p].links[s] \in 0 .. index.count - 1
  BY <1>1, <1>2, ClosedMeans DEF IndexInv
<1>. QED BY <1>2, <1>3, <1>4, <1>5

\* A node with other links.
LEMMA Relinked ==
    ASSUME NEW x \in NodeContents, NEW L \in [Slots -> Places \cup {-1}]
    PROVE  /\ [x EXCEPT !.links = L] \in NodeContents
           /\ [x EXCEPT !.links = L].vec = x.vec /\ [x EXCEPT !.links = L].label = x.label
           /\ [x EXCEPT !.links = L].links = L
BY DEF NodeContents

\* An index put together from its parts.
LEMMA IndexFits ==
    ASSUME index' \in [type : Types, count : 0 .. Capacity, nodes : [Places -> NodeContents], loose : BOOLEAN],
           \A p \in 0 .. index'.count - 1 : IsGiven(index.nodes[p], index.type)',
           index'.loose \/ \A p \in 0 .. index'.count - 1, s \in Slots :
                               index'.nodes[p].links[s] \in 0 .. index'.count - 1
    PROVE  index' \in Indexes /\ IndexInv'
<1>1. index' \in Indexes /\ index'.nodes \in Memory /\ index'.count \in 0 .. Capacity
  BY DEF Indexes, Memory, NodeContents
<1>2. StoresGivenRows(index)'
  BY DEF StoresGivenRows, IsGiven
<1>3. index'.loose \/ Closed(index')
  BY <1>1, ClosedMeans
<1>. QED BY <1>1, <1>2, <1>3 DEF IndexInv, Closed

\* The rows passed in so far can be counted.
LEMMA GivenIsFinite == IInv => Cardinality(given) \in Nat /\ IsFiniteSet(given)
BY FS_CardinalityType DEF IInv, ShapeInv

\* An access outside the index leaves everything else as it was.
LEMMA AstrayKeeps ==
    ASSUME IInv, Astray, process = "up",
           UNCHANGED <<index, threads, labelId, guard, gil, call, file, saved, given>>
    PROVE  IInv'
<1>1. process' = "corrupt" /\ harm' = harm \cup {"overrun"}
  BY DEF Astray
<1>2. /\ threads' \in 1 .. HardwareThreads /\ labelId' \in Nat /\ given' \in SUBSET Pairs /\ IsFiniteSet(given')
      /\ harm' \in SUBSET {"overrun", "terminated", "garbage"}
  BY <1>1 DEF IInv, ShapeInv
<1>. QED BY <1>1, <1>2, SmallStep

\* A graph whose links lead to nodes that count has no unwritten links in reach.
LEMMA ReachedCounts ==
    ASSUME IInv, ~index.loose, index.count # 0
    PROVE  ~Strays(index) /\ Reached(index) \subseteq 0 .. index.count - 1
<1>. DEFINE here == 0 .. index.count - 1
<1>1. index.count \in 0 .. Capacity /\ Closed(index)
  BY IndexParts DEF IInv, IndexInv
<1>2. here \in SUBSET Places /\ {0} \cup here \subseteq here
  BY <1>1, PlacesAreNumbers
<1>3. \A p \in here : ToSet(index.nodes[p].links) \subseteq here
  BY <1>1 DEF Closed
<1>4. here \in Closures(index)
  <2>. HIDE DEF here
  <2>1. {0} \cup 0 .. index.count - 1 \subseteq here
    BY <1>2 DEF here
  <2>. QED BY <1>2, <1>3, <2>1 DEF Closures
<1>. QED BY <1>4 DEF Strays, Reached

\* A search changes nothing but the record of failures.
LEMMA SearchKeeps ==
    ASSUME IInv, NEW c \in Callers, NEW K \in 1 .. 2, Search(c, K)
    PROVE  IInv'
<1>0. UNCHANGED <<index, threads, labelId, guard, gil, call, file, saved, given>> /\ process = "up"
  BY DEF Search, Enters
<1>a. CASE Astray
  BY <1>0, <1>a, AstrayKeeps
<1>b. CASE ~Astray
<2>1. /\ UNCHANGED <<process, index, threads, labelId, guard, gil, call, file, saved, given>>
      /\ process = "up" /\ harm' \subseteq harm \cup {"garbage"}
  BY <1>0, <1>b DEF Search
<2>2. /\ threads' \in 1 .. HardwareThreads /\ labelId' \in Nat /\ given' \in SUBSET Pairs /\ IsFiniteSet(given')
      /\ harm' \in SUBSET {"overrun", "terminated", "garbage"}
  BY <2>1 DEF IInv, ShapeInv
<2>. QED BY <2>1, <2>2, SmallStep
<1>. QED BY <1>a, <1>b

\* A search that asks for no initializations ends the process or nothing.
LEMMA SearchUninitializedKeeps ==
    ASSUME IInv, NEW c \in Callers, SearchUninitialized(c)
    PROVE  IInv'
<1>1. UNCHANGED <<index, file, saved, given>> /\ process = "up"
  BY DEF SearchUninitialized, Enters
<1>2. CASE UNCHANGED <<process, threads, labelId, guard, gil, call, harm>>
  <2>1. /\ threads' \in 1 .. HardwareThreads /\ labelId' \in Nat /\ given' \in SUBSET Pairs /\ IsFiniteSet(given')
        /\ harm' \in SUBSET {"overrun", "terminated", "garbage"}
    BY <1>1, <1>2 DEF IInv, ShapeInv
  <2>. QED BY <1>1, <1>2, <2>1, SmallStep
<1>3. CASE harm' = harm \cup {"terminated"} /\ Ends
  <2>1. index' \in Indexes /\ harm' \in SUBSET {"overrun", "terminated", "garbage"}
    BY <1>1, <1>3 DEF IInv, ShapeInv
  <2>2. IndexInv'
    BY <1>1 DEF IInv, IndexInv, StoresGivenRows, Closed
  <2>. QED BY <1>1, <1>3, <2>1, <2>2, EndsKeeps
<1>. QED BY <1>2, <1>3 DEF SearchUninitialized

\* set_num_threads leaves a number of threads the machine has.
LEMMA SetNumThreadsKeeps ==
    ASSUME IInv, NEW c \in Callers, NEW k \in ThreadNumbers, SetNumThreads(c, k)
    PROVE  IInv'
<1>1. /\ UNCHANGED <<process, index, labelId, guard, gil, call, file, saved, given, harm>>
      /\ process = "up" /\ threads' = IF k = 0 \/ k > HardwareThreads THEN threads ELSE k
  BY DEF SetNumThreads, Enters
<1>2. k \in Nat
  BY PyIndexSizes
<1>3. /\ threads' \in 1 .. HardwareThreads /\ labelId' \in Nat /\ given' \in SUBSET Pairs /\ IsFiniteSet(given')
      /\ harm' \in SUBSET {"overrun", "terminated", "garbage"}
  BY <1>1, <1>2, PlacesAreNumbers DEF IInv, ShapeInv
<1>. QED BY <1>1, <1>3, SmallStep

\* A call that stores nothing begins or ends.
LEMMA CallReplaced ==
    ASSUME IInv, NEW c \in Callers, NEW k \in Calls, call' = [call EXCEPT ![c] = k],
           k.op \in {"none", "batch", "save"}, k.rows = <<>>, k.state = <<>>, k.node = <<>>,
           \A r \in Nat : guard # <<c, r>>, UNCHANGED <<index, guard, given>>
    PROVE  call' \in [Callers -> Calls] /\ CallInv' /\ RowInv' /\ AloneInv'
<1>. USE DEF IInv
<1>1. call \in [Callers -> Calls]
  BY DEF ShapeInv
<1>2. call'[c] = k /\ \A d \in Callers : d # c => call'[d] = call[d]
  BY <1>1
<1>3. call'[c].op # "add" /\ call'[c].rows = <<>> /\ Len(call'[c].state) = 0 /\ Len(call'[c].node) = 0
      /\ DOMAIN call'[c].rows = {}
  BY <1>2
<1>4. CallInv'
  <2>1. \A d \in Callers : d # c =>
            /\ call[d].op # "add" => call[d].rows = <<>>
            /\ Len(call[d].state) = Len(call[d].rows) /\ Len(call[d].node) = Len(call[d].rows)
            /\ \A r \in DOMAIN call[d].rows : call[d].rows[r] \in given
    BY DEF CallInv
  <2>. QED BY <1>2, <1>3, <2>1 DEF CallInv
<1>5. RowInv'
  BY <1>2, <1>3 DEF RowInv
<1>6. AloneInv'
  BY <1>2, <1>3 DEF AloneInv
<1>. QED BY <1>1, <1>4, <1>5, <1>6

\* A caller without a call holds no mutex.
LEMMA IdleHoldsNoGuard ==
    ASSUME IInv, NEW c \in Callers, call[c].op # "add"
    PROVE  \A r \in Nat : guard # <<c, r>>
<1>1. DOMAIN call[c].rows = {}
  BY DEF IInv, CallInv
<1>. QED BY <1>1 DEF IInv, RowInv

\* A batch search comes and goes without touching the index.
LEMMA BatchKeeps ==
    ASSUME IInv, NEW c \in Callers, BatchSearch(c) \/ \E K \in 1 .. 2 : EndBatch(c, K)
    PROVE  IInv'
<1>. USE DEF IInv
<1>1. PICK k \in Calls : /\ call' = [call EXCEPT ![c] = k] /\ k.op \in {"none", "batch"} /\ k.rows = <<>>
                         /\ k.state = <<>> /\ k.node = <<>>
  <2>1. [NoCall EXCEPT !.op = "batch"] \in Calls /\ [NoCall EXCEPT !.op = "batch"].op = "batch"
        /\ [NoCall EXCEPT !.op = "batch"].rows = <<>> /\ [NoCall EXCEPT !.op = "batch"].state = <<>>
        /\ [NoCall EXCEPT !.op = "batch"].node = <<>>
    BY NoCallFits, OtherOp
  <2>3. CASE BatchSearch(c)
    BY <2>1, <2>3 DEF BatchSearch
  <2>4. CASE \E K \in 1 .. 2 : EndBatch(c, K)
    BY <2>4, NoCallFits DEF EndBatch
  <2>. QED BY <2>3, <2>4
<1>2. call[c].op # "add" /\ process = "up" /\ gil = Nobody
  BY DEF BatchSearch, EndBatch, Enters, Idle
<1>3. UNCHANGED <<process, index, threads, labelId, guard, gil, file, saved, given>>
  BY DEF BatchSearch, EndBatch
<1>4. harm' \in SUBSET {"overrun", "terminated", "garbage"}
  BY DEF BatchSearch, EndBatch, ShapeInv
<1>5. call' \in [Callers -> Calls] /\ CallInv' /\ RowInv' /\ AloneInv'
  BY <1>1, <1>2, <1>3, IdleHoldsNoGuard, CallReplaced
<1>6. ShapeInv'
  BY <1>3, <1>4, <1>5 DEF ShapeInv
<1>7. SaveInv'
  BY <1>2, <1>3 DEF SaveInv
<1>8. FileInv' /\ IndexInv'
  BY <1>3 DEF FileInv, IndexInv, StoresGivenRows, Contents, Closed
<1>. QED BY <1>5, <1>6, <1>7, <1>8

\* A rearrangement reaches every place.
LEMMA RearrangementReaches ==
    ASSUME NEW n \in Nat, NEW P \in [0 .. n - 1 -> 0 .. n - 1],
           \A i, j \in 0 .. n - 1 : P[i] = P[j] => i = j, NEW p \in 0 .. n - 1
    PROVE  \E q \in 0 .. n - 1 : P[q] = p
<1>1. IsFiniteSet(0 .. n - 1)
  BY FS_Interval
<1>2. P \in Injection(0 .. n - 1, 0 .. n - 1)
  BY DEF Injection, IsInjective
<1>3. P \in Surjection(0 .. n - 1, 0 .. n - 1)
  BY <1>1, <1>2, FS_Injection
<1>. QED BY <1>3 DEF Surjection

\* A permutation of the nodes keeps what they hold, and links inside.
LEMMA ReorderKeeps ==
    ASSUME IInv, NEW c \in Callers, Reorder(c)
    PROVE  IInv'
<1>1. /\ Quiet /\ gil = Nobody /\ process = "up"
      /\ UNCHANGED <<threads, labelId, guard, gil, call, file, saved, given>>
  BY DEF Reorder, Enters
<1>2. /\ threads' \in 1 .. HardwareThreads /\ labelId' \in Nat /\ given' \in SUBSET Pairs /\ IsFiniteSet(given')
      /\ harm \in SUBSET {"overrun", "terminated", "garbage"}
  BY <1>1 DEF IInv, ShapeInv
<1>3. CASE process' = "corrupt" /\ harm' = harm \cup {"overrun"} /\ UNCHANGED index
  BY <1>1, <1>2, <1>3, SmallStep
<1>4. CASE Closed(index) /\ (\E P \in Rearrangements : index' = Moved(P)) /\ UNCHANGED <<process, harm>>
  <2>1. PICK P \in Rearrangements : index' = Moved(P)
    BY <1>4
  <2>. DEFINE n == index.count
              N == index.nodes
              old(p) == CHOOSE q \in DOMAIN P : P[q] = p
              new(p) == [N[old(p)] EXCEPT !.links = [s \in Slots |-> P[N[old(p)].links[s]]]]
  <2>2. n \in 0 .. Capacity /\ n \in Nat /\ N \in [Places -> NodeContents] /\ index \in Indexes
        /\ index.type \in Types /\ index.loose \in BOOLEAN
        /\ \A p \in 0 .. n - 1 : p \in Places /\ IsGiven(N[p], index.type)
    BY IndexParts, PlacesAreNumbers DEF IInv, ShapeInv
  <2>3. P \in [0 .. n - 1 -> 0 .. n - 1] /\ \A i, j \in 0 .. n - 1 : P[i] = P[j] => i = j
    BY DEF Rearrangements
  <2>4. \A p \in 0 .. n - 1 : old(p) \in 0 .. n - 1
    <3>. SUFFICES ASSUME NEW p \in 0 .. n - 1 PROVE old(p) \in 0 .. n - 1
      OBVIOUS
    <3>1. n \in Nat
      BY <2>2
    <3>. HIDE DEF n, N
    <3>2. \E q \in 0 .. n - 1 : P[q] = p
      BY <2>3, <3>1, RearrangementReaches
    <3>3. DOMAIN P = 0 .. n - 1
      BY <2>3
    <3>. QED BY <3>2, <3>3
  <2>5. \A p \in 0 .. n - 1, s \in Slots : N[p].links[s] \in 0 .. n - 1
    BY <1>4, <2>2, ClosedMeans DEF Indexes
  <2>. DEFINE Q == [p \in Places |-> IF p >= n THEN N[p] ELSE new(p)]
  <2>6. index' = [index EXCEPT !.nodes = Q]
    BY <2>1, Zenon DEF Moved
  <2>7. \A p \in 0 .. n - 1 : /\ new(p) \in NodeContents
                              /\ new(p).vec = N[old(p)].vec /\ new(p).label = N[old(p)].label
                              /\ \A s \in Slots : new(p).links[s] \in 0 .. n - 1
    <3>. SUFFICES ASSUME NEW p \in 0 .. n - 1
                  PROVE  /\ new(p) \in NodeContents
                         /\ new(p).vec = N[old(p)].vec /\ new(p).label = N[old(p)].label
                         /\ \A s \in Slots : new(p).links[s] \in 0 .. n - 1
      OBVIOUS
    <3>. DEFINE o == old(p)
    <3>1. o \in 0 .. n - 1
      BY <2>4
    <3>. HIDE DEF o
    <3>2. N[o] \in NodeContents /\ \A s \in Slots : N[o].links[s] \in 0 .. n - 1
      BY <2>2, <2>5, <3>1
    <3>3. [s \in Slots |-> P[N[o].links[s]]] \in [Slots -> Places \cup {-1}]
      BY <2>2, <2>3, <3>2
    <3>. DEFINE L == [s \in Slots |-> P[N[o].links[s]]]
                x == N[o]
                y == [x EXCEPT !.links = L]
    <3>4. y \in NodeContents /\ y.vec = x.vec /\ y.label = x.label /\ y.links = L
      <4>. HIDE DEF L, x
      <4>1. x \in NodeContents /\ L \in [Slots -> Places \cup {-1}]
        BY <3>2, <3>3 DEF L, x
      <4>. QED BY <4>1, Relinked
    <3>5. new(p) = y
      BY DEF o
    <3>6. \A s \in Slots : L[s] \in 0 .. n - 1
      BY <2>3, <3>2
    <3>. HIDE DEF y, L, new
    <3>7. y.vec = N[old(p)].vec /\ y.label = N[old(p)].label
      BY <3>4 DEF o
    <3>. QED BY <3>4, <3>5, <3>6, <3>7
  <2>. HIDE DEF new, old
  <2>8. Q \in [Places -> NodeContents] /\ \A p \in 0 .. n - 1 : Q[p] = new(p)
    BY <2>2, <2>7, PlacesAreNumbers
  <2>. HIDE DEF Q
  <2>9. /\ index'.nodes = Q /\ index'.count = n /\ index'.type = index.type /\ index'.loose = index.loose
        /\ index' \in [type : Types, count : 0 .. Capacity, nodes : [Places -> NodeContents], loose : BOOLEAN]
    BY <2>2, <2>6, <2>8 DEF Indexes
  <2>10. \A p \in 0 .. index'.count - 1 : IsGiven(index.nodes[p], index.type)'
    BY <1>1, <2>2, <2>4, <2>7, <2>8, <2>9 DEF IsGiven
  <2>11. \A p \in 0 .. index'.count - 1, s \in Slots : index'.nodes[p].links[s] \in 0 .. index'.count - 1
    BY <2>7, <2>8, <2>9
  <2>12. index' \in Indexes /\ IndexInv'
    BY <2>9, <2>10, <2>11, IndexFits
  <2>. QED BY <1>1, <1>2, <1>4, <2>12, QuietStep
<1>. QED BY <1>3, <1>4 DEF Reorder

\* The rows of a call are finitely many.
LEMMA RowsAreFinite ==
    ASSUME NEW f, NEW n \in Nat
    PROVE  IsFiniteSet({f[r] : r \in 1 .. n})
<1>1. IsFiniteSet(1 .. n)
  BY FS_Interval
<1>. DEFINE g == [r \in 1 .. n |-> f[r]]
            T == {f[r] : r \in 1 .. n}
<1>2. g \in Surjection(1 .. n, T)
  BY DEF Surjection
<1>. QED BY <1>1, <1>2, FS_Surjection

\* allocate_nodes fills places behind the last node with rows it was given.
LEMMA AllocateNodesKeeps ==
    ASSUME IInv, NEW c \in Callers, NEW k \in Nat \ {0}, AllocateNodes(c, k)
    PROVE  IInv'
<1>. DEFINE n == index.count
            rows == [r \in 1 .. k |-> [vec |-> IF index.type = "float32" THEN Fresh(k)[r] ELSE Scrambled,
                                       label |-> labelId + r - 1]]
            pairs == [r \in 1 .. k |-> [vec |-> Fresh(k)[r], label |-> labelId + r - 1]]
            Q == [p \in Places |-> IF p \in n .. n + k - 1
                                   THEN NewNode(rows[p - n + 1].vec, rows[p - n + 1].label, p)
                                   ELSE index.nodes[p]]
<1>1. /\ Quiet /\ gil = Nobody /\ process = "up"
      /\ UNCHANGED <<threads, guard, gil, call, file, saved>>
  BY DEF AllocateNodes, Enters
<1>2. /\ Cardinality(given) \in Nat /\ IsFiniteSet(given) /\ given \in SUBSET Pairs /\ labelId \in Nat
      /\ threads' \in 1 .. HardwareThreads /\ harm \in SUBSET {"overrun", "terminated", "garbage"}
  BY <1>1, GivenIsFinite DEF IInv, ShapeInv
<1>3. /\ n \in 0 .. Capacity /\ n \in Nat /\ index.nodes \in [Places -> NodeContents] /\ index \in Indexes
      /\ index.type \in Types /\ index.loose \in BOOLEAN
      /\ \A p \in 0 .. n - 1 : p \in Places /\ IsGiven(index.nodes[p], index.type)
      /\ index.loose \/ \A p \in 0 .. n - 1, s \in Slots : index.nodes[p].links[s] \in 0 .. n - 1
  BY IndexParts, PlacesAreNumbers DEF IInv, ShapeInv
<1>4. \A r \in 1 .. k : /\ Fresh(k)[r] \in Nat /\ Fresh(k)[r] # Scrambled
                        /\ labelId + r - 1 \in Nat
  BY <1>2 DEF Fresh, Scrambled
<1>5. given' = given \cup {pairs[r] : r \in 1 .. k}
  <2>1. given' = given \cup {[vec |-> Fresh(k)[r], label |-> rows[r].label] : r \in 1 .. k}
    BY DEF AllocateNodes
  <2>2. \A r \in 1 .. k : [vec |-> Fresh(k)[r], label |-> rows[r].label] = pairs[r]
    OBVIOUS
  <2>. HIDE DEF rows, pairs
  <2>. QED BY <2>1, <2>2
<1>6. given \subseteq given' /\ given' \in SUBSET Pairs /\ IsFiniteSet(given')
  <2>1. \A r \in 1 .. k : pairs[r] \in Pairs
    BY <1>4 DEF Pairs
  <2>. HIDE DEF pairs
  <2>2. IsFiniteSet({pairs[r] : r \in 1 .. k})
    BY RowsAreFinite
  <2>. QED BY <1>2, <1>5, <2>1, <2>2, FS_Union
<1>7. CASE n + k > Capacity
  <2>1. process' = "corrupt" /\ harm' = harm \cup {"overrun"} /\ UNCHANGED <<index, labelId>>
    BY <1>3, <1>7, PlacesAreNumbers DEF AllocateNodes
  <2>. QED BY <1>1, <1>2, <1>6, <2>1, SmallStep
<1>8. CASE n + k <= Capacity
  <2>1. /\ index' = [index EXCEPT !.count = @ + k, !.nodes = Q]
        /\ labelId' = labelId + k /\ UNCHANGED <<process, harm>>
    BY <1>8 DEF AllocateNodes
  <2>2. \A p \in n .. n + k - 1 : p \in Places /\ p - n + 1 \in 1 .. k
    BY <1>3, <1>8, PlacesAreNumbers
  <2>3. \A r \in 1 .. k : /\ rows[r].vec \in Nat \cup {Scrambled} /\ rows[r].label \in Nat
                          /\ rows[r].vec = Scrambled => index.type # "float32"
                          /\ rows[r].vec # Scrambled =>
                                 [vec |-> rows[r].vec, label |-> rows[r].label] \in given'
    <3>. SUFFICES ASSUME NEW r \in 1 .. k
                  PROVE  /\ rows[r].vec \in Nat \cup {Scrambled} /\ rows[r].label \in Nat
                         /\ rows[r].vec = Scrambled => index.type # "float32"
                         /\ rows[r].vec # Scrambled =>
                                [vec |-> rows[r].vec, label |-> rows[r].label] \in given'
      OBVIOUS
    <3>1. rows[r].vec = (IF index.type = "float32" THEN Fresh(k)[r] ELSE Scrambled) /\ rows[r].label = labelId + r - 1
      OBVIOUS
    <3>2. [vec |-> Fresh(k)[r], label |-> labelId + r - 1] \in given'
      <4>1. pairs[r] \in given'
        <5>. HIDE DEF pairs
        <5>. QED BY <1>5
      <4>. QED BY <4>1
    <3>. HIDE DEF rows
    <3>. QED BY <1>4, <3>1, <3>2
  <2>. HIDE DEF rows
  <2>4. \A p \in n .. n + k - 1 : /\ Q[p].vec = rows[p - n + 1].vec /\ Q[p].label = rows[p - n + 1].label
                                  /\ Q[p].links = [s \in Slots |-> p] /\ Q[p] \in NodeContents
    <3>. SUFFICES ASSUME NEW p \in n .. n + k - 1
                  PROVE  /\ Q[p].vec = rows[p - n + 1].vec /\ Q[p].label = rows[p - n + 1].label
                         /\ Q[p].links = [s \in Slots |-> p] /\ Q[p] \in NodeContents
      OBVIOUS
    <3>1. Q[p] = [vec |-> rows[p - n + 1].vec, label |-> rows[p - n + 1].label, links |-> [s \in Slots |-> p]]
      BY <2>2 DEF NewNode, SelfLinks
    <3>. DEFINE v == rows[p - n + 1].vec
                l == rows[p - n + 1].label
    <3>2. v \in Nat \cup {Scrambled} /\ l \in Nat /\ p \in Places
      BY <2>2, <2>3
    <3>. HIDE DEF Q, v, l
    <3>. QED BY <3>1, <3>2 DEF NodeContents, v, l
  <2>5. \A p \in Places : p \notin n .. n + k - 1 => Q[p] = index.nodes[p]
    OBVIOUS
  <2>6. Q \in [Places -> NodeContents]
    <3>1. \A p \in Places : Q[p] \in NodeContents
      BY <1>3, <2>4, <2>5
    <3>2. Q = [p \in Places |-> Q[p]]
      OBVIOUS
    <3>. HIDE DEF Q
    <3>. QED BY <3>1, <3>2
  <2>. HIDE DEF Q
  <2>7. /\ index'.nodes = Q /\ index'.count = n + k /\ index'.type = index.type /\ index'.loose = index.loose
        /\ index' \in [type : Types, count : 0 .. Capacity, nodes : [Places -> NodeContents], loose : BOOLEAN]
    <3>1. n + k \in 0 .. Capacity
      BY <1>3, <1>8
    <3>. QED BY <1>3, <2>1, <2>6, <3>1 DEF Indexes
  <2>8. \A p \in 0 .. index'.count - 1 : IsGiven(index.nodes[p], index.type)'
    <3>. SUFFICES ASSUME NEW p \in 0 .. index'.count - 1 PROVE IsGiven(index.nodes[p], index.type)'
      BY Zenon
    <3>1. p \in 0 .. n - 1 \/ p \in n .. n + k - 1
      BY <1>3, <2>7
    <3>2. CASE p \in 0 .. n - 1
      <4>1. Q[p] = index.nodes[p] /\ IsGiven(index.nodes[p], index.type)
        BY <1>3, <2>5, <3>2
      <4>. QED BY <1>6, <2>7, <4>1 DEF IsGiven
    <3>3. CASE p \in n .. n + k - 1
      BY <2>2, <2>3, <2>4, <2>7, <3>3 DEF IsGiven
    <3>. QED BY <3>1, <3>2, <3>3
  <2>9. index'.loose \/ \A p \in 0 .. index'.count - 1, s \in Slots :
                            index'.nodes[p].links[s] \in 0 .. index'.count - 1
    <3>. SUFFICES ASSUME ~index'.loose, NEW p \in 0 .. index'.count - 1, NEW s \in Slots
                  PROVE  index'.nodes[p].links[s] \in 0 .. index'.count - 1
      BY Zenon
    <3>0. index'.nodes = Q /\ index'.count = n + k /\ ~index.loose /\ n + k \in Nat
          /\ (p \in 0 .. n - 1 \/ p \in n .. n + k - 1)
      BY <1>3, <2>7
    <3>1. CASE p \in n .. n + k - 1
      BY <1>3, <2>4, <3>0, <3>1
    <3>2. CASE p \in 0 .. n - 1
      <4>1. Q[p] = index.nodes[p] /\ index.nodes[p].links[s] \in 0 .. n - 1
        BY <1>3, <2>5, <3>0, <3>2
      <4>. QED BY <1>3, <3>0, <4>1
    <3>. QED BY <3>0, <3>1, <3>2
  <2>10. index' \in Indexes /\ IndexInv'
    BY <2>7, <2>8, <2>9, IndexFits
  <2>11. labelId' \in Nat
    BY <1>2, <2>1
  <2>. QED BY <1>1, <1>2, <1>6, <2>1, <2>10, <2>11, QuietStep
<1>. QED BY <1>3, <1>7, <1>8, PlacesAreNumbers

\* A set of natural numbers that is not empty has a least element.
LEMMA LeastExists ==
    ASSUME NEW S \in SUBSET Nat, S # {}
    PROVE  \E n \in S : \A k \in S : n <= k
<1>1. PICK n \in S : \A k \in S : <<k, n>> \notin OpToRel(<, Nat)
  BY WFMin, NatLessThanWellFounded
<1>2. \A k \in S : ~(k < n)
  BY <1>1 DEF OpToRel
<1>. QED BY <1>2

\* Nodes with the vectors and labels of others.
SameRows(nodes, before) ==
    nodes \in [Places -> NodeContents]
    /\ \A p \in Places : nodes[p].vec = before[p].vec /\ nodes[p].label = before[p].label

\* An edge changes one slot.
LEMMA EdgeKeepsRows ==
    ASSUME NEW nodes \in [Places -> NodeContents], NEW u \in Places, NEW v \in Places, NEW lucky \in BOOLEAN
    PROVE  SameRows(WithEdge(nodes, u, v, lucky), nodes)
<1>. DEFINE free == {s \in Slots : nodes[u].links[s] = u \/ (lucky /\ nodes[u].links[s] = -1)}
            s1 == CHOOSE s \in free : \A q \in free : s <= q
<1>1. CASE free = {}
  BY <1>1 DEF WithEdge, SameRows
<1>2. CASE free # {}
  <2>1. s1 \in Slots
    <3>1. free \in SUBSET Nat
      BY PlacesAreNumbers
    <3>2. \A s \in free : s \in Slots
      OBVIOUS
    <3>. HIDE DEF free
    <3>3. \E s \in free : \A q \in free : s <= q
      BY <1>2, <3>1, LeastExists
    <3>. QED BY <3>2, <3>3
  <2>2. WithEdge(nodes, u, v, lucky) = [nodes EXCEPT ![u].links[s1] = v]
    BY <1>2 DEF WithEdge
  <2>. HIDE DEF s1
  <2>. DEFINE x == nodes[u]
              L == [x.links EXCEPT ![s1] = v]
  <2>3. x \in NodeContents /\ L \in [Slots -> Places \cup {-1}]
    BY <2>1 DEF NodeContents
  <2>4. WithEdge(nodes, u, v, lucky) = [nodes EXCEPT ![u] = [x EXCEPT !.links = L]]
    BY <2>2
  <2>. HIDE DEF x, L
  <2>5. [x EXCEPT !.links = L] \in NodeContents /\ [x EXCEPT !.links = L].vec = x.vec
        /\ [x EXCEPT !.links = L].label = x.label
    BY <2>3, Relinked
  <2>. DEFINE y == [x EXCEPT !.links = L]
  <2>. HIDE DEF y
  <2>6. y \in NodeContents /\ y.vec = nodes[u].vec /\ y.label = nodes[u].label
        /\ WithEdge(nodes, u, v, lucky) = [nodes EXCEPT ![u] = y]
    BY <2>4, <2>5 DEF y, x
  <2>. QED BY <2>6 DEF SameRows
<1>. QED BY <1>1, <1>2

\* The function that reads the edges exists.
LEMMA EdgesExist ==
    ASSUME NEW nodes, NEW list, NEW lucky, Len(list) \in Nat
    PROVE  WithEdges(nodes, list, lucky) =
               [i \in 0 .. Len(list) |->
                   IF i = 0 THEN nodes
                   ELSE WithEdge(WithEdges(nodes, list, lucky)[i - 1], list[i][1] - 1, list[i][2] - 1, lucky)]
<1>. DEFINE Reads(f, k) == f = [i \in 0 .. k |-> IF i = 0 THEN nodes
                                                ELSE WithEdge(f[i - 1], list[i][1] - 1, list[i][2] - 1, lucky)]
            Bad == {k \in Nat : ~ \E f : Reads(f, k)}
<1>1. Bad = {}
  <2>. SUFFICES ASSUME Bad # {} PROVE FALSE
    OBVIOUS
  <2>1. PICK k \in Bad : \A j \in Bad : k <= j
    <3>1. Bad \in SUBSET Nat
      OBVIOUS
    <3>. HIDE DEF Bad
    <3>. QED BY <3>1, LeastExists
  <2>2. CASE k = 0
    <3>. DEFINE f == [i \in 0 .. 0 |-> nodes]
    <3>1. Reads(f, 0)
      OBVIOUS
    <3>. QED BY <3>1, <2>2
  <2>3. CASE k # 0
    <3>1. k - 1 \in Nat /\ k - 1 \notin Bad
      <4>1. k \in Nat
        OBVIOUS
      <4>. HIDE DEF Bad
      <4>. QED BY <2>1, <2>3, <4>1
    <3>2. PICK f : Reads(f, k - 1)
      BY <3>1
    <3>. DEFINE h == [i \in 0 .. k |-> IF i = 0 THEN nodes
                                      ELSE WithEdge(f[i - 1], list[i][1] - 1, list[i][2] - 1, lucky)]
    <3>3. ASSUME NEW i \in 0 .. k - 1 PROVE h[i] = f[i]
      BY <3>2, <3>1
    <3>4. Reads(h, k)
      <4>1. \A i \in 0 .. k : i # 0 => i - 1 \in 0 .. k - 1
        BY <3>1
      <4>2. \A i \in 0 .. k : i # 0 => h[i - 1] = f[i - 1]
        BY <4>1, <3>3
      <4>. HIDE DEF h
      <4>3. h = [i \in 0 .. k |-> IF i = 0 THEN nodes
                                  ELSE WithEdge(h[i - 1], list[i][1] - 1, list[i][2] - 1, lucky)]
        BY <4>2 DEF h
      <4>. QED BY <4>3
    <3>. QED BY <3>4, <2>1
  <2>. QED BY <2>2, <2>3
<1>2. PICK f : Reads(f, Len(list))
  BY <1>1
<1>. QED BY <1>2 DEF WithEdges

\* The edges of a file change links only.
LEMMA EdgesKeepRows ==
    ASSUME NEW nodes \in [Places -> NodeContents], NEW lucky \in BOOLEAN,
           NEW list \in Seq((1 .. Capacity) \X (1 .. Capacity))
    PROVE  SameRows(WithEdges(nodes, list, lucky)[Len(list)], nodes)
<1>. DEFINE size == Len(list)
            W == WithEdges(nodes, list, lucky)
            Bad == {i \in 0 .. size : ~SameRows(W[i], nodes)}
<1>1. size \in Nat
  OBVIOUS
<1>2. W[0] = nodes /\ \A i \in 1 .. size : W[i] = WithEdge(W[i - 1], list[i][1] - 1, list[i][2] - 1, lucky)
  <2>1. W = [i \in 0 .. size |-> IF i = 0 THEN nodes
                                 ELSE WithEdge(W[i - 1], list[i][1] - 1, list[i][2] - 1, lucky)]
    BY <1>1, EdgesExist
  <2>. HIDE DEF W, size
  <2>2. 0 \in 0 .. size /\ \A i \in 1 .. size : i \in 0 .. size /\ i # 0
    BY <1>1
  <2>. QED BY <2>1, <2>2
<1>3. \A i \in 1 .. size : list[i][1] - 1 \in Places /\ list[i][2] - 1 \in Places
  BY PlacesAreNumbers
<1>4. Bad = {}
  <2>. SUFFICES ASSUME Bad # {} PROVE FALSE
    OBVIOUS
  <2>1. PICK k \in Bad : \A j \in Bad : k <= j
    <3>1. Bad \in SUBSET Nat
      BY <1>1
    <3>. HIDE DEF Bad
    <3>. QED BY <3>1, LeastExists
  <2>2. k # 0
    <3>1. SameRows(W[0], nodes)
      BY <1>2 DEF SameRows
    <3>. QED BY <2>1, <3>1
  <2>3. k \in 1 .. size /\ k - 1 \in 0 .. size /\ k - 1 \notin Bad
    BY <1>1, <2>1, <2>2
  <2>. DEFINE N == W[k - 1]
              u == list[k][1] - 1
              v == list[k][2] - 1
  <2>4. SameRows(N, nodes) /\ u \in Places /\ v \in Places /\ W[k] = WithEdge(N, u, v, lucky)
    BY <1>2, <1>3, <2>3
  <2>. HIDE DEF W, N, u, v
  <2>5. SameRows(WithEdge(N, u, v, lucky), N)
    BY <2>4, EdgeKeepsRows DEF SameRows
  <2>6. SameRows(W[k], nodes)
    BY <2>4, <2>5 DEF SameRows
  <2>. QED BY <2>1, <2>6
<1>. HIDE DEF W
<1>5. SameRows(W[size], nodes)
  BY <1>1, <1>4
<1>. QED BY <1>5 DEF W

\* Edges of a file change links only, and mark the graph as loose.
LEMMA BuildGraphLinksKeeps ==
    ASSUME IInv, NEW c \in Callers, NEW f \in EdgeFiles, BuildGraphLinks(c, f)
    PROVE  IInv'
<1>1. /\ Quiet /\ gil = Nobody /\ process = "up"
      /\ UNCHANGED <<process, threads, labelId, guard, gil, call, file, saved, given, harm>>
  BY DEF BuildGraphLinks, Enters
<1>2. /\ threads' \in 1 .. HardwareThreads /\ labelId' \in Nat /\ given' \in SUBSET Pairs /\ IsFiniteSet(given')
      /\ harm' \in SUBSET {"overrun", "terminated", "garbage"}
  BY <1>1 DEF IInv, ShapeInv
<1>3. CASE f.vertices # Capacity \/ f.edges # M
  BY <1>1, <1>2, <1>3, SmallStep DEF BuildGraphLinks
<1>4. CASE ~(f.vertices # Capacity \/ f.edges # M)
  <2>1. f.list \in Seq((1 .. Capacity) \X (1 .. Capacity))
    BY <1>4, EdgeFilesAreGraphs
  <2>2. PICK lucky \in BOOLEAN :
            index' = [index EXCEPT !.loose = TRUE, !.nodes = WithEdges(index.nodes, f.list, lucky)[Len(f.list)]]
    BY <1>4 DEF BuildGraphLinks
  <2>. DEFINE Q == WithEdges(index.nodes, f.list, lucky)[Len(f.list)]
  <2>3. /\ index.count \in 0 .. Capacity /\ index.nodes \in [Places -> NodeContents] /\ index \in Indexes
        /\ index.type \in Types
        /\ \A p \in 0 .. index.count - 1 : p \in Places /\ IsGiven(index.nodes[p], index.type)
    BY IndexParts DEF IInv, ShapeInv
  <2>4. SameRows(Q, index.nodes)
    BY <2>1, <2>3, EdgesKeepRows
  <2>. HIDE DEF Q
  <2>5. /\ index'.nodes = Q /\ index'.count = index.count /\ index'.type = index.type /\ index'.loose = TRUE
        /\ index' \in [type : Types, count : 0 .. Capacity, nodes : [Places -> NodeContents], loose : BOOLEAN]
    <3>1. index' = [index EXCEPT !.loose = TRUE, !.nodes = Q]
      BY <2>2 DEF Q
    <3>. QED BY <2>3, <2>4, <3>1 DEF Indexes, SameRows
  <2>6. \A p \in 0 .. index'.count - 1 : IsGiven(index.nodes[p], index.type)'
    BY <1>1, <2>3, <2>4, <2>5 DEF IsGiven, SameRows
  <2>7. index' \in Indexes /\ IndexInv'
    BY <2>5, <2>6, IndexFits
  <2>. QED BY <1>1, <1>2, <2>7, QuietStep
<1>. QED BY <1>3, <1>4

\* A load brings back what FileInv says of the file.
LEMMA LoadKeeps ==
    ASSUME IInv, NEW c \in Callers, Load(c)
    PROVE  IInv'
<1>1. /\ Quiet /\ gil = Nobody /\ process = "up"
      /\ UNCHANGED <<process, guard, gil, call, file, saved, given, harm>>
  BY DEF Load, Enters
<1>2. /\ LoadedThreads \in 1 .. HardwareThreads /\ given' \in SUBSET Pairs /\ IsFiniteSet(given')
      /\ harm' \in SUBSET {"overrun", "terminated", "garbage"} /\ threads \in 1 .. HardwareThreads /\ labelId \in Nat
  BY <1>1, PlacesAreNumbers DEF IInv, ShapeInv, LoadedThreads
<1>3. CASE file.state # "whole"
  BY <1>1, <1>2, <1>3, SmallStep DEF Load
<1>4. CASE file.state = "whole"
  <2>1. index' = Loaded /\ threads' = LoadedThreads /\ labelId' = 0
    BY <1>4 DEF Load
  <2>2. index' \in Indexes
    BY <2>1 DEF Loaded, Indexes, Files, IInv, ShapeInv
  <2>3. /\ index'.type = file.type /\ index'.count = file.count /\ index'.nodes = file.nodes
        /\ index'.loose = file.loose
    BY <2>1 DEF Loaded
  <2>4. StoresGivenRows(file) /\ (~file.loose => Closed(file))
    BY <1>4 DEF IInv, FileInv
  <2>5. IndexInv'
    BY <1>1, <2>2, <2>3, <2>4 DEF IndexInv, StoresGivenRows, Closed, Indexes
  <2>. QED BY <1>1, <1>2, <2>1, <2>2, <2>5, QuietStep
<1>. QED BY <1>3, <1>4

-----------------------------------------------------------------------------
(* Saving. *)

\* A save begins with an empty file, which promises nothing yet.
LEMMA SaveKeeps ==
    ASSUME IInv, NEW c \in Callers, Save(c)
    PROVE  IInv'
<1>. USE DEF IInv
<1>. DEFINE k == [NoCall EXCEPT !.op = "save"]
<1>1. /\ process = "up" /\ gil = Nobody /\ call[c].op = "none" /\ gil' = c /\ call' = [call EXCEPT ![c] = k]
      /\ UNCHANGED <<process, index, threads, labelId, guard, saved, given, harm>>
  BY DEF Save, Enters, Idle
<1>2. k \in Calls /\ k.op = "save" /\ k.rows = <<>> /\ k.state = <<>> /\ k.node = <<>>
  BY NoCallFits, OtherOp
<1>. HIDE DEF k
<1>3. call' \in [Callers -> Calls] /\ CallInv' /\ RowInv' /\ AloneInv'
  BY <1>1, <1>2, IdleHoldsNoGuard, CallReplaced
<1>4. /\ file' \in Files /\ file'.state = "empty" /\ file'.copied = 0
      /\ file'.overlapped = Busy("add") /\ file'.loose = (index.loose \/ Busy("add"))
  <2>1. NoFile \in Files /\ NoFile.copied = 0
    BY RawNodes, PlacesAreNumbers DEF NoFile, Files, Types
  <2>2. Busy("add") \in BOOLEAN /\ index.loose \in BOOLEAN
    BY IndexParts DEF Busy
  <2>3. file' = [NoFile EXCEPT !.state = "empty", !.overlapped = Busy("add"), !.loose = index.loose \/ Busy("add")]
    BY DEF Save
  <2>. QED BY <2>1, <2>2, <2>3 DEF Files
<1>5. Busy("add")' => Busy("add")
  BY <1>1, <1>2 DEF Busy, ShapeInv
<1>6. ShapeInv'
  BY <1>1, <1>3, <1>4 DEF ShapeInv
<1>7. SaveInv'
  <2>1. call'[c].op = "save"
    BY <1>1, <1>2 DEF ShapeInv
  <2>. QED BY <1>1, <1>4, <1>5, <2>1 DEF SaveInv
<1>8. FileInv'
  BY <1>4 DEF FileInv
<1>9. IndexInv'
  BY <1>1 DEF IndexInv, StoresGivenRows, Closed
<1>. QED BY <1>3, <1>6, <1>7, <1>8, <1>9

\* The count is written before the memory.
LEMMA SaveMembersKeeps ==
    ASSUME IInv, NEW c \in Callers, SaveMembers(c)
    PROVE  IInv'
<1>. USE DEF IInv
<1>1. /\ process = "up" /\ gil = c /\ gil # Nobody /\ file.state = "empty"
      /\ file' = [file EXCEPT !.state = "partial", !.type = index.type, !.count = index.count]
      /\ UNCHANGED <<process, index, threads, labelId, guard, gil, call, saved, given, harm>>
  BY PlacesAreNumbers DEF SaveMembers
<1>2. file \in Files /\ index.type \in Types /\ index.count \in 0 .. Capacity
  BY IndexParts DEF ShapeInv
<1>3. /\ file' \in Files /\ file'.state = "partial" /\ file'.type = index.type /\ file'.count = index.count
      /\ file'.copied = file.copied /\ file'.overlapped = file.overlapped /\ file'.loose = file.loose
  BY <1>1, <1>2 DEF Files
<1>4. ShapeInv'
  BY <1>1, <1>3 DEF ShapeInv
<1>5. CallInv' /\ RowInv' /\ AloneInv'
  BY <1>1 DEF CallInv, RowInv, AloneInv
<1>6. file'.copied = 0
  BY <1>1, <1>3 DEF SaveInv
<1>7. SaveInv'
  <2>1. file'.count <= index.count
    BY <1>2, <1>3
  <2>2. \A p \in 0 .. file'.copied - 1 : FALSE
    BY <1>6
  <2>. QED BY <1>1, <1>3, <1>6, <2>1, <2>2 DEF SaveInv, Busy
<1>8. FileInv'
  BY <1>3 DEF FileInv
<1>9. IndexInv'
  BY <1>1 DEF IndexInv, StoresGivenRows, Closed
<1>. QED BY <1>4, <1>5, <1>7, <1>8, <1>9

\* A node that the file counts was counted, hence filled, before it is copied.
LEMMA SaveNodeKeeps ==
    ASSUME IInv, NEW c \in Callers, SaveNode(c)
    PROVE  IInv'
<1>. USE DEF IInv
<1>. DEFINE n == file.copied
<1>1. /\ process = "up" /\ gil = c /\ gil # Nobody /\ file.state = "partial" /\ n < Capacity
      /\ file' = [file EXCEPT !.nodes[n] = index.nodes[n], !.copied = @ + 1]
      /\ UNCHANGED <<process, index, threads, labelId, guard, gil, call, saved, given, harm>>
  BY PlacesAreNumbers DEF SaveNode
<1>2. file \in Files /\ index.nodes \in [Places -> NodeContents] /\ index.count \in 0 .. Capacity
      /\ \A p \in 0 .. index.count - 1 : IsGiven(index.nodes[p], index.type)
  BY IndexParts DEF ShapeInv
<1>3. n \in Nat /\ n + 1 \in 0 .. Capacity /\ n \in Places /\ file.nodes \in [Places -> NodeContents]
      /\ file.count \in 0 .. Capacity
  BY <1>1, <1>2, PlacesAreNumbers DEF Files, Memory, NodeContents
<1>4. /\ file'.state = "partial" /\ file'.type = file.type /\ file'.count = file.count
      /\ file'.copied = n + 1 /\ file'.overlapped = file.overlapped /\ file'.loose = file.loose
      /\ file'.nodes = [file.nodes EXCEPT ![n] = index.nodes[n]]
  BY <1>1, <1>2 DEF Files
<1>5. file' \in Files
  <2>1. file'.nodes \in Memory
    <3>1. file'.nodes \in [Places -> NodeContents]
      BY <1>2, <1>3, <1>4
    <3>. QED BY <3>1 DEF Memory, NodeContents
  <2>. QED BY <1>1, <1>2, <1>3, <1>4, <2>1 DEF Files
<1>6. /\ file'.nodes[n] = index.nodes[n]
      /\ \A p \in 0 .. n - 1 : file'.nodes[p] = file.nodes[p]
  BY <1>1, <1>3, <1>4, PlacesAreNumbers
<1>7. ShapeInv'
  BY <1>1, <1>5 DEF ShapeInv
<1>8. CallInv' /\ RowInv' /\ AloneInv'
  BY <1>1 DEF CallInv, RowInv, AloneInv
<1>9. /\ call[gil].op = "save"
      /\ file.type = index.type
      /\ file.count <= index.count
      /\ \A p \in 0 .. n - 1 : p < file.count => IsGiven(file.nodes[p], file.type)
      /\ ~file.overlapped =>
             /\ ~Busy("add")
             /\ file.count = index.count
             /\ \A p \in 0 .. n - 1 : file.nodes[p] = index.nodes[p]
      /\ ~file.loose => ~file.overlapped /\ ~index.loose
  BY <1>1 DEF SaveInv
<1>10. \A p \in 0 .. n : p \in 0 .. n - 1 \/ p = n
  BY <1>3
<1>11. \A p \in 0 .. n : p < file.count => IsGiven(file'.nodes[p], file.type)
  <2>. SUFFICES ASSUME NEW p \in 0 .. n, p < file.count PROVE IsGiven(file'.nodes[p], file.type)
    OBVIOUS
  <2>1. CASE p = n
    <3>1. p \in 0 .. index.count - 1
      BY <1>2, <1>3, <1>9, <2>1
    <3>. QED BY <1>2, <1>6, <1>9, <2>1, <3>1
  <2>2. CASE p \in 0 .. n - 1
    BY <1>6, <1>9, <2>2
  <2>. QED BY <1>10, <2>1, <2>2
<1>12. ~file.overlapped => \A p \in 0 .. n : file'.nodes[p] = index.nodes[p]
  BY <1>6, <1>9, <1>10
<1>13. SaveInv'
  <2>1. 0 .. file'.copied - 1 = 0 .. n
    BY <1>3, <1>4
  <2>2. \A p \in 0 .. file'.copied - 1 : p < file'.count => IsGiven(file.nodes[p], file.type)'
    <3>. SUFFICES ASSUME NEW p \in 0 .. file'.copied - 1, p < file'.count
                  PROVE  IsGiven(file.nodes[p], file.type)'
      BY Zenon
    <3>1. IsGiven(file'.nodes[p], file.type)
      BY <1>4, <1>11, <2>1
    <3>. QED BY <1>1, <1>4, <3>1 DEF IsGiven
  <2>3. ~file'.overlapped => /\ ~Busy("add")' /\ file'.count = index'.count
                             /\ \A p \in 0 .. file'.copied - 1 : file'.nodes[p] = index'.nodes[p]
    BY <1>1, <1>4, <1>9, <1>12, <2>1 DEF Busy
  <2>. QED BY <1>1, <1>4, <1>9, <2>2, <2>3 DEF SaveInv
<1>14. FileInv'
  BY <1>4 DEF FileInv
<1>15. IndexInv'
  BY <1>1 DEF IndexInv, StoresGivenRows, Closed
<1>. QED BY <1>7, <1>8, <1>13, <1>14, <1>15

\* When all nodes are copied the file holds what SaveInv says of it.
LEMMA EndSaveKeeps ==
    ASSUME IInv, NEW c \in Callers, EndSave(c)
    PROVE  IInv'
<1>. USE DEF IInv
<1>1. /\ process = "up" /\ gil = c /\ gil # Nobody /\ file.state = "partial" /\ file.copied = Capacity
      /\ file' = [file EXCEPT !.state = "whole"] /\ saved' = Contents(index) /\ gil' = Nobody
      /\ call' = [call EXCEPT ![c] = NoCall]
      /\ UNCHANGED <<process, index, threads, labelId, guard, given, harm>>
  BY PlacesAreNumbers DEF EndSave
<1>2. /\ call[c].op = "save"
      /\ file.type = index.type
      /\ file.count <= index.count
      /\ \A p \in 0 .. Capacity - 1 : p < file.count => IsGiven(file.nodes[p], file.type)
      /\ ~file.overlapped =>
             /\ file.count = index.count
             /\ \A p \in 0 .. Capacity - 1 : file.nodes[p] = index.nodes[p]
      /\ ~file.loose => ~file.overlapped /\ ~index.loose
  BY <1>1 DEF SaveInv
<1>3. call' \in [Callers -> Calls] /\ CallInv' /\ RowInv' /\ AloneInv'
  BY <1>1, <1>2, NoCallFits, IdleHoldsNoGuard, CallReplaced
<1>4. file \in Files
  BY DEF ShapeInv
<1>5. /\ file' \in Files /\ file'.state = "whole" /\ file'.type = file.type /\ file'.count = file.count
      /\ file'.nodes = file.nodes /\ file'.overlapped = file.overlapped /\ file'.loose = file.loose
  BY <1>1, <1>4 DEF Files
<1>6. ShapeInv'
  BY <1>1, <1>3, <1>5 DEF ShapeInv
<1>7. SaveInv'
  BY <1>1 DEF SaveInv
<1>8. file.count \in 0 .. Capacity /\ file.nodes \in Memory /\ index.count \in 0 .. Capacity
      /\ \A p \in 0 .. file.count - 1 : p \in 0 .. Capacity - 1
  <2>1. file.count \in 0 .. Capacity /\ file.nodes \in Memory
    BY <1>4 DEF Files
  <2>. QED BY <2>1, IndexParts, PlacesAreNumbers
<1>9. StoresGivenRows(file)'
  <2>1. \A p \in 0 .. file.count - 1 : p < file.count
    BY <1>8
  <2>2. \A p \in 0 .. file.count - 1 : IsGiven(file.nodes[p], file.type)
    BY <1>2, <1>8, <2>1
  <2>. QED BY <1>1, <1>5, <2>2 DEF StoresGivenRows, IsGiven
<1>10. ~file.overlapped => Contents(file) = Contents(index)
  BY <1>2, <1>8 DEF Contents
<1>11. ~file.loose => Closed(file)
  <2>. SUFFICES ASSUME ~file.loose, NEW p \in 0 .. file.count - 1, NEW s \in Slots
                PROVE  file.nodes[p].links[s] \in 0 .. file.count - 1
    BY <1>8, ClosedMeans
  <2>1. file.count = index.count /\ file.nodes[p] = index.nodes[p] /\ ~index.loose
    BY <1>2, <1>8
  <2>. QED BY <2>1, IndexParts
<1>12. FileInv'
  BY <1>1, <1>5, <1>9, <1>10, <1>11 DEF FileInv, Contents, Closed
<1>13. IndexInv'
  BY <1>1 DEF IndexInv, StoresGivenRows, Closed
<1>. QED BY <1>3, <1>6, <1>7, <1>12, <1>13

-----------------------------------------------------------------------------
(* Adding. *)

\* A copy that is being saved is overlapped by any step of an add.
LEMMA AddKeepsSave ==
    ASSUME IInv, NEW c \in Callers, call[c].op = "add", process' = "up", UNCHANGED <<gil, file>>,
           given \subseteq given', index'.type = index.type, index'.count \in Nat, index.count <= index'.count,
           \A d \in Callers : call[d].op = "save" => call'[d].op = "save"
    PROVE  SaveInv'
<1>1. SaveInv /\ index.count \in Nat /\ file.count \in Nat
  BY IndexParts, PlacesAreNumbers DEF IInv, ShapeInv, Files
<1>2. CASE gil = Nobody
  BY <1>2 DEF SaveInv
<1>3. CASE gil # Nobody
  <2>1. gil \in Callers
    BY <1>3 DEF IInv, ShapeInv
  <2>2. file.overlapped /\ file.loose
    <3>1. Busy("add")
      BY DEF Busy
    <3>2. file.overlapped \in BOOLEAN /\ file.loose \in BOOLEAN
      BY DEF IInv, ShapeInv, Files
    <3>. QED BY <1>1, <1>3, <3>1, <3>2 DEF SaveInv
  <2>3. call'[gil].op = "save"
    BY <1>1, <1>3, <2>1 DEF SaveInv
  <2>4. file.state \in {"empty", "partial"} /\ (file.state = "empty" => file.copied = 0)
    BY <1>1, <1>3 DEF SaveInv
  <2>5. file.state = "partial" => file.type = index'.type /\ file.count <= index'.count
    BY <1>1, <1>3 DEF SaveInv
  <2>6. ASSUME file.state = "partial", NEW p \in 0 .. file.copied - 1, p < file.count
        PROVE  IsGiven(file.nodes[p], file.type)'
    <3>1. IsGiven(file.nodes[p], file.type)
      BY <1>1, <1>3, <2>6 DEF SaveInv
    <3>. QED BY <3>1 DEF IsGiven
  <2>. QED BY <1>3, <2>2, <2>3, <2>4, <2>5, <2>6 DEF SaveInv, IsGiven
<1>. QED BY <1>2, <1>3

\* What a caller's row moving to another state changes.
LEMMA RowMoves ==
    ASSUME call \in [Callers -> Calls], NEW c \in Callers, NEW r \in DOMAIN call[c].state,
           NEW s \in Working \cup {"waiting", "done"}, Row(c, r, s)
    PROVE  /\ call' \in [Callers -> Calls]
           /\ \A d \in Callers : /\ call'[d].op = call[d].op /\ call'[d].rows = call[d].rows
                                 /\ call'[d].node = call[d].node /\ call'[d].threads = call[d].threads
                                 /\ call'[d].alone = call[d].alone
                                 /\ Len(call'[d].state) = Len(call[d].state)
           /\ call'[c].state[r] = s
           /\ \A q \in DOMAIN call[c].state : q # r => call'[c].state[q] = call[c].state[q]
           /\ \A d \in Callers : d # c => call'[d] = call[d]
<1>. DEFINE k == call[c]
            new == [k.state EXCEPT ![r] = s]
            l == [k EXCEPT !.state = new]
<1>1. call' = [call EXCEPT ![c] = l]
  BY DEF Row
<1>2. k \in Calls
  OBVIOUS
<1>3. k.state \in Seq(Working \cup {"waiting", "done"})
  BY <1>2 DEF Calls
<1>4. /\ new \in Seq(Working \cup {"waiting", "done"}) /\ Len(new) = Len(k.state) /\ new[r] = s
      /\ \A q \in DOMAIN k.state : q # r => new[q] = k.state[q]
  BY <1>3
<1>. HIDE DEF k, new
<1>5. l \in Calls /\ l.op = k.op /\ l.rows = k.rows /\ l.node = k.node /\ l.threads = k.threads
      /\ l.alone = k.alone /\ l.state = new
  BY <1>2, <1>4 DEF Calls
<1>. HIDE DEF l
<1>6. call'[c] = l /\ call' \in [Callers -> Calls] /\ \A d \in Callers : d # c => call'[d] = call[d]
  BY <1>1, <1>5
<1>. QED BY <1>4, <1>5, <1>6 DEF k

\* The parts that a step of an add leaves alone.
LEMMA FileKept ==
    ASSUME FileInv, UNCHANGED <<file, saved>>, given \subseteq given'
    PROVE  FileInv'
BY DEF FileInv, StoresGivenRows, Contents, Closed

\* An index stays good when more rows are given.
LEMMA IndexKept ==
    ASSUME IndexInv, UNCHANGED index, given \subseteq given'
    PROVE  IndexInv'
BY DEF IndexInv, StoresGivenRows, Closed

\* The entries of a sequence over a set.
LEMMA EntriesOfSequence ==
    ASSUME NEW S, NEW list \in Seq(S)
    PROVE  \A i \in 1 .. Len(list) : list[i] \in S
OBVIOUS

\* A row of a call has a state and a node.
LEMMA RowsHaveStates ==
    ASSUME IInv, NEW c \in Callers
    PROVE  /\ call[c] \in Calls /\ DOMAIN call[c].state = DOMAIN call[c].rows
           /\ DOMAIN call[c].node = DOMAIN call[c].rows /\ DOMAIN call[c].rows = 1 .. Len(call[c].rows)
           /\ Len(call[c].rows) \in Nat
           /\ \A r \in DOMAIN call[c].rows :
                  /\ call[c].state[r] \in Working \cup {"waiting", "done"} /\ call[c].node[r] \in Nat
                  /\ call[c].op = "add"
<1>1. call[c] \in Calls
  BY DEF IInv, ShapeInv
<1>2. /\ call[c].op # "add" => call[c].rows = <<>>
      /\ Len(call[c].state) = Len(call[c].rows) /\ Len(call[c].node) = Len(call[c].rows)
  BY DEF IInv, CallInv
<1>3. /\ call[c].state \in Seq(Working \cup {"waiting", "done"}) /\ call[c].node \in Seq(Nat)
      /\ call[c].rows \in Seq([vec : Nat, label : Nat])
  BY <1>1 DEF Calls
<1>. DEFINE size == Len(call[c].rows)
<1>4. /\ DOMAIN call[c].rows = 1 .. size /\ size \in Nat
      /\ DOMAIN call[c].state = 1 .. size /\ DOMAIN call[c].node = 1 .. size
  BY <1>2, <1>3
<1>5. \A r \in 1 .. size : call[c].state[r] \in Working \cup {"waiting", "done"} /\ call[c].node[r] \in Nat
  <2>1. \A r \in 1 .. Len(call[c].state) : call[c].state[r] \in Working \cup {"waiting", "done"}
    BY <1>3, EntriesOfSequence
  <2>2. \A r \in 1 .. Len(call[c].node) : call[c].node[r] \in Nat
    BY <1>3, EntriesOfSequence
  <2>. QED BY <1>2, <2>1, <2>2
<1>6. \A r \in DOMAIN call[c].rows : call[c].op = "add"
  BY <1>2
<1>. HIDE DEF size
<1>7. \A r \in DOMAIN call[c].rows : /\ call[c].state[r] \in Working \cup {"waiting", "done"}
                                     /\ call[c].node[r] \in Nat /\ call[c].op = "add"
  BY <1>4, <1>5, <1>6
<1>. QED BY <1>1, <1>4, <1>7 DEF size

\* CallInv is about what a row's moving leaves alone.
LEMMA CallKept ==
    ASSUME CallInv, given \subseteq given',
           \A d \in Callers : /\ call'[d].op = call[d].op /\ call'[d].rows = call[d].rows
                              /\ Len(call'[d].node) = Len(call[d].node)
                              /\ Len(call'[d].state) = Len(call[d].state)
    PROVE  CallInv'
BY DEF CallInv

\* A thread that may take up a row on its own works at no other.
LEMMA TurnOfOne ==
    ASSUME IInv, NEW c \in Callers, NEW r \in DOMAIN call[c].rows, Turn(c, r), call[c].threads = 1
    PROVE  \A q \in DOMAIN call[c].rows : call[c].state[q] \notin Working
<1>. DEFINE W == {q \in DOMAIN call[c].rows : call[c].state[q] \in Working}
<1>1. IsFiniteSet(W)
  <2>1. IsFiniteSet(1 .. Len(call[c].rows))
    BY RowsHaveStates, FS_Interval
  <2>2. W \in SUBSET (1 .. Len(call[c].rows))
    BY RowsHaveStates
  <2>. QED BY <2>1, <2>2, FS_Subset
<1>2. Cardinality(W) < 1
  BY DEF Turn
<1>. HIDE DEF W
<1>3. W = {}
  BY <1>1, <1>2, FS_CardinalityType, FS_EmptySet
<1>. QED BY <1>3 DEF W

\* A check that passes is true for as long as nobody else adds.
LEMMA CheckCapacityKeeps ==
    ASSUME IInv, NEW c \in Callers, NEW r \in DOMAIN call[c].rows, CheckCapacity(c, r)
    PROVE  IInv'
<1>. USE DEF IInv
<1>1. /\ process = "up" /\ call[c].op = "add" /\ call[c].state[r] = "waiting" /\ index.count < Capacity
      /\ Row(c, r, "checked") /\ Turn(c, r)
      /\ UNCHANGED <<process, index, threads, labelId, guard, gil, file, saved, given, harm>>
  BY DEF CheckCapacity, Turn
<1>2. "checked" \in Working \cup {"waiting", "done"} /\ "waiting" \notin Working
  BY DEF Working
<1>3. call \in [Callers -> Calls] /\ r \in DOMAIN call[c].state
  BY RowsHaveStates DEF ShapeInv
<1>4. /\ call' \in [Callers -> Calls]
      /\ \A d \in Callers : /\ call'[d].op = call[d].op /\ call'[d].rows = call[d].rows
                            /\ call'[d].node = call[d].node /\ call'[d].threads = call[d].threads
                            /\ call'[d].alone = call[d].alone
                            /\ Len(call'[d].state) = Len(call[d].state)
      /\ call'[c].state[r] = "checked"
      /\ \A q \in DOMAIN call[c].state : q # r => call'[c].state[q] = call[c].state[q]
      /\ \A d \in Callers : d # c => call'[d] = call[d]
  BY <1>1, <1>2, <1>3, RowMoves
<1>5. \A d \in Callers : \A q \in DOMAIN call[d].rows :
          d # c \/ q # r => call'[d].state[q] = call[d].state[q]
  BY <1>4, RowsHaveStates
<1>6. ShapeInv'
  BY <1>1, <1>4 DEF ShapeInv
<1>7. CallInv'
  BY <1>1, <1>4, CallKept
<1>8. RowInv'
  <2>1. guard # <<c, r>>
    BY <1>1 DEF RowInv
  <2>2. \A d \in Callers, q \in Nat : guard' = <<d, q>> => q \in DOMAIN call'[d].rows
    BY <1>1, <1>4 DEF RowInv
  <2>3. ASSUME NEW d \in Callers, NEW q \in DOMAIN call'[d].rows
        PROVE  /\ (call'[d].state[q] = "stored") = (guard' = <<d, q>>)
               /\ call'[d].state[q] = "stored" =>
                      /\ index'.count < Capacity
                      /\ call'[d].node[q] = index'.count
                      /\ HoldsRow(index'.nodes[index'.count], call'[d].rows[q], index'.count, index'.loose)
               /\ call'[d].state[q] = "counted" => call'[d].node[q] < index'.count
    <3>1. CASE d = c /\ q = r
      BY <1>1, <1>4, <2>1, <3>1
    <3>2. CASE d # c \/ q # r
      BY <1>1, <1>4, <1>5, <3>2 DEF RowInv
    <3>. QED BY <3>1, <3>2
  <2>. QED BY <2>2, <2>3 DEF RowInv
<1>9. AloneInv'
  <2>. SUFFICES ASSUME NEW d \in Callers, call[d].op = "add"
                PROVE  /\ call[d].threads = 1 =>
                              \A q, o \in DOMAIN call[d].rows :
                                  call'[d].state[q] \in Working /\ call'[d].state[o] \in Working => q = o
                       /\ call[d].alone => \A e \in Callers : call[e].op = "add" => e = d
                       /\ call[d].threads = 1 /\ call[d].alone =>
                              \A q \in DOMAIN call[d].rows : call'[d].state[q] = "checked" => index.count < Capacity
    BY <1>1, <1>4 DEF AloneInv
  <2>1. CASE d = c
    BY <1>1, <1>5, <2>1, TurnOfOne DEF AloneInv
  <2>2. CASE d # c
    BY <1>1, <1>5, <2>2 DEF AloneInv
  <2>. QED BY <2>1, <2>2
<1>10. SaveInv'
  BY <1>1, <1>4, IndexParts, PlacesAreNumbers, AddKeepsSave
<1>11. FileInv' /\ IndexInv'
  BY <1>1, FileKept, IndexKept
<1>. QED BY <1>6, <1>7, <1>8, <1>9, <1>10, <1>11

\* A full index ends the add, or the process.
LEMMA RejectRowKeeps ==
    ASSUME IInv, NEW c \in Callers, NEW r \in DOMAIN call[c].rows, RejectRow(c, r)
    PROVE  IInv'
<1>. USE DEF IInv
<1>1. /\ process = "up" /\ call[c].op = "add" /\ Turn(c, r) /\ index.count >= Capacity
      /\ UNCHANGED <<index, file, saved, given>>
  BY DEF RejectRow, Turn
<1>2. CASE call[c].threads # 1
  <2>1. harm' = harm \cup {"terminated"} /\ Ends
    BY <1>2 DEF RejectRow
  <2>2. harm' \in SUBSET {"overrun", "terminated", "garbage"} /\ index' \in Indexes /\ IndexInv'
    BY <1>1, <2>1, IndexKept DEF ShapeInv
  <2>. QED BY <1>1, <2>1, <2>2, EndsKeeps
<1>3. CASE call[c].threads = 1
  <2>. DEFINE k == call[c]
              new == [q \in DOMAIN k.state |-> IF q < r THEN k.state[q] ELSE "done"]
              l == [k EXCEPT !.state = new]
  <2>1. call' = [call EXCEPT ![c] = l] /\ UNCHANGED <<process, threads, labelId, guard, gil, harm>>
    BY <1>3 DEF RejectRow
  <2>2. k \in Calls /\ k.state \in Seq(Working \cup {"waiting", "done"})
    BY RowsHaveStates DEF Calls
  <2>3. /\ new \in Seq(Working \cup {"waiting", "done"}) /\ Len(new) = Len(k.state)
        /\ \A q \in DOMAIN k.state : new[q] = "done" \/ new[q] = k.state[q]
    BY <2>2
  <2>. HIDE DEF k, new
  <2>4. l \in Calls /\ l.op = k.op /\ l.rows = k.rows /\ l.node = k.node /\ l.threads = k.threads
        /\ l.alone = k.alone /\ l.state = new
    BY <2>2, <2>3 DEF Calls
  <2>. HIDE DEF l
  <2>5. call'[c] = l /\ call' \in [Callers -> Calls] /\ \A d \in Callers : d # c => call'[d] = call[d]
    BY <2>1, <2>4 DEF ShapeInv
  <2>6. \A d \in Callers : /\ call'[d].op = call[d].op /\ call'[d].rows = call[d].rows
                           /\ call'[d].node = call[d].node /\ call'[d].threads = call[d].threads
                           /\ call'[d].alone = call[d].alone
                           /\ Len(call'[d].state) = Len(call[d].state)
    BY <2>3, <2>4, <2>5 DEF k
  <2>7. \A q \in DOMAIN call[c].rows : call[c].state[q] \notin Working
    BY <1>1, <1>3, TurnOfOne
  <2>8. \A q \in DOMAIN call[c].rows : call'[c].state[q] \notin Working /\ guard # <<c, q>>
    <3>. SUFFICES ASSUME NEW q \in DOMAIN call[c].rows PROVE call'[c].state[q] \notin Working /\ guard # <<c, q>>
      OBVIOUS
    <3>1. call'[c].state[q] = "done" \/ call'[c].state[q] = call[c].state[q]
      BY <2>3, <2>4, <2>5, RowsHaveStates DEF k
    <3>2. guard # <<c, q>>
      BY <2>7 DEF RowInv, Working
    <3>. QED BY <2>7, <3>1, <3>2 DEF Working
  <2>9. ShapeInv'
    BY <1>1, <2>1, <2>5 DEF ShapeInv
  <2>10. CallInv'
    BY <1>1, <2>6, CallKept
  <2>11. RowInv'
    <3>1. \A d \in Callers, q \in Nat : guard' = <<d, q>> => q \in DOMAIN call'[d].rows
      BY <2>1, <2>6 DEF RowInv
    <3>2. \A q \in DOMAIN call'[c].rows : /\ call'[c].state[q] # "stored" /\ call'[c].state[q] # "counted"
                                          /\ guard' # <<c, q>>
      BY <2>1, <2>6, <2>8 DEF Working
    <3>. QED BY <1>1, <2>1, <2>5, <3>1, <3>2 DEF RowInv
  <2>12. AloneInv'
    <3>. SUFFICES ASSUME NEW d \in Callers, call[d].op = "add"
                  PROVE  /\ call[d].threads = 1 =>
                                \A q, o \in DOMAIN call[d].rows :
                                    call'[d].state[q] \in Working /\ call'[d].state[o] \in Working => q = o
                         /\ call[d].alone => \A e \in Callers : call[e].op = "add" => e = d
                         /\ call[d].threads = 1 /\ call[d].alone =>
                                \A q \in DOMAIN call[d].rows : call'[d].state[q] = "checked" => index.count < Capacity
      BY <1>1, <2>6 DEF AloneInv
    <3>1. CASE d = c
      BY <2>8, <3>1 DEF AloneInv, Working
    <3>2. CASE d # c
      BY <2>5, <3>2 DEF AloneInv
    <3>. QED BY <3>1, <3>2
  <2>13. SaveInv'
    BY <1>1, <2>1, <2>6, IndexParts, PlacesAreNumbers, AddKeepsSave
  <2>14. FileInv' /\ IndexInv'
    BY <1>1, FileKept, IndexKept
  <2>. QED BY <2>9, <2>10, <2>11, <2>12, <2>13, <2>14
<1>. QED BY <1>2, <1>3

\* The row of a call as the add was given it.
LEMMA RowsWereGiven ==
    ASSUME IInv, NEW c \in Callers, NEW r \in DOMAIN call[c].rows
    PROVE  /\ call[c].rows[r].vec \in Nat /\ call[c].rows[r].label \in Nat
           /\ [vec |-> call[c].rows[r].vec, label |-> call[c].rows[r].label] \in given
<1>1. call[c].rows \in Seq([vec : Nat, label : Nat]) /\ r \in 1 .. Len(call[c].rows)
  BY RowsHaveStates DEF Calls
<1>2. call[c].rows[r] \in [vec : Nat, label : Nat]
  BY <1>1, EntriesOfSequence
<1>3. call[c].rows[r] \in given
  BY DEF IInv, CallInv
<1>. DEFINE row == call[c].rows[r]
<1>. HIDE DEF row
<1>4. row \in [vec : Nat, label : Nat] /\ row \in given
  BY <1>2, <1>3 DEF row
<1>5. row.vec \in Nat /\ row.label \in Nat /\ [vec |-> row.vec, label |-> row.label] \in given
  <2>1. row = [vec |-> row.vec, label |-> row.label]
    BY <1>4
  <2>. QED BY <1>4, <2>1
<1>. QED BY <1>5 DEF row

\* The place after the last node is filled before it counts.
LEMMA StoreNodeKeeps ==
    ASSUME IInv, NEW c \in Callers, NEW r \in DOMAIN call[c].rows, StoreNode(c, r)
    PROVE  IInv'
<1>. USE DEF IInv
<1>. DEFINE n == index.count
            v == call[c].rows[r].vec
            b == call[c].rows[r].label
<1>1. /\ process = "up" /\ call[c].op = "add" /\ call[c].state[r] = "checked" /\ guard = <<>>
      /\ UNCHANGED <<threads, labelId, gil, file, saved, given>>
  BY DEF StoreNode
<1>2. /\ n \in 0 .. Capacity /\ index.nodes \in [Places -> NodeContents] /\ index \in Indexes
      /\ index.type \in Types /\ index.loose \in BOOLEAN
      /\ \A p \in 0 .. n - 1 : p \in Places /\ IsGiven(index.nodes[p], index.type)
      /\ index.loose \/ \A p \in 0 .. n - 1, s \in Slots : index.nodes[p].links[s] \in 0 .. n - 1
      /\ n \in Nat
  BY IndexParts, PlacesAreNumbers DEF ShapeInv
<1>3. CASE ~(n < Capacity)
  <2>1. process' = "corrupt" /\ harm' = harm \cup {"overrun"} /\ UNCHANGED <<index, guard, call>>
    BY <1>3 DEF StoreNode
  <2>2. /\ threads' \in 1 .. HardwareThreads /\ labelId' \in Nat /\ given' \in SUBSET Pairs /\ IsFiniteSet(given')
        /\ harm' \in SUBSET {"overrun", "terminated", "garbage"}
    BY <1>1, <2>1 DEF ShapeInv
  <2>. QED BY <1>1, <2>1, <2>2, SmallStep
<1>4. CASE n < Capacity
  <2>1. /\ index' = [index EXCEPT !.nodes[n] = NewNode(v, b, n)]
        /\ guard' = <<c, r>> /\ call' = [call EXCEPT ![c].state[r] = "stored", ![c].node[r] = n]
        /\ UNCHANGED <<process, harm>>
    BY <1>4 DEF StoreNode, Stored
  <2>. DEFINE k == call[c]
              states == [k.state EXCEPT ![r] = "stored"]
              nodes == [k.node EXCEPT ![r] = n]
              l == [k EXCEPT !.state = states, !.node = nodes]
  <2>2. call' = [call EXCEPT ![c] = l]
    BY <2>1
  <2>3. k \in Calls /\ k.state \in Seq(Working \cup {"waiting", "done"}) /\ k.node \in Seq(Nat)
        /\ r \in DOMAIN k.state /\ r \in DOMAIN k.node
    BY RowsHaveStates DEF Calls
  <2>4. /\ states \in Seq(Working \cup {"waiting", "done"}) /\ Len(states) = Len(k.state) /\ states[r] = "stored"
        /\ \A q \in DOMAIN k.state : q # r => states[q] = k.state[q]
    BY <2>3 DEF Working
  <2>5. /\ nodes \in Seq(Nat) /\ Len(nodes) = Len(k.node) /\ nodes[r] = n
        /\ \A q \in DOMAIN k.node : q # r => nodes[q] = k.node[q]
    BY <1>2, <2>3
  <2>. HIDE DEF k, states, nodes
  <2>6. l \in Calls /\ l.op = k.op /\ l.rows = k.rows /\ l.node = nodes /\ l.threads = k.threads
        /\ l.alone = k.alone /\ l.state = states
    BY <2>3, <2>4, <2>5 DEF Calls
  <2>. HIDE DEF l
  <2>7. call'[c] = l /\ call' \in [Callers -> Calls] /\ \A d \in Callers : d # c => call'[d] = call[d]
    BY <2>2, <2>6 DEF ShapeInv
  <2>8. \A d \in Callers : /\ call'[d].op = call[d].op /\ call'[d].rows = call[d].rows
                           /\ call'[d].threads = call[d].threads
                           /\ call'[d].alone = call[d].alone
                           /\ Len(call'[d].state) = Len(call[d].state) /\ Len(call'[d].node) = Len(call[d].node)
    BY <2>4, <2>5, <2>6, <2>7 DEF k
  <2>9. call'[c].state[r] = "stored" /\ call'[c].node[r] = n
    BY <2>4, <2>5, <2>6, <2>7
  <2>10. \A d \in Callers : \A q \in DOMAIN call[d].rows :
            d # c \/ q # r => call'[d].state[q] = call[d].state[q] /\ call'[d].node[q] = call[d].node[q]
    BY <2>4, <2>5, <2>6, <2>7, RowsHaveStates DEF k
  <2>11. NewNode(v, b, n) \in NodeContents /\ n \in Places
    <3>1. n \in Places
      BY <1>2, <1>4, PlacesAreNumbers
    <3>2. v \in Nat /\ b \in Nat
      BY RowsWereGiven
    <3>. HIDE DEF v, b, n
    <3>. QED BY <3>1, <3>2 DEF NewNode, NodeContents, SelfLinks
  <2>. DEFINE Q == [index.nodes EXCEPT ![n] = NewNode(v, b, n)]
  <2>12. /\ index'.nodes = Q /\ index'.count = n /\ index'.type = index.type /\ index'.loose = index.loose
         /\ index' \in [type : Types, count : 0 .. Capacity, nodes : [Places -> NodeContents], loose : BOOLEAN]
    <3>1. Q \in [Places -> NodeContents]
      BY <1>2, <2>11
    <3>2. index' = [index EXCEPT !.nodes = Q]
      BY <2>1
    <3>. HIDE DEF Q
    <3>. QED BY <1>2, <3>1, <3>2 DEF Indexes
  <2>13. Q[n] = NewNode(v, b, n) /\ \A p \in 0 .. n - 1 : Q[p] = index.nodes[p]
    BY <1>2, <2>11, PlacesAreNumbers
  <2>. HIDE DEF Q
  <2>14. index' \in Indexes /\ IndexInv'
    <3>1. \A p \in 0 .. index'.count - 1 : IsGiven(index.nodes[p], index.type)'
      BY <1>1, <1>2, <2>12, <2>13 DEF IsGiven
    <3>2. index'.loose \/ \A p \in 0 .. index'.count - 1, s \in Slots :
                              index'.nodes[p].links[s] \in 0 .. index'.count - 1
      BY <1>2, <2>12, <2>13
    <3>. QED BY <2>12, <3>1, <3>2, IndexFits
  <2>15. ShapeInv'
    <3>1. guard' \in {<<>>} \cup (Callers \X Nat)
      BY <2>1, RowsHaveStates
    <3>. QED BY <1>1, <2>1, <2>7, <2>14, <3>1 DEF ShapeInv
  <2>16. CallInv'
    BY <1>1, <2>8, CallKept
  <2>17. RowInv'
    <3>1. \A d \in Callers, q \in Nat : guard' = <<d, q>> => q \in DOMAIN call'[d].rows
      BY <2>1, <2>8
    <3>2. ASSUME NEW d \in Callers, NEW q \in DOMAIN call'[d].rows
          PROVE  /\ (call'[d].state[q] = "stored") = (guard' = <<d, q>>)
                 /\ call'[d].state[q] = "stored" =>
                        /\ index'.count < Capacity
                        /\ call'[d].node[q] = index'.count
                        /\ HoldsRow(index'.nodes[index'.count], call'[d].rows[q], index'.count, index'.loose)
                 /\ call'[d].state[q] = "counted" => call'[d].node[q] < index'.count
      <4>1. CASE d = c /\ q = r
        <5>1. call'[d].rows[q].vec = v /\ call'[d].rows[q].label = b
          BY <2>8, <4>1
        <5>2. Q[n].vec = v /\ Q[n].label = b /\ Q[n].links = SelfLinks(n)
          BY <2>13 DEF NewNode
        <5>3. HoldsRow(Q[n], call'[d].rows[q], n, index'.loose)
          BY <5>1, <5>2 DEF HoldsRow
        <5>. QED BY <1>4, <2>1, <2>9, <2>12, <4>1, <5>3
      <4>2. CASE d # c \/ q # r
        <5>0. q \in DOMAIN call[d].rows
          BY <2>8
        <5>1. call[d].state[q] # "stored" /\ (call[d].state[q] = "counted" => call[d].node[q] < n)
          BY <1>1, <5>0 DEF RowInv
        <5>2. call'[d].state[q] = call[d].state[q] /\ call'[d].node[q] = call[d].node[q]
          BY <2>10, <4>2, <5>0
        <5>3. guard' # <<d, q>>
          BY <2>1, <4>2
        <5>. QED BY <2>12, <5>1, <5>2, <5>3
      <4>. QED BY <4>1, <4>2
    <3>. QED BY <3>1, <3>2 DEF RowInv
  <2>18. AloneInv'
    <3>. SUFFICES ASSUME NEW d \in Callers, call[d].op = "add"
                  PROVE  /\ call[d].threads = 1 =>
                                \A q, o \in DOMAIN call[d].rows :
                                    call'[d].state[q] \in Working /\ call'[d].state[o] \in Working => q = o
                         /\ call[d].alone => \A e \in Callers : call[e].op = "add" => e = d
                         /\ call[d].threads = 1 /\ call[d].alone =>
                                \A q \in DOMAIN call[d].rows : call'[d].state[q] = "checked" => index'.count < Capacity
      BY <2>8 DEF AloneInv
    <3>1. \A q \in DOMAIN call[d].rows : call'[d].state[q] \in Working <=> call[d].state[q] \in Working
      BY <1>1, <2>9, <2>10 DEF Working
    <3>. QED BY <1>4, <2>12, <3>1 DEF AloneInv
  <2>19. SaveInv'
    <3>1. index'.type = index.type /\ index'.count \in Nat /\ index.count <= index'.count
      BY <1>2, <2>12
    <3>2. process' = "up" /\ UNCHANGED <<gil, file>> /\ given \subseteq given'
      BY <1>1, <2>1
    <3>3. \A d \in Callers : call[d].op = "save" => call'[d].op = "save"
      BY <2>8
    <3>. QED BY <1>1, <3>1, <3>2, <3>3, AddKeepsSave
  <2>20. FileInv'
    BY <1>1, FileKept
  <2>. QED BY <2>14, <2>15, <2>16, <2>17, <2>18, <2>19, <2>20
<1>. QED BY <1>3, <1>4

\* The node that starts to count was filled by the row that holds the mutex.
LEMMA CountNodeKeeps ==
    ASSUME IInv, NEW c \in Callers, NEW r \in DOMAIN call[c].rows, CountNode(c, r)
    PROVE  IInv'
<1>. USE DEF IInv
<1>. DEFINE n == index.count
            s1 == IF call[c].node[r] = 0 THEN "done" ELSE "counted"
<1>1. /\ process = "up" /\ call[c].op = "add" /\ call[c].state[r] = "stored"
      /\ index' = [index EXCEPT !.count = @ + 1] /\ guard' = <<>> /\ Row(c, r, s1)
      /\ UNCHANGED <<process, threads, labelId, gil, file, saved, given, harm>>
  BY DEF CountNode
<1>2. /\ n \in 0 .. Capacity /\ index.nodes \in [Places -> NodeContents] /\ index \in Indexes
      /\ index.type \in Types /\ index.loose \in BOOLEAN
      /\ \A p \in 0 .. n - 1 : p \in Places /\ IsGiven(index.nodes[p], index.type)
      /\ index.loose \/ \A p \in 0 .. n - 1, s \in Slots : index.nodes[p].links[s] \in 0 .. n - 1
      /\ n \in Nat
  BY IndexParts, PlacesAreNumbers DEF ShapeInv
<1>3. /\ n < Capacity /\ call[c].node[r] = n /\ guard = <<c, r>>
      /\ HoldsRow(index.nodes[n], call[c].rows[r], n, index.loose)
  BY <1>1 DEF RowInv
<1>4. call \in [Callers -> Calls] /\ r \in DOMAIN call[c].state /\ s1 \in Working \cup {"waiting", "done"}
  BY RowsHaveStates DEF ShapeInv, Working
<1>. HIDE DEF s1
<1>5. /\ call' \in [Callers -> Calls]
      /\ \A d \in Callers : /\ call'[d].op = call[d].op /\ call'[d].rows = call[d].rows
                            /\ call'[d].node = call[d].node /\ call'[d].threads = call[d].threads
                            /\ call'[d].alone = call[d].alone
                            /\ Len(call'[d].state) = Len(call[d].state)
      /\ call'[c].state[r] = s1
      /\ \A q \in DOMAIN call[c].state : q # r => call'[c].state[q] = call[c].state[q]
      /\ \A d \in Callers : d # c => call'[d] = call[d]
  BY <1>1, <1>4, RowMoves
<1>6. \A d \in Callers : \A q \in DOMAIN call[d].rows :
          d # c \/ q # r => call'[d].state[q] = call[d].state[q]
  BY <1>5, RowsHaveStates
<1>7. /\ index'.nodes = index.nodes /\ index'.count = n + 1 /\ index'.type = index.type /\ index'.loose = index.loose
      /\ index' \in [type : Types, count : 0 .. Capacity, nodes : [Places -> NodeContents], loose : BOOLEAN]
  <2>1. n + 1 \in 0 .. Capacity
    <3>1. n \in Nat /\ n < Capacity /\ Capacity \in Nat
      BY <1>2, <1>3, PlacesAreNumbers
    <3>. HIDE DEF n
    <3>. QED BY <3>1
  <2>2. index' = [index EXCEPT !.count = n + 1]
    BY <1>1
  <2>. HIDE DEF n
  <2>. QED BY <1>2, <2>1, <2>2 DEF Indexes
<1>8. index.nodes[n].vec \in Nat /\ (index.loose \/ index.nodes[n].links = [s \in Slots |-> n])
      /\ [vec |-> index.nodes[n].vec, label |-> index.nodes[n].label] \in given
  BY <1>3, RowsWereGiven DEF HoldsRow, SelfLinks
<1>9. index' \in Indexes /\ IndexInv'
  <2>1. \A p \in 0 .. index'.count - 1 : IsGiven(index.nodes[p], index.type)'
    <3>. SUFFICES ASSUME NEW p \in 0 .. index'.count - 1 PROVE IsGiven(index.nodes[p], index.type)'
      BY Zenon
    <3>1. p \in 0 .. n - 1 \/ p = n
      BY <1>2, <1>7
    <3>2. CASE p = n
      BY <1>1, <1>7, <1>8, <3>2 DEF IsGiven, Scrambled
    <3>3. CASE p \in 0 .. n - 1
      BY <1>1, <1>2, <1>7, <3>3 DEF IsGiven
    <3>. QED BY <3>1, <3>2, <3>3
  <2>2. index'.loose \/ \A p \in 0 .. index'.count - 1, s \in Slots :
                            index'.nodes[p].links[s] \in 0 .. index'.count - 1
    <3>. SUFFICES ASSUME ~index'.loose, NEW p \in 0 .. index'.count - 1, NEW s \in Slots
                  PROVE  index'.nodes[p].links[s] \in 0 .. index'.count - 1
      BY Zenon
    <3>1. p \in 0 .. n - 1 \/ p = n
      BY <1>2, <1>7
    <3>2. index.nodes[p].links[s] \in 0 .. n
      BY <1>2, <1>7, <1>8, <3>1
    <3>. QED BY <1>2, <1>7, <3>2
  <2>. QED BY <1>7, <2>1, <2>2, IndexFits
<1>10. ShapeInv'
  BY <1>1, <1>5, <1>9 DEF ShapeInv
<1>11. CallInv'
  BY <1>1, <1>5, CallKept
<1>12. RowInv'
  <2>1. ASSUME NEW d \in Callers, NEW q \in DOMAIN call'[d].rows
        PROVE  /\ call'[d].state[q] # "stored"
               /\ call'[d].state[q] = "counted" => call'[d].node[q] < index'.count
    <3>1. CASE d = c /\ q = r
      BY <1>2, <1>3, <1>5, <1>7, <3>1 DEF s1
    <3>2. CASE d # c \/ q # r
      <4>1. q \in DOMAIN call[d].rows /\ call[d].node[q] \in Nat
        BY <1>5, RowsHaveStates
      <4>2. call[d].state[q] # "stored" /\ (call[d].state[q] = "counted" => call[d].node[q] < n)
        BY <1>3, <3>2, <4>1 DEF RowInv
      <4>. QED BY <1>2, <1>5, <1>6, <1>7, <3>2, <4>1, <4>2
    <3>. QED BY <3>1, <3>2
  <2>2. \A d \in Callers, q \in Nat : guard' # <<d, q>>
    BY <1>1
  <2>. QED BY <1>5, <2>1, <2>2, RowsHaveStates DEF RowInv
<1>13. AloneInv'
  <2>. SUFFICES ASSUME NEW d \in Callers, call[d].op = "add"
                PROVE  /\ call[d].threads = 1 =>
                              \A q, o \in DOMAIN call[d].rows :
                                  call'[d].state[q] \in Working /\ call'[d].state[o] \in Working => q = o
                       /\ call[d].alone => \A e \in Callers : call[e].op = "add" => e = d
                       /\ call[d].threads = 1 /\ call[d].alone =>
                              \A q \in DOMAIN call[d].rows : call'[d].state[q] = "checked" => index'.count < Capacity
    BY <1>5 DEF AloneInv
  <2>1. \A q \in DOMAIN call[d].rows : call'[d].state[q] \in Working => call[d].state[q] \in Working
    BY <1>1, <1>6 DEF Working
  <2>2. ASSUME call[d].threads = 1, call[d].alone, NEW q \in DOMAIN call[d].rows, call'[d].state[q] = "checked"
        PROVE  FALSE
    <3>1. d = c
      BY <1>1, <2>2 DEF AloneInv
    <3>2. q # r
      BY <1>5, <2>2, <3>1 DEF s1
    <3>3. call[c].state[q] = "checked"
      BY <1>6, <2>2, <3>1, <3>2
    <3>. QED BY <1>1, <2>2, <3>1, <3>2, <3>3 DEF AloneInv, Working
  <2>. QED BY <2>1, <2>2 DEF AloneInv
<1>14. SaveInv'
  BY <1>1, <1>2, <1>5, <1>7, AddKeepsSave
<1>15. FileInv'
  BY <1>1, FileKept
<1>. QED BY <1>9, <1>10, <1>11, <1>12, <1>13, <1>14, <1>15

\* The links of a neighbor afterwards are links it had, itself or the new node.
LEMMA BackLinksKnown ==
    ASSUME NEW links \in [Slots -> Places \cup {-1}], NEW p \in Places, NEW m \in Places,
           NEW back \in BackLinked(links, p, m)
    PROVE  /\ back \in [Slots -> Places \cup {-1}]
           /\ \A s \in Slots : back[s] \in {p, m} \/ \E q \in Slots : back[s] = links[q]
<1>1. CASE \E s \in Slots : links[s] = p
  <2>1. PICK t : back = [links EXCEPT ![t] = m]
    BY <1>1 DEF BackLinked
  <2>. QED BY <2>1
<1>2. CASE ~ \E s \in Slots : links[s] = p
  <2>1. back \in [Slots -> ToSet(links) \cup {p, m}]
    BY <1>2 DEF BackLinked
  <2>2. ToSet(links) = {links[q] : q \in Slots}
    <3>1. DOMAIN links = Slots
      OBVIOUS
    <3>. QED BY <3>1 DEF ToSet
  <2>3. \A s \in Slots : back[s] \in ToSet(links) \/ back[s] \in {p, m}
    BY <2>1
  <2>4. \A s \in Slots : back[s] \in {p, m} \/ \E q \in Slots : back[s] = links[q]
    BY <2>2, <2>3
  <2>5. \A s \in Slots : back[s] \in Places \cup {-1}
    BY <2>4
  <2>6. back = [s \in Slots |-> back[s]]
    BY <2>1
  <2>. QED BY <2>4, <2>5, <2>6
<1>. QED BY <1>1, <1>2

\* Links are made between nodes that count, but in a graph read from a file.
LEMMA LinkNodeKeeps ==
    ASSUME IInv, NEW c \in Callers, NEW r \in DOMAIN call[c].rows, LinkNode(c, r)
    PROVE  IInv'
<1>a. CASE Astray /\ UNCHANGED <<index, call>>
  <2>1. process = "up" /\ UNCHANGED <<threads, labelId, guard, gil, file, saved, given>>
    BY DEF LinkNode
  <2>. QED BY <1>a, <2>1, AstrayKeeps
<1>b. SUFFICES ASSUME ~(Astray /\ UNCHANGED <<index, call>>) PROVE IInv'
  BY <1>a
<1>. USE DEF IInv
<1>. DEFINE n == index.count
            N == index.nodes
            m == call[c].node[r]
<1>1. /\ process = "up" /\ call[c].op = "add" /\ call[c].state[r] = "counted" /\ Row(c, r, "done")
      /\ UNCHANGED <<process, threads, labelId, guard, gil, file, saved, given, harm>>
  BY <1>b DEF LinkNode
<1>2a. PICK p \in Reached(index) :
           /\ p # m
           /\ \E back \in BackLinked(N[p].links, p, m) :
                  index' = [index EXCEPT !.nodes[m].links[1] = p, !.nodes[p].links = back]
  BY <1>b DEF LinkNode
<1>2b. PICK back \in BackLinked(N[p].links, p, m) :
           index' = [index EXCEPT !.nodes[m].links[1] = p, !.nodes[p].links = back]
  BY <1>2a
<1>2. p # m /\ index' = [index EXCEPT !.nodes[m].links[1] = p, !.nodes[p].links = back]
  BY <1>2a, <1>2b
<1>3. /\ n \in 0 .. Capacity /\ N \in [Places -> NodeContents] /\ index \in Indexes
      /\ index.type \in Types /\ index.loose \in BOOLEAN
      /\ \A o \in 0 .. n - 1 : o \in Places /\ IsGiven(N[o], index.type)
      /\ index.loose \/ \A o \in 0 .. n - 1, s \in Slots : N[o].links[s] \in 0 .. n - 1
      /\ n \in Nat
  BY IndexParts, PlacesAreNumbers DEF ShapeInv
<1>4. m \in 0 .. n - 1 /\ m \in Places /\ p \in Places /\ n # 0
  <2>1. m \in Nat /\ m < n
    BY <1>1, RowsHaveStates DEF RowInv
  <2>2. m \in 0 .. n - 1
    <3>. HIDE DEF m, n
    <3>. QED BY <1>3, <2>1
  <2>3. p \in Places
    BY DEF Reached
  <2>4. n # 0
    <3>. HIDE DEF m, n
    <3>. QED BY <1>3, <2>1
  <2>. QED BY <1>3, <2>2, <2>3, <2>4
<1>4a. index.loose \/ p \in 0 .. n - 1
  BY <1>4, ReachedCounts
<1>5. call \in [Callers -> Calls] /\ r \in DOMAIN call[c].state
  BY RowsHaveStates DEF ShapeInv
<1>6. /\ call' \in [Callers -> Calls]
      /\ \A d \in Callers : /\ call'[d].op = call[d].op /\ call'[d].rows = call[d].rows
                            /\ call'[d].node = call[d].node /\ call'[d].threads = call[d].threads
                            /\ call'[d].alone = call[d].alone
                            /\ Len(call'[d].state) = Len(call[d].state)
      /\ call'[c].state[r] = "done"
      /\ \A q \in DOMAIN call[c].state : q # r => call'[c].state[q] = call[c].state[q]
      /\ \A d \in Callers : d # c => call'[d] = call[d]
  BY <1>1, <1>5, RowMoves
<1>7. \A d \in Callers : \A q \in DOMAIN call[d].rows :
          d # c \/ q # r => call'[d].state[q] = call[d].state[q]
  BY <1>6, RowsHaveStates
<1>8. N[m] \in NodeContents /\ N[p] \in NodeContents /\ N[m].links \in [Slots -> Places \cup {-1}]
      /\ N[p].links \in [Slots -> Places \cup {-1}]
  BY <1>3, <1>4 DEF NodeContents
<1>9. /\ back \in [Slots -> Places \cup {-1}]
      /\ \A s \in Slots : back[s] \in {p, m} \/ \E q \in Slots : back[s] = N[p].links[q]
  <2>. DEFINE K == N[p].links
  <2>1. back \in BackLinked(K, p, m) /\ K \in [Slots -> Places \cup {-1}] /\ p \in Places /\ m \in Places
    BY <1>2b, <1>4, <1>8
  <2>. HIDE DEF K, m
  <2>2. /\ back \in [Slots -> Places \cup {-1}]
        /\ \A s \in Slots : back[s] \in {p, m} \/ \E q \in Slots : back[s] = K[q]
    BY <2>1, BackLinksKnown
  <2>. QED BY <2>2 DEF K
<1>. DEFINE L == [N[m].links EXCEPT ![1] = p]
            x == [N[m] EXCEPT !.links = L]
            y == [N[p] EXCEPT !.links = back]
            Q == [N EXCEPT ![m] = x, ![p] = y]
<1>10. L \in [Slots -> Places \cup {-1}] /\ \A s \in Slots : L[s] = p \/ L[s] = N[m].links[s]
  BY <1>4, <1>8
<1>11. index' = [index EXCEPT !.nodes = Q]
  BY <1>2, <1>3, <1>4 DEF Indexes
<1>. HIDE DEF L
<1>12. x \in NodeContents /\ x.vec = N[m].vec /\ x.label = N[m].label /\ x.links = L
  BY <1>8, <1>10, Relinked
<1>13. y \in NodeContents /\ y.vec = N[p].vec /\ y.label = N[p].label /\ y.links = back
  BY <1>8, <1>9, Relinked
<1>. HIDE DEF x, y
<1>14. Q[m] = x /\ Q[p] = y /\ Q \in [Places -> NodeContents]
       /\ \A o \in Places : o # m /\ o # p => Q[o] = N[o]
  BY <1>2, <1>3, <1>4, <1>12, <1>13
<1>. HIDE DEF Q
<1>15. /\ index'.nodes = Q /\ index'.count = n /\ index'.type = index.type /\ index'.loose = index.loose
       /\ index' \in [type : Types, count : 0 .. Capacity, nodes : [Places -> NodeContents], loose : BOOLEAN]
  BY <1>3, <1>11, <1>14 DEF Indexes
<1>16. index' \in Indexes /\ IndexInv'
  <2>1. \A o \in 0 .. index'.count - 1 : IsGiven(index.nodes[o], index.type)'
    <3>. SUFFICES ASSUME NEW o \in 0 .. index'.count - 1 PROVE IsGiven(index.nodes[o], index.type)'
      BY Zenon
    <3>1. Q[o].vec = N[o].vec /\ Q[o].label = N[o].label /\ IsGiven(N[o], index.type)
      BY <1>3, <1>12, <1>13, <1>14, <1>15
    <3>. QED BY <1>1, <1>15, <3>1 DEF IsGiven
  <2>2. index'.loose \/ \A o \in 0 .. index'.count - 1, s \in Slots :
                            index'.nodes[o].links[s] \in 0 .. index'.count - 1
    <3>. SUFFICES ASSUME ~index'.loose, NEW o \in 0 .. index'.count - 1, NEW s \in Slots
                  PROVE  index'.nodes[o].links[s] \in 0 .. index'.count - 1
      BY Zenon
    <3>1. /\ o \in 0 .. n - 1 /\ o \in Places /\ p \in 0 .. n - 1
          /\ \A q \in 0 .. n - 1, t \in Slots : N[q].links[t] \in 0 .. n - 1
      BY <1>3, <1>4a, <1>15
    <3>2. Q[o].links[s] \in 0 .. n - 1
      <4>1. CASE o = m
        <5>1. Q[o].links[s] = p \/ Q[o].links[s] = N[m].links[s]
          BY <1>10, <1>12, <1>14, <4>1
        <5>. QED BY <1>4, <1>15, <3>1, <5>1
      <4>2. CASE o = p
        <5>1. Q[o].links[s] \in {p, m} \/ \E q \in Slots : Q[o].links[s] = N[p].links[q]
          BY <1>9, <1>13, <1>14, <4>2
        <5>. QED BY <1>4, <1>15, <3>1, <5>1
      <4>3. CASE o # m /\ o # p
        BY <1>14, <3>1, <4>3
      <4>. QED BY <4>1, <4>2, <4>3
    <3>. QED BY <1>15, <3>2
  <2>. QED BY <1>15, <2>1, <2>2, IndexFits
<1>17. ShapeInv'
  BY <1>1, <1>6, <1>16 DEF ShapeInv
<1>18. CallInv'
  BY <1>1, <1>6, CallKept
<1>19. RowInv'
  <2>1. guard # <<c, r>>
    BY <1>1 DEF RowInv
  <2>2. \A d \in Callers, q \in Nat : guard' = <<d, q>> => q \in DOMAIN call'[d].rows
    BY <1>1, <1>6 DEF RowInv
  <2>3. ASSUME NEW d \in Callers, NEW q \in DOMAIN call'[d].rows
        PROVE  /\ (call'[d].state[q] = "stored") = (guard' = <<d, q>>)
               /\ call'[d].state[q] = "stored" =>
                      /\ index'.count < Capacity
                      /\ call'[d].node[q] = index'.count
                      /\ HoldsRow(index'.nodes[index'.count], call'[d].rows[q], index'.count, index'.loose)
               /\ call'[d].state[q] = "counted" => call'[d].node[q] < index'.count
    <3>1. CASE d = c /\ q = r
      BY <1>1, <1>6, <2>1, <3>1
    <3>2. CASE d # c \/ q # r
      <4>1. q \in DOMAIN call[d].rows /\ call'[d].state[q] = call[d].state[q] /\ call'[d].node = call[d].node
            /\ call'[d].rows = call[d].rows
        BY <1>6, <1>7, <3>2
      <4>2. n < Capacity => Q[n].vec = N[n].vec /\ Q[n].label = N[n].label /\ (index.loose \/ Q[n].links = N[n].links)
        <5>1. n < Capacity => n \in Places /\ n # m /\ (index.loose \/ n # p)
          BY <1>3, <1>4, <1>4a, PlacesAreNumbers
        <5>2. CASE n = p
          BY <1>13, <1>14, <5>1, <5>2
        <5>3. CASE n # p
          BY <1>14, <5>1, <5>3
        <5>. QED BY <5>2, <5>3
      <4>3. /\ (call[d].state[q] = "stored") = (guard = <<d, q>>)
            /\ call[d].state[q] = "stored" =>
                   /\ n < Capacity
                   /\ call[d].node[q] = n
                   /\ HoldsRow(N[n], call[d].rows[q], n, index.loose)
            /\ call[d].state[q] = "counted" => call[d].node[q] < n
        BY <4>1 DEF RowInv
      <4>4. n < Capacity /\ HoldsRow(N[n], call[d].rows[q], n, index.loose) => HoldsRow(Q[n], call[d].rows[q], n, index.loose)
        BY <4>2 DEF HoldsRow
      <4>. QED BY <1>1, <1>15, <4>1, <4>3, <4>4
    <3>. QED BY <3>1, <3>2
  <2>. QED BY <2>2, <2>3 DEF RowInv
<1>20. AloneInv'
  <2>. SUFFICES ASSUME NEW d \in Callers, call[d].op = "add"
                PROVE  /\ call[d].threads = 1 =>
                              \A q, o \in DOMAIN call[d].rows :
                                  call'[d].state[q] \in Working /\ call'[d].state[o] \in Working => q = o
                       /\ call[d].alone => \A e \in Callers : call[e].op = "add" => e = d
                       /\ call[d].threads = 1 /\ call[d].alone =>
                              \A q \in DOMAIN call[d].rows : call'[d].state[q] = "checked" => index'.count < Capacity
    BY <1>6 DEF AloneInv
  <2>1. \A q \in DOMAIN call[d].rows : call'[d].state[q] \in Working => call'[d].state[q] = call[d].state[q]
    BY <1>6, <1>7 DEF Working
  <2>. QED BY <1>15, <2>1 DEF AloneInv, Working
<1>21. SaveInv'
  BY <1>1, <1>3, <1>6, <1>15, AddKeepsSave
<1>22. FileInv'
  BY <1>1, FileKept
<1>. QED BY <1>16, <1>17, <1>18, <1>19, <1>20, <1>21, <1>22

\* An add that ends has no row at work.
LEMMA EndAddKeeps ==
    ASSUME IInv, NEW c \in Callers, EndAdd(c)
    PROVE  IInv'
<1>. USE DEF IInv
<1>1. /\ process = "up" /\ gil = Nobody /\ call' = [call EXCEPT ![c] = NoCall]
      /\ \A r \in DOMAIN call[c].rows : call[c].state[r] = "done"
      /\ UNCHANGED <<process, index, threads, labelId, guard, gil, file, saved, given, harm>>
  BY DEF EndAdd
<1>2. \A r \in Nat : guard # <<c, r>>
  BY <1>1 DEF RowInv
<1>3. call' \in [Callers -> Calls] /\ CallInv' /\ RowInv' /\ AloneInv'
  BY <1>1, <1>2, NoCallFits, CallReplaced
<1>4. ShapeInv'
  BY <1>1, <1>3 DEF ShapeInv
<1>5. SaveInv'
  BY <1>1 DEF SaveInv
<1>6. FileInv' /\ IndexInv'
  BY <1>1, FileKept, IndexKept
<1>. QED BY <1>3, <1>4, <1>5, <1>6

\* A function on the first numbers is a sequence.
LEMMA NumberedIsSeq ==
    ASSUME NEW S, NEW j \in Nat, NEW f \in [1 .. j -> S]
    PROVE  f \in Seq(S) /\ Len(f) = j /\ DOMAIN f = 1 .. j
OBVIOUS

\* Rows are given when an add begins, and an add that was alone no longer is.
LEMMA AddKeeps ==
    ASSUME IInv, NEW c \in Callers, NEW b \in Batches, Add(c, b)
    PROVE  IInv'
<1>. USE DEF IInv
<1>. DEFINE n == b.rows
            rows == [r \in 1 .. n |-> [vec |-> Fresh(n)[r],
                                       label |-> IF b.labelled THEN Fresh(n)[r] + 10 ELSE r - 1]]
            states == [r \in 1 .. n |-> "waiting"]
            nodes == [r \in 1 .. n |-> 0]
            k == [op |-> "add", rows |-> rows, threads |-> threads, alone |-> ~Busy("add"),
                  state |-> states, node |-> nodes]
<1>1. /\ process = "up" /\ gil = Nobody /\ call[c].op = "none"
      /\ given' = given \cup ToSet(rows)
      /\ call' = [d \in Callers |-> IF d = c THEN k ELSE [call[d] EXCEPT !.alone = FALSE]]
      /\ UNCHANGED <<process, index, threads, labelId, guard, gil, file, saved, harm>>
  BY DEF Add, Enters, Idle
<1>2. n \in Nat \ {0} /\ b.labelled \in BOOLEAN
  BY PyIndexSizes
<1>3. Cardinality(given) \in Nat /\ IsFiniteSet(given) /\ given \in SUBSET Pairs /\ threads \in 1 .. HardwareThreads
  BY GivenIsFinite DEF ShapeInv
<1>4. \A r \in 1 .. n : rows[r] \in [vec : Nat, label : Nat]
  <2>1. \A r \in 1 .. n : Fresh(n)[r] \in Nat /\ Fresh(n)[r] + 10 \in Nat /\ r - 1 \in Nat
    BY <1>2, <1>3 DEF Fresh
  <2>. QED BY <1>2, <2>1
<1>5. rows \in Seq([vec : Nat, label : Nat]) /\ Len(rows) = n /\ DOMAIN rows = 1 .. n
  <2>1. rows \in [1 .. n -> [vec : Nat, label : Nat]]
    BY <1>4
  <2>2. n \in Nat
    BY <1>2
  <2>. HIDE DEF rows, n
  <2>. QED BY <2>1, <2>2, NumberedIsSeq
<1>6. /\ states \in Seq(Working \cup {"waiting", "done"}) /\ Len(states) = n
      /\ nodes \in Seq(Nat) /\ Len(nodes) = n
  BY <1>2
<1>7. given' = given \cup {rows[r] : r \in 1 .. n}
  BY <1>1, <1>5 DEF ToSet
<1>. HIDE DEF rows
<1>8. given \subseteq given' /\ given' \in SUBSET Pairs /\ IsFiniteSet(given')
  <2>1. \A r \in 1 .. n : rows[r] \in Pairs
    BY <1>4 DEF Pairs
  <2>2. IsFiniteSet({rows[r] : r \in 1 .. n})
    BY <1>2, RowsAreFinite
  <2>. QED BY <1>3, <1>7, <2>1, <2>2, FS_Union
<1>9. k \in Calls
  <2>1. (~Busy("add")) \in BOOLEAN
    BY DEF Busy
  <2>. HIDE DEF states, nodes
  <2>. QED BY <1>3, <1>5, <1>6, <2>1 DEF Calls
<1>10. k.op = "add" /\ k.rows = rows /\ k.alone = ~Busy("add") /\ k.state = states /\ k.node = nodes
  OBVIOUS
<1>. HIDE DEF k
<1>11. /\ call'[c] = k
       /\ \A d \in Callers : d # c => call'[d] = [call[d] EXCEPT !.alone = FALSE]
  BY <1>1
<1>12. ASSUME NEW d \in Callers, d # c
       PROVE  /\ call'[d] \in Calls /\ call'[d].op = call[d].op /\ call'[d].rows = call[d].rows
              /\ call'[d].node = call[d].node /\ call'[d].threads = call[d].threads
              /\ call'[d].alone = FALSE /\ call'[d].state = call[d].state
  <2>1. call[d] \in Calls
    BY DEF ShapeInv
  <2>. QED BY <1>11, <1>12, <2>1 DEF Calls
<1>13. call' \in [Callers -> Calls]
  <2>1. \A d \in Callers : call'[d] \in Calls
    BY <1>9, <1>11, <1>12
  <2>2. call' = [d \in Callers |-> call'[d]]
    BY <1>1
  <2>. QED BY <2>1, <2>2
<1>14. ShapeInv'
  BY <1>1, <1>8, <1>13 DEF ShapeInv
<1>15. CallInv'
  <2>. SUFFICES ASSUME NEW d \in Callers
                PROVE  /\ call'[d].op # "add" => call'[d].rows = <<>>
                       /\ Len(call'[d].state) = Len(call'[d].rows) /\ Len(call'[d].node) = Len(call'[d].rows)
                       /\ \A r \in DOMAIN call'[d].rows : call'[d].rows[r] \in given'
    BY DEF CallInv
  <2>1. CASE d = c
    <3>1. \A r \in 1 .. n : rows[r] \in given'
      BY <1>7
    <3>. QED BY <1>5, <1>6, <1>10, <1>11, <2>1, <3>1
  <2>2. CASE d # c
    BY <1>8, <1>12, <2>2 DEF CallInv
  <2>. QED BY <2>1, <2>2
<1>16. \A r \in Nat : guard # <<c, r>>
  BY <1>1, IdleHoldsNoGuard
<1>17. \A r \in DOMAIN call'[c].rows : call'[c].state[r] = "waiting"
  BY <1>5, <1>10, <1>11
<1>18. RowInv'
  <2>1. \A d \in Callers, q \in Nat : guard' = <<d, q>> => q \in DOMAIN call'[d].rows
    BY <1>1, <1>12, <1>16 DEF RowInv
  <2>2. \A r \in DOMAIN call'[c].rows : guard' # <<c, r>>
    BY <1>1, <1>5, <1>10, <1>11, <1>16
  <2>3. ASSUME NEW d \in Callers, NEW q \in DOMAIN call'[d].rows
        PROVE  /\ (call'[d].state[q] = "stored") = (guard' = <<d, q>>)
               /\ call'[d].state[q] = "stored" =>
                      /\ index'.count < Capacity
                      /\ call'[d].node[q] = index'.count
                      /\ HoldsRow(index'.nodes[index'.count], call'[d].rows[q], index'.count, index'.loose)
               /\ call'[d].state[q] = "counted" => call'[d].node[q] < index'.count
    <3>1. CASE d = c
      BY <1>17, <2>2, <3>1
    <3>2. CASE d # c
      <4>1. call'[d].rows = call[d].rows /\ call'[d].node = call[d].node /\ call'[d].state = call[d].state
        BY <1>12, <3>2
      <4>. QED BY <1>1, <4>1 DEF RowInv
    <3>. QED BY <3>1, <3>2
  <2>. QED BY <2>1, <2>3 DEF RowInv
<1>19. AloneInv'
  <2>. SUFFICES ASSUME NEW d \in Callers, call'[d].op = "add"
                PROVE  /\ call'[d].threads = 1 =>
                              \A q, o \in DOMAIN call'[d].rows :
                                  call'[d].state[q] \in Working /\ call'[d].state[o] \in Working => q = o
                       /\ call'[d].alone => \A e \in Callers : call'[e].op = "add" => e = d
                       /\ call'[d].threads = 1 /\ call'[d].alone =>
                              \A q \in DOMAIN call'[d].rows : call'[d].state[q] = "checked" => index'.count < Capacity
    BY DEF AloneInv
  <2>1. CASE d = c
    <3>1. \A q \in DOMAIN call'[d].rows : call'[d].state[q] \notin Working /\ call'[d].state[q] # "checked"
      BY <1>17, <2>1 DEF Working
    <3>2. call'[d].alone => \A e \in Callers : call'[e].op = "add" => e = d
      <4>. SUFFICES ASSUME call'[d].alone, NEW e \in Callers, e # d PROVE call'[e].op # "add"
        OBVIOUS
      <4>1. k.alone
        BY <1>11, <2>1
      <4>2. ~Busy("add")
        BY <1>10, <4>1, Zenon
      <4>3. call[e].op # "add"
        BY <4>2 DEF Busy
      <4>. QED BY <1>12, <2>1, <4>3
    <3>. QED BY <3>1, <3>2
  <2>2. CASE d # c
    <3>1. /\ call'[d].rows = call[d].rows /\ call'[d].state = call[d].state /\ call[d].op = "add"
          /\ call'[d].threads = call[d].threads /\ call'[d].alone = FALSE
      BY <1>12, <2>2
    <3>. QED BY <3>1 DEF AloneInv
  <2>. QED BY <2>1, <2>2
<1>20. SaveInv'
  BY <1>1 DEF SaveInv
<1>21. FileInv' /\ IndexInv'
  BY <1>1, <1>8, FileKept, IndexKept
<1>. QED BY <1>14, <1>15, <1>18, <1>19, <1>20, <1>21

-----------------------------------------------------------------------------
(* Every step. *)

\* Every call that begins keeps the invariant.
LEMMA BeginKeeps ==
    ASSUME IInv, NEW c \in Callers, Begin(c)
    PROVE  IInv'
<1>1. ASSUME NEW b \in Batches, Add(c, b) PROVE IInv'
  BY <1>1, AddKeeps
<1>2. ASSUME NEW K \in 1 .. 2, Search(c, K) PROVE IInv'
  BY <1>2, SearchKeeps
<1>3. CASE BatchSearch(c) \/ SearchUninitialized(c)
  BY <1>3, BatchKeeps, SearchUninitializedKeeps
<1>4. ASSUME NEW n \in ThreadNumbers, SetNumThreads(c, n) PROVE IInv'
  BY <1>4, SetNumThreadsKeeps
<1>5. CASE Reorder(c)
  BY <1>5, ReorderKeeps
<1>6. ASSUME NEW b \in Batches, AllocateNodes(c, b.rows) PROVE IInv'
  <2>1. b.rows \in Nat \ {0}
    BY PyIndexSizes
  <2>. QED BY <1>6, <2>1, AllocateNodesKeeps
<1>7. ASSUME NEW f \in EdgeFiles, BuildGraphLinks(c, f) PROVE IInv'
  BY <1>7, BuildGraphLinksKeeps
<1>8. CASE Save(c)
  BY <1>8, SaveKeeps
<1>9. CASE Load(c)
  BY <1>9, LoadKeeps
<1>. QED BY <1>1, <1>2, <1>3, <1>4, <1>5, <1>6, <1>7, <1>8, <1>9 DEF Begin

\* Every step of a call under way keeps the invariant.
LEMMA WorkKeeps ==
    ASSUME IInv, NEW c \in Callers, Work(c)
    PROVE  IInv'
<1>1. ASSUME NEW r \in DOMAIN call[c].rows, CheckCapacity(c, r) PROVE IInv'
  BY <1>1, CheckCapacityKeeps
<1>2. ASSUME NEW r \in DOMAIN call[c].rows, RejectRow(c, r) PROVE IInv'
  BY <1>2, RejectRowKeeps
<1>3. ASSUME NEW r \in DOMAIN call[c].rows, StoreNode(c, r) PROVE IInv'
  BY <1>3, StoreNodeKeeps
<1>4. ASSUME NEW r \in DOMAIN call[c].rows, CountNode(c, r) PROVE IInv'
  BY <1>4, CountNodeKeeps
<1>5. ASSUME NEW r \in DOMAIN call[c].rows, LinkNode(c, r) PROVE IInv'
  BY <1>5, LinkNodeKeeps
<1>6. CASE EndAdd(c)
  BY <1>6, EndAddKeeps
<1>7. ASSUME NEW K \in 1 .. 2, StrayBatch(c) \/ EndBatch(c, K) PROVE IInv'
  BY <1>7, BatchKeeps, AstrayKeeps DEF StrayBatch
<1>8. CASE SaveMembers(c)
  BY <1>8, SaveMembersKeeps
<1>9. CASE SaveNode(c)
  BY <1>9, SaveNodeKeeps
<1>10. CASE EndSave(c)
  BY <1>10, EndSaveKeeps
<1>. QED BY <1>1, <1>2, <1>3, <1>4, <1>5, <1>6, <1>7, <1>8, <1>9, <1>10 DEF Work

\* So does a step that changes nothing.
LEMMA StutterKeeps ==
    ASSUME IInv, UNCHANGED vars
    PROVE  IInv'
<1>1. UNCHANGED <<process, index, threads, labelId, guard, gil, call, file, saved, given, harm>>
  BY DEF vars
<1>2. ShapeInv'
  BY <1>1 DEF IInv, ShapeInv
<1>3. CallInv' /\ RowInv' /\ AloneInv'
  BY <1>1 DEF IInv, CallInv, RowInv, AloneInv
<1>4. SaveInv'
  BY <1>1 DEF IInv, SaveInv, IsGiven, Busy, Quiet, Idle
<1>5. FileInv' /\ IndexInv'
  BY <1>1 DEF IInv, FileInv, IndexInv, StoresGivenRows, Contents, Closed
<1>. QED BY <1>2, <1>3, <1>4, <1>5 DEF IInv

\* The invariant is inductive.
LEMMA NextKeeps == IInv /\ [Next]_vars => IInv'
<1>. SUFFICES ASSUME IInv, [Next]_vars PROVE IInv'
  OBVIOUS
<1>1. CASE Crash \/ Restart
  BY <1>1, CrashKeeps
<1>2. ASSUME NEW c \in Callers, Begin(c) \/ Work(c) PROVE IInv'
  BY <1>2, BeginKeeps, WorkKeeps
<1>3. CASE UNCHANGED vars
  BY <1>3, StutterKeeps
<1>. QED BY <1>1, <1>2, <1>3 DEF Next

\* The invariant holds throughout.
LEMMA Inductive == Spec => []IInv
BY InitPyIndex, NextKeeps, PTL DEF Spec

-----------------------------------------------------------------------------
(* The theorems. *)

\* The variables keep their types whatever is called, however calls overlap
\* and wherever the process ends, and a row is between storing and counting
\* its node exactly while it holds _index_data_guard.
THEOREM TypeCorrect == Spec => []TypeOK
<1>1. IInv => TypeOK
  <2>. SUFFICES ASSUME IInv PROVE TypeOK
    OBVIOUS
  <2>1. index.type \in Types /\ index.count \in 0 .. Capacity /\ index.nodes \in Memory
    BY DEF IInv, ShapeInv, Indexes
  <2>2. file.state \in {"none", "empty", "partial", "whole"} /\ file.nodes \in Memory
    BY DEF IInv, ShapeInv, Files
  <2>3. ASSUME NEW c \in Callers, NEW r \in DOMAIN call[c].rows
        PROVE  /\ call[c].state[r] \in Working \cup {"waiting", "done"}
               /\ (call[c].state[r] = "stored") = (guard = <<c, r>>)
    BY RowsHaveStates DEF IInv, RowInv
  <2>. QED BY <2>1, <2>2, <2>3 DEF IInv, ShapeInv, TypeOK
<1>. QED BY <1>1, Inductive, PTL

\* Every node that counts holds a vector and the label it was passed in with,
\* in the index and in every file that was written to its end, for any number
\* of callers, threads and rows, and for a save between the steps of an add.
\* Nodes with the bytes of floats, which allocate_nodes leaves in an index of
\* integers, are exempt; an index of floats is shown to have none.
THEOREM RowsAreGiven == Spec => []StoredRowsWereGiven
<1>1. IInv => StoredRowsWereGiven
  BY DEF IInv, IndexInv, FileInv, StoredRowsWereGiven
<1>. QED BY <1>1, Inductive, PTL

\* Links lead to nodes that count after any sequence of calls, crashes and
\* loads, in the index and in a saved file, but for graphs from a Matrix Market
\* file and files that were saved while an add ran.
THEOREM LinksStayInside == Spec => []GraphIsClosed
<1>1. IInv => GraphIsClosed
  BY DEF IInv, IndexInv, FileInv, GraphIsClosed
<1>. QED BY <1>1, Inductive, PTL

\* A load replaces the index by what it held when the file was saved, or
\* leaves it alone.
THEOREM LoadsRestore == Spec => LoadRestores
<1>1. IInv => \A c \in Callers :
                 Load(c) /\ index' # index /\ ~file.overlapped => Contents(index') = saved
  <2>. SUFFICES ASSUME IInv, NEW c \in Callers, Load(c), index' # index, ~file.overlapped
                PROVE  Contents(index') = saved
    OBVIOUS
  <2>1. file.state = "whole" /\ index' = Loaded
    BY DEF Load
  <2>2. Contents(index') = Contents(file)
    BY <2>1 DEF Contents, Loaded
  <2>. QED BY <2>1, <2>2 DEF IInv, FileInv
<1>. QED BY <1>1, Inductive, PTL DEF LoadRestores

-----------------------------------------------------------------------------
(* Failures. *)

\* The exception of a full index is lost on several threads only.
LEMMA RejectRowConfined ==
    ASSUME IInv, NEW c \in Callers, NEW r \in DOMAIN call[c].rows, RejectRow(c, r)
    PROVE  Confined
<1>1. call[c].op = "add"
  BY DEF RejectRow, Turn
<1>2. call[c].threads \in 1 .. HardwareThreads
  BY RowsHaveStates DEF Calls
<1>3. call[c].threads = 1 \/ call[c].threads > 1
  BY <1>2, PlacesAreNumbers
<1>4. CASE call[c].threads = 1
  <2>1. harm' = harm
    BY <1>4 DEF RejectRow
  <2>. QED BY <2>1 DEF Confined, New
<1>5. CASE call[c].threads > 1
  <2>1. harm' = harm \/ harm' = harm \cup {"terminated"}
    BY DEF RejectRow
  <2>2. index.count >= Capacity /\ index.count \in 0 .. Capacity
    BY IndexParts DEF RejectRow
  <2>3. index.count = Capacity
    BY <2>2, PlacesAreNumbers
  <2>. QED BY <1>1, <1>5, <2>1, <2>3 DEF Confined, New
<1>. QED BY <1>3, <1>4, <1>5

\* A node behind the last place is written by an add that does not work alone.
LEMMA StoreNodeConfined ==
    ASSUME IInv, NEW c \in Callers, NEW r \in DOMAIN call[c].rows, StoreNode(c, r)
    PROVE  Confined
<1>1. call[c].op = "add" /\ call[c].state[r] = "checked"
  BY DEF StoreNode
<1>2. call[c].threads \in 1 .. HardwareThreads
  BY RowsHaveStates DEF Calls
<1>3. CASE index.count < Capacity
  <2>1. harm' = harm
    BY <1>3 DEF StoreNode
  <2>. QED BY <2>1 DEF Confined, New
<1>4. CASE ~(index.count < Capacity)
  <2>1. harm' = harm \cup {"overrun"}
    BY <1>4 DEF StoreNode
  <2>2. call[c].threads # 1 \/ ~call[c].alone
    BY <1>1, <1>4 DEF IInv, AloneInv
  <2>3. call[c].threads > 1 \/ ~call[c].alone
    BY <1>2, <2>2, PlacesAreNumbers
  <2>4. index.count \in 0 .. Capacity
    BY IndexParts
  <2>5. index.count = Capacity
    BY <1>4, <2>4, PlacesAreNumbers
  <2>. QED BY <1>1, <2>1, <2>3, <2>5 DEF Confined, New
<1>. QED BY <1>3, <1>4

\* Links that were never written are in reach of an empty index and of a graph
\* from a file only.
LEMMA AstrayConfined ==
    ASSUME IInv, Astray
    PROVE  Confined
<1>1. index.loose \/ index.count = 0
  BY ReachedCounts DEF Astray
<1>2. harm' = harm \cup {"overrun"}
  BY DEF Astray
<1>. QED BY <1>1, <1>2 DEF Confined, New

\* Results are missing on several threads or where nodes do not count.
LEMMA SearchConfined ==
    ASSUME IInv, NEW c \in Callers, NEW K \in 1 .. 2, Search(c, K)
    PROVE  Confined
<1>a. CASE Astray
  BY <1>a, AstrayConfined
<1>b. CASE ~Astray
  <2>1. PICK found \in Found(K) : harm' = IF Garbage(found, K) THEN harm \cup {"garbage"} ELSE harm
    BY <1>b DEF Search
  <2>2. CASE index.loose \/ index.count = 0
    BY <2>1, <2>2 DEF Confined, New
  <2>3. CASE ~index.loose /\ index.count # 0
    <3>1. index.count \in 0 .. Capacity /\ index.count > 0 /\ Closed(index)
      BY <2>3, IndexParts, PlacesAreNumbers DEF IInv, IndexInv
    <3>2. found \in 1 .. (IF K < index.count THEN K ELSE index.count)
      BY <2>1, <3>1 DEF Found
    <3>3. found # 0
      BY <3>1, <3>2, PlacesAreNumbers
    <3>4. Garbage(found, K) => threads > 1
      BY <3>3 DEF Garbage
    <3>. QED BY <2>1, <3>4 DEF Confined, New
  <2>. QED BY <2>2, <2>3
<1>. QED BY <1>a, <1>b

\* A search without an initialization ends the process on several threads only.
LEMMA SearchUninitializedConfined ==
    ASSUME NEW c \in Callers, SearchUninitialized(c)
    PROVE  Confined
<1>1. harm' = harm \/ (threads > 1 /\ harm' = harm \cup {"terminated"})
  BY DEF SearchUninitialized
<1>. QED BY <1>1 DEF Confined, New

\* A batch search that ends is a call that changes.
LEMMA EndBatchConfined ==
    ASSUME IInv, NEW c \in Callers, NEW K \in 1 .. 2, EndBatch(c, K)
    PROVE  Confined
<1>1. call' # call
  <2>1. call[c].op = "batch" /\ call' = [call EXCEPT ![c] = NoCall]
    BY DEF EndBatch
  <2>2. call'[c] = NoCall
    BY <2>1 DEF IInv, ShapeInv
  <2>. QED BY <2>1, <2>2, NoCallFits
<1>2. harm' = harm \/ harm' = harm \cup {"garbage"}
  BY DEF EndBatch
<1>. QED BY <1>1, <1>2 DEF Confined, New

\* Relabelling reads outside the permutation in a loose or an empty graph only.
LEMMA ReorderConfined ==
    ASSUME IInv, NEW c \in Callers, Reorder(c)
    PROVE  Confined
<1>1. CASE UNCHANGED harm
  BY <1>1 DEF Confined, New
<1>2. CASE (~Closed(index) \/ index.count = 0) /\ harm' = harm \cup {"overrun"}
  <2>1. index.loose \/ (Quiet /\ index.count = 0)
    BY <1>2 DEF Reorder, IInv, IndexInv
  <2>. QED BY <1>2, <2>1 DEF Confined, New
<1>. QED BY <1>1, <1>2 DEF Reorder

\* allocate_nodes writes behind the last place only past the capacity.
LEMMA AllocateNodesConfined ==
    ASSUME IInv, NEW c \in Callers, NEW b \in Batches, AllocateNodes(c, b.rows)
    PROVE  Confined
<1>1. CASE index.count + b.rows <= Capacity
  <2>1. harm' = harm
    BY <1>1 DEF AllocateNodes
  <2>. QED BY <2>1 DEF Confined, New
<1>2. CASE ~(index.count + b.rows <= Capacity)
  <2>1. Quiet /\ harm' = harm \cup {"overrun"}
    BY <1>2 DEF AllocateNodes
  <2>2. index.count + b.rows > Capacity
    <3>1. b.rows \in Nat /\ index.count \in 0 .. Capacity
      BY PyIndexSizes, IndexParts
    <3>. QED BY <1>2, <3>1, PlacesAreNumbers
  <2>. QED BY <2>1, <2>2 DEF Confined, New
<1>. QED BY <1>1, <1>2

\* Every step keeps its failures to the calls the property names.
LEMMA StepConfined == IInv /\ [Next]_vars => Confined
<1>. SUFFICES ASSUME IInv, [Next]_vars PROVE Confined
  OBVIOUS
<1>1. CASE harm' \in SUBSET harm
  BY <1>1 DEF Confined, New
<1>2. CASE Crash \/ Restart
  <2>1. harm' \in SUBSET harm
    BY <1>2 DEF Crash, Restart
  <2>. QED BY <1>1, <2>1
<1>3. ASSUME NEW c \in Callers, Begin(c) PROVE Confined
  <2>1. ASSUME NEW K \in 1 .. 2, Search(c, K) PROVE Confined
    BY <2>1, SearchConfined
  <2>2. ASSUME NEW b \in Batches, AllocateNodes(c, b.rows) PROVE Confined
    BY <2>2, AllocateNodesConfined
  <2>3. CASE Reorder(c)
    BY <2>3, ReorderConfined
  <2>4. ASSUME \/ \E b \in Batches : Add(c, b)
               \/ BatchSearch(c)
               \/ \E n \in ThreadNumbers : SetNumThreads(c, n)
               \/ \E f \in EdgeFiles : BuildGraphLinks(c, f)
               \/ Save(c) \/ Load(c)
        PROVE  Confined
    <3>1. harm' = harm
      BY <2>4 DEF Add, BatchSearch, SetNumThreads, BuildGraphLinks, Save, Load
    <3>. QED BY <1>1, <3>1
  <2>5. CASE SearchUninitialized(c)
    BY <2>5, SearchUninitializedConfined
  <2>. QED BY <1>3, <2>1, <2>2, <2>3, <2>4, <2>5 DEF Begin
<1>4. ASSUME NEW c \in Callers, Work(c) PROVE Confined
  <2>1. ASSUME NEW r \in DOMAIN call[c].rows, RejectRow(c, r) PROVE Confined
    BY <2>1, RejectRowConfined
  <2>2. ASSUME NEW r \in DOMAIN call[c].rows, StoreNode(c, r) PROVE Confined
    BY <2>2, StoreNodeConfined
  <2>3. ASSUME NEW K \in 1 .. 2, EndBatch(c, K) PROVE Confined
    BY <2>3, EndBatchConfined
  <2>4. ASSUME \/ \E r \in DOMAIN call[c].rows : CheckCapacity(c, r) \/ CountNode(c, r)
               \/ EndAdd(c) \/ SaveMembers(c) \/ SaveNode(c) \/ EndSave(c)
        PROVE  Confined
    <3>1. harm' = harm
      BY <2>4 DEF CheckCapacity, CountNode, EndAdd, SaveMembers, SaveNode, EndSave
    <3>. QED BY <1>1, <3>1
  <2>5. ASSUME StrayBatch(c) \/ \E r \in DOMAIN call[c].rows : LinkNode(c, r) PROVE Confined
    <3>1. Astray \/ harm' = harm
      BY <2>5 DEF StrayBatch, LinkNode
    <3>. QED BY <1>1, <3>1, AstrayConfined
  <2>. QED BY <1>4, <2>1, <2>2, <2>3, <2>4, <2>5 DEF Work
<1>5. CASE UNCHANGED vars
  <2>1. harm' = harm
    BY <1>5 DEF vars
  <2>. QED BY <1>1, <2>1
<1>. QED BY <1>2, <1>3, <1>4, <1>5 DEF Next

\* Whatever goes wrong without an exception does so in the calls the property
\* names: an add on several threads or one that overlaps with another, of a full
\* index; a call that follows the links of an empty index or of a graph read
\* from a file; allocate_nodes past the capacity; a search on several threads,
\* with no initialization or too few neighbors; and a batch search.
THEOREM SilentFailuresConfined == Spec => FailuresAreRaised
<1>1. IInv /\ [Next]_vars => Confined
  BY StepConfined
<1>. QED BY <1>1, Inductive, PTL DEF Spec, FailuresAreRaised

-----------------------------------------------------------------------------
(* The graph of a file. *)

\* The member of S with k - 1 smaller members is the k-th.
LEMMA NthIs ==
    ASSUME NEW S \in SUBSET Nat, IsFiniteSet(S), NEW x \in S, NEW k \in Nat,
           Cardinality({j \in S : j < x}) = k - 1
    PROVE  Nth(S, k) = x
<1>. DEFINE y == Nth(S, k)
            Below(z) == {j \in S : j < z}
<1>1. y \in S /\ Cardinality(Below(y)) = k - 1
  BY DEF Nth
<1>2. \A z \in S : IsFiniteSet(Below(z)) /\ Cardinality(Below(z)) \in Nat
  BY FS_Subset, FS_CardinalityType
<1>. HIDE DEF y
<1>3. ASSUME NEW a \in S, NEW b \in S, a < b
      PROVE  Cardinality(Below(a)) < Cardinality(Below(b))
  <2>0. \A z \in S : z \in Nat
    OBVIOUS
  <2>1. Below(a) \in SUBSET Below(b)
    <3>1. ASSUME NEW z \in S, z < a PROVE z < b
      BY <1>3, <2>0, <3>1
    <3>. QED BY <3>1
  <2>2. a \in Below(b) /\ a \notin Below(a)
    BY <1>3
  <2>3. IsFiniteSet(Below(b)) /\ Cardinality(Below(b)) \in Nat /\ Cardinality(Below(a)) \in Nat
    BY <1>2
  <2>. DEFINE A == Below(a)
              B == Below(b)
  <2>. HIDE DEF A, B, Below
  <2>4. Cardinality(A) <= Cardinality(B) /\ (Cardinality(A) = Cardinality(B) => A = B)
    BY <2>1, <2>3, FS_Subset DEF A, B
  <2>5. A # B
    BY <2>2 DEF A, B
  <2>. QED BY <2>3, <2>4, <2>5 DEF A, B
<1>4. ~(x < y) /\ ~(y < x)
  <2>1. Cardinality(Below(x)) = k - 1
    OBVIOUS
  <2>2. Cardinality(Below(x)) \in Nat
    BY <1>2
  <2>. HIDE DEF Below
  <2>3. x < y => Cardinality(Below(x)) < Cardinality(Below(y))
    BY <1>1, <1>3
  <2>4. y < x => Cardinality(Below(y)) < Cardinality(Below(x))
    BY <1>1, <1>3
  <2>. QED BY <1>1, <2>1, <2>2, <2>3, <2>4
<1>5. x \in Nat /\ y \in Nat
  BY <1>1
<1>6. x = y
  BY <1>4, <1>5
<1>. QED BY <1>6 DEF y

\* The members of 1 .. n, in order.
LEMMA NthOfInterval ==
    ASSUME NEW m \in Nat, NEW k \in 1 .. m
    PROVE  Nth(1 .. m, k) = k
<1>1. {j \in 1 .. m : j < k} = 1 .. (k - 1)
  OBVIOUS
<1>2. Cardinality(1 .. (k - 1)) = k - 1
  BY FS_Interval
<1>3. IsFiniteSet(1 .. m) /\ 1 .. m \in SUBSET Nat /\ k \in Nat
  BY FS_Interval
<1>. QED BY <1>1, <1>2, <1>3, NthIs

\* The edges from p among the first i lines of a file.
FromFirst(list, p, i) == {j \in EdgesFrom(list, p) : j <= i}

\* The links of p are the targets of its edges among the first i lines, and
\* then free slots.
Filled(links, list, p, i) ==
    \A s \in Slots :
        IF s <= Cardinality(FromFirst(list, p, i))
        THEN /\ links[s] = list[Nth(EdgesFrom(list, p), s)][2] - 1
             /\ links[s] \in Places \ {p}
        ELSE links[s] = p

\* The edges from p are finitely many, line by line.
LEMMA LinesCounted ==
    ASSUME NEW list \in Seq((1 .. Capacity) \X (1 .. Capacity)), NEW p \in Places
    PROVE  /\ EdgesFrom(list, p) \in SUBSET Nat /\ IsFiniteSet(EdgesFrom(list, p))
           /\ FromFirst(list, p, 0) = {}
           /\ FromFirst(list, p, Len(list)) = EdgesFrom(list, p)
           /\ \A i \in Nat : /\ IsFiniteSet(FromFirst(list, p, i))
                             /\ Cardinality(FromFirst(list, p, i)) \in Nat
<1>1. EdgesFrom(list, p) \in SUBSET (1 .. Len(list)) /\ Len(list) \in Nat
  BY DEF EdgesFrom
<1>2. IsFiniteSet(EdgesFrom(list, p))
  <2>1. IsFiniteSet(1 .. Len(list))
    BY <1>1, FS_Interval
  <2>. QED BY <1>1, <2>1, FS_Subset
<1>3. \A i \in Nat : FromFirst(list, p, i) \in SUBSET EdgesFrom(list, p)
  BY DEF FromFirst
<1>4. \A i \in Nat : IsFiniteSet(FromFirst(list, p, i)) /\ Cardinality(FromFirst(list, p, i)) \in Nat
  BY <1>2, <1>3, FS_Subset, FS_CardinalityType
<1>5. FromFirst(list, p, 0) = {} /\ FromFirst(list, p, Len(list)) = EdgesFrom(list, p)
  BY <1>1 DEF FromFirst
<1>. QED BY <1>1, <1>2, <1>4, <1>5

\* A line counts for the node it leads from, if it leads to another.
LEMMA LineCounts ==
    ASSUME NEW list \in Seq((1 .. Capacity) \X (1 .. Capacity)), NEW p \in Places, NEW i \in 1 .. Len(list)
    PROVE  /\ i \notin EdgesFrom(list, p) => FromFirst(list, p, i) = FromFirst(list, p, i - 1)
           /\ i \in EdgesFrom(list, p) =>
                  /\ Cardinality(FromFirst(list, p, i)) = Cardinality(FromFirst(list, p, i - 1)) + 1
                  /\ Nth(EdgesFrom(list, p), Cardinality(FromFirst(list, p, i))) = i
<1>. DEFINE E == EdgesFrom(list, p)
            A == FromFirst(list, p, i - 1)
            B == FromFirst(list, p, i)
<1>1. E \in SUBSET Nat /\ IsFiniteSet(E) /\ IsFiniteSet(A) /\ Cardinality(A) \in Nat
  <2>1. i - 1 \in Nat
    OBVIOUS
  <2>. QED BY <2>1, LinesCounted
<1>2. i \in Nat /\ A = {j \in E : j <= i - 1} /\ B = {j \in E : j <= i}
  BY DEF FromFirst
<1>. HIDE DEF A, B, E
<1>0. \A j \in E : j \in Nat /\ (j <= i <=> j <= i - 1 \/ j = i) /\ (j <= i - 1 <=> j < i)
  <2>1. \A j \in E : j \in Nat
    BY <1>1
  <2>. QED BY <1>2, <2>1
<1>3. ASSUME i \notin E PROVE B = A
  BY <1>0, <1>2, <1>3
<1>4. ASSUME i \in E PROVE Cardinality(B) = Cardinality(A) + 1 /\ Nth(E, Cardinality(B)) = i
  <2>1. B = A \cup {i} /\ i \notin A /\ A = {j \in E : j < i}
    <3>1. A = {j \in E : j < i}
      BY <1>0, <1>2
    <3>2. i \notin A
      BY <1>2, <3>1
    <3>3. B = A \cup {i}
      BY <1>0, <1>2, <1>4
    <3>. QED BY <3>1, <3>2, <3>3
  <2>2. Cardinality(B) = Cardinality(A) + 1
    BY <1>1, <2>1, FS_AddElement
  <2>3. Cardinality({j \in E : j < i}) = Cardinality(B) - 1 /\ Cardinality(B) \in Nat
    BY <1>1, <2>1, <2>2
  <2>4. Nth(E, Cardinality(B)) = i
    BY <1>1, <1>4, <2>3, NthIs
  <2>. QED BY <2>2, <2>4
<1>. QED BY <1>3, <1>4 DEF A, B, E

\* The first c slots of p are in use, and the others are free.
InUse(links, p, c) ==
    \A s \in Slots : IF s <= c THEN links[s] \in Places \ {p} ELSE links[s] = p

\* The links of a node with one more, unless they are full.
TakesNext(new, old, v, c) ==
    /\ M <= c => new = old
    /\ c < M => c + 1 \in Slots /\ new = [old EXCEPT ![c + 1] = v]

\* An edge goes to the slot after those in use, if there is one.
LEMMA EdgeGoesNext ==
    ASSUME NEW nodes \in [Places -> NodeContents], NEW p \in Places, NEW v \in Places, NEW lucky \in BOOLEAN,
           NEW c \in Nat,
           InUse(nodes[p].links, p, c)
    PROVE  TakesNext(WithEdge(nodes, p, v, lucky)[p].links, nodes[p].links, v, c)
<1>. DEFINE L == nodes[p].links
            N == WithEdge(nodes, p, v, lucky)
            free == {s \in Slots : nodes[p].links[s] = p \/ (lucky /\ nodes[p].links[s] = -1)}
            s1 == CHOOSE s \in free : \A q \in free : s <= q
<1>1. free = {s \in 1 .. M : ~(s <= c)}
  <2>0. \A q \in Places : q # -1
    BY PlacesAreNumbers
  <2>1. ASSUME NEW s \in Slots
        PROVE  (nodes[p].links[s] = p \/ (lucky /\ nodes[p].links[s] = -1)) <=> ~(s <= c)
    <3>. DEFINE d == -1
    <3>1. \A q \in Places : q # d
      BY <2>0
    <3>. HIDE DEF d
    <3>2. (nodes[p].links[s] = p \/ (lucky /\ nodes[p].links[s] = d)) <=> ~(s <= c)
      <4>0. IF s <= c THEN nodes[p].links[s] \in Places \ {p} ELSE nodes[p].links[s] = p
        BY DEF InUse
      <4>1. CASE s <= c
        BY <3>1, <4>0, <4>1
      <4>2. CASE ~(s <= c)
        BY <4>0, <4>2
      <4>. QED BY <4>1, <4>2
    <3>. QED BY <3>2 DEF d
  <2>. QED BY <2>1 DEF Slots
<1>2. M \in Nat
  BY PyIndexSizes
<1>3. free = {} => N = nodes
  BY DEF WithEdge
<1>4. free # {} => N = [nodes EXCEPT ![p].links[s1] = v]
  BY DEF WithEdge
<1>. HIDE DEF free, N
<1>5. ASSUME M <= c PROVE N = nodes
  <2>1. \A s \in 1 .. M : s <= c
    BY <1>2, <1>5
  <2>2. free = {}
    BY <1>1, <2>1
  <2>. QED BY <1>3, <2>2
<1>6. ASSUME c < M PROVE c + 1 \in Slots /\ N[p].links = [L EXCEPT ![c + 1] = v]
  <2>1. c + 1 \in 1 .. M /\ ~(c + 1 <= c)
    BY <1>2, <1>6
  <2>2. c + 1 \in free
    BY <1>1, <2>1
  <2>3. \A q \in free : c + 1 <= q /\ q \in Nat
    BY <1>1, <1>2
  <2>4. s1 \in free /\ \A q \in free : s1 <= q
    BY <2>2, <2>3
  <2>. HIDE DEF s1
  <2>5. s1 = c + 1
    <3>1. s1 <= c + 1 /\ c + 1 <= s1 /\ s1 \in Nat
      BY <2>2, <2>3, <2>4
    <3>. QED BY <3>1
  <2>6. N = [nodes EXCEPT ![p].links[c + 1] = v]
    BY <1>4, <2>2, <2>5
  <2>. DEFINE x == nodes[p]
              K == [x.links EXCEPT ![c + 1] = v]
  <2>7. N = [nodes EXCEPT ![p] = [x EXCEPT !.links = K]]
    BY <2>6
  <2>8. x \in NodeContents
    OBVIOUS
  <2>. HIDE DEF x, K
  <2>9. N[p] = [x EXCEPT !.links = K]
    BY <2>7
  <2>10. N[p].links = K
    BY <2>8, <2>9 DEF NodeContents
  <2>11. K = [L EXCEPT ![c + 1] = v]
    BY DEF K, x
  <2>. QED BY <2>1, <2>10, <2>11 DEF Slots
<1>. QED BY <1>5, <1>6 DEF N, TakesNext

\* Line i extends the links of the node it leads from, if it leads to another
\* and a slot is free, and no others.
LEMMA EdgeFills ==
    ASSUME NEW list \in Seq((1 .. Capacity) \X (1 .. Capacity)), NEW p \in Places, NEW i \in 1 .. Len(list),
           NEW nodes \in [Places -> NodeContents], NEW lucky \in BOOLEAN,
           Filled(nodes[p].links, list, p, i - 1)
    PROVE  Filled(WithEdge(nodes, list[i][1] - 1, list[i][2] - 1, lucky)[p].links, list, p, i)
<1>. DEFINE u == list[i][1] - 1
            v == list[i][2] - 1
            L == nodes[p].links
            K == WithEdge(nodes, u, v, lucky)[p].links
            E == EdgesFrom(list, p)
            c == Cardinality(FromFirst(list, p, i - 1))
            d == Cardinality(FromFirst(list, p, i))
            Held(k, f) == f[k] = list[Nth(E, k)][2] - 1 /\ f[k] \in Places \ {p}
<1>1. u \in Places /\ v \in Places
  BY PlacesAreNumbers
<1>2. L \in [Slots -> Places \cup {-1}]
  <2>1. nodes[p] \in NodeContents
    OBVIOUS
  <2>. QED BY <2>1 DEF NodeContents
<1>3. c \in Nat /\ d \in Nat
  <2>1. i - 1 \in Nat /\ i \in Nat
    OBVIOUS
  <2>2. \A j \in Nat : Cardinality(FromFirst(list, p, j)) \in Nat
    BY LinesCounted
  <2>3. c \in Nat
    BY <2>1, <2>2
  <2>4. d \in Nat
    BY <2>1, <2>2
  <2>. QED BY <2>3, <2>4
<1>4. \A s \in Slots : (s <= c => Held(s, L)) /\ (~(s <= c) => L[s] = p)
  BY DEF Filled
<1>5. (\A s \in Slots : (s <= d => Held(s, K)) /\ (~(s <= d) => K[s] = p)) => Filled(K, list, p, i)
  <2>. HIDE DEF K
  <2>. QED BY DEF Filled
<1>6. i \in EdgesFrom(list, p) <=> u = p /\ v # p
  BY DEF EdgesFrom
<1>7. ~(u = p /\ v # p) => d = c
  BY <1>6, LineCounts
<1>8. u = p /\ v # p => d = c + 1 /\ Nth(E, d) = i
  BY <1>6, LineCounts
<1>9. Nth(E, d) = i => list[Nth(E, d)][2] - 1 = v
  <2>. HIDE DEF E, d
  <2>. QED OBVIOUS
<1>10. u # p => K = L
  BY <1>1 DEF WithEdge
<1>11. ASSUME u = p
       PROVE  /\ M <= c => K = L
              /\ c < M => c + 1 \in Slots /\ K = [L EXCEPT ![c + 1] = v]
  <2>1. InUse(nodes[p].links, p, c)
    <3>. HIDE DEF c
    <3>. QED BY <1>4 DEF InUse
  <2>2. K = WithEdge(nodes, p, v, lucky)[p].links
    BY <1>11
  <2>3. v \in Places /\ c \in Nat
    BY <1>1, <1>3
  <2>. HIDE DEF v, c, K
  <2>4. TakesNext(WithEdge(nodes, p, v, lucky)[p].links, nodes[p].links, v, c)
    BY <2>1, <2>3, EdgeGoesNext
  <2>. QED BY <2>2, <2>4 DEF TakesNext
<1>12. \A s \in Slots : s \in Nat /\ s <= M
  BY PlacesAreNumbers DEF Slots
<1>13. M \in Nat
  BY PyIndexSizes
<1>. SUFFICES Filled(K, list, p, i)
  OBVIOUS
<1>. HIDE DEF u, v, L, K, E, c, d
<1>14. CASE ~(u = p /\ v # p)
  <2>1. d = c
    BY <1>7, <1>14
  <2>2. K = L
    <3>1. CASE u = p /\ v = p /\ c < M
      <4>1. ~(c + 1 <= c)
        BY <1>3
      <4>2. L[c + 1] = p /\ K = [L EXCEPT ![c + 1] = p]
        BY <1>4, <1>11, <3>1, <4>1
      <4>. QED BY <1>2, <1>11, <3>1, <4>2
    <3>2. c < M \/ M <= c
      BY <1>3, <1>13
    <3>. QED BY <1>10, <1>11, <1>14, <3>1, <3>2
  <2>. QED BY <1>4, <1>5, <2>1, <2>2
<1>15. CASE u = p /\ v # p
  <2>1. d = c + 1 /\ list[Nth(E, d)][2] - 1 = v
    BY <1>8, <1>9, <1>15
  <2>2. CASE M <= c
    <3>1. \A s \in Slots : s <= c /\ s <= d
      BY <1>3, <1>12, <1>13, <2>1, <2>2
    <3>2. K = L
      BY <1>11, <1>15, <2>2
    <3>. QED BY <1>4, <1>5, <3>1, <3>2
  <2>3. CASE c < M
    <3>1. d \in Slots /\ K = [L EXCEPT ![d] = v]
      BY <1>11, <1>15, <2>1, <2>3
    <3>2. K[d] = v /\ \A s \in Slots : s # d => K[s] = L[s]
      BY <1>2, <3>1
    <3>3. Held(d, K)
      BY <1>1, <1>15, <2>1, <3>2
    <3>4. ASSUME NEW s \in Slots PROVE (s <= d => Held(s, K)) /\ (~(s <= d) => K[s] = p)
      <4>1. CASE s = d
        <5>1. s <= d
          BY <1>3, <4>1
        <5>. QED BY <3>3, <4>1, <5>1
      <4>2. CASE s # d
        <5>1. s <= d <=> s <= c
          BY <1>3, <1>12, <2>1, <4>2
        <5>. QED BY <1>4, <3>2, <4>2, <5>1
      <4>. QED BY <4>1, <4>2
    <3>. QED BY <1>5, <3>4
  <2>4. c < M \/ M <= c
    BY <1>3, <1>13
  <2>. QED BY <2>2, <2>3, <2>4
<1>. QED BY <1>14, <1>15

\* All the lines of a file, from empty links.
LEMMA EdgesFill ==
    ASSUME NEW nodes \in [Places -> NodeContents], NEW lucky \in BOOLEAN, NEW p \in Places,
           NEW list \in Seq((1 .. Capacity) \X (1 .. Capacity)), nodes[p].links = SelfLinks(p)
    PROVE  Filled(WithEdges(nodes, list, lucky)[Len(list)][p].links, list, p, Len(list))
<1>. DEFINE size == Len(list)
            W == WithEdges(nodes, list, lucky)
            Good(i) == W[i] \in [Places -> NodeContents] /\ Filled(W[i][p].links, list, p, i)
            Bad == {i \in 0 .. size : ~Good(i)}
<1>1. size \in Nat
  OBVIOUS
<1>2. W[0] = nodes /\ \A i \in 1 .. size : W[i] = WithEdge(W[i - 1], list[i][1] - 1, list[i][2] - 1, lucky)
  <2>1. W = [i \in 0 .. size |-> IF i = 0 THEN nodes
                                 ELSE WithEdge(W[i - 1], list[i][1] - 1, list[i][2] - 1, lucky)]
    BY <1>1, EdgesExist
  <2>. HIDE DEF W, size
  <2>2. 0 \in 0 .. size /\ \A i \in 1 .. size : i \in 0 .. size /\ i # 0
    BY <1>1
  <2>. QED BY <2>1, <2>2
<1>3. \A i \in 1 .. size : list[i][1] - 1 \in Places /\ list[i][2] - 1 \in Places
  BY PlacesAreNumbers
<1>4. Bad = {}
  <2>. SUFFICES ASSUME Bad # {} PROVE FALSE
    OBVIOUS
  <2>1. PICK k \in Bad : \A j \in Bad : k <= j
    <3>1. Bad \in SUBSET Nat
      BY <1>1
    <3>. HIDE DEF Bad
    <3>. QED BY <3>1, LeastExists
  <2>2. k # 0
    <3>1. FromFirst(list, p, 0) = {} /\ Cardinality({}) = 0
      BY LinesCounted, FS_EmptySet
    <3>2. \A s \in Slots : ~(s <= 0) /\ SelfLinks(p)[s] = p
      BY DEF Slots, SelfLinks
    <3>3. Filled(SelfLinks(p), list, p, 0)
      BY <3>1, <3>2 DEF Filled
    <3>. HIDE DEF W
    <3>4. W[0] \in [Places -> NodeContents] /\ Filled(W[0][p].links, list, p, 0)
      BY <1>2, <3>3
    <3>. QED BY <2>1, <3>4
  <2>3. k \in 1 .. size /\ k - 1 \in 0 .. size /\ k - 1 \notin Bad
    BY <1>1, <2>1, <2>2
  <2>. DEFINE N == W[k - 1]
  <2>4. /\ N \in [Places -> NodeContents] /\ Filled(N[p].links, list, p, k - 1)
        /\ list[k][1] - 1 \in Places /\ list[k][2] - 1 \in Places
        /\ W[k] = WithEdge(N, list[k][1] - 1, list[k][2] - 1, lucky)
    BY <1>2, <1>3, <2>3
  <2>. HIDE DEF W, N
  <2>5. SameRows(WithEdge(N, list[k][1] - 1, list[k][2] - 1, lucky), N)
    BY <2>4, EdgeKeepsRows
  <2>6. Filled(WithEdge(N, list[k][1] - 1, list[k][2] - 1, lucky)[p].links, list, p, k)
    BY <2>3, <2>4, EdgeFills
  <2>7. W[k] \in [Places -> NodeContents] /\ Filled(W[k][p].links, list, p, k)
    BY <2>4, <2>5, <2>6 DEF SameRows
  <2>. QED BY <2>1, <2>7
<1>. HIDE DEF W
<1>5. Filled(W[size][p].links, list, p, size)
  BY <1>1, <1>4
<1>. QED BY <1>5 DEF W

\* The table lists what the slots were filled with.
LEMMA FilledLists ==
    ASSUME NEW ix, NEW f, NEW p \in 0 .. ix.count - 1, p \in Places,
           f.list \in Seq((1 .. Capacity) \X (1 .. Capacity)),
           Filled(ix.nodes[p].links, f.list, p, Len(f.list))
    PROVE  OutdegreeTable(ix)[p] = Targets(f, p)
<1>. DEFINE E == EdgesFrom(f.list, p)
            c == Cardinality(E)
            m == IF c < M THEN c ELSE M
            L == ix.nodes[p].links
            used == {s \in Slots : L[s] # p}
<1>1. c \in Nat /\ m \in Nat /\ FromFirst(f.list, p, Len(f.list)) = E
  <2>1. IsFiniteSet(E) /\ FromFirst(f.list, p, Len(f.list)) = E
    BY LinesCounted
  <2>2. c \in Nat
    BY <2>1, FS_CardinalityType
  <2>. QED BY <2>1, <2>2, PyIndexSizes
<1>2. \A s \in Slots :
          /\ s <= c => L[s] = f.list[Nth(E, s)][2] - 1 /\ L[s] # p
          /\ ~(s <= c) => L[s] = p
  BY <1>1 DEF Filled
<1>. HIDE DEF c, L, E
<1>3. used = 1 .. m
  <2>1. \A s \in Slots : L[s] # p <=> s <= c
    BY <1>2
  <2>2. used = {s \in Slots : s <= c}
    BY <2>1
  <2>3. {s \in Slots : s <= c} = 1 .. m
    BY <1>1, PyIndexSizes DEF Slots
  <2>. QED BY <2>2, <2>3
<1>4. OutdegreeTable(ix)[p] = [i \in 1 .. Cardinality(used) |-> L[Nth(used, i)]]
  BY DEF OutdegreeTable, L
<1>. HIDE DEF used
<1>5. OutdegreeTable(ix)[p] = [i \in 1 .. m |-> L[Nth(1 .. m, i)]]
  <2>1. Cardinality(1 .. m) = m
    BY <1>1, FS_Interval
  <2>. HIDE DEF m
  <2>. QED BY <1>3, <1>4, <2>1
<1>6. \A i \in 1 .. m : L[Nth(1 .. m, i)] = f.list[Nth(E, i)][2] - 1
  <2>1. ASSUME NEW i \in 1 .. m PROVE L[Nth(1 .. m, i)] = f.list[Nth(E, i)][2] - 1
    <3>1. i \in Slots /\ i <= c
      BY <1>1, PyIndexSizes DEF Slots
    <3>2. Nth(1 .. m, i) = i
      BY <1>1, NthOfInterval
    <3>. QED BY <1>2, <3>1, <3>2
  <2>. QED BY <2>1
<1>7. Targets(f, p) = [i \in 1 .. m |-> f.list[Nth(E, i)][2] - 1]
  BY DEF Targets, E, c
<1>. HIDE DEF m
<1>. QED BY <1>5, <1>6, <1>7

\* A file whose header fits is read.
LEMMA FileIsRead ==
    ASSUME NEW c \in Callers, NEW f \in EdgeFiles, BuildGraphLinks(c, f), ~(f.vertices # Capacity \/ f.edges # M)
    PROVE  \E lucky \in BOOLEAN :
               index' = [index EXCEPT !.loose = TRUE, !.nodes = WithEdges(index.nodes, f.list, lucky)[Len(f.list)]]
BY DEF BuildGraphLinks

\* buildGraphLinks after allocateNodes gives each node the first M edges of the
\* file that leave it for another node, in the order of the file, for any file
\* that fits and whatever the memory held.
THEOREM GraphIsAsFiled == Spec => BuiltAsFiled
<1>1. IInv => \A c \in Callers, f \in EdgeFiles :
                 BuildGraphLinks(c, f) /\ f.vertices = Capacity /\ f.edges = M /\ Unlinked(index) =>
                     OutdegreeTable(index') = [p \in Places |-> Targets(f, p)]
  <2>. SUFFICES ASSUME IInv, NEW c \in Callers, NEW f \in EdgeFiles, BuildGraphLinks(c, f),
                       f.vertices = Capacity, f.edges = M, Unlinked(index)
                PROVE  OutdegreeTable(index') = [p \in Places |-> Targets(f, p)]
    OBVIOUS
  <2>1. f.list \in Seq((1 .. Capacity) \X (1 .. Capacity))
    BY EdgeFilesAreGraphs
  <2>2. PICK lucky \in BOOLEAN :
            index' = [index EXCEPT !.loose = TRUE, !.nodes = WithEdges(index.nodes, f.list, lucky)[Len(f.list)]]
    <3>1. ~(f.vertices # Capacity \/ f.edges # M)
      OBVIOUS
    <3>. QED BY <3>1, FileIsRead
  <2>3. index \in Indexes /\ index.nodes \in [Places -> NodeContents]
    BY IndexParts DEF IInv, ShapeInv
  <2>4. index.count = Capacity /\ \A p \in Places : index.nodes[p].links = SelfLinks(p)
    BY DEF Unlinked
  <2>. DEFINE Q == WithEdges(index.nodes, f.list, lucky)[Len(f.list)]
  <2>5. \A p \in Places : Filled(Q[p].links, f.list, p, Len(f.list))
    BY <2>1, <2>3, <2>4, EdgesFill
  <2>. HIDE DEF Q
  <2>6. index'.nodes = Q /\ index'.count = Capacity
    <3>1. index' = [index EXCEPT !.loose = TRUE, !.nodes = Q]
      BY <2>2 DEF Q
    <3>. QED BY <2>3, <2>4, <3>1 DEF Indexes
  <2>7. 0 .. index'.count - 1 = Places
    BY <2>6 DEF Places
  <2>8. \A p \in Places : OutdegreeTable(index')[p] = Targets(f, p)
    BY <2>1, <2>5, <2>6, <2>7, FilledLists
  <2>9. OutdegreeTable(index') = [p \in Places |-> OutdegreeTable(index')[p]]
    BY <2>7 DEF OutdegreeTable
  <2>. QED BY <2>8, <2>9
<1>. QED BY <1>1, Inductive, PTL DEF BuiltAsFiled

=============================================================================
