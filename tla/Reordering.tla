----------------------------- MODULE Reordering -----------------------------
(***************************************************************************)
(* Reordering of a built index: PyIndex::reorder (bindings.cpp) checks the *)
(* names of the strategies, Index::doGraphReordering (Index.h) runs them   *)
(* one after the other, each as gOrder or rcmOrder (util/Reordering.h) on  *)
(* the graph its predecessor left, followed by relabel (module Relabel).   *)
(* Index::reorderGOrder and Index::reorderRCM are lists of one strategy.   *)
(* Nobody else uses the index meanwhile.                                   *)
(*                                                                         *)
(* The names P, id, links, visited, n, dest and pc belong to relabel.      *)
(*                                                                         *)
(* A definition marked "Faulty" stands before the one it distorts and is   *)
(* used nowhere else.                                                      *)
(***************************************************************************)
EXTENDS Relabel, GorderQueue, FiniteSets

CONSTANTS
    Requests,    \* the lists of strategies reorder may be called with
    Lower(_),    \* the lower-case spelling of a strategy's name
    Window       \* w, the window of gOrder

Seqs == INSTANCE SequencesExt
Sets == INSTANCE FiniteSetsExt

\* With no node at all gOrder pops an empty queue.
ASSUME ReorderingSizes == NumNodes > 0 /\ Window \in Nat
ASSUME ReorderingRequests == \A r \in Requests : r \in Seq(STRING)

VARIABLES
    strategies,  \* the strategies that are still to run
    phase,       \* "check", "pick", "turn", "update", "rcm", "relabel", "done", "rejected", "threw"
    node,        \* node[p], the node that lay at place node[p] before the call lies at p
    graph0,      \* the links before the call
    table,       \* outdegree_table
    order,       \* the permutation as far as it is built: a list of nodes
    queue,       \* gOrder: the priority queue
    updates,     \* gOrder: the changes of priority this turn has still to make
    todo,        \* rcmOrder: the nodes the loop over sorted_nodes has not come to
    seen,        \* rcmOrder: visited_set
    fifo         \* rcmOrder: Q

relabelVars  == <<P, links0, id, links, visited, n, dest, pc>>
orderVars    == <<table, order, queue, updates, todo, seen, fifo>>
reorderVars  == <<relabelVars, orderVars, strategies, phase, node, graph0>>

Identity == [p \in Nodes |-> p]

NoQueue == [list |-> <<>>, index |-> <<>>]

ReorderInit ==
    /\ strategies \in Requests
    /\ phase = "check"
    /\ node = Identity
    /\ links \in Graphs
    /\ graph0 = links
    /\ links0 = links
    /\ P = Identity /\ id = Identity /\ visited = {} /\ n = 0 /\ dest = 0 /\ pc = "rewire"
    /\ table = [p \in Nodes |-> <<>>]
    /\ order = <<>> /\ queue = NoQueue /\ updates = <<>> /\ todo = {} /\ seen = {} /\ fifo = <<>>

-----------------------------------------------------------------------------
(* PyIndex::reorder and Index::doGraphReordering. *)

\* The binding accepts the names in any case, and hands them on as they are.
CheckNames ==
    /\ phase = "check"
    /\ phase' = IF \A i \in DOMAIN strategies : Lower(strategies[i]) \in {"gorder", "rcm"}
                THEN "pick" ELSE "rejected"
    /\ UNCHANGED <<relabelVars, orderVars, strategies, node, graph0>>

\* getGraphOutdegreeTable: a slot that leads back to its node is empty.
OutdegreeTable ==
    [p \in Nodes |->
        LET used == {s \in Slots : links[p][s] # p}
            nth(i) == CHOOSE s \in used : Cardinality({r \in used : r < s}) = i - 1
        IN  [i \in 1 .. Cardinality(used) |-> links[p][nth(i)]]]

\* gOrder starts with node 0, raised above the others and popped.
BeginGorder ==
    /\ phase = "pick"
    /\ strategies # <<>> /\ Head(strategies) = "gorder"
    /\ table' = OutdegreeTable
    /\ LET q == Increment(NewQueue(NumNodes), 0)
       IN  /\ order' = <<Back(q)>>
           /\ queue' = Popped(q)
    /\ phase' = "turn"
    /\ strategies' = Tail(strategies)
    /\ UNCHANGED <<relabelVars, updates, todo, seen, fifo, node, graph0>>

BeginRcm ==
    /\ phase = "pick"
    /\ strategies # <<>> /\ Head(strategies) = "rcm"
    /\ table' = OutdegreeTable
    /\ todo' = Nodes
    /\ phase' = "rcm"
    /\ strategies' = Tail(strategies)
    /\ UNCHANGED <<relabelVars, order, queue, updates, seen, fifo, node, graph0>>

\* throw std::invalid_argument("Invalid reordering method")
UnknownMethod ==
    /\ phase = "pick"
    /\ strategies # <<>> /\ Head(strategies) \notin {"gorder", "rcm"}
    /\ phase' = "threw"
    /\ UNCHANGED <<relabelVars, orderVars, strategies, node, graph0>>

NoMoreMethods ==
    /\ phase = "pick"
    /\ strategies = <<>>
    /\ phase' = "done"
    /\ UNCHANGED <<relabelVars, orderVars, strategies, node, graph0>>

\* Pinv, for the list of nodes P of the heuristic: where each node goes.
Placement(list) == [m \in Nodes |-> CHOOSE p \in Nodes : list[p + 1] = m]

Placed(list) ==
    /\ P' = Placement(list)
    /\ links0' = links
    /\ phase' = "relabel"
    /\ order' = <<>> /\ queue' = NoQueue /\ seen' = {}
    /\ table' = [p \in Nodes |-> <<>>]
    /\ UNCHANGED <<id, links, visited, n, dest, pc, updates, todo, fifo, strategies, node, graph0>>

RelabelStep ==
    /\ phase = "relabel"
    /\ Rewire \/ SkipPlace \/ EnterCycle \/ FollowCycle \/ LeaveCycle \/ Finish
    /\ UNCHANGED <<orderVars, strategies, phase, node, graph0>>

\* relabel has returned, and its locals are gone.
NextMethod ==
    /\ phase = "relabel" /\ pc = "done"
    /\ node' = [p \in Nodes |-> node[id[p]]]
    /\ links0' = links
    /\ P' = Identity /\ id' = Identity /\ visited' = {} /\ n' = 0 /\ dest' = 0 /\ pc' = "rewire"
    /\ phase' = "pick"
    /\ UNCHANGED <<links, orderVars, strategies, graph0>>

-----------------------------------------------------------------------------
(* gOrder. *)

\* indegree_table[v], sorted by node, with one entry for every link.
InEdges(v) ==
    Seqs!FlattenSeq([u \in 1 .. NumNodes |->
        [i \in 1 .. Cardinality({j \in DOMAIN table[u - 1] : table[u - 1][j] = v}) |-> u - 1]])

\* The keys whose priorities change when v enters or leaves the window, in order.
Touched(v) ==
    table[v] \o Seqs!FlattenSeq([i \in 1 .. Len(InEdges(v)) |->
                                    <<InEdges(v)[i]>> \o table[InEdges(v)[i]]])

Tagged(kind, keys) == [i \in DOMAIN keys |-> [kind |-> kind, key |-> keys[i]]]

\* Faulty: the node that leaves the window stays in it for another turn.
EnterTurnLate ==
    /\ phase = "turn" /\ Len(order) < NumNodes
    /\ LET i == Len(order)
       IN  updates' = Tagged("increment", Touched(order[i]))
                      \o IF i > Window + 2 THEN Tagged("decrement", Touched(order[i - Window - 1]))
                         ELSE <<>>
    /\ phase' = "update"
    /\ UNCHANGED <<relabelVars, table, order, queue, todo, seen, fifo, strategies, node, graph0>>

\* A turn of the loop over i: order[i] is P[i - 1], the newest node of the
\* window, and order[i - w] is P[i - w - 1], the node that leaves it.
EnterTurn ==
    /\ phase = "turn" /\ Len(order) < NumNodes
    /\ LET i == Len(order)
       IN  updates' = Tagged("increment", Touched(order[i]))
                      \o IF i > Window + 1 THEN Tagged("decrement", Touched(order[i - Window]))
                         ELSE <<>>
    /\ phase' = "update"
    /\ UNCHANGED <<relabelVars, table, order, queue, todo, seen, fifo, strategies, node, graph0>>

UpdateQueue ==
    /\ phase = "update" /\ updates # <<>>
    /\ queue' = IF Head(updates).kind = "increment" THEN Increment(queue, Head(updates).key)
                ELSE Decrement(queue, Head(updates).key)
    /\ updates' = Tail(updates)
    /\ UNCHANGED <<relabelVars, table, order, todo, seen, fifo, strategies, phase, node, graph0>>

PlaceNode ==
    /\ phase = "update" /\ updates = <<>>
    /\ order' = Append(order, Back(queue))
    /\ queue' = Popped(queue)
    /\ phase' = "turn"
    /\ UNCHANGED <<relabelVars, table, updates, todo, seen, fifo, strategies, node, graph0>>

EndGorder ==
    /\ phase = "turn" /\ Len(order) = NumNodes
    /\ Placed(order)

-----------------------------------------------------------------------------
(* rcmOrder. *)

Degree(p) == Len(table[p])

\* The results std::sort may give for neighbors: it is not stable.
ByDegree(list) ==
    {sorted \in {[i \in DOMAIN list |-> list[f[i]]] : f \in Bijection(DOMAIN list, DOMAIN list)} :
        \A i, j \in DOMAIN list : i < j => Degree(sorted[i]) <= Degree(sorted[j])}

\* Add a node to the permutation and its neighbors to the queue.
Take(p, rest) ==
    /\ order' = Append(order, p)
    /\ seen' = seen \cup {p}
    /\ \E neighbors \in ByDegree(table[p]) : fifo' = rest \o neighbors

\* Faulty: the next root is taken while the queue still holds candidates.
NextSortedEarly ==
    /\ phase = "rcm"
    /\ \E p \in todo :
        /\ \A q \in todo : Degree(p) <= Degree(q)
        /\ todo' = todo \ {p}
        /\ IF p \in seen THEN UNCHANGED <<order, seen, fifo>> ELSE Take(p, fifo)
    /\ UNCHANGED <<relabelVars, table, queue, updates, strategies, phase, node, graph0>>

\* The next of sorted_nodes: of equal degrees any may come first.
NextSorted ==
    /\ phase = "rcm" /\ fifo = <<>>
    /\ \E p \in todo :
        /\ \A q \in todo : Degree(p) <= Degree(q)
        /\ todo' = todo \ {p}
        /\ IF p \in seen THEN UNCHANGED <<order, seen, fifo>> ELSE Take(p, <<>>)
    /\ UNCHANGED <<relabelVars, table, queue, updates, strategies, phase, node, graph0>>

\* Faulty: a candidate is not looked up in the visited set.
NextCandidateAgain ==
    /\ phase = "rcm" /\ fifo # <<>>
    /\ Take(Head(fifo), Tail(fifo))
    /\ UNCHANGED <<relabelVars, table, queue, updates, todo, strategies, phase, node, graph0>>

NextCandidate ==
    /\ phase = "rcm" /\ fifo # <<>>
    /\ IF Head(fifo) \in seen
       THEN fifo' = Tail(fifo) /\ UNCHANGED <<order, seen>>
       ELSE Take(Head(fifo), Tail(fifo))
    /\ UNCHANGED <<relabelVars, table, queue, updates, todo, strategies, phase, node, graph0>>

\* std::reverse, then Pinv.
EndRcm ==
    /\ phase = "rcm" /\ fifo = <<>> /\ todo = {}
    /\ Placed(Seqs!Reverse(order))

-----------------------------------------------------------------------------
ReorderNext ==
    \/ CheckNames \/ UnknownMethod \/ NoMoreMethods
    \/ BeginGorder \/ EnterTurn \/ UpdateQueue \/ PlaceNode \/ EndGorder
    \/ BeginRcm \/ NextSorted \/ NextCandidate \/ EndRcm
    \/ RelabelStep \/ NextMethod

ReorderSpec == ReorderInit /\ [][ReorderNext]_reorderVars

FairReorderSpec == ReorderSpec /\ WF_reorderVars(ReorderNext)

-----------------------------------------------------------------------------
(* Properties. *)

ReorderTypeOK ==
    /\ TypeOK
    /\ node \in Permutations
    /\ \A p \in Nodes : Len(table[p]) <= M /\ \A i \in DOMAIN table[p] : table[p][i] \in Nodes
    /\ Len(order) <= NumNodes /\ \A i, j \in DOMAIN order : order[i] = order[j] => i = j
    /\ \A i \in DOMAIN order : order[i] \in Nodes
    /\ IndexAgrees(queue)
    /\ phase \in {"turn", "update"} => DOMAIN queue.index = Nodes \ {order[i] : i \in DOMAIN order}
    /\ todo \subseteq Nodes /\ seen \subseteq Nodes
    /\ \A i \in DOMAIN fifo : fifo[i] \in Nodes
    /\ phase \in {"check", "pick", "turn", "update", "rcm", "relabel", "done", "rejected", "threw"}

\* Whatever strategies have run, also when a later name stops reorder with an
\* exception, the index holds the graph it held before with its nodes moved.
SameGraph ==
    phase \in {"check", "pick", "done", "rejected", "threw"} =>
        \A p \in Nodes, s \in Slots : node[links[p][s]] = graph0[node[p]][s]

Edges(a, b) == IF a = b THEN 0 ELSE Cardinality({s \in Slots : links[a][s] = b})

OutDegree(a) == Cardinality({s \in Slots : links[a][s] # a})

\* The nodes counted when place i is filled: the Window nodes before it and, as
\* place 0 is never taken out of the window, always the first node.
Counted(i) == {order[j] : j \in {1} \cup {k \in 2 .. i - 1 : i - k <= Window}}

\* How close a node is to a set of others to gOrder: the links between them,
\* and one for every pair of links from one node to it and to one of them.
Closeness(k, W) ==
    Cardinality({s \in Slots : links[k][s] \in W})
    + Cardinality({e \in W \X Slots : links[e[1]][e[2]] = k})
    + Cardinality({e \in Nodes \X Slots \X Slots :
                        links[e[1]][e[2]] \in W \ {e[1]} /\ links[e[1]][e[3]] = k /\ e[1] # k})

WindowScore(k, i) == Closeness(k, Counted(i))

\* gOrder's running priorities never drift from the scores they stand for, and
\* each place goes to a node that no other beats.
GreedyOrder ==
    phase = "update" /\ updates = <<>> =>
        \A k \in DOMAIN queue.index :
            /\ Priority(queue, k) = WindowScore(k, Len(order) + 1)
            /\ Priority(queue, k) <= Priority(queue, Back(queue))

\* The place of the first node that leads to the one at place k, or 0.
Parent(k) ==
    Sets!Min({j \in 1 .. k - 1 : Edges(order[j], order[k]) > 0} \cup {k}) % k

\* The nodes before place k lead to none that is left, and none that is left has
\* fewer links than the one at place k.
RootIsDue(k) ==
    \A m \in Nodes \ {order[i] : i \in 1 .. k - 1} :
        /\ \A j \in 1 .. k - 1 : Edges(order[j], m) = 0
        /\ OutDegree(order[k]) <= OutDegree(m)

\* rcmOrder takes the nodes as Cuthill and McKee do: breadth first, siblings by
\* degree, and a root, the node of least degree that is left, only when nothing
\* taken before leads anywhere new.
CuthillMcKee ==
    phase = "rcm" =>
        /\ \A j, k \in DOMAIN order : j < k /\ Parent(j) > 0 /\ Parent(k) > 0 =>
                /\ Parent(j) <= Parent(k)
                /\ Parent(j) = Parent(k) => OutDegree(order[j]) <= OutDegree(order[k])
        /\ \A k \in DOMAIN order : Parent(k) = 0 => RootIsDue(k)

\* reorder returns or throws.
ReorderReturns == <>(phase \in {"done", "rejected", "threw"})

=============================================================================
