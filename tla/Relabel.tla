------------------------------ MODULE Relabel ------------------------------
(***************************************************************************)
(* Index::relabel (include/flatnav/index/Index.h): moves every node n to   *)
(* the place P[n] that a reordering chose for it.  The links are renamed   *)
(* first; then the nodes are swapped into place, one cycle of P after the  *)
(* other, with one node always parked where the cycle was entered.         *)
(*                                                                         *)
(* A node's vector and label move together and are stood for by the id the *)
(* node had before.  Nobody else uses the index meanwhile.                 *)
(*                                                                         *)
(* A definition marked "Faulty" stands before the one it distorts and is   *)
(* used nowhere else.                                                      *)
(***************************************************************************)
EXTENDS Integers

CONSTANTS
    NumNodes,    \* _cur_num_nodes
    M,           \* _M
    Graphs,      \* the graphs that may be relabelled
    StaleMarks   \* whether the cleared visited set may still show old marks

Nodes == 0 .. NumNodes - 1
Slots == 0 .. M - 1

ASSUME RelabelSizes == NumNodes \in Nat /\ M \in Nat
ASSUME RelabelGraphs == Graphs \subseteq [Nodes -> [Slots -> Nodes]]
ASSUME RelabelMarks == StaleMarks \in BOOLEAN

Permutations == {p \in [Nodes -> Nodes] : \A m, n \in Nodes : p[m] = p[n] => m = n}

VARIABLES
    P,        \* the reordering
    links0,   \* the links before the call
    id,       \* id[p], which node now lies at place p
    links,    \* links[p], its link slots
    visited,  \* the visited set: places that have been dealt with
    n,        \* the loop variable
    dest,     \* dest
    pc        \* "rewire", "scan", "cycle" or "done"

vars == <<P, links0, id, links, visited, n, dest, pc>>

Init ==
    /\ P \in Permutations
    /\ links0 \in Graphs
    /\ id = [p \in Nodes |-> p]
    /\ links = links0
    /\ visited = {}
    /\ n = 0
    /\ dest = 0
    /\ pc = "rewire"

\* Faulty: an empty slot still names the place its node lay at.
RewireLinksOnly ==
    /\ pc = "rewire"
    /\ links' = [p \in Nodes |-> [s \in Slots |-> IF links[p][s] = p THEN p ELSE P[links[p][s]]]]
    /\ visited' \in IF StaleMarks THEN SUBSET Nodes ELSE {{}}
    /\ pc' = "scan"
    /\ UNCHANGED <<P, links0, id, n, dest>>

\* Rename the links, then poll a visited set and clear it.
Rewire ==
    /\ pc = "rewire"
    /\ links' = [p \in Nodes |-> [s \in Slots |-> P[links[p][s]]]]
    /\ visited' \in IF StaleMarks THEN SUBSET Nodes ELSE {{}}
    /\ pc' = "scan"
    /\ UNCHANGED <<P, links0, id, n, dest>>

\* Faulty: the node at b is not kept.
SwapOneWay(a, b) ==
    /\ id' = [id EXCEPT ![b] = id[a]]
    /\ links' = [links EXCEPT ![b] = links[a]]

\* Faulty: the links stay where they are.
SwapDataOnly(a, b) ==
    /\ id' = [id EXCEPT ![a] = id[b], ![b] = id[a]]
    /\ UNCHANGED links

\* swapNodes
Swap(a, b) ==
    /\ id' = [id EXCEPT ![a] = id[b], ![b] = id[a]]
    /\ links' = [links EXCEPT ![a] = links[b], ![b] = links[a]]

\* Faulty: n is not incremented.
SkipPlaceForever ==
    /\ pc = "scan"
    /\ n \in visited
    /\ UNCHANGED <<P, links0, id, links, visited, n, dest, pc>>

SkipPlace ==
    /\ pc = "scan"
    /\ n \in visited
    /\ n' = n + 1
    /\ UNCHANGED <<P, links0, id, links, visited, dest, pc>>

EnterCycle ==
    /\ pc = "scan"
    /\ n < NumNodes /\ n \notin visited
    /\ dest' = P[n]
    /\ Swap(n, P[n])
    /\ visited' = visited \cup {n}
    /\ pc' = "cycle"
    /\ UNCHANGED <<P, links0, n>>

\* Faulty: the swap precedes dest = P[dest].
FollowCycleBehind ==
    /\ pc = "cycle"
    /\ dest \notin visited
    /\ visited' = visited \cup {dest}
    /\ Swap(n, dest)
    /\ dest' = P[dest]
    /\ UNCHANGED <<P, links0, n, pc>>

FollowCycle ==
    /\ pc = "cycle"
    /\ dest \notin visited
    /\ visited' = visited \cup {dest}
    /\ dest' = P[dest]
    /\ Swap(n, P[dest])
    /\ UNCHANGED <<P, links0, n, pc>>

LeaveCycle ==
    /\ pc = "cycle"
    /\ dest \in visited
    /\ n' = n + 1
    /\ pc' = "scan"
    /\ UNCHANGED <<P, links0, id, links, visited, dest>>

Finish ==
    /\ pc = "scan"
    /\ n >= NumNodes
    /\ pc' = "done"
    /\ UNCHANGED <<P, links0, id, links, visited, n, dest>>

Next == Rewire \/ SkipPlace \/ EnterCycle \/ FollowCycle \/ LeaveCycle \/ Finish

Spec == Init /\ [][Next]_vars

-----------------------------------------------------------------------------
(* Properties. *)

TypeOK ==
    /\ P \in Permutations
    /\ links0 \in [Nodes -> [Slots -> Nodes]]
    /\ id \in Permutations
    /\ links \in [Nodes -> [Slots -> Nodes]]
    /\ visited \in SUBSET Nodes
    /\ n \in 0 .. NumNodes
    /\ dest \in Nodes \cup {0}
    /\ pc \in {"rewire", "scan", "cycle", "done"}

\* A node takes its links along wherever it is swapped, under their new names.
LinksTravelWithNodes ==
    pc # "rewire" => \A p \in Nodes, s \in Slots : links[p][s] = P[links0[id[p]][s]]

\* When relabel returns every node lies where the reordering wants it, so the
\* graph is the old one with its nodes renamed.
EveryNodeInPlace == pc = "done" => \A m \in Nodes : id[P[m]] = m

=============================================================================
