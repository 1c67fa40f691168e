-------------------------- MODULE IndexBuildProofs --------------------------
(***************************************************************************)
(* Proofs about IndexBuild, for any number of workers, rows and links, any *)
(* distances, and with or without stale marks in the visited sets: first   *)
(* its locks and scans, then what construction leaves behind, which is     *)
(* every row in one node, no neighbor twice in a node, no node without a   *)
(* link out, and no link past the slots of a node.                         *)
(***************************************************************************)
EXTENDS IndexBuild, FiniteSetTheorems, FunctionTheorems, WellFoundedInduction, TLAPS

-----------------------------------------------------------------------------
(* The inductive invariant.                                                *)
(*                                                                         *)
(* Why the waits of connectNeighbors are ordered.  Links only join a node  *)
(* that is being connected to nodes its search has seen, and the search    *)
(* began below the node.  So the nodes fall into classes closed under      *)
(* links, each named by a lower bound of its members, and a node whose     *)
(* connection has not begun still names its own class: until then nothing  *)
(* links out of that class.  What a worker has seen lies in one class,     *)
(* named by a smaller node than its own.  A neighbor that another worker   *)
(* begins to connect later names a class the worker has seen, so it is     *)
(* smaller; and one that was being connected already could not have been   *)
(* scanned, because its mutex was held, and the search scans every         *)
(* neighbor it returns.                                                    *)

\* A worker is beyond the test of the row counter.
HasRow(t) == pc[t] \in {"check", "alloc"} \/ Building(t)

RowInv == \A t \in Threads : HasRow(t) => row[t] \in Rows

NodeInv ==
    /\ \A t \in Threads : Building(t) => node[t] \in Allocated
    /\ \A t, u \in Threads : Building(t) /\ Building(u) /\ node[t] = node[u] => t = u

AtInv ==
    \A t \in Threads :
        /\ pc[t] \in {"lock", "scan"} => at[t] \in Allocated
        /\ pc[t] = "scan" => slot[t] \in Slots
        /\ pc[t] = "back" => at[t] \in nbrs[t]

\* A mutex is held exactly by the worker connecting its node or scanning it.
OwnerInv ==
    /\ \A t \in Threads : Connecting(t) => owner[node[t]] = t
    /\ \A t \in Threads : pc[t] = "scan" => owner[at[t]] = t
    /\ \A n \in Nodes, t \in Threads :
        owner[n] = t => \/ Connecting(t) /\ n = node[t]
                        \/ pc[t] = "scan" /\ n = at[t]

\* The nodes a worker has met that can still reach its node's links.
Seen(t) == cand[t] \cup nbrs[t] \cup (IF pc[t] \in {"lock", "scan"} THEN {at[t]} ELSE {})

\* class[n] names the class of node n.
ClassesFit(class) ==
    /\ \A n \in Allocated : class[n] <= n
    /\ \A n \in Allocated, s \in Slots : class[links[n][s]] = class[n]
    /\ \A t \in Threads : Searching(t) \/ pc[t] = "own" => class[node[t]] = node[t]
    /\ \A t \in Threads : Building(t) => \A x \in Seen(t) : class[x] < node[t]
    /\ \A t \in Threads : Building(t) => \A x, y \in Seen(t) : class[x] = class[y]
    /\ \A t \in Threads : Connecting(t) => \A x \in Seen(t) : class[x] = class[node[t]]

ClassInv == \E class \in [Allocated -> Allocated] : ClassesFit(class)

\* Whoever is connecting n is connecting a smaller node than t's.
Below(t, n) == \A u \in Threads : Connecting(u) /\ node[u] = n => n < node[t]

BelowInv ==
    /\ \A t \in Threads : Searching(t) =>
        \A n \in nbrs[t] : n \in cand[t] \/ (pc[t] = "lock" /\ n = at[t]) \/ Below(t, n)
    /\ \A t \in Threads : pc[t] = "own" \/ Connecting(t) => \A n \in nbrs[t] : Below(t, n)

IInv == TypeOK /\ RowInv /\ NodeInv /\ AtInv /\ OwnerInv /\ ClassInv /\ BelowInv

-----------------------------------------------------------------------------
(* Facts about the operators of the model. *)

\* selectNeighbors returns nodes of the queue it was given.
LEMMA SelectionsAreSubsets ==
    ASSUME NEW r, NEW S, NEW m, NEW R \in Selections(r, S, m)
    PROVE  R \subseteq S
BY DEF Selections

\* A full beam drops one member and gains none.
LEMMA TrimmedAreSubsets ==
    ASSUME NEW r, NEW S, NEW R \in Trimmed(r, S)
    PROVE  R \subseteq S
BY DEF Trimmed

\* After a back-connection the neighbor's slots hold what they held before,
\* the new node, or the neighbor itself.
LEMMA BackLinkedHolds ==
    ASSUME NEW t \in Threads, NEW n \in Allocated, NEW a \in BackLinked(t, n),
           links \in [Allocated -> [Slots -> Allocated]]
    PROVE  /\ a \in [Slots -> OutLinks(n) \cup {n, node[t]}]
<1>1. CASE n \in {links[n][s] : s \in Slots}
  <2>1. PICK s \in Slots : a = [links[n] EXCEPT ![s] = node[t]]
    BY <1>1 DEF BackLinked
  <2>2. \A u \in Slots : links[n][u] \in OutLinks(n) \cup {n}
    BY DEF OutLinks
  <2>. QED BY <2>1, <2>2
<1>2. CASE n \notin {links[n][s] : s \in Slots}
  <2>1. PICK R \in Selections(vec[n], OutLinks(n) \cup {node[t]}, M) : a \in Rewritten(n, R)
    BY <1>2 DEF BackLinked
  <2>2. R \subseteq OutLinks(n) \cup {node[t]}
    BY <2>1, SelectionsAreSubsets
  <2>3. a \in [Slots -> R \cup {n}]
    BY <2>1 DEF Rewritten
  <2>. QED BY <2>2, <2>3
<1>. QED BY <1>1, <1>2

\* One turn of a scan adds at most the link target to the scanner's queues;
\* a node it puts into the beam is also a candidate.
LEMMA VisitLinkQueues ==
    ASSUME TypeOK, NEW t \in Threads, VisitLink(t)
    PROVE  LET n == links[at[t]][slot[t]]
           IN  /\ cand[t] \subseteq cand'[t]
               /\ cand'[t] \subseteq cand[t] \cup {n}
               /\ nbrs'[t] \subseteq nbrs[t] \cup {n}
               /\ nbrs'[t] \subseteq nbrs[t] \cup cand'[t]
               /\ \A u \in Threads \ {t} : cand'[u] = cand[u] /\ nbrs'[u] = nbrs[u]
<1>. DEFINE n == links[at[t]][slot[t]]
<1>1. \/ cand' = cand /\ nbrs' = nbrs
      \/ /\ cand' = [cand EXCEPT ![t] = @ \cup {n}]
         /\ \E kept \in Trimmed(row[t], nbrs[t] \cup {n}) : nbrs' = [nbrs EXCEPT ![t] = kept]
  BY DEF VisitLink, Consider
<1>. HIDE DEF n
<1>2. \A kept \in Trimmed(row[t], nbrs[t] \cup {n}) : kept \subseteq nbrs[t] \cup {n}
  BY TrimmedAreSubsets
<1>3. /\ cand[t] \subseteq cand'[t]
      /\ cand'[t] \subseteq cand[t] \cup {n}
      /\ nbrs'[t] \subseteq nbrs[t] \cup {n}
      /\ nbrs'[t] \subseteq nbrs[t] \cup cand'[t]
      /\ \A u \in Threads \ {t} : cand'[u] = cand[u] /\ nbrs'[u] = nbrs[u]
  <2>1. CASE cand' = cand /\ nbrs' = nbrs
    BY <2>1
  <2>2. ASSUME cand' = [cand EXCEPT ![t] = @ \cup {n}],
               NEW kept \in Trimmed(row[t], nbrs[t] \cup {n}), nbrs' = [nbrs EXCEPT ![t] = kept]
        PROVE  /\ cand[t] \subseteq cand'[t]
               /\ cand'[t] \subseteq cand[t] \cup {n}
               /\ nbrs'[t] \subseteq nbrs[t] \cup {n}
               /\ nbrs'[t] \subseteq nbrs[t] \cup cand'[t]
               /\ \A u \in Threads \ {t} : cand'[u] = cand[u] /\ nbrs'[u] = nbrs[u]
    <3>1. cand'[t] = cand[t] \cup {n} /\ nbrs'[t] = kept
          /\ \A u \in Threads \ {t} : cand'[u] = cand[u] /\ nbrs'[u] = nbrs[u]
      BY <2>2 DEF TypeOK
    <3>. QED BY <1>2, <3>1
  <2>. QED BY <1>1, <2>1, <2>2
<1>. QED BY <1>3 DEF n

\* No node is allocated beyond the memory.
LEMMA AllocatedInNodes == TypeOK => Allocated \subseteq Nodes
BY SizesAssumption DEF TypeOK, Allocated, Nodes

-----------------------------------------------------------------------------
(* Type correctness. *)

\* The first state has its types.
LEMMA InitType == Init => TypeOK
BY SizesAssumption, ThreadsAssumption
   DEF Init, TypeOK, Allocated, Nodes, Rows, Slots, Labels

\* A link target that is an allocated node keeps the queues well typed.
LEMMA ConsiderType ==
    ASSUME TypeOK, NEW t \in Threads, NEW n \in Allocated, Consider(t, n)
    PROVE  /\ visited' \in [Threads -> SUBSET Allocated]
           /\ cand' \in [Threads -> SUBSET Allocated]
           /\ nbrs' \in [Threads -> SUBSET Allocated]
<1>1. cand' = cand \/ cand' = [cand EXCEPT ![t] = @ \cup {n}]
  BY DEF Consider
<1>2. visited' = [visited EXCEPT ![t] = @ \cup {n}]
  BY DEF Consider
<1>3. nbrs' = nbrs \/ \E kept \in Trimmed(row[t], nbrs[t] \cup {n}) :
                          nbrs' = [nbrs EXCEPT ![t] = kept]
  BY DEF Consider
<1>4. \A kept \in Trimmed(row[t], nbrs[t] \cup {n}) : kept \subseteq Allocated
  BY TrimmedAreSubsets DEF TypeOK
<1>5. visited' \in [Threads -> SUBSET Allocated]
  BY <1>2 DEF TypeOK
<1>6. cand' \in [Threads -> SUBSET Allocated]
  <2>1. CASE cand' = cand
    BY <2>1 DEF TypeOK
  <2>2. CASE cand' = [cand EXCEPT ![t] = @ \cup {n}]
    BY <2>2 DEF TypeOK
  <2>. QED BY <1>1, <2>1, <2>2
<1>7. nbrs' \in [Threads -> SUBSET Allocated]
  BY <1>3, <1>4 DEF TypeOK
<1>. QED BY <1>5, <1>6, <1>7

\* RowInv says that the row a worker stores is one of the batch.
LEMMA NextType ==
    ASSUME TypeOK, RowInv, NodeInv, AtInv, [Next]_vars
    PROVE  TypeOK'
<1>. USE DEF Allocated
<1>1. ASSUME NEW t \in Threads, FetchRow(t) PROVE TypeOK'
  <2>1. current' \in Nat
    BY <1>1 DEF FetchRow, TypeOK
  <2>2. row' \in [Threads -> Nat] /\ pc' \in [Threads -> Labels]
    <3>1. CASE current < NumRows
      BY <1>1, <3>1 DEF FetchRow, TypeOK, Goto, Labels
    <3>2. CASE ~(current < NumRows)
      BY <1>1, <3>2 DEF FetchRow, TypeOK, Goto, Labels
    <3>. QED BY <3>1, <3>2
  <2>. QED BY <1>1, <2>1, <2>2 DEF FetchRow, TypeOK
<1>2. ASSUME NEW t \in Threads, CheckCapacity(t) PROVE TypeOK'
  BY <1>2 DEF CheckCapacity, TypeOK, Running, Goto, Labels
<1>3. ASSUME NEW t \in Threads, RejectFull(t) PROVE TypeOK'
  BY <1>3 DEF RejectFull, TypeOK
<1>4. ASSUME NEW t \in Threads, Store(t), row[t] \in Rows, curNumNodes < Capacity
      PROVE  /\ curNumNodes' \in 0 .. Capacity
             /\ vec' \in [Allocated' -> Rows]
             /\ links' \in [Allocated' -> [Slots -> Allocated']]
             /\ node' \in [Threads -> Nat]
             /\ Allocated \subseteq Allocated'
  <2>1. curNumNodes \in Nat /\ curNumNodes' = curNumNodes + 1 /\ curNumNodes' \in 0 .. Capacity
    BY <1>4, SizesAssumption DEF Store, TypeOK
  <2>2. Allocated' = 0 .. curNumNodes /\ Allocated \subseteq Allocated'
    BY <2>1
  <2>3. vec' \in [Allocated' -> Rows]
    BY <1>4, <2>1, <2>2 DEF Store, TypeOK
  <2>4. links' \in [Allocated' -> [Slots -> Allocated']]
    <3>1. \A n \in 0 .. curNumNodes : n # curNumNodes => links[n] \in [Slots -> Allocated']
      BY <2>1, <2>2 DEF TypeOK
    <3>. QED BY <1>4, <2>1, <2>2, <3>1 DEF Store
  <2>. QED BY <1>4, <2>1, <2>2, <2>3, <2>4 DEF Store, TypeOK
<1>5. ASSUME NEW t \in Threads, AllocateFirst(t) PROVE TypeOK'
  <2>1. Store(t) /\ row[t] \in Rows /\ curNumNodes < Capacity
    BY <1>5 DEF AllocateFirst, RowInv, HasRow, Running
  <2>. QED BY <1>4, <1>5, <2>1 DEF AllocateFirst, TypeOK, Goto, Labels
<1>6. ASSUME NEW t \in Threads, AllocateNode(t) PROVE TypeOK'
  <2>1. Store(t) /\ row[t] \in Rows /\ curNumNodes < Capacity
    BY <1>6 DEF AllocateNode, RowInv, HasRow, Running
  <2>2. PICK e \in EntryNodes(row[t]), marks \in MarksAfterClear :
            /\ cand' = [cand EXCEPT ![t] = {e}]
            /\ nbrs' = [nbrs EXCEPT ![t] = {e}]
            /\ visited' = [visited EXCEPT ![t] = marks \cup {e}]
    BY <1>6 DEF AllocateNode
  <2>3. e \in Allocated /\ marks \subseteq Allocated
    BY DEF EntryNodes, Closest, SampledNodes, MarksAfterClear
  <2>4. Allocated \subseteq Allocated'
    BY <1>4, <2>1
  <2>5. /\ cand' \in [Threads -> SUBSET Allocated']
        /\ nbrs' \in [Threads -> SUBSET Allocated']
        /\ visited' \in [Threads -> SUBSET Allocated']
    BY <2>2, <2>3, <2>4 DEF TypeOK
  <2>. QED BY <1>4, <1>6, <2>1, <2>5 DEF AllocateNode, TypeOK, Goto, Labels
<1>7. ASSUME NEW t \in Threads, Overrun(t) PROVE TypeOK'
  BY <1>7 DEF Overrun, TypeOK
<1>8. ASSUME NEW t \in Threads, PopCandidate(t) PROVE TypeOK'
  BY <1>8 DEF PopCandidate, TypeOK, Running, Goto, Labels, Closest
<1>9. ASSUME NEW t \in Threads, LockCandidate(t) PROVE TypeOK'
  BY <1>9 DEF LockCandidate, TypeOK, Running, Goto, Labels
<1>10. ASSUME NEW t \in Threads, VisitLink(t) PROVE TypeOK'
  <2>. DEFINE n == links[at[t]][slot[t]]
  <2>1. n \in Allocated
    BY <1>10 DEF VisitLink, Running, AtInv, TypeOK
  <2>2. /\ visited' \in [Threads -> SUBSET Allocated]
        /\ cand' \in [Threads -> SUBSET Allocated]
        /\ nbrs' \in [Threads -> SUBSET Allocated]
    <3>1. CASE n \in visited[t]
      BY <1>10, <3>1 DEF VisitLink, TypeOK
    <3>2. CASE n \notin visited[t]
      <4>1. Consider(t, n)
        BY <1>10, <3>2 DEF VisitLink
      <4>. QED BY <2>1, <4>1, ConsiderType
    <3>. QED BY <3>1, <3>2
  <2>3. slot' \in [Threads -> Nat] /\ owner' \in [Nodes -> Threads \cup {Free}]
        /\ pc' \in [Threads -> Labels]
    <3>1. CASE slot[t] < M - 1
      <4>1. slot' = [slot EXCEPT ![t] = @ + 1] /\ owner' = owner /\ pc' = pc
        BY <1>10, <3>1 DEF VisitLink
      <4>. QED BY <4>1 DEF TypeOK
    <3>2. CASE ~(slot[t] < M - 1)
      <4>1. owner' = [owner EXCEPT ![at[t]] = Free]
            /\ pc' = [pc EXCEPT ![t] = "search"] /\ slot' = slot
        BY <1>10, <3>2 DEF VisitLink, Goto
      <4>. QED BY <4>1 DEF TypeOK, Labels
    <3>. QED BY <3>1, <3>2
  <2>. QED BY <1>10, <2>2, <2>3 DEF VisitLink, TypeOK
<1>11. ASSUME NEW t \in Threads, EndSearch(t) PROVE TypeOK'
  <2>1. nbrs' \in [Threads -> SUBSET Allocated]
    BY <1>11, SelectionsAreSubsets DEF EndSearch, TypeOK
  <2>. QED BY <1>11, <2>1 DEF EndSearch, TypeOK, Goto, Labels
<1>12. ASSUME NEW t \in Threads, LockOwn(t) PROVE TypeOK'
  BY <1>12 DEF LockOwn, TypeOK, Goto, Labels
<1>13. ASSUME NEW t \in Threads, PickNeighbor(t) PROVE TypeOK'
  <2>1. PICK n \in nbrs[t] : /\ at' = [at EXCEPT ![t] = n]
                             /\ links' = [links EXCEPT ![node[t]][slot[t]] = n]
    BY <1>13 DEF PickNeighbor, Furthest
  <2>2. n \in Allocated
    BY DEF TypeOK
  <2>3. links' \in [Allocated -> [Slots -> Allocated]]
    BY <2>1, <2>2 DEF TypeOK
  <2>4. at' \in [Threads -> Nat]
    BY <2>1, <2>2 DEF TypeOK
  <2>. QED BY <1>13, <2>3, <2>4 DEF PickNeighbor, TypeOK, Goto, Labels
<1>14. ASSUME NEW t \in Threads, BackLink(t) PROVE TypeOK'
  <2>1. at[t] \in Allocated /\ node[t] \in Allocated
    BY <1>14 DEF BackLink, Running, AtInv, NodeInv, Building, Connecting, TypeOK
  <2>2. PICK a \in BackLinked(t, at[t]) : links' = [links EXCEPT ![at[t]] = a]
    BY <1>14 DEF BackLink
  <2>3. a \in [Slots -> Allocated]
    <3>1. OutLinks(at[t]) \subseteq Allocated
      BY <2>1 DEF OutLinks, TypeOK
    <3>2. a \in [Slots -> OutLinks(at[t]) \cup {at[t], node[t]}]
      BY <2>1, <2>2, BackLinkedHolds DEF TypeOK
    <3>. QED BY <2>1, <3>1, <3>2
  <2>4. links' \in [Allocated -> [Slots -> Allocated]]
    BY <2>2, <2>3 DEF TypeOK
  <2>. QED BY <1>14, <2>4 DEF BackLink, TypeOK, Goto, Labels
<1>15. ASSUME NEW t \in Threads, FinishConnect(t) PROVE TypeOK'
  BY <1>15 DEF FinishConnect, TypeOK, Goto, Labels
<1>16. CASE Join
  BY <1>16 DEF Join, TypeOK
<1>17. CASE UNCHANGED vars
  BY <1>17 DEF vars, TypeOK
<1>. QED
  BY <1>1, <1>2, <1>3, <1>5, <1>6, <1>7, <1>8, <1>9, <1>10, <1>11, <1>12, <1>13,
     <1>14, <1>15, <1>16, <1>17 DEF Next, Step, Ended

-----------------------------------------------------------------------------
\* The row counter hands out rows of the batch.
LEMMA NextRow ==
    ASSUME TypeOK, RowInv, [Next]_vars
    PROVE  RowInv'
<1>1. ASSUME NEW t \in Threads, FetchRow(t) PROVE RowInv'
  <2>1. CASE current < NumRows
    BY <1>1, <2>1, SizesAssumption DEF FetchRow, RowInv, HasRow, TypeOK, Rows, Building, Searching, Connecting, Running, Goto
  <2>2. CASE ~(current < NumRows)
    BY <1>1, <2>2 DEF FetchRow, RowInv, HasRow, TypeOK, Building, Searching, Connecting, Running, Goto
  <2>. QED BY <2>1, <2>2
<1>2. ASSUME NEW t \in Threads, CheckCapacity(t) PROVE RowInv'
  BY <1>2 DEF CheckCapacity, RowInv, HasRow, TypeOK, Building, Searching, Connecting, Running, Goto
<1>3. ASSUME NEW t \in Threads, RejectFull(t) PROVE RowInv'
  BY <1>3 DEF RejectFull, RowInv, HasRow, TypeOK, Building, Searching, Connecting, Running, Goto
<1>4. ASSUME NEW t \in Threads, AllocateFirst(t) PROVE RowInv'
  BY <1>4 DEF AllocateFirst, Store, RowInv, HasRow, TypeOK, Building, Searching, Connecting, Running, Goto
<1>5. ASSUME NEW t \in Threads, AllocateNode(t) PROVE RowInv'
  BY <1>5 DEF AllocateNode, Store, RowInv, HasRow, TypeOK, Building, Searching, Connecting, Running, Goto
<1>6. ASSUME NEW t \in Threads, Overrun(t) PROVE RowInv'
  BY <1>6 DEF Overrun, RowInv, HasRow, TypeOK, Building, Searching, Connecting, Running, Goto
<1>7. ASSUME NEW t \in Threads, PopCandidate(t) PROVE RowInv'
  BY <1>7 DEF PopCandidate, RowInv, HasRow, TypeOK, Building, Searching, Connecting, Running, Goto
<1>8. ASSUME NEW t \in Threads, LockCandidate(t) PROVE RowInv'
  BY <1>8 DEF LockCandidate, RowInv, HasRow, TypeOK, Building, Searching, Connecting, Running, Goto
<1>9. ASSUME NEW t \in Threads, VisitLink(t) PROVE RowInv'
  BY <1>9 DEF VisitLink, RowInv, HasRow, TypeOK, Building, Searching, Connecting, Running, Goto
<1>10. ASSUME NEW t \in Threads, EndSearch(t) PROVE RowInv'
  BY <1>10 DEF EndSearch, RowInv, HasRow, TypeOK, Building, Searching, Connecting, Running, Goto
<1>11. ASSUME NEW t \in Threads, LockOwn(t) PROVE RowInv'
  BY <1>11 DEF LockOwn, RowInv, HasRow, TypeOK, Building, Searching, Connecting, Running, Goto
<1>12. ASSUME NEW t \in Threads, PickNeighbor(t) PROVE RowInv'
  BY <1>12 DEF PickNeighbor, RowInv, HasRow, TypeOK, Building, Searching, Connecting, Running, Goto
<1>13. ASSUME NEW t \in Threads, BackLink(t) PROVE RowInv'
  BY <1>13 DEF BackLink, RowInv, HasRow, TypeOK, Building, Searching, Connecting, Running, Goto
<1>14. ASSUME NEW t \in Threads, FinishConnect(t) PROVE RowInv'
  BY <1>14 DEF FinishConnect, RowInv, HasRow, TypeOK, Building, Searching, Connecting, Running, Goto
<1>15. CASE Join
  BY <1>15 DEF Join, RowInv, HasRow, TypeOK, Building, Searching, Connecting, Running, Goto
<1>16. CASE UNCHANGED vars
  BY <1>16 DEF vars, RowInv, HasRow, TypeOK, Building, Searching, Connecting, Running, Goto
<1>. QED
  BY <1>1, <1>2, <1>3, <1>4, <1>5, <1>6, <1>7, <1>8, <1>9, <1>10, <1>11, <1>12, <1>13, <1>14, <1>15, <1>16 DEF Next, Step, Ended

-----------------------------------------------------------------------------
\* A step that begins no construction leaves every worker its node.
LEMMA NodesKept ==
    ASSUME NodeInv, curNumNodes' = curNumNodes, node' = node,
           \A u \in Threads : Building(u)' => Building(u)
    PROVE  NodeInv'
  BY DEF NodeInv, Allocated

\* Every node is built by one worker.
LEMMA NextNode ==
    ASSUME TypeOK, NodeInv, [Next]_vars
    PROVE  NodeInv'
<1>1. ASSUME NEW t \in Threads, FetchRow(t) PROVE NodeInv'
  <2>1. pc' = [pc EXCEPT ![t] = "check"] \/ pc' = [pc EXCEPT ![t] = "done"]
    BY <1>1 DEF FetchRow, Goto
  <2>2. /\ curNumNodes' = curNumNodes /\ node' = node
        /\ \A u \in Threads : Building(u)' => Building(u)
    BY <1>1, <2>1 DEF FetchRow, TypeOK, Building, Searching, Connecting
  <2>. QED BY <2>2, NodesKept
<1>2. ASSUME NEW t \in Threads, CheckCapacity(t) PROVE NodeInv'
  <2>1. /\ curNumNodes' = curNumNodes /\ node' = node
        /\ \A u \in Threads : Building(u)' => Building(u)
    BY <1>2 DEF CheckCapacity, TypeOK, Building, Searching, Connecting, Running, Goto
  <2>. QED BY <2>1, NodesKept
<1>3. ASSUME NEW t \in Threads, RejectFull(t) PROVE NodeInv'
  <2>1. /\ curNumNodes' = curNumNodes /\ node' = node
        /\ \A u \in Threads : Building(u)' => Building(u)
    BY <1>3 DEF RejectFull, TypeOK, Building, Searching, Connecting, Running, Goto
  <2>. QED BY <2>1, NodesKept
<1>4. ASSUME NEW t \in Threads, AllocateFirst(t) PROVE NodeInv'
  BY <1>4 DEF AllocateFirst, Store, NodeInv, Allocated, TypeOK, Building, Searching, Connecting, Running, Goto
<1>5. ASSUME NEW t \in Threads, AllocateNode(t) PROVE NodeInv'
  BY <1>5 DEF AllocateNode, Store, NodeInv, Allocated, TypeOK, Building, Searching, Connecting, Running, Goto
<1>6. ASSUME NEW t \in Threads, Overrun(t) PROVE NodeInv'
  <2>1. /\ curNumNodes' = curNumNodes /\ node' = node
        /\ \A u \in Threads : Building(u)' => Building(u)
    BY <1>6 DEF Overrun, TypeOK, Building, Searching, Connecting, Running, Goto
  <2>. QED BY <2>1, NodesKept
<1>7. ASSUME NEW t \in Threads, PopCandidate(t) PROVE NodeInv'
  <2>1. /\ curNumNodes' = curNumNodes /\ node' = node
        /\ \A u \in Threads : Building(u)' => Building(u)
    BY <1>7 DEF PopCandidate, TypeOK, Building, Searching, Connecting, Running, Goto
  <2>. QED BY <2>1, NodesKept
<1>8. ASSUME NEW t \in Threads, LockCandidate(t) PROVE NodeInv'
  <2>1. /\ curNumNodes' = curNumNodes /\ node' = node
        /\ \A u \in Threads : Building(u)' => Building(u)
    BY <1>8 DEF LockCandidate, TypeOK, Building, Searching, Connecting, Running, Goto
  <2>. QED BY <2>1, NodesKept
<1>9. ASSUME NEW t \in Threads, VisitLink(t) PROVE NodeInv'
  <2>1. /\ curNumNodes' = curNumNodes /\ node' = node
        /\ \A u \in Threads : Building(u)' => Building(u)
    BY <1>9 DEF VisitLink, TypeOK, Building, Searching, Connecting, Running, Goto
  <2>. QED BY <2>1, NodesKept
<1>10. ASSUME NEW t \in Threads, EndSearch(t) PROVE NodeInv'
  <2>1. /\ curNumNodes' = curNumNodes /\ node' = node
        /\ \A u \in Threads : Building(u)' => Building(u)
    BY <1>10 DEF EndSearch, TypeOK, Building, Searching, Connecting, Running, Goto
  <2>. QED BY <2>1, NodesKept
<1>11. ASSUME NEW t \in Threads, LockOwn(t) PROVE NodeInv'
  <2>1. /\ curNumNodes' = curNumNodes /\ node' = node
        /\ \A u \in Threads : Building(u)' => Building(u)
    BY <1>11 DEF LockOwn, TypeOK, Building, Searching, Connecting, Running, Goto
  <2>. QED BY <2>1, NodesKept
<1>12. ASSUME NEW t \in Threads, PickNeighbor(t) PROVE NodeInv'
  <2>1. /\ curNumNodes' = curNumNodes /\ node' = node
        /\ \A u \in Threads : Building(u)' => Building(u)
    BY <1>12 DEF PickNeighbor, TypeOK, Building, Searching, Connecting, Running, Goto
  <2>. QED BY <2>1, NodesKept
<1>13. ASSUME NEW t \in Threads, BackLink(t) PROVE NodeInv'
  <2>1. /\ curNumNodes' = curNumNodes /\ node' = node
        /\ \A u \in Threads : Building(u)' => Building(u)
    BY <1>13 DEF BackLink, TypeOK, Building, Searching, Connecting, Running, Goto
  <2>. QED BY <2>1, NodesKept
<1>14. ASSUME NEW t \in Threads, FinishConnect(t) PROVE NodeInv'
  <2>1. /\ curNumNodes' = curNumNodes /\ node' = node
        /\ \A u \in Threads : Building(u)' => Building(u)
    BY <1>14 DEF FinishConnect, TypeOK, Building, Searching, Connecting, Running, Goto
  <2>. QED BY <2>1, NodesKept
<1>15. CASE Join
  BY <1>15 DEF Join, NodeInv, TypeOK, Allocated, Building, Searching, Connecting, Running, Goto
<1>16. CASE UNCHANGED vars
  BY <1>16 DEF vars, NodeInv, TypeOK, Allocated, Building, Searching, Connecting, Running, Goto
<1>. QED
  BY <1>1, <1>2, <1>3, <1>4, <1>5, <1>6, <1>7, <1>8, <1>9, <1>10, <1>11, <1>12, <1>13, <1>14, <1>15, <1>16 DEF Next, Step, Ended

-----------------------------------------------------------------------------
\* Where a scan or a back-connection stands.
LEMMA NextAt ==
    ASSUME TypeOK, AtInv, [Next]_vars
    PROVE  AtInv'
<1>1. ASSUME NEW t \in Threads, FetchRow(t) PROVE AtInv'
  BY <1>1 DEF FetchRow, AtInv, TypeOK, Allocated, Building, Searching, Connecting, Running, Goto
<1>2. ASSUME NEW t \in Threads, CheckCapacity(t) PROVE AtInv'
  BY <1>2 DEF CheckCapacity, AtInv, TypeOK, Allocated, Building, Searching, Connecting, Running, Goto
<1>3. ASSUME NEW t \in Threads, RejectFull(t) PROVE AtInv'
  BY <1>3 DEF RejectFull, AtInv, TypeOK, Allocated, Building, Searching, Connecting, Running, Goto
<1>4. ASSUME NEW t \in Threads, AllocateFirst(t) PROVE AtInv'
  BY <1>4 DEF AllocateFirst, Store, AtInv, Allocated, TypeOK, Building, Searching, Connecting, Running, Goto
<1>5. ASSUME NEW t \in Threads, AllocateNode(t) PROVE AtInv'
  BY <1>5 DEF AllocateNode, Store, AtInv, Allocated, TypeOK, Building, Searching, Connecting, Running, Goto
<1>6. ASSUME NEW t \in Threads, Overrun(t) PROVE AtInv'
  BY <1>6 DEF Overrun, AtInv, TypeOK, Allocated, Building, Searching, Connecting, Running, Goto
<1>7. ASSUME NEW t \in Threads, PopCandidate(t) PROVE AtInv'
  <2>1. PICK c \in cand[t] : at' = [at EXCEPT ![t] = c]
    BY <1>7 DEF PopCandidate, Closest
  <2>2. c \in Allocated
    BY DEF TypeOK
  <2>. QED BY <1>7, <2>1, <2>2 DEF PopCandidate, AtInv, TypeOK, Allocated, Building, Searching, Connecting, Running, Goto
<1>8. ASSUME NEW t \in Threads, LockCandidate(t) PROVE AtInv'
  BY <1>8, SizesAssumption DEF LockCandidate, AtInv, Slots, Allocated, TypeOK, Building, Searching, Connecting, Running, Goto
<1>9. ASSUME NEW t \in Threads, VisitLink(t) PROVE AtInv'
  <2>1. CASE slot[t] < M - 1
    <3>1. /\ slot' = [slot EXCEPT ![t] = @ + 1] /\ pc' = pc /\ at' = at
          /\ curNumNodes' = curNumNodes /\ pc[t] = "scan"
      BY <1>9, <2>1 DEF VisitLink, Running
    <3>2. \A u \in Threads : u # t => nbrs'[u] = nbrs[u]
      BY <1>9 DEF VisitLink, Consider, TypeOK
    <3>3. slot[t] + 1 \in Slots
      BY <2>1, <3>1, SizesAssumption DEF AtInv, Slots
    <3>. QED BY <3>1, <3>2, <3>3 DEF AtInv, Allocated, TypeOK
  <2>2. CASE ~(slot[t] < M - 1)
    <3>1. /\ slot' = slot /\ pc' = [pc EXCEPT ![t] = "search"] /\ at' = at
          /\ curNumNodes' = curNumNodes
      BY <1>9, <2>2 DEF VisitLink, Goto
    <3>2. \A u \in Threads : u # t => nbrs'[u] = nbrs[u]
      BY <1>9 DEF VisitLink, Consider, TypeOK
    <3>. QED BY <3>1, <3>2 DEF AtInv, Allocated, TypeOK
  <2>. QED BY <2>1, <2>2
<1>10. ASSUME NEW t \in Threads, EndSearch(t) PROVE AtInv'
  BY <1>10 DEF EndSearch, AtInv, TypeOK, Allocated, Building, Searching, Connecting, Running, Goto
<1>11. ASSUME NEW t \in Threads, LockOwn(t) PROVE AtInv'
  BY <1>11 DEF LockOwn, AtInv, TypeOK, Allocated, Building, Searching, Connecting, Running, Goto
<1>12. ASSUME NEW t \in Threads, PickNeighbor(t) PROVE AtInv'
  <2>1. PICK n \in nbrs[t] : at' = [at EXCEPT ![t] = n]
    BY <1>12 DEF PickNeighbor, Furthest
  <2>. QED BY <1>12, <2>1 DEF PickNeighbor, AtInv, Allocated, TypeOK, Building, Searching, Connecting, Running, Goto
<1>13. ASSUME NEW t \in Threads, BackLink(t) PROVE AtInv'
  BY <1>13 DEF BackLink, AtInv, TypeOK, Allocated, Building, Searching, Connecting, Running, Goto
<1>14. ASSUME NEW t \in Threads, FinishConnect(t) PROVE AtInv'
  BY <1>14 DEF FinishConnect, AtInv, TypeOK, Allocated, Building, Searching, Connecting, Running, Goto
<1>15. CASE Join
  BY <1>15 DEF Join, AtInv, TypeOK, Allocated, Building, Searching, Connecting, Running, Goto
<1>16. CASE UNCHANGED vars
  BY <1>16 DEF vars, AtInv, TypeOK, Allocated, Building, Searching, Connecting, Running, Goto
<1>. QED
  BY <1>1, <1>2, <1>3, <1>4, <1>5, <1>6, <1>7, <1>8, <1>9, <1>10, <1>11, <1>12, <1>13, <1>14, <1>15, <1>16 DEF Next, Step, Ended

-----------------------------------------------------------------------------
\* Mutexes are held by those who connect or scan.
LEMMA NextOwner ==
    ASSUME TypeOK, NodeInv, AtInv, OwnerInv, [Next]_vars
    PROVE  OwnerInv'
<1>1. ASSUME NEW t \in Threads, FetchRow(t) PROVE OwnerInv'
  BY <1>1 DEF FetchRow, OwnerInv, TypeOK, Building, Searching, Connecting, Running, Goto
<1>2. ASSUME NEW t \in Threads, CheckCapacity(t) PROVE OwnerInv'
  BY <1>2 DEF CheckCapacity, OwnerInv, TypeOK, Building, Searching, Connecting, Running, Goto
<1>3. ASSUME NEW t \in Threads, RejectFull(t) PROVE OwnerInv'
  BY <1>3 DEF RejectFull, OwnerInv, TypeOK, Building, Searching, Connecting, Running, Goto
<1>4. ASSUME NEW t \in Threads, AllocateFirst(t) PROVE OwnerInv'
  BY <1>4 DEF AllocateFirst, Store, OwnerInv, TypeOK, Building, Searching, Connecting, Running, Goto
<1>5. ASSUME NEW t \in Threads, AllocateNode(t) PROVE OwnerInv'
  BY <1>5 DEF AllocateNode, Store, OwnerInv, TypeOK, Building, Searching, Connecting, Running, Goto
<1>6. ASSUME NEW t \in Threads, Overrun(t) PROVE OwnerInv'
  BY <1>6 DEF Overrun, OwnerInv, TypeOK, Building, Searching, Connecting, Running, Goto
<1>7. ASSUME NEW t \in Threads, PopCandidate(t) PROVE OwnerInv'
  BY <1>7 DEF PopCandidate, OwnerInv, TypeOK, Building, Searching, Connecting, Running, Goto
<1>8. ASSUME NEW t \in Threads, LockCandidate(t) PROVE OwnerInv'
  <2>1. at[t] \in Nodes
    BY <1>8, AllocatedInNodes DEF LockCandidate, Running, AtInv
  <2>2. /\ owner[at[t]] = Free /\ owner' = [owner EXCEPT ![at[t]] = t]
        /\ pc[t] = "lock" /\ pc' = [pc EXCEPT ![t] = "scan"] /\ at' = at /\ node' = node
    BY <1>8 DEF LockCandidate, Running, Goto
  <2>. QED BY <2>1, <2>2, ThreadsAssumption DEF OwnerInv, Connecting, TypeOK
<1>9. ASSUME NEW t \in Threads, VisitLink(t) PROVE OwnerInv'
  <2>1. pc[t] = "scan" /\ owner[at[t]] = t /\ at[t] \in Nodes /\ at' = at /\ node' = node
    BY <1>9, AllocatedInNodes DEF VisitLink, Running, OwnerInv, AtInv
  <2>2. CASE slot[t] < M - 1
    BY <1>9, <2>1, <2>2 DEF VisitLink, OwnerInv, Connecting
  <2>3. CASE ~(slot[t] < M - 1)
    <3>1. owner' = [owner EXCEPT ![at[t]] = Free] /\ pc' = [pc EXCEPT ![t] = "search"]
      BY <1>9, <2>3 DEF VisitLink, Goto
    <3>. QED BY <2>1, <3>1, ThreadsAssumption DEF OwnerInv, Connecting, TypeOK
  <2>. QED BY <2>2, <2>3
<1>10. ASSUME NEW t \in Threads, EndSearch(t) PROVE OwnerInv'
  BY <1>10 DEF EndSearch, OwnerInv, TypeOK, Building, Searching, Connecting, Running, Goto
<1>11. ASSUME NEW t \in Threads, LockOwn(t) PROVE OwnerInv'
  <2>1. node[t] \in Nodes
    BY <1>11, AllocatedInNodes DEF LockOwn, Running, NodeInv, Building
  <2>2. /\ owner[node[t]] = Free /\ owner' = [owner EXCEPT ![node[t]] = t]
        /\ pc[t] = "own" /\ pc' = [pc EXCEPT ![t] = "pick"] /\ at' = at /\ node' = node
    BY <1>11 DEF LockOwn, Running, Goto
  <2>. QED BY <2>1, <2>2, ThreadsAssumption DEF OwnerInv, Connecting, TypeOK
<1>12. ASSUME NEW t \in Threads, PickNeighbor(t) PROVE OwnerInv'
  BY <1>12 DEF PickNeighbor, OwnerInv, TypeOK, Building, Searching, Connecting, Running, Goto
<1>13. ASSUME NEW t \in Threads, BackLink(t) PROVE OwnerInv'
  BY <1>13 DEF BackLink, OwnerInv, TypeOK, Building, Searching, Connecting, Running, Goto
<1>14. ASSUME NEW t \in Threads, FinishConnect(t) PROVE OwnerInv'
  <2>1. pc[t] = "pick" /\ owner[node[t]] = t /\ at' = at /\ node' = node
    BY <1>14 DEF FinishConnect, Running, OwnerInv, Connecting
  <2>2. owner' = [owner EXCEPT ![node[t]] = Free] /\ pc' = [pc EXCEPT ![t] = "fetch"]
    BY <1>14 DEF FinishConnect, Goto
  <2>3. node[t] \in Nodes
    BY <2>1, AllocatedInNodes DEF NodeInv, Building, Connecting
  <2>. QED BY <2>1, <2>2, <2>3, ThreadsAssumption DEF OwnerInv, Connecting, TypeOK
<1>15. CASE Join
  BY <1>15 DEF Join, OwnerInv, TypeOK, Building, Searching, Connecting, Running, Goto
<1>16. CASE UNCHANGED vars
  BY <1>16 DEF vars, OwnerInv, TypeOK, Building, Searching, Connecting, Running, Goto
<1>. QED
  BY <1>1, <1>2, <1>3, <1>4, <1>5, <1>6, <1>7, <1>8, <1>9, <1>10, <1>11, <1>12, <1>13, <1>14, <1>15, <1>16 DEF Next, Step, Ended

-----------------------------------------------------------------------------
(* The classes of nodes. *)

\* A search sees only nodes that exist.
LEMMA SeenAllocated ==
    ASSUME TypeOK, AtInv, NEW t \in Threads
    PROVE  Seen(t) \subseteq Allocated
BY DEF Seen, AtInv, TypeOK

\* Steps that store no node and begin no connection keep the classes, if new
\* links and newly seen nodes stay in the class of what was there.
LEMMA ClassesKept ==
    ASSUME NEW class \in [Allocated -> Allocated], ClassesFit(class),
           curNumNodes' = curNumNodes, node' = node,
           \A n \in Allocated, s \in Slots : class[links'[n][s]] = class[n],
           \A u \in Threads :
                /\ Building(u)' => Building(u)
                /\ (Searching(u) \/ pc[u] = "own")' => Searching(u) \/ pc[u] = "own"
                /\ Connecting(u)' => Connecting(u)
                /\ Building(u)' => \A x \in Seen(u)' : \E y \in Seen(u) : class[x] = class[y]
    PROVE  ClassInv'
<1>. Allocated' = Allocated
  BY DEF Allocated
<1>1. \A n \in Allocated' : class[n] <= n
  BY DEF ClassesFit
<1>2. \A n \in Allocated', s \in Slots : class[links'[n][s]] = class[n]
  OBVIOUS
<1>3. \A u \in Threads : (Searching(u) \/ pc[u] = "own")' => class[node'[u]] = node'[u]
  BY DEF ClassesFit
<1>4. \A u \in Threads : Building(u)' => \A x \in Seen(u)' : class[x] < node'[u]
  <2>. SUFFICES ASSUME NEW u \in Threads, Building(u)', NEW x \in Seen(u)'
                PROVE  class[x] < node'[u]
    OBVIOUS
  <2>1. PICK y \in Seen(u) : class[x] = class[y]
    OBVIOUS
  <2>. QED BY <2>1 DEF ClassesFit
<1>5. \A u \in Threads : Building(u)' => \A x, y \in Seen(u)' : class[x] = class[y]
  <2>. SUFFICES ASSUME NEW u \in Threads, Building(u)', NEW x \in Seen(u)', NEW y \in Seen(u)'
                PROVE  class[x] = class[y]
    OBVIOUS
  <2>1. PICK x0 \in Seen(u), y0 \in Seen(u) : class[x] = class[x0] /\ class[y] = class[y0]
    OBVIOUS
  <2>. QED BY <2>1 DEF ClassesFit
<1>6. \A u \in Threads : Connecting(u)' => \A x \in Seen(u)' : class[x] = class[node'[u]]
  <2>. SUFFICES ASSUME NEW u \in Threads, Connecting(u)', NEW x \in Seen(u)'
                PROVE  class[x] = class[node'[u]]
    OBVIOUS
  <2>1. Building(u)'
    BY DEF Building
  <2>2. PICK y \in Seen(u) : class[x] = class[y]
    BY <2>1
  <2>. QED BY <2>2 DEF ClassesFit
<1>7. ClassesFit(class)'
  BY <1>1, <1>2, <1>3, <1>4, <1>5, <1>6 DEF ClassesFit
<1>. QED BY <1>7 DEF ClassInv

\* A new node is a class of its own.
LEMMA ClassesGrow ==
    ASSUME TypeOK, NodeInv, AtInv, ClassInv, NEW t \in Threads, Store(t), ~Building(t),
           \A u \in Threads \ {t} : /\ pc'[u] = pc[u] /\ Seen(u)' = Seen(u),
           Building(t)' => Searching(t)' /\ \E e \in Allocated : Seen(t)' = {e}
    PROVE  ClassInv'
<1>1. PICK class \in [Allocated -> Allocated] : ClassesFit(class)
  BY DEF ClassInv
<1>2. curNumNodes \in Nat /\ Allocated' = 0 .. curNumNodes /\ Allocated = 0 .. curNumNodes - 1
  BY DEF Store, TypeOK, Allocated
<1>3. PICK grown \in [Allocated' -> Allocated'] :
        grown[curNumNodes] = curNumNodes /\ \A n \in Allocated : grown[n] = class[n]
  <2>. DEFINE g == [n \in 0 .. curNumNodes |-> IF n = curNumNodes THEN n ELSE class[n]]
  <2>1. g \in [Allocated' -> Allocated'] /\ g[curNumNodes] = curNumNodes
        /\ \A n \in Allocated : g[n] = class[n]
    BY <1>2
  <2>. QED BY <2>1
<1>4. \A u \in Threads \ {t} :
        /\ Building(u)' <=> Building(u)
        /\ Searching(u)' <=> Searching(u)
        /\ Connecting(u)' <=> Connecting(u)
        /\ node'[u] = node[u]
        /\ Building(u) => node[u] \in Allocated /\ Seen(u) \subseteq Allocated
  <2>1. \A u \in Threads : Building(u) => node[u] \in Allocated /\ Seen(u) \subseteq Allocated
    BY SeenAllocated DEF NodeInv
  <2>. QED BY <2>1 DEF Building, Searching, Connecting, Store, TypeOK
<1>5. node'[t] = curNumNodes
  BY DEF Store, TypeOK
<1>6. ClassesFit(grown)'
  <2>1. \A n \in Allocated' : grown[n] <= n
    BY <1>1, <1>2, <1>3 DEF ClassesFit
  <2>2. \A n \in Allocated', s \in Slots : grown[links'[n][s]] = grown[n]
    <3>1. \A n \in Allocated, s \in Slots :
            links'[n][s] = links[n][s] /\ links[n][s] \in Allocated
      BY <1>2 DEF Store, TypeOK
    <3>2. \A s \in Slots : links'[curNumNodes][s] = curNumNodes
      BY <1>2 DEF Store
    <3>. SUFFICES ASSUME NEW n \in Allocated', NEW s \in Slots
                  PROVE  grown[links'[n][s]] = grown[n]
      OBVIOUS
    <3>3. CASE n = curNumNodes
      BY <3>2, <3>3
    <3>4. CASE n \in Allocated
      BY <1>1, <1>3, <3>1, <3>4 DEF ClassesFit
    <3>. QED BY <1>2, <3>3, <3>4
  <2>3. \A u \in Threads : (Searching(u) \/ pc[u] = "own")' => grown[node'[u]] = node'[u]
    BY <1>1, <1>3, <1>4, <1>5 DEF ClassesFit, Building
  <2>4. \A u \in Threads : Building(u)' => \A x \in Seen(u)' : grown[x] < node'[u]
    BY <1>1, <1>2, <1>3, <1>4, <1>5 DEF ClassesFit
  <2>5. \A u \in Threads : Building(u)' => \A x, y \in Seen(u)' : grown[x] = grown[y]
    BY <1>1, <1>3, <1>4 DEF ClassesFit
  <2>6. \A u \in Threads : Connecting(u)' => \A x \in Seen(u)' : grown[x] = grown[node'[u]]
    BY <1>1, <1>3, <1>4 DEF ClassesFit, Building, Searching, Connecting
  <2>. QED BY <2>1, <2>2, <2>3, <2>4, <2>5, <2>6 DEF ClassesFit
<1>. QED BY <1>3, <1>6 DEF ClassInv

\* The new node's class merges into that of its neighbors when its worker
\* begins to connect it.
LEMMA ClassesMerge ==
    ASSUME TypeOK, NodeInv, AtInv, ClassInv, NEW t \in Threads, LockOwn(t)
    PROVE  ClassInv'
<1>1. PICK class \in [Allocated -> Allocated] : ClassesFit(class)
  BY DEF ClassInv
<1>2. /\ curNumNodes' = curNumNodes /\ node' = node /\ links' = links
      /\ pc[t] = "own" /\ pc' = [pc EXCEPT ![t] = "pick"]
      /\ cand' = cand /\ nbrs' = nbrs /\ at' = at
  BY DEF LockOwn, Running, Goto
<1>3. node[t] \in Allocated /\ class[node[t]] = node[t]
  BY <1>1, <1>2 DEF NodeInv, Building, ClassesFit
<1>4. \A u \in Threads :
        /\ Seen(u)' = Seen(u) /\ Seen(u) \subseteq Allocated
        /\ Building(u)' <=> Building(u)
        /\ Building(u) => node[u] \in Allocated
        /\ (Searching(u) \/ pc[u] = "own")' => u # t /\ (Searching(u) \/ pc[u] = "own")
        /\ Connecting(u)' => u = t \/ Connecting(u)
  BY <1>2, SeenAllocated DEF Seen, Building, Searching, Connecting, NodeInv, TypeOK
<1>5. PICK r \in Allocated : /\ r <= node[t]
                             /\ \A x \in Seen(t) : class[x] = r /\ r # node[t]
  <2>1. CASE Seen(t) = {}
    BY <1>3, <2>1 DEF TypeOK, Allocated
  <2>2. CASE Seen(t) # {}
    <3>1. PICK x \in Seen(t) : TRUE
      BY <2>2
    <3>2. \A y \in Seen(t) : class[y] = class[x]
      BY <1>1, <1>2, <3>1 DEF ClassesFit, Building
    <3>3. x \in Allocated /\ class[x] \in Allocated /\ class[x] < node[t]
      BY <1>1, <1>2, <1>4, <3>1 DEF ClassesFit, Building
    <3>4. class[x] <= node[t] /\ class[x] # node[t]
      BY <1>3, <3>3 DEF Allocated
    <3>. QED BY <3>2, <3>3, <3>4
  <2>. QED BY <2>1, <2>2
<1>6. PICK merged \in [Allocated -> Allocated] :
        \A n \in Allocated : merged[n] = IF class[n] = node[t] THEN r ELSE class[n]
  <2>1. [n \in Allocated |-> IF class[n] = node[t] THEN r ELSE class[n]] \in [Allocated -> Allocated]
    OBVIOUS
  <2>. QED BY <2>1
<1>7. \A n \in Allocated : merged[n] <= class[n]
  BY <1>5, <1>6 DEF Allocated
<1>8. Allocated' = Allocated
  BY <1>2 DEF Allocated
<1>9. ClassesFit(merged)'
  <2>1. \A n \in Allocated : merged[n] <= n
    BY <1>1, <1>7 DEF ClassesFit, Allocated
  <2>2. \A n \in Allocated, s \in Slots : merged[links[n][s]] = merged[n]
    <3>1. \A n \in Allocated, s \in Slots : links[n][s] \in Allocated /\ class[links[n][s]] = class[n]
      BY <1>1 DEF ClassesFit, TypeOK
    <3>. QED BY <1>6, <3>1
  <2>3. \A u \in Threads : (Searching(u) \/ pc[u] = "own")' => merged[node[u]] = node[u]
    <3>. SUFFICES ASSUME NEW u \in Threads, (Searching(u) \/ pc[u] = "own")'
                  PROVE  merged[node[u]] = node[u]
      OBVIOUS
    <3>1. u # t /\ (Searching(u) \/ pc[u] = "own")
      BY <1>4
    <3>2. node[u] # node[t]
      BY <1>2, <3>1 DEF NodeInv, Building
    <3>3. class[node[u]] = node[u] /\ node[u] \in Allocated
      BY <1>1, <3>1 DEF ClassesFit, NodeInv, Building
    <3>. QED BY <1>6, <3>2, <3>3
  <2>4. \A u \in Threads : Building(u)' => \A x \in Seen(u)' : merged[x] < node[u]
    <3>. SUFFICES ASSUME NEW u \in Threads, Building(u)', NEW x \in Seen(u)'
                  PROVE  merged[x] < node[u]
      OBVIOUS
    <3>1. x \in Allocated /\ x \in Seen(u) /\ Building(u) /\ node[u] \in Allocated
      BY <1>4
    <3>2. class[x] < node[u]
      BY <1>1, <3>1 DEF ClassesFit
    <3>3. merged[x] \in Int /\ class[x] \in Int /\ node[u] \in Int /\ merged[x] <= class[x]
      BY <1>7, <3>1 DEF Allocated
    <3>. QED BY <3>2, <3>3
  <2>5. \A u \in Threads : Building(u)' => \A x, y \in Seen(u)' : merged[x] = merged[y]
    BY <1>1, <1>4, <1>6 DEF ClassesFit
  <2>6. \A u \in Threads : Connecting(u)' => \A x \in Seen(u)' : merged[x] = merged[node[u]]
    <3>. SUFFICES ASSUME NEW u \in Threads, Connecting(u)', NEW x \in Seen(u)'
                  PROVE  merged[x] = merged[node[u]]
      OBVIOUS
    <3>1. x \in Seen(u) /\ x \in Allocated
      BY <1>4
    <3>2. CASE u = t
      BY <1>3, <1>5, <1>6, <3>1, <3>2
    <3>3. CASE u # t
      <4>1. Connecting(u)
        BY <1>4, <3>3
      <4>2. node[u] \in Allocated /\ class[x] = class[node[u]]
        BY <1>1, <3>1, <4>1 DEF ClassesFit, NodeInv, Building
      <4>. QED BY <1>6, <3>1, <4>2
    <3>. QED BY <3>2, <3>3
  <2>. QED BY <1>2, <1>8, <2>1, <2>2, <2>3, <2>4, <2>5, <2>6 DEF ClassesFit
<1>. QED BY <1>8, <1>9 DEF ClassInv

\* No step breaks the classes.
LEMMA NextClass ==
    ASSUME TypeOK, RowInv, NodeInv, AtInv, OwnerInv, ClassInv, [Next]_vars
    PROVE  ClassInv'
<1>0. PICK class \in [Allocated -> Allocated] : ClassesFit(class)
  BY DEF ClassInv
<1>1. ASSUME NEW t \in Threads, FetchRow(t) PROVE ClassInv'
  <2>1. /\ curNumNodes' = curNumNodes /\ node' = node /\ links' = links
        /\ \A u \in Threads : /\ Building(u)' => Building(u) /\ Seen(u)' \subseteq Seen(u)
                              /\ (Searching(u) \/ pc[u] = "own")' => Searching(u) \/ pc[u] = "own"
                              /\ Connecting(u)' => Connecting(u)
    BY <1>1 DEF FetchRow, Running, Goto, Building, Searching, Connecting, Seen, TypeOK
  <2>. QED BY <1>0, <2>1, ClassesKept DEF ClassesFit
<1>2. ASSUME NEW t \in Threads, CheckCapacity(t) PROVE ClassInv'
  <2>1. /\ curNumNodes' = curNumNodes /\ node' = node /\ links' = links
        /\ \A u \in Threads : /\ Building(u)' => Building(u) /\ Seen(u)' \subseteq Seen(u)
                              /\ (Searching(u) \/ pc[u] = "own")' => Searching(u) \/ pc[u] = "own"
                              /\ Connecting(u)' => Connecting(u)
    BY <1>2 DEF CheckCapacity, Running, Goto, Building, Searching, Connecting, Seen, TypeOK
  <2>. QED BY <1>0, <2>1, ClassesKept DEF ClassesFit
<1>3. ASSUME NEW t \in Threads, RejectFull(t) PROVE ClassInv'
  <2>1. /\ curNumNodes' = curNumNodes /\ node' = node /\ links' = links
        /\ \A u \in Threads : /\ Building(u)' => Building(u) /\ Seen(u)' \subseteq Seen(u)
                              /\ (Searching(u) \/ pc[u] = "own")' => Searching(u) \/ pc[u] = "own"
                              /\ Connecting(u)' => Connecting(u)
    BY <1>3 DEF RejectFull, Running, Goto, Building, Searching, Connecting, Seen, TypeOK
  <2>. QED BY <1>0, <2>1, ClassesKept DEF ClassesFit
<1>4. ASSUME NEW t \in Threads, AllocateFirst(t) PROVE ClassInv'
  <2>1. /\ Store(t) /\ ~Building(t) /\ ~Building(t)'
        /\ \A u \in Threads \ {t} : pc'[u] = pc[u] /\ Seen(u)' = Seen(u)
    BY <1>4 DEF AllocateFirst, Running, Goto, Building, Searching, Connecting, Seen, TypeOK
  <2>. QED BY <2>1, ClassesGrow
<1>5. ASSUME NEW t \in Threads, AllocateNode(t) PROVE ClassInv'
  <2>1. PICK e \in Allocated : cand' = [cand EXCEPT ![t] = {e}] /\ nbrs' = [nbrs EXCEPT ![t] = {e}]
    BY <1>5 DEF AllocateNode, EntryNodes, Closest, SampledNodes
  <2>2. /\ Store(t) /\ ~Building(t) /\ Searching(t)' /\ Seen(t)' = {e}
        /\ \A u \in Threads \ {t} : pc'[u] = pc[u] /\ Seen(u)' = Seen(u)
    BY <1>5, <2>1 DEF AllocateNode, Running, Goto, Building, Searching, Connecting, Seen, TypeOK
  <2>. QED BY <2>2, ClassesGrow
<1>6. ASSUME NEW t \in Threads, Overrun(t) PROVE ClassInv'
  <2>1. /\ curNumNodes' = curNumNodes /\ node' = node /\ links' = links
        /\ \A u \in Threads : /\ Building(u)' => Building(u) /\ Seen(u)' \subseteq Seen(u)
                              /\ (Searching(u) \/ pc[u] = "own")' => Searching(u) \/ pc[u] = "own"
                              /\ Connecting(u)' => Connecting(u)
    BY <1>6 DEF Overrun, Running, Goto, Building, Searching, Connecting, Seen, TypeOK
  <2>. QED BY <1>0, <2>1, ClassesKept DEF ClassesFit
<1>7. ASSUME NEW t \in Threads, PopCandidate(t) PROVE ClassInv'
  <2>1. PICK c \in cand[t] : at' = [at EXCEPT ![t] = c] /\ cand' = [cand EXCEPT ![t] = @ \ {c}]
    BY <1>7 DEF PopCandidate, Closest
  <2>2. /\ curNumNodes' = curNumNodes /\ node' = node /\ links' = links
        /\ \A u \in Threads : /\ Building(u)' => Building(u) /\ Seen(u)' \subseteq Seen(u)
                              /\ (Searching(u) \/ pc[u] = "own")' => Searching(u) \/ pc[u] = "own"
                              /\ Connecting(u)' => Connecting(u)
    BY <1>7, <2>1 DEF PopCandidate, Running, Goto, Building, Searching, Connecting, Seen, TypeOK
  <2>. QED BY <1>0, <2>2, ClassesKept DEF ClassesFit
<1>8. ASSUME NEW t \in Threads, LockCandidate(t) PROVE ClassInv'
  <2>1. /\ curNumNodes' = curNumNodes /\ node' = node /\ links' = links
        /\ \A u \in Threads : /\ Building(u)' => Building(u) /\ Seen(u)' \subseteq Seen(u)
                              /\ (Searching(u) \/ pc[u] = "own")' => Searching(u) \/ pc[u] = "own"
                              /\ Connecting(u)' => Connecting(u)
    BY <1>8 DEF LockCandidate, Running, Goto, Building, Searching, Connecting, Seen, TypeOK
  <2>. QED BY <1>0, <2>1, ClassesKept DEF ClassesFit
<1>9. ASSUME NEW t \in Threads, VisitLink(t) PROVE ClassInv'
  <2>1. /\ curNumNodes' = curNumNodes /\ node' = node /\ links' = links /\ at' = at
        /\ pc[t] = "scan" /\ pc' \in {pc, [pc EXCEPT ![t] = "search"]}
    BY <1>9 DEF VisitLink, Running, Goto
  <2>2. PICK n \in Allocated : /\ class[n] = class[at[t]]
                               /\ cand'[t] \subseteq cand[t] \cup {n} /\ nbrs'[t] \subseteq nbrs[t] \cup {n}
                               /\ \A u \in Threads \ {t} : cand'[u] = cand[u] /\ nbrs'[u] = nbrs[u]
    <3>1. at[t] \in Allocated /\ slot[t] \in Slots
      BY <2>1 DEF AtInv
    <3>2. links[at[t]][slot[t]] \in Allocated /\ class[links[at[t]][slot[t]]] = class[at[t]]
      BY <1>0, <3>1 DEF ClassesFit, TypeOK
    <3>. QED BY <1>9, <3>2, VisitLinkQueues
  <2>3. \A u \in Threads \ {t} : Seen(u)' = Seen(u) /\ pc'[u] = pc[u]
    BY <2>1, <2>2 DEF Seen, TypeOK
  <2>4. Seen(t)' \subseteq Seen(t) \cup {n} /\ at[t] \in Seen(t) /\ Searching(t)' /\ Searching(t)
    BY <2>1, <2>2 DEF Seen, Searching, TypeOK
  <2>5. \A u \in Threads :
            /\ Building(u)' => Building(u)
            /\ (Searching(u) \/ pc[u] = "own")' => Searching(u) \/ pc[u] = "own"
            /\ Connecting(u)' => Connecting(u)
            /\ \A x \in Seen(u)' : \E y \in Seen(u) : class[x] = class[y]
    BY <2>1, <2>2, <2>3, <2>4 DEF Building, Searching, Connecting, TypeOK
  <2>. QED BY <1>0, <2>1, <2>5, ClassesKept DEF ClassesFit
<1>10. ASSUME NEW t \in Threads, EndSearch(t) PROVE ClassInv'
  <2>1. PICK R \in SUBSET nbrs[t] : nbrs' = [nbrs EXCEPT ![t] = R]
    BY <1>10, SelectionsAreSubsets DEF EndSearch
  <2>2. /\ curNumNodes' = curNumNodes /\ node' = node /\ links' = links
        /\ \A u \in Threads : /\ Building(u)' => Building(u) /\ Seen(u)' \subseteq Seen(u)
                              /\ (Searching(u) \/ pc[u] = "own")' => Searching(u) \/ pc[u] = "own"
                              /\ Connecting(u)' => Connecting(u)
    BY <1>10, <2>1 DEF EndSearch, Running, Goto, Building, Searching, Connecting, Seen, TypeOK
  <2>. QED BY <1>0, <2>2, ClassesKept DEF ClassesFit
<1>11. ASSUME NEW t \in Threads, LockOwn(t) PROVE ClassInv'
  BY <1>11, ClassesMerge
<1>12. ASSUME NEW t \in Threads, PickNeighbor(t) PROVE ClassInv'
  <2>1. PICK n \in nbrs[t] : links' = [links EXCEPT ![node[t]][slot[t]] = n]
    BY <1>12 DEF PickNeighbor, Furthest
  <2>2. pc[t] = "pick" /\ node[t] \in Allocated /\ n \in Seen(t)
    BY <1>12 DEF PickNeighbor, Running, NodeInv, Building, Connecting, Seen
  <2>3. class[n] = class[node[t]]
    BY <1>0, <2>2 DEF ClassesFit, Connecting
  <2>4. \A m \in Allocated, s \in Slots : class[links'[m][s]] = class[m]
    BY <1>0, <2>1, <2>2, <2>3 DEF ClassesFit, TypeOK
  <2>5. /\ curNumNodes' = curNumNodes /\ node' = node
        /\ \A u \in Threads : /\ Building(u)' => Building(u) /\ Seen(u)' \subseteq Seen(u)
                              /\ (Searching(u) \/ pc[u] = "own")' => Searching(u) \/ pc[u] = "own"
                              /\ Connecting(u)' => Connecting(u)
    BY <1>12 DEF PickNeighbor, Running, Goto, Building, Searching, Connecting, Seen, TypeOK
  <2>. QED BY <1>0, <2>4, <2>5, ClassesKept
<1>13. ASSUME NEW t \in Threads, BackLink(t) PROVE ClassInv'
  <2>1. /\ pc[t] = "back" /\ node[t] \in Allocated /\ at[t] \in Allocated
        /\ at[t] \in Seen(t) /\ Connecting(t)
    BY <1>13 DEF BackLink, Running, NodeInv, AtInv, Building, Connecting, Seen, TypeOK
  <2>2. PICK a \in BackLinked(t, at[t]) : links' = [links EXCEPT ![at[t]] = a]
    BY <1>13 DEF BackLink
  <2>3. \A s \in Slots : class[a[s]] = class[at[t]]
    <3>1. \A x \in OutLinks(at[t]) : class[x] = class[at[t]]
      BY <1>0, <2>1 DEF OutLinks, ClassesFit
    <3>2. class[node[t]] = class[at[t]]
      BY <1>0, <2>1 DEF ClassesFit
    <3>3. a \in [Slots -> OutLinks(at[t]) \cup {at[t], node[t]}]
      BY <2>1, <2>2, BackLinkedHolds DEF TypeOK
    <3>4. \A s \in Slots : a[s] \in OutLinks(at[t]) \cup {at[t], node[t]}
      BY <3>3
    <3>. QED BY <3>1, <3>2, <3>4
  <2>4. \A m \in Allocated, s \in Slots : class[links'[m][s]] = class[m]
    BY <1>0, <2>1, <2>2, <2>3 DEF ClassesFit, TypeOK
  <2>5. /\ curNumNodes' = curNumNodes /\ node' = node
        /\ \A u \in Threads : /\ Building(u)' => Building(u) /\ Seen(u)' \subseteq Seen(u)
                              /\ (Searching(u) \/ pc[u] = "own")' => Searching(u) \/ pc[u] = "own"
                              /\ Connecting(u)' => Connecting(u)
    BY <1>13 DEF BackLink, Running, Goto, Building, Searching, Connecting, Seen, TypeOK
  <2>. QED BY <1>0, <2>4, <2>5, ClassesKept
<1>14. ASSUME NEW t \in Threads, FinishConnect(t) PROVE ClassInv'
  <2>1. /\ curNumNodes' = curNumNodes /\ node' = node /\ links' = links
        /\ \A u \in Threads : /\ Building(u)' => Building(u) /\ Seen(u)' \subseteq Seen(u)
                              /\ (Searching(u) \/ pc[u] = "own")' => Searching(u) \/ pc[u] = "own"
                              /\ Connecting(u)' => Connecting(u)
    BY <1>14 DEF FinishConnect, Running, Goto, Building, Searching, Connecting, Seen, TypeOK
  <2>. QED BY <1>0, <2>1, ClassesKept DEF ClassesFit
<1>15. CASE Join
  <2>1. /\ curNumNodes' = curNumNodes /\ node' = node /\ links' = links
        /\ pc' = pc /\ \A u \in Threads : Seen(u)' = Seen(u)
    BY <1>15 DEF Join, Seen
  <2>. QED BY <1>0, <2>1, ClassesKept DEF ClassesFit, Building, Searching, Connecting
<1>16. CASE UNCHANGED vars
  <2>1. /\ curNumNodes' = curNumNodes /\ node' = node /\ links' = links
        /\ pc' = pc /\ \A u \in Threads : Seen(u)' = Seen(u)
    BY <1>16 DEF vars, Seen
  <2>. QED BY <1>0, <2>1, ClassesKept DEF ClassesFit, Building, Searching, Connecting
<1>. QED
  BY <1>1, <1>2, <1>3, <1>4, <1>5, <1>6, <1>7, <1>8, <1>9, <1>10, <1>11, <1>12, <1>13, <1>14, <1>15, <1>16 DEF Next, Step, Ended

-----------------------------------------------------------------------------
(* Whoever connects a neighbor connects a smaller node. *)

\* A worker that begins to connect its node is no threat to those who have
\* met that node: it names a class they have seen.
LEMMA NewConnectorIsBelow ==
    ASSUME TypeOK, NodeInv, AtInv, ClassInv, NEW t \in Threads, pc[t] = "own",
           NEW u \in Threads, Building(u), node[t] \in Seen(u)
    PROVE  node[t] < node[u]
<1>1. PICK class \in [Allocated -> Allocated] : ClassesFit(class)
  BY DEF ClassInv
<1>. QED BY <1>1 DEF ClassesFit

\* Steps that neither begin a connection nor give a worker another node.
LEMMA BelowKept ==
    ASSUME NEW t \in Threads, NEW n, Below(t, n), node'[t] = node[t],
           \A u \in Threads : Connecting(u)' => Connecting(u) /\ node'[u] = node[u]
    PROVE  Below(t, n)'
BY DEF Below

\* No step breaks the order of what a worker may wait for.
LEMMA NextBelow ==
    ASSUME TypeOK, RowInv, NodeInv, AtInv, OwnerInv, ClassInv, BelowInv, [Next]_vars
    PROVE  BelowInv'
<1>1. ASSUME NEW t \in Threads, FetchRow(t) PROVE BelowInv'
  <2>1. /\ node' = node
        /\ \A u \in Threads :
            /\ Connecting(u)' => Connecting(u)
            /\ Searching(u)' => Searching(u) /\ nbrs'[u] = nbrs[u] /\ cand'[u] = cand[u]
            /\ Searching(u)' => (pc[u] = "lock" <=> pc'[u] = "lock") /\ at'[u] = at[u]
            /\ (pc[u] = "own" \/ Connecting(u))' => /\ pc[u] = "own" \/ Connecting(u)
                                                  /\ nbrs'[u] \subseteq nbrs[u]
    BY <1>1 DEF FetchRow, Running, Goto, Searching, Connecting, TypeOK
  <2>. QED BY <2>1, BelowKept DEF BelowInv
<1>2. ASSUME NEW t \in Threads, CheckCapacity(t) PROVE BelowInv'
  <2>1. /\ node' = node
        /\ \A u \in Threads :
            /\ Connecting(u)' => Connecting(u)
            /\ Searching(u)' => Searching(u) /\ nbrs'[u] = nbrs[u] /\ cand'[u] = cand[u]
            /\ Searching(u)' => (pc[u] = "lock" <=> pc'[u] = "lock") /\ at'[u] = at[u]
            /\ (pc[u] = "own" \/ Connecting(u))' => /\ pc[u] = "own" \/ Connecting(u)
                                                  /\ nbrs'[u] \subseteq nbrs[u]
    BY <1>2 DEF CheckCapacity, Running, Goto, Searching, Connecting, TypeOK
  <2>. QED BY <2>1, BelowKept DEF BelowInv
<1>3. ASSUME NEW t \in Threads, RejectFull(t) PROVE BelowInv'
  <2>1. /\ node' = node
        /\ \A u \in Threads :
            /\ Connecting(u)' => Connecting(u)
            /\ Searching(u)' => Searching(u) /\ nbrs'[u] = nbrs[u] /\ cand'[u] = cand[u]
            /\ Searching(u)' => (pc[u] = "lock" <=> pc'[u] = "lock") /\ at'[u] = at[u]
            /\ (pc[u] = "own" \/ Connecting(u))' => /\ pc[u] = "own" \/ Connecting(u)
                                                  /\ nbrs'[u] \subseteq nbrs[u]
    BY <1>3 DEF RejectFull, Running, Goto, Searching, Connecting, TypeOK
  <2>. QED BY <2>1, BelowKept DEF BelowInv
<1>4. ASSUME NEW t \in Threads, AllocateFirst(t) PROVE BelowInv'
  <2>1. /\ ~Building(t) /\ ~Building(t)'
        /\ nbrs' = nbrs /\ cand' = cand /\ at' = at
        /\ \A u \in Threads \ {t} : node'[u] = node[u] /\ pc'[u] = pc[u]
    BY <1>4 DEF AllocateFirst, Store, Running, Goto, Building, Searching, Connecting, TypeOK
  <2>. QED BY <2>1, BelowKept DEF BelowInv, Building, Searching, Connecting
<1>5. ASSUME NEW t \in Threads, AllocateNode(t) PROVE BelowInv'
  <2>1. /\ ~Building(t) /\ Searching(t)' /\ nbrs'[t] = cand'[t]
        /\ \A u \in Threads \ {t} : /\ node'[u] = node[u] /\ pc'[u] = pc[u] /\ at'[u] = at[u]
                                    /\ nbrs'[u] = nbrs[u] /\ cand'[u] = cand[u]
    BY <1>5 DEF AllocateNode, Store, Running, Goto, Building, Searching, Connecting, TypeOK
  <2>2. \A u \in Threads : Connecting(u)' => Connecting(u) /\ u # t /\ node'[u] = node[u]
    BY <2>1 DEF Building, Searching, Connecting
  <2>3. \A u \in Threads \ {t} : \A n : Below(u, n) => Below(u, n)'
    BY <2>1, <2>2, BelowKept
  <2>. QED BY <2>1, <2>2, <2>3 DEF BelowInv, Searching, Connecting
<1>6. ASSUME NEW t \in Threads, Overrun(t) PROVE BelowInv'
  <2>1. /\ node' = node
        /\ \A u \in Threads :
            /\ Connecting(u)' => Connecting(u)
            /\ Searching(u)' => Searching(u) /\ nbrs'[u] = nbrs[u] /\ cand'[u] = cand[u]
            /\ Searching(u)' => (pc[u] = "lock" <=> pc'[u] = "lock") /\ at'[u] = at[u]
            /\ (pc[u] = "own" \/ Connecting(u))' => /\ pc[u] = "own" \/ Connecting(u)
                                                  /\ nbrs'[u] \subseteq nbrs[u]
    BY <1>6 DEF Overrun, Running, Goto, Searching, Connecting, TypeOK
  <2>. QED BY <2>1, BelowKept DEF BelowInv
<1>7. ASSUME NEW t \in Threads, PopCandidate(t) PROVE BelowInv'
  <2>1. PICK c \in cand[t] : at' = [at EXCEPT ![t] = c] /\ cand' = [cand EXCEPT ![t] = @ \ {c}]
    BY <1>7 DEF PopCandidate, Closest
  <2>2. /\ pc[t] = "search" /\ pc' = [pc EXCEPT ![t] = "lock"] /\ node' = node /\ nbrs' = nbrs
    BY <1>7 DEF PopCandidate, Running, Goto
  <2>3. \A u \in Threads : Connecting(u)' => Connecting(u)
    BY <2>2 DEF Connecting, TypeOK
  <2>4. \A u \in Threads : \A n : Below(u, n) => Below(u, n)'
    BY <2>2, <2>3, BelowKept
  <2>. QED BY <2>1, <2>2, <2>3, <2>4 DEF BelowInv, Searching, Connecting, TypeOK
<1>8. ASSUME NEW t \in Threads, LockCandidate(t) PROVE BelowInv'
  <2>1. /\ pc[t] = "lock" /\ owner[at[t]] = Free /\ pc' = [pc EXCEPT ![t] = "scan"]
        /\ node' = node /\ nbrs' = nbrs /\ cand' = cand /\ at' = at
    BY <1>8 DEF LockCandidate, Running, Goto
  <2>2. \A u \in Threads : Connecting(u)' => Connecting(u)
    BY <2>1 DEF Connecting, TypeOK
  <2>3. \A u \in Threads : \A n : Below(u, n) => Below(u, n)'
    BY <2>1, <2>2, BelowKept
  <2>4. Below(t, at[t])
    BY <2>1, ThreadsAssumption DEF Below, OwnerInv
  <2>. QED BY <2>1, <2>2, <2>3, <2>4 DEF BelowInv, Searching, Connecting, TypeOK
<1>9. ASSUME NEW t \in Threads, VisitLink(t) PROVE BelowInv'
  <2>1. /\ pc[t] = "scan" /\ pc' \in {pc, [pc EXCEPT ![t] = "search"]} /\ node' = node /\ at' = at
    BY <1>9 DEF VisitLink, Running, Goto
  <2>2. /\ cand[t] \subseteq cand'[t] /\ nbrs'[t] \subseteq nbrs[t] \cup cand'[t]
        /\ \A u \in Threads \ {t} : cand'[u] = cand[u] /\ nbrs'[u] = nbrs[u]
    BY <1>9, VisitLinkQueues
  <2>3. \A u \in Threads : /\ Connecting(u)' => Connecting(u)
                           /\ u # t => pc'[u] = pc[u]
    BY <2>1 DEF Connecting, TypeOK
  <2>4. \A u \in Threads : \A n : Below(u, n) => Below(u, n)'
    BY <2>1, <2>3, BelowKept
  <2>5. Searching(t) /\ pc[t] # "lock" /\ pc'[t] \in {"scan", "search"}
    BY <2>1 DEF Searching, TypeOK
  <2>6. \A n \in nbrs'[t] : n \in cand'[t] \/ Below(t, n)'
    BY <2>2, <2>4, <2>5 DEF BelowInv
  <2>. QED BY <2>1, <2>2, <2>3, <2>4, <2>5, <2>6 DEF BelowInv, Searching, Connecting
<1>10. ASSUME NEW t \in Threads, EndSearch(t) PROVE BelowInv'
  <2>1. PICK R \in SUBSET nbrs[t] : nbrs' = [nbrs EXCEPT ![t] = R]
    BY <1>10, SelectionsAreSubsets DEF EndSearch
  <2>2. /\ pc[t] = "search" /\ pc' = [pc EXCEPT ![t] = "own"] /\ node' = node /\ at' = at
        /\ cand' = [cand EXCEPT ![t] = {}]
    BY <1>10 DEF EndSearch, Running, Goto
  <2>3. \A n \in nbrs[t] : n \notin cand[t]
    <3>0. row[t] \in Rows
      BY <2>2 DEF RowInv, HasRow, Building, Searching
    <3>1. \A n \in Allocated : D(row[t], n) \in Int
      BY <3>0, DistAssumption DEF D, TypeOK
    <3>2. SearchOver(t) /\ nbrs[t] \subseteq Allocated
      BY <1>10 DEF EndSearch, TypeOK
    <3>. QED BY <3>1, <3>2 DEF SearchOver
  <2>4. \A u \in Threads : Connecting(u)' => Connecting(u)
    BY <2>2 DEF Connecting, TypeOK
  <2>5. \A u \in Threads : \A n : Below(u, n) => Below(u, n)'
    BY <2>2, <2>4, BelowKept
  <2>6. \A n \in R : Below(t, n)'
    BY <2>1, <2>2, <2>3, <2>5 DEF BelowInv, Searching
  <2>. QED BY <2>1, <2>2, <2>4, <2>5, <2>6 DEF BelowInv, Searching, Connecting, TypeOK
<1>11. ASSUME NEW t \in Threads, LockOwn(t) PROVE BelowInv'
  <2>1. /\ pc[t] = "own" /\ pc' = [pc EXCEPT ![t] = "pick"] /\ node' = node
        /\ nbrs' = nbrs /\ cand' = cand /\ at' = at
    BY <1>11 DEF LockOwn, Running, Goto
  <2>2. ASSUME NEW u \in Threads, Building(u), NEW n \in nbrs[u], Below(u, n)
        PROVE  Below(u, n)'
    <3>. SUFFICES ASSUME NEW w \in Threads, Connecting(w)', node[w] = n
                  PROVE  n < node[u]
      BY <2>1 DEF Below
    <3>1. CASE w = t
      BY <2>1, <2>2, <3>1, NewConnectorIsBelow DEF Seen
    <3>2. CASE w # t
      BY <2>1, <2>2, <3>2 DEF Below, Connecting, TypeOK
    <3>. QED BY <3>1, <3>2
  <2>. QED BY <2>1, <2>2 DEF BelowInv, Building, Searching, Connecting, TypeOK
<1>12. ASSUME NEW t \in Threads, PickNeighbor(t) PROVE BelowInv'
  <2>1. /\ node' = node
        /\ \A u \in Threads :
            /\ Connecting(u)' => Connecting(u)
            /\ Searching(u)' => Searching(u) /\ nbrs'[u] = nbrs[u] /\ cand'[u] = cand[u]
            /\ Searching(u)' => (pc[u] = "lock" <=> pc'[u] = "lock") /\ at'[u] = at[u]
            /\ (pc[u] = "own" \/ Connecting(u))' => /\ pc[u] = "own" \/ Connecting(u)
                                                  /\ nbrs'[u] \subseteq nbrs[u]
    BY <1>12 DEF PickNeighbor, Running, Goto, Searching, Connecting, TypeOK
  <2>. QED BY <2>1, BelowKept DEF BelowInv
<1>13. ASSUME NEW t \in Threads, BackLink(t) PROVE BelowInv'
  <2>1. /\ node' = node
        /\ \A u \in Threads :
            /\ Connecting(u)' => Connecting(u)
            /\ Searching(u)' => Searching(u) /\ nbrs'[u] = nbrs[u] /\ cand'[u] = cand[u]
            /\ Searching(u)' => (pc[u] = "lock" <=> pc'[u] = "lock") /\ at'[u] = at[u]
            /\ (pc[u] = "own" \/ Connecting(u))' => /\ pc[u] = "own" \/ Connecting(u)
                                                  /\ nbrs'[u] \subseteq nbrs[u]
    BY <1>13 DEF BackLink, Running, Goto, Searching, Connecting, TypeOK
  <2>. QED BY <2>1, BelowKept DEF BelowInv
<1>14. ASSUME NEW t \in Threads, FinishConnect(t) PROVE BelowInv'
  <2>1. /\ node' = node
        /\ \A u \in Threads :
            /\ Connecting(u)' => Connecting(u)
            /\ Searching(u)' => Searching(u) /\ nbrs'[u] = nbrs[u] /\ cand'[u] = cand[u]
            /\ Searching(u)' => (pc[u] = "lock" <=> pc'[u] = "lock") /\ at'[u] = at[u]
            /\ (pc[u] = "own" \/ Connecting(u))' => /\ pc[u] = "own" \/ Connecting(u)
                                                  /\ nbrs'[u] \subseteq nbrs[u]
    BY <1>14 DEF FinishConnect, Running, Goto, Searching, Connecting, TypeOK
  <2>. QED BY <2>1, BelowKept DEF BelowInv
<1>15. CASE Join
  BY <1>15 DEF Join, BelowInv, Below, Searching, Connecting
<1>16. CASE UNCHANGED vars
  BY <1>16 DEF vars, BelowInv, Below, Searching, Connecting
<1>. QED
  BY <1>1, <1>2, <1>3, <1>4, <1>5, <1>6, <1>7, <1>8, <1>9, <1>10, <1>11, <1>12, <1>13, <1>14, <1>15, <1>16 DEF Next, Step, Ended

-----------------------------------------------------------------------------
(* The theorems. *)

\* The invariant holds before any worker begins.
LEMMA InitIInv == Init => IInv
<1>. SUFFICES ASSUME Init PROVE IInv
  OBVIOUS
<1>1. TypeOK
  BY InitType
<1>2. Allocated = {}
  BY DEF Init, Allocated
<1>3. \A t \in Threads : pc[t] = "fetch"
  BY DEF Init
<1>4. RowInv /\ NodeInv /\ AtInv /\ BelowInv
  BY <1>3 DEF RowInv, HasRow, NodeInv, AtInv, BelowInv, Building, Searching, Connecting
<1>5. OwnerInv
  BY <1>3, ThreadsAssumption DEF Init, OwnerInv, Connecting
<1>6. ClassInv
  <2>. DEFINE none == [n \in Allocated |-> n]
  <2>1. none \in [Allocated -> Allocated]
    OBVIOUS
  <2>2. ClassesFit(none)
    BY <1>2, <1>3 DEF ClassesFit, Building, Searching, Connecting
  <2>. QED BY <2>1, <2>2 DEF ClassInv
<1>. QED BY <1>1, <1>4, <1>5, <1>6 DEF IInv

\* No step breaks the invariant.
LEMMA NextIInv == IInv /\ [Next]_vars => IInv'
BY NextType, NextRow, NextNode, NextAt, NextOwner, NextClass, NextBelow DEF IInv

\* The invariant holds throughout.
LEMMA Inductive == Spec => []IInv
BY InitIInv, NextIInv, PTL DEF Spec

\* Every variable keeps its type: links, candidates and neighbors are always
\* allocated nodes, whatever the interleaving of the workers.
THEOREM TypeCorrect == Spec => []TypeOK
<1>1. IInv => TypeOK
  BY DEF IInv
<1>. QED BY <1>1, Inductive, PTL

\* The waits of connectNeighbors go up in node ids: a worker that waits for the
\* mutex of a node another worker is connecting has the larger node.
THEOREM WaitsAreOrdered == Spec => []LockOrder
<1>1. IInv => LockOrder
  <2>. SUFFICES ASSUME IInv, NEW t \in Threads, NEW u \in Threads,
                       pc[t] = "back", Connecting(u), owner[at[t]] = u
                PROVE  node[u] < node[t]
    BY DEF LockOrder
  <2>1. at[t] \in nbrs[t] /\ at[t] \in Nodes
    BY AllocatedInNodes DEF IInv, AtInv, TypeOK
  <2>2. Below(t, at[t])
    BY <2>1 DEF IInv, BelowInv, Connecting
  <2>3. at[t] = node[u]
    BY <2>1 DEF IInv, OwnerInv, Connecting
  <2>. QED BY <2>2, <2>3 DEF Below
<1>. QED BY <1>1, Inductive, PTL

\* Every set of numbers has a least one.
LEMMA LeastExists ==
    ASSUME NEW S \in SUBSET Nat, S # {}
    PROVE  \E n \in S : \A k \in S : n <= k
<1>1. PICK n \in S : \A k \in S : <<k, n>> \notin OpToRel(<, Nat)
  BY WFMin, NatLessThanWellFounded
<1>2. \A k \in S : ~(k < n)
  BY <1>1 DEF OpToRel
<1>. QED BY <1>2

\* No set of workers waits for each other's node mutexes for ever: a waiting
\* worker waits for one that can go on, or for one that connects a smaller
\* node, and node ids do not decrease for ever.
THEOREM DeadlockFree == Spec => []NoDeadlock
<1>1. IInv /\ LockOrder => NoDeadlock
  <2>. SUFFICES ASSUME IInv, LockOrder, NEW t0 \in Threads, pc[t0] # "done",
                       \A t \in Threads : pc[t] # "done" => Blocked(t)
                PROVE  FALSE
    BY DEF NoDeadlock
  <2>. USE DEF IInv
  <2>. DEFINE Waiting == {t \in Threads : pc[t] = "back"}
              Ids == {node[t] : t \in Waiting}
  <2>1. ASSUME NEW t \in Threads, pc[t] # "done"
        PROVE  \E u \in Waiting : pc[t] = "back" => owner[at[t]] = u
    <3>1. Blocked(t)
      BY <2>1
    <3>2. PICK n \in Nodes : owner[n] # Free /\ (pc[t] = "back" => n = at[t])
      <4>1. pc[t] \in {"lock", "back"} => at[t] \in Nodes
        BY AllocatedInNodes DEF AtInv, TypeOK
      <4>2. pc[t] = "own" => node[t] \in Nodes
        BY AllocatedInNodes DEF NodeInv, Building
      <4>. QED BY <3>1, <4>1, <4>2 DEF Blocked
    <3>3. PICK u \in Threads : owner[n] = u
      BY <3>2 DEF TypeOK
    <3>4. Connecting(u) \/ pc[u] = "scan"
      BY <3>3 DEF OwnerInv
    <3>5. Blocked(u)
      BY <3>4 DEF Connecting
    <3>6. pc[u] = "back"
      BY <3>4, <3>5 DEF Connecting, Blocked
    <3>. QED BY <3>2, <3>3, <3>6
  <2>2. Ids # {} /\ Ids \in SUBSET Nat
    <3>1. PICK u \in Waiting : TRUE
      BY <2>1
    <3>2. node[u] \in Ids
      OBVIOUS
    <3>3. \A t \in Threads : node[t] \in Nat
      BY DEF TypeOK
    <3>. QED BY <3>2, <3>3
  <2>3. PICK least \in Ids : \A k \in Ids : least <= k
    BY <2>2, LeastExists
  <2>4. PICK t \in Waiting : node[t] = least
    OBVIOUS
  <2>5. PICK u \in Waiting : owner[at[t]] = u
    BY <2>1, <2>4
  <2>6. node[u] < node[t]
    BY <2>5 DEF LockOrder, Connecting
  <2>. QED BY <2>2, <2>3, <2>4, <2>6
<1>. QED BY <1>1, TypeCorrect, WaitsAreOrdered, Inductive, PTL

-----------------------------------------------------------------------------
\* Whoever writes a node's links holds its mutex, so the links stand still
\* while another worker scans them with the mutex held.
THEOREM ScansAreConsistent == Spec => ScanSeesOneState
<1>1. IInv /\ [Next]_vars =>
        [\A t \in Threads : pc[t] = "scan" => links'[at[t]] = links[at[t]]]_vars
  <2>. SUFFICES ASSUME IInv, Next, NEW t \in Threads, pc[t] = "scan"
                PROVE  links'[at[t]] = links[at[t]]
    OBVIOUS
  <2>. USE DEF IInv
  <2>1. at[t] \in Allocated /\ owner[at[t]] = t
    BY DEF AtInv, OwnerInv
  <2>2. CASE links' = links
    BY <2>2
  <2>3. ASSUME NEW u \in Threads, AllocateFirst(u) \/ AllocateNode(u)
        PROVE  links'[at[t]] = links[at[t]]
    <3>1. Store(u)
      BY <2>3 DEF AllocateFirst, AllocateNode
    <3>2. at[t] \in 0 .. curNumNodes /\ at[t] # curNumNodes
      BY <2>1 DEF Allocated, TypeOK
    <3>. QED BY <3>1, <3>2 DEF Store
  <2>4. ASSUME NEW u \in Threads, PickNeighbor(u)
        PROVE  links'[at[t]] = links[at[t]]
    <3>1. owner[node[u]] = u /\ u # t
      BY <2>4 DEF PickNeighbor, Running, OwnerInv, Connecting
    <3>2. node[u] # at[t]
      BY <2>1, <3>1
    <3>. QED BY <2>4, <3>2 DEF PickNeighbor, TypeOK
  <2>5. ASSUME NEW u \in Threads, BackLink(u)
        PROVE  links'[at[t]] = links[at[t]]
    <3>1. at[u] # at[t]
      BY <2>1, <2>5, ThreadsAssumption DEF BackLink
    <3>. QED BY <2>5, <3>1 DEF BackLink, TypeOK
  <2>. QED
    BY <2>2, <2>3, <2>4, <2>5
    DEF Next, Step, FetchRow, CheckCapacity, RejectFull, Overrun, PopCandidate, LockCandidate,
        VisitLink, EndSearch, LockOwn, FinishConnect, Join, Ended, vars
<1>. QED BY <1>1, Inductive, PTL DEF Spec, ScanSeesOneState


-----------------------------------------------------------------------------
(* The invariants of rows and links. *)

\* The row of a worker is not stored yet.
Taken(t) == pc[t] \in {"check", "alloc"}

Stored(r) == \E n \in Allocated : vec[n] = r

\* A row below the counter is in one node or with one worker.
RowsInv ==
    /\ \A n \in Allocated : vec[n] < current
    /\ \A n, m \in Allocated : vec[n] = vec[m] => n = m
    /\ \A t \in Threads : Taken(t) => row[t] < current /\ ~Stored(row[t])
    /\ \A t, u \in Threads : Taken(t) /\ Taken(u) /\ row[t] = row[u] => t = u
    /\ \A r \in Rows : r < current => Stored(r) \/ \E t \in Threads : Taken(t) /\ row[t] = r
    /\ \A t \in Threads : pc[t] = "done" => current >= NumRows
    /\ outcome = "returned" => \A t \in Threads : pc[t] = "done"

\* Between a neighbor and the node there is no link yet, except the one that
\* waits to be answered.
HalfLinkInv ==
    \A t \in Threads : Connecting(t) =>
        /\ \A x \in nbrs[t], s \in Slots : links[x][s] # node[t]
        /\ \A s \in Slots : links[node[t]][s] \in nbrs[t] => pc[t] = "back" /\ s = slot[t]
        /\ pc[t] = "back" /\ slot[t] \in Slots => links[node[t]][slot[t]] = at[t]

\* There is a slot for each neighbor that is left.
SlotInv ==
    \A t \in Threads :
        /\ pc[t] = "own" => Cardinality(nbrs[t]) <= M
        /\ Connecting(t) => slot[t] + Cardinality(nbrs[t]) <= M

\* A search always has a neighbor to connect to.
LeadInv ==
    /\ \A t \in Threads : Searching(t) \/ pc[t] = "own" => nbrs[t] # {}
    /\ \A t \in Threads : Connecting(t) => nbrs[t] # {} \/ OutLinks(node[t]) # {}
    /\ ConnectedNodesLeadOut

LinkInv == NoDuplicateLinks /\ HalfLinkInv /\ SlotInv /\ LeadInv

-----------------------------------------------------------------------------
(* The selections. *)

\* Distances between rows of the batch are numbers.
LEMMA DistancesAreNumbers ==
    ASSUME TypeOK, NEW r \in Rows, NEW n \in Allocated
    PROVE  D(r, n) \in Int
  BY DistAssumption, Zenon DEF D, TypeOK

\* selectNeighbors pops the nodes in a strict order.
LEMMA BeforeIsAnOrder ==
    ASSUME TypeOK, NEW r \in Rows
    PROVE  /\ \A x \in Allocated : ~Before(r, x, x)
           /\ \A x, y \in Allocated : x # y => Before(r, x, y) \/ Before(r, y, x)
           /\ \A x, y, z \in Allocated : Before(r, x, y) /\ Before(r, y, z) => Before(r, x, z)
<1>1. \A x \in Allocated : D(r, x) \in Int /\ x \in Int
  BY DistancesAreNumbers DEF Allocated
<1>. QED BY <1>1 DEF Before

Earlier(r, R, x) == {y \in R : Before(r, y, x)}

\* Whatever comes before a node comes before those it precedes.
LEMMA EarlierGrows ==
    ASSUME TypeOK, NEW r \in Rows, NEW R \in SUBSET Allocated, IsFiniteSet(R),
           NEW x \in R, NEW y \in R, Before(r, x, y)
    PROVE  /\ Cardinality(Earlier(r, R, x)) \in Nat /\ Cardinality(Earlier(r, R, y)) \in Nat
           /\ Cardinality(Earlier(r, R, x)) < Cardinality(Earlier(r, R, y))
<1>1. Earlier(r, R, x) \cup {x} \subseteq Earlier(r, R, y) /\ x \notin Earlier(r, R, x)
  BY BeforeIsAnOrder DEF Earlier
<1>2. IsFiniteSet(Earlier(r, R, x)) /\ IsFiniteSet(Earlier(r, R, y))
  BY FS_Subset DEF Earlier
<1>3. Cardinality(Earlier(r, R, x) \cup {x}) = Cardinality(Earlier(r, R, x)) + 1
  BY <1>1, <1>2, FS_AddElement
<1>4. Cardinality(Earlier(r, R, x) \cup {x}) <= Cardinality(Earlier(r, R, y))
  BY <1>1, <1>2, FS_Subset
<1>. QED BY <1>2, <1>3, <1>4, FS_CardinalityType

\* Those popped before a node are no more than there are.
LEMMA EarlierCounts ==
    ASSUME NEW r, NEW R, IsFiniteSet(R), NEW x \in R
    PROVE  /\ Cardinality(Earlier(r, R, x)) \in Nat /\ Cardinality(R) \in Nat
           /\ Cardinality(Earlier(r, R, x)) <= Cardinality(R)
  BY FS_Subset, FS_CardinalityType DEF Earlier

\* Some node is popped first, and some node last.
LEMMA FirstExists ==
    ASSUME TypeOK, NEW r \in Rows, NEW R \in SUBSET Allocated, IsFiniteSet(R), R # {}
    PROVE  \E x \in R : Earlier(r, R, x) = {}
<1>. DEFINE k(x) == Cardinality(Earlier(r, R, x))
            C == {k(x) : x \in R}
<1>1. C \in SUBSET Nat /\ C # {}
  BY EarlierCounts
<1>2. PICK c \in C : \A d \in C : c <= d
  <2>. HIDE DEF C
  <2>. QED BY <1>1, LeastExists
<1>3. PICK x \in R : c = k(x)
  OBVIOUS
<1>4. \A y \in R : ~Before(r, y, x)
  <2>1. ASSUME NEW y \in R, Before(r, y, x) PROVE FALSE
    <3>1. k(y) \in Nat /\ k(x) \in Nat /\ k(y) < k(x)
      BY <2>1, EarlierGrows
    <3>2. c <= k(y)
      BY <1>2
    <3>. QED BY <1>3, <3>1, <3>2
  <2>. QED BY <2>1
<1>. QED BY <1>4 DEF Earlier

\* Of some nodes one is popped last.
LEMMA LastExists ==
    ASSUME TypeOK, NEW r \in Rows, NEW R \in SUBSET Allocated, IsFiniteSet(R), R # {}
    PROVE  \E x \in R : Earlier(r, R, x) = R \ {x}
<1>. DEFINE k(x) == Cardinality(R) - Cardinality(Earlier(r, R, x))
            C == {k(x) : x \in R}
<1>1. C \in SUBSET Nat /\ C # {}
  <2>1. \A x \in R : k(x) \in Nat
    BY EarlierCounts
  <2>. QED BY <2>1
<1>2. PICK c \in C : \A d \in C : c <= d
  <2>. HIDE DEF C
  <2>. QED BY <1>1, LeastExists
<1>3. PICK x \in R : c = k(x)
  OBVIOUS
<1>4. \A y \in R \ {x} : Before(r, y, x)
  <2>1. ASSUME NEW y \in R \ {x}, ~Before(r, y, x) PROVE FALSE
    <3>1. Before(r, x, y)
      BY <2>1, BeforeIsAnOrder
    <3>2. /\ Cardinality(Earlier(r, R, x)) \in Nat /\ Cardinality(Earlier(r, R, y)) \in Nat
          /\ Cardinality(Earlier(r, R, x)) < Cardinality(Earlier(r, R, y)) /\ Cardinality(R) \in Nat
      BY <3>1, EarlierGrows, EarlierCounts
    <3>3. c <= k(y)
      BY <1>2
    <3>. QED BY <1>3, <3>2, <3>3
  <2>. QED BY <2>1
<1>. QED BY <1>4, BeforeIsAnOrder DEF Earlier

\* selectNeighbors returns at most m nodes, and one at least if it is given any.
LEMMA SelectionSize ==
    ASSUME TypeOK, NEW r \in Rows, NEW S \in SUBSET Allocated, IsFiniteSet(S), NEW m \in Nat \ {0},
           NEW R \in Selections(r, S, m)
    PROVE  /\ IsFiniteSet(R) /\ Cardinality(R) \in Nat /\ Cardinality(R) <= m
           /\ S # {} => R # {}
<1>1. R \subseteq S /\ R \in SUBSET Allocated
  BY SelectionsAreSubsets
<1>2. IsFiniteSet(R) /\ Cardinality(R) \in Nat
  BY <1>1, FS_Subset, FS_CardinalityType
<1>3. CASE Cardinality(S) < m
  BY <1>2, <1>3 DEF Selections
<1>4. CASE ~(Cardinality(S) < m)
  <2>1. \A x \in S : x \in R <=> /\ Cardinality(Earlier(r, R, x)) < m
                                 /\ \A y \in Earlier(r, R, x) : D(vec[y], x) >= D(r, x)
    BY <1>4 DEF Selections, Earlier
  <2>2. Cardinality(R) <= m
    <3>1. CASE R = {}
      BY <3>1, FS_EmptySet
    <3>2. CASE R # {}
      <4>1. PICK x \in R : Earlier(r, R, x) = R \ {x}
        BY <1>1, <1>2, <3>2, LastExists
      <4>2. Cardinality(Earlier(r, R, x)) < m
        BY <1>1, <2>1
      <4>3. Cardinality(R \ {x}) < m
        BY <4>1, <4>2
      <4>4. Cardinality(R \ {x}) = Cardinality(R) - 1
        BY <1>2, FS_RemoveElement
      <4>. QED BY <1>2, <4>3, <4>4
    <3>. QED BY <3>1, <3>2
  <2>3. ASSUME S # {} PROVE R # {}
    <3>1. PICK x \in S : Earlier(r, S, x) = {}
      BY <2>3, FirstExists
    <3>2. Earlier(r, R, x) = {}
      BY <1>1, <3>1 DEF Earlier
    <3>3. x \in R
      BY <2>1, <3>2, FS_EmptySet
    <3>. QED BY <3>3
  <2>. QED BY <1>2, <2>2, <2>3
<1>. QED BY <1>3, <1>4

\* A set that is not empty has an element.
LEMMA CardinalityPositive ==
    ASSUME NEW S, IsFiniteSet(S), S # {}
    PROVE  Cardinality(S) >= 1
  BY FS_EmptySet, FS_CardinalityType

\* The nodes are finitely many.
LEMMA AllocatedIsFinite == TypeOK => IsFiniteSet(Allocated)
BY FS_Interval, SizesAssumption DEF TypeOK, Allocated

-----------------------------------------------------------------------------
(* The links a back-connection leaves. *)

NoRepeats(a, n) == \A s, u \in Slots : a[s] = a[u] /\ a[s] # n => s = u

\* A prune fills the first slots with the selected nodes, one in each.
LEMMA RewrittenOnce ==
    ASSUME NEW n, NEW R, IsFiniteSet(R), n \notin R, NEW a \in Rewritten(n, R)
    PROVE  /\ NoRepeats(a, n)
           /\ R # {} => \E s \in Slots : a[s] # n
<1>. DEFINE k == Cardinality(R)
            F == {s \in Slots : s < k}
            f == [s \in F |-> a[s]]
<1>1. /\ R \subseteq {a[s] : s \in Slots}
      /\ \A s \in Slots : IF s < k THEN a[s] \in R ELSE a[s] = n
  BY DEF Rewritten
<1>2. k \in Nat
  BY FS_CardinalityType
<1>3. IsFiniteSet(F) /\ Cardinality(F) \in Nat /\ Cardinality(F) <= k
  <2>1. F \subseteq 0 .. k - 1
    BY <1>2 DEF Slots
  <2>2. IsFiniteSet(0 .. k - 1) /\ Cardinality(0 .. k - 1) = k
    BY <1>2, FS_Interval
  <2>. QED BY <2>1, <2>2, FS_Subset, FS_CardinalityType
<1>4. f \in Surjection(F, R)
  <2>1. \A s \in F : f[s] \in R
    BY <1>1
  <2>2. \A x \in R : \E s \in F : f[s] = x
    BY <1>1
  <2>. QED BY <2>1, <2>2, Fun_IsSurj
<1>5. f \in Injection(F, R)
  <2>1. Cardinality(R) <= Cardinality(F)
    BY <1>3, <1>4, FS_Surjection
  <2>. HIDE DEF f, F
  <2>. QED BY <1>2, <1>3, <1>4, <2>1, FS_Surjection
<1>6. \A s, u \in F : f[s] = f[u] => s = u
  BY <1>5 DEF Injection, IsInjective
<1>7. \A s \in Slots : a[s] # n => s \in F
  BY <1>1
<1>. QED BY <1>1, <1>6, <1>7 DEF NoRepeats

\* A back-connection leaves the neighbor a link out, and no neighbor twice.
LEMMA BackLinkedOnce ==
    ASSUME TypeOK, NEW t \in Threads, NEW n \in Allocated, node[t] \in Allocated, node[t] # n,
           NEW a \in BackLinked(t, n)
    PROVE  /\ \E s \in Slots : a[s] # n
           /\ NoRepeats(links[n], n) /\ (\A s \in Slots : links[n][s] # node[t]) => NoRepeats(a, n)
<1>1. CASE n \in {links[n][s] : s \in Slots}
  <2>1. PICK s \in Slots : a = [links[n] EXCEPT ![s] = node[t]]
    BY <1>1 DEF BackLinked
  <2>2. \A u \in Slots : a[u] = IF u = s THEN node[t] ELSE links[n][u]
    BY <2>1 DEF TypeOK
  <2>. QED BY <2>2 DEF NoRepeats
<1>2. CASE n \notin {links[n][s] : s \in Slots}
  <2>. DEFINE S == OutLinks(n) \cup {node[t]}
  <2>1. PICK R \in Selections(vec[n], S, M) : a \in Rewritten(n, R)
    BY <1>2 DEF BackLinked
  <2>2. S \in SUBSET Allocated /\ n \notin S /\ vec[n] \in Rows
    BY DEF OutLinks, TypeOK
  <2>3. IsFiniteSet(S)
    BY <2>2, AllocatedIsFinite, FS_Subset
  <2>4. M \in Nat \ {0} /\ S # {}
    BY SizesAssumption
  <2>5. R \subseteq S /\ IsFiniteSet(R) /\ R # {}
    <3>. HIDE DEF S
    <3>. QED BY <2>1, <2>2, <2>3, <2>4, SelectionSize, SelectionsAreSubsets
  <2>. QED BY <2>1, <2>2, <2>5, RewrittenOnce
<1>. QED BY <1>1, <1>2

-----------------------------------------------------------------------------
(* The rows. *)

\* A step that takes and stores no row.
LEMMA RowsKept ==
    ASSUME RowsInv, current' = current, curNumNodes' = curNumNodes, vec' = vec, row' = row,
           \A u \in Threads : (Taken(u)' <=> Taken(u)) /\ (pc'[u] = "done" <=> pc[u] = "done"),
           outcome' = "returned" => outcome = "returned" \/ \A u \in Threads : pc[u] = "done"
    PROVE  RowsInv'
  BY DEF RowsInv, Stored, Allocated

\* The row a worker holds moves into the new node.
LEMMA RowStored ==
    ASSUME TypeOK, RowsInv, NEW t \in Threads, Taken(t), Store(t), outcome = "running",
           current' = current, row' = row, outcome' = outcome,
           ~Taken(t)', pc'[t] # "done",
           \A u \in Threads \ {t} : pc'[u] = pc[u]
    PROVE  RowsInv'
<1>1. /\ curNumNodes \in Nat /\ Allocated' = Allocated \cup {curNumNodes} /\ curNumNodes \notin Allocated
      /\ \A n \in Allocated : vec'[n] = vec[n]
      /\ vec'[curNumNodes] = row[t]
  BY DEF Store, Allocated, TypeOK
<1>2. \A r : Stored(r)' <=> Stored(r) \/ r = row[t]
  BY <1>1 DEF Stored
<1>3. \A n \in Allocated' : vec'[n] < current'
  BY <1>1 DEF RowsInv
<1>4. \A n, m \in Allocated' : vec'[n] = vec'[m] => n = m
  BY <1>1 DEF RowsInv, Stored
<1>5. \A u \in Threads : Taken(u)' => Taken(u) /\ u # t
  BY DEF Taken
<1>6. \A u \in Threads : Taken(u)' => row'[u] < current' /\ ~Stored(row[u])'
  BY <1>2, <1>5 DEF RowsInv
<1>7. \A r \in Rows : r < current' => Stored(r)' \/ \E u \in Threads : Taken(u)' /\ row'[u] = r
  <2>. SUFFICES ASSUME NEW r \in Rows, r < current, ~Stored(r)'
                PROVE  \E u \in Threads : Taken(u)' /\ row'[u] = r
    OBVIOUS
  <2>1. PICK u \in Threads : Taken(u) /\ row[u] = r
    BY <1>2 DEF RowsInv
  <2>2. u # t
    BY <1>2, <2>1
  <2>. QED BY <2>1, <2>2 DEF Taken
<1>. QED BY <1>3, <1>4, <1>5, <1>6, <1>7 DEF RowsInv

\* No step stores a row twice or forgets one.
LEMMA NextRows ==
    ASSUME TypeOK, RowsInv, [Next]_vars
    PROVE  RowsInv'
<1>1. ASSUME NEW t \in Threads, FetchRow(t) PROVE RowsInv'
  <2>1. /\ pc[t] = "fetch" /\ current' = current + 1 /\ current \in Nat /\ outcome = "running"
        /\ curNumNodes' = curNumNodes /\ vec' = vec /\ outcome' = outcome
    BY <1>1 DEF FetchRow, Running, TypeOK
  <2>2. CASE current < NumRows
    <3>1. /\ row'[t] = current /\ pc'[t] = "check"
          /\ \A u \in Threads \ {t} : row'[u] = row[u] /\ pc'[u] = pc[u]
      BY <1>1, <2>2 DEF FetchRow, Goto, TypeOK
    <3>2. \A r : Stored(r)' <=> Stored(r)
      BY <2>1 DEF Stored, Allocated
    <3>3. ~Stored(current)
      BY <2>1 DEF RowsInv, Stored, TypeOK, Rows
    <3>4. \A u \in Threads : row[u] \in Nat
      BY DEF TypeOK
    <3>5. \A n \in Allocated' : vec'[n] < current'
      BY <2>1 DEF RowsInv, Allocated, TypeOK, Rows
    <3>6. \A u \in Threads : Taken(u)' => row'[u] < current' /\ ~Stored(row[u])'
      BY <2>1, <3>1, <3>2, <3>3, <3>4 DEF RowsInv, Taken
    <3>7. \A u, w \in Threads : Taken(u)' /\ Taken(w)' /\ row'[u] = row'[w] => u = w
      BY <2>1, <3>1, <3>4 DEF RowsInv, Taken
    <3>8. \A r \in Rows : r < current' => Stored(r)' \/ \E u \in Threads : Taken(u)' /\ row'[u] = r
      <4>. SUFFICES ASSUME NEW r \in Rows, r < current + 1, ~Stored(r)
                    PROVE  \E u \in Threads : Taken(u)' /\ row'[u] = r
        BY <2>1, <3>2
      <4>1. CASE r = current
        BY <3>1, <4>1 DEF Taken
      <4>2. CASE r # current
        <5>1. r < current
          BY <2>1, <4>2 DEF Rows
        <5>2. PICK u \in Threads : Taken(u) /\ row[u] = r
          BY <5>1 DEF RowsInv
        <5>. QED BY <2>1, <3>1, <5>2 DEF Taken
      <4>. QED BY <4>1, <4>2
    <3>9. \A u \in Threads : pc'[u] = "done" => current' >= NumRows
      BY <2>1, <2>2, <3>1, SizesAssumption DEF RowsInv
    <3>. QED BY <2>1, <3>5, <3>6, <3>7, <3>8, <3>9 DEF RowsInv, Allocated
  <2>3. CASE ~(current < NumRows)
    <3>1. /\ row' = row /\ pc'[t] = "done"
          /\ \A u \in Threads \ {t} : pc'[u] = pc[u]
      BY <1>1, <2>3 DEF FetchRow, Goto, TypeOK
    <3>2. \A r : Stored(r)' <=> Stored(r)
      BY <2>1 DEF Stored, Allocated
    <3>3. \A u \in Threads : Taken(u)' <=> Taken(u)
      BY <2>1, <3>1 DEF Taken
    <3>4. \A n \in Allocated' : vec'[n] < current'
      BY <2>1 DEF RowsInv, Allocated, TypeOK, Rows
    <3>5. \A u \in Threads : Taken(u)' => row'[u] < current' /\ ~Stored(row[u])'
      BY <2>1, <3>1, <3>2, <3>3 DEF RowsInv, TypeOK
    <3>6. \A r \in Rows : r < current
      BY <2>1, <2>3, SizesAssumption DEF Rows
    <3>7. current' >= NumRows
      BY <2>1, <2>3, SizesAssumption
    <3>. QED BY <2>1, <3>1, <3>2, <3>3, <3>4, <3>5, <3>6, <3>7 DEF RowsInv, Allocated
  <2>. QED BY <2>2, <2>3
<1>2. ASSUME NEW t \in Threads, CheckCapacity(t) PROVE RowsInv'
  BY <1>2, RowsKept DEF CheckCapacity, Running, Goto, Taken, TypeOK
<1>3. ASSUME NEW t \in Threads, RejectFull(t) PROVE RowsInv'
  BY <1>3, RowsKept DEF RejectFull, Running, Goto, Taken, TypeOK
<1>4. ASSUME NEW t \in Threads, AllocateFirst(t) PROVE RowsInv'
  <2>1. /\ Taken(t) /\ Store(t) /\ outcome = "running" /\ outcome' = outcome
        /\ current' = current /\ row' = row /\ ~Taken(t)' /\ pc'[t] # "done"
        /\ \A u \in Threads \ {t} : pc'[u] = pc[u]
    BY <1>4 DEF AllocateFirst, Running, Goto, Taken, TypeOK
  <2>. QED BY <2>1, RowStored
<1>5. ASSUME NEW t \in Threads, AllocateNode(t) PROVE RowsInv'
  <2>1. /\ Taken(t) /\ Store(t) /\ outcome = "running" /\ outcome' = outcome
        /\ current' = current /\ row' = row /\ ~Taken(t)' /\ pc'[t] # "done"
        /\ \A u \in Threads \ {t} : pc'[u] = pc[u]
    BY <1>5 DEF AllocateNode, Running, Goto, Taken, TypeOK
  <2>. QED BY <2>1, RowStored
<1>6. ASSUME NEW t \in Threads, Overrun(t) PROVE RowsInv'
  BY <1>6, RowsKept DEF Overrun, Running, Goto, Taken, TypeOK
<1>7. ASSUME NEW t \in Threads, PopCandidate(t) PROVE RowsInv'
  BY <1>7, RowsKept DEF PopCandidate, Running, Goto, Taken, TypeOK
<1>8. ASSUME NEW t \in Threads, LockCandidate(t) PROVE RowsInv'
  BY <1>8, RowsKept DEF LockCandidate, Running, Goto, Taken, TypeOK
<1>9. ASSUME NEW t \in Threads, VisitLink(t) PROVE RowsInv'
  BY <1>9, RowsKept DEF VisitLink, Running, Goto, Taken, TypeOK
<1>10. ASSUME NEW t \in Threads, EndSearch(t) PROVE RowsInv'
  BY <1>10, RowsKept DEF EndSearch, Running, Goto, Taken, TypeOK
<1>11. ASSUME NEW t \in Threads, LockOwn(t) PROVE RowsInv'
  BY <1>11, RowsKept DEF LockOwn, Running, Goto, Taken, TypeOK
<1>12. ASSUME NEW t \in Threads, PickNeighbor(t) PROVE RowsInv'
  BY <1>12, RowsKept DEF PickNeighbor, Running, Goto, Taken, TypeOK
<1>13. ASSUME NEW t \in Threads, BackLink(t) PROVE RowsInv'
  BY <1>13, RowsKept DEF BackLink, Running, Goto, Taken, TypeOK
<1>14. ASSUME NEW t \in Threads, FinishConnect(t) PROVE RowsInv'
  BY <1>14, RowsKept DEF FinishConnect, Running, Goto, Taken, TypeOK
<1>15. CASE Join
  BY <1>15, RowsKept DEF Join, Taken
<1>16. CASE UNCHANGED vars
  BY <1>16, RowsKept DEF vars, Taken
<1>. QED
  BY <1>1, <1>2, <1>3, <1>4, <1>5, <1>6, <1>7, <1>8, <1>9, <1>10, <1>11, <1>12, <1>13, <1>14, <1>15, <1>16 DEF Next, Step, Ended

\* The atomic counter hands out every row exactly once, whatever the
\* interleaving of the workers: no row is stored twice, and none is missing
\* when addBatch returns.
THEOREM RowsStoredOnce == Spec => []EveryRowStoredOnce
<1>1. Init => RowsInv
  <2>. SUFFICES ASSUME Init PROVE RowsInv
    OBVIOUS
  <2>1. Allocated = {} /\ current = 0 /\ outcome = "running" /\ \A t \in Threads : pc[t] = "fetch"
    BY DEF Init, Allocated
  <2>. QED BY <2>1, SizesAssumption DEF RowsInv, Taken, Rows
<1>2. IInv /\ RowsInv /\ [Next]_vars => RowsInv'
  BY NextRows DEF IInv
<1>3. IInv /\ RowsInv => EveryRowStoredOnce
  <2>. SUFFICES ASSUME TypeOK, RowsInv, outcome = "returned", NEW r \in Rows
                PROVE  Stored(r)
    BY DEF IInv, RowsInv, EveryRowStoredOnce, Stored
  <2>1. PICK t \in Threads : pc[t] = "done"
    BY ThreadsAssumption DEF RowsInv
  <2>2. r < current
    BY <2>1, SizesAssumption DEF RowsInv, Rows, TypeOK
  <2>. QED BY <2>2 DEF RowsInv, Taken
<1>. QED BY <1>1, <1>2, <1>3, Inductive, PTL DEF Spec

-----------------------------------------------------------------------------
(* The links. *)

\* Apart from an allocation, the start of a connection and the two writes of a
\* link, a step leaves the links and what the connecting workers hold.
LEMMA QuietSteps ==
    ASSUME TypeOK, NEW t \in Threads,
           \/ FetchRow(t) \/ CheckCapacity(t) \/ RejectFull(t) \/ Overrun(t)
           \/ PopCandidate(t) \/ LockCandidate(t) \/ VisitLink(t) \/ EndSearch(t)
           \/ FinishConnect(t) \/ Join \/ UNCHANGED vars
    PROVE  /\ links' = links /\ curNumNodes' = curNumNodes /\ node' = node
           /\ \A u \in Threads : Connecting(u)' =>
                /\ pc[u] \in {"pick", "back"} /\ pc'[u] = pc[u] /\ nbrs'[u] = nbrs[u]
                /\ at'[u] = at[u] /\ slot'[u] = slot[u]
<1>. DEFINE Kept == /\ links' = links /\ curNumNodes' = curNumNodes /\ node' = node
                    /\ \A u \in Threads : Connecting(u)' =>
                         /\ pc[u] \in {"pick", "back"} /\ pc'[u] = pc[u] /\ nbrs'[u] = nbrs[u]
                         /\ at'[u] = at[u] /\ slot'[u] = slot[u]
<1>1. CASE FetchRow(t)
  BY <1>1 DEF FetchRow, Running, Goto, Connecting, TypeOK
<1>2. CASE CheckCapacity(t)
  BY <1>2 DEF CheckCapacity, Running, Goto, Connecting, TypeOK
<1>3. CASE RejectFull(t)
  BY <1>3 DEF RejectFull, Running, Goto, Connecting, TypeOK
<1>4. CASE Overrun(t)
  BY <1>4 DEF Overrun, Running, Goto, Connecting, TypeOK
<1>5. CASE PopCandidate(t)
  BY <1>5 DEF PopCandidate, Running, Goto, Connecting, TypeOK
<1>6. CASE LockCandidate(t)
  BY <1>6 DEF LockCandidate, Running, Goto, Connecting, TypeOK
<1>7. CASE VisitLink(t)
  <2>1. /\ pc[t] = "scan" /\ pc'[t] \in {"scan", "search"} /\ links' = links
        /\ curNumNodes' = curNumNodes /\ node' = node /\ at' = at
        /\ \A u \in Threads \ {t} : pc'[u] = pc[u] /\ slot'[u] = slot[u]
    BY <1>7 DEF VisitLink, Running, Goto, TypeOK
  <2>2. \A u \in Threads \ {t} : nbrs'[u] = nbrs[u]
    BY <1>7, VisitLinkQueues
  <2>. QED BY <2>1, <2>2 DEF Connecting
<1>8. CASE EndSearch(t)
  BY <1>8 DEF EndSearch, Running, Goto, Connecting, TypeOK
<1>9. CASE FinishConnect(t)
  BY <1>9 DEF FinishConnect, Running, Goto, Connecting, TypeOK
<1>10. CASE Join
  BY <1>10 DEF Join, Connecting
<1>11. CASE UNCHANGED vars
  BY <1>11 DEF vars, Connecting
<1>. QED BY <1>1, <1>2, <1>3, <1>4, <1>5, <1>6, <1>7, <1>8, <1>9, <1>10, <1>11

\* A new node lists itself only, and no other links change.
LEMMA StoreLinks ==
    ASSUME TypeOK, NEW t \in Threads, Store(t)
    PROVE  /\ Allocated' = Allocated \cup {curNumNodes} /\ curNumNodes \notin Allocated
           /\ \A n \in Allocated : links'[n] = links[n]
           /\ \A s \in Slots : links'[curNumNodes][s] = curNumNodes
           /\ node'[t] = curNumNodes /\ \A u \in Threads \ {t} : node'[u] = node[u]
  BY DEF Store, Allocated, TypeOK

\* The two ways into AllocateFirst and AllocateNode: nobody begins to connect.
LEMMA AllocationSteps ==
    ASSUME TypeOK, NEW t \in Threads, AllocateFirst(t) \/ AllocateNode(t)
    PROVE  /\ Store(t) /\ pc[t] = "alloc" /\ pc'[t] \in {"fetch", "search"}
           /\ \A u \in Threads \ {t} :
                pc'[u] = pc[u] /\ nbrs'[u] = nbrs[u] /\ at'[u] = at[u] /\ slot'[u] = slot[u]
<1>1. CASE AllocateFirst(t)
  BY <1>1 DEF AllocateFirst, Running, Goto, TypeOK
<1>2. CASE AllocateNode(t)
  BY <1>2 DEF AllocateNode, Running, Goto, TypeOK
<1>. QED BY <1>1, <1>2

\* A worker does not link its node to itself.
LEMMA OwnNodeApart ==
    ASSUME IInv, NEW t \in Threads, Connecting(t)
    PROVE  node[t] \notin nbrs[t] /\ node[t] \in Allocated /\ nbrs[t] \subseteq Allocated
<1>1. Below(t, node[t]) => FALSE
  BY DEF Below, IInv, TypeOK
<1>. QED BY <1>1 DEF IInv, BelowInv, NodeInv, Building, TypeOK

\* What a worker writes into its own node.
LEMMA PickFacts ==
    ASSUME IInv, NEW t \in Threads, PickNeighbor(t)
    PROVE  \E n \in nbrs[t] :
             /\ Connecting(t) /\ pc[t] = "pick" /\ pc'[t] = "back" /\ Connecting(t)'
             /\ n \in Allocated /\ node[t] \in Allocated /\ n # node[t]
             /\ links' = [links EXCEPT ![node[t]][slot[t]] = n]
             /\ \A m \in Allocated \ {node[t]} : links'[m] = links[m]
             /\ \A s \in Slots : links'[node[t]][s] = IF s = slot[t] THEN n ELSE links[node[t]][s]
             /\ at'[t] = n /\ curNumNodes' = curNumNodes /\ node' = node /\ nbrs' = nbrs /\ slot' = slot
             /\ \A u \in Threads \ {t} : pc'[u] = pc[u] /\ at'[u] = at[u]
<1>1. PICK n \in nbrs[t] : at' = [at EXCEPT ![t] = n] /\ links' = [links EXCEPT ![node[t]][slot[t]] = n]
  BY DEF PickNeighbor, Furthest
<1>2. /\ pc[t] = "pick" /\ pc' = [pc EXCEPT ![t] = "back"]
      /\ curNumNodes' = curNumNodes /\ node' = node /\ nbrs' = nbrs /\ slot' = slot
  BY DEF PickNeighbor, Running, Goto
<1>3. node[t] \in Allocated /\ n \in Allocated /\ n # node[t]
  BY <1>2, OwnNodeApart DEF Connecting
<1>4. links \in [Allocated -> [Slots -> Allocated]] /\ pc \in [Threads -> Labels] /\ at \in [Threads -> Nat]
  BY DEF IInv, TypeOK
<1>5. \A m \in Allocated \ {node[t]} : links'[m] = links[m]
  BY <1>1, <1>3, <1>4
<1>6. \A s \in Slots : links'[node[t]][s] = IF s = slot[t] THEN n ELSE links[node[t]][s]
  BY <1>1, <1>3, <1>4
<1>7. at'[t] = n /\ \A u \in Threads \ {t} : pc'[u] = pc[u] /\ at'[u] = at[u]
  BY <1>1, <1>2, <1>4
<1>8. pc'[t] = "back"
  BY <1>2, <1>4
<1>. QED BY <1>1, <1>2, <1>3, <1>5, <1>6, <1>7, <1>8 DEF Connecting

\* What it writes into a neighbor.
LEMMA BackFacts ==
    ASSUME IInv, NEW t \in Threads, BackLink(t)
    PROVE  \E a \in BackLinked(t, at[t]) :
             /\ Connecting(t) /\ pc[t] = "back" /\ pc'[t] = "pick"
             /\ at[t] \in nbrs[t] /\ at[t] \in Allocated /\ node[t] \in Allocated /\ at[t] # node[t]
             /\ a \in [Slots -> OutLinks(at[t]) \cup {at[t], node[t]}]
             /\ links'[at[t]] = a
             /\ \A m \in Allocated \ {at[t]} : links'[m] = links[m]
             /\ curNumNodes' = curNumNodes /\ node' = node /\ at' = at
             /\ nbrs'[t] = nbrs[t] \ {at[t]} /\ slot'[t] = slot[t] + 1
             /\ \A u \in Threads \ {t} : pc'[u] = pc[u] /\ nbrs'[u] = nbrs[u] /\ slot'[u] = slot[u]
             /\ \A u \in Threads : Connecting(u) => node[u] # at[t]
<1>1. PICK a \in BackLinked(t, at[t]) : links' = [links EXCEPT ![at[t]] = a]
  BY DEF BackLink
<1>2. /\ pc[t] = "back" /\ pc' = [pc EXCEPT ![t] = "pick"] /\ owner[at[t]] = Free
      /\ curNumNodes' = curNumNodes /\ node' = node /\ at' = at
      /\ nbrs' = [nbrs EXCEPT ![t] = @ \ {at[t]}] /\ slot' = [slot EXCEPT ![t] = @ + 1]
  BY DEF BackLink, Running, Goto
<1>3. at[t] \in nbrs[t] /\ at[t] \in Allocated /\ node[t] \in Allocated /\ at[t] # node[t]
  <2>1. at[t] \in nbrs[t]
    BY <1>2 DEF IInv, AtInv
  <2>. QED BY <1>2, <2>1, OwnNodeApart DEF Connecting
<1>4. \A u \in Threads : Connecting(u) => node[u] # at[t]
  BY <1>2, ThreadsAssumption DEF IInv, OwnerInv
<1>5. /\ links \in [Allocated -> [Slots -> Allocated]] /\ pc \in [Threads -> Labels]
      /\ nbrs \in [Threads -> SUBSET Allocated] /\ slot \in [Threads -> Nat]
  BY DEF IInv, TypeOK
<1>6. a \in [Slots -> OutLinks(at[t]) \cup {at[t], node[t]}]
  BY <1>1, <1>3, <1>5, BackLinkedHolds
<1>7. links'[at[t]] = a /\ \A m \in Allocated \ {at[t]} : links'[m] = links[m]
  BY <1>1, <1>3, <1>5
<1>8. /\ pc'[t] = "pick" /\ nbrs'[t] = nbrs[t] \ {at[t]} /\ slot'[t] = slot[t] + 1
      /\ \A u \in Threads \ {t} : pc'[u] = pc[u] /\ nbrs'[u] = nbrs[u] /\ slot'[u] = slot[u]
  BY <1>2, <1>5
<1>. QED BY <1>1, <1>2, <1>3, <1>4, <1>6, <1>7, <1>8 DEF Connecting

-----------------------------------------------------------------------------
\* Nothing links a neighbor to the node, or the node to a neighbor, before
\* connectNeighbors does.
LEMMA NextHalfLink ==
    ASSUME IInv, HalfLinkInv, [Next]_vars
    PROVE  HalfLinkInv'
<1>. DEFINE Half(u) ==
        /\ \A x \in nbrs[u], s \in Slots : links[x][s] # node[u]
        /\ \A s \in Slots : links[node[u]][s] \in nbrs[u] => pc[u] = "back" /\ s = slot[u]
        /\ pc[u] = "back" /\ slot[u] \in Slots => links[node[u]][slot[u]] = at[u]
<1>0. TypeOK /\ \A u \in Threads : Connecting(u) => Half(u)
  BY DEF IInv, HalfLinkInv
<1>1. ASSUME NEW t \in Threads,
             \/ FetchRow(t) \/ CheckCapacity(t) \/ RejectFull(t) \/ Overrun(t)
             \/ PopCandidate(t) \/ LockCandidate(t) \/ VisitLink(t) \/ EndSearch(t) \/ FinishConnect(t)
             \/ Join \/ UNCHANGED vars
      PROVE  HalfLinkInv'
  <2>1. /\ links' = links /\ node' = node
        /\ \A u \in Threads : Connecting(u)' =>
             /\ pc[u] \in {"pick", "back"} /\ pc'[u] = pc[u] /\ nbrs'[u] = nbrs[u]
             /\ at'[u] = at[u] /\ slot'[u] = slot[u]
    BY <1>0, <1>1, QuietSteps
  <2>. QED BY <2>1 DEF HalfLinkInv, Connecting
<1>2. ASSUME NEW t \in Threads, AllocateFirst(t) \/ AllocateNode(t) PROVE HalfLinkInv'
  <2>1. /\ Store(t) /\ pc[t] = "alloc" /\ pc'[t] \in {"fetch", "search"}
        /\ \A u \in Threads \ {t} :
             pc'[u] = pc[u] /\ nbrs'[u] = nbrs[u] /\ at'[u] = at[u] /\ slot'[u] = slot[u]
    BY <1>0, <1>2, AllocationSteps
  <2>2. /\ \A n \in Allocated : links'[n] = links[n]
        /\ \A u \in Threads \ {t} : node'[u] = node[u]
    BY <1>0, <2>1, StoreLinks
  <2>3. \A u \in Threads : Connecting(u)' => u # t /\ Connecting(u)
    BY <2>1 DEF Connecting
  <2>4. \A u \in Threads : Connecting(u) => node[u] \in Allocated /\ nbrs[u] \subseteq Allocated
    BY OwnNodeApart
  <2>5. ASSUME NEW u \in Threads, Connecting(u)' PROVE Half(u)'
    <3>1. u # t /\ Connecting(u) /\ Half(u) /\ node[u] \in Allocated /\ nbrs[u] \subseteq Allocated
      BY <1>0, <2>3, <2>4, <2>5
    <3>. QED BY <2>1, <2>2, <3>1
  <2>. QED BY <2>5 DEF HalfLinkInv
<1>3. ASSUME NEW t \in Threads, LockOwn(t) PROVE HalfLinkInv'
  <2>1. /\ pc[t] = "own" /\ pc'[t] = "pick" /\ links' = links /\ node' = node /\ nbrs' = nbrs /\ at' = at
        /\ \A u \in Threads \ {t} : pc'[u] = pc[u] /\ slot'[u] = slot[u]
    BY <1>0, <1>3 DEF LockOwn, Running, Goto, TypeOK
  <2>2. PICK class \in [Allocated -> Allocated] : ClassesFit(class)
    BY DEF IInv, ClassInv
  <2>3. node[t] \in Allocated /\ class[node[t]] = node[t] /\ nbrs[t] \subseteq Allocated
    BY <1>0, <2>1, <2>2 DEF IInv, NodeInv, Building, ClassesFit, TypeOK
  <2>4. \A x \in nbrs[t] : class[x] < node[t]
    BY <2>1, <2>2 DEF ClassesFit, Building, Seen
  <2>5. \A n \in Allocated, s \in Slots : class[links[n][s]] = class[n]
    BY <2>2 DEF ClassesFit
  <2>6. \A x \in nbrs[t] : class[x] # class[node[t]]
    BY <1>0, <2>3, <2>4 DEF Allocated, TypeOK
  <2>7. \A x \in nbrs[t], s \in Slots : links[x][s] # node[t] /\ links[node[t]][s] \notin nbrs[t]
    BY <2>3, <2>5, <2>6
  <2>8. Half(t)'
    BY <2>1, <2>7
  <2>. QED BY <1>0, <2>1, <2>8 DEF HalfLinkInv, Connecting
<1>4. ASSUME NEW t \in Threads, PickNeighbor(t) PROVE HalfLinkInv'
  <2>1. PICK n \in nbrs[t] :
             /\ Connecting(t) /\ pc[t] = "pick" /\ pc'[t] = "back" /\ Connecting(t)'
             /\ n \in Allocated /\ node[t] \in Allocated /\ n # node[t]
             /\ \A m \in Allocated \ {node[t]} : links'[m] = links[m]
             /\ \A s \in Slots : links'[node[t]][s] = IF s = slot[t] THEN n ELSE links[node[t]][s]
             /\ at'[t] = n /\ node' = node /\ nbrs' = nbrs /\ slot' = slot
             /\ \A u \in Threads \ {t} : pc'[u] = pc[u] /\ at'[u] = at[u]
    BY <1>4, PickFacts
  <2>2. Half(t)'
    <3>1. node[t] \notin nbrs[t] /\ nbrs[t] \subseteq Allocated
      BY <2>1, OwnNodeApart
    <3>. QED BY <1>0, <2>1, <3>1
  <2>3. ASSUME NEW u \in Threads \ {t}, Connecting(u) PROVE Half(u)'
    <3>1. node[u] \in Allocated /\ nbrs[u] \subseteq Allocated /\ Half(u)
      BY <1>0, <2>3, OwnNodeApart
    <3>2. node[u] # node[t]
      BY <2>1, <2>3 DEF IInv, NodeInv, Building
    <3>3. ~(node[t] \in nbrs[u] /\ node[u] = n)
      <4>1. node[t] \in nbrs[u] => node[t] < node[u]
        BY <2>1, <2>3 DEF IInv, BelowInv, Below
      <4>2. node[u] = n => node[u] < node[t]
        BY <2>1, <2>3 DEF IInv, BelowInv, Below
      <4>3. node[t] \in Nat /\ node[u] \in Nat
        BY DEF IInv, TypeOK
      <4>. QED BY <4>1, <4>2, <4>3
    <3>4. \A x \in nbrs[u], s \in Slots : links'[x][s] # node[u]
      <4>. SUFFICES ASSUME NEW x \in nbrs[u], NEW s \in Slots PROVE links'[x][s] # node[u]
        OBVIOUS
      <4>1. CASE x = node[t]
        BY <2>1, <3>1, <3>3, <4>1
      <4>2. CASE x # node[t]
        BY <2>1, <3>1, <4>2
      <4>. QED BY <4>1, <4>2
    <3>. QED BY <2>1, <3>1, <3>2, <3>4
  <2>. QED BY <2>1, <2>2, <2>3 DEF HalfLinkInv, Connecting
<1>5. ASSUME NEW t \in Threads, BackLink(t) PROVE HalfLinkInv'
  <2>1. PICK a \in BackLinked(t, at[t]) :
             /\ Connecting(t) /\ pc[t] = "back" /\ pc'[t] = "pick"
             /\ at[t] \in nbrs[t] /\ at[t] \in Allocated /\ node[t] \in Allocated /\ at[t] # node[t]
             /\ a \in [Slots -> OutLinks(at[t]) \cup {at[t], node[t]}]
             /\ links'[at[t]] = a
             /\ \A m \in Allocated \ {at[t]} : links'[m] = links[m]
             /\ node' = node /\ at' = at
             /\ nbrs'[t] = nbrs[t] \ {at[t]} /\ slot'[t] = slot[t] + 1
             /\ \A u \in Threads \ {t} : pc'[u] = pc[u] /\ nbrs'[u] = nbrs[u] /\ slot'[u] = slot[u]
             /\ \A u \in Threads : Connecting(u) => node[u] # at[t]
    BY <1>5, BackFacts
  <2>2. Half(t)'
    <3>1. nbrs[t] \subseteq Allocated
      BY <2>1, OwnNodeApart
    <3>2. links'[node[t]] = links[node[t]]
      BY <2>1
    <3>3. \A x \in nbrs'[t] : x \in nbrs[t] /\ links'[x] = links[x]
      BY <2>1, <3>1
    <3>4. \A s \in Slots : links[node[t]][s] \in nbrs[t] => links[node[t]][s] = at[t]
      BY <1>0, <2>1
    <3>. QED BY <1>0, <2>1, <3>2, <3>3, <3>4
  <2>3. ASSUME NEW u \in Threads \ {t}, Connecting(u) PROVE Half(u)'
    <3>1. node[u] \in Allocated /\ nbrs[u] \subseteq Allocated /\ Half(u)
      BY <1>0, <2>3, OwnNodeApart
    <3>2. node[u] # node[t] /\ node[u] # at[t]
      BY <2>1, <2>3 DEF IInv, NodeInv, Building
    <3>3. \A x \in nbrs[u], s \in Slots : links'[x][s] # node[u]
      <4>. SUFFICES ASSUME NEW x \in nbrs[u], NEW s \in Slots PROVE links'[x][s] # node[u]
        OBVIOUS
      <4>1. CASE x = at[t]
        BY <2>1, <3>1, <3>2, <4>1 DEF OutLinks
      <4>2. CASE x # at[t]
        BY <2>1, <3>1, <4>2
      <4>. QED BY <4>1, <4>2
    <3>. QED BY <2>1, <3>1, <3>2, <3>3
  <2>. QED BY <2>1, <2>2, <2>3 DEF HalfLinkInv, Connecting
<1>. QED BY <1>1, <1>2, <1>3, <1>4, <1>5, ThreadsAssumption DEF Next, Step, Ended

-----------------------------------------------------------------------------

\* No step links a node to a neighbor it has, since between neighbors to come
\* and the node there is no link yet.
LEMMA NextNoDuplicate ==
    ASSUME IInv, HalfLinkInv, NoDuplicateLinks, [Next]_vars
    PROVE  NoDuplicateLinks'
<1>0. TypeOK /\ \A n \in Allocated : NoRepeats(links[n], n)
  BY DEF IInv, NoDuplicateLinks, NoRepeats
<1>. SUFFICES \A n \in Allocated' : NoRepeats(links'[n], n)
  BY DEF NoDuplicateLinks, NoRepeats
<1>1. ASSUME NEW t \in Threads,
             \/ FetchRow(t) \/ CheckCapacity(t) \/ RejectFull(t) \/ Overrun(t)
             \/ PopCandidate(t) \/ LockCandidate(t) \/ VisitLink(t) \/ EndSearch(t) \/ FinishConnect(t)
             \/ LockOwn(t) \/ Join \/ UNCHANGED vars
      PROVE  \A n \in Allocated' : NoRepeats(links'[n], n)
  <2>1. links' = links /\ curNumNodes' = curNumNodes
    BY <1>0, <1>1, QuietSteps DEF LockOwn
  <2>. QED BY <1>0, <2>1 DEF Allocated
<1>2. ASSUME NEW t \in Threads, AllocateFirst(t) \/ AllocateNode(t)
      PROVE  \A n \in Allocated' : NoRepeats(links'[n], n)
  <2>1. Store(t)
    BY <1>0, <1>2, AllocationSteps
  <2>. QED BY <1>0, <2>1, StoreLinks DEF NoRepeats
<1>3. ASSUME NEW t \in Threads, PickNeighbor(t)
      PROVE  \A n \in Allocated' : NoRepeats(links'[n], n)
  <2>1. PICK n \in nbrs[t] :
             /\ Connecting(t) /\ pc[t] = "pick"
             /\ n \in Allocated /\ node[t] \in Allocated /\ n # node[t]
             /\ \A m \in Allocated \ {node[t]} : links'[m] = links[m]
             /\ \A s \in Slots : links'[node[t]][s] = IF s = slot[t] THEN n ELSE links[node[t]][s]
             /\ curNumNodes' = curNumNodes
    BY <1>3, PickFacts
  <2>2. \A s \in Slots : links[node[t]][s] # n
    BY <2>1 DEF HalfLinkInv
  <2>3. NoRepeats(links'[node[t]], node[t])
    BY <1>0, <2>1, <2>2 DEF NoRepeats
  <2>. QED BY <1>0, <2>1, <2>3 DEF Allocated
<1>4. ASSUME NEW t \in Threads, BackLink(t)
      PROVE  \A n \in Allocated' : NoRepeats(links'[n], n)
  <2>1. PICK a \in BackLinked(t, at[t]) :
             /\ Connecting(t)
             /\ at[t] \in nbrs[t] /\ at[t] \in Allocated /\ node[t] \in Allocated /\ at[t] # node[t]
             /\ links'[at[t]] = a
             /\ \A m \in Allocated \ {at[t]} : links'[m] = links[m]
             /\ curNumNodes' = curNumNodes
    BY <1>4, BackFacts
  <2>2. \A s \in Slots : links[at[t]][s] # node[t]
    BY <2>1 DEF HalfLinkInv
  <2>3. NoRepeats(links'[at[t]], at[t])
    BY <1>0, <2>1, <2>2, BackLinkedOnce
  <2>. QED BY <1>0, <2>1, <2>3 DEF Allocated
<1>. QED BY <1>1, <1>2, <1>3, <1>4, ThreadsAssumption DEF Next, Step, Ended

-----------------------------------------------------------------------------
\* What a worker asks for is finite, and a search never loses its last neighbor.
LEMMA NeighborsAreFinite ==
    ASSUME TypeOK, NEW t \in Threads
    PROVE  IsFiniteSet(nbrs[t]) /\ Cardinality(nbrs[t]) \in Nat
<1>1. nbrs[t] \subseteq Allocated
  BY DEF TypeOK
<1>. QED BY <1>1, AllocatedIsFinite, FS_Subset, FS_CardinalityType

\* selectNeighbors is asked for at most M nodes, and for one at least.
LEMMA SelectionMFits == SelectionM \in Nat \ {0} /\ SelectionM <= M
  BY SizesAssumption DEF SelectionM

\* A selection has at most M neighbors, and one if a node was found.
LEMMA EndSearchSelects ==
    ASSUME TypeOK, RowInv, NEW t \in Threads, EndSearch(t)
    PROVE  /\ Cardinality(nbrs'[t]) <= M
           /\ nbrs[t] # {} => nbrs'[t] # {}
<1>1. PICK R \in Selections(row[t], nbrs[t], SelectionM) : nbrs' = [nbrs EXCEPT ![t] = R]
  BY DEF EndSearch
<1>2. row[t] \in Rows
  BY DEF EndSearch, Running, RowInv, HasRow, Building, Searching
<1>3. nbrs[t] \in SUBSET Allocated /\ nbrs'[t] = R
  BY <1>1 DEF TypeOK
<1>4. IsFiniteSet(nbrs[t])
  BY NeighborsAreFinite
<1>5. Cardinality(R) \in Nat /\ Cardinality(R) <= SelectionM /\ (nbrs[t] # {} => R # {})
  BY <1>1, <1>2, <1>3, <1>4, SelectionMFits, SelectionSize
<1>. QED BY <1>3, <1>5, SelectionMFits, SizesAssumption

\* No step leaves more neighbors than slots.
LEMMA NextSlot ==
    ASSUME IInv, SlotInv, [Next]_vars
    PROVE  SlotInv'
<1>0. /\ TypeOK /\ RowInv /\ pc \in [Threads -> Labels] /\ slot \in [Threads -> Nat]
      /\ \A u \in Threads : Cardinality(nbrs[u]) \in Nat
  BY NeighborsAreFinite DEF IInv, TypeOK
<1>1. ASSUME NEW t \in Threads,
             \/ FetchRow(t) \/ CheckCapacity(t) \/ RejectFull(t) \/ Overrun(t) \/ PopCandidate(t)
             \/ LockCandidate(t) \/ VisitLink(t) \/ FinishConnect(t) \/ Join \/ UNCHANGED vars
      PROVE  SlotInv'
  <2>1. \A u \in Threads : Connecting(u)' =>
             /\ Connecting(u) /\ nbrs'[u] = nbrs[u] /\ slot'[u] = slot[u]
    BY <1>0, <1>1, QuietSteps DEF Connecting
  <2>2. \A u \in Threads : pc'[u] = "own" => pc[u] = "own" /\ nbrs'[u] = nbrs[u]
    <3>1. CASE VisitLink(t)
      <4>1. pc[t] = "scan" /\ pc'[t] # "own" /\ \A u \in Threads \ {t} : pc'[u] = pc[u]
        BY <1>0, <3>1 DEF VisitLink, Running, Goto
      <4>. QED BY <1>0, <3>1, <4>1, VisitLinkQueues
    <3>2. CASE ~VisitLink(t)
      BY <1>0, <1>1, <3>2 DEF FetchRow, CheckCapacity, RejectFull, Overrun, PopCandidate, LockCandidate,
         FinishConnect, Join, vars, Goto
    <3>. QED BY <3>1, <3>2
  <2>. QED BY <2>1, <2>2 DEF SlotInv
<1>2. ASSUME NEW t \in Threads, EndSearch(t) PROVE SlotInv'
  <2>1. /\ pc[t] = "search" /\ pc'[t] = "own" /\ slot' = slot
        /\ \A u \in Threads \ {t} : pc'[u] = pc[u] /\ nbrs'[u] = nbrs[u]
    BY <1>0, <1>2 DEF EndSearch, Running, Goto, TypeOK
  <2>2. Cardinality(nbrs'[t]) <= M
    BY <1>0, <1>2, EndSearchSelects
  <2>. QED BY <2>1, <2>2 DEF SlotInv, Connecting
<1>3. ASSUME NEW t \in Threads, AllocateFirst(t) \/ AllocateNode(t) PROVE SlotInv'
  <2>1. /\ pc'[t] \in {"fetch", "search"}
        /\ \A u \in Threads \ {t} : pc'[u] = pc[u] /\ nbrs'[u] = nbrs[u] /\ slot'[u] = slot[u]
    BY <1>0, <1>3, AllocationSteps
  <2>. QED BY <2>1 DEF SlotInv, Connecting
<1>4. ASSUME NEW t \in Threads, LockOwn(t) PROVE SlotInv'
  <2>1. /\ pc[t] = "own" /\ pc'[t] = "pick" /\ nbrs' = nbrs /\ slot'[t] = 0
        /\ \A u \in Threads \ {t} : pc'[u] = pc[u] /\ slot'[u] = slot[u]
    BY <1>0, <1>4 DEF LockOwn, Running, Goto
  <2>. QED BY <1>0, <2>1 DEF SlotInv, Connecting
<1>5. ASSUME NEW t \in Threads, PickNeighbor(t) PROVE SlotInv'
  <2>1. /\ pc[t] = "pick" /\ pc'[t] = "back" /\ nbrs' = nbrs /\ slot' = slot
        /\ \A u \in Threads \ {t} : pc'[u] = pc[u]
    BY <1>0, <1>5 DEF PickNeighbor, Running, Goto
  <2>. QED BY <2>1 DEF SlotInv, Connecting
<1>6. ASSUME NEW t \in Threads, BackLink(t) PROVE SlotInv'
  <2>1. /\ pc[t] = "back" /\ pc'[t] = "pick" /\ at[t] \in nbrs[t]
        /\ nbrs'[t] = nbrs[t] \ {at[t]} /\ slot'[t] = slot[t] + 1
        /\ \A u \in Threads \ {t} : pc'[u] = pc[u] /\ nbrs'[u] = nbrs[u] /\ slot'[u] = slot[u]
    BY <1>6, BackFacts
  <2>2. Cardinality(nbrs'[t]) = Cardinality(nbrs[t]) - 1
    BY <1>0, <2>1, NeighborsAreFinite, FS_RemoveElement
  <2>3. slot'[t] + Cardinality(nbrs'[t]) <= M
    BY <1>0, <2>1, <2>2, SizesAssumption DEF SlotInv, Connecting
  <2>. QED BY <2>1, <2>3 DEF SlotInv, Connecting
<1>. QED BY <1>1, <1>2, <1>3, <1>4, <1>5, <1>6, ThreadsAssumption DEF Next, Step, Ended

-----------------------------------------------------------------------------
\* A turn of a scan leaves the beam a member.
LEMMA VisitLinkKeepsOne ==
    ASSUME TypeOK, NEW t \in Threads, VisitLink(t), nbrs[t] # {}
    PROVE  nbrs'[t] # {}
<1>. DEFINE S == nbrs[t] \cup {links[at[t]][slot[t]]}
<1>1. nbrs' = nbrs \/ \E kept \in Trimmed(row[t], S) : nbrs' = [nbrs EXCEPT ![t] = kept]
  BY DEF VisitLink, Consider
<1>2. IsFiniteSet(S)
  BY NeighborsAreFinite, FS_AddElement
<1>3. \A kept \in Trimmed(row[t], S) : kept # {}
  <2>. SUFFICES ASSUME Cardinality(S) > EfConstruction, NEW x \in S, S \ {x} = {}
                PROVE  FALSE
    BY DEF Trimmed, Furthest
  <2>. HIDE DEF S
  <2>1. Cardinality(S \ {x}) = Cardinality(S) - 1 /\ Cardinality(S) \in Nat
    BY <1>2, FS_RemoveElement, FS_CardinalityType
  <2>2. Cardinality({}) = 0
    BY FS_EmptySet
  <2>. QED BY <2>1, <2>2, SizesAssumption
<1>. QED BY <1>1, <1>3 DEF TypeOK

\* A node whose construction is over.
Finished(n) == \A u \in Threads : Building(u) => node[u] # n

\* No step takes the last link out of a node.
LEMMA NextLead ==
    ASSUME IInv, HalfLinkInv, SlotInv, LeadInv, [Next]_vars
    PROVE  LeadInv'
<1>. DEFINE Lead(u) == /\ Searching(u) \/ pc[u] = "own" => nbrs[u] # {}
                       /\ Connecting(u) => nbrs[u] # {} \/ OutLinks(node[u]) # {}
<1>0. /\ TypeOK /\ RowInv /\ pc \in [Threads -> Labels] /\ nbrs \in [Threads -> SUBSET Allocated]
      /\ \A u \in Threads : Lead(u)
      /\ \A n \in Allocated \ {0} : Finished(n) => OutLinks(n) # {}
  BY DEF IInv, TypeOK, LeadInv, ConnectedNodesLeadOut, Finished
<1>. SUFFICES /\ \A u \in Threads : Lead(u)'
              /\ \A n \in Allocated' \ {0} : Finished(n)' => OutLinks(n)' # {}
  BY DEF LeadInv, ConnectedNodesLeadOut, Finished
<1>1. ASSUME NEW t \in Threads,
             \/ FetchRow(t) \/ CheckCapacity(t) \/ RejectFull(t) \/ Overrun(t) \/ PopCandidate(t)
             \/ LockCandidate(t) \/ VisitLink(t) \/ EndSearch(t) \/ LockOwn(t) \/ Join \/ UNCHANGED vars
      PROVE  /\ \A u \in Threads : Lead(u)'
             /\ \A n \in Allocated' \ {0} : Finished(n)' => OutLinks(n)' # {}
  <2>1. links' = links /\ curNumNodes' = curNumNodes /\ node' = node
    BY <1>0, <1>1, QuietSteps DEF LockOwn
  <2>2. \A u \in Threads : Building(u) <=> Building(u)'
    BY <1>0, <1>1 DEF FetchRow, CheckCapacity, RejectFull, Overrun, PopCandidate, LockCandidate,
       VisitLink, EndSearch, LockOwn, Join, vars, Running, Goto, Building, Searching, Connecting
  <2>3. \A u \in Threads :
          \/ nbrs'[u] = nbrs[u] /\ (Connecting(u)' => Connecting(u) \/ pc[u] = "own")
             /\ ((Searching(u) \/ pc[u] = "own")' => Searching(u) \/ pc[u] = "own")
          \/ Searching(u) /\ ~Connecting(u)' /\ (nbrs[u] # {} => nbrs'[u] # {})
    <3>1. CASE VisitLink(t)
      <4>1. pc[t] = "scan" /\ pc'[t] \in {"scan", "search"} /\ \A u \in Threads \ {t} : pc'[u] = pc[u]
        BY <1>0, <3>1 DEF VisitLink, Running, Goto
      <4>. QED BY <1>0, <3>1, <4>1, VisitLinkQueues, VisitLinkKeepsOne DEF Searching, Connecting
    <3>2. CASE EndSearch(t)
      <4>1. /\ pc[t] = "search" /\ pc'[t] = "own"
            /\ \A u \in Threads \ {t} : pc'[u] = pc[u] /\ nbrs'[u] = nbrs[u]
        BY <1>0, <3>2 DEF EndSearch, Running, Goto
      <4>. QED BY <1>0, <3>2, <4>1, EndSearchSelects DEF Searching, Connecting
    <3>3. CASE ~VisitLink(t) /\ ~EndSearch(t)
      BY <1>0, <1>1, <3>3 DEF FetchRow, CheckCapacity, RejectFull, Overrun, PopCandidate,
         LockCandidate, LockOwn, Join, vars, Running, Goto, Searching, Connecting
    <3>. QED BY <3>1, <3>2, <3>3
  <2>4. \A n \in Allocated' \ {0} : Finished(n)' => OutLinks(n)' # {}
    BY <1>0, <2>1, <2>2 DEF Finished, OutLinks, Allocated
  <2>5. \A u \in Threads : Lead(u)'
    <3>. SUFFICES ASSUME NEW u \in Threads PROVE Lead(u)'
      OBVIOUS
    <3>1. OutLinks(node[u])' = OutLinks(node[u])
      BY <2>1 DEF OutLinks
    <3>. QED BY <1>0, <2>3, <3>1
  <2>. QED BY <2>4, <2>5
<1>2. ASSUME NEW t \in Threads, AllocateFirst(t) \/ AllocateNode(t)
      PROVE  /\ \A u \in Threads : Lead(u)'
             /\ \A n \in Allocated' \ {0} : Finished(n)' => OutLinks(n)' # {}
  <2>1. /\ Store(t) /\ pc[t] = "alloc" /\ pc'[t] \in {"fetch", "search"}
        /\ \A u \in Threads \ {t} : pc'[u] = pc[u] /\ nbrs'[u] = nbrs[u]
    BY <1>0, <1>2, AllocationSteps
  <2>2. /\ Allocated' = Allocated \cup {curNumNodes} /\ curNumNodes \notin Allocated
        /\ \A n \in Allocated : links'[n] = links[n]
        /\ node'[t] = curNumNodes /\ \A u \in Threads \ {t} : node'[u] = node[u]
    BY <1>0, <2>1, StoreLinks
  <2>3. \/ pc'[t] = "search" /\ nbrs'[t] # {}
        \/ pc'[t] = "fetch" /\ curNumNodes = 0
    <3>1. CASE AllocateFirst(t)
      BY <1>0, <3>1 DEF AllocateFirst, Goto
    <3>2. CASE AllocateNode(t)
      <4>1. PICK e \in EntryNodes(row[t]), marks \in MarksAfterClear :
                /\ cand' = [cand EXCEPT ![t] = {e}]
                /\ nbrs' = [nbrs EXCEPT ![t] = {e}]
                /\ visited' = [visited EXCEPT ![t] = marks \cup {e}]
        BY <3>2 DEF AllocateNode
      <4>2. nbrs'[t] = {e} /\ pc'[t] = "search"
        BY <1>0, <3>2, <4>1 DEF AllocateNode, Goto
      <4>. QED BY <4>2
    <3>. QED BY <1>2, <3>1, <3>2
  <2>4. \A n \in Allocated : OutLinks(n)' = OutLinks(n)
    BY <2>2 DEF OutLinks
  <2>5. \A u \in Threads : Lead(u)'
    <3>. SUFFICES ASSUME NEW u \in Threads PROVE Lead(u)'
      OBVIOUS
    <3>1. CASE u = t
      BY <2>1, <2>3, <3>1 DEF Searching, Connecting
    <3>2. CASE u # t
      <4>1. Connecting(u) => node[u] \in Allocated
        BY OwnNodeApart
      <4>. QED BY <1>0, <2>1, <2>2, <2>4, <3>2, <4>1 DEF Searching, Connecting
    <3>. QED BY <3>1, <3>2
  <2>6. ASSUME NEW n \in Allocated' \ {0}, Finished(n)' PROVE OutLinks(n)' # {}
    <3>1. n # curNumNodes
      BY <2>2, <2>3, <2>6 DEF Finished, Building, Searching
    <3>2. Finished(n)
      BY <2>1, <2>2, <2>6, <3>1 DEF Finished, Building, Searching, Connecting
    <3>. QED BY <1>0, <2>2, <2>4, <3>1, <3>2
  <2>. QED BY <2>5, <2>6
<1>3. ASSUME NEW t \in Threads, FinishConnect(t)
      PROVE  /\ \A u \in Threads : Lead(u)'
             /\ \A n \in Allocated' \ {0} : Finished(n)' => OutLinks(n)' # {}
  <2>1. /\ pc[t] = "pick" /\ pc'[t] = "fetch" /\ nbrs[t] = {} /\ nbrs' = nbrs
        /\ links' = links /\ curNumNodes' = curNumNodes /\ node' = node
        /\ \A u \in Threads \ {t} : pc'[u] = pc[u]
    BY <1>0, <1>3 DEF FinishConnect, Running, Goto
  <2>2. \A n : OutLinks(n)' = OutLinks(n)
    BY <2>1 DEF OutLinks
  <2>3. \A u \in Threads : Lead(u)'
    BY <1>0, <2>1, <2>2 DEF Searching, Connecting
  <2>4. ASSUME NEW n \in Allocated \ {0}, Finished(n)' PROVE OutLinks(n)' # {}
    <3>1. CASE n = node[t]
      BY <1>0, <2>1, <2>2, <3>1 DEF Connecting
    <3>2. CASE n # node[t]
      <4>1. Finished(n)
        BY <2>1, <2>4, <3>2 DEF Finished, Building, Searching, Connecting
      <4>. QED BY <1>0, <2>2, <4>1
    <3>. QED BY <3>1, <3>2
  <2>. QED BY <2>1, <2>3, <2>4 DEF Allocated
<1>4. ASSUME NEW t \in Threads, PickNeighbor(t)
      PROVE  /\ \A u \in Threads : Lead(u)'
             /\ \A n \in Allocated' \ {0} : Finished(n)' => OutLinks(n)' # {}
  <2>1. PICK n \in nbrs[t] :
             /\ Connecting(t) /\ pc[t] = "pick" /\ pc'[t] = "back" /\ Connecting(t)'
             /\ node[t] \in Allocated
             /\ \A m \in Allocated \ {node[t]} : links'[m] = links[m]
             /\ curNumNodes' = curNumNodes /\ node' = node /\ nbrs' = nbrs
             /\ \A u \in Threads \ {t} : pc'[u] = pc[u]
    BY <1>4, PickFacts
  <2>2. \A m \in Allocated \ {node[t]} : OutLinks(m)' = OutLinks(m)
    BY <2>1 DEF OutLinks
  <2>3. \A u \in Threads : Lead(u)'
    <3>. SUFFICES ASSUME NEW u \in Threads PROVE Lead(u)'
      OBVIOUS
    <3>1. CASE u = t
      BY <2>1, <3>1 DEF Searching, Connecting
    <3>2. CASE u # t
      <4>1. Connecting(u) => node[u] \in Allocated \ {node[t]}
        BY <2>1, <3>2, OwnNodeApart DEF IInv, NodeInv, Building
      <4>. QED BY <1>0, <2>1, <2>2, <3>2, <4>1 DEF Searching, Connecting
    <3>. QED BY <3>1, <3>2
  <2>4. ASSUME NEW m \in Allocated \ {0}, Finished(m)' PROVE OutLinks(m)' # {}
    <3>1. Finished(m) /\ m # node[t]
      BY <2>1, <2>4 DEF Finished, Building, Searching, Connecting
    <3>. QED BY <1>0, <2>2, <3>1
  <2>. QED BY <2>1, <2>3, <2>4 DEF Allocated
<1>5. ASSUME NEW t \in Threads, BackLink(t)
      PROVE  /\ \A u \in Threads : Lead(u)'
             /\ \A n \in Allocated' \ {0} : Finished(n)' => OutLinks(n)' # {}
  <2>1. PICK a \in BackLinked(t, at[t]) :
             /\ Connecting(t) /\ pc[t] = "back" /\ pc'[t] = "pick"
             /\ at[t] \in nbrs[t] /\ at[t] \in Allocated /\ node[t] \in Allocated /\ at[t] # node[t]
             /\ links'[at[t]] = a
             /\ \A m \in Allocated \ {at[t]} : links'[m] = links[m]
             /\ curNumNodes' = curNumNodes /\ node' = node
             /\ \A u \in Threads \ {t} : pc'[u] = pc[u] /\ nbrs'[u] = nbrs[u]
             /\ \A u \in Threads : Connecting(u) => node[u] # at[t]
    BY <1>5, BackFacts
  <2>2. \A m \in Allocated \ {at[t]} : OutLinks(m)' = OutLinks(m)
    BY <2>1 DEF OutLinks
  <2>3. OutLinks(at[t])' # {}
    <3>1. \E s \in Slots : a[s] # at[t]
      BY <1>0, <2>1, BackLinkedOnce
    <3>2. \A n : n = at[t] => OutLinks(n)' # {}
      BY <2>1, <3>1 DEF OutLinks
    <3>3. at'[t] = at[t]
      BY <1>5 DEF BackLink
    <3>. QED BY <3>2, <3>3
  <2>4. OutLinks(node[t]) # {}
    <3>1. Cardinality(nbrs[t]) >= 1 /\ Cardinality(nbrs[t]) \in Nat
      BY <1>0, <2>1, NeighborsAreFinite, CardinalityPositive
    <3>2. slot[t] \in Slots
      BY <1>0, <2>1, <3>1, SizesAssumption DEF SlotInv, Slots, TypeOK
    <3>3. links[node[t]][slot[t]] = at[t]
      BY <2>1, <3>2 DEF HalfLinkInv
    <3>. QED BY <2>1, <3>2, <3>3 DEF OutLinks
  <2>5. \A u \in Threads : Lead(u)'
    <3>. SUFFICES ASSUME NEW u \in Threads PROVE Lead(u)'
      OBVIOUS
    <3>1. CASE u = t
      BY <2>1, <2>2, <2>4, <3>1 DEF Searching, Connecting
    <3>2. CASE u # t
      <4>1. Connecting(u) => node[u] \in Allocated \ {at[t]}
        BY <2>1, <3>2, OwnNodeApart
      <4>. QED BY <1>0, <2>1, <2>2, <3>2, <4>1 DEF Searching, Connecting
    <3>. QED BY <3>1, <3>2
  <2>6. ASSUME NEW m \in Allocated \ {0}, Finished(m)' PROVE OutLinks(m)' # {}
    <3>1. Finished(m)
      BY <2>1, <2>6 DEF Finished, Building, Searching, Connecting
    <3>2. CASE m = at[t]
      <4>1. at' = at
        BY <1>5 DEF BackLink
      <4>. QED BY <2>3, <3>2, <4>1
    <3>3. CASE m # at[t]
      BY <1>0, <2>2, <3>1, <3>3
    <3>. QED BY <3>2, <3>3
  <2>. QED BY <2>1, <2>5, <2>6 DEF Allocated
<1>. QED BY <1>1, <1>2, <1>3, <1>4, <1>5, ThreadsAssumption DEF Next, Step, Ended

-----------------------------------------------------------------------------
(* The theorems. *)

\* The invariants of rows and links hold throughout.
LEMMA LinkInductive == Spec => [](IInv /\ LinkInv)
<1>1. Init => LinkInv
  <2>. SUFFICES ASSUME Init PROVE LinkInv
    OBVIOUS
  <2>1. Allocated = {} /\ \A t \in Threads : pc[t] = "fetch"
    BY DEF Init, Allocated
  <2>. QED BY <2>1 DEF LinkInv, NoDuplicateLinks, HalfLinkInv, SlotInv, LeadInv, ConnectedNodesLeadOut,
           Building, Searching, Connecting
<1>2. IInv /\ LinkInv /\ [Next]_vars => LinkInv'
  BY NextNoDuplicate, NextHalfLink, NextSlot, NextLead DEF LinkInv
<1>. QED BY <1>1, <1>2, Inductive, PTL DEF Spec

\* connectNeighbors writes at most M links into its node: the search hands it
\* at most M neighbors, and each takes one slot.
THEOREM SlotsSuffice == Spec => []LinkSlotsSuffice
<1>1. IInv /\ LinkInv => LinkSlotsSuffice
  <2>. SUFFICES ASSUME IInv, SlotInv, NEW t \in Threads, pc[t] = "pick", nbrs[t] # {}
                PROVE  slot[t] < M
    BY DEF LinkInv, LinkSlotsSuffice
  <2>1. TypeOK /\ slot[t] \in Nat /\ IsFiniteSet(nbrs[t]) /\ Cardinality(nbrs[t]) \in Nat
    BY NeighborsAreFinite DEF IInv, TypeOK
  <2>2. Cardinality(nbrs[t]) >= 1
    BY <2>1, CardinalityPositive
  <2>. QED BY <2>1, <2>2, SizesAssumption DEF SlotInv, Connecting
<1>. QED BY <1>1, LinkInductive, PTL

\* No node lists a neighbor twice: between a node and a neighbor it is about to
\* take there is no link in either direction, because the node was unknown to
\* all the others until its connection began, and of two nodes that connect at
\* a time only the larger can have the other among its neighbors.
THEOREM LinksAreDistinct == Spec => []NoDuplicateLinks
<1>1. IInv /\ LinkInv => NoDuplicateLinks
  BY DEF LinkInv
<1>. QED BY <1>1, LinkInductive, PTL

\* Once add has returned, a node other than the first has a link out.
THEOREM NodesLeadOut == Spec => []ConnectedNodesLeadOut
<1>1. IInv /\ LinkInv => ConnectedNodesLeadOut
  BY DEF LinkInv, LeadInv
<1>. QED BY <1>1, LinkInductive, PTL

=============================================================================
