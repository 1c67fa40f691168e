-------------------------- MODULE ReorderingProofs --------------------------
(***************************************************************************)
(* Proofs that relabel and reorder keep the graph, whatever the list of    *)
(* strategies, for any number of nodes and links and any graph, when the   *)
(* visited set that relabel polls is truly empty after its clear():        *)
(* RelabelStale.cfg shows what happens when it is not.                     *)
(*                                                                         *)
(* Relabelling is right for a permutation.  What is left is that both      *)
(* heuristics hand it one.  For gOrder the keys in its queue and the nodes *)
(* it has placed divide the nodes between them, and for that the queue's   *)
(* table must find each key, which its bounds rely on the list being       *)
(* sorted for.  For rcmOrder every node that was taken from the sorted     *)
(* list has been placed, and no node twice.  Between strategies the graph  *)
(* on hand is the first one with its nodes moved.                          *)
(*                                                                         *)
(* What rcmOrder promises beyond a permutation, the order of Cuthill and   *)
(* McKee, needs the source of every entry of its queue, which the program  *)
(* does not keep: an invariant of its own says that there is one.          *)
(*                                                                         *)
(* What gOrder promises is that its queue, which only ever counts by one,  *)
(* holds the score of every node that is left.  For that the changes a     *)
(* turn makes are counted, through the tables they are read from, and      *)
(* compared with what a node adds to the score when it joins the window.   *)
(***************************************************************************)
EXTENDS Reordering, FiniteSetTheorems, FunctionTheorems, WellFoundedInduction, TLAPS

-----------------------------------------------------------------------------
(* Relabelling: the inductive invariant.                                   *)
(*                                                                         *)
(* Between two cycles the visited places are whole cycles of P: they lead  *)
(* to one another and nowhere else, hold the nodes that belong there, and  *)
(* every other place holds its old node.  Within a cycle the place n is    *)
(* the parking place: it holds the node that lived at dest, until P leads  *)
(* back to n; every other place that a visited one leads to is settled.    *)

Reached(p) == \E k \in visited : P[k] = p

WholeCycles ==
    /\ \A k \in visited : P[k] \in visited /\ id[P[k]] = k
    /\ \A p \in visited : Reached(p)
    /\ \A p \in Nodes \ visited : id[p] = p
    /\ \A p \in Nodes : p < n => p \in visited

OpenCycle ==
    /\ n \in visited
    /\ Reached(dest)
    /\ dest = n \/ dest \notin visited
    /\ \A p \in visited \ {n} : Reached(p)
    /\ \A k \in visited : P[k] = dest \/ P[k] \in visited
    /\ \A k \in visited : P[k] # n => id[P[k]] = k
    /\ \A p \in Nodes \ {n} : ~Reached(p) => id[p] = p
    /\ IF dest = n THEN P[id[n]] = n ELSE id[n] = dest
    /\ \A p \in Nodes : p < n => p \in visited

CycleInv ==
    /\ pc = "rewire" => /\ n = 0 /\ visited = {} /\ links = links0
                        /\ \A p \in Nodes : id[p] = p
    /\ pc = "scan"   => WholeCycles
    /\ pc = "cycle"  => OpenCycle
    /\ pc = "done"   => WholeCycles /\ n = NumNodes

IInv == TypeOK /\ CycleInv /\ LinksTravelWithNodes

-----------------------------------------------------------------------------
\* Swapping two nodes keeps the places a permutation of the nodes, and every
\* node its links.
LEMMA SwapKeeps ==
    ASSUME TypeOK, LinksTravelWithNodes, pc # "rewire", P' = P, links0' = links0,
           NEW a \in Nodes, NEW b \in Nodes, Swap(a, b)
    PROVE  /\ id' \in Permutations
           /\ links' \in [Nodes -> [Slots -> Nodes]]
           /\ LinksTravelWithNodes'
<1>1. id' \in [Nodes -> Nodes]
  BY DEF Swap, TypeOK, Permutations
<1>2. \A p, q \in Nodes : id'[p] = id'[q] => p = q
  BY DEF Swap, TypeOK, Permutations
<1>3. links' \in [Nodes -> [Slots -> Nodes]]
  BY DEF Swap, TypeOK
<1>4. \A p \in Nodes, s \in Slots : links'[p][s] = P[links0[id'[p]][s]]
  BY DEF Swap, TypeOK, LinksTravelWithNodes, Permutations
<1>. QED BY <1>1, <1>2, <1>3, <1>4 DEF Permutations, LinksTravelWithNodes

\* The invariant holds before relabel begins.
LEMMA InitIInv == Init => IInv
<1>. SUFFICES ASSUME Init PROVE IInv
  OBVIOUS
<1>1. links0 \in [Nodes -> [Slots -> Nodes]]
  BY RelabelGraphs DEF Init
<1>2. TypeOK
  <2>1. id \in Permutations
    BY DEF Init, Permutations
  <2>2. n \in 0 .. NumNodes
    BY RelabelSizes DEF Init
  <2>. QED BY <1>1, <2>1, <2>2 DEF Init, TypeOK
<1>3. CycleInv /\ LinksTravelWithNodes
  BY DEF Init, CycleInv, LinksTravelWithNodes
<1>. QED BY <1>2, <1>3 DEF IInv

-----------------------------------------------------------------------------

\* Renaming the links keeps it.
LEMMA RewireKeeps ==
    ASSUME IInv, Rewire, StaleMarks = FALSE
    PROVE  IInv'
<1>1. /\ pc = "rewire" /\ pc' = "scan" /\ visited' = {}
      /\ P' = P /\ links0' = links0 /\ id' = id /\ n' = n /\ dest' = dest
      /\ links' = [p \in Nodes |-> [s \in Slots |-> P[links[p][s]]]]
  BY DEF Rewire
<1>2. TypeOK'
  BY <1>1 DEF IInv, TypeOK, Permutations
<1>3. CycleInv'
  BY <1>1 DEF IInv, CycleInv, WholeCycles, Nodes, TypeOK
<1>4. LinksTravelWithNodes'
  BY <1>1 DEF IInv, CycleInv, LinksTravelWithNodes
<1>. QED BY <1>2, <1>3, <1>4 DEF IInv

\* Passing over a place that is settled keeps it.
LEMMA SkipPlaceKeeps ==
    ASSUME IInv, SkipPlace
    PROVE  IInv'
<1>1. /\ pc = "scan" /\ n \in visited /\ n' = n + 1 /\ pc' = pc /\ visited' = visited
      /\ P' = P /\ links0' = links0 /\ id' = id /\ links' = links /\ dest' = dest
  BY DEF SkipPlace
<1>2. TypeOK'
  <2>1. n' \in 0 .. NumNodes
    BY <1>1, RelabelSizes DEF IInv, TypeOK, Nodes
  <2>. QED BY <1>1, <2>1 DEF IInv, TypeOK
<1>3. WholeCycles'
  BY <1>1, RelabelSizes DEF IInv, CycleInv, WholeCycles, Reached, TypeOK, Nodes
<1>4. LinksTravelWithNodes'
  BY <1>1 DEF IInv, LinksTravelWithNodes
<1>. QED BY <1>1, <1>2, <1>3, <1>4 DEF IInv, CycleInv

\* Entering a cycle moves node n to its place and parks that place's node at n.
LEMMA EnterCycleKeeps ==
    ASSUME IInv, EnterCycle
    PROVE  IInv'
<1>1. /\ pc = "scan" /\ n < NumNodes /\ n \notin visited /\ dest' = P[n] /\ Swap(n, P[n])
      /\ visited' = visited \cup {n} /\ pc' = "cycle"
      /\ P' = P /\ links0' = links0 /\ n' = n
  BY DEF EnterCycle
<1>2. n \in Nodes /\ P \in [Nodes -> Nodes] /\ id \in [Nodes -> Nodes] /\ visited \subseteq Nodes
  <2>1. n \in Nodes
    BY <1>1, RelabelSizes DEF IInv, TypeOK, Nodes
  <2>2. P \in [Nodes -> Nodes] /\ id \in [Nodes -> Nodes] /\ visited \subseteq Nodes
    BY DEF IInv, TypeOK, Permutations
  <2>. QED BY <2>1, <2>2
<1>3. WholeCycles
  BY <1>1 DEF IInv, CycleInv
<1>4. P[n] \notin visited
  BY <1>1, <1>2, <1>3 DEF WholeCycles, Reached, IInv, TypeOK, Permutations
<1>5. id' = [id EXCEPT ![n] = id[P[n]], ![P[n]] = id[n]]
  BY <1>1 DEF Swap
<1>6. id'[P[n]] = n /\ (P[n] # n => id'[n] = P[n])
      /\ \A p \in Nodes \ {n, P[n]} : id'[p] = id[p]
  BY <1>1, <1>2, <1>3, <1>4, <1>5 DEF WholeCycles
<1>7. /\ id' \in Permutations /\ links' \in [Nodes -> [Slots -> Nodes]]
      /\ LinksTravelWithNodes'
  BY <1>1, <1>2, SwapKeeps DEF IInv
<1>8. TypeOK'
  BY <1>1, <1>2, <1>7 DEF IInv, TypeOK
<1>9. OpenCycle'
  <2>1. n' \in visited' /\ Reached(dest)'
    BY <1>1 DEF Reached
  <2>2. dest' = n' \/ dest' \notin visited'
    BY <1>1, <1>4
  <2>3. \A p \in visited' \ {n'} : Reached(p)'
    BY <1>1, <1>3 DEF WholeCycles, Reached
  <2>4. \A k \in visited' : P'[k] = dest' \/ P'[k] \in visited'
    BY <1>1, <1>3 DEF WholeCycles
  <2>5. \A k \in visited' : P'[k] # n' => id'[P'[k]] = k
    BY <1>1, <1>2, <1>3, <1>4, <1>6 DEF WholeCycles
  <2>6. \A p \in Nodes \ {n'} : ~Reached(p)' => id'[p] = p
    BY <1>1, <1>2, <1>3, <1>6 DEF WholeCycles, Reached
  <2>7. IF dest' = n' THEN P'[id'[n']] = n' ELSE id'[n'] = dest'
    BY <1>1, <1>6
  <2>8. \A p \in Nodes : p < n' => p \in visited'
    BY <1>1, <1>3 DEF WholeCycles
  <2>. QED BY <2>1, <2>2, <2>3, <2>4, <2>5, <2>6, <2>7, <2>8 DEF OpenCycle
<1>. QED BY <1>1, <1>7, <1>8, <1>9 DEF IInv, CycleInv

\* Following a cycle moves the parked node to its place and parks the node it
\* displaces.
LEMMA FollowCycleKeeps ==
    ASSUME IInv, FollowCycle
    PROVE  IInv'
<1>1. /\ pc = "cycle" /\ dest \notin visited /\ dest' = P[dest] /\ Swap(n, P[dest])
      /\ visited' = visited \cup {dest} /\ pc' = pc
      /\ P' = P /\ links0' = links0 /\ n' = n
  BY DEF FollowCycle
<1>2. OpenCycle
  BY <1>1 DEF IInv, CycleInv
<1>3. /\ P \in [Nodes -> Nodes] /\ id \in [Nodes -> Nodes] /\ visited \subseteq Nodes
      /\ \A p, q \in Nodes : P[p] = P[q] => p = q
  BY DEF IInv, TypeOK, Permutations
<1>4. n \in visited /\ n \in Nodes /\ dest \in Nodes /\ dest # n /\ id[n] = dest
  BY <1>1, <1>2, <1>3 DEF OpenCycle, Reached
<1>5. \A k \in visited : P[k] # P[dest]
  BY <1>1, <1>3, <1>4
<1>6. P[dest] = n \/ P[dest] \notin visited'
  BY <1>1, <1>2, <1>3, <1>4, <1>5 DEF OpenCycle, Reached
<1>7. id' = [id EXCEPT ![n] = id[P[dest]], ![P[dest]] = id[n]]
  BY <1>1 DEF Swap
<1>8. P[dest] # n => id[P[dest]] = P[dest]
  BY <1>2, <1>3, <1>4, <1>5 DEF OpenCycle, Reached
<1>9. /\ id'[P[dest]] = dest /\ (P[dest] # n => id'[n] = P[dest])
      /\ \A p \in Nodes \ {n, P[dest]} : id'[p] = id[p]
  BY <1>3, <1>4, <1>7, <1>8
<1>10. /\ id' \in Permutations /\ links' \in [Nodes -> [Slots -> Nodes]]
       /\ LinksTravelWithNodes'
  BY <1>1, <1>3, <1>4, SwapKeeps DEF IInv
<1>11. TypeOK'
  BY <1>1, <1>3, <1>4, <1>10 DEF IInv, TypeOK
<1>12. OpenCycle'
  <2>1. n' \in visited' /\ Reached(dest)'
    BY <1>1, <1>4 DEF Reached
  <2>2. dest' = n' \/ dest' \notin visited'
    BY <1>1, <1>6
  <2>3. \A p \in visited' \ {n'} : Reached(p)'
    BY <1>1, <1>2 DEF OpenCycle, Reached
  <2>4. \A k \in visited' : P'[k] = dest' \/ P'[k] \in visited'
    BY <1>1, <1>2 DEF OpenCycle
  <2>5. \A k \in visited' : P'[k] # n' => id'[P'[k]] = k
    BY <1>1, <1>2, <1>3, <1>4, <1>5, <1>9 DEF OpenCycle
  <2>6. \A p \in Nodes \ {n'} : ~Reached(p)' => id'[p] = p
    BY <1>1, <1>2, <1>3, <1>4, <1>9 DEF OpenCycle, Reached
  <2>7. IF dest' = n' THEN P'[id'[n']] = n' ELSE id'[n'] = dest'
    BY <1>1, <1>9
  <2>8. \A p \in Nodes : p < n' => p \in visited'
    BY <1>1, <1>2 DEF OpenCycle
  <2>. QED BY <2>1, <2>2, <2>3, <2>4, <2>5, <2>6, <2>7, <2>8 DEF OpenCycle
<1>. QED BY <1>1, <1>10, <1>11, <1>12 DEF IInv, CycleInv

\* A cycle is left where it was entered.
LEMMA LeaveCycleKeeps ==
    ASSUME IInv, LeaveCycle
    PROVE  IInv'
<1>1. /\ pc = "cycle" /\ dest \in visited /\ n' = n + 1 /\ pc' = "scan" /\ visited' = visited
      /\ P' = P /\ links0' = links0 /\ id' = id /\ links' = links /\ dest' = dest
  BY DEF LeaveCycle
<1>2. OpenCycle /\ dest = n
  BY <1>1 DEF IInv, CycleInv, OpenCycle
<1>3. /\ P \in [Nodes -> Nodes] /\ id \in [Nodes -> Nodes] /\ visited \subseteq Nodes
      /\ \A p, q \in Nodes : P[p] = P[q] => p = q
  BY DEF IInv, TypeOK, Permutations
<1>4. n \in Nodes /\ n \in visited
  BY <1>2, <1>3 DEF OpenCycle
<1>5. TypeOK'
  <2>1. n' \in 0 .. NumNodes
    BY <1>1, <1>4, RelabelSizes DEF Nodes
  <2>. QED BY <1>1, <2>1 DEF IInv, TypeOK
<1>6. WholeCycles'
  <2>1. \A k \in visited : P[k] \in visited
    BY <1>2, <1>4 DEF OpenCycle
  <2>2. \A k \in visited : id[P[k]] = k
    BY <1>2, <1>3, <1>4 DEF OpenCycle
  <2>3. \A p \in visited : Reached(p)
    BY <1>2 DEF OpenCycle
  <2>4. \A p \in Nodes \ visited : id[p] = p
    BY <1>2, <1>4, <2>1 DEF OpenCycle, Reached
  <2>5. \A p \in Nodes : p < n + 1 => p \in visited
    BY <1>2, <1>4 DEF OpenCycle, Nodes
  <2>. QED BY <1>1, <2>1, <2>2, <2>3, <2>4, <2>5 DEF WholeCycles, Reached
<1>7. LinksTravelWithNodes'
  BY <1>1 DEF IInv, LinksTravelWithNodes
<1>. QED BY <1>1, <1>5, <1>6, <1>7 DEF IInv, CycleInv

\* The end of the loop over places keeps it.
LEMMA FinishKeeps ==
    ASSUME IInv, Finish
    PROVE  IInv'
<1>1. /\ pc = "scan" /\ n >= NumNodes /\ pc' = "done" /\ visited' = visited /\ n' = n
      /\ P' = P /\ links0' = links0 /\ id' = id /\ links' = links /\ dest' = dest
  BY DEF Finish
<1>2. n' = NumNodes
  BY <1>1, RelabelSizes DEF IInv, TypeOK
<1>3. WholeCycles'
  BY <1>1 DEF IInv, CycleInv, WholeCycles, Reached
<1>. QED BY <1>1, <1>2, <1>3 DEF IInv, TypeOK, CycleInv, LinksTravelWithNodes

\* No step of relabel breaks the invariant.
LEMMA NextIInv ==
    ASSUME StaleMarks = FALSE, IInv, [Next]_vars
    PROVE  IInv'
<1>1. CASE UNCHANGED vars
  BY <1>1 DEF vars, IInv, TypeOK, CycleInv, WholeCycles, OpenCycle, Reached, LinksTravelWithNodes
<1>. QED BY <1>1, RewireKeeps, SkipPlaceKeeps, EnterCycleKeeps, FollowCycleKeeps,
            LeaveCycleKeeps, FinishKeeps DEF Next

-----------------------------------------------------------------------------
\* swapNodes never parts a node from its links, whatever the permutation.
THEOREM LinksTravel == ASSUME StaleMarks = FALSE PROVE Spec => []LinksTravelWithNodes
<1>. USE DEF IInv
<1>1. IInv => LinksTravelWithNodes
  OBVIOUS
<1>. QED BY <1>1, InitIInv, NextIInv, PTL DEF Spec

\* The chain of swaps realises every permutation of every number of nodes: when
\* relabel returns, each node lies where the reordering wants it.
THEOREM RelabelIsRight == ASSUME StaleMarks = FALSE PROVE Spec => []EveryNodeInPlace
<1>1. IInv => EveryNodeInPlace
  <2>. SUFFICES ASSUME IInv, pc = "done", NEW m \in Nodes PROVE id[P[m]] = m
    BY DEF EveryNodeInPlace
  <2>1. WholeCycles /\ n = NumNodes
    BY DEF IInv, CycleInv
  <2>2. m \in visited
    BY <2>1, RelabelSizes DEF WholeCycles, Nodes
  <2>. QED BY <2>1, <2>2 DEF WholeCycles
<1>. QED BY <1>1, InitIInv, NextIInv, PTL DEF Spec

-----------------------------------------------------------------------------
(* Numbers and finite sets. *)

\* A set of natural numbers that is not empty has a least element.
LEMMA LeastExists ==
    ASSUME NEW S \in SUBSET Nat, S # {}
    PROVE  \E m \in S : \A k \in S : m <= k
<1>1. PICK m \in S : \A k \in S : <<k, m>> \notin OpToRel(<, Nat)
  BY WFMin, NatLessThanWellFounded
<1>2. \A k \in S : ~(k < m)
  BY <1>1 DEF OpToRel
<1>. QED BY <1>2

\* A proper subset of a finite set has fewer elements.
LEMMA SmallerSet ==
    ASSUME NEW S, IsFiniteSet(S), NEW T \in SUBSET S, T # S
    PROVE  Cardinality(T) < Cardinality(S)
<1>1. IsFiniteSet(T) /\ Cardinality(T) <= Cardinality(S) /\ Cardinality(T) # Cardinality(S)
  BY FS_Subset
<1>. QED BY <1>1, FS_CardinalityType

-----------------------------------------------------------------------------
(* The outdegree table. *)

\* The nodes that p leads to in the graph g.
Leads(g, p) == {g[p][s] : s \in Slots} \ {p}

\* The number of its links.
Fanout(g, p) == Cardinality({s \in Slots : g[p][s] # p})

\* The list t holds the nodes that p leads to, and is as long as p has links.
ListsLinks(g, p, t) ==
    /\ Len(t) = Fanout(g, p)
    /\ \A i \in DOMAIN t : t[i] \in Leads(g, p)
    /\ \A v \in Leads(g, p) : \E i \in DOMAIN t : t[i] = v

\* The slots of a node that are in use.
Used(g, p) == {s \in Slots : g[p][s] # p}

\* The list t holds the links of p, one entry for each slot in use.
ListsSlots(g, p, t) ==
    \E f \in Bijection(DOMAIN t, Used(g, p)) : \A i \in DOMAIN t : t[i] = g[p][f[i]]

\* An outdegree table lists the nodes that each node leads to.
LEMMA TableListsLinks ==
    ASSUME links \in [Nodes -> [Slots -> Nodes]], NEW p \in Nodes
    PROVE  /\ OutdegreeTable[p] \in Seq(Nodes)
           /\ Len(OutdegreeTable[p]) <= M
           /\ ListsLinks(links, p, OutdegreeTable[p])
           /\ ListsSlots(links, p, OutdegreeTable[p])
<1>. DEFINE used == {s \in Slots : links[p][s] # p}
            below(s) == {r \in used : r < s}
            c == Cardinality(used)
            f == [s \in used |-> Cardinality(below(s))]
            nth(i) == CHOOSE s \in used : Cardinality({r \in used : r < s}) = i - 1
<1>1. IsFiniteSet(used) /\ c \in Nat /\ c <= M
  <2>1. IsFiniteSet(Slots) /\ Cardinality(Slots) = M
    BY RelabelSizes, FS_Interval DEF Slots
  <2>. QED BY <2>1, FS_Subset, FS_CardinalityType
<1>2. ASSUME NEW s \in used
      PROVE  IsFiniteSet(below(s)) /\ Cardinality(below(s)) \in 0 .. c - 1
  <2>1. IsFiniteSet(below(s)) /\ Cardinality(below(s)) <= c /\ (Cardinality(below(s)) = c => below(s) = used)
    BY <1>1, FS_Subset
  <2>2. s \notin below(s)
    BY DEF Slots
  <2>. QED BY <1>1, <2>1, <2>2, FS_CardinalityType
<1>3. ASSUME NEW r \in used, NEW s \in used, r < s
      PROVE  Cardinality(below(r)) < Cardinality(below(s))
  <2>1. below(r) \in SUBSET below(s) /\ below(r) # below(s)
    <3>0. \A x \in used : x \in Int
      BY DEF Slots
    <3>1. below(r) \in SUBSET below(s)
      <4>. HIDE DEF used
      <4>. QED BY <1>3, <3>0
    <3>2. r \in below(s) /\ r \notin below(r)
      <4>. HIDE DEF used
      <4>. QED BY <1>3, <3>0
    <3>. QED BY <3>1, <3>2
  <2>2. IsFiniteSet(below(s))
    BY <1>2
  <2>. DEFINE A == below(r)
              B == below(s)
  <2>. HIDE DEF A, B
  <2>3. A \in SUBSET B /\ A # B /\ IsFiniteSet(B)
    BY <2>1, <2>2 DEF A, B
  <2>4. Cardinality(A) < Cardinality(B)
    BY <2>3, SmallerSet
  <2>. QED BY <2>4 DEF A, B
<1>4. f \in Injection(used, 0 .. c - 1)
  <2>1. f \in [used -> 0 .. c - 1]
    BY <1>2
  <2>2. ASSUME NEW r \in used, NEW s \in used, f[r] = f[s]
        PROVE  r = s
    <3>1. r < s \/ s < r \/ r = s
      BY RelabelSizes DEF Slots
    <3>2. f[r] \in 0 .. c - 1 /\ f[s] \in 0 .. c - 1
      BY <2>1
    <3>3. r < s => f[r] < f[s]
      BY <1>3
    <3>4. s < r => f[s] < f[r]
      BY <1>3
    <3>. HIDE DEF f
    <3>. QED BY <1>1, <2>2, <3>1, <3>2, <3>3, <3>4
  <2>. HIDE DEF f
  <2>. QED BY <2>1, <2>2 DEF Injection, IsInjective
<1>5. f \in Surjection(used, 0 .. c - 1)
  <2>1. IsFiniteSet(0 .. c - 1) /\ Cardinality(0 .. c - 1) = c
    <3>1. c \in Nat
      BY <1>1
    <3>. HIDE DEF c
    <3>. DEFINE top == c - 1
    <3>2. top \in Int /\ ~(0 > top /\ c # 0) /\ (0 > top => c = 0) /\ top - 0 + 1 = c
      BY <3>1
    <3>. HIDE DEF top
    <3>3. IsFiniteSet(0 .. top) /\ Cardinality(0 .. top) = IF 0 > top THEN 0 ELSE top - 0 + 1
      BY <3>2, FS_Interval
    <3>4. Cardinality(0 .. top) = c
      BY <3>2, <3>3
    <3>. QED BY <3>3, <3>4 DEF top
  <2>. HIDE DEF f
  <2>. QED BY <1>1, <1>4, <2>1, FS_Injection
<1>6. ASSUME NEW i \in 1 .. c
      PROVE  links[p][nth(i)] \in Nodes /\ nth(i) \in used /\ f[nth(i)] = i - 1
  <2>1. i - 1 \in 0 .. c - 1
    BY <1>1
  <2>2. \E s \in used : f[s] = i - 1
    <3>. HIDE DEF f
    <3>. QED BY <1>5, <2>1 DEF Surjection
  <2>3. \E s \in used : Cardinality({r \in used : r < s}) = i - 1
    BY <2>2
  <2>4. nth(i) \in used /\ Cardinality({r \in used : r < nth(i)}) = i - 1
    BY <2>3
  <2>. QED BY <2>4
<1>7. OutdegreeTable[p] = [i \in 1 .. c |-> links[p][nth(i)]]
  BY DEF OutdegreeTable
<1>8. ASSUME NEW s \in used
      PROVE  \E i \in 1 .. c : nth(i) = s
  <2>1. f[s] \in 0 .. c - 1 /\ \A r \in used : f[r] = f[s] => r = s
    <3>. HIDE DEF f
    <3>. QED BY <1>4 DEF Injection, IsInjective
  <2>2. f[s] + 1 \in 1 .. c /\ (f[s] + 1) - 1 = f[s]
    <3>. HIDE DEF f
    <3>. QED BY <1>1, <2>1
  <2>3. nth(f[s] + 1) \in used /\ f[nth(f[s] + 1)] = (f[s] + 1) - 1
    BY <1>6, <2>2
  <2>4. nth(f[s] + 1) = s
    <3>. HIDE DEF f, nth
    <3>. QED BY <2>1, <2>2, <2>3
  <2>. HIDE DEF f, nth
  <2>. QED BY <2>2, <2>4
<1>9. c = Fanout(links, p) /\ Leads(links, p) = {links[p][s] : s \in used}
  BY DEF Fanout, Leads
<1>. HIDE DEF c, nth, f
<1>10. OutdegreeTable[p] \in Seq(Nodes) /\ Len(OutdegreeTable[p]) = c /\ DOMAIN OutdegreeTable[p] = 1 .. c
  BY <1>1, <1>6, <1>7
<1>11. ListsLinks(links, p, OutdegreeTable[p])
  <2>. HIDE DEF used
  <2>1. \A i \in 1 .. c : OutdegreeTable[p][i] \in Leads(links, p)
    BY <1>6, <1>7, <1>9
  <2>2. ASSUME NEW v \in Leads(links, p) PROVE \E i \in 1 .. c : OutdegreeTable[p][i] = v
    <3>1. PICK s \in used : v = links[p][s]
      BY <1>9
    <3>2. PICK i \in 1 .. c : nth(i) = s
      BY <1>8
    <3>3. OutdegreeTable[p][i] = links[p][nth(i)]
      BY <1>7
    <3>. QED BY <3>1, <3>2, <3>3
  <2>3. Len(OutdegreeTable[p]) = Fanout(links, p)
    BY <1>9, <1>10
  <2>4. /\ \A i \in DOMAIN OutdegreeTable[p] : OutdegreeTable[p][i] \in Leads(links, p)
        /\ \A v \in Leads(links, p) : \E i \in DOMAIN OutdegreeTable[p] : OutdegreeTable[p][i] = v
    BY <1>10, <2>1, <2>2
  <2>. QED BY <2>3, <2>4 DEF ListsLinks
<1>12. ListsSlots(links, p, OutdegreeTable[p])
  <2>. DEFINE h == [i \in 1 .. c |-> nth(i)]
  <2>. HIDE DEF used
  <2>1. h \in [1 .. c -> used] /\ \A t \in used : \E i \in 1 .. c : h[i] = t
    BY <1>6, <1>8
  <2>2. \A i, j \in 1 .. c : h[i] = h[j] => i = j
    BY <1>1, <1>6
  <2>3. \A i \in 1 .. c : OutdegreeTable[p][i] = links[p][h[i]]
    BY <1>7
  <2>. HIDE DEF h
  <2>4. h \in Bijection(1 .. c, used)
    BY <2>1, <2>2 DEF Bijection, Injection, Surjection, IsInjective
  <2>5. used = Used(links, p)
    BY DEF Used, used
  <2>. QED BY <1>10, <2>3, <2>4, <2>5 DEF ListsSlots
<1>. QED BY <1>1, <1>10, <1>11, <1>12

-----------------------------------------------------------------------------
(* The queue of gOrder. *)

\* The entries of the queue, keys being nodes.
Entries == [key : Nodes, priority : Int]

\* The list is sorted by priority.
Ascends(list) ==
    \A i, j \in 1 .. Len(list) : i < j => list[i].priority <= list[j].priority

\* The queue is sorted and its table agrees with its list.
QueueOK(q) ==
    /\ q.list \in Seq(Entries)
    /\ q.index \in [DOMAIN q.index -> Nat]
    /\ IndexAgrees(q)
    /\ Ascends(q.list)

-----------------------------------------------------------------------------
(* The invariant. *)

\* The nodes placed so far.
Listed == {order[i] : i \in DOMAIN order}

\* What each variable holds.
ShapeInv ==
    /\ phase \in {"check", "pick", "turn", "update", "rcm", "relabel", "done", "rejected", "threw"}
    /\ node \in Permutations
    /\ graph0 \in [Nodes -> [Slots -> Nodes]]
    /\ table \in [Nodes -> Seq(Nodes)]
    /\ \A p \in Nodes : Len(table[p]) <= M
    /\ order \in Seq(Nodes)
    /\ \A i, j \in DOMAIN order : order[i] = order[j] => i = j
    /\ QueueOK(queue)
    /\ todo \in SUBSET Nodes
    /\ seen \in SUBSET Nodes
    /\ fifo \in Seq(Nodes)

\* What a heuristic has placed, and what it has left to place.
PlacingInv ==
    /\ phase \in {"turn", "update"} => DOMAIN queue.index = Nodes \ Listed
    /\ phase = "update" => Len(order) < NumNodes
    /\ phase = "rcm" => seen = Listed /\ Nodes \ todo \subseteq seen
    /\ phase \notin {"turn", "update", "rcm"} => order = <<>> /\ seen = {}

\* Between two strategies relabel has not begun.
BetweenInv == phase # "relabel" => pc = "rewire"

\* The graph that the strategy under way found is the first one with its nodes moved.
MovedInv == \A p \in Nodes, s \in Slots : node[links0[p][s]] = graph0[node[p]][s]

ReorderInv == ShapeInv /\ PlacingInv /\ BetweenInv /\ MovedInv /\ IInv

\* What an entry of the queue holds.
LEMMA EntriesHavePriorities ==
    ASSUME NEW list \in Seq(Entries)
    PROVE  Len(list) \in Nat /\ \A j \in 1 .. Len(list) : list[j].priority \in Int /\ list[j].key \in Nodes
<1>1. \A j \in 1 .. Len(list) : list[j] \in Entries
  OBVIOUS
<1>. QED BY <1>1 DEF Entries

\* Where numbers that ascend exceed one of them, and where they reach it.
LEMMA LastOfAscent ==
    ASSUME NEW size \in Nat, NEW f, \A j \in 1 .. size : f[j] \in Int,
           \A j, l \in 1 .. size : j < l => f[j] <= f[l],
           NEW i \in 1 .. size, NEW p, p = f[i]
    PROVE  /\ \E t \in 0 .. size : (\A j \in 1 .. t : f[j] <= p) /\ (t < size => f[t + 1] > p)
           /\ \A t \in 0 .. size :
                  (\A j \in 1 .. t : f[j] <= p) /\ (t < size => f[t + 1] > p)
                  => /\ t \in 1 .. size /\ f[t] = p
                     /\ \A j \in 1 .. size : t < j => p < f[j]
<1>1. \E t \in 0 .. size : (\A j \in 1 .. t : f[j] <= p) /\ (t < size => f[t + 1] > p)
  <2>. DEFINE S == {k \in 0 .. size : \E j \in 1 .. size : k = size - j /\ f[j] <= p}
  <2>1. PICK k \in S : \A l \in S : k <= l
    <3>1. size - i \in S /\ S \in SUBSET Nat
      OBVIOUS
    <3>. HIDE DEF S
    <3>. QED BY <3>1, LeastExists
  <2>2. PICK x \in 1 .. size : k = size - x /\ f[x] <= p
    BY <2>1
  <2>3. \A j \in 1 .. x : f[j] <= p
    <3>1. ASSUME NEW j \in 1 .. x PROVE f[j] <= p
      <4>1. CASE j = x
        BY <2>2, <4>1
      <4>2. CASE j < x
        <5>1. f[j] <= f[x]
          BY <4>2
        <5>. QED BY <2>2, <5>1
      <4>. QED BY <4>1, <4>2
    <3>. QED BY <3>1
  <2>4. ASSUME x < size, ~(f[x + 1] > p) PROVE FALSE
    <3>1. size - (x + 1) \in S
      BY <2>4
    <3>2. k <= size - (x + 1)
      BY <2>1, <3>1
    <3>. QED BY <2>2, <3>2
  <2>. QED BY <2>3, <2>4
<1>2. ASSUME NEW t \in 0 .. size, \A j \in 1 .. t : f[j] <= p, t < size => f[t + 1] > p
      PROVE  /\ t \in 1 .. size /\ f[t] = p
             /\ \A j \in 1 .. size : t < j => p < f[j]
  <2>1. ASSUME NEW j \in 1 .. size, t < j PROVE p < f[j]
    <3>1. t + 1 \in 1 .. size /\ (t + 1 = j \/ t + 1 < j)
      BY <2>1
    <3>2. f[t + 1] <= f[j]
      BY <3>1
    <3>. QED BY <1>2, <3>1, <3>2
  <2>2. i <= t
    <3>1. ~(t < i)
      BY <2>1
    <3>. QED BY <3>1
  <2>3. f[t] <= p /\ p <= f[t]
    <3>1. t \in 1 .. size /\ (i = t \/ i < t)
      BY <2>2
    <3>. QED BY <1>2, <3>1
  <2>. QED BY <2>1, <2>2, <2>3
<1>. QED BY <1>1, <1>2

\* The first place of a list of numbers that is not below one of them.
LEMMA FirstReached ==
    ASSUME NEW size \in Nat, NEW f, \A j \in 1 .. size : f[j] \in Int,
           NEW i \in 1 .. size, NEW p, p = f[i]
    PROVE  \E t \in 1 .. size + 1 : (\A j \in 1 .. t - 1 : f[j] < p) /\ (t <= size => f[t] >= p)
<1>. DEFINE S == {j \in 1 .. size : f[j] >= p}
<1>1. PICK x \in S : \A j \in S : x <= j
  <2>1. i \in S /\ S \in SUBSET Nat
    OBVIOUS
  <2>. HIDE DEF S
  <2>. QED BY <2>1, LeastExists
<1>2. ASSUME NEW j \in 1 .. x - 1 PROVE f[j] < p
  <2>1. j \in 1 .. size /\ j \notin S
    BY <1>1
  <2>. QED BY <2>1
<1>3. x \in 1 .. size + 1 /\ f[x] >= p
  BY <1>1
<1>. QED BY <1>2, <1>3

\* In a sorted list the first entry that is not smaller than one of them has
\* its value.
LEMMA FirstOfAscent ==
    ASSUME NEW size \in Nat, NEW f, \A j \in 1 .. size : f[j] \in Int,
           \A j, l \in 1 .. size : j < l => f[j] <= f[l],
           NEW i \in 1 .. size, NEW p, p = f[i]
    PROVE  /\ \E t \in 1 .. size + 1 : (\A j \in 1 .. t - 1 : f[j] < p) /\ (t <= size => f[t] >= p)
           /\ \A t \in 1 .. size + 1 :
                  (\A j \in 1 .. t - 1 : f[j] < p) /\ (t <= size => f[t] >= p)
                  => /\ t \in 1 .. size /\ f[t] = p
                     /\ \A j \in 1 .. size : j < t => f[j] < p
<1>1. \E t \in 1 .. size + 1 : (\A j \in 1 .. t - 1 : f[j] < p) /\ (t <= size => f[t] >= p)
  BY FirstReached
<1>2. ASSUME NEW t \in 1 .. size + 1, \A j \in 1 .. t - 1 : f[j] < p, t <= size => f[t] >= p
      PROVE  /\ t \in 1 .. size /\ f[t] = p
             /\ \A j \in 1 .. size : j < t => f[j] < p
  <2>1. \A j \in 1 .. size : j < t => f[j] < p
    BY <1>2
  <2>2. t <= i
    <3>1. ~(i < t)
      BY <2>1
    <3>. QED BY <3>1
  <2>3. f[t] <= p /\ p <= f[t]
    <3>1. t \in 1 .. size /\ (i = t \/ t < i)
      BY <2>2
    <3>. QED BY <1>2, <3>1
  <2>. QED BY <2>1, <2>2, <2>3
<1>. QED BY <1>1, <1>2

\* std::upper_bound - 1 and std::lower_bound, for the priority of an entry.
LEMMA BoundsFound ==
    ASSUME NEW q, q.list \in Seq(Entries), Ascends(q.list), NEW i \in 1 .. Len(q.list),
           NEW p, p = q.list[i].priority
    PROVE  /\ LastOf(q, p) \in 1 .. Len(q.list)
           /\ q.list[LastOf(q, p)].priority = p
           /\ \A j \in 1 .. Len(q.list) : LastOf(q, p) < j => p < q.list[j].priority
           /\ FirstOf(q, p) \in 1 .. Len(q.list)
           /\ q.list[FirstOf(q, p)].priority = p
           /\ \A j \in 1 .. Len(q.list) : j < FirstOf(q, p) => q.list[j].priority < p
<1>. DEFINE size == Len(q.list)
            f == [j \in 1 .. Len(q.list) |-> q.list[j].priority]
<1>1. size \in Nat /\ i \in 1 .. size /\ p = f[i] /\ \A j \in 1 .. size : f[j] \in Int
  BY EntriesHavePriorities
<1>2. \A j, l \in 1 .. size : j < l => f[j] <= f[l]
  BY DEF Ascends
<1>3. \A j \in 1 .. size : f[j] = q.list[j].priority
  OBVIOUS
<1>. DEFINE last(t)  == (\A j \in 1 .. t : f[j] <= p) /\ (t < size => f[t + 1] > p)
            first(t) == (\A j \in 1 .. t - 1 : f[j] < p) /\ (t <= size => f[t] >= p)
<1>4. \A t \in 0 .. size : last(t) <=> /\ \A j \in 1 .. t : q.list[j].priority <= p
                                       /\ t < Len(q.list) => q.list[t + 1].priority > p
  <2>1. ASSUME NEW t \in 0 .. size, NEW j \in 1 .. t PROVE f[j] = q.list[j].priority
    BY <1>1, <1>3
  <2>2. ASSUME NEW t \in 0 .. size, t < size PROVE f[t + 1] = q.list[t + 1].priority
    BY <2>2, <1>1, <1>3
  <2>. HIDE DEF f
  <2>. QED BY <2>1, <2>2
<1>5. \A t \in 1 .. size + 1 : first(t) <=> /\ \A j \in 1 .. t - 1 : q.list[j].priority < p
                                            /\ t <= Len(q.list) => q.list[t].priority >= p
  <2>1. ASSUME NEW t \in 1 .. size + 1, NEW j \in 1 .. t - 1 PROVE f[j] = q.list[j].priority
    BY <1>1, <1>3
  <2>2. ASSUME NEW t \in 1 .. size + 1, t <= size PROVE f[t] = q.list[t].priority
    BY <2>2, <1>1, <1>3
  <2>. HIDE DEF f
  <2>. QED BY <2>1, <2>2
<1>6. LastOf(q, p) \in 0 .. size /\ last(LastOf(q, p))
  <2>1. \E t \in 0 .. size : last(t)
    <3>. HIDE DEF f, size
    <3>. QED BY <1>1, <1>2, LastOfAscent
  <2>2. PICK t \in 0 .. size : /\ \A j \in 1 .. t : q.list[j].priority <= p
                               /\ t < Len(q.list) => q.list[t + 1].priority > p
    <3>. HIDE DEF last
    <3>. QED BY <2>1, <1>4
  <2>3. /\ LastOf(q, p) \in 0 .. size
        /\ \A j \in 1 .. LastOf(q, p) : q.list[j].priority <= p
        /\ LastOf(q, p) < Len(q.list) => q.list[LastOf(q, p) + 1].priority > p
    BY <2>2, Zenon DEF LastOf
  <2>. HIDE DEF last
  <2>. QED BY <2>3, <1>4
<1>7. FirstOf(q, p) \in 1 .. size + 1 /\ first(FirstOf(q, p))
  <2>1. \E t \in 1 .. size + 1 : first(t)
    <3>. HIDE DEF f, size
    <3>. QED BY <1>1, <1>2, FirstReached
  <2>2. PICK t \in 1 .. size + 1 : /\ \A j \in 1 .. t - 1 : q.list[j].priority < p
                                   /\ t <= Len(q.list) => q.list[t].priority >= p
    <3>. HIDE DEF first
    <3>. QED BY <2>1, <1>5
  <2>3. /\ FirstOf(q, p) \in 1 .. size + 1
        /\ \A j \in 1 .. FirstOf(q, p) - 1 : q.list[j].priority < p
        /\ FirstOf(q, p) <= Len(q.list) => q.list[FirstOf(q, p)].priority >= p
    BY <2>2, Zenon DEF FirstOf
  <2>. HIDE DEF first
  <2>. QED BY <2>3, <1>5
<1>8. \A t \in 0 .. size : last(t) => /\ t \in 1 .. size /\ f[t] = p
                                      /\ \A j \in 1 .. size : t < j => p < f[j]
  <2>. HIDE DEF f, size
  <2>. QED BY <1>1, <1>2, LastOfAscent
<1>9. \A t \in 1 .. size + 1 : first(t) => /\ t \in 1 .. size /\ f[t] = p
                                           /\ \A j \in 1 .. size : j < t => f[j] < p
  <2>. HIDE DEF f, size
  <2>. QED BY <1>1, <1>2, FirstOfAscent
<1>. HIDE DEF last, first
<1>10. LET t == LastOf(q, p)
       IN  t \in 1 .. size /\ f[t] = p /\ \A j \in 1 .. size : t < j => p < f[j]
  BY <1>6, <1>8
<1>11. LET t == FirstOf(q, p)
       IN  t \in 1 .. size /\ f[t] = p /\ \A j \in 1 .. size : j < t => f[j] < p
  BY <1>7, <1>9
<1>. QED BY <1>3, <1>10, <1>11

\* A key changes places with an equal of it and its priority by one.
Bumped(q, i, t, d) == [Swapped(q, i, t) EXCEPT !.list[t].priority = @ + d]

\* Moving an entry to the end of its equals before it changes keeps list and
\* table in agreement and the list sorted, and changes no other priority.
LEMMA BumpKeeps ==
    ASSUME NEW q, QueueOK(q), NEW i \in 1 .. Len(q.list), NEW t \in 1 .. Len(q.list),
           q.list[t].priority = q.list[i].priority, NEW d \in Int,
           \A j \in 1 .. Len(q.list) :
               /\ t < j => q.list[i].priority + d <= q.list[j].priority
               /\ j < t => q.list[j].priority <= q.list[i].priority + d
    PROVE  /\ QueueOK(Bumped(q, i, t, d)) /\ DOMAIN Bumped(q, i, t, d).index = DOMAIN q.index
           /\ \A m \in DOMAIN q.index :
                  Priority(Bumped(q, i, t, d), m) = Priority(q, m) + IF m = q.list[i].key THEN d ELSE 0
<1>. DEFINE L == q.list
            X == q.index
            size == Len(q.list)
            L2 == [L EXCEPT ![i] = L[t], ![t] = L[i]]
            L3 == [L2 EXCEPT ![t].priority = @ + d]
            X2 == [X EXCEPT ![L[t].key] = i, ![L[i].key] = t]
            b == Bumped(q, i, t, d)
<1>1. b.list = L3 /\ b.index = X2
  BY DEF Bumped, Swapped
<1>2. size \in Nat /\ L \in [1 .. size -> Entries]
  BY DEF QueueOK
<1>3. L2 = [a \in 1 .. size |-> IF a = t THEN L[i] ELSE IF a = i THEN L[t] ELSE L[a]]
  BY <1>2
<1>4. L3 = [a \in 1 .. size |-> IF a = t THEN [key |-> L[i].key, priority |-> L[i].priority + d]
                                ELSE IF a = i THEN L[t] ELSE L[a]]
  <2>1. L2 \in [1 .. size -> Entries] /\ L2[t] = L[i]
    BY <1>2, <1>3
  <2>2. \A a \in 1 .. size : a # t => L2[a] = IF a = i THEN L[t] ELSE L[a]
    BY <1>3
  <2>. HIDE DEF L2, L
  <2>3. L2[t] = [key |-> L2[t].key, priority |-> L2[t].priority]
    BY <2>1 DEF Entries
  <2>4. L3 = [a \in 1 .. size |-> IF a = t THEN [L2[t] EXCEPT !.priority = @ + d] ELSE L2[a]]
    BY <2>1
  <2>5. [L2[t] EXCEPT !.priority = @ + d] = [key |-> L2[t].key, priority |-> L2[t].priority + d]
    BY <2>3
  <2>. QED BY <2>1, <2>2, <2>4, <2>5
<1>. HIDE DEF b, L3, L2
<1>5. \A a \in 1 .. size : L[a].key \in Nodes /\ L[a].priority \in Int
  BY <1>2 DEF Entries
<1>6. b.list \in Seq(Entries) /\ Len(b.list) = size
  <2>1. L3 \in [1 .. size -> Entries]
    BY <1>2, <1>4, <1>5 DEF Entries
  <2>. QED BY <1>1, <1>2, <2>1
<1>7. /\ \A a \in 1 .. size : L3[a].key = IF a = t THEN L[i].key ELSE IF a = i THEN L[t].key ELSE L[a].key
      /\ \A a \in 1 .. size : L3[a].priority = IF a = t THEN L[i].priority + d ELSE L[a].priority
  BY <1>4, <1>5
<1>8. /\ DOMAIN X = {L[a].key : a \in 1 .. size}
      /\ \A a \in 1 .. size : X[L[a].key] = a
      /\ X \in [DOMAIN X -> Nat]
  BY DEF QueueOK, IndexAgrees
<1>9. DOMAIN X2 = DOMAIN X /\ X2 \in [DOMAIN X2 -> Nat]
  BY <1>2, <1>8
<1>10. DOMAIN X2 = {L3[a].key : a \in 1 .. size}
  <2>1. ASSUME NEW a \in 1 .. size PROVE \E c \in 1 .. size : L3[a].key = L[c].key
    BY <1>7
  <2>2. ASSUME NEW a \in 1 .. size PROVE \E c \in 1 .. size : L[a].key = L3[c].key
    <3>1. CASE a = t
      BY <1>7, <3>1
    <3>2. CASE a = i
      BY <1>7, <3>2
    <3>3. CASE a # t /\ a # i
      BY <1>7, <3>3
    <3>. QED BY <3>1, <3>2, <3>3
  <2>3. DOMAIN X2 = {L[a].key : a \in 1 .. size}
    BY <1>8, <1>9
  <2>. HIDE DEF L, size, X
  <2>4. {L[a].key : a \in 1 .. size} \subseteq {L3[a].key : a \in 1 .. size}
    <3>1. ASSUME NEW a \in 1 .. size PROVE L[a].key \in {L3[c].key : c \in 1 .. size}
      BY <2>2
    <3>. QED BY <3>1
  <2>5. {L3[a].key : a \in 1 .. size} \subseteq {L[a].key : a \in 1 .. size}
    <3>1. ASSUME NEW a \in 1 .. size PROVE L3[a].key \in {L[c].key : c \in 1 .. size}
      BY <2>1
    <3>. QED BY <3>1
  <2>. QED BY <2>3, <2>4, <2>5, Zenon
<1>17. \A c \in 1 .. size : X2[L[c].key] = IF c = i THEN t ELSE IF c = t THEN i ELSE c
  BY <1>8
<1>11. \A a \in 1 .. size : X2[L3[a].key] = a
  <2>. HIDE DEF X2
  <2>. QED BY <1>7, <1>17
<1>. HIDE DEF X2
<1>12. \A a, c \in 1 .. size : a < c => L3[a].priority <= L3[c].priority
  <2>. SUFFICES ASSUME NEW a \in 1 .. size, NEW c \in 1 .. size, a < c
                PROVE  L3[a].priority <= L3[c].priority
    OBVIOUS
  <2>1. L[a].priority <= L[c].priority
    BY DEF QueueOK, Ascends
  <2>2. CASE a = t
    BY <1>7, <2>2
  <2>3. CASE c = t
    BY <1>7, <2>3
  <2>4. CASE a # t /\ c # t
    BY <1>7, <2>1, <2>4
  <2>. QED BY <2>2, <2>3, <2>4
<1>. HIDE DEF X, L, size
<1>13. IndexAgrees(b)
  BY <1>1, <1>6, <1>10, <1>11 DEF IndexAgrees
<1>14. Ascends(b.list)
  BY <1>1, <1>6, <1>12 DEF Ascends
<1>15. QueueOK(b) /\ DOMAIN b.index = DOMAIN X
  BY <1>1, <1>6, <1>9, <1>13, <1>14 DEF QueueOK
<1>16. ASSUME NEW m \in DOMAIN X
       PROVE  Priority(b, m) = Priority(q, m) + IF m = L[i].key THEN d ELSE 0
  <2>. DEFINE a == X[m]
  <2>1. a \in 1 .. size /\ L[a].key = m /\ (m = L[i].key <=> a = i)
    BY <1>8 DEF X, L, size
  <2>2. X2[m] = IF a = i THEN t ELSE IF a = t THEN i ELSE a
    BY <1>17, <2>1
  <2>3. Priority(q, m) = L[a].priority
    BY DEF Priority, L, X
  <2>4. Priority(b, m) = L3[X2[m]].priority
    BY <1>1 DEF Priority
  <2>5. L[t].priority = L[i].priority /\ i \in 1 .. size /\ t \in 1 .. size
    BY DEF L, size
  <2>. HIDE DEF a
  <2>6. CASE a = i
    BY <1>7, <2>1, <2>2, <2>3, <2>4, <2>5, <2>6
  <2>7. CASE a # i
    <3>1. L3[X2[m]].priority = L[a].priority /\ L[a].priority \in Int
      BY <1>5, <1>7, <2>1, <2>2, <2>5, <2>7
    <3>. QED BY <2>1, <2>3, <2>4, <2>7, <3>1
  <2>. QED BY <2>6, <2>7
<1>. QED BY <1>15, <1>16 DEF b, X, L

\* The entry of a key.
LEMMA EntryOfKey ==
    ASSUME NEW q, QueueOK(q), NEW k \in DOMAIN q.index
    PROVE  q.index[k] \in 1 .. Len(q.list) /\ q.list[q.index[k]].key = k
BY DEF QueueOK, IndexAgrees

\* Increment and decrement keep the list sorted and the table true to it, and
\* change the priority of their key by one.
LEMMA ChangesKeepQueue ==
    ASSUME NEW q, QueueOK(q), NEW k
    PROVE  /\ QueueOK(Increment(q, k)) /\ DOMAIN Increment(q, k).index = DOMAIN q.index
           /\ QueueOK(Decrement(q, k)) /\ DOMAIN Decrement(q, k).index = DOMAIN q.index
           /\ \A m \in DOMAIN q.index :
                  /\ Priority(q, m) \in Int
                  /\ Priority(Increment(q, k), m) = Priority(q, m) + IF m = k THEN 1 ELSE 0
                  /\ Priority(Decrement(q, k), m) = Priority(q, m) - IF m = k THEN 1 ELSE 0
<1>3. \A m \in DOMAIN q.index : Priority(q, m) \in Int
  <2>1. ASSUME NEW m \in DOMAIN q.index PROVE q.list[q.index[m]].priority \in Int
    <3>1. q.index[m] \in 1 .. Len(q.list)
      BY EntryOfKey
    <3>2. \A j \in 1 .. Len(q.list) : q.list[j].priority \in Int
      BY EntriesHavePriorities DEF QueueOK
    <3>. QED BY <3>1, <3>2
  <2>. QED BY <2>1 DEF Priority
<1>1. CASE k \notin DOMAIN q.index
  <2>1. Increment(q, k) = q /\ Decrement(q, k) = q
    BY <1>1 DEF Increment, Decrement
  <2>2. \A m \in DOMAIN q.index : m # k
    BY <1>1
  <2>. QED BY <1>3, <2>1, <2>2
<1>2. CASE k \in DOMAIN q.index
  <2>. DEFINE i == q.index[k]
              p == q.list[i].priority
              up == LastOf(q, p)
              down == FirstOf(q, p)
  <2>1. i \in 1 .. Len(q.list) /\ q.list[i].key = k
    BY <1>2, EntryOfKey
  <2>2. q.list \in Seq(Entries) /\ Ascends(q.list)
    BY DEF QueueOK
  <2>3. \A j \in 1 .. Len(q.list) : q.list[j].priority \in Int
    BY <2>2, EntriesHavePriorities
  <2>. HIDE DEF i
  <2>4. /\ up \in 1 .. Len(q.list)
        /\ q.list[up].priority = p
        /\ \A j \in 1 .. Len(q.list) : up < j => p < q.list[j].priority
        /\ down \in 1 .. Len(q.list)
        /\ q.list[down].priority = p
        /\ \A j \in 1 .. Len(q.list) : j < down => q.list[j].priority < p
    BY <2>1, <2>2, BoundsFound
  <2>. HIDE DEF up, down
  <2>5. \A j \in 1 .. Len(q.list) : /\ up < j => p + 1 <= q.list[j].priority
                                    /\ j < up => q.list[j].priority <= p + 1
                                    /\ down < j => p - 1 <= q.list[j].priority
                                    /\ j < down => q.list[j].priority <= p - 1
    <3>1. \A j, l \in 1 .. Len(q.list) : j < l => q.list[j].priority <= q.list[l].priority
      BY <2>2 DEF Ascends
    <3>2. p \in Int
      BY <2>1, <2>3
    <3>. HIDE DEF p
    <3>3. ASSUME NEW j \in 1 .. Len(q.list)
          PROVE  /\ up < j => p + 1 <= q.list[j].priority
                 /\ j < up => q.list[j].priority <= p + 1
                 /\ down < j => p - 1 <= q.list[j].priority
                 /\ j < down => q.list[j].priority <= p - 1
      <4>1. j < up => q.list[j].priority <= q.list[up].priority
        BY <2>4, <3>1
      <4>2. down < j => q.list[down].priority <= q.list[j].priority
        BY <2>4, <3>1
      <4>. QED BY <2>3, <2>4, <3>2, <4>1, <4>2
    <3>. QED BY <3>3
  <2>6. Increment(q, k) = Bumped(q, i, up, 1)
    BY <1>2 DEF Increment, Bumped, Priority, i, up
  <2>7. Decrement(q, k) = Bumped(q, i, down, -1)
    <3>1. Decrement(q, k) = [Swapped(q, i, down) EXCEPT !.list[down].priority = @ - 1]
      BY <1>2 DEF Decrement, Priority, i, down
    <3>2. Swapped(q, i, down).list[down].priority \in Int
      <4>1. Swapped(q, i, down).list = [q.list EXCEPT ![i] = q.list[down], ![down] = q.list[i]]
        BY DEF Swapped
      <4>2. Swapped(q, i, down).list[down] = q.list[i]
        BY <2>1, <2>2, <2>4, <4>1
      <4>. QED BY <2>1, <2>3, <4>2
    <3>. DEFINE w == Swapped(q, i, down)
    <3>. HIDE DEF w
    <3>3. \A x \in Int : x - 1 = x + (-1)
      OBVIOUS
    <3>. QED BY <3>1, <3>2, <3>3 DEF Bumped, w
  <2>8. /\ QueueOK(Bumped(q, i, up, 1)) /\ DOMAIN Bumped(q, i, up, 1).index = DOMAIN q.index
        /\ \A m \in DOMAIN q.index :
               Priority(Bumped(q, i, up, 1), m) = Priority(q, m) + IF m = q.list[i].key THEN 1 ELSE 0
    BY <2>1, <2>4, <2>5, BumpKeeps
  <2>9. /\ QueueOK(Bumped(q, i, down, -1)) /\ DOMAIN Bumped(q, i, down, -1).index = DOMAIN q.index
        /\ \A m \in DOMAIN q.index :
               Priority(Bumped(q, i, down, -1), m) = Priority(q, m) + IF m = q.list[i].key THEN -1 ELSE 0
    <3>. DEFINE d == -1
    <3>1. d \in Int /\ p \in Int /\ p + d = p - 1
      BY <2>1, <2>3
    <3>2. \A j \in 1 .. Len(q.list) : /\ down < j => q.list[i].priority + d <= q.list[j].priority
                                      /\ j < down => q.list[j].priority <= q.list[i].priority + d
      BY <2>5, <3>1
    <3>. HIDE DEF d
    <3>3. /\ QueueOK(Bumped(q, i, down, d)) /\ DOMAIN Bumped(q, i, down, d).index = DOMAIN q.index
          /\ \A m \in DOMAIN q.index :
                 Priority(Bumped(q, i, down, d), m) = Priority(q, m) + IF m = q.list[i].key THEN d ELSE 0
      BY <2>1, <2>4, <3>1, <3>2, BumpKeeps
    <3>. QED BY <3>3 DEF d
  <2>10. \A m \in DOMAIN q.index :
            Priority(Decrement(q, k), m) = Priority(q, m) - IF m = k THEN 1 ELSE 0
    <3>1. \A x \in Int : x + (-1) = x - 1 /\ x + 0 = x - 0
      OBVIOUS
    <3>2. ASSUME NEW m \in DOMAIN q.index
          PROVE  Priority(Decrement(q, k), m) = Priority(q, m) - IF m = k THEN 1 ELSE 0
      <4>1. Priority(Decrement(q, k), m) = Priority(q, m) + IF m = k THEN -1 ELSE 0
        BY <2>1, <2>7, <2>9
      <4>2. Priority(q, m) \in Int
        BY <1>3
      <4>. QED BY <3>1, <4>1, <4>2
    <3>. QED BY <3>2
  <2>11. \A m \in DOMAIN q.index :
            Priority(Increment(q, k), m) = Priority(q, m) + IF m = k THEN 1 ELSE 0
    BY <2>1, <2>6, <2>8
  <2>12. /\ QueueOK(Increment(q, k)) /\ DOMAIN Increment(q, k).index = DOMAIN q.index
         /\ QueueOK(Decrement(q, k)) /\ DOMAIN Decrement(q, k).index = DOMAIN q.index
    BY <2>6, <2>7, <2>8, <2>9
  <2>. QED BY <1>3, <2>10, <2>11, <2>12
<1>. QED BY <1>1, <1>2

\* The constructor of the queue gives every node an entry of priority 0.
LEMMA NewQueueOK ==
    /\ QueueOK(NewQueue(NumNodes)) /\ DOMAIN NewQueue(NumNodes).index = Nodes
    /\ \A m \in Nodes : Priority(NewQueue(NumNodes), m) = 0
<1>. DEFINE q == NewQueue(NumNodes)
<1>1. NumNodes \in Nat
  BY RelabelSizes
<1>2. q.list = [i \in 1 .. NumNodes |-> [key |-> i - 1, priority |-> 0]]
      /\ q.index = [k \in 0 .. NumNodes - 1 |-> k + 1]
  BY DEF NewQueue
<1>. HIDE DEF q
<1>3. \A i \in 1 .. NumNodes : q.list[i] = [key |-> i - 1, priority |-> 0] /\ i - 1 \in Nodes
  BY <1>1, <1>2 DEF Nodes
<1>4. q.list \in Seq(Entries) /\ Len(q.list) = NumNodes
  <2>1. q.list \in [1 .. NumNodes -> Entries]
    BY <1>2, <1>3 DEF Entries
  <2>. QED BY <1>1, <2>1
<1>5. DOMAIN q.index = Nodes /\ q.index \in [Nodes -> Nat]
  BY <1>1, <1>2 DEF Nodes
<1>6. DOMAIN q.index = {q.list[i].key : i \in 1 .. NumNodes}
  <2>0. \A i \in 1 .. NumNodes : q.list[i].key = i - 1
    BY <1>2
  <2>1. \A k \in Nodes : k + 1 \in 1 .. NumNodes /\ q.list[k + 1].key = k
    BY <1>1, <2>0 DEF Nodes
  <2>2. \A i \in 1 .. NumNodes : q.list[i].key \in Nodes
    BY <1>3, <2>0
  <2>. QED BY <1>5, <2>1, <2>2
<1>7. \A i \in 1 .. NumNodes : q.index[q.list[i].key] = i
  BY <1>1, <1>2, <1>3 DEF Nodes
<1>8. Ascends(q.list)
  <2>1. \A i \in 1 .. NumNodes : q.list[i].priority = 0
    BY <1>2
  <2>. QED BY <1>4, <2>1 DEF Ascends
<1>9. QueueOK(q) /\ DOMAIN q.index = Nodes
  BY <1>4, <1>5, <1>6, <1>7, <1>8 DEF QueueOK, IndexAgrees
<1>10. ASSUME NEW m \in Nodes PROVE q.list[q.index[m]].priority = 0
  <2>1. q.index[m] \in 1 .. NumNodes
    BY <1>1, <1>2 DEF Nodes
  <2>2. \A i \in 1 .. NumNodes : q.list[i].priority = 0
    BY <1>2
  <2>. QED BY <2>1, <2>2
<1>. QED BY <1>9, <1>10 DEF q, Priority

\* What is popped is the last key, which no other beats, and nothing else changes.
LEMMA PopKeepsQueue ==
    ASSUME NEW q, QueueOK(q), DOMAIN q.index # {}
    PROVE  /\ Back(q) \in DOMAIN q.index /\ Back(q) \in Nodes
           /\ QueueOK(Popped(q)) /\ DOMAIN Popped(q).index = DOMAIN q.index \ {Back(q)}
           /\ \A m \in DOMAIN q.index : Priority(q, m) <= Priority(q, Back(q))
           /\ \A m \in DOMAIN q.index \ {Back(q)} : Priority(Popped(q), m) = Priority(q, m)
<1>. DEFINE L == q.list
            X == q.index
            size == Len(q.list)
            r == Popped(q)
<1>1. L \in Seq(Entries) /\ size \in Nat /\ \A j \in 1 .. size : L[j].priority \in Int /\ L[j].key \in Nodes
  BY EntriesHavePriorities DEF QueueOK
<1>2. DOMAIN X = {L[a].key : a \in 1 .. size} /\ (\A a \in 1 .. size : X[L[a].key] = a) /\ X \in [DOMAIN X -> Nat]
  BY DEF QueueOK, IndexAgrees
<1>3. size > 0
  BY <1>1, <1>2
<1>4. Back(q) = L[size].key /\ Back(q) \in DOMAIN X /\ Back(q) \in Nodes
  BY <1>1, <1>2, <1>3 DEF Back
<1>5. r.list = SubSeq(L, 1, size - 1) /\ r.index = [k \in DOMAIN X \ {Back(q)} |-> X[k]]
  BY DEF Popped, Restrict
<1>. HIDE DEF L, X, r, size
<1>6. /\ r.list \in Seq(Entries) /\ Len(r.list) = size - 1
      /\ \A a \in 1 .. size - 1 : r.list[a] = L[a]
  <2>1. Len(L) = size /\ size - 1 \in Nat /\ L \in [1 .. size -> Entries]
    BY <1>1, <1>3 DEF size, L
  <2>2. r.list = [a \in 1 .. size - 1 |-> L[a]]
    BY <1>1, <1>5, <2>1
  <2>3. r.list \in [1 .. size - 1 -> Entries]
    BY <1>1, <2>1, <2>2
  <2>. QED BY <2>1, <2>2, <2>3
<1>7. DOMAIN r.index = {r.list[a].key : a \in 1 .. size - 1}
  <2>1. \A a \in 1 .. size - 1 : L[a].key \in DOMAIN X /\ L[a].key # Back(q)
    BY <1>1, <1>2, <1>3, <1>4
  <2>2. ASSUME NEW k \in DOMAIN X \ {Back(q)} PROVE \E a \in 1 .. size - 1 : k = L[a].key
    <3>1. PICK a \in 1 .. size : k = L[a].key
      BY <1>2
    <3>2. a # size
      BY <1>4, <3>1
    <3>. QED BY <1>1, <3>1, <3>2
  <2>. QED BY <1>5, <1>6, <2>1, <2>2
<1>8. \A a \in 1 .. size - 1 : r.index[r.list[a].key] = a
  <2>1. ASSUME NEW a \in 1 .. size - 1 PROVE r.index[r.list[a].key] = a
    <3>1. r.list[a] = L[a] /\ a \in 1 .. size
      BY <1>1, <1>6
    <3>2. r.list[a].key \in DOMAIN X \ {Back(q)}
      BY <1>5, <1>7
    <3>. QED BY <1>2, <1>5, <3>1, <3>2
  <2>. QED BY <2>1
<1>9. Ascends(r.list)
  <2>1. \A j, l \in 1 .. size : j < l => L[j].priority <= L[l].priority
    BY DEF Ascends, QueueOK, L, size
  <2>. QED BY <1>1, <1>6, <2>1 DEF Ascends
<1>10. QueueOK(r) /\ DOMAIN r.index = DOMAIN X \ {Back(q)}
  BY <1>2, <1>5, <1>6, <1>7, <1>8, <1>9 DEF QueueOK, IndexAgrees
<1>11. ASSUME NEW m \in DOMAIN X PROVE Priority(q, m) <= Priority(q, Back(q))
  <2>1. X[m] \in 1 .. size /\ X[Back(q)] = size /\ size \in 1 .. size
    BY <1>1, <1>2, <1>3, <1>4
  <2>2. \A j, l \in 1 .. size : j < l => L[j].priority <= L[l].priority
    BY DEF Ascends, QueueOK, L, size
  <2>3. L[X[m]].priority <= L[size].priority
    <3>1. X[m] = size \/ X[m] < size
      BY <1>1, <2>1
    <3>2. L[size].priority \in Int
      BY <1>1, <2>1
    <3>. QED BY <2>1, <2>2, <3>1, <3>2
  <2>4. Priority(q, m) = L[X[m]].priority /\ Priority(q, Back(q)) = L[X[Back(q)]].priority
    BY DEF Priority, L, X
  <2>. QED BY <2>1, <2>3, <2>4
<1>12. ASSUME NEW m \in DOMAIN X \ {Back(q)} PROVE Priority(r, m) = Priority(q, m)
  <2>1. r.index[m] = X[m] /\ X[m] \in 1 .. size /\ L[X[m]].key = m
    BY <1>2, <1>5
  <2>2. X[m] # size
    BY <1>4, <2>1
  <2>3. r.list[X[m]] = L[X[m]]
    BY <1>1, <1>6, <2>1, <2>2
  <2>4. Priority(r, m) = r.list[r.index[m]].priority /\ Priority(q, m) = L[X[m]].priority
    BY DEF Priority, L, X
  <2>. QED BY <2>1, <2>3, <2>4
<1>. QED BY <1>4, <1>10, <1>11, <1>12 DEF r, X

-----------------------------------------------------------------------------
(* Lists of nodes and the permutations they stand for. *)

\* There are NumNodes nodes.
LEMMA NodesAreFinite == IsFiniteSet(Nodes) /\ Cardinality(Nodes) = NumNodes
BY RelabelSizes, FS_Interval DEF Nodes

\* No node is listed twice.
Distinct(list) == \A i, j \in DOMAIN list : list[i] = list[j] => i = j

\* A list that names no node twice is no longer than the nodes are many, and
\* names each of them when it is as long.
LEMMA DistinctLists ==
    ASSUME NEW list \in Seq(Nodes), Distinct(list)
    PROVE  /\ Len(list) <= NumNodes
           /\ Len(list) = NumNodes => \A m \in Nodes : \E i \in 1 .. NumNodes : list[i] = m
           /\ (\A m \in Nodes : \E i \in DOMAIN list : list[i] = m) => Len(list) = NumNodes
<1>. DEFINE size == Len(list)
<1>0. size \in Nat
  OBVIOUS
<1>1. size \in Nat /\ IsFiniteSet(1 .. size) /\ Cardinality(1 .. size) = size
  <2>. HIDE DEF size
  <2>. QED BY <1>0, FS_Interval
<1>2. list \in Injection(1 .. size, Nodes)
  BY DEF Distinct, Injection, IsInjective
<1>3. size <= NumNodes /\ (size = NumNodes <=> list \in Surjection(1 .. size, Nodes))
  BY <1>1, <1>2, NodesAreFinite, FS_Injection
<1>4. ASSUME size = NumNodes, NEW m \in Nodes
      PROVE  \E i \in 1 .. NumNodes : list[i] = m
  BY <1>3, <1>4 DEF Surjection
<1>5. ASSUME \A m \in Nodes : \E i \in DOMAIN list : list[i] = m
      PROVE  size = NumNodes
  <2>1. list \in Surjection(1 .. size, Nodes)
    BY <1>5 DEF Surjection
  <2>. QED BY <1>3, <2>1
<1>. QED BY <1>3, <1>4, <1>5

\* Inverting the list of a heuristic gives a permutation of the nodes.
LEMMA PlacementPermutes ==
    ASSUME NEW list \in Seq(Nodes), Len(list) = NumNodes,
           \A m \in Nodes : \E i \in 1 .. NumNodes : list[i] = m
    PROVE  Placement(list) \in Permutations
<1>1. ASSUME NEW m \in Nodes
      PROVE  Placement(list)[m] \in Nodes /\ list[Placement(list)[m] + 1] = m
  <2>1. PICK i \in 1 .. NumNodes : list[i] = m
    OBVIOUS
  <2>2. i - 1 \in Nodes /\ list[(i - 1) + 1] = m
    BY <2>1, RelabelSizes DEF Nodes
  <2>3. \E p \in Nodes : list[p + 1] = m
    BY <2>2
  <2>4. Placement(list)[m] = CHOOSE p \in Nodes : list[p + 1] = m
    BY DEF Placement
  <2>. QED BY <2>3, <2>4
<1>2. Placement(list) \in [Nodes -> Nodes]
  BY <1>1 DEF Placement
<1>3. \A k, m \in Nodes : Placement(list)[k] = Placement(list)[m] => k = m
  BY <1>1
<1>. QED BY <1>2, <1>3 DEF Permutations

\* std::reverse keeps the nodes of a list and their number.
LEMMA ReversedList ==
    ASSUME NEW list \in Seq(Nodes)
    PROVE  LET back == Seqs!Reverse(list)
           IN  /\ back \in Seq(Nodes) /\ Len(back) = Len(list)
               /\ \A i \in DOMAIN list : \E j \in DOMAIN back : back[j] = list[i]
<1>. DEFINE back == Seqs!Reverse(list)
            size == Len(list)
<1>1. size \in Nat /\ list \in [1 .. size -> Nodes]
  OBVIOUS
<1>2. back = [i \in 1 .. size |-> list[(size - i) + 1]]
  BY DEF Seqs!Reverse
<1>3. \A i \in 1 .. size : (size - i) + 1 \in 1 .. size /\ (size - ((size - i) + 1)) + 1 = i
  BY <1>1
<1>4. back \in [1 .. size -> Nodes]
  BY <1>1, <1>2, <1>3
<1>5. back \in Seq(Nodes) /\ Len(back) = size
  BY <1>1, <1>4
<1>6. ASSUME NEW i \in 1 .. size PROVE \E j \in 1 .. size : back[j] = list[i]
  <2>1. back[(size - i) + 1] = list[(size - ((size - i) + 1)) + 1]
    BY <1>2, <1>3
  <2>. QED BY <1>3, <2>1
<1>. HIDE DEF back
<1>7. \A i \in DOMAIN list : \E j \in DOMAIN back : back[j] = list[i]
  BY <1>1, <1>4, <1>6
<1>. QED BY <1>5, <1>7 DEF back

\* push_back of a node that is not in the list.
LEMMA AppendedList ==
    ASSUME order \in Seq(Nodes), Distinct(order), NEW p \in Nodes, p \notin Listed, order' = Append(order, p)
    PROVE  order' \in Seq(Nodes) /\ Distinct(order') /\ Listed' = Listed \cup {p}
           /\ Len(order') = Len(order) + 1
<1>1. order' \in Seq(Nodes) /\ Len(order') = Len(order) + 1
      /\ DOMAIN order' = 1 .. Len(order) + 1 /\ DOMAIN order = 1 .. Len(order) /\ Len(order) \in Nat
  OBVIOUS
<1>2. order'[Len(order) + 1] = p /\ \A i \in 1 .. Len(order) : order'[i] = order[i]
  OBVIOUS
<1>3. \A i \in 1 .. Len(order) : order[i] # p
  BY <1>1 DEF Listed
<1>4. \A i \in DOMAIN order' : i \in 1 .. Len(order) \/ i = Len(order) + 1
  BY <1>1
<1>5. Distinct(order')
  BY <1>1, <1>2, <1>3, <1>4 DEF Distinct
<1>6. Listed' = Listed \cup {p}
  <2>1. \A i \in DOMAIN order' : order'[i] \in Listed \cup {p}
    BY <1>1, <1>2, <1>4 DEF Listed
  <2>2. \A x \in Listed : x \in Listed'
    <3>1. \A i \in DOMAIN order : i \in DOMAIN order' /\ order'[i] = order[i]
      BY <1>1, <1>2
    <3>. QED BY <3>1 DEF Listed
  <2>3. p \in Listed'
    BY <1>1, <1>2 DEF Listed
  <2>. QED BY <2>1, <2>2, <2>3 DEF Listed
<1>. QED BY <1>1, <1>5, <1>6

-----------------------------------------------------------------------------
(* The steps. *)

\* The invariant holds before the first strategy.
LEMMA InitReorder == ReorderInit => ReorderInv
<1>. SUFFICES ASSUME ReorderInit PROVE ReorderInv
  OBVIOUS
<1>. USE DEF ReorderInit
<1>0. Identity \in Permutations
  BY DEF Identity, Permutations
<1>1. links \in [Nodes -> [Slots -> Nodes]]
  BY RelabelGraphs
<1>2. QueueOK(NoQueue)
  BY DEF QueueOK, NoQueue, IndexAgrees, Ascends
<1>3. ShapeInv
  <2>1. M \in Nat
    BY RelabelSizes
  <2>. QED BY <1>0, <1>1, <1>2, <2>1 DEF ShapeInv
<1>4. PlacingInv
  BY DEF PlacingInv
<1>5. BetweenInv
  BY DEF BetweenInv
<1>6. MovedInv
  <2>1. \A p \in Nodes, s \in Slots : links[p][s] \in Nodes
    BY <1>1
  <2>. QED BY <2>1 DEF MovedInv, Identity
<1>7. IInv
  <2>1. Init
    BY <1>0 DEF Init, Identity
  <2>. QED BY <2>1, InitIInv
<1>. QED BY <1>3, <1>4, <1>5, <1>6, <1>7 DEF ReorderInv

\* Outside relabel a step leaves what relabel works on alone.
LEMMA RelabelKept ==
    ASSUME ReorderInv, UNCHANGED <<relabelVars, node, graph0>>
    PROVE  MovedInv' /\ IInv' /\ pc' = pc
<1>1. UNCHANGED vars
  BY DEF vars, relabelVars
<1>2. IInv'
  BY <1>1 DEF ReorderInv, vars, IInv, TypeOK, CycleInv, WholeCycles, OpenCycle, Reached, LinksTravelWithNodes
<1>. QED BY <1>2 DEF relabelVars, ReorderInv, MovedInv

\* A permutation handed to relabel.
LEMMA PlacedKeeps ==
    ASSUME ReorderInv, phase # "relabel", NEW list \in Seq(Nodes), Placed(list), Len(list) = NumNodes,
           \A m \in Nodes : \E i \in 1 .. NumNodes : list[i] = m
    PROVE  ReorderInv'
<1>. USE DEF ReorderInv
<1>1. pc = "rewire"
  BY DEF BetweenInv
<1>2. links = links0 /\ links0 \in [Nodes -> [Slots -> Nodes]]
  BY <1>1 DEF IInv, CycleInv, TypeOK
<1>3. P' \in Permutations
  BY PlacementPermutes DEF Placed
<1>4. IInv'
  <2>1. TypeOK'
    BY <1>2, <1>3 DEF Placed, IInv, TypeOK
  <2>2. CycleInv'
    BY <1>1, <1>2 DEF Placed, IInv, CycleInv
  <2>3. LinksTravelWithNodes'
    BY <1>1 DEF Placed, LinksTravelWithNodes
  <2>. QED BY <2>1, <2>2, <2>3 DEF IInv
<1>5. MovedInv'
  BY <1>2 DEF Placed, MovedInv
<1>6. ShapeInv'
  <2>1. QueueOK(NoQueue)
    BY DEF QueueOK, NoQueue, IndexAgrees, Ascends
  <2>2. QueueOK(queue)' /\ M \in Nat
    BY <2>1, RelabelSizes DEF Placed, QueueOK, IndexAgrees, Ascends
  <2>. QED BY <2>2 DEF Placed, ShapeInv
<1>7. PlacingInv' /\ BetweenInv'
  BY DEF Placed, PlacingInv, BetweenInv
<1>. QED BY <1>4, <1>5, <1>6, <1>7

\* The steps of the calls around the strategies place no node.
LEMMA CallSteps ==
    ASSUME ReorderInv, CheckNames \/ UnknownMethod \/ NoMoreMethods
    PROVE  ReorderInv'
<1>. USE DEF CheckNames, UnknownMethod, NoMoreMethods
<1>1. /\ UNCHANGED <<relabelVars, node, graph0>> /\ UNCHANGED orderVars
      /\ phase \in {"check", "pick"} /\ phase' \in {"pick", "done", "rejected", "threw"}
  OBVIOUS
<1>2. MovedInv' /\ IInv' /\ pc' = pc
  BY <1>1, RelabelKept
<1>3. ShapeInv'
  BY <1>1 DEF ReorderInv, ShapeInv, orderVars
<1>4. PlacingInv' /\ BetweenInv'
  BY <1>1, <1>2 DEF ReorderInv, PlacingInv, BetweenInv, orderVars
<1>. QED BY <1>2, <1>3, <1>4 DEF ReorderInv

\* The outdegree table lists nodes, at most M for each.
LEMMA NewTable ==
    ASSUME ReorderInv, table' = OutdegreeTable
    PROVE  table' \in [Nodes -> Seq(Nodes)] /\ \A p \in Nodes : Len(table'[p]) <= M
<1>1. links \in [Nodes -> [Slots -> Nodes]]
  BY DEF ReorderInv, IInv, TypeOK
<1>2. \A p \in Nodes : OutdegreeTable[p] \in Seq(Nodes) /\ Len(OutdegreeTable[p]) <= M
  BY <1>1, TableListsLinks
<1>3. OutdegreeTable = [p \in Nodes |-> OutdegreeTable[p]]
  BY DEF OutdegreeTable
<1>. QED BY <1>2, <1>3

\* gOrder begins with every node in its queue and none placed.
LEMMA BeginGorderKeeps ==
    ASSUME ReorderInv, BeginGorder
    PROVE  ReorderInv'
<1>. DEFINE q == Increment(NewQueue(NumNodes), 0)
<1>1. /\ phase = "pick" /\ phase' = "turn" /\ table' = OutdegreeTable
      /\ order' = <<Back(q)>> /\ queue' = Popped(q)
      /\ UNCHANGED <<todo, seen, fifo>> /\ UNCHANGED <<relabelVars, node, graph0>>
  BY DEF BeginGorder
<1>2. MovedInv' /\ IInv' /\ pc' = pc
  BY <1>1, RelabelKept
<1>3. QueueOK(q) /\ DOMAIN q.index = Nodes
  BY NewQueueOK, ChangesKeepQueue
<1>. HIDE DEF q
<1>4. 0 \in Nodes
  BY ReorderingSizes, RelabelSizes DEF Nodes
<1>5. Back(q) \in Nodes /\ QueueOK(Popped(q)) /\ DOMAIN Popped(q).index = Nodes \ {Back(q)}
  BY <1>3, <1>4, PopKeepsQueue
<1>6. order' \in Seq(Nodes) /\ (\A i, j \in DOMAIN order' : order'[i] = order'[j] => i = j) /\ Listed' = {Back(q)}
  BY <1>1, <1>5 DEF Listed
<1>7. ShapeInv'
  <2>1. QueueOK(queue')
    BY <1>1, <1>5
  <2>. QED BY <1>1, <1>6, <2>1, NewTable DEF ReorderInv, ShapeInv
<1>8. PlacingInv' /\ BetweenInv'
  BY <1>1, <1>2, <1>5, <1>6 DEF ReorderInv, PlacingInv, BetweenInv
<1>. QED BY <1>2, <1>7, <1>8 DEF ReorderInv

\* rcmOrder begins with every node left to place.
LEMMA BeginRcmKeeps ==
    ASSUME ReorderInv, BeginRcm
    PROVE  ReorderInv'
<1>1. /\ phase = "pick" /\ phase' = "rcm" /\ table' = OutdegreeTable /\ todo' = Nodes
      /\ UNCHANGED <<order, queue, seen, fifo>> /\ UNCHANGED <<relabelVars, node, graph0>>
  BY DEF BeginRcm
<1>2. MovedInv' /\ IInv' /\ pc' = pc
  BY <1>1, RelabelKept
<1>3. ShapeInv'
  BY <1>1, NewTable DEF ReorderInv, ShapeInv
<1>4. order = <<>> /\ seen = {}
  BY <1>1 DEF ReorderInv, PlacingInv
<1>5. PlacingInv' /\ BetweenInv'
  BY <1>1, <1>2, <1>4 DEF ReorderInv, PlacingInv, BetweenInv, Listed
<1>. QED BY <1>2, <1>3, <1>5 DEF ReorderInv

\* gOrder has nodes left when it places one.
LEMMA NodesLeft ==
    ASSUME ReorderInv, phase = "update"
    PROVE  DOMAIN queue.index # {}
<1>1. DOMAIN queue.index = Nodes \ Listed /\ Len(order) < NumNodes /\ order \in Seq(Nodes) /\ Distinct(order)
  BY DEF ReorderInv, PlacingInv, ShapeInv, Distinct
<1>2. ASSUME \A m \in Nodes : m \in Listed PROVE Len(order) = NumNodes
  <2>1. \A m \in Nodes : \E i \in DOMAIN order : order[i] = m
    BY <1>2 DEF Listed
  <2>. QED BY <1>1, <2>1, DistinctLists
<1>3. Len(order) \in Nat /\ NumNodes \in Nat
  BY <1>1, RelabelSizes
<1>. QED BY <1>1, <1>2, <1>3

\* A turn of gOrder moves one node from the queue to the order.
LEMMA GorderKeeps ==
    ASSUME ReorderInv, EnterTurn \/ UpdateQueue \/ PlaceNode
    PROVE  ReorderInv'
<1>. USE DEF ReorderInv
<1>1. CASE EnterTurn
  <2>1. /\ phase = "turn" /\ phase' = "update" /\ Len(order) < NumNodes
        /\ UNCHANGED <<table, order, queue, todo, seen, fifo>> /\ UNCHANGED <<relabelVars, node, graph0>>
    BY <1>1 DEF EnterTurn
  <2>2. MovedInv' /\ IInv' /\ pc' = pc
    BY <2>1, RelabelKept
  <2>. QED BY <2>1, <2>2 DEF ShapeInv, PlacingInv, BetweenInv, Listed
<1>2. CASE UpdateQueue
  <2>1. /\ phase = "update" /\ phase' = "update"
        /\ UNCHANGED <<table, order, todo, seen, fifo>> /\ UNCHANGED <<relabelVars, node, graph0>>
    BY <1>2 DEF UpdateQueue
  <2>2. MovedInv' /\ IInv' /\ pc' = pc
    BY <2>1, RelabelKept
  <2>3. queue' = Increment(queue, Head(updates).key) \/ queue' = Decrement(queue, Head(updates).key)
    BY <1>2 DEF UpdateQueue
  <2>4. QueueOK(queue') /\ DOMAIN queue'.index = DOMAIN queue.index
    BY <2>3, ChangesKeepQueue DEF ShapeInv
  <2>5. ShapeInv'
    BY <2>1, <2>4 DEF ShapeInv
  <2>6. PlacingInv' /\ BetweenInv'
    BY <2>1, <2>2, <2>4 DEF PlacingInv, BetweenInv, Listed
  <2>. QED BY <2>2, <2>5, <2>6
<1>3. CASE PlaceNode
  <2>1. /\ phase = "update" /\ phase' = "turn" /\ queue' = Popped(queue)
        /\ order' = Append(order, Back(queue))
        /\ UNCHANGED <<table, todo, seen, fifo>> /\ UNCHANGED <<relabelVars, node, graph0>>
    BY <1>3 DEF PlaceNode
  <2>2. MovedInv' /\ IInv' /\ pc' = pc
    BY <2>1, RelabelKept
  <2>3. DOMAIN queue.index = Nodes \ Listed /\ Len(order) < NumNodes
        /\ order \in Seq(Nodes) /\ Distinct(order) /\ QueueOK(queue)
    BY <2>1 DEF PlacingInv, ShapeInv, Distinct
  <2>4. Nodes \ Listed # {}
    BY <2>1, <2>3, NodesLeft
  <2>5. /\ Back(queue) \in Nodes \ Listed
        /\ QueueOK(Popped(queue)) /\ DOMAIN Popped(queue).index = (Nodes \ Listed) \ {Back(queue)}
    BY <2>3, <2>4, PopKeepsQueue
  <2>6. order' \in Seq(Nodes) /\ Distinct(order') /\ Listed' = Listed \cup {Back(queue)}
    BY <2>1, <2>3, <2>5, AppendedList
  <2>7. ShapeInv'
    <3>1. QueueOK(queue')
      BY <2>1, <2>5
    <3>. QED BY <2>1, <2>6, <3>1 DEF ShapeInv, Distinct
  <2>8. PlacingInv' /\ BetweenInv'
    BY <2>1, <2>2, <2>5, <2>6 DEF PlacingInv, BetweenInv
  <2>. QED BY <2>2, <2>7, <2>8
<1>. QED BY <1>1, <1>2, <1>3

\* The order of gOrder is complete when its loop ends.
LEMMA EndGorderKeeps ==
    ASSUME ReorderInv, EndGorder
    PROVE  ReorderInv'
<1>1. phase # "relabel" /\ Len(order) = NumNodes /\ Placed(order)
  BY DEF EndGorder
<1>2. order \in Seq(Nodes) /\ Distinct(order)
  BY DEF ReorderInv, ShapeInv, Distinct
<1>. QED BY <1>1, <1>2, DistinctLists, PlacedKeeps

\* std::sort permutes the neighbors of a node.
LEMMA SortedAreNodes ==
    ASSUME NEW list \in Seq(Nodes), NEW sorted \in ByDegree(list)
    PROVE  sorted \in Seq(Nodes)
<1>1. PICK f \in Bijection(DOMAIN list, DOMAIN list) : sorted = [i \in DOMAIN list |-> list[f[i]]]
  BY DEF ByDegree
<1>2. f \in [DOMAIN list -> DOMAIN list]
  BY DEF Bijection, Injection
<1>3. DOMAIN list = 1 .. Len(list) /\ Len(list) \in Nat
  OBVIOUS
<1>4. sorted \in [1 .. Len(list) -> Nodes]
  BY <1>1, <1>2, <1>3
<1>. QED BY <1>3, <1>4

\* A node that rcmOrder has not seen is placed once.
LEMMA TakeKeeps ==
    ASSUME ReorderInv, phase = "rcm", NEW p \in Nodes, p \notin seen, NEW rest \in Seq(Nodes), Take(p, rest)
    PROVE  /\ order' \in Seq(Nodes) /\ Distinct(order')
           /\ seen' = seen \cup {p} /\ seen' = Listed'
           /\ fifo' \in Seq(Nodes)
<1>1. order \in Seq(Nodes) /\ Distinct(order) /\ seen = Listed /\ table[p] \in Seq(Nodes)
  BY DEF ReorderInv, ShapeInv, PlacingInv, Distinct
<1>2. order' = Append(order, p) /\ seen' = seen \cup {p}
  BY DEF Take
<1>3. PICK neighbors \in ByDegree(table[p]) : fifo' = rest \o neighbors
  BY DEF Take
<1>4. neighbors \in Seq(Nodes)
  BY <1>1, SortedAreNodes
<1>5. fifo' \in Seq(Nodes)
  BY <1>3, <1>4
<1>6. order' \in Seq(Nodes) /\ Distinct(order') /\ Listed' = Listed \cup {p}
  BY <1>1, <1>2, AppendedList
<1>. QED BY <1>1, <1>2, <1>5, <1>6

\* The loops of rcmOrder place nodes that were not placed.
LEMMA RcmKeeps ==
    ASSUME ReorderInv, NextSorted \/ NextCandidate
    PROVE  ReorderInv'
<1>. USE DEF ReorderInv
<1>1. /\ phase = "rcm" /\ phase' = "rcm" /\ UNCHANGED <<table, queue>>
      /\ UNCHANGED <<relabelVars, node, graph0>>
  BY DEF NextSorted, NextCandidate
<1>2. MovedInv' /\ IInv' /\ pc' = pc
  BY <1>1, RelabelKept
<1>3. seen = Listed /\ Nodes \ todo \subseteq seen
  BY <1>1 DEF PlacingInv
<1>4. CASE NextSorted
  <2>1. PICK p \in todo : /\ todo' = todo \ {p}
                          /\ IF p \in seen THEN UNCHANGED <<order, seen, fifo>> ELSE Take(p, <<>>)
    BY <1>4 DEF NextSorted
  <2>2. CASE p \in seen
    <3>1. UNCHANGED <<order, seen, fifo>>
      BY <2>1, <2>2
    <3>. QED BY <1>1, <1>2, <1>3, <2>1, <2>2, <3>1 DEF ShapeInv, PlacingInv, BetweenInv, Listed
  <2>3. CASE p \notin seen
    <3>1. p \in Nodes /\ <<>> \in Seq(Nodes) /\ Take(p, <<>>)
      BY <2>1, <2>3 DEF ShapeInv
    <3>2. /\ order' \in Seq(Nodes) /\ Distinct(order')
          /\ seen' = seen \cup {p} /\ seen' = Listed'
          /\ fifo' \in Seq(Nodes)
      BY <1>1, <2>3, <3>1, TakeKeeps
    <3>3. ShapeInv'
      BY <1>1, <2>1, <3>1, <3>2 DEF ShapeInv, Distinct
    <3>4. PlacingInv' /\ BetweenInv'
      BY <1>1, <1>2, <1>3, <2>1, <3>2 DEF PlacingInv, BetweenInv
    <3>. QED BY <1>2, <3>3, <3>4
  <2>. QED BY <2>2, <2>3
<1>5. CASE NextCandidate
  <2>1. /\ fifo # <<>> /\ todo' = todo
        /\ IF Head(fifo) \in seen THEN fifo' = Tail(fifo) /\ UNCHANGED <<order, seen>>
           ELSE Take(Head(fifo), Tail(fifo))
    BY <1>5 DEF NextCandidate
  <2>2. Head(fifo) \in Nodes /\ Tail(fifo) \in Seq(Nodes)
    BY <2>1 DEF ShapeInv
  <2>3. CASE Head(fifo) \in seen
    <3>1. fifo' = Tail(fifo) /\ UNCHANGED <<order, seen>>
      BY <2>1, <2>3
    <3>. QED BY <1>1, <1>2, <1>3, <2>1, <2>2, <3>1 DEF ShapeInv, PlacingInv, BetweenInv, Listed
  <2>4. CASE Head(fifo) \notin seen
    <3>1. /\ order' \in Seq(Nodes) /\ Distinct(order')
          /\ seen' = seen \cup {Head(fifo)} /\ seen' = Listed'
          /\ fifo' \in Seq(Nodes)
      BY <1>1, <2>1, <2>2, <2>4, TakeKeeps
    <3>2. ShapeInv'
      BY <1>1, <2>1, <2>2, <3>1 DEF ShapeInv, Distinct
    <3>3. PlacingInv' /\ BetweenInv'
      BY <1>1, <1>2, <1>3, <2>1, <3>1 DEF PlacingInv, BetweenInv
    <3>. QED BY <1>2, <3>2, <3>3
  <2>. QED BY <2>3, <2>4
<1>. QED BY <1>4, <1>5

\* When the loop over sorted_nodes ends every node has been taken.
LEMMA EndRcmKeeps ==
    ASSUME ReorderInv, EndRcm
    PROVE  ReorderInv'
<1>. DEFINE back == Seqs!Reverse(order)
<1>1. phase = "rcm" /\ todo = {} /\ Placed(back)
  BY DEF EndRcm
<1>2. order \in Seq(Nodes) /\ Distinct(order) /\ seen = Listed /\ Nodes \subseteq seen
  BY <1>1 DEF ReorderInv, ShapeInv, PlacingInv, Distinct
<1>3. \A m \in Nodes : \E i \in DOMAIN order : order[i] = m
  BY <1>2 DEF Listed
<1>4. Len(order) = NumNodes
  BY <1>2, <1>3, DistinctLists
<1>5. /\ back \in Seq(Nodes) /\ Len(back) = NumNodes
      /\ \A i \in DOMAIN order : \E j \in DOMAIN back : back[j] = order[i]
  BY <1>2, <1>4, ReversedList
<1>. HIDE DEF back
<1>6. ASSUME NEW m \in Nodes PROVE \E j \in 1 .. NumNodes : back[j] = m
  <2>1. PICK i \in DOMAIN order : order[i] = m
    BY <1>3
  <2>2. PICK j \in DOMAIN back : back[j] = m
    BY <1>5, <2>1
  <2>. QED BY <1>5, <2>2
<1>. QED BY <1>1, <1>5, <1>6, PlacedKeeps

\* A step of relabel is a step of Relabel, whose invariant it keeps.
LEMMA RelabelStepKeeps ==
    ASSUME StaleMarks = FALSE, ReorderInv, RelabelStep
    PROVE  ReorderInv'
<1>. USE DEF ReorderInv
<1>1. /\ phase = "relabel" /\ phase' = "relabel"
      /\ UNCHANGED orderVars /\ node' = node /\ graph0' = graph0
      /\ Next
  BY DEF RelabelStep, Next
<1>2. links0' = links0
  BY <1>1 DEF Next, Rewire, SkipPlace, EnterCycle, FollowCycle, LeaveCycle, Finish
<1>3. IInv'
  BY <1>1, NextIInv
<1>4. ShapeInv'
  BY <1>1 DEF ShapeInv, orderVars
<1>5. PlacingInv' /\ BetweenInv' /\ MovedInv'
  BY <1>1, <1>2 DEF PlacingInv, BetweenInv, MovedInv, orderVars
<1>. QED BY <1>3, <1>4, <1>5

\* When relabel is done its cycles cover all nodes.
LEMMA DoneIsInPlace == IInv => EveryNodeInPlace
<1>. SUFFICES ASSUME IInv, pc = "done", NEW m \in Nodes PROVE id[P[m]] = m
  BY DEF EveryNodeInPlace
<1>1. WholeCycles /\ n = NumNodes
  BY DEF IInv, CycleInv
<1>2. m \in visited
  BY <1>1, RelabelSizes DEF WholeCycles, Nodes
<1>. QED BY <1>1, <1>2 DEF WholeCycles

\* The graph that relabel leaves is the one it found, and so the first one.
LEMMA NextMethodKeeps ==
    ASSUME ReorderInv, NextMethod
    PROVE  ReorderInv'
<1>. USE DEF ReorderInv
<1>1. /\ phase = "relabel" /\ phase' = "pick" /\ pc = "done" /\ pc' = "rewire"
      /\ node' = [p \in Nodes |-> node[id[p]]] /\ graph0' = graph0
      /\ links0' = links /\ links' = links /\ UNCHANGED orderVars
      /\ P' = Identity /\ id' = Identity /\ visited' = {} /\ n' = 0 /\ dest' = 0
  BY DEF NextMethod
<1>2. /\ links \in [Nodes -> [Slots -> Nodes]] /\ id \in Permutations
      /\ links0 \in [Nodes -> [Slots -> Nodes]]
      /\ node \in Permutations
  BY DEF IInv, TypeOK, ShapeInv
<1>3. node' \in Permutations
  BY <1>1, <1>2 DEF Permutations
<1>4. MovedInv'
  <2>1. ASSUME NEW p \in Nodes, NEW s \in Slots
        PROVE  node'[links[p][s]] = graph0[node'[p]][s]
    <3>1. links[p][s] = P[links0[id[p]][s]]
      BY <1>1 DEF IInv, LinksTravelWithNodes
    <3>2. id[p] \in Nodes /\ links0[id[p]][s] \in Nodes /\ links[p][s] \in Nodes
      BY <1>2 DEF Permutations
    <3>3. id[P[links0[id[p]][s]]] = links0[id[p]][s]
      BY <1>1, <3>2, DoneIsInPlace DEF EveryNodeInPlace
    <3>4. node[links0[id[p]][s]] = graph0[node[id[p]]][s]
      BY <3>2 DEF MovedInv
    <3>. QED BY <1>1, <3>1, <3>2, <3>3, <3>4
  <2>. QED BY <1>1, <2>1 DEF MovedInv
<1>5. IInv'
  <2>1. Identity \in Permutations /\ \A p \in Nodes : Identity[p] = p
    BY DEF Identity, Permutations
  <2>2. TypeOK'
    BY <1>1, <1>2, <2>1, RelabelSizes DEF TypeOK
  <2>3. CycleInv'
    BY <1>1, <2>1 DEF CycleInv
  <2>4. LinksTravelWithNodes'
    BY <1>1 DEF LinksTravelWithNodes
  <2>. QED BY <2>2, <2>3, <2>4 DEF IInv
<1>6. ShapeInv'
  BY <1>1, <1>3 DEF ShapeInv, orderVars
<1>7. PlacingInv' /\ BetweenInv'
  BY <1>1 DEF PlacingInv, BetweenInv, orderVars
<1>. QED BY <1>4, <1>5, <1>6, <1>7

\* The invariant is inductive.
LEMMA NextReorder ==
    ASSUME StaleMarks = FALSE, ReorderInv, [ReorderNext]_reorderVars
    PROVE  ReorderInv'
<1>1. CASE UNCHANGED reorderVars
  <2>1. UNCHANGED <<relabelVars, node, graph0>> /\ UNCHANGED orderVars /\ phase' = phase
    BY <1>1 DEF reorderVars
  <2>2. MovedInv' /\ IInv' /\ pc' = pc
    BY <2>1, RelabelKept
  <2>. QED BY <2>1, <2>2 DEF ReorderInv, ShapeInv, PlacingInv, BetweenInv, orderVars, Listed
<1>. QED BY <1>1, CallSteps, BeginGorderKeeps, BeginRcmKeeps, GorderKeeps, EndGorderKeeps, RcmKeeps,
            EndRcmKeeps, RelabelStepKeeps, NextMethodKeeps DEF ReorderNext

-----------------------------------------------------------------------------
(* The order of Cuthill and McKee: the inductive invariant.                *)
(*                                                                         *)
(* Every entry of the fifo comes from a node that was taken, its source.   *)
(* The sources ascend along the fifo, and the entries of one source ascend *)
(* by degree.  What a node that was taken leads to is in the fifo with     *)
(* that source, unless it has been seen: so the head of the fifo, when it  *)
(* has not been seen, has its source for a parent.  No node that was taken *)
(* has a later parent than a source.                                       *)

\* The places before k whose nodes lead to the one at k.
Above(g, list, k) == {j \in 1 .. k - 1 : list[k] \in Leads(g, list[j])}

\* The first of them, or 0.
ParentOf(g, list, k) ==
    IF Above(g, list, k) = {} THEN 0
    ELSE CHOOSE j \in Above(g, list, k) : \A i \in Above(g, list, k) : j <= i

\* What src, the sources of the entries of the queue q, are.
Traced(g, list, q, src, marked) ==
    /\ src \in [DOMAIN q -> DOMAIN list]
    /\ \A i, j \in DOMAIN q : i < j => /\ src[i] <= src[j]
                                       /\ src[i] = src[j] => Fanout(g, q[i]) <= Fanout(g, q[j])
    /\ \A i \in DOMAIN q : q[i] \in Leads(g, list[src[i]])
    /\ \A j \in DOMAIN list : \A v \in Leads(g, list[j]) :
            v \in marked \/ \E i \in DOMAIN q : src[i] = j /\ q[i] = v
    /\ \A k \in DOMAIN list, i \in DOMAIN q :
            /\ ParentOf(g, list, k) <= src[i]
            /\ ParentOf(g, list, k) = src[i] => Fanout(g, list[k]) <= Fanout(g, q[i])

\* The list has the order of Cuthill and McKee.
Layered(g, list) ==
    \A j, k \in DOMAIN list : j < k =>
        /\ ParentOf(g, list, j) > 0 /\ ParentOf(g, list, k) > 0
               => ParentOf(g, list, j) <= ParentOf(g, list, k)
        /\ ParentOf(g, list, j) = ParentOf(g, list, k) => Fanout(g, list[j]) <= Fanout(g, list[k])

\* No node that is left has fewer links than a root.
Rooted(g, list, left) ==
    \A k \in DOMAIN list, q \in left :
        ParentOf(g, list, k) = 0 => Fanout(g, list[k]) <= Fanout(g, q)

\* A root was taken when the nodes before it led to nothing that was left, and
\* had the fewest links of all that was.
Due(g, list, k) ==
    \A m \in Nodes \ {list[i] : i \in 1 .. k - 1} :
        /\ \A j \in 1 .. k - 1 : m \notin Leads(g, list[j])
        /\ Fanout(g, list[k]) <= Fanout(g, m)

RootsDue(g, list) == \A k \in DOMAIN list : ParentOf(g, list, k) = 0 => Due(g, list, k)

LayerInv ==
    /\ phase # "rcm" => fifo = <<>>
    /\ phase = "rcm" =>
        /\ \A p \in Nodes : ListsLinks(links, p, table[p])
        /\ Layered(links, order)
        /\ RootsDue(links, order)
        /\ Rooted(links, order, todo)
        /\ \E src \in [DOMAIN fifo -> DOMAIN order] : Traced(links, order, fifo, src, seen)

\* The parent of a place is the first place before it that leads to it, if one does.
LEMMA ParentIs ==
    ASSUME NEW g, NEW list, NEW k \in Nat
    PROVE  /\ ParentOf(g, list, k) \in Nat
           /\ ParentOf(g, list, k) = 0 <=> Above(g, list, k) = {}
           /\ ParentOf(g, list, k) # 0 =>
                /\ ParentOf(g, list, k) \in Above(g, list, k)
                /\ ParentOf(g, list, k) < k
                /\ \A i \in Above(g, list, k) : ParentOf(g, list, k) <= i
<1>. DEFINE S == Above(g, list, k)
<1>1. S \in SUBSET (1 .. k - 1)
  BY DEF Above
<1>2. CASE S = {}
  BY <1>2 DEF ParentOf
<1>3. CASE S # {}
  <2>1. S \in SUBSET Nat
    BY <1>1
  <2>2. PICK m \in S : \A i \in S : m <= i
    <3>. HIDE DEF S
    <3>. QED BY <1>3, <2>1, LeastExists
  <2>3. ParentOf(g, list, k) \in S /\ \A i \in S : ParentOf(g, list, k) <= i
    BY <1>3, <2>2 DEF ParentOf
  <2>4. ParentOf(g, list, k) \in 1 .. k - 1
    BY <1>1, <2>3
  <2>. QED BY <1>3, <2>3, <2>4
<1>. QED BY <1>2, <1>3

\* A node that is appended changes no parent before it.
LEMMA ParentKept ==
    ASSUME NEW g, NEW list \in Seq(Nodes), NEW p \in Nodes, NEW k \in DOMAIN list
    PROVE  ParentOf(g, Append(list, p), k) = ParentOf(g, list, k)
<1>. DEFINE more == Append(list, p)
<1>1. /\ Len(list) \in Nat /\ k \in 1 .. Len(list)
      /\ \A j \in 1 .. k : more[j] = list[j]
  OBVIOUS
<1>. HIDE DEF more
<1>2. more[k] = list[k] /\ \A j \in 1 .. k - 1 : more[j] = list[j]
  BY <1>1
<1>3. Above(g, more, k) = Above(g, list, k)
  BY <1>2 DEF Above
<1>. QED BY <1>3 DEF ParentOf, more

\* The head of the queue leaves it.
LEMMA HeadLeaves ==
    ASSUME NEW g, NEW list \in Seq(Nodes), NEW q \in Seq(Nodes), q # <<>>, NEW src, NEW marked,
           Traced(g, list, q, src, marked)
    PROVE  Traced(g, list, Tail(q), [i \in DOMAIN Tail(q) |-> src[i + 1]], marked \cup {Head(q)})
<1>. DEFINE rest == Tail(q)
            from == [i \in DOMAIN rest |-> src[i + 1]]
<1>1. /\ Len(q) \in Nat /\ DOMAIN q = 1 .. Len(q) /\ 1 \in DOMAIN q /\ Head(q) = q[1]
      /\ DOMAIN rest = 1 .. Len(q) - 1 /\ Len(list) \in Nat /\ DOMAIN list = 1 .. Len(list)
  OBVIOUS
<1>2. \A i \in DOMAIN rest : i \in Int /\ i + 1 \in DOMAIN q /\ rest[i] = q[i + 1] /\ from[i] = src[i + 1]
  OBVIOUS
<1>3. \A i \in DOMAIN q : i = 1 \/ (i - 1 \in DOMAIN rest /\ (i - 1) + 1 = i)
  BY <1>1
<1>4. DOMAIN from = DOMAIN rest /\ from = [i \in DOMAIN from |-> from[i]]
  OBVIOUS
<1>. HIDE DEF rest, from
<1>5. from \in [DOMAIN rest -> DOMAIN list]
  BY <1>2, <1>4 DEF Traced
<1>6. ASSUME NEW i \in DOMAIN rest, NEW j \in DOMAIN rest, i < j
      PROVE  /\ from[i] <= from[j]
             /\ from[i] = from[j] => Fanout(g, rest[i]) <= Fanout(g, rest[j])
  <2>1. i + 1 < j + 1
    BY <1>2, <1>6
  <2>. QED BY <1>2, <2>1 DEF Traced
<1>7. \A i \in DOMAIN rest : rest[i] \in Leads(g, list[from[i]])
  BY <1>2 DEF Traced
<1>8. ASSUME NEW j \in DOMAIN list, NEW v \in Leads(g, list[j]), v \notin marked \cup {Head(q)}
      PROVE  \E i \in DOMAIN rest : from[i] = j /\ rest[i] = v
  <2>1. PICK i \in DOMAIN q : src[i] = j /\ q[i] = v
    BY <1>8 DEF Traced
  <2>2. i # 1
    BY <1>1, <1>8, <2>1
  <2>. QED BY <1>2, <1>3, <2>1, <2>2
<1>9. \A k \in DOMAIN list, i \in DOMAIN rest :
            /\ ParentOf(g, list, k) <= from[i]
            /\ ParentOf(g, list, k) = from[i] => Fanout(g, list[k]) <= Fanout(g, rest[i])
  BY <1>2 DEF Traced
<1>10. Traced(g, list, rest, from, marked \cup {Head(q)})
  BY <1>5, <1>6, <1>7, <1>8, <1>9 DEF Traced
<1>. QED BY <1>10 DEF rest, from

\* A head that has not been seen has its source for a parent.
LEMMA ParentOfHead ==
    ASSUME NEW g, NEW list \in Seq(Nodes), NEW q \in Seq(Nodes), q # <<>>, NEW src, NEW marked,
           Traced(g, list, q, src, marked), q[1] \notin marked
    PROVE  ParentOf(g, Append(list, q[1]), Len(list) + 1) = src[1]
<1>. DEFINE k == Len(list) + 1
            more == Append(list, q[1])
<1>1. /\ Len(list) \in Nat /\ DOMAIN list = 1 .. Len(list)
      /\ more[k] = q[1] /\ (\A j \in 1 .. Len(list) : more[j] = list[j])
      /\ DOMAIN q = 1 .. Len(q) /\ Len(q) \in Nat /\ 1 \in DOMAIN q
  OBVIOUS
<1>2. k \in Nat /\ k - 1 = Len(list)
  BY <1>1
<1>. HIDE DEF more, k
<1>3. src[1] \in 1 .. Len(list) /\ q[1] \in Leads(g, list[src[1]])
  BY <1>1 DEF Traced
<1>4. src[1] \in Above(g, more, k)
  BY <1>1, <1>2, <1>3 DEF Above
<1>5. ASSUME NEW j \in Above(g, more, k) PROVE src[1] <= j
  <2>1. j \in DOMAIN list /\ q[1] \in Leads(g, list[j])
    BY <1>1, <1>2 DEF Above
  <2>2. PICK i \in DOMAIN q : src[i] = j
    BY <2>1 DEF Traced
  <2>3. i = 1 \/ 1 < i
    BY <1>1
  <2>. QED BY <1>1, <1>3, <2>2, <2>3 DEF Traced
<1>6. /\ ParentOf(g, more, k) \in Above(g, more, k)
      /\ \A i \in Above(g, more, k) : ParentOf(g, more, k) <= i
  BY <1>2, <1>4, ParentIs
<1>7. ParentOf(g, more, k) <= src[1] /\ src[1] <= ParentOf(g, more, k) /\ ParentOf(g, more, k) \in Nat
  BY <1>2, <1>4, <1>5, <1>6, ParentIs
<1>. QED BY <1>3, <1>7 DEF more, k

\* A node that is taken when the queue is empty is a root.
LEMMA ParentOfRoot ==
    ASSUME NEW g, NEW list \in Seq(Nodes), NEW src, NEW marked,
           Traced(g, list, <<>>, src, marked), NEW p \in Nodes, p \notin marked
    PROVE  ParentOf(g, Append(list, p), Len(list) + 1) = 0
<1>. DEFINE k == Len(list) + 1
            more == Append(list, p)
<1>1. /\ Len(list) \in Nat /\ DOMAIN list = 1 .. Len(list)
      /\ more[k] = p /\ (\A j \in 1 .. Len(list) : more[j] = list[j])
  OBVIOUS
<1>2. k \in Nat /\ k - 1 = Len(list)
  BY <1>1
<1>. HIDE DEF more, k
<1>3. \A j \in DOMAIN list : p \notin Leads(g, list[j])
  BY DEF Traced
<1>4. Above(g, more, k) = {}
  BY <1>1, <1>2, <1>3 DEF Above
<1>. QED BY <1>2, <1>4, ParentIs DEF more, k

\* A node is taken: its neighbors join the queue with its place for a source.
LEMMA TakenTraced ==
    ASSUME NEW g, NEW list \in Seq(Nodes), NEW rest \in Seq(Nodes), NEW src, NEW marked, NEW p \in Nodes,
           NEW ns \in Seq(Nodes), ListsLinks(g, p, ns),
           \A i, j \in DOMAIN ns : i < j => Fanout(g, ns[i]) <= Fanout(g, ns[j]),
           Traced(g, list, rest, src, marked),
           \A i \in DOMAIN rest :
                /\ ParentOf(g, Append(list, p), Len(list) + 1) <= src[i]
                /\ ParentOf(g, Append(list, p), Len(list) + 1) = src[i] => Fanout(g, p) <= Fanout(g, rest[i])
    PROVE  \E from \in [DOMAIN (rest \o ns) -> DOMAIN Append(list, p)] :
                Traced(g, Append(list, p), rest \o ns, from, marked)
<1>. DEFINE more == Append(list, p)
            k    == Len(list) + 1
            q    == rest \o ns
            from == [i \in DOMAIN q |-> IF i <= Len(rest) THEN src[i] ELSE k]
<1>1. /\ Len(list) \in Nat /\ DOMAIN list = 1 .. Len(list) /\ more \in Seq(Nodes)
      /\ DOMAIN more = 1 .. Len(list) + 1
      /\ more[k] = p /\ (\A j \in 1 .. Len(list) : more[j] = list[j])
  OBVIOUS
<1>2. /\ Len(rest) \in Nat /\ DOMAIN rest = 1 .. Len(rest)
      /\ Len(ns) \in Nat /\ DOMAIN ns = 1 .. Len(ns)
      /\ DOMAIN q = 1 .. Len(rest) + Len(ns)
      /\ \A i \in DOMAIN rest : q[i] = rest[i]
      /\ \A i \in 1 .. Len(ns) : q[Len(rest) + i] = ns[i]
  OBVIOUS
<1>3. /\ \A i \in DOMAIN rest : i \in DOMAIN q /\ q[i] = rest[i] /\ from[i] = src[i]
      /\ \A i \in DOMAIN ns : Len(rest) + i \in DOMAIN q /\ q[Len(rest) + i] = ns[i] /\ from[Len(rest) + i] = k
  BY <1>2
<1>4. ASSUME NEW i \in DOMAIN q
      PROVE  \/ i \in DOMAIN rest
             \/ \E j \in DOMAIN ns : i = Len(rest) + j
  <2>1. i \in DOMAIN rest \/ (i - Len(rest) \in DOMAIN ns /\ i = Len(rest) + (i - Len(rest)))
    BY <1>2
  <2>. QED BY <2>1
<1>5. DOMAIN from = DOMAIN q /\ from = [i \in DOMAIN from |-> from[i]]
  OBVIOUS
<1>6. k = Len(list) + 1
  OBVIOUS
<1>. HIDE DEF more, q, from, k
<1>7. \A i \in DOMAIN rest : src[i] \in 1 .. Len(list)
  BY <1>1 DEF Traced
<1>8. from \in [DOMAIN q -> DOMAIN more]
  <2>1. \A i \in DOMAIN q : from[i] \in DOMAIN more
    BY <1>1, <1>3, <1>4, <1>6, <1>7
  <2>. QED BY <1>5, <2>1
<1>9. ASSUME NEW i \in DOMAIN q, NEW j \in DOMAIN q, i < j
      PROVE  /\ from[i] <= from[j]
             /\ from[i] = from[j] => Fanout(g, q[i]) <= Fanout(g, q[j])
  <2>1. CASE i \in DOMAIN rest /\ j \in DOMAIN rest
    BY <1>3, <1>9, <2>1 DEF Traced
  <2>2. CASE i \in DOMAIN rest /\ j \notin DOMAIN rest
    <3>1. from[i] \in 1 .. Len(list) /\ from[j] = k
      BY <1>3, <1>4, <1>7, <2>2
    <3>. QED BY <1>1, <1>6, <3>1
  <2>3. CASE i \notin DOMAIN rest
    <3>1. PICK a \in DOMAIN ns : i = Len(rest) + a
      BY <1>4, <2>3
    <3>2. j \notin DOMAIN rest
      BY <1>2, <1>9, <3>1
    <3>3. PICK b \in DOMAIN ns : j = Len(rest) + b
      BY <1>4, <3>2
    <3>4. a < b
      BY <1>2, <1>9, <3>1, <3>3
    <3>5. k \in Int
      BY <1>1, <1>6
    <3>. QED BY <1>3, <3>1, <3>3, <3>4, <3>5
  <2>. QED BY <2>1, <2>2, <2>3
<1>10. ASSUME NEW i \in DOMAIN q PROVE q[i] \in Leads(g, more[from[i]])
  <2>1. CASE i \in DOMAIN rest
    <3>1. q[i] = rest[i] /\ from[i] = src[i] /\ src[i] \in 1 .. Len(list) /\ more[src[i]] = list[src[i]]
      BY <1>1, <1>3, <1>7, <2>1
    <3>2. rest[i] \in Leads(g, list[src[i]])
      BY <2>1 DEF Traced
    <3>. QED BY <3>1, <3>2
  <2>2. CASE i \notin DOMAIN rest
    <3>1. PICK a \in DOMAIN ns : i = Len(rest) + a
      BY <1>4, <2>2
    <3>. QED BY <1>1, <1>3, <3>1 DEF ListsLinks
  <2>. QED BY <2>1, <2>2
<1>11. ASSUME NEW j \in DOMAIN more, NEW v \in Leads(g, more[j]), v \notin marked
       PROVE  \E i \in DOMAIN q : from[i] = j /\ q[i] = v
  <2>1. CASE j \in DOMAIN list
    <3>1. more[j] = list[j]
      BY <1>1, <2>1
    <3>2. PICK i \in DOMAIN rest : src[i] = j /\ rest[i] = v
      BY <1>11, <2>1, <3>1 DEF Traced
    <3>. QED BY <1>3, <3>2
  <2>2. CASE j \notin DOMAIN list
    <3>1. j = k /\ v \in Leads(g, p)
      BY <1>1, <1>6, <2>2
    <3>2. PICK a \in DOMAIN ns : ns[a] = v
      BY <3>1 DEF ListsLinks
    <3>. QED BY <1>3, <3>1, <3>2
  <2>. QED BY <2>1, <2>2
<1>12. ASSUME NEW j \in DOMAIN more, NEW i \in DOMAIN q
       PROVE  /\ ParentOf(g, more, j) <= from[i]
              /\ ParentOf(g, more, j) = from[i] => Fanout(g, more[j]) <= Fanout(g, q[i])
  <2>1. /\ j \in Nat /\ j <= k /\ (j \notin DOMAIN list => j = k)
    BY <1>1, <1>6
  <2>2. ParentOf(g, more, j) \in Nat /\ ParentOf(g, more, j) < k
    <3>1. ParentOf(g, more, j) \in Nat /\ (ParentOf(g, more, j) = 0 \/ ParentOf(g, more, j) < j)
      BY <2>1, ParentIs
    <3>. QED BY <1>1, <1>6, <2>1, <3>1
  <2>3. CASE i \in DOMAIN rest
    <3>1. q[i] = rest[i] /\ from[i] = src[i]
      BY <1>3, <2>3
    <3>2. CASE j \in DOMAIN list
      <4>1. more[j] = list[j] /\ ParentOf(g, more, j) = ParentOf(g, list, j)
        BY <1>1, <3>2, ParentKept DEF more
      <4>. QED BY <2>3, <3>1, <3>2, <4>1 DEF Traced
    <3>3. CASE j \notin DOMAIN list
      <4>1. j = k /\ more[j] = p
        BY <1>1, <2>1, <3>3
      <4>. QED BY <2>3, <3>1, <4>1 DEF more, k
    <3>. QED BY <3>2, <3>3
  <2>4. CASE i \notin DOMAIN rest
    <3>1. from[i] = k
      BY <1>3, <1>4, <2>4
    <3>. QED BY <1>1, <1>6, <2>2, <3>1
  <2>. QED BY <2>3, <2>4
<1>13. Traced(g, more, q, from, marked)
  BY <1>8, <1>9, <1>10, <1>11, <1>12 DEF Traced
<1>. QED BY <1>8, <1>13 DEF more, q

\* A node joins the order behind all those with an earlier parent, and behind
\* its siblings that have fewer links.
LEMMA TakenLayered ==
    ASSUME NEW g, NEW list \in Seq(Nodes), NEW p \in Nodes, Layered(g, list),
           \A j \in DOMAIN list :
                LET f == ParentOf(g, Append(list, p), Len(list) + 1)
                IN  /\ ParentOf(g, list, j) > 0 /\ f > 0 => ParentOf(g, list, j) <= f
                    /\ ParentOf(g, list, j) = f => Fanout(g, list[j]) <= Fanout(g, p)
    PROVE  Layered(g, Append(list, p))
<1>. DEFINE more == Append(list, p)
            size == Len(list)
<1>1. /\ size \in Nat /\ DOMAIN list = 1 .. size /\ DOMAIN more = 1 .. size + 1
      /\ more[size + 1] = p /\ (\A j \in 1 .. size : more[j] = list[j])
  OBVIOUS
<1>2. \A j \in DOMAIN list : ParentOf(g, more, j) = ParentOf(g, list, j)
  BY ParentKept
<1>. SUFFICES ASSUME NEW j \in DOMAIN more, NEW k \in DOMAIN more, j < k
              PROVE  /\ ParentOf(g, more, j) > 0 /\ ParentOf(g, more, k) > 0
                            => ParentOf(g, more, j) <= ParentOf(g, more, k)
                     /\ ParentOf(g, more, j) = ParentOf(g, more, k) => Fanout(g, more[j]) <= Fanout(g, more[k])
  BY DEF Layered
<1>3. \A i \in DOMAIN list :
         /\ ParentOf(g, list, i) > 0 /\ ParentOf(g, more, size + 1) > 0
                => ParentOf(g, list, i) <= ParentOf(g, more, size + 1)
         /\ ParentOf(g, list, i) = ParentOf(g, more, size + 1) => Fanout(g, list[i]) <= Fanout(g, p)
  OBVIOUS
<1>. HIDE DEF more, size
<1>4. j \in DOMAIN list /\ more[j] = list[j] /\ ((k \in DOMAIN list /\ more[k] = list[k]) \/ k = size + 1)
  BY <1>1
<1>5. CASE k \in DOMAIN list /\ more[k] = list[k]
  BY <1>2, <1>4, <1>5 DEF Layered
<1>6. CASE k = size + 1
  BY <1>1, <1>2, <1>3, <1>4, <1>6
<1>. QED BY <1>4, <1>5, <1>6

\* Sorting a node's entry of the table leaves the same neighbors, by degree.
LEMMA SortedLists ==
    ASSUME NEW p \in Nodes, table \in [Nodes -> Seq(Nodes)],
           \A m \in Nodes : ListsLinks(links, m, table[m]),
           NEW sorted \in ByDegree(table[p])
    PROVE  /\ ListsLinks(links, p, sorted)
           /\ \A i, j \in DOMAIN sorted : i < j => Fanout(links, sorted[i]) <= Fanout(links, sorted[j])
<1>. DEFINE list == table[p]
            D == DOMAIN list
<1>0. list \in Seq(Nodes) /\ D = 1 .. Len(list) /\ Len(list) \in Nat
  OBVIOUS
<1>1. PICK f \in Bijection(D, D) : sorted = [i \in D |-> list[f[i]]]
  BY DEF ByDegree
<1>2. f \in [D -> D] /\ \A t \in D : \E s \in D : f[s] = t
  BY DEF Bijection, Injection, Surjection
<1>3. DOMAIN sorted = D /\ \A i \in D : sorted[i] = list[f[i]] /\ f[i] \in D
  BY <1>1, <1>2
<1>4. sorted \in Seq(Nodes)
  BY <1>0, SortedAreNodes
<1>5. Len(sorted) = Len(list)
  BY <1>0, <1>3, <1>4
<1>6. ListsLinks(links, p, list)
  OBVIOUS
<1>7. \A i, j \in D : i < j => Degree(sorted[i]) <= Degree(sorted[j])
  BY DEF ByDegree
<1>. HIDE DEF list, D
<1>8. ListsLinks(links, p, sorted)
  <2>1. \A i \in DOMAIN sorted : sorted[i] \in Leads(links, p)
    BY <1>3, <1>6 DEF ListsLinks, D
  <2>2. ASSUME NEW v \in Leads(links, p) PROVE \E i \in DOMAIN sorted : sorted[i] = v
    <3>1. PICK t \in D : list[t] = v
      BY <1>6 DEF ListsLinks, D
    <3>2. PICK s \in D : f[s] = t
      BY <1>2
    <3>. QED BY <1>3, <3>1, <3>2
  <2>. QED BY <1>5, <1>6, <2>1, <2>2 DEF ListsLinks
<1>9. \A i \in D : sorted[i] \in Nodes
  BY <1>3, <1>4
<1>10. \A m \in Nodes : Degree(m) = Fanout(links, m)
  BY DEF Degree, ListsLinks
<1>. QED BY <1>3, <1>7, <1>8, <1>9, <1>10

\* A node that is appended disturbs no root before it.
LEMMA DueKept ==
    ASSUME NEW g, NEW list \in Seq(Nodes), NEW p \in Nodes, RootsDue(g, list),
           ParentOf(g, Append(list, p), Len(list) + 1) = 0 => Due(g, Append(list, p), Len(list) + 1)
    PROVE  RootsDue(g, Append(list, p))
<1>. DEFINE more == Append(list, p)
            size == Len(list)
<1>1. /\ size \in Nat /\ DOMAIN list = 1 .. size /\ DOMAIN more = 1 .. size + 1
      /\ \A j \in 1 .. size : more[j] = list[j]
  OBVIOUS
<1>2. \A j \in DOMAIN list : ParentOf(g, more, j) = ParentOf(g, list, j)
  BY ParentKept
<1>3. ParentOf(g, more, size + 1) = 0 => Due(g, more, size + 1)
  OBVIOUS
<1>. HIDE DEF more, size
<1>4. ASSUME NEW k \in DOMAIN list, Due(g, list, k) PROVE Due(g, more, k)
  <2>1. more[k] = list[k] /\ \A j \in 1 .. k - 1 : more[j] = list[j]
    BY <1>1
  <2>2. {more[i] : i \in 1 .. k - 1} = {list[i] : i \in 1 .. k - 1}
    BY <2>1
  <2>. QED BY <1>4, <2>1, <2>2 DEF Due
<1>5. ASSUME NEW k \in DOMAIN more, ParentOf(g, more, k) = 0 PROVE Due(g, more, k)
  <2>1. CASE k \in DOMAIN list
    BY <1>2, <1>4, <1>5, <2>1 DEF RootsDue
  <2>2. CASE k = size + 1
    BY <1>3, <1>5, <2>2
  <2>. QED BY <1>1, <2>1, <2>2
<1>. QED BY <1>5 DEF RootsDue, more

\* Before rcmOrder takes its first node.
LEMMA BeginRcmLayers ==
    ASSUME ReorderInv, LayerInv, BeginRcm
    PROVE  LayerInv'
<1>1. phase = "pick" /\ table' = OutdegreeTable /\ links' = links /\ order' = order /\ fifo' = fifo
  BY DEF BeginRcm, relabelVars
<1>2. links \in [Nodes -> [Slots -> Nodes]] /\ order = <<>> /\ fifo = <<>>
  BY <1>1 DEF ReorderInv, IInv, TypeOK, PlacingInv, LayerInv
<1>3. \A p \in Nodes : ListsLinks(links', p, table'[p])
  BY <1>1, <1>2, TableListsLinks
<1>4. Layered(links', order') /\ Rooted(links', order', todo') /\ RootsDue(links', order')
  BY <1>1, <1>2 DEF Layered, Rooted, RootsDue
<1>5. <<>> \in [DOMAIN fifo' -> DOMAIN order'] /\ Traced(links', order', fifo', <<>>, seen')
  BY <1>1, <1>2 DEF Traced
<1>6. phase' = "rcm"
  BY DEF BeginRcm
<1>. QED BY <1>3, <1>4, <1>5, <1>6 DEF LayerInv

\* The next of sorted_nodes is a root, and no root before it has more links.
LEMMA NextSortedLayers ==
    ASSUME ReorderInv, LayerInv, NextSorted
    PROVE  LayerInv'
<1>1. phase' = "rcm" /\ phase = "rcm" /\ fifo = <<>> /\ links' = links /\ table' = table
  BY DEF NextSorted, relabelVars
<1>2. PICK p \in todo :
         /\ \A q \in todo : Degree(p) <= Degree(q)
         /\ todo' = todo \ {p}
         /\ IF p \in seen THEN UNCHANGED <<order, seen, fifo>> ELSE Take(p, <<>>)
  BY DEF NextSorted
<1>3. /\ \A m \in Nodes : ListsLinks(links, m, table[m])
      /\ Layered(links, order) /\ Rooted(links, order, todo) /\ RootsDue(links, order)
  BY <1>1 DEF LayerInv
<1>4. PICK src \in [DOMAIN fifo -> DOMAIN order] : Traced(links, order, <<>>, src, seen)
  BY <1>1 DEF LayerInv
<1>5. /\ order \in Seq(Nodes) /\ table \in [Nodes -> Seq(Nodes)] /\ todo \in SUBSET Nodes
      /\ <<>> \in Seq(Nodes) /\ p \in Nodes
  BY <1>2 DEF ReorderInv, ShapeInv
<1>6. CASE p \in seen
  <2>1. UNCHANGED <<order, seen, fifo>>
    BY <1>2, <1>6
  <2>2. Rooted(links, order, todo')
    BY <1>2, <1>3 DEF Rooted
  <2>. QED BY <1>1, <1>3, <2>1, <2>2 DEF LayerInv
<1>7. CASE p \notin seen
  <2>1. order' = Append(order, p) /\ seen' = seen \cup {p}
    BY <1>2, <1>7 DEF Take
  <2>2. PICK ns \in ByDegree(table[p]) : fifo' = <<>> \o ns
    BY <1>2, <1>7 DEF Take
  <2>3. /\ ListsLinks(links, p, ns) /\ ns \in Seq(Nodes)
        /\ \A i, j \in DOMAIN ns : i < j => Fanout(links, ns[i]) <= Fanout(links, ns[j])
    BY <1>3, <1>5, SortedLists, SortedAreNodes
  <2>4. Traced(links, order, <<>>, src, seen \cup {p})
    BY <1>4 DEF Traced
  <2>5. \E from \in [DOMAIN fifo' -> DOMAIN order'] : Traced(links, order', fifo', from, seen')
    <3>1. DOMAIN <<>> = {}
      OBVIOUS
    <3>2. \E from \in [DOMAIN (<<>> \o ns) -> DOMAIN Append(order, p)] :
                Traced(links, Append(order, p), <<>> \o ns, from, seen \cup {p})
      BY <1>5, <2>3, <2>4, <3>1, TakenTraced
    <3>. QED BY <2>1, <2>2, <3>2
  <2>6. ParentOf(links, Append(order, p), Len(order) + 1) = 0
    BY <1>4, <1>5, <1>7, ParentOfRoot
  <2>7. \A j \in DOMAIN order :
            LET f == ParentOf(links, Append(order, p), Len(order) + 1)
            IN  /\ ParentOf(links, order, j) > 0 /\ f > 0 => ParentOf(links, order, j) <= f
                /\ ParentOf(links, order, j) = f => Fanout(links, order[j]) <= Fanout(links, p)
    BY <1>2, <1>3, <2>6 DEF Rooted
  <2>8. Layered(links, order')
    BY <1>3, <1>5, <2>1, <2>6, <2>7, TakenLayered
  <2>9. Rooted(links, order', todo')
    <3>1. \A m \in Nodes : Degree(m) = Fanout(links, m)
      BY <1>3 DEF Degree, ListsLinks
    <3>2. \A q \in todo : Fanout(links, p) <= Fanout(links, q)
      BY <1>2, <1>5, <3>1
    <3>3. \A j \in DOMAIN order' : \/ order'[j] = p
                                   \/ /\ j \in DOMAIN order /\ order'[j] = order[j]
                                      /\ ParentOf(links, order', j) = ParentOf(links, order, j)
      <4>1. \A j \in DOMAIN order' : order'[j] = p \/ (j \in DOMAIN order /\ order'[j] = order[j])
        BY <1>5, <2>1
      <4>. QED BY <1>5, <2>1, <4>1, ParentKept
    <3>. QED BY <1>2, <1>3, <3>2, <3>3 DEF Rooted
  <2>10. RootsDue(links, order')
    <3>. DEFINE k == Len(order) + 1
                more == Append(order, p)
    <3>1. /\ Len(order) \in Nat /\ DOMAIN order = 1 .. Len(order) /\ k - 1 = Len(order)
          /\ more[k] = p /\ \A i \in 1 .. Len(order) : more[i] = order[i]
      BY <1>5
    <3>. HIDE DEF k, more
    <3>2. {more[i] : i \in 1 .. k - 1} = seen /\ Nodes \ todo \subseteq seen
      BY <1>1, <3>1 DEF ReorderInv, PlacingInv, Listed
    <3>3. \A m \in Nodes : Degree(m) = Fanout(links, m)
      BY <1>3 DEF Degree, ListsLinks
    <3>4. ASSUME NEW m \in Nodes, m \notin seen
          PROVE  /\ \A j \in 1 .. k - 1 : m \notin Leads(links, more[j])
                 /\ Fanout(links, more[k]) <= Fanout(links, m)
      <4>1. \A j \in DOMAIN order : m \notin Leads(links, order[j])
        BY <1>4, <3>4 DEF Traced
      <4>2. Degree(p) <= Degree(m)
        BY <1>2, <3>2, <3>4
      <4>. QED BY <1>5, <3>1, <3>3, <4>1, <4>2
    <3>5. Due(links, more, k)
      BY <3>2, <3>4 DEF Due
    <3>. QED BY <1>3, <1>5, <2>1, <3>5, DueKept DEF more, k
  <2>. QED BY <1>1, <1>3, <2>5, <2>8, <2>9, <2>10 DEF LayerInv
<1>. QED BY <1>6, <1>7

\* The next of the queue is new, and then a child of its source, or is dropped.
LEMMA NextCandidateLayers ==
    ASSUME ReorderInv, LayerInv, NextCandidate
    PROVE  LayerInv'
<1>. DEFINE p == Head(fifo)
            rest == Tail(fifo)
<1>1. phase' = "rcm" /\ phase = "rcm" /\ fifo # <<>> /\ links' = links /\ table' = table /\ todo' = todo
  BY DEF NextCandidate, relabelVars
<1>2. IF p \in seen THEN fifo' = rest /\ UNCHANGED <<order, seen>> ELSE Take(p, rest)
  BY DEF NextCandidate
<1>3. /\ \A m \in Nodes : ListsLinks(links, m, table[m])
      /\ Layered(links, order) /\ Rooted(links, order, todo) /\ RootsDue(links, order)
  BY <1>1 DEF LayerInv
<1>4. PICK src \in [DOMAIN fifo -> DOMAIN order] : Traced(links, order, fifo, src, seen)
  BY <1>1 DEF LayerInv
<1>5. /\ order \in Seq(Nodes) /\ table \in [Nodes -> Seq(Nodes)] /\ todo \in SUBSET Nodes
      /\ fifo \in Seq(Nodes)
  BY DEF ReorderInv, ShapeInv
<1>6. /\ p = fifo[1] /\ p \in Nodes /\ rest \in Seq(Nodes) /\ 1 \in DOMAIN fifo
      /\ \A i \in DOMAIN rest : i + 1 \in DOMAIN fifo /\ 1 < i + 1 /\ rest[i] = fifo[i + 1]
  BY <1>1, <1>5
<1>. DEFINE left == [i \in DOMAIN rest |-> src[i + 1]]
<1>7. Traced(links, order, rest, left, seen \cup {p})
  BY <1>1, <1>4, <1>5, HeadLeaves
<1>8. \A i \in DOMAIN rest : left[i] = src[i + 1]
  OBVIOUS
<1>. HIDE DEF p, rest, left
<1>9. CASE p \in seen
  <2>1. fifo' = rest /\ order' = order /\ seen' = seen /\ seen \cup {p} = seen
    BY <1>2, <1>9
  <2>2. left \in [DOMAIN fifo' -> DOMAIN order'] /\ Traced(links', order', fifo', left, seen')
    BY <1>1, <1>7, <2>1 DEF Traced
  <2>. QED BY <1>1, <1>3, <2>1, <2>2 DEF LayerInv
<1>10. CASE p \notin seen
  <2>1. order' = Append(order, p) /\ seen' = seen \cup {p}
    BY <1>2, <1>10 DEF Take
  <2>2. PICK ns \in ByDegree(table[p]) : fifo' = rest \o ns
    BY <1>2, <1>10 DEF Take
  <2>3. /\ ListsLinks(links, p, ns) /\ ns \in Seq(Nodes)
        /\ \A i, j \in DOMAIN ns : i < j => Fanout(links, ns[i]) <= Fanout(links, ns[j])
    BY <1>3, <1>5, <1>6, SortedLists, SortedAreNodes
  <2>4. ParentOf(links, Append(order, p), Len(order) + 1) = src[1]
    BY <1>1, <1>4, <1>5, <1>6, <1>10, ParentOfHead
  <2>5. \A i \in DOMAIN rest :
           /\ ParentOf(links, Append(order, p), Len(order) + 1) <= left[i]
           /\ ParentOf(links, Append(order, p), Len(order) + 1) = left[i]
                    => Fanout(links, p) <= Fanout(links, rest[i])
    BY <1>4, <1>6, <1>8, <2>4 DEF Traced
  <2>6. \E from \in [DOMAIN fifo' -> DOMAIN order'] : Traced(links, order', fifo', from, seen')
    <3>1. \E from \in [DOMAIN (rest \o ns) -> DOMAIN Append(order, p)] :
                Traced(links, Append(order, p), rest \o ns, from, seen \cup {p})
      BY <1>5, <1>6, <1>7, <2>3, <2>4, <2>5, TakenTraced
    <3>. QED BY <2>1, <2>2, <3>1
  <2>7. \A j \in DOMAIN order :
            LET f == ParentOf(links, Append(order, p), Len(order) + 1)
            IN  /\ ParentOf(links, order, j) > 0 /\ f > 0 => ParentOf(links, order, j) <= f
                /\ ParentOf(links, order, j) = f => Fanout(links, order[j]) <= Fanout(links, p)
    BY <1>4, <1>6, <2>4 DEF Traced
  <2>8. Layered(links, order')
    BY <1>3, <1>5, <1>6, <2>1, <2>4, <2>7, TakenLayered
  <2>9. Rooted(links, order', todo')
    <3>1. src[1] # 0
      BY <1>4, <1>5, <1>6
    <3>2. \A j \in DOMAIN order' :
             \/ ParentOf(links, order', j) # 0
             \/ /\ j \in DOMAIN order /\ order'[j] = order[j]
                /\ ParentOf(links, order', j) = ParentOf(links, order, j)
      <4>1. \A j \in DOMAIN order' : j = Len(order) + 1 \/ (j \in DOMAIN order /\ order'[j] = order[j])
        BY <1>5, <1>6, <2>1
      <4>. QED BY <1>5, <1>6, <2>1, <2>4, <3>1, <4>1, ParentKept
    <3>. QED BY <1>1, <1>3, <3>2 DEF Rooted
  <2>10. RootsDue(links, order')
    <3>1. src[1] # 0
      BY <1>4, <1>5, <1>6
    <3>. QED BY <1>3, <1>5, <1>6, <2>1, <2>4, <3>1, DueKept
  <2>. QED BY <1>1, <1>3, <2>6, <2>8, <2>9, <2>10 DEF LayerInv
<1>. QED BY <1>9, <1>10

\* The invariant is inductive.
LEMMA NextLayers ==
    ASSUME ReorderInv, LayerInv, [ReorderNext]_reorderVars
    PROVE  LayerInv'
<1>1. CASE UNCHANGED reorderVars
  <2>1. UNCHANGED <<phase, links, table, order, todo, seen, fifo>>
    BY <1>1 DEF reorderVars, orderVars, relabelVars
  <2>. QED BY <2>1 DEF LayerInv
<1>2. CASE \/ CheckNames \/ UnknownMethod \/ NoMoreMethods
           \/ BeginGorder \/ EnterTurn \/ UpdateQueue \/ PlaceNode \/ EndGorder
           \/ EndRcm \/ RelabelStep \/ NextMethod
  <2>1. phase' # "rcm" /\ fifo' = fifo /\ (phase = "rcm" => fifo = <<>>)
    BY <1>2 DEF orderVars, CheckNames, UnknownMethod, NoMoreMethods, BeginGorder, EnterTurn, UpdateQueue, PlaceNode,
                EndGorder, EndRcm, Placed, RelabelStep, NextMethod
  <2>. QED BY <2>1 DEF LayerInv
<1>. QED BY <1>1, <1>2, BeginRcmLayers, NextSortedLayers, NextCandidateLayers DEF ReorderNext

\* A number is its own rest when it is divided by a larger one.
LEMMA SmallRemainder == ASSUME NEW a \in Nat, NEW b \in Nat, a < b PROVE a % b = a
OBVIOUS

\* One node leads to another if it has a link to it.
LEMMA EdgeLeads ==
    ASSUME NEW a, NEW b
    PROVE  (Edges(a, b) > 0 <=> b \in Leads(links, a)) /\ (Edges(a, b) = 0 <=> b \notin Leads(links, a))
<1>. DEFINE T == {s \in Slots : links[a][s] = b}
<1>1. IsFiniteSet(Slots)
  BY RelabelSizes, FS_Interval DEF Slots
<1>2. IsFiniteSet(T) /\ Cardinality(T) \in Nat /\ (Cardinality(T) = 0 <=> T = {})
  BY <1>1, FS_Subset, FS_CardinalityType, FS_EmptySet
<1>3. b \in Leads(links, a) <=> a # b /\ T # {}
  BY DEF Leads
<1>4. Edges(a, b) = IF a = b THEN 0 ELSE Cardinality(T)
  BY DEF Edges
<1>. HIDE DEF T
<1>. QED BY <1>2, <1>3, <1>4

\* The parent of a place is the one that the property names.
LEMMA ParentIsParent ==
    ASSUME order \in Seq(Nodes), links \in [Nodes -> [Slots -> Nodes]], NEW k \in DOMAIN order
    PROVE  Parent(k) = ParentOf(links, order, k)
<1>. DEFINE S == {j \in 1 .. k - 1 : Edges(order[j], order[k]) > 0} \cup {k}
<1>1. k \in Nat /\ k >= 1 /\ DOMAIN order = 1 .. Len(order) /\ Len(order) \in Nat
  OBVIOUS
<1>2. \A a, b : Edges(a, b) > 0 <=> b \in Leads(links, a)
  BY EdgeLeads
<1>3. S = Above(links, order, k) \cup {k}
  BY <1>2 DEF Above
<1>4. Parent(k) = Sets!Min(S) % k
  BY DEF Parent
<1>5. Sets!Min(S) = CHOOSE x \in S : \A y \in S : x <= y
  BY DEF Sets!Min
<1>. HIDE DEF S
<1>6. Above(links, order, k) \in SUBSET (1 .. k - 1)
  BY DEF Above
<1>7. CASE Above(links, order, k) = {}
  <2>1. S = {k}
    BY <1>3, <1>7
  <2>2. Sets!Min(S) = k
    BY <1>1, <1>5, <2>1
  <2>. QED BY <1>1, <1>4, <1>7, <2>2 DEF ParentOf
<1>8. CASE Above(links, order, k) # {}
  <2>. DEFINE m == ParentOf(links, order, k)
  <2>1. m \in Above(links, order, k) /\ \A i \in Above(links, order, k) : m <= i
    BY <1>1, <1>8, ParentIs
  <2>. HIDE DEF m
  <2>2. m \in 1 .. k - 1
    BY <1>6, <2>1
  <2>3. m \in S /\ \A i \in S : m <= i
    BY <1>1, <1>3, <2>1, <2>2
  <2>4. \A i \in S : i \in Int
    BY <1>1, <1>3, <1>6
  <2>5. Sets!Min(S) = m
    BY <1>5, <2>3, <2>4
  <2>6. m \in Nat /\ m < k
    BY <1>1, <2>2
  <2>7. m % k = m
    BY <1>1, <2>6, SmallRemainder
  <2>. QED BY <1>4, <2>5, <2>7 DEF m
<1>. QED BY <1>7, <1>8

-----------------------------------------------------------------------------
(* The priorities of gOrder: the inductive invariant.                      *)
(*                                                                         *)
(* The priority of a key, and the changes of it that are still to be made, *)
(* add up to how close the key is to the nodes in the window: those that   *)
(* have entered it and have not left it.                                   *)

\* How often x is in the list.
Count(list, x) == Cardinality({i \in DOMAIN list : list[i] = x})

\* What the changes that are still to be made do to the priority of k.
Pending(changes, k) ==
    Count(changes, [kind |-> "increment", key |-> k]) - Count(changes, [kind |-> "decrement", key |-> k])

\* Closeness, Counted and the nodes in the window between two turns, which the
\* first enters with the first turn, for a given graph and list.
ClosenessOf(g, k, W) ==
    Cardinality({s \in Slots : g[k][s] \in W})
    + Cardinality({e \in W \X Slots : g[e[1]][e[2]] = k})
    + Cardinality({e \in Nodes \X Slots \X Slots :
                        g[e[1]][e[2]] \in W \ {e[1]} /\ g[e[1]][e[3]] = k /\ e[1] # k})

CountedOf(list, i) == {list[j] : j \in {1} \cup {k \in 2 .. i - 1 : i - k <= Window}}

WindowOf(list) == IF Len(list) = 1 THEN {} ELSE CountedOf(list, Len(list))

\* The table lists the links of every node.
TablesOK ==
    /\ links \in [Nodes -> [Slots -> Nodes]]
    /\ table \in [Nodes -> Seq(Nodes)]
    /\ \A p \in Nodes : ListsSlots(links, p, table[p])

ScoreInv ==
    /\ phase \in {"turn", "update"} => TablesOK /\ order # <<>>
    /\ phase = "turn" =>
            \A k \in DOMAIN queue.index : Priority(queue, k) = ClosenessOf(links, k, WindowOf(order))
    /\ phase = "update" =>
            /\ updates \in Seq([kind : {"increment", "decrement"}, key : Nodes])
            /\ \A k \in DOMAIN queue.index :
                Priority(queue, k) + Pending(updates, k) = ClosenessOf(links, k, CountedOf(order, Len(order) + 1))

-----------------------------------------------------------------------------
(* Counting the entries of lists. *)

\* A set of numbers that has 0 and the successors of its members has all.
LEMMA NumberInduction ==
    ASSUME NEW Good \in SUBSET Nat, 0 \in Good, \A a \in Good : a + 1 \in Good
    PROVE  Good = Nat
<1>. DEFINE Bad == Nat \ Good
<1>. SUFFICES ASSUME Bad # {} PROVE FALSE
  OBVIOUS
<1>1. PICK m \in Bad : \A k \in Bad : m <= k
  <2>1. Bad \in SUBSET Nat
    OBVIOUS
  <2>. HIDE DEF Bad
  <2>. QED BY <2>1, LeastExists
<1>2. m \in Nat /\ m # 0
  OBVIOUS
<1>3. m - 1 \in Good
  BY <1>1, <1>2
<1>4. (m - 1) + 1 = m
  BY <1>2
<1>. QED BY <1>3, <1>4

\* Sets that match one to one have the same size.
LEMMA SameSize ==
    ASSUME NEW S, IsFiniteSet(S), NEW T, NEW f \in [S -> T],
           \A a, b \in S : f[a] = f[b] => a = b,
           \A t \in T : \E a \in S : f[a] = t
    PROVE  IsFiniteSet(T) /\ Cardinality(T) = Cardinality(S)
<1>1. f \in Bijection(S, T)
  BY DEF Bijection, Injection, Surjection, IsInjective
<1>. QED BY <1>1, FS_Bijection DEF ExistsBijection

\* The size of a set that is divided in two.
LEMMA TwoParts ==
    ASSUME NEW S, IsFiniteSet(S), NEW T, IsFiniteSet(T), S \cap T = {}
    PROVE  IsFiniteSet(S \cup T) /\ Cardinality(S \cup T) = Cardinality(S) + Cardinality(T)
<1>1. Cardinality(S) \in Nat /\ Cardinality(T) \in Nat
  BY FS_CardinalityType
<1>2. \A X : X = {} => Cardinality(X) = 0
  BY FS_EmptySet
<1>3. Cardinality(S \cap T) = 0
  BY <1>2
<1>4. IsFiniteSet(S \cup T) /\ Cardinality(S \cup T) = Cardinality(S) + Cardinality(T) - Cardinality(S \cap T)
  BY FS_Union
<1>. QED BY <1>1, <1>3, <1>4

\* An entry is counted a natural number of times.
LEMMA CountIsNumber ==
    ASSUME NEW A, NEW list \in Seq(A), NEW x
    PROVE  IsFiniteSet({i \in DOMAIN list : list[i] = x}) /\ Count(list, x) \in Nat
<1>1. DOMAIN list = 1 .. Len(list) /\ Len(list) \in Nat
  OBVIOUS
<1>2. IsFiniteSet(DOMAIN list)
  BY <1>1, FS_Interval
<1>. QED BY <1>2, FS_Subset, FS_CardinalityType DEF Count

\* Two lists, one after the other.
LEMMA CountJoined ==
    ASSUME NEW A, NEW r \in Seq(A), NEW t \in Seq(A), NEW x
    PROVE  Count(r \o t, x) = Count(r, x) + Count(t, x)
<1>. DEFINE both == r \o t
            S == {i \in DOMAIN r : r[i] = x}
            T == {i \in DOMAIN t : t[i] = x}
            U == {i \in Len(r) + 1 .. Len(r) + Len(t) : both[i] = x}
            f == [i \in T |-> Len(r) + i]
<1>1. /\ DOMAIN r = 1 .. Len(r) /\ Len(r) \in Nat /\ DOMAIN t = 1 .. Len(t) /\ Len(t) \in Nat
      /\ DOMAIN both = 1 .. Len(r) + Len(t)
      /\ \A i \in 1 .. Len(r) : both[i] = r[i]
      /\ \A i \in 1 .. Len(t) : both[Len(r) + i] = t[i]
  OBVIOUS
<1>. HIDE DEF both
<1>2. IsFiniteSet(S) /\ IsFiniteSet(T) /\ Cardinality(S) = Count(r, x) /\ Cardinality(T) = Count(t, x)
  BY CountIsNumber DEF Count
<1>3. IsFiniteSet(U) /\ Cardinality(U) = Cardinality(T)
  <2>1. f \in [T -> U]
    BY <1>1
  <2>2. \A a, b \in T : f[a] = f[b] => a = b
    BY <1>1
  <2>3. ASSUME NEW u \in U PROVE \E a \in T : f[a] = u
    <3>1. u - Len(r) \in 1 .. Len(t) /\ Len(r) + (u - Len(r)) = u
      BY <1>1
    <3>2. u - Len(r) \in T
      BY <1>1, <3>1
    <3>. QED BY <3>1, <3>2
  <2>. HIDE DEF f, U, T
  <2>. QED BY <1>2, <2>1, <2>2, <2>3, SameSize
<1>4. {i \in DOMAIN both : both[i] = x} = S \cup U /\ S \cap U = {}
  <2>1. \A i \in DOMAIN both : i \in 1 .. Len(r) \/ i \in Len(r) + 1 .. Len(r) + Len(t)
    BY <1>1
  <2>2. 1 .. Len(r) \subseteq DOMAIN both /\ Len(r) + 1 .. Len(r) + Len(t) \subseteq DOMAIN both
    BY <1>1
  <2>3. \A i : ~(i \in 1 .. Len(r) /\ i \in Len(r) + 1 .. Len(r) + Len(t))
    BY <1>1
  <2>. QED BY <1>1, <2>1, <2>2, <2>3
<1>. HIDE DEF S, T, U
<1>5. Cardinality(S \cup U) = Cardinality(S) + Cardinality(U)
  BY <1>2, <1>3, <1>4, TwoParts
<1>6. Count(both, x) = Cardinality(S \cup U)
  BY <1>4 DEF Count
<1>. QED BY <1>2, <1>3, <1>5, <1>6 DEF both

\* The head of a list and the rest.
LEMMA CountHead ==
    ASSUME NEW A, NEW list \in Seq(A), list # <<>>, NEW x
    PROVE  Count(list, x) = (IF Head(list) = x THEN 1 ELSE 0) + Count(Tail(list), x)
<1>1. /\ Head(list) \in A /\ Tail(list) \in Seq(A) /\ list = <<Head(list)>> \o Tail(list)
      /\ <<Head(list)>> \in Seq(A)
  OBVIOUS
<1>2. Count(list, x) = Count(<<Head(list)>>, x) + Count(Tail(list), x)
  <2>. DEFINE r == <<Head(list)>>
              t == Tail(list)
  <2>1. r \in Seq(A) /\ t \in Seq(A) /\ list = r \o t
    BY <1>1
  <2>. HIDE DEF r, t
  <2>2. Count(r \o t, x) = Count(r, x) + Count(t, x)
    BY <2>1, CountJoined
  <2>3. Count(list, x) = Count(r, x) + Count(t, x)
    BY <2>1, <2>2
  <2>. QED BY <2>3 DEF r, t
<1>. DEFINE h == Head(list)
            S == {i \in DOMAIN <<h>> : <<h>>[i] = x}
<1>. HIDE DEF h
<1>3. S = IF h = x THEN {1} ELSE {}
  OBVIOUS
<1>4. Cardinality(S) = IF h = x THEN 1 ELSE 0
  BY <1>3, FS_EmptySet, FS_Singleton
<1>5. Count(<<h>>, x) = IF h = x THEN 1 ELSE 0
  BY <1>4 DEF Count
<1>. QED BY <1>2, <1>5 DEF h

\* Tagged keys are counted with their tag.
LEMMA CountTagged ==
    ASSUME NEW keys \in Seq(Nodes), NEW kind, NEW other, kind # other, NEW k
    PROVE  /\ Count(Tagged(kind, keys), [kind |-> kind, key |-> k]) = Count(keys, k)
           /\ Count(Tagged(kind, keys), [kind |-> other, key |-> k]) = 0
           /\ \A D : kind \in D => Tagged(kind, keys) \in Seq([kind : D, key : Nodes])
<1>. DEFINE tagged == Tagged(kind, keys)
<1>1. tagged = [i \in DOMAIN keys |-> [kind |-> kind, key |-> keys[i]]]
  BY DEF Tagged
<1>2. DOMAIN tagged = DOMAIN keys /\ \A i \in DOMAIN keys : tagged[i] = [kind |-> kind, key |-> keys[i]]
  BY <1>1
<1>. HIDE DEF tagged
<1>3. \A i \in DOMAIN keys : /\ tagged[i] = [kind |-> kind, key |-> k] <=> keys[i] = k
                             /\ tagged[i] # [kind |-> other, key |-> k]
  <2>. TAKE i \in DOMAIN keys
  <2>1. [kind |-> kind, key |-> keys[i]].key = keys[i] /\ [kind |-> kind, key |-> keys[i]].kind = kind
    OBVIOUS
  <2>2. [kind |-> other, key |-> k].kind = other /\ [kind |-> kind, key |-> k].key = k
    OBVIOUS
  <2>. QED BY <1>2, <2>1, <2>2
<1>4. {i \in DOMAIN tagged : tagged[i] = [kind |-> kind, key |-> k]} = {i \in DOMAIN keys : keys[i] = k}
  BY <1>2, <1>3
<1>5. {i \in DOMAIN tagged : tagged[i] = [kind |-> other, key |-> k]} = {}
  BY <1>2, <1>3
<1>6. ASSUME NEW D, kind \in D PROVE tagged \in Seq([kind : D, key : Nodes])
  <2>. DEFINE R == [kind : D, key : Nodes]
  <2>1. DOMAIN keys = 1 .. Len(keys) /\ Len(keys) \in Nat /\ \A i \in DOMAIN keys : keys[i] \in Nodes
    OBVIOUS
  <2>2. \A i \in DOMAIN keys : [kind |-> kind, key |-> keys[i]] \in R
    BY <1>6, <2>1
  <2>. HIDE DEF R
  <2>3. tagged = [i \in 1 .. Len(keys) |-> [kind |-> kind, key |-> keys[i]]]
    BY <1>1, <2>1 DEF tagged
  <2>4. tagged \in [1 .. Len(keys) -> R]
    BY <2>1, <2>2, <2>3
  <2>5. tagged \in Seq(R)
    BY <2>1, <2>4
  <2>. QED BY <2>5 DEF R
<1>. QED BY <1>4, <1>5, <1>6, FS_EmptySet DEF Count, tagged

-----------------------------------------------------------------------------
(* Lists of lists. *)

\* The places of a list of lists.
Places(ss) == {x \in (DOMAIN ss) \X Nat : x[2] \in DOMAIN ss[x[1]]}

\* The places, when the domain of the list is known.
LEMMA PlacesAre ==
    ASSUME NEW ss, NEW D, D = DOMAIN ss
    PROVE  {x \in D \X Nat : x[2] \in DOMAIN ss[x[1]]} = Places(ss)
BY DEF Places

\* The empty list has none.
LEMMA NoPlaces == ASSUME NEW ss, DOMAIN ss = {} PROVE Places(ss) = {}
BY DEF Places

\* Flattening a list of lists gives a list with one entry for every place.
LEMMA FlattenedList ==
    ASSUME NEW A, NEW ss \in Seq(Seq(A))
    PROVE  LET flat == Seqs!FlattenSeq(ss)
           IN  /\ flat \in Seq(A)
               /\ \E b \in Bijection(DOMAIN flat, Places(ss)) :
                     \A p \in DOMAIN flat : flat[p] = ss[b[p][1]][b[p][2]]
<1>. DEFINE size == Len(ss)
            Flat(m, g) == g = [i \in 1 .. m |-> IF i = 1 THEN ss[i] ELSE g[i - 1] \o ss[i]]
            flat == Seqs!FlattenSeq(ss)
            Upto(m) == {x \in (1 .. m) \X Nat : x[2] \in DOMAIN ss[x[1]]}
            Matches(t, m) ==
                /\ t \in Seq(A)
                /\ \E b \in Bijection(DOMAIN t, Upto(m)) :
                     \A p \in DOMAIN t : t[p] = ss[b[p][1]][b[p][2]]
<1>1. size \in Nat /\ DOMAIN ss = 1 .. size /\ \A i \in 1 .. size : ss[i] \in Seq(A)
  OBVIOUS
<1>2. \A m \in Nat : \E g : Flat(m, g)
  <2>. DEFINE Good == {m \in Nat : \E g : Flat(m, g)}
  <2>1. 0 \in Good
    <3>1. Flat(0, [i \in 1 .. 0 |-> 0])
      OBVIOUS
    <3>. HIDE DEF Flat
    <3>. QED BY <3>1
  <2>2. ASSUME NEW m \in Good PROVE m + 1 \in Good
    <3>1. PICK g : Flat(m, g)
      OBVIOUS
    <3>2. m \in Nat /\ m + 1 \in Nat
      OBVIOUS
    <3>. DEFINE h == [i \in 1 .. m + 1 |-> IF i = 1 THEN ss[i] ELSE g[i - 1] \o ss[i]]
    <3>3. \A i \in 1 .. m : g[i] = IF i = 1 THEN ss[i] ELSE g[i - 1] \o ss[i]
      BY <3>1
    <3>4. \A i \in 1 .. m + 1 : i = 1 \/ i - 1 \in 1 .. m
      BY <3>2
    <3>5. \A i \in 1 .. m : i \in 1 .. m + 1
      BY <3>2
    <3>6. \A i \in 1 .. m : h[i] = g[i]
      BY <3>3, <3>5
    <3>7. \A i \in 1 .. m + 1 : h[i] = IF i = 1 THEN ss[i] ELSE g[i - 1] \o ss[i]
      OBVIOUS
    <3>8. h = [i \in 1 .. m + 1 |-> h[i]]
      OBVIOUS
    <3>. HIDE DEF h
    <3>9. \A i \in 1 .. m + 1 : h[i] = IF i = 1 THEN ss[i] ELSE h[i - 1] \o ss[i]
      BY <3>4, <3>6, <3>7
    <3>10. Flat(m + 1, h)
      BY <3>8, <3>9
    <3>. HIDE DEF Flat
    <3>. QED BY <3>2, <3>10
  <2>3. Good \in SUBSET Nat
    OBVIOUS
  <2>. HIDE DEF Good
  <2>4. Good = Nat
    BY <2>1, <2>2, <2>3, NumberInduction
  <2>. HIDE DEF Flat
  <2>. QED BY <2>4 DEF Good
<1>3. CASE size = 0
  <2>1. ss = <<>> /\ flat = ss
    BY <1>3 DEF Seqs!FlattenSeq
  <2>. HIDE DEF flat
  <2>2. flat = <<>> /\ flat \in Seq(A) /\ DOMAIN flat = {} /\ DOMAIN ss = {}
    BY <2>1
  <2>3. Places(ss) = {}
    BY <2>2, NoPlaces
  <2>4. [p \in {} |-> p] \in Bijection({}, {})
    BY DEF Bijection, Injection, Surjection, IsInjective
  <2>5. \E b \in Bijection(DOMAIN flat, Places(ss)) : \A p \in DOMAIN flat : flat[p] = ss[b[p][1]][b[p][2]]
    BY <2>2, <2>3, <2>4
  <2>. QED BY <2>2, <2>5 DEF flat
<1>4. CASE size # 0
  <2>. DEFINE g == CHOOSE f : Flat(size, f)
  <2>1. Flat(size, g)
    <3>1. \E f : Flat(size, f)
      BY <1>1, <1>2
    <3>. HIDE DEF Flat
    <3>. QED BY <3>1
  <2>2. flat = g[size]
    BY <1>4 DEF Seqs!FlattenSeq
  <2>3. \A i \in 1 .. size : g[i] = IF i = 1 THEN ss[i] ELSE g[i - 1] \o ss[i]
    BY <2>1
  <2>. HIDE DEF g
  <2>. HIDE DEF Matches
  <2>. DEFINE Good == {m \in Nat : m + 1 \in 1 .. size => Matches(g[m + 1], m + 1)}
  <2>4. 0 \in Good
    <3>1. SUFFICES ASSUME 1 \in 1 .. size PROVE Matches(g[1], 1)
      OBVIOUS
    <3>2. g[1] = ss[1] /\ ss[1] \in Seq(A)
      BY <1>1, <2>3, <3>1
    <3>. DEFINE t == ss[1]
                b == [p \in DOMAIN t |-> <<1, p>>]
    <3>3. \A x : x \in Upto(1) <=> \E p \in DOMAIN t : x = <<1, p>>
      <4>1. DOMAIN t \subseteq Nat /\ 1 .. 1 = {1}
        BY <3>2
      <4>. HIDE DEF t
      <4>. QED BY <4>1 DEF t
    <3>4. b \in Bijection(DOMAIN t, Upto(1))
      <4>1. \A p \in DOMAIN t : b[p] = <<1, p>> /\ <<1, p>> \in Upto(1)
        BY <3>3
      <4>2. \A x \in Upto(1) : \E p \in DOMAIN t : x = <<1, p>>
        BY <3>3
      <4>3. b = [p \in DOMAIN t |-> b[p]]
        OBVIOUS
      <4>4. \A p, q : <<1, p>> = <<1, q>> => p = q
        OBVIOUS
      <4>. HIDE DEF b, Upto, t
      <4>5. b \in [DOMAIN t -> Upto(1)]
        BY <4>1, <4>3
      <4>6. \A p, q \in DOMAIN t : b[p] = b[q] => p = q
        BY <4>1, <4>4
      <4>7. \A x \in Upto(1) : \E p \in DOMAIN t : b[p] = x
        BY <4>1, <4>2
      <4>. QED BY <4>5, <4>6, <4>7 DEF Bijection, Injection, Surjection, IsInjective
    <3>5. \A p \in DOMAIN t : t[p] = ss[b[p][1]][b[p][2]]
      OBVIOUS
    <3>. HIDE DEF b, Upto
    <3>6. Matches(t, 1)
      BY <3>2, <3>4, <3>5 DEF Matches
    <3>. QED BY <3>2, <3>6
  <2>5. ASSUME NEW m \in Good PROVE m + 1 \in Good
    <3>. SUFFICES ASSUME (m + 1) + 1 \in 1 .. size PROVE Matches(g[(m + 1) + 1], (m + 1) + 1)
      OBVIOUS
    <3>. DEFINE k == m + 1
                s == g[k]
                t == ss[k + 1]
    <3>1. k \in Nat /\ k \in 1 .. size /\ k + 1 \in 1 .. size
      BY <1>1
    <3>2. Matches(s, k)
      BY <3>1
    <3>3. g[k + 1] = s \o t
      <4>1. (k + 1) - 1 = k /\ k + 1 # 1
        BY <3>1
      <4>. HIDE DEF k
      <4>. QED BY <2>3, <3>1, <4>1
    <3>4. s \in Seq(A) /\ t \in Seq(A)
      BY <1>1, <3>1, <3>2 DEF Matches
    <3>5. PICK b \in Bijection(DOMAIN s, Upto(k)) : \A p \in DOMAIN s : s[p] = ss[b[p][1]][b[p][2]]
      BY <3>2 DEF Matches
    <3>19. t = ss[k + 1]
      OBVIOUS
    <3>. HIDE DEF s, t
    <3>. DEFINE both == s \o t
                c == [p \in DOMAIN both |-> IF p <= Len(s) THEN b[p] ELSE <<k + 1, p - Len(s)>>]
    <3>6. /\ DOMAIN s = 1 .. Len(s) /\ Len(s) \in Nat /\ DOMAIN t = 1 .. Len(t) /\ Len(t) \in Nat
          /\ DOMAIN both = 1 .. Len(s) + Len(t) /\ both \in Seq(A)
          /\ \A p \in 1 .. Len(s) : both[p] = s[p]
          /\ \A p \in 1 .. Len(t) : both[Len(s) + p] = t[p]
      BY <3>4
    <3>7. /\ \A x \in Upto(k + 1) : x \in Upto(k) \/ \E p \in DOMAIN t : x = <<k + 1, p>>
          /\ \A x \in Upto(k) : x \in Upto(k + 1) /\ x[1] \in 1 .. k
          /\ \A p \in DOMAIN t : <<k + 1, p>> \in Upto(k + 1)
      <4>1. \A p \in DOMAIN t : p \in Nat
        BY <3>6
      <4>2. \A x \in Upto(k + 1) : x \in Upto(k) \/ (x = <<k + 1, x[2]>> /\ x[2] \in DOMAIN t)
        BY <3>1 DEF t
      <4>3. \A x \in Upto(k) : x \in Upto(k + 1) /\ x[1] \in 1 .. k
        BY <3>1
      <4>4. \A p \in DOMAIN t : <<k + 1, p>> \in Upto(k + 1)
        BY <3>1, <4>1 DEF t
      <4>. QED BY <4>2, <4>3, <4>4
    <3>8. b \in [DOMAIN s -> Upto(k)] /\ (\A p, q \in DOMAIN s : b[p] = b[q] => p = q)
          /\ \A x \in Upto(k) : \E p \in DOMAIN s : b[p] = x
      BY <3>5 DEF Bijection, Injection, Surjection, IsInjective
    <3>. HIDE DEF both, s, t, k, Upto
    <3>9. /\ \A p \in 1 .. Len(s) : p \in DOMAIN both /\ c[p] = b[p]
          /\ \A p \in 1 .. Len(t) : Len(s) + p \in DOMAIN both /\ c[Len(s) + p] = <<k + 1, p>>
      <4>. DEFINE ls == Len(s)
                  lt == Len(t)
      <4>1. ls \in Nat /\ lt \in Nat /\ DOMAIN both = 1 .. ls + lt
        BY <3>6
      <4>2. c = [p \in DOMAIN both |-> IF p <= ls THEN b[p] ELSE <<k + 1, p - ls>>]
        OBVIOUS
      <4>. HIDE DEF ls, lt, c
      <4>3. ASSUME NEW p \in 1 .. ls PROVE p \in DOMAIN both /\ c[p] = b[p]
        BY <4>1, <4>2
      <4>4. ASSUME NEW p \in 1 .. lt PROVE ls + p \in DOMAIN both /\ c[ls + p] = <<k + 1, p>>
        <5>. DEFINE z == ls + p
        <5>1. z \in DOMAIN both /\ ~(z <= ls) /\ z - ls = p
          BY <4>1
        <5>. HIDE DEF z
        <5>2. c[z] = <<k + 1, z - ls>>
          BY <4>2, <5>1
        <5>. QED BY <5>1, <5>2 DEF z
      <4>. QED BY <4>3, <4>4 DEF ls, lt
    <3>10. \A p \in DOMAIN both : p \in 1 .. Len(s) \/ \E q \in 1 .. Len(t) : p = Len(s) + q
      <4>. TAKE p \in DOMAIN both
      <4>1. Len(s) \in Nat /\ Len(t) \in Nat /\ p \in 1 .. Len(s) + Len(t)
        BY <3>6
      <4>2. CASE p <= Len(s)
        BY <4>1, <4>2
      <4>3. CASE p > Len(s)
        <5>. DEFINE q == p - Len(s)
        <5>1. q \in 1 .. Len(t) /\ p = Len(s) + q
          BY <4>1, <4>3
        <5>. QED BY <5>1
      <4>. QED BY <4>1, <4>2, <4>3
    <3>11. DOMAIN c = DOMAIN both /\ c = [p \in DOMAIN c |-> c[p]]
      OBVIOUS
    <3>. HIDE DEF c
    <3>12. c \in [DOMAIN both -> Upto(k + 1)]
      <4>1. \A p \in 1 .. Len(s) : c[p] \in Upto(k + 1)
        BY <3>6, <3>7, <3>8, <3>9
      <4>2. \A p \in 1 .. Len(t) : c[Len(s) + p] \in Upto(k + 1)
        BY <3>6, <3>7, <3>9
      <4>3. \A p \in DOMAIN both : c[p] \in Upto(k + 1)
        BY <3>10, <4>1, <4>2
      <4>. QED BY <3>11, <4>3
    <3>13. ASSUME NEW p \in DOMAIN both, NEW q \in DOMAIN both, c[p] = c[q] PROVE p = q
      <4>1. CASE p \in 1 .. Len(s) /\ q \in 1 .. Len(s)
        BY <3>6, <3>8, <3>9, <3>13, <4>1
      <4>2. CASE \E x, y \in 1 .. Len(t) : p = Len(s) + x /\ q = Len(s) + y
        <5>1. PICK x \in 1 .. Len(t), y \in 1 .. Len(t) : p = Len(s) + x /\ q = Len(s) + y
          BY <4>2
        <5>2. <<k + 1, x>> = <<k + 1, y>>
          BY <3>9, <3>13, <5>1
        <5>. QED BY <5>1, <5>2
      <4>3. ASSUME NEW x \in 1 .. Len(s), NEW y \in 1 .. Len(t), c[x] = c[Len(s) + y] PROVE FALSE
        <5>1. b[x] = <<k + 1, y>> /\ b[x] \in Upto(k)
          BY <3>6, <3>8, <3>9, <4>3
        <5>2. b[x][1] \in 1 .. k
          BY <3>7, <5>1
        <5>. QED BY <3>1, <5>1, <5>2
      <4>. QED BY <3>10, <3>13, <4>1, <4>2, <4>3
    <3>14. ASSUME NEW x \in Upto(k + 1) PROVE \E p \in DOMAIN both : c[p] = x
      <4>1. CASE x \in Upto(k)
        BY <3>6, <3>8, <3>9, <4>1
      <4>2. CASE \E p \in DOMAIN t : x = <<k + 1, p>>
        BY <3>6, <3>9, <4>2
      <4>. QED BY <3>7, <4>1, <4>2
    <3>15. \A p \in DOMAIN both : both[p] = ss[c[p][1]][c[p][2]]
      <4>1. \A p \in 1 .. Len(s) : both[p] = ss[c[p][1]][c[p][2]]
        BY <3>5, <3>6, <3>9
      <4>2. \A p \in 1 .. Len(t) : both[Len(s) + p] = ss[c[Len(s) + p][1]][c[Len(s) + p][2]]
        <5>. SUFFICES ASSUME NEW p \in 1 .. Len(t)
                      PROVE  both[Len(s) + p] = ss[c[Len(s) + p][1]][c[Len(s) + p][2]]
          OBVIOUS
        <5>1. c[Len(s) + p][1] = k + 1 /\ c[Len(s) + p][2] = p
          BY <3>9
        <5>2. both[Len(s) + p] = t[p]
          BY <3>6
        <5>. QED BY <3>19, <5>1, <5>2
      <4>. QED BY <3>10, <4>1, <4>2
    <3>16. c \in Bijection(DOMAIN both, Upto(k + 1))
      BY <3>12, <3>13, <3>14 DEF Bijection, Injection, Surjection, IsInjective
    <3>17. Matches(both, k + 1)
      BY <3>6, <3>15, <3>16 DEF Matches
    <3>18. g[k + 1] = both
      BY <3>3 DEF both
    <3>. QED BY <3>17, <3>18 DEF k
  <2>6. Good \in SUBSET Nat
    OBVIOUS
  <2>7. size - 1 \in Good
    <3>. HIDE DEF Good
    <3>1. Good = Nat
      BY <2>4, <2>5, <2>6, NumberInduction
    <3>. QED BY <1>1, <1>4, <3>1
  <2>8. Matches(g[size], size)
    <3>1. (size - 1) + 1 = size /\ size \in 1 .. size
      BY <1>1, <1>4
    <3>. HIDE DEF size
    <3>. QED BY <2>7, <3>1
  <2>9. Upto(size) = Places(ss)
    <3>1. 1 .. size = DOMAIN ss
      BY <1>1
    <3>. HIDE DEF size
    <3>. QED BY <3>1, PlacesAre
  <2>. HIDE DEF flat, Upto, size
  <2>10. flat \in Seq(A) /\ \E b \in Bijection(DOMAIN flat, Places(ss)) :
                              \A p \in DOMAIN flat : flat[p] = ss[b[p][1]][b[p][2]]
    BY <2>2, <2>8, <2>9 DEF Matches
  <2>. QED BY <2>10 DEF flat
<1>. HIDE DEF flat
<1>. QED BY <1>3, <1>4 DEF flat

\* f takes S to T, one to one.
Pairs(f, S, T) ==
    /\ f \in [S -> T]
    /\ \A a, b \in S : f[a] = f[b] => a = b
    /\ \A t \in T : \E a \in S : f[a] = t

\* A bijection of the library does.
LEMMA BijectionsPair == ASSUME NEW S, NEW T, NEW f \in Bijection(S, T) PROVE Pairs(f, S, T)
BY DEF Pairs, Bijection, Injection, Surjection, IsInjective

-----------------------------------------------------------------------------
(* What a node touches when it enters or leaves the window. *)

\* The slots of u that lead to another node v.
SlotsTo(u, v) == {s \in Slots : links[u][s] = v /\ u # v}

\* The links to v from others.
LinksInto(v) == {e \in Nodes \X Slots : links[e[1]][e[2]] = v /\ e[1] # v}

\* A node is in the table of another as often as there are slots with it.
LEMMA SlotsCounted ==
    ASSUME TablesOK, NEW u \in Nodes, NEW v \in Nodes
    PROVE  IsFiniteSet(SlotsTo(u, v)) /\ Cardinality(SlotsTo(u, v)) = Count(table[u], v)
<1>. DEFINE t == table[u]
            S == {i \in DOMAIN t : t[i] = v}
<1>1. t \in Seq(Nodes) /\ ListsSlots(links, u, t)
  BY DEF TablesOK
<1>. HIDE DEF t
<1>2. PICK f : f \in Bijection(DOMAIN t, Used(links, u)) /\ \A i \in DOMAIN t : t[i] = links[u][f[i]]
  BY <1>1 DEF ListsSlots
<1>3. Pairs(f, DOMAIN t, Used(links, u))
  BY <1>2, BijectionsPair
<1>. DEFINE h == [i \in S |-> f[i]]
<1>4. \A i \in S : h[i] = f[i] /\ f[i] \in SlotsTo(u, v)
  BY <1>2, <1>3 DEF Pairs, Used, SlotsTo
<1>5. \A s \in SlotsTo(u, v) : \E i \in S : h[i] = s
  <2>1. ASSUME NEW s \in SlotsTo(u, v) PROVE \E i \in S : f[i] = s
    <3>1. s \in Used(links, u) /\ links[u][s] = v
      BY DEF SlotsTo, Used
    <3>. QED BY <1>2, <1>3, <3>1 DEF Pairs
  <2>. QED BY <1>4, <2>1
<1>6. h \in [S -> SlotsTo(u, v)]
  BY <1>4
<1>7. \A a, b \in S : h[a] = h[b] => a = b
  BY <1>3, <1>4 DEF Pairs
<1>8. IsFiniteSet(S)
  BY <1>1, CountIsNumber
<1>. HIDE DEF h, S
<1>9. IsFiniteSet(SlotsTo(u, v)) /\ Cardinality(SlotsTo(u, v)) = Cardinality(S)
  BY <1>5, <1>6, <1>7, <1>8, SameSize
<1>. QED BY <1>9 DEF Count, S, t

\* The table of in-edges has an entry for every link.
LEMMA InEdgesAre ==
    ASSUME TablesOK, NEW v \in Nodes
    PROVE  /\ InEdges(v) \in Seq(Nodes)
           /\ \E f : /\ Pairs(f, DOMAIN InEdges(v), LinksInto(v))
                     /\ \A i \in DOMAIN InEdges(v) : InEdges(v)[i] = f[i][1]
<1>. DEFINE ss == [u \in 1 .. NumNodes |->
                      [i \in 1 .. Cardinality({j \in DOMAIN table[u - 1] : table[u - 1][j] = v}) |-> u - 1]]
            In == InEdges(v)
            h == [u \in Nodes |-> CHOOSE x : Pairs(x, 1 .. Count(table[u], v), SlotsTo(u, v))]
<1>1. NumNodes \in Nat /\ Nodes = 0 .. NumNodes - 1
  BY RelabelSizes DEF Nodes
<1>2. \A u \in Nodes : Count(table[u], v) \in Nat
  BY CountIsNumber DEF TablesOK
<1>3. \A u \in 1 .. NumNodes : /\ u - 1 \in Nodes
                               /\ ss[u] = [i \in 1 .. Count(table[u - 1], v) |-> u - 1]
  BY <1>1 DEF Count
<1>4. ss \in Seq(Seq(Nodes)) /\ DOMAIN ss = 1 .. NumNodes
  <2>1. \A u \in 1 .. NumNodes : ss[u] \in Seq(Nodes)
    <3>. SUFFICES ASSUME NEW u \in 1 .. NumNodes PROVE ss[u] \in Seq(Nodes)
      OBVIOUS
    <3>. DEFINE size == Count(table[u - 1], v)
    <3>1. size \in Nat /\ u - 1 \in Nodes /\ ss[u] = [i \in 1 .. size |-> u - 1]
      BY <1>2, <1>3
    <3>. HIDE DEF ss, size
    <3>. QED BY <3>1
  <2>. QED BY <1>1, <2>1
<1>5. \A u \in Nodes : Pairs(h[u], 1 .. Count(table[u], v), SlotsTo(u, v))
  <2>. SUFFICES ASSUME NEW u \in Nodes PROVE \E x : Pairs(x, 1 .. Count(table[u], v), SlotsTo(u, v))
    OBVIOUS
  <2>1. ExistsBijection(1 .. Cardinality(SlotsTo(u, v)), SlotsTo(u, v))
    BY SlotsCounted, FS_CardinalityType
  <2>2. PICK x : x \in Bijection(1 .. Count(table[u], v), SlotsTo(u, v))
    BY <2>1, SlotsCounted DEF ExistsBijection
  <2>. QED BY <2>2, BijectionsPair
<1>6. In = Seqs!FlattenSeq(ss)
  BY DEF InEdges
<1>. HIDE DEF ss, h, In
<1>7. In \in Seq(Nodes) /\ \E b \in Bijection(DOMAIN In, Places(ss)) :
                              \A p \in DOMAIN In : In[p] = ss[b[p][1]][b[p][2]]
  BY <1>4, <1>6, FlattenedList
<1>8. PICK b : b \in Bijection(DOMAIN In, Places(ss)) /\ \A p \in DOMAIN In : In[p] = ss[b[p][1]][b[p][2]]
  BY <1>7
<1>9. Pairs(b, DOMAIN In, Places(ss))
  BY <1>8, BijectionsPair
<1>10. \A x : x \in Places(ss) <=> /\ x = <<x[1], x[2]>> /\ x[1] \in 1 .. NumNodes
                                   /\ x[2] \in 1 .. Count(table[x[1] - 1], v)
  <2>1. \A x \in 1 .. NumNodes : DOMAIN ss[x] = 1 .. Count(table[x - 1], v) /\ Count(table[x - 1], v) \in Nat
    BY <1>2, <1>3
  <2>. QED BY <1>4, <2>1 DEF Places
<1>. DEFINE f == [p \in DOMAIN In |-> <<b[p][1] - 1, h[b[p][1] - 1][b[p][2]]>>]
<1>11. ASSUME NEW p \in DOMAIN In
       PROVE  /\ b[p] = <<b[p][1], b[p][2]>> /\ b[p][1] \in 1 .. NumNodes /\ b[p][1] - 1 \in Nodes
              /\ b[p][2] \in 1 .. Count(table[b[p][1] - 1], v)
              /\ In[p] = b[p][1] - 1
  <2>1. b[p] \in Places(ss)
    BY <1>9 DEF Pairs
  <2>2. b[p] = <<b[p][1], b[p][2]>> /\ b[p][1] \in 1 .. NumNodes /\ b[p][2] \in 1 .. Count(table[b[p][1] - 1], v)
    BY <1>10, <2>1
  <2>3. In[p] = ss[b[p][1]][b[p][2]]
    BY <1>8
  <2>. QED BY <1>3, <2>2, <2>3
<1>12. \A p \in DOMAIN In : f[p][1] = In[p] /\ f[p] \in LinksInto(v)
  <2>. SUFFICES ASSUME NEW p \in DOMAIN In PROVE f[p][1] = In[p] /\ f[p] \in LinksInto(v)
    OBVIOUS
  <2>. DEFINE u == b[p][1] - 1
              i == b[p][2]
  <2>1. u \in Nodes /\ i \in 1 .. Count(table[u], v) /\ In[p] = u /\ f[p] = <<u, h[u][i]>>
    BY <1>11
  <2>. HIDE DEF u, i, f
  <2>2. h[u][i] \in SlotsTo(u, v)
    <3>1. Pairs(h[u], 1 .. Count(table[u], v), SlotsTo(u, v))
      BY <1>5, <2>1
    <3>2. h[u] \in [1 .. Count(table[u], v) -> SlotsTo(u, v)]
      BY <3>1 DEF Pairs
    <3>. QED BY <2>1, <3>2
  <2>3. h[u][i] \in Slots /\ links[u][h[u][i]] = v /\ u # v
    BY <2>2 DEF SlotsTo
  <2>. DEFINE x == h[u][i]
  <2>. HIDE DEF x
  <2>4. <<u, x>> \in LinksInto(v)
    BY <2>1, <2>3 DEF LinksInto, x
  <2>. QED BY <2>1, <2>4 DEF x
<1>13. ASSUME NEW p \in DOMAIN In, NEW q \in DOMAIN In, f[p] = f[q] PROVE p = q
  <2>1. b[p][1] - 1 = b[q][1] - 1 /\ h[b[p][1] - 1][b[p][2]] = h[b[q][1] - 1][b[q][2]]
    BY <1>13
  <2>2. b[p][1] \in Int /\ b[q][1] \in Int
    BY <1>11
  <2>3. b[p][1] = b[q][1]
    BY <2>1, <2>2
  <2>4. b[p][2] = b[q][2]
    BY <1>5, <1>11, <2>1, <2>3 DEF Pairs
  <2>5. b[p] = b[q]
    BY <1>11, <2>3, <2>4
  <2>. QED BY <1>9, <2>5 DEF Pairs
<1>14. ASSUME NEW e \in LinksInto(v) PROVE \E p \in DOMAIN In : f[p] = e
  <2>1. e = <<e[1], e[2]>> /\ e[1] \in Nodes /\ e[2] \in SlotsTo(e[1], v)
    BY DEF LinksInto, SlotsTo
  <2>2. PICK i \in 1 .. Count(table[e[1]], v) : h[e[1]][i] = e[2]
    BY <1>5, <2>1 DEF Pairs
  <2>3. e[1] + 1 \in 1 .. NumNodes /\ (e[1] + 1) - 1 = e[1]
    BY <1>1, <2>1
  <2>4. <<e[1] + 1, i>> \in Places(ss)
    BY <1>10, <2>3
  <2>5. PICK p \in DOMAIN In : b[p] = <<e[1] + 1, i>>
    BY <1>9, <2>4 DEF Pairs
  <2>6. f[p] = <<e[1], h[e[1]][i]>>
    BY <2>3, <2>5
  <2>. QED BY <2>1, <2>2, <2>6
<1>15. f \in [DOMAIN In -> LinksInto(v)]
  BY <1>12
<1>. HIDE DEF f
<1>16. Pairs(f, DOMAIN In, LinksInto(v))
  BY <1>13, <1>14, <1>15 DEF Pairs
<1>. QED BY <1>7, <1>12, <1>16 DEF In

\* The pairs of links from one node to both v and k, which are others.
Common(v, k) ==
    {e \in Nodes \X Slots \X Slots :
        links[e[1]][e[2]] = v /\ e[1] # v /\ links[e[1]][e[3]] = k /\ e[1] # k}

\* The two parts of what the in-edges touch: the sources and what they list.
LEMMA SourcesTouched ==
    ASSUME NEW v \in Nodes, NEW In \in Seq(Nodes), NEW T \in [Nodes -> Seq(Nodes)], NEW k \in Nodes
    PROVE  LET ss == [i \in 1 .. Len(In) |-> <<In[i]>> \o T[In[i]]]
           IN  /\ Seqs!FlattenSeq(ss) \in Seq(Nodes)
               /\ Count(Seqs!FlattenSeq(ss), k) =
                      Count(In, k) + Cardinality({x \in (DOMAIN In) \X Nat : x[2] \in DOMAIN T[In[x[1]]] /\ T[In[x[1]]][x[2]] = k})
               /\ IsFiniteSet({x \in (DOMAIN In) \X Nat : x[2] \in DOMAIN T[In[x[1]]] /\ T[In[x[1]]][x[2]] = k})
<1>. DEFINE ss == [i \in 1 .. Len(In) |-> <<In[i]>> \o T[In[i]]]
            flat == Seqs!FlattenSeq(ss)
            X == {x \in (DOMAIN In) \X Nat : x[2] \in DOMAIN T[In[x[1]]] /\ T[In[x[1]]][x[2]] = k}
            A == {i \in DOMAIN In : In[i] = k}
            S == {p \in DOMAIN flat : flat[p] = k}
<1>1. DOMAIN In = 1 .. Len(In) /\ Len(In) \in Nat /\ \A i \in DOMAIN In : In[i] \in Nodes
  OBVIOUS
<1>2. ASSUME NEW i \in DOMAIN In
      PROVE  /\ ss[i] \in Seq(Nodes)
             /\ DOMAIN ss[i] = 1 .. Len(T[In[i]]) + 1 /\ DOMAIN T[In[i]] = 1 .. Len(T[In[i]]) /\ Len(T[In[i]]) \in Nat
             /\ ss[i][1] = In[i]
             /\ \A j \in DOMAIN T[In[i]] : ss[i][j + 1] = T[In[i]][j]
  <2>. DEFINE u == In[i]
              t == T[In[i]]
  <2>1. u \in Nodes /\ t \in Seq(Nodes) /\ ss[i] = <<u>> \o t
    BY <1>1
  <2>. HIDE DEF u, t, ss
  <2>2. /\ ss[i] \in Seq(Nodes) /\ DOMAIN ss[i] = 1 .. Len(t) + 1 /\ DOMAIN t = 1 .. Len(t) /\ Len(t) \in Nat
        /\ ss[i][1] = u /\ \A j \in 1 .. Len(t) : ss[i][j + 1] = t[j]
    BY <2>1
  <2>. QED BY <2>2 DEF u, t
<1>3. ss \in Seq(Seq(Nodes)) /\ DOMAIN ss = DOMAIN In
  <2>1. \A i \in 1 .. Len(In) : ss[i] \in Seq(Nodes)
    BY <1>1, <1>2
  <2>2. DOMAIN ss = 1 .. Len(In)
    OBVIOUS
  <2>. QED BY <1>1, <2>1, <2>2
<1>. HIDE DEF ss
<1>4. flat \in Seq(Nodes) /\ \E b \in Bijection(DOMAIN flat, Places(ss)) :
                                 \A p \in DOMAIN flat : flat[p] = ss[b[p][1]][b[p][2]]
  BY <1>3, FlattenedList
<1>. HIDE DEF flat
<1>5. PICK b : b \in Bijection(DOMAIN flat, Places(ss)) /\ \A p \in DOMAIN flat : flat[p] = ss[b[p][1]][b[p][2]]
  BY <1>4
<1>6. Pairs(b, DOMAIN flat, Places(ss))
  BY <1>5, BijectionsPair
<1>. DEFINE len(i) == Len(T[In[i]])
<1>17. \A i \in DOMAIN In : DOMAIN ss[i] = 1 .. len(i) + 1 /\ len(i) \in Nat
  BY <1>2
<1>7. /\ \A x \in Places(ss) : x = <<x[1], x[2]>> /\ x[1] \in DOMAIN In /\ x[2] \in 1 .. len(x[1]) + 1
      /\ \A i \in DOMAIN In : \A j \in 1 .. len(i) + 1 : <<i, j>> \in Places(ss)
  <2>. DEFINE D == DOMAIN In
  <2>1. DOMAIN ss = D /\ \A i \in D : DOMAIN ss[i] = 1 .. len(i) + 1 /\ len(i) \in Nat
    BY <1>3, <1>17
  <2>. HIDE DEF D, len
  <2>2. Places(ss) = {x \in D \X Nat : x[2] \in DOMAIN ss[x[1]]}
    BY <2>1 DEF Places
  <2>3. ASSUME NEW x \in Places(ss)
        PROVE  x = <<x[1], x[2]>> /\ x[1] \in D /\ x[2] \in 1 .. len(x[1]) + 1
    <3>1. x \in D \X Nat /\ x[2] \in DOMAIN ss[x[1]]
      BY <2>2
    <3>. QED BY <2>1, <3>1
  <2>4. ASSUME NEW i \in D, NEW j \in 1 .. len(i) + 1 PROVE <<i, j>> \in Places(ss)
    <3>1. j \in Nat /\ j \in DOMAIN ss[i]
      BY <2>1
    <3>2. <<i, j>> \in D \X Nat
      BY <3>1
    <3>. QED BY <2>2, <3>1, <3>2
  <2>. QED BY <2>3, <2>4 DEF D
<1>. HIDE DEF len
<1>8. \A p \in DOMAIN flat : b[p] \in Places(ss) /\ flat[p] = ss[b[p][1]][b[p][2]]
  BY <1>5, <1>6 DEF Pairs
<1>9. \A p, q \in DOMAIN flat : b[p] = b[q] => p = q
  BY <1>6 DEF Pairs
<1>10. \A x \in Places(ss) : \E p \in DOMAIN flat : b[p] = x
  BY <1>6 DEF Pairs
<1>. DEFINE S1 == {p \in S : b[p][2] = 1}
            S2 == {p \in S : b[p][2] # 1}
            f1 == [p \in S1 |-> b[p][1]]
            f2 == [p \in S2 |-> <<b[p][1], b[p][2] - 1>>]
<1>11. IsFiniteSet(S) /\ IsFiniteSet(S1) /\ IsFiniteSet(S2) /\ S = S1 \cup S2 /\ S1 \cap S2 = {}
  <2>1. IsFiniteSet(S)
    BY <1>4, CountIsNumber
  <2>. HIDE DEF S
  <2>2. S1 \in SUBSET S /\ S2 \in SUBSET S
    OBVIOUS
  <2>3. S = S1 \cup S2 /\ S1 \cap S2 = {}
    OBVIOUS
  <2>. HIDE DEF S1, S2
  <2>. QED BY <2>1, <2>2, <2>3, FS_Subset
<1>12. Cardinality(S) = Cardinality(S1) + Cardinality(S2)
  <2>. HIDE DEF S, S1, S2
  <2>. QED BY <1>11, TwoParts
<1>13. Cardinality(A) = Cardinality(S1)
  <2>1. ASSUME NEW p \in S1 PROVE f1[p] \in A
    <3>1. b[p][1] \in DOMAIN In /\ b[p][2] = 1 /\ ss[b[p][1]][b[p][2]] = k
      BY <1>7, <1>8
    <3>2. ss[b[p][1]][1] = k
      BY <3>1
    <3>. QED BY <1>2, <3>1, <3>2
  <2>2. \A p, q \in S1 : f1[p] = f1[q] => p = q
    <3>1. ASSUME NEW p \in S1, NEW q \in S1, b[p][1] = b[q][1] PROVE p = q
      <4>1. b[p] = <<b[p][1], b[p][2]>> /\ b[q] = <<b[q][1], b[q][2]>> /\ b[p][2] = b[q][2]
        BY <1>7, <1>8
      <4>2. b[p] = b[q]
        BY <3>1, <4>1
      <4>. QED BY <1>9, <4>2
    <3>. QED BY <3>1
  <2>3. \A i \in A : \E p \in S1 : f1[p] = i
    <3>1. ASSUME NEW i \in A PROVE \E p \in S1 : b[p][1] = i
      <4>1. <<i, 1>> \in Places(ss)
        <5>1. i \in DOMAIN In
          OBVIOUS
        <5>2. 1 \in 1 .. len(i) + 1
          BY <1>17, <5>1
        <5>. QED BY <1>7, <5>1, <5>2
      <4>2. PICK p \in DOMAIN flat : b[p] = <<i, 1>>
        BY <1>10, <4>1
      <4>3. flat[p] = ss[i][1]
        <5>1. flat[p] = ss[b[p][1]][b[p][2]]
          BY <1>8
        <5>2. b[p][1] = i /\ b[p][2] = 1
          BY <4>2
        <5>. QED BY <5>1, <5>2
      <4>4. b[p][1] = i /\ b[p][2] = 1
        BY <4>2
      <4>5. flat[p] = k
        BY <1>2, <4>3
      <4>. QED BY <4>4, <4>5
    <3>. QED BY <3>1
  <2>4. f1 \in [S1 -> A]
    BY <2>1
  <2>. HIDE DEF f1, S1, A
  <2>. QED BY <1>11, <2>2, <2>3, <2>4, SameSize
<1>14. IsFiniteSet(X) /\ Cardinality(X) = Cardinality(S2)
  <2>1. ASSUME NEW p \in S2 PROVE f2[p] \in X
    <3>. DEFINE i == b[p][1]
                j == b[p][2]
    <3>1. i \in DOMAIN In /\ j \in 1 .. Len(T[In[i]]) + 1 /\ j # 1 /\ ss[i][j] = k
      BY <1>7, <1>8 DEF len
    <3>. HIDE DEF i, j
    <3>2. j - 1 \in DOMAIN T[In[i]] /\ (j - 1) + 1 = j /\ j - 1 \in Nat
      BY <1>2, <3>1
    <3>3. T[In[i]][j - 1] = k
      BY <1>2, <3>1, <3>2
    <3>4. <<i, j - 1>> \in X
      BY <3>1, <3>2, <3>3
    <3>. HIDE DEF X
    <3>. QED BY <3>4 DEF i, j
  <2>2. \A p, q \in S2 : f2[p] = f2[q] => p = q
    <3>1. ASSUME NEW p \in S2, NEW q \in S2, b[p][1] = b[q][1], b[p][2] - 1 = b[q][2] - 1 PROVE p = q
      <4>1. b[p][2] \in Int /\ b[q][2] \in Int
        BY <1>7, <1>8, <1>17
      <4>2. b[p] = <<b[p][1], b[p][2]>> /\ b[q] = <<b[q][1], b[q][2]>>
        BY <1>7, <1>8
      <4>3. b[p][2] = b[q][2]
        <5>1. \A l, m \in Int : l - 1 = m - 1 => l = m
          OBVIOUS
        <5>. QED BY <3>1, <4>1, <5>1, Zenon
      <4>4. b[p] = b[q]
        BY <3>1, <4>2, <4>3
      <4>. QED BY <1>9, <4>4
    <3>. QED BY <3>1
  <2>3. ASSUME NEW x \in X PROVE \E p \in S2 : f2[p] = x
    <3>1. x = <<x[1], x[2]>> /\ x[1] \in DOMAIN In /\ x[2] \in DOMAIN T[In[x[1]]] /\ T[In[x[1]]][x[2]] = k
      OBVIOUS
    <3>2. x[2] + 1 \in 1 .. Len(T[In[x[1]]]) + 1 /\ x[2] + 1 # 1 /\ (x[2] + 1) - 1 = x[2]
      BY <1>2, <3>1
    <3>3. <<x[1], x[2] + 1>> \in Places(ss)
      BY <1>7, <3>1, <3>2 DEF len
    <3>4. PICK p \in DOMAIN flat : b[p] = <<x[1], x[2] + 1>>
      BY <1>10, <3>3
    <3>5. flat[p] = ss[x[1]][x[2] + 1]
      <4>1. flat[p] = ss[b[p][1]][b[p][2]]
        BY <1>8
      <4>2. b[p][1] = x[1] /\ b[p][2] = x[2] + 1
        BY <3>4
      <4>. QED BY <4>1, <4>2
    <3>6. p \in S2
      <4>1. flat[p] = k
        BY <1>2, <3>1, <3>5
      <4>2. b[p][2] # 1
        BY <3>2, <3>4
      <4>. QED BY <4>1, <4>2
    <3>7. f2[p] = <<x[1], (x[2] + 1) - 1>>
      BY <3>4, <3>6
    <3>. QED BY <3>1, <3>2, <3>6, <3>7
  <2>4. f2 \in [S2 -> X]
    BY <2>1
  <2>. HIDE DEF f2, S2, X
  <2>. QED BY <1>11, <2>2, <2>3, <2>4, SameSize
<1>15. Count(flat, k) = Cardinality(S) /\ Count(In, k) = Cardinality(A)
  BY DEF Count
<1>. HIDE DEF S, S1, S2, A, X
<1>16. flat \in Seq(Nodes) /\ Count(flat, k) = Count(In, k) + Cardinality(X) /\ IsFiniteSet(X)
  BY <1>4, <1>12, <1>13, <1>14, <1>15
<1>. QED BY <1>16 DEF flat, ss, X

\* A node that enters or leaves the window touches a key once for every slot of
\* either with the other, and once for every pair of links from a third to both.
LEMMA TouchedCounts ==
    ASSUME TablesOK, NEW v \in Nodes, NEW k \in Nodes, k # v
    PROVE  /\ Touched(v) \in Seq(Nodes)
           /\ Count(Touched(v), k) =
                  Cardinality(SlotsTo(v, k)) + Cardinality(SlotsTo(k, v)) + Cardinality(Common(v, k))
           /\ IsFiniteSet(SlotsTo(v, k)) /\ IsFiniteSet(SlotsTo(k, v)) /\ IsFiniteSet(Common(v, k))
<1>. DEFINE In == InEdges(v)
            flat == Seqs!FlattenSeq([i \in 1 .. Len(In) |-> <<In[i]>> \o table[In[i]]])
            X == {x \in (DOMAIN In) \X Nat : x[2] \in DOMAIN table[In[x[1]]] /\ table[In[x[1]]][x[2]] = k}
            F == [u \in Nodes |-> CHOOSE f : /\ f \in Bijection(DOMAIN table[u], Used(links, u))
                                             /\ \A i \in DOMAIN table[u] : table[u][i] = links[u][f[i]]]
<1>1. In \in Seq(Nodes) /\ \E f : /\ Pairs(f, DOMAIN In, LinksInto(v))
                                  /\ \A i \in DOMAIN In : In[i] = f[i][1]
  BY InEdgesAre
<1>2. Touched(v) = table[v] \o flat
  BY DEF Touched
<1>. HIDE DEF In
<1>3. table \in [Nodes -> Seq(Nodes)] /\ \A i \in DOMAIN In : In[i] \in Nodes
  BY <1>1 DEF TablesOK
<1>4. flat \in Seq(Nodes) /\ Count(flat, k) = Count(In, k) + Cardinality(X) /\ IsFiniteSet(X)
  BY <1>1, <1>3, SourcesTouched
<1>. HIDE DEF flat
<1>5. table[v] \in Seq(Nodes)
  BY <1>3
<1>6. /\ Count(Touched(v), k) = Count(table[v], k) + Count(flat, k)
      /\ Touched(v) \in Seq(Nodes)
  BY <1>2, <1>4, <1>5, CountJoined
<1>7. /\ Count(table[v], k) = Cardinality(SlotsTo(v, k)) /\ IsFiniteSet(SlotsTo(v, k))
      /\ IsFiniteSet(SlotsTo(k, v)) /\ Cardinality(SlotsTo(k, v)) \in Nat
  BY SlotsCounted, FS_CardinalityType
<1>8. PICK f : Pairs(f, DOMAIN In, LinksInto(v)) /\ \A i \in DOMAIN In : In[i] = f[i][1]
  BY <1>1
<1>9. /\ \A i \in DOMAIN In : f[i] \in LinksInto(v) /\ In[i] = f[i][1]
      /\ \A i, j \in DOMAIN In : f[i] = f[j] => i = j
      /\ \A e \in LinksInto(v) : \E i \in DOMAIN In : f[i] = e
  BY <1>8 DEF Pairs
<1>10. \A e : e \in LinksInto(v) <=> /\ e = <<e[1], e[2]>> /\ e[1] \in Nodes /\ e[2] \in Slots
                                     /\ links[e[1]][e[2]] = v /\ e[1] # v
  BY DEF LinksInto
<1>11. Count(In, k) = Cardinality(SlotsTo(k, v))
  <2>. DEFINE A == {i \in DOMAIN In : In[i] = k}
              h == [i \in A |-> f[i][2]]
  <2>1. \A i \in A : f[i] = <<k, f[i][2]>> /\ f[i][2] \in SlotsTo(k, v)
    <3>1. ASSUME NEW i \in A PROVE f[i] = <<k, f[i][2]>> /\ f[i][2] \in SlotsTo(k, v)
      <4>1. f[i] \in LinksInto(v) /\ f[i][1] = k
        BY <1>9
      <4>. QED BY <1>10, <4>1 DEF SlotsTo
    <3>. QED BY <3>1
  <2>2. \A i, j \in A : h[i] = h[j] => i = j
    <3>1. ASSUME NEW i \in A, NEW j \in A, f[i][2] = f[j][2] PROVE i = j
      <4>1. f[i] = f[j]
        BY <2>1, <3>1
      <4>. QED BY <1>9, <4>1
    <3>. QED BY <3>1
  <2>3. \A s \in SlotsTo(k, v) : \E i \in A : h[i] = s
    <3>1. ASSUME NEW s \in SlotsTo(k, v) PROVE \E i \in A : f[i][2] = s
      <4>1. s \in Slots /\ links[k][s] = v
        BY DEF SlotsTo
      <4>2. <<k, s>> \in LinksInto(v)
        BY <4>1 DEF LinksInto
      <4>3. PICK i \in DOMAIN In : f[i] = <<k, s>>
        BY <1>9, <4>2
      <4>. QED BY <1>9, <4>3
    <3>. QED BY <3>1
  <2>4. h \in [A -> SlotsTo(k, v)]
    BY <2>1
  <2>5. IsFiniteSet(A)
    BY <1>1, CountIsNumber
  <2>. HIDE DEF h, A
  <2>6. Cardinality(SlotsTo(k, v)) = Cardinality(A)
    BY <2>2, <2>3, <2>4, <2>5, SameSize
  <2>. QED BY <2>6 DEF Count, A
<1>12. \A u \in Nodes : /\ Pairs(F[u], DOMAIN table[u], Used(links, u))
                        /\ \A i \in DOMAIN table[u] : table[u][i] = links[u][F[u][i]]
  <2>1. ASSUME NEW u \in Nodes
        PROVE  /\ F[u] \in Bijection(DOMAIN table[u], Used(links, u))
               /\ \A i \in DOMAIN table[u] : table[u][i] = links[u][F[u][i]]
    <3>1. \E g : /\ g \in Bijection(DOMAIN table[u], Used(links, u))
                 /\ \A i \in DOMAIN table[u] : table[u][i] = links[u][g[i]]
      BY DEF TablesOK, ListsSlots
    <3>2. F[u] = CHOOSE g : /\ g \in Bijection(DOMAIN table[u], Used(links, u))
                            /\ \A i \in DOMAIN table[u] : table[u][i] = links[u][g[i]]
      OBVIOUS
    <3>. HIDE DEF F
    <3>. QED BY <3>1, <3>2
  <2>. HIDE DEF F
  <2>. QED BY <2>1, BijectionsPair
<1>. HIDE DEF F
<1>13. \A u \in Nodes : /\ \A i \in DOMAIN table[u] : /\ F[u][i] \in Slots /\ links[u][F[u][i]] # u
                                                      /\ table[u][i] = links[u][F[u][i]]
                        /\ \A i, j \in DOMAIN table[u] : F[u][i] = F[u][j] => i = j
                        /\ \A s \in Slots : links[u][s] # u => \E i \in DOMAIN table[u] : F[u][i] = s
  BY <1>12 DEF Pairs, Used
<1>. DEFINE h == [x \in X |-> <<f[x[1]][1], f[x[1]][2], F[f[x[1]][1]][x[2]]>>]
<1>14. ASSUME NEW x \in X
       PROVE  /\ x = <<x[1], x[2]>> /\ x[1] \in DOMAIN In /\ x[2] \in DOMAIN table[f[x[1]][1]]
              /\ table[f[x[1]][1]][x[2]] = k /\ f[x[1]] \in LinksInto(v)
  BY <1>9
<1>15. ASSUME NEW x \in X PROVE h[x] \in Common(v, k)
  <2>. DEFINE u == f[x[1]][1]
              s == f[x[1]][2]
              t == F[u][x[2]]
  <2>1. u \in Nodes /\ s \in Slots /\ links[u][s] = v /\ u # v /\ x[2] \in DOMAIN table[u] /\ table[u][x[2]] = k
    BY <1>10, <1>14
  <2>2. h[x] = <<u, s, t>>
    OBVIOUS
  <2>3. t \in Slots /\ links[u][t] # u /\ links[u][t] = k
    BY <1>13, <2>1
  <2>. HIDE DEF u, s, t, h
  <2>4. <<u, s, t>> \in Common(v, k)
    BY <2>1, <2>3 DEF Common
  <2>. QED BY <2>2, <2>4
<1>16. ASSUME NEW x \in X, NEW y \in X, h[x] = h[y] PROVE x = y
  <2>1. f[x[1]][1] = f[y[1]][1] /\ f[x[1]][2] = f[y[1]][2] /\ F[f[x[1]][1]][x[2]] = F[f[y[1]][1]][y[2]]
    BY <1>16
  <2>. HIDE DEF h, X
  <2>2. f[x[1]] = f[y[1]]
    BY <1>10, <1>14, <2>1
  <2>3. x[1] = y[1]
    BY <1>9, <1>14, <2>2
  <2>4. f[x[1]][1] \in Nodes
    BY <1>10, <1>14
  <2>5. x[2] = y[2]
    BY <1>13, <1>14, <2>1, <2>3, <2>4
  <2>. QED BY <1>14, <2>3, <2>5
<1>17. ASSUME NEW e \in Common(v, k) PROVE \E x \in X : h[x] = e
  <2>1. /\ e = <<e[1], e[2], e[3]>> /\ e[1] \in Nodes /\ e[2] \in Slots /\ e[3] \in Slots
        /\ links[e[1]][e[2]] = v /\ e[1] # v /\ links[e[1]][e[3]] = k /\ e[1] # k
    BY DEF Common
  <2>2. <<e[1], e[2]>> \in LinksInto(v)
    BY <2>1 DEF LinksInto
  <2>3. PICK i \in DOMAIN In : f[i] = <<e[1], e[2]>>
    BY <1>9, <2>2
  <2>4. PICK j \in DOMAIN table[e[1]] : F[e[1]][j] = e[3]
    BY <1>13, <2>1
  <2>5. j \in Nat /\ table[e[1]][j] = k /\ In[i] = e[1]
    BY <1>3, <1>9, <1>13, <2>1, <2>3, <2>4
  <2>6. <<i, j>> \in X
    BY <2>5
  <2>7. h[<<i, j>>] = <<f[i][1], f[i][2], F[f[i][1]][j]>>
    BY <2>6
  <2>8. h[<<i, j>>] = <<e[1], e[2], e[3]>>
    <3>1. f[i][1] = e[1] /\ f[i][2] = e[2]
      BY <2>3
    <3>. QED BY <2>4, <2>7, <3>1
  <2>. QED BY <2>1, <2>6, <2>8
<1>18. h \in [X -> Common(v, k)]
  BY <1>15
<1>. HIDE DEF h, X
<1>19. IsFiniteSet(Common(v, k)) /\ Cardinality(Common(v, k)) = Cardinality(X)
  BY <1>4, <1>16, <1>17, <1>18, SameSize
<1>20. Cardinality(SlotsTo(v, k)) \in Nat /\ Cardinality(X) \in Nat
  BY <1>4, <1>7, FS_CardinalityType
<1>. QED BY <1>4, <1>6, <1>7, <1>11, <1>19, <1>20

-----------------------------------------------------------------------------
(* What a node adds to the score of another. *)

\* How much closer a key gets when a node is added to a set.
LEMMA ClosenessGrows ==
    ASSUME TablesOK, NEW W \in SUBSET Nodes, NEW v \in Nodes \ W, NEW k \in Nodes \ W, k # v
    PROVE  /\ ClosenessOf(links, k, W) \in Nat
           /\ ClosenessOf(links, k, W \cup {v}) = ClosenessOf(links, k, W) + Count(Touched(v), k)
<1>. DEFINE A(V) == {s \in Slots : links[k][s] \in V}
            B(V) == {e \in V \X Slots : links[e[1]][e[2]] = k}
            C(V) == {e \in Nodes \X Slots \X Slots :
                        links[e[1]][e[2]] \in V \ {e[1]} /\ links[e[1]][e[3]] = k /\ e[1] # k}
            V == W \cup {v}
            D == {e \in {v} \X Slots : links[e[1]][e[2]] = k}
<1>1. IsFiniteSet(Slots) /\ IsFiniteSet(Nodes)
  <2>1. IsFiniteSet(Slots)
    BY RelabelSizes, FS_Interval DEF Slots
  <2>. QED BY <2>1, NodesAreFinite
<1>2. IsFiniteSet(Nodes \X Slots) /\ IsFiniteSet(Nodes \X Slots \X Slots)
  <2>1. IsFiniteSet(Nodes \X Slots) /\ IsFiniteSet(Slots \X Slots)
    BY <1>1, FS_Product
  <2>. DEFINE f == [e \in (Nodes \X Slots) \X Slots |-> <<e[1][1], e[1][2], e[2]>>]
  <2>2. IsFiniteSet((Nodes \X Slots) \X Slots)
    BY <1>1, <2>1, FS_Product
  <2>3. f \in [(Nodes \X Slots) \X Slots -> Nodes \X Slots \X Slots]
    OBVIOUS
  <2>4. ASSUME NEW e \in Nodes \X Slots \X Slots PROVE \E d \in (Nodes \X Slots) \X Slots : f[d] = e
    <3>1. e = <<e[1], e[2], e[3]>> /\ <<<<e[1], e[2]>>, e[3]>> \in (Nodes \X Slots) \X Slots
      OBVIOUS
    <3>2. f[<<<<e[1], e[2]>>, e[3]>>] = <<e[1], e[2], e[3]>>
      BY <3>1
    <3>. QED BY <3>1, <3>2
  <2>. HIDE DEF f
  <2>5. f \in Surjection((Nodes \X Slots) \X Slots, Nodes \X Slots \X Slots)
    BY <2>3, <2>4 DEF Surjection
  <2>. QED BY <2>1, <2>2, <2>5, FS_Surjection
<1>3. \A X \in SUBSET Nodes : IsFiniteSet(A(X)) /\ IsFiniteSet(B(X)) /\ IsFiniteSet(C(X))
  <2>. SUFFICES ASSUME NEW X \in SUBSET Nodes PROVE IsFiniteSet(A(X)) /\ IsFiniteSet(B(X)) /\ IsFiniteSet(C(X))
    OBVIOUS
  <2>1. A(X) \in SUBSET Slots /\ B(X) \in SUBSET (Nodes \X Slots) /\ C(X) \in SUBSET (Nodes \X Slots \X Slots)
    OBVIOUS
  <2>. HIDE DEF A, B, C
  <2>. QED BY <1>1, <1>2, <2>1, FS_Subset
<1>4. \A X \in SUBSET Nodes : /\ ClosenessOf(links, k, X) = Cardinality(A(X)) + Cardinality(B(X)) + Cardinality(C(X))
                              /\ Cardinality(A(X)) \in Nat /\ Cardinality(B(X)) \in Nat /\ Cardinality(C(X)) \in Nat
  <2>1. \A X \in SUBSET Nodes : ClosenessOf(links, k, X) = Cardinality(A(X)) + Cardinality(B(X)) + Cardinality(C(X))
    BY DEF ClosenessOf
  <2>. HIDE DEF A, B, C
  <2>. QED BY <1>3, <2>1, FS_CardinalityType
<1>5. /\ Count(Touched(v), k) =
             Cardinality(SlotsTo(v, k)) + Cardinality(SlotsTo(k, v)) + Cardinality(Common(v, k))
      /\ IsFiniteSet(SlotsTo(v, k)) /\ IsFiniteSet(SlotsTo(k, v)) /\ IsFiniteSet(Common(v, k))
  BY TouchedCounts
<1>6. Cardinality(A(V)) = Cardinality(A(W)) + Cardinality(SlotsTo(k, v))
  <2>1. A(V) = A(W) \cup SlotsTo(k, v) /\ A(W) \cap SlotsTo(k, v) = {}
    BY DEF SlotsTo
  <2>2. IsFiniteSet(A(W))
    BY <1>3
  <2>. HIDE DEF A, V
  <2>. QED BY <1>5, <2>1, <2>2, TwoParts
<1>7. IsFiniteSet(D) /\ Cardinality(D) = Cardinality(SlotsTo(v, k))
  <2>. DEFINE f == [s \in SlotsTo(v, k) |-> <<v, s>>]
  <2>1. \A s \in SlotsTo(v, k) : f[s] = <<v, s>> /\ f[s] \in D
    BY DEF SlotsTo
  <2>2. ASSUME NEW e \in D PROVE \E s \in SlotsTo(v, k) : f[s] = e
    <3>1. e = <<v, e[2]>> /\ e[2] \in SlotsTo(v, k)
      BY DEF SlotsTo
    <3>. QED BY <3>1
  <2>3. f \in [SlotsTo(v, k) -> D]
    BY <2>1
  <2>4. \A s, t \in SlotsTo(v, k) : f[s] = f[t] => s = t
    OBVIOUS
  <2>. HIDE DEF f, D
  <2>. QED BY <1>5, <2>2, <2>3, <2>4, SameSize
<1>8. Cardinality(B(V)) = Cardinality(B(W)) + Cardinality(D)
  <2>1. B(V) = B(W) \cup D /\ B(W) \cap D = {}
    OBVIOUS
  <2>2. IsFiniteSet(B(W))
    BY <1>3
  <2>. HIDE DEF B, V, D
  <2>. QED BY <1>7, <2>1, <2>2, TwoParts
<1>9. Cardinality(C(V)) = Cardinality(C(W)) + Cardinality(Common(v, k))
  <2>1. C(V) = C(W) \cup Common(v, k) /\ C(W) \cap Common(v, k) = {}
    BY DEF Common
  <2>2. IsFiniteSet(C(W))
    BY <1>3
  <2>. HIDE DEF C, V
  <2>. QED BY <1>5, <2>1, <2>2, TwoParts
<1>10. V \in SUBSET Nodes
  OBVIOUS
<1>11. /\ Cardinality(SlotsTo(v, k)) \in Nat /\ Cardinality(SlotsTo(k, v)) \in Nat
       /\ Cardinality(Common(v, k)) \in Nat
  BY <1>5, FS_CardinalityType
<1>. HIDE DEF A, B, C, D, V
<1>12. ClosenessOf(links, k, V) = ClosenessOf(links, k, W) + Count(Touched(v), k) /\ ClosenessOf(links, k, W) \in Nat
  BY <1>4, <1>5, <1>6, <1>7, <1>8, <1>9, <1>10, <1>11
<1>. QED BY <1>12 DEF V

\* Nothing is close to no nodes.
LEMMA ClosenessToNone == ASSUME NEW k PROVE ClosenessOf(links, k, {}) = 0
<1>. DEFINE A == {s \in Slots : links[k][s] \in {}}
            B == {e \in {} \X Slots : links[e[1]][e[2]] = k}
            C == {e \in Nodes \X Slots \X Slots :
                    links[e[1]][e[2]] \in {} \ {e[1]} /\ links[e[1]][e[3]] = k /\ e[1] # k}
<1>1. A = {} /\ B = {} /\ C = {}
  OBVIOUS
<1>2. ClosenessOf(links, k, {}) = Cardinality(A) + Cardinality(B) + Cardinality(C)
  BY DEF ClosenessOf
<1>. HIDE DEF A, B, C
<1>3. \A X : X = {} => Cardinality(X) = 0
  BY FS_EmptySet
<1>4. Cardinality(A) = 0 /\ Cardinality(B) = 0 /\ Cardinality(C) = 0
  BY <1>1, <1>3
<1>. QED BY <1>2, <1>4

\* A turn takes the newest node into the window, and the oldest out of it once
\* there are more than the window has room for.
LEMMA WindowMoves ==
    ASSUME order \in Seq(Nodes), Distinct(order), order # <<>>
    PROVE  LET i == Len(order)
           IN  /\ i \in Nat /\ i > 0 /\ WindowOf(order) \in SUBSET Nodes /\ order[i] \in Nodes \ WindowOf(order)
               /\ WindowOf(order) \cup {order[i]} \subseteq {order[j] : j \in DOMAIN order}
               /\ i > Window + 1 =>
                      /\ order[i - Window] \in WindowOf(order) \cup {order[i]}
                      /\ CountedOf(order, i + 1) = (WindowOf(order) \cup {order[i]}) \ {order[i - Window]}
               /\ ~(i > Window + 1) => CountedOf(order, i + 1) = WindowOf(order) \cup {order[i]}
<1>. DEFINE i == Len(order)
            J == IF i = 1 THEN {} ELSE {1} \cup {j \in 2 .. i - 1 : i - j <= Window}
            K == {1} \cup {j \in 2 .. i : (i + 1) - j <= Window}
            At(X) == {order[j] : j \in X}
<1>1. i \in Nat /\ i > 0 /\ DOMAIN order = 1 .. i /\ Window \in Nat
  BY ReorderingSizes
<1>2. \A j \in 1 .. i : order[j] \in Nodes
  BY <1>1
<1>3. \A j, l \in 1 .. i : order[j] = order[l] => j = l
  BY <1>1 DEF Distinct
<1>4. WindowOf(order) = At(J)
  BY DEF WindowOf, CountedOf
<1>5. CountedOf(order, i + 1) = At(K)
  <2>1. (i + 1) - 1 = i
    BY <1>1
  <2>. QED BY <2>1 DEF CountedOf
<1>. HIDE DEF i
<1>6. J \in SUBSET (1 .. i) /\ i \notin J /\ i \in 1 .. i /\ K \in SUBSET (1 .. i)
  BY <1>1
<1>7. ASSUME i > Window + 1
      PROVE  i - Window \in J \cup {i} /\ K = (J \cup {i}) \ {i - Window}
  <2>1. i # 1 /\ J = {1} \cup {j \in 2 .. i - 1 : i - j <= Window}
    BY <1>1, <1>7
  <2>2. i - Window \in J \cup {i}
    BY <1>1, <1>7, <2>1
  <2>3. \A j : j \in K <=> j \in (J \cup {i}) \ {i - Window}
    <3>1. \A j \in 2 .. i : (i + 1) - j <= Window <=> (j = i \/ (j \in 2 .. i - 1 /\ i - j <= Window)) /\ j # i - Window
      BY <1>1, <1>7
    <3>2. 1 # i - Window /\ i \in 2 .. i
      BY <1>1, <1>7
    <3>. QED BY <1>1, <2>1, <3>1, <3>2
  <2>. QED BY <2>2, <2>3
<1>8. ASSUME ~(i > Window + 1)
      PROVE  K = J \cup {i}
  <2>1. CASE i = 1
    BY <2>1
  <2>2. CASE i # 1
    BY <1>1, <1>8, <2>2
  <2>. QED BY <2>1, <2>2
<1>. HIDE DEF J, K
<1>9. \A X \in SUBSET (1 .. i), j \in 1 .. i : order[j] \in At(X) <=> j \in X
  BY <1>3
<1>10. At(J \cup {i}) = At(J) \cup {order[i]}
  OBVIOUS
<1>11. At(J) \in SUBSET Nodes /\ order[i] \in Nodes \ At(J)
  BY <1>2, <1>6, <1>9
<1>12. At(J) \cup {order[i]} \subseteq {order[j] : j \in DOMAIN order}
  BY <1>1, <1>6
<1>13. ASSUME i > Window + 1
       PROVE  /\ order[i - Window] \in At(J) \cup {order[i]}
              /\ At(K) = (At(J) \cup {order[i]}) \ {order[i - Window]}
  <2>1. i - Window \in J \cup {i} /\ K = (J \cup {i}) \ {i - Window} /\ i - Window \in 1 .. i
    BY <1>6, <1>7, <1>13
  <2>. DEFINE o == i - Window
              Y == J \cup {i}
  <2>2. o \in Y /\ o \in 1 .. i /\ Y \in SUBSET (1 .. i) /\ K = Y \ {o}
    BY <1>6, <2>1
  <2>. HIDE DEF o, Y
  <2>3. At(K) = At(Y) \ {order[o]} /\ order[o] \in At(Y)
    BY <1>3, <2>2
  <2>. QED BY <1>10, <2>3 DEF o, Y
<1>14. ~(i > Window + 1) => At(K) = At(J) \cup {order[i]}
  BY <1>8, <1>10
<1>. HIDE DEF At
<1>. QED BY <1>1, <1>4, <1>5, <1>11, <1>12, <1>13, <1>14 DEF i

\* Nothing is in the empty list.
LEMMA CountNone == ASSUME NEW x PROVE Count(<<>>, x) = 0
<1>1. {i \in DOMAIN <<>> : <<>>[i] = x} = {}
  OBVIOUS
<1>. QED BY <1>1, FS_EmptySet DEF Count

\* What a node touches are nodes.
LEMMA TouchedIsList ==
    ASSUME TablesOK, NEW v \in Nodes
    PROVE  Touched(v) \in Seq(Nodes)
<1>. DEFINE In == InEdges(v)
            flat == Seqs!FlattenSeq([i \in 1 .. Len(In) |-> <<In[i]>> \o table[In[i]]])
<1>1. In \in Seq(Nodes) /\ table \in [Nodes -> Seq(Nodes)]
  BY InEdgesAre DEF TablesOK
<1>2. Touched(v) = table[v] \o flat
  BY DEF Touched
<1>. HIDE DEF In
<1>3. flat \in Seq(Nodes)
  BY <1>1, SourcesTouched
<1>. HIDE DEF flat
<1>4. table[v] \in Seq(Nodes)
  BY <1>1
<1>. QED BY <1>2, <1>3, <1>4

\* CountTagged for the changes of gOrder.
LEMMA ChangesCount ==
    ASSUME NEW keys \in Seq(Nodes), NEW k
    PROVE  /\ Count(keys, k) \in Nat
           /\ Tagged("increment", keys) \in Seq([kind : {"increment", "decrement"}, key : Nodes])
           /\ Tagged("decrement", keys) \in Seq([kind : {"increment", "decrement"}, key : Nodes])
           /\ Count(Tagged("increment", keys), [kind |-> "increment", key |-> k]) = Count(keys, k)
           /\ Count(Tagged("increment", keys), [kind |-> "decrement", key |-> k]) = 0
           /\ Count(Tagged("decrement", keys), [kind |-> "decrement", key |-> k]) = Count(keys, k)
           /\ Count(Tagged("decrement", keys), [kind |-> "increment", key |-> k]) = 0
<1>. DEFINE D == {"increment", "decrement"}
<1>1. "increment" \in D /\ "decrement" \in D /\ "increment" # "decrement"
  OBVIOUS
<1>. HIDE DEF D
<1>2. \A kind, other \in D :
         kind # other => /\ Tagged(kind, keys) \in Seq([kind : D, key : Nodes])
                         /\ Count(Tagged(kind, keys), [kind |-> kind, key |-> k]) = Count(keys, k)
                         /\ Count(Tagged(kind, keys), [kind |-> other, key |-> k]) = 0
  <2>. SUFFICES ASSUME NEW kind \in D, NEW other \in D, kind # other
                PROVE  /\ Tagged(kind, keys) \in Seq([kind : D, key : Nodes])
                       /\ Count(Tagged(kind, keys), [kind |-> kind, key |-> k]) = Count(keys, k)
                       /\ Count(Tagged(kind, keys), [kind |-> other, key |-> k]) = 0
    OBVIOUS
  <2>. QED BY CountTagged
<1>3. /\ Tagged("increment", keys) \in Seq([kind : D, key : Nodes])
      /\ Tagged("decrement", keys) \in Seq([kind : D, key : Nodes])
      /\ Count(Tagged("increment", keys), [kind |-> "increment", key |-> k]) = Count(keys, k)
      /\ Count(Tagged("increment", keys), [kind |-> "decrement", key |-> k]) = 0
      /\ Count(Tagged("decrement", keys), [kind |-> "decrement", key |-> k]) = Count(keys, k)
      /\ Count(Tagged("decrement", keys), [kind |-> "increment", key |-> k]) = 0
  BY <1>1, <1>2
<1>4. Count(keys, k) \in Nat
  BY CountIsNumber
<1>. QED BY <1>3, <1>4 DEF D

-----------------------------------------------------------------------------
(* The steps of gOrder. *)

\* gOrder begins with every other node as far from the empty window.
LEMMA BeginGorderScores ==
    ASSUME ReorderInv, BeginGorder
    PROVE  ScoreInv'
<1>. DEFINE q0 == NewQueue(NumNodes)
            q == Increment(q0, 0)
<1>1. /\ phase' = "turn" /\ links' = links /\ table' = OutdegreeTable
      /\ order' = <<Back(q)>> /\ queue' = Popped(q)
  BY DEF BeginGorder, relabelVars
<1>2. QueueOK(q0) /\ DOMAIN q0.index = Nodes /\ \A m \in Nodes : Priority(q0, m) = 0
  BY NewQueueOK
<1>. HIDE DEF q0
<1>3. /\ QueueOK(q) /\ DOMAIN q.index = Nodes
      /\ \A m \in Nodes : Priority(q, m) = Priority(q0, m) + IF m = 0 THEN 1 ELSE 0
  BY <1>2, ChangesKeepQueue
<1>. HIDE DEF q
<1>4. 0 \in Nodes
  BY ReorderingSizes, RelabelSizes DEF Nodes
<1>5. /\ Back(q) \in Nodes /\ DOMAIN Popped(q).index = Nodes \ {Back(q)}
      /\ \A m \in Nodes : Priority(q, m) <= Priority(q, Back(q))
      /\ \A m \in Nodes \ {Back(q)} : Priority(Popped(q), m) = Priority(q, m)
  BY <1>3, <1>4, PopKeepsQueue
<1>6. Back(q) = 0
  <2>1. Priority(q, 0) = 1
    BY <1>2, <1>3, <1>4
  <2>2. Back(q) # 0 => Priority(q, Back(q)) = 0
    BY <1>2, <1>3, <1>5
  <2>. QED BY <1>4, <1>5, <2>1, <2>2
<1>7. \A m \in DOMAIN queue'.index : Priority(queue', m) = 0
  <2>1. ASSUME NEW m \in Nodes \ {0} PROVE Priority(queue', m) = 0
    BY <1>1, <1>2, <1>3, <1>5, <1>6, <2>1
  <2>. QED BY <1>1, <1>5, <1>6, <2>1
<1>8. WindowOf(order') = {} /\ order' # <<>>
  BY <1>1 DEF WindowOf
<1>9. \A m : ClosenessOf(links', m, WindowOf(order')) = 0
  BY <1>1, <1>8, ClosenessToNone
<1>10. TablesOK'
  <2>1. links \in [Nodes -> [Slots -> Nodes]]
    BY DEF ReorderInv, IInv, TypeOK
  <2>2. table' \in [Nodes -> Seq(Nodes)]
    BY <1>1, NewTable
  <2>3. \A p \in Nodes : ListsSlots(links, p, OutdegreeTable[p])
    BY <2>1, TableListsLinks
  <2>. QED BY <1>1, <2>1, <2>2, <2>3 DEF TablesOK
<1>11. phase' # "update"
  BY <1>1
<1>. QED BY <1>7, <1>8, <1>9, <1>10, <1>11 DEF ScoreInv

\* What is left of the nodes is not in the window.
LEMMA OutsideWindow ==
    ASSUME ReorderInv, phase \in {"turn", "update"}
    PROVE  /\ order \in Seq(Nodes) /\ Distinct(order) /\ QueueOK(queue)
           /\ DOMAIN queue.index \subseteq Nodes
           /\ \A k \in DOMAIN queue.index : k \notin {order[j] : j \in DOMAIN order}
BY DEF ReorderInv, ShapeInv, PlacingInv, Distinct, Listed

\* The changes a turn will make account for the nodes that enter and leave.
LEMMA EnterTurnScores ==
    ASSUME ReorderInv, ScoreInv, EnterTurn
    PROVE  ScoreInv'
<1>. DEFINE i == Len(order)
            W == WindowOf(order)
            new == order[i]
            old == order[i - Window]
            full == i > Window + 1
            ins == Tagged("increment", Touched(new))
            outs == IF full THEN Tagged("decrement", Touched(old)) ELSE <<>>
            Changes == [kind : {"increment", "decrement"}, key : Nodes]
            After == CountedOf(order, i + 1)
<1>1. /\ phase = "turn" /\ phase' = "update" /\ updates' = ins \o outs
      /\ links' = links /\ table' = table /\ order' = order /\ queue' = queue
  BY DEF EnterTurn, relabelVars
<1>2. /\ order \in Seq(Nodes) /\ Distinct(order) /\ order # <<>> /\ TablesOK /\ QueueOK(queue)
      /\ DOMAIN queue.index \subseteq Nodes
      /\ \A k \in DOMAIN queue.index : k \notin {order[j] : j \in DOMAIN order}
      /\ \A k \in DOMAIN queue.index : Priority(queue, k) = ClosenessOf(links, k, W)
  BY <1>1, OutsideWindow DEF ScoreInv
<1>3. /\ W \in SUBSET Nodes /\ new \in Nodes \ W
      /\ W \cup {new} \subseteq {order[j] : j \in DOMAIN order}
      /\ full => old \in W \cup {new} /\ After = (W \cup {new}) \ {old}
      /\ ~full => After = W \cup {new}
  BY <1>2, WindowMoves
<1>. HIDE DEF i, W, new, old, full, After
<1>4. /\ \A k \in DOMAIN queue.index : k \in Nodes \ (W \cup {new})
      /\ full => old \in Nodes /\ \A k \in DOMAIN queue.index : k # old
  BY <1>2, <1>3
<1>5. \A v \in Nodes : Touched(v) \in Seq(Nodes)
  BY <1>2, TouchedIsList
<1>6. ins \in Seq(Changes) /\ outs \in Seq(Changes)
  <2>1. Touched(new) \in Seq(Nodes) /\ (full => Touched(old) \in Seq(Nodes))
    BY <1>3, <1>4, <1>5
  <2>2. ins \in Seq(Changes)
    BY <2>1, ChangesCount
  <2>3. full => Tagged("decrement", Touched(old)) \in Seq(Changes)
    BY <2>1, ChangesCount
  <2>. QED BY <2>2, <2>3
<1>7. ASSUME NEW k \in DOMAIN queue.index
      PROVE  Priority(queue, k) + Pending(ins \o outs, k) = ClosenessOf(links, k, After)
  <2>. DEFINE up == [kind |-> "increment", key |-> k]
              down == [kind |-> "decrement", key |-> k]
              w == ClosenessOf(links, k, W)
              a == Count(Touched(new), k)
              b == Count(Touched(old), k)
  <2>1. k \in Nodes /\ k \notin W /\ k # new /\ k \in Nodes \ W /\ Priority(queue, k) = w
    BY <1>2, <1>4
  <2>2. w \in Nat /\ ClosenessOf(links, k, W \cup {new}) = w + a
    BY <1>2, <1>3, <2>1, ClosenessGrows
  <2>3. Count(ins, up) = a /\ Count(ins, down) = 0 /\ a \in Nat
    <3>1. Touched(new) \in Seq(Nodes)
      BY <1>3, <1>5
    <3>. QED BY <3>1, ChangesCount
  <2>4. Count(ins \o outs, up) = Count(ins, up) + Count(outs, up)
        /\ Count(ins \o outs, down) = Count(ins, down) + Count(outs, down)
    BY <1>6, CountJoined
  <2>5. CASE full
    <3>1. old \in W \cup {new} /\ After = (W \cup {new}) \ {old} /\ old \in Nodes /\ k # old
      BY <1>3, <1>4, <2>5
    <3>2. Count(outs, up) = 0 /\ Count(outs, down) = b /\ b \in Nat
      <4>1. Touched(old) \in Seq(Nodes) /\ outs = Tagged("decrement", Touched(old))
        BY <1>5, <2>5, <3>1
      <4>. QED BY <4>1, ChangesCount
    <3>3. After \in SUBSET Nodes /\ old \in Nodes \ After /\ k \in Nodes \ After /\ After \cup {old} = W \cup {new}
      BY <1>3, <2>1, <3>1
    <3>4. ClosenessOf(links, k, After) \in Nat /\ ClosenessOf(links, k, W \cup {new}) = ClosenessOf(links, k, After) + b
      <4>1. /\ ClosenessOf(links, k, After) \in Nat
            /\ ClosenessOf(links, k, After \cup {old}) = ClosenessOf(links, k, After) + b
        <5>1. TablesOK /\ k # old
          BY <1>2, <3>1
        <5>. HIDE DEF b
        <5>2. /\ ClosenessOf(links, k, After) \in Nat
              /\ ClosenessOf(links, k, After \cup {old}) = ClosenessOf(links, k, After) + Count(Touched(old), k)
          BY <3>3, <5>1, ClosenessGrows
        <5>. QED BY <5>2 DEF b
      <4>. QED BY <3>3, <4>1
    <3>5. Pending(ins \o outs, k) = (a + 0) - (0 + b)
      BY <2>3, <2>4, <3>2 DEF Pending
    <3>. HIDE DEF a, b, w, ins, outs
    <3>. QED BY <2>1, <2>2, <2>3, <3>2, <3>4, <3>5
  <2>6. CASE ~full
    <3>1. After = W \cup {new} /\ outs = <<>>
      BY <1>3, <2>6
    <3>2. Count(outs, up) = 0 /\ Count(outs, down) = 0
      BY <3>1, CountNone
    <3>3. Pending(ins \o outs, k) = (a + 0) - (0 + 0)
      BY <2>3, <2>4, <3>2 DEF Pending
    <3>. HIDE DEF a, b, w, ins, outs
    <3>. QED BY <2>1, <2>2, <2>3, <3>1, <3>3
  <2>. QED BY <2>5, <2>6
<1>8. ins \o outs \in Seq(Changes)
  BY <1>6
<1>9. TablesOK' /\ order' # <<>> /\ phase' # "turn"
  BY <1>1, <1>2 DEF TablesOK
<1>. HIDE DEF ins, outs
<1>10. \A k \in DOMAIN queue'.index :
         Priority(queue', k) + Pending(updates', k) = ClosenessOf(links', k, CountedOf(order', Len(order') + 1))
  BY <1>1, <1>7 DEF After, i
<1>. QED BY <1>1, <1>8, <1>9, <1>10 DEF ScoreInv

\* Each change of a priority is one change less to be made.
LEMMA UpdateQueueScores ==
    ASSUME ReorderInv, ScoreInv, UpdateQueue
    PROVE  ScoreInv'
<1>. DEFINE Changes == [kind : {"increment", "decrement"}, key : Nodes]
            h == Head(updates)
            rest == Tail(updates)
<1>1. /\ phase = "update" /\ phase' = "update" /\ updates # <<>> /\ updates' = rest
      /\ queue' = IF h.kind = "increment" THEN Increment(queue, h.key) ELSE Decrement(queue, h.key)
      /\ links' = links /\ table' = table /\ order' = order
  BY DEF UpdateQueue, relabelVars
<1>2. /\ TablesOK /\ order # <<>> /\ QueueOK(queue) /\ updates \in Seq(Changes)
      /\ \A k \in DOMAIN queue.index :
             Priority(queue, k) + Pending(updates, k) = ClosenessOf(links, k, CountedOf(order, Len(order) + 1))
  BY <1>1, OutsideWindow DEF ScoreInv
<1>3. h \in Changes /\ rest \in Seq(Changes)
  <2>. HIDE DEF Changes
  <2>. QED BY <1>1, <1>2
<1>4. /\ DOMAIN Increment(queue, h.key).index = DOMAIN queue.index
      /\ DOMAIN Decrement(queue, h.key).index = DOMAIN queue.index
      /\ \A m \in DOMAIN queue.index :
             /\ Priority(queue, m) \in Int
             /\ Priority(Increment(queue, h.key), m) = Priority(queue, m) + IF m = h.key THEN 1 ELSE 0
             /\ Priority(Decrement(queue, h.key), m) = Priority(queue, m) - IF m = h.key THEN 1 ELSE 0
  BY <1>2, ChangesKeepQueue
<1>5. DOMAIN queue'.index = DOMAIN queue.index
  BY <1>1, <1>4
<1>6. ASSUME NEW k \in DOMAIN queue.index
      PROVE  Priority(queue', k) + Pending(rest, k) = Priority(queue, k) + Pending(updates, k)
  <2>. DEFINE up == [kind |-> "increment", key |-> k]
              down == [kind |-> "decrement", key |-> k]
              cu == Count(rest, up)
              cd == Count(rest, down)
              p == Priority(queue, k)
  <2>1. /\ Count(updates, up) = (IF h = up THEN 1 ELSE 0) + cu
        /\ Count(updates, down) = (IF h = down THEN 1 ELSE 0) + cd
    BY <1>1, <1>2, CountHead
  <2>2. cu \in Nat /\ cd \in Nat
    BY <1>3, CountIsNumber
  <2>3. /\ h = up <=> h.kind = "increment" /\ k = h.key
        /\ h = down <=> h.kind # "increment" /\ k = h.key
    BY <1>3
  <2>4. /\ h.kind = "increment" => Priority(queue', k) = p + IF k = h.key THEN 1 ELSE 0
        /\ h.kind # "increment" => Priority(queue', k) = p - IF k = h.key THEN 1 ELSE 0
        /\ p \in Int
    BY <1>1, <1>4
  <2>5. Pending(rest, k) = cu - cd /\ Pending(updates, k) = Count(updates, up) - Count(updates, down)
    BY DEF Pending
  <2>. HIDE DEF up, down, cu, cd, p, h, rest
  <2>6. CASE h.kind = "increment"
    BY <2>1, <2>2, <2>3, <2>4, <2>5, <2>6 DEF p
  <2>7. CASE h.kind # "increment"
    BY <2>1, <2>2, <2>3, <2>4, <2>5, <2>7 DEF p
  <2>. QED BY <2>6, <2>7
<1>7. TablesOK' /\ order' # <<>> /\ phase' # "turn"
  BY <1>1, <1>2 DEF TablesOK
<1>8. \A k \in DOMAIN queue'.index :
         Priority(queue', k) + Pending(updates', k) = ClosenessOf(links', k, CountedOf(order', Len(order') + 1))
  BY <1>1, <1>2, <1>5, <1>6
<1>. QED BY <1>1, <1>3, <1>7, <1>8 DEF ScoreInv

\* With every change made, a node leaves the queue and the rest stays as it is.
LEMMA PlaceNodeScores ==
    ASSUME ReorderInv, ScoreInv, PlaceNode
    PROVE  ScoreInv'
<1>1. /\ phase = "update" /\ phase' = "turn" /\ updates = <<>>
      /\ order' = Append(order, Back(queue)) /\ queue' = Popped(queue)
      /\ links' = links /\ table' = table
  BY DEF PlaceNode, relabelVars
<1>2. /\ TablesOK /\ order # <<>> /\ order \in Seq(Nodes) /\ Distinct(order) /\ QueueOK(queue)
      /\ \A k \in DOMAIN queue.index :
             Priority(queue, k) + Pending(updates, k) = ClosenessOf(links, k, CountedOf(order, Len(order) + 1))
  BY <1>1, OutsideWindow DEF ScoreInv
<1>3. DOMAIN queue.index # {}
  BY <1>1, NodesLeft
<1>4. /\ Back(queue) \in Nodes /\ DOMAIN queue'.index = DOMAIN queue.index \ {Back(queue)}
      /\ \A m \in DOMAIN queue'.index : Priority(queue', m) = Priority(queue, m)
  BY <1>1, <1>2, <1>3, PopKeepsQueue
<1>5. WindowOf(order') = CountedOf(order, Len(order) + 1)
  <2>. DEFINE i == Len(order)
              K == {1} \cup {k \in 2 .. i : (i + 1) - k <= Window}
  <2>1. /\ i \in Nat /\ i > 0 /\ Len(order') = i + 1 /\ (i + 1) - 1 = i
        /\ \A j \in 1 .. i : order'[j] = order[j]
    BY <1>1, <1>2, <1>4
  <2>2. K \subseteq 1 .. i
    BY <2>1
  <2>3. CountedOf(order, i + 1) = {order[j] : j \in K} /\ CountedOf(order', i + 1) = {order'[j] : j \in K}
    BY <2>1 DEF CountedOf
  <2>4. WindowOf(order') = CountedOf(order', i + 1)
    BY <2>1 DEF WindowOf
  <2>. HIDE DEF K
  <2>. QED BY <2>1, <2>2, <2>3, <2>4
<1>6. ASSUME NEW k \in DOMAIN queue'.index
      PROVE  Priority(queue', k) = ClosenessOf(links', k, WindowOf(order'))
  <2>1. k \in DOMAIN queue.index /\ Priority(queue', k) = Priority(queue, k)
    BY <1>4
  <2>2. Priority(queue, k) \in Int
    BY <1>2, <2>1, ChangesKeepQueue
  <2>3. Pending(updates, k) = 0
    BY <1>1, CountNone DEF Pending
  <2>. QED BY <1>1, <1>2, <1>5, <2>1, <2>2, <2>3
<1>7. TablesOK' /\ order' # <<>> /\ phase' # "update"
  <2>1. TablesOK' /\ phase' # "update"
    BY <1>1, <1>2 DEF TablesOK
  <2>2. order' # <<>>
    <3>. DEFINE x == Back(queue)
    <3>1. x \in Nodes /\ order' = Append(order, x)
      BY <1>1, <1>4
    <3>. HIDE DEF x
    <3>2. Len(order') = Len(order) + 1 /\ Len(order) \in Nat
      BY <1>2, <3>1
    <3>. QED BY <3>2
  <2>. QED BY <2>1, <2>2
<1>. QED BY <1>1, <1>6, <1>7 DEF ScoreInv

\* The priorities are what they should be, at every step.
LEMMA NextScores ==
    ASSUME ReorderInv, ScoreInv, [ReorderNext]_reorderVars
    PROVE  ScoreInv'
<1>1. CASE BeginGorder
  BY <1>1, BeginGorderScores
<1>2. CASE EnterTurn
  BY <1>2, EnterTurnScores
<1>3. CASE UpdateQueue
  BY <1>3, UpdateQueueScores
<1>4. CASE PlaceNode
  BY <1>4, PlaceNodeScores
<1>5. CASE phase' \notin {"turn", "update"}
  BY <1>5 DEF ScoreInv
<1>6. CASE CheckNames \/ UnknownMethod \/ NoMoreMethods \/ BeginRcm \/ EndGorder \/ EndRcm \/ NextMethod
  <2>1. phase' \notin {"turn", "update"}
    BY <1>6 DEF CheckNames, UnknownMethod, NoMoreMethods, BeginRcm, EndGorder, EndRcm, NextMethod, Placed
  <2>. QED BY <1>5, <2>1
<1>7. CASE NextSorted \/ NextCandidate \/ RelabelStep
  <2>1. phase' \notin {"turn", "update"}
    BY <1>7 DEF NextSorted, NextCandidate, RelabelStep
  <2>. QED BY <1>5, <2>1
<1>8. CASE UNCHANGED reorderVars
  BY <1>8 DEF reorderVars, relabelVars, orderVars, ScoreInv, TablesOK
<1>. QED BY <1>1, <1>2, <1>3, <1>4, <1>6, <1>7, <1>8 DEF ReorderNext

-----------------------------------------------------------------------------
(* The theorems. *)

\* The invariant holds in every state.
LEMMA Inductive == ASSUME StaleMarks = FALSE PROVE ReorderSpec => []ReorderInv
BY InitReorder, NextReorder, PTL DEF ReorderSpec

\* Through every list of strategies the order under construction names no node
\* twice, the queue of gOrder is what it has not named, and the queue's table
\* of positions agrees with its list.
THEOREM ReorderTyped == ASSUME StaleMarks = FALSE PROVE ReorderSpec => []ReorderTypeOK
<1>1. ReorderInv => ReorderTypeOK
  <2>. SUFFICES ASSUME ReorderInv PROVE ReorderTypeOK
    OBVIOUS
  <2>. USE DEF ReorderInv
  <2>1. TypeOK /\ IndexAgrees(queue)
    BY DEF IInv, ShapeInv, QueueOK
  <2>2. \A p \in Nodes : Len(table[p]) <= M /\ \A i \in DOMAIN table[p] : table[p][i] \in Nodes
    BY DEF ShapeInv
  <2>3. Len(order) <= NumNodes
    BY DistinctLists DEF ShapeInv, Distinct
  <2>4. phase \in {"turn", "update"} => DOMAIN queue.index = Nodes \ {order[i] : i \in DOMAIN order}
    BY DEF PlacingInv, Listed
  <2>5. (\A i \in DOMAIN order : order[i] \in Nodes) /\ (\A i \in DOMAIN fifo : fifo[i] \in Nodes)
    BY DEF ShapeInv
  <2>. QED BY <2>1, <2>2, <2>3, <2>4, <2>5 DEF ReorderTypeOK, ShapeInv
<1>. QED BY <1>1, Inductive, PTL

\* Whatever strategies reorder is given, and also when one that it does not
\* know stops it halfway, the index holds the graph it held before.
THEOREM GraphIsKept == ASSUME StaleMarks = FALSE PROVE ReorderSpec => []SameGraph
<1>1. ReorderInv => SameGraph
  <2>. SUFFICES ASSUME ReorderInv, phase # "relabel", phase \in {"check", "pick", "done", "rejected", "threw"}
                PROVE  \A p \in Nodes, s \in Slots : node[links[p][s]] = graph0[node[p]][s]
    BY DEF SameGraph
  <2>1. links = links0
    BY DEF ReorderInv, BetweenInv, IInv, CycleInv
  <2>. QED BY <2>1 DEF ReorderInv, MovedInv
<1>. QED BY <1>1, Inductive, PTL

\* relabel is given a permutation by every heuristic, so its own guarantees hold
\* within reorder: links go where their nodes go, and every node arrives.  This,
\* like all that follows a relabelling here, is proved for a visited set that
\* shows no stale marks (StaleMarks = FALSE): one that was cleared up to 254
\* times.  With stale marks it is false, as the run relabel_stale shows.
THEOREM RelabelWithin ==
    ASSUME StaleMarks = FALSE PROVE ReorderSpec => [](LinksTravelWithNodes /\ EveryNodeInPlace)
<1>1. ReorderInv => LinksTravelWithNodes /\ EveryNodeInPlace
  BY DoneIsInPlace DEF ReorderInv, IInv
<1>. QED BY <1>1, Inductive, PTL

\* rcmOrder lists the nodes in the order of Cuthill and McKee, whatever the graph
\* and however std::sort arranges nodes of one degree: children follow in the
\* order of their parents and siblings by degree, and a root is taken only when
\* the nodes before it lead to no other, and no other has fewer links.
THEOREM LayersAreOrdered == ASSUME StaleMarks = FALSE PROVE ReorderSpec => []CuthillMcKee
<1>1. ReorderInit => LayerInv
  BY DEF ReorderInit, LayerInv
<1>2. ReorderInv /\ LayerInv => CuthillMcKee
  <2>. SUFFICES ASSUME ReorderInv, LayerInv, phase = "rcm" PROVE CuthillMcKee
    BY DEF CuthillMcKee
  <2>1. /\ order \in Seq(Nodes) /\ links \in [Nodes -> [Slots -> Nodes]]
        /\ Layered(links, order) /\ RootsDue(links, order)
    BY DEF ReorderInv, ShapeInv, IInv, TypeOK, LayerInv
  <2>2. \A k \in DOMAIN order : Parent(k) = ParentOf(links, order, k)
    BY <2>1, ParentIsParent
  <2>3. \A a : OutDegree(a) = Fanout(links, a)
    BY DEF OutDegree, Fanout
  <2>4. ASSUME NEW j \in DOMAIN order, NEW k \in DOMAIN order, j < k, Parent(j) > 0, Parent(k) > 0
        PROVE  /\ Parent(j) <= Parent(k)
               /\ Parent(j) = Parent(k) => OutDegree(order[j]) <= OutDegree(order[k])
    BY <2>1, <2>2, <2>3, <2>4 DEF Layered
  <2>5. ASSUME NEW k \in DOMAIN order, Parent(k) = 0 PROVE RootIsDue(k)
    <3>1. Due(links, order, k)
      BY <2>1, <2>2, <2>5 DEF RootsDue
    <3>. QED BY <2>3, <3>1, EdgeLeads DEF Due, RootIsDue
  <2>. QED BY <2>4, <2>5 DEF CuthillMcKee
<1>. QED BY <1>1, <1>2, InitReorder, NextReorder, NextLayers, PTL DEF ReorderSpec

\* gOrder's running priorities never drift from the closeness they stand for, and
\* each place goes to a node that no other beats, for any graph and any window.
THEOREM GorderIsGreedy == ASSUME StaleMarks = FALSE PROVE ReorderSpec => []GreedyOrder
<1>1. ReorderInit => ScoreInv
  BY DEF ReorderInit, ScoreInv
<1>2. ReorderInv /\ ScoreInv /\ [ReorderNext]_reorderVars => ScoreInv'
  BY NextScores
<1>3. ReorderInv /\ ScoreInv => GreedyOrder
  <2>. SUFFICES ASSUME ReorderInv, ScoreInv, phase = "update", updates = <<>>, NEW k \in DOMAIN queue.index
                PROVE  /\ Priority(queue, k) = WindowScore(k, Len(order) + 1)
                       /\ Priority(queue, k) <= Priority(queue, Back(queue))
    BY DEF GreedyOrder
  <2>1. QueueOK(queue)
    BY OutsideWindow
  <2>2. Priority(queue, k) + Pending(updates, k) = ClosenessOf(links, k, CountedOf(order, Len(order) + 1))
    BY DEF ScoreInv
  <2>3. Pending(updates, k) = 0
    BY CountNone DEF Pending
  <2>4. WindowScore(k, Len(order) + 1) = ClosenessOf(links, k, CountedOf(order, Len(order) + 1))
    BY DEF WindowScore, Closeness, ClosenessOf, Counted, CountedOf
  <2>5. Priority(queue, k) \in Int
    BY <2>1, ChangesKeepQueue
  <2>6. Priority(queue, k) <= Priority(queue, Back(queue))
    BY <2>1, PopKeepsQueue
  <2>. QED BY <2>2, <2>3, <2>4, <2>5, <2>6
<1>. QED BY <1>1, <1>2, <1>3, Inductive, PTL DEF ReorderSpec
=============================================================================
