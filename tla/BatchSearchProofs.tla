------------------------- MODULE BatchSearchProofs -------------------------
(***************************************************************************)
(* Proof that concurrentBatchSearch answers every query as search does.    *)
(*                                                                         *)
(* Scanned and BeamOf are defined by recursion; what they are is proved    *)
(* first: a scan on the number of links looked at, a beam on the rank of a *)
(* search, which every pop lowers.  The invariant then says of every slot  *)
(* that the search it holds, or is in the middle of a scan of, leads to    *)
(* the same beam as the search its query begins with.                      *)
(***************************************************************************)
EXTENDS BatchSearch, FiniteSetTheorems, WellFoundedInduction, TLAPS

-----------------------------------------------------------------------------
(* Numbers. *)

\* A set of natural numbers that is not empty has a least element.
LEMMA LeastExists ==
    ASSUME NEW S \in SUBSET Nat, S # {}
    PROVE  \E n \in S : \A k \in S : n <= k
<1>1. PICK n \in S : \A k \in S : <<k, n>> \notin OpToRel(<, Nat)
  BY WFMin, NatLessThanWellFounded
<1>2. \A k \in S : ~(k < n)
  BY <1>1 DEF OpToRel
<1>. QED BY <1>2

\* A finite set that is not empty has an element of least value.
LEMMA LeastValue ==
    ASSUME NEW S, IsFiniteSet(S), S # {}, NEW f, \A x \in S : f[x] \in Int
    PROVE  \E x \in S : \A y \in S : f[x] <= f[y]
<1>. DEFINE Lower(x) == {y \in S : f[y] < f[x]}
            Counts == {Cardinality(Lower(x)) : x \in S}
<1>1. \A x \in S : IsFiniteSet(Lower(x)) /\ Cardinality(Lower(x)) \in Nat
  BY FS_Subset, FS_CardinalityType
<1>2. PICK n \in Counts : \A k \in Counts : n <= k
  <2>1. Counts \in SUBSET Nat /\ Counts # {}
    BY <1>1
  <2>. HIDE DEF Counts
  <2>. QED BY <2>1, LeastExists
<1>3. PICK x \in S : n = Cardinality(Lower(x))
  BY <1>2
<1>4. ASSUME NEW y \in S, ~(f[x] <= f[y])
      PROVE  FALSE
  <2>1. Lower(y) \subseteq Lower(x) /\ y \in Lower(x) /\ y \notin Lower(y)
    BY <1>4
  <2>2. Cardinality(Lower(y)) <= Cardinality(Lower(x)) /\ Cardinality(Lower(y)) # Cardinality(Lower(x))
    BY <2>1, <1>1, FS_Subset
  <2>3. Cardinality(Lower(x)) <= Cardinality(Lower(y))
    BY <1>2, <1>3
  <2>. QED BY <2>2, <2>3, <1>1
<1>. QED BY <1>4

\* initializeSearch advances by at least one node.
LEMMA StepSizeMoves == StepSize \in Nat \ {0}
<1>1. NumNodes \div NumInit \in Nat
  BY SearchSizes
<1>. QED BY <1>1 DEF StepSize

\* Multiples of a step, one after the other.
LEMMA ProductsAreNatural == ASSUME NEW a \in Nat, NEW b \in Nat PROVE a * b \in Nat
OBVIOUS

\* A number is a multiple of the step and a rest.
LEMMA Multiple ==
    ASSUME NEW p \in Nat, NEW st \in Nat \ {0}
    PROVE  p = (p \div st) * st + (p % st) /\ p \div st \in Nat
OBVIOUS

\* A multiple of the step leaves no rest.
LEMMA MultiplesLeaveNothing ==
    ASSUME NEW k \in Nat, NEW st \in Nat \ {0}
    PROVE  (k * st) % st = 0
OBVIOUS

\* There is one multiple within a step.
LEMMA NextMultiple ==
    ASSUME NEW j \in Nat, NEW k \in Nat, NEW st \in Nat \ {0}, j * st <= k * st, k * st < j * st + st
    PROVE  j = k
<1>1. CASE k > j
  <2>1. (k - j - 1) * st \in Nat
    BY <1>1, ProductsAreNatural
  <2>2. (k - j - 1) * st = k * st - j * st - st
    OBVIOUS
  <2>3. k * st \in Nat /\ j * st \in Nat
    BY ProductsAreNatural
  <2>. QED BY <2>1, <2>2, <2>3
<1>2. CASE k < j
  <2>1. (j - k - 1) * st \in Nat
    BY <1>2, ProductsAreNatural
  <2>2. (j - k - 1) * st = j * st - k * st - st
    OBVIOUS
  <2>3. k * st \in Nat /\ j * st \in Nat
    BY ProductsAreNatural
  <2>. QED BY <2>1, <2>2, <2>3
<1>. QED BY <1>1, <1>2

\* Of the nodes between two probes only the first is sampled.
LEMMA NextSample ==
    ASSUME NEW p \in Nat, NEW st \in Nat \ {0}, p % st = 0
    PROVE  /\ (p + st) % st = 0
           /\ \A n \in Nat : n % st = 0 /\ p <= n /\ n < p + st => n = p
<1>. DEFINE j == p \div st
<1>1. j \in Nat /\ p = j * st
  BY Multiple
<1>2. p + st = (j + 1) * st /\ j + 1 \in Nat
  BY <1>1
<1>3. (p + st) % st = 0
  BY <1>2, MultiplesLeaveNothing
<1>4. ASSUME NEW n \in Nat, n % st = 0, p <= n, n < p + st
      PROVE  n = p
  <2>. DEFINE k == n \div st
  <2>1. k \in Nat /\ n = k * st
    BY <1>4, Multiple
  <2>. HIDE DEF j, k
  <2>2. j = k
    BY <2>1, <1>1, <1>4, NextMultiple
  <2>. QED BY <2>1, <2>2, <1>1
<1>. QED BY <1>3, <1>4
-----------------------------------------------------------------------------
(* Distances and heaps. *)

\* Distances can be compared.
LEMMA DistancesAreNumbers == \A q \in Queries, n \in Nodes : QueryDist[q][n] \in Int
<1>. SUFFICES ASSUME NEW q \in Queries, NEW n \in Nodes
              PROVE  QueryDist[q][n] \in Int
  OBVIOUS
<1>. QED BY QueryDistAssumption

\* Every set of nodes is finite.
LEMMA NodesAreFinite ==
    ASSUME NEW S \in SUBSET Nodes
    PROVE  IsFiniteSet(S) /\ Cardinality(S) \in Nat
<1>1. IsFiniteSet(Nodes)
  BY SearchSizes, FS_Interval DEF Nodes
<1>2. IsFiniteSet(S)
  BY <1>1, FS_Subset
<1>. QED BY <1>2, FS_CardinalityType

\* The array of a heap names nodes, and a heap that is not empty has a top.
LEMMA HeapHoldsNodes ==
    ASSUME NEW d, NEW h \in Heaps(d)
    PROVE  Len(h) \in Nat /\ Range(h) \in SUBSET Nodes /\ (h # <<>> => h[1] \in Range(h))
<1>1. h \in UNION {[1 .. k -> Nodes] : k \in 0 .. NumNodes}
  BY DEF Heaps
<1>2. PICK k \in 0 .. NumNodes : h \in [1 .. k -> Nodes]
  BY <1>1
<1>3. k \in Nat
  BY <1>2, SearchSizes
<1>4. h \in Seq(Nodes)
  BY <1>2, <1>3
<1>5. Len(h) \in Nat /\ DOMAIN h = 1 .. Len(h) /\ \A i \in 1 .. Len(h) : h[i] \in Nodes
  BY <1>4
<1>6. h # <<>> => 1 \in DOMAIN h
  BY <1>4, <1>5
<1>. QED BY <1>5, <1>6 DEF Range

\* A heap of one node.
LEMMA OneIsAHeap ==
    ASSUME NEW d, NEW n \in Nodes
    PROVE  <<n>> \in Heaps(d) /\ Range(<<n>>) = {n} /\ <<n>>[1] = n
<1>1. <<n>> \in [1 .. 1 -> Nodes] /\ 1 \in 0 .. NumNodes /\ Len(<<n>>) = 1 /\ DOMAIN <<n>> = 1 .. 1
  BY SearchSizes
<1>2. IsInjective(<<n>>)
  BY <1>1 DEF IsInjective
<1>3. \A i \in 2 .. Len(<<n>>) : FALSE
  BY <1>1
<1>4. <<n>> \in UNION {[1 .. k -> Nodes] : k \in 0 .. NumNodes}
  BY <1>1
<1>. QED BY <1>1, <1>2, <1>3, <1>4 DEF Heaps, Range

\* What push_heap and pop_heap do to the heaps of a search.
LEMMA HeapSteps ==
    ASSUME NEW q \in Queries, NEW d \in {QueryDist[q], Closeness(q)}, NEW h \in Heaps(d)
    PROVE  /\ \A n \in Nodes \ Range(h) :
                 PushHeap(d, h, n) \in Heaps(d) /\ Range(PushHeap(d, h, n)) = Range(h) \cup {n}
           /\ h # <<>> =>
                 PopHeap(d, h) \in Heaps(d) /\ Range(PopHeap(d, h)) = Range(h) \ {h[1]}
<1>1. \A x \in Queries : \A y \in {QueryDist[x], Closeness(x)} : \A z \in Heaps(y) :
          /\ \A n \in Nodes \ Range(z) :
                PushHeap(y, z, n) \in Heaps(y) /\ Range(PushHeap(y, z, n)) = Range(z) \cup {n}
          /\ z # <<>> =>
                PopHeap(y, z) \in Heaps(y) /\ Range(PopHeap(y, z)) = Range(z) \ {z[1]}
  BY HeapAssumption
<1>. QED BY <1>1

-----------------------------------------------------------------------------
(* The entry node. *)

\* Node n is closer to q than node m, or as close and met earlier.
Before(q, n, m) == QueryDist[q][n] < QueryDist[q][m] \/ (QueryDist[q][n] = QueryDist[q][m] /\ n <= m)

\* What initializeSearch samples.
Sampled == {n \in Nodes : n % StepSize = 0}

\* The order of the nodes for a query is total.
LEMMA BeforeOrders ==
    ASSUME NEW q \in Queries
    PROVE  \A a, b \in Nodes :
               /\ Before(q, a, a)
               /\ Before(q, a, b) /\ Before(q, b, a) => a = b
               /\ ~(QueryDist[q][a] < QueryDist[q][b]) /\ b <= a => Before(q, b, a)
               /\ \A c \in Nodes : QueryDist[q][a] < QueryDist[q][b] /\ Before(q, b, c) => Before(q, a, c)
<1>. SUFFICES ASSUME NEW a \in Nodes, NEW b \in Nodes
              PROVE  /\ Before(q, a, a)
                     /\ Before(q, a, b) /\ Before(q, b, a) => a = b
                     /\ ~(QueryDist[q][a] < QueryDist[q][b]) /\ b <= a => Before(q, b, a)
                     /\ \A c \in Nodes : QueryDist[q][a] < QueryDist[q][b] /\ Before(q, b, c) => Before(q, a, c)
  OBVIOUS
<1>1. a \in Int /\ b \in Int
  BY DEF Nodes
<1>2. QueryDist[q][a] \in Int /\ QueryDist[q][b] \in Int
  BY DistancesAreNumbers
<1>3. \A c \in Nodes : QueryDist[q][c] \in Int
  BY DistancesAreNumbers
<1>. QED BY <1>1, <1>2, <1>3 DEF Before

\* Some sampled node comes before all the others.
LEMMA FirstExists ==
    ASSUME NEW q \in Queries, NEW S \in SUBSET Nodes, S # {}
    PROVE  \E x \in S : \A y \in S : Before(q, x, y)
<1>. DEFINE f == QueryDist[q]
<1>1. \A n \in Nodes : f[n] = QueryDist[q][n] /\ f[n] \in Int
  BY DistancesAreNumbers
<1>. HIDE DEF f
<1>2. PICK z \in S : \A y \in S : f[z] <= f[y]
  BY <1>1, LeastValue, NodesAreFinite
<1>. DEFINE T == {n \in S : f[n] = f[z]}
<1>3. PICK x \in T : \A y \in T : x <= y
  <2>1. T \in SUBSET Nat /\ T # {}
    <3>1. Nodes \in SUBSET Nat
      BY DEF Nodes
    <3>2. T \in SUBSET S /\ z \in T
      BY <1>2
    <3>. HIDE DEF T
    <3>. QED BY <3>1, <3>2
  <2>. HIDE DEF T
  <2>. QED BY <2>1, LeastExists
<1>4. ASSUME NEW y \in S PROVE Before(q, x, y)
  <2>1. x \in S /\ f[x] = f[z] /\ f[z] <= f[y] /\ x \in Nodes /\ y \in Nodes
    BY <1>2, <1>3
  <2>2. f[y] = f[z] => x <= y
    BY <1>3
  <2>3. f[x] \in Int /\ f[y] \in Int /\ f[x] = QueryDist[q][x] /\ f[y] = QueryDist[q][y]
    BY <1>1, <2>1
  <2>4. f[x] < f[y] \/ (f[x] = f[y] /\ x <= y)
    BY <2>1, <2>2, <2>3
  <2>. QED BY <2>3, <2>4, Zenon DEF Before
<1>5. x \in S
  BY <1>3
<1>. QED BY <1>4, <1>5, Zenon

\* The sampled node that comes before all the others is the entry.
LEMMA EntryIsFirst ==
    ASSUME NEW q \in Queries, NEW x \in Sampled, \A y \in Sampled : Before(q, x, y)
    PROVE  EntryNode(q) = x
<1>1. Sampled \in SUBSET Nodes
  BY DEF Sampled
<1>2. EntryNode(q) = CHOOSE n \in Sampled : \A m \in Sampled : Before(q, n, m)
  BY Zenon DEF EntryNode, Sampled, Before
<1>3. EntryNode(q) \in Sampled /\ \A y \in Sampled : Before(q, EntryNode(q), y)
  BY <1>2, Zenon
<1>4. Before(q, EntryNode(q), x) /\ Before(q, x, EntryNode(q)) /\ EntryNode(q) \in Nodes /\ x \in Nodes
  BY <1>1, <1>3
<1>. QED BY <1>4, BeforeOrders

-----------------------------------------------------------------------------
(* The functions that define Search. *)

\* What is left to do in a search: every pop makes it less.
Rank(s) == Cardinality(Nodes \ s.visited) + Cardinality(Nodes \ s.visited) + Cardinality(Range(s.cand))

\* The parts of a state of a search.
LEMMA StateParts ==
    ASSUME NEW q, NEW s \in SearchStates(q)
    PROVE  /\ s = [cand |-> s.cand, beam |-> s.beam, visited |-> s.visited]
           /\ s.cand \in Heaps(Closeness(q)) /\ s.beam \in Heaps(QueryDist[q]) /\ s.visited \in SUBSET Nodes
           /\ Range(s.cand) \subseteq s.visited /\ Range(s.beam) \subseteq s.visited
BY DEF SearchStates

\* The rank of a search is a number that cannot fall for ever.
LEMMA RankIsNatural == ASSUME NEW q PROVE \A s \in SearchStates(q) : Rank(s) \in Nat
<1>. SUFFICES ASSUME NEW s \in SearchStates(q) PROVE Rank(s) \in Nat
  OBVIOUS
<1>1. Nodes \ s.visited \in SUBSET Nodes /\ Range(s.cand) \in SUBSET Nodes
  BY StateParts, HeapHoldsNodes
<1>. QED BY <1>1, NodesAreFinite DEF Rank

\* A push to the beam leaves it a heap of nodes that are already visited.
LEMMA PushedIsAHeap ==
    ASSUME NEW q \in Queries, NEW h \in Heaps(QueryDist[q]), NEW n \in Nodes \ Range(h)
    PROVE  Pushed(q, h, n) \in Heaps(QueryDist[q]) /\ Range(Pushed(q, h, n)) \subseteq Range(h) \cup {n}
<1>. DEFINE w == PushHeap(QueryDist[q], h, n)
<1>1. w \in Heaps(QueryDist[q]) /\ Range(w) = Range(h) \cup {n}
  BY HeapSteps
<1>. HIDE DEF w
<1>2. CASE Len(w) > BufferSize
  <2>1. w # <<>>
    <3>1. BufferSize \in Nat
      BY SearchSizes DEF BufferSize
    <3>2. Len(<<>>) = 0
      OBVIOUS
    <3>. QED BY <1>2, <3>1, <3>2
  <2>2. PopHeap(QueryDist[q], w) \in Heaps(QueryDist[q]) /\ Range(PopHeap(QueryDist[q], w)) = Range(w) \ {w[1]}
    BY <1>1, <2>1, HeapSteps
  <2>3. Pushed(q, h, n) = PopHeap(QueryDist[q], w)
    BY <1>2 DEF Pushed, w
  <2>. QED BY <1>1, <2>2, <2>3
<1>3. CASE ~(Len(w) > BufferSize)
  <2>1. Pushed(q, h, n) = w
    BY <1>3 DEF Pushed, w
  <2>. QED BY <1>1, <2>1
<1>. QED BY <1>2, <1>3

\* A node is made a candidate at most once.
LEMMA VisitNodeRank ==
    ASSUME NEW q \in Queries, NEW s \in SearchStates(q), NEW n \in Nodes
    PROVE  VisitNode(q, s, n) \in SearchStates(q) /\ Rank(VisitNode(q, s, n)) <= Rank(s)
<1>. DEFINE v == VisitNode(q, s, n)
<1>0. /\ s = [cand |-> s.cand, beam |-> s.beam, visited |-> s.visited]
      /\ s.cand \in Heaps(Closeness(q)) /\ s.beam \in Heaps(QueryDist[q]) /\ s.visited \in SUBSET Nodes
      /\ Range(s.cand) \subseteq s.visited /\ Range(s.beam) \subseteq s.visited
  BY StateParts
<1>3. CASE n \in s.visited
  <2>1. v = s
    BY <1>3 DEF VisitNode
  <2>2. Rank(s) <= Rank(s)
    BY RankIsNatural
  <2>. QED BY <2>1, <2>2
<1>4. CASE n \notin s.visited
  <2>0. n \in Nodes \ Range(s.cand) /\ n \in Nodes \ Range(s.beam)
    BY <1>0, <1>4
  <2>1. v \in SearchStates(q) /\ v.visited = s.visited \cup {n}
        /\ (Range(v.cand) = Range(s.cand) \/ Range(v.cand) = Range(s.cand) \cup {n})
    <3>. DEFINE c == PushHeap(Closeness(q), s.cand, n)
                b == Pushed(q, s.beam, n)
    <3>1. c \in Heaps(Closeness(q)) /\ Range(c) = Range(s.cand) \cup {n}
      <4>. DEFINE d == Closeness(q)
      <4>1. d \in {QueryDist[q], Closeness(q)} /\ s.cand \in Heaps(d)
        BY <1>0
      <4>2. \A m \in Nodes \ Range(s.cand) :
                PushHeap(d, s.cand, m) \in Heaps(d) /\ Range(PushHeap(d, s.cand, m)) = Range(s.cand) \cup {m}
        BY <4>1, HeapSteps
      <4>3. PushHeap(d, s.cand, n) \in Heaps(d) /\ Range(PushHeap(d, s.cand, n)) = Range(s.cand) \cup {n}
        BY <2>0, <4>2
      <4>. QED BY <4>3
    <3>2. b \in Heaps(QueryDist[q]) /\ Range(b) \subseteq Range(s.beam) \cup {n}
      BY <1>0, <2>0, PushedIsAHeap
    <3>3. v = [cand |-> c, beam |-> b, visited |-> s.visited \cup {n}]
          \/ v = [cand |-> s.cand, beam |-> s.beam, visited |-> s.visited \cup {n}]
      BY <1>0, <1>4 DEF VisitNode
    <3>. HIDE DEF v, c, b
    <3>4. CASE v = [cand |-> c, beam |-> b, visited |-> s.visited \cup {n}]
      BY <1>0, <3>1, <3>2, <3>4 DEF SearchStates
    <3>5. CASE v = [cand |-> s.cand, beam |-> s.beam, visited |-> s.visited \cup {n}]
      BY <1>0, <3>5 DEF SearchStates
    <3>. QED BY <3>3, <3>4, <3>5
  <2>2. Nodes \ v.visited = (Nodes \ s.visited) \ {n} /\ n \in Nodes \ s.visited
    BY <2>1, <1>4
  <2>. HIDE DEF v
  <2>3. Cardinality(Nodes \ v.visited) = Cardinality(Nodes \ s.visited) - 1
    <3>1. IsFiniteSet(Nodes \ s.visited)
      BY NodesAreFinite
    <3>. QED BY <2>2, <3>1, FS_RemoveElement
  <2>7. Range(s.cand) \in SUBSET Nodes /\ Range(v.cand) \in SUBSET Nodes
    BY <1>0, <2>1, HeapHoldsNodes, StateParts
  <2>4. Cardinality(Range(v.cand)) <= Cardinality(Range(s.cand)) + 1
    <3>. DEFINE R == Range(s.cand)
    <3>1. IsFiniteSet(R) /\ Cardinality(R) \in Nat
      BY <2>7, NodesAreFinite
    <3>2. Cardinality(R \cup {n}) = IF n \in R THEN Cardinality(R) ELSE Cardinality(R) + 1
      BY <3>1, FS_AddElement
    <3>3. Range(v.cand) = R \/ Range(v.cand) = R \cup {n}
      BY <2>1
    <3>. HIDE DEF R
    <3>4. Cardinality(Range(v.cand)) <= Cardinality(R) + 1
      <4>1. CASE Range(v.cand) = R
        BY <3>1, <4>1
      <4>2. CASE Range(v.cand) = R \cup {n}
        <5>1. Cardinality(Range(v.cand)) = Cardinality(R \cup {n})
          BY <4>2, Zenon
        <5>. QED BY <3>1, <3>2, <5>1
      <4>. QED BY <3>3, <4>1, <4>2
    <3>. QED BY <3>4 DEF R
  <2>5. Cardinality(Nodes \ s.visited) \in Nat /\ Cardinality(Range(s.cand)) \in Nat
        /\ Cardinality(Range(v.cand)) \in Nat
    <3>1. Cardinality(Nodes \ s.visited) \in Nat
      BY NodesAreFinite
    <3>2. Cardinality(Range(s.cand)) \in Nat /\ Cardinality(Range(v.cand)) \in Nat
      BY <2>7, NodesAreFinite
    <3>. QED BY <3>1, <3>2
  <2>6. Rank(v) <= Rank(s)
    BY <2>3, <2>4, <2>5 DEF Rank
  <2>. QED BY <2>1, <2>6 DEF v
<1>. QED BY <1>3, <1>4

\* A scan is defined by recursion on the number of links looked at.
LEMMA ScanExists ==
    ASSUME NEW g, NEW q, NEW s0, NEW c
    PROVE  Scanned(g, q, s0, c) =
               [i \in 0 .. M |-> IF i = 0 THEN s0
                                 ELSE VisitNode(q, Scanned(g, q, s0, c)[i - 1], g[c][i - 1])]
<1>. DEFINE After(f, k) == f = [i \in 0 .. k |-> IF i = 0 THEN s0 ELSE VisitNode(q, f[i - 1], g[c][i - 1])]
            Bad == {k \in Nat : ~ \E f : After(f, k)}
<1>1. Bad = {}
  <2>. SUFFICES ASSUME Bad # {} PROVE FALSE
    OBVIOUS
  <2>1. PICK k \in Bad : \A j \in Bad : k <= j
    <3>1. Bad \in SUBSET Nat
      OBVIOUS
    <3>. HIDE DEF Bad
    <3>. QED BY <3>1, LeastExists
  <2>2. CASE k = 0
    <3>. DEFINE f == [i \in 0 .. 0 |-> s0]
    <3>1. After(f, 0)
      OBVIOUS
    <3>. QED BY <3>1, <2>2
  <2>3. CASE k # 0
    <3>1. k - 1 \in Nat /\ k - 1 \notin Bad
      BY <2>1, <2>3
    <3>2. PICK f : After(f, k - 1)
      BY <3>1
    <3>. DEFINE h == [i \in 0 .. k |-> IF i = 0 THEN s0 ELSE VisitNode(q, f[i - 1], g[c][i - 1])]
    <3>3. ASSUME NEW i \in 0 .. k - 1 PROVE h[i] = f[i]
      BY <3>2, <3>1
    <3>4. After(h, k)
      <4>1. \A i \in 0 .. k : i # 0 => i - 1 \in 0 .. k - 1
        BY <3>1
      <4>2. \A i \in 0 .. k : i # 0 => h[i - 1] = f[i - 1]
        BY <4>1, <3>3
      <4>. HIDE DEF h
      <4>3. h = [i \in 0 .. k |-> IF i = 0 THEN s0 ELSE VisitNode(q, h[i - 1], g[c][i - 1])]
        BY <4>2 DEF h
      <4>. QED BY <4>3
    <3>. QED BY <3>4, <2>1
  <2>. QED BY <2>2, <2>3
<1>2. M \in Nat
  BY SearchSizes
<1>3. PICK f : After(f, M)
  BY <1>1, <1>2
<1>. QED BY <1>3 DEF Scanned

LinkTables == [Nodes -> [Slots -> Nodes]]

\* processCandidateNode link by link.
LEMMA ScanSteps ==
    ASSUME NEW g, NEW q, NEW s0, NEW c, NEW S, S = Scanned(g, q, s0, c)
    PROVE  S[0] = s0 /\ \A i \in Slots : S[i + 1] = VisitNode(q, S[i], g[c][i])
<1>1. M \in Nat
  BY SearchSizes
<1>2. S = [i \in 0 .. M |-> IF i = 0 THEN s0 ELSE VisitNode(q, S[i - 1], g[c][i - 1])]
  BY ScanExists
<1>3. S[0] = s0
  BY <1>1, <1>2
<1>4. ASSUME NEW i \in Slots
      PROVE  S[i + 1] = VisitNode(q, S[i], g[c][i])
  <2>1. i + 1 \in 0 .. M /\ i + 1 # 0 /\ (i + 1) - 1 = i
    BY <1>1 DEF Slots
  <2>. QED BY <1>2, <2>1
<1>. QED BY <1>3, <1>4

\* Looking at links adds no work to a search.
LEMMA ScanRank ==
    ASSUME NEW g \in LinkTables, NEW q \in Queries, NEW s0 \in SearchStates(q), NEW c \in Nodes,
           NEW S, S = Scanned(g, q, s0, c)
    PROVE  \A i \in 0 .. M : S[i] \in SearchStates(q) /\ Rank(S[i]) <= Rank(s0)
<1>. DEFINE Bad == {i \in 0 .. M : ~(S[i] \in SearchStates(q) /\ Rank(S[i]) <= Rank(s0))}
<1>. SUFFICES ASSUME Bad # {} PROVE FALSE
  OBVIOUS
<1>0. M \in Nat /\ Rank(s0) \in Nat
  BY SearchSizes, RankIsNatural
<1>1. PICK k \in Bad : \A j \in Bad : k <= j
  <2>1. Bad \in SUBSET Nat
    BY <1>0
  <2>. HIDE DEF Bad
  <2>. QED BY <2>1, LeastExists
<1>2. k # 0
  BY <1>0, ScanSteps
<1>3. k - 1 \in Slots /\ k - 1 \in 0 .. M /\ k - 1 \notin Bad /\ (k - 1) + 1 = k
  BY <1>0, <1>1, <1>2 DEF Slots
<1>4. S[k - 1] \in SearchStates(q) /\ Rank(S[k - 1]) <= Rank(s0)
  BY <1>3
<1>5. S[k] = VisitNode(q, S[k - 1], g[c][k - 1])
  BY <1>3, ScanSteps
<1>6. g[c][k - 1] \in Nodes
  BY <1>3 DEF LinkTables
<1>7. S[k] \in SearchStates(q) /\ Rank(S[k]) <= Rank(S[k - 1])
  BY <1>4, <1>5, <1>6, VisitNodeRank
<1>8. Rank(S[k]) \in Nat /\ Rank(S[k - 1]) \in Nat
  BY <1>4, <1>7, RankIsNatural
<1>. QED BY <1>0, <1>1, <1>4, <1>7, <1>8

\* Links to visited nodes change nothing.
LEMMA ScanPassesOver ==
    ASSUME NEW g, NEW q, NEW s0, NEW c, NEW S, S = Scanned(g, q, s0, c),
           NEW i \in 0 .. M, NEW j \in 0 .. M, i <= j,
           \A k \in i .. j - 1 : g[c][k] \in S[i].visited
    PROVE  S[j] = S[i]
<1>. DEFINE Bad == {k \in 0 .. M : i <= k /\ k <= j /\ S[k] # S[i]}
<1>. SUFFICES ASSUME Bad # {} PROVE FALSE
  OBVIOUS
<1>0. M \in Nat
  BY SearchSizes
<1>1. PICK k \in Bad : \A l \in Bad : k <= l
  <2>1. Bad \in SUBSET Nat
    BY <1>0
  <2>. HIDE DEF Bad
  <2>. QED BY <2>1, LeastExists
<1>2. k # i /\ k - 1 \in Slots /\ k - 1 \in i .. j - 1 /\ (k - 1) + 1 = k
  BY <1>0, <1>1 DEF Slots
<1>3. S[k - 1] = S[i]
  BY <1>0, <1>1, <1>2
<1>4. S[k] = VisitNode(q, S[k - 1], g[c][k - 1])
  BY <1>2, ScanSteps
<1>5. g[c][k - 1] \in S[i].visited
  BY <1>2
<1>. QED BY <1>1, <1>3, <1>4, <1>5 DEF VisitNode

\* What a search that pops its closest candidate goes on with.
AfterPop(g, q, s) == Scanned(g, q, Popped(q, s), s.cand[1])[M]

\* A pop and the scan after it leave less to do.
LEMMA PopLowersRank ==
    ASSUME NEW g \in LinkTables, NEW q \in Queries, NEW s \in SearchStates(q), s.cand # <<>>
    PROVE  /\ s.cand[1] \in Nodes
           /\ Popped(q, s) \in SearchStates(q)
           /\ AfterPop(g, q, s) \in SearchStates(q)
           /\ Rank(AfterPop(g, q, s)) < Rank(s)
<1>. DEFINE c == s.cand[1]
            h == PopHeap(Closeness(q), s.cand)
<1>0. /\ s = [cand |-> s.cand, beam |-> s.beam, visited |-> s.visited]
      /\ s.cand \in Heaps(Closeness(q)) /\ s.beam \in Heaps(QueryDist[q]) /\ s.visited \in SUBSET Nodes
      /\ Range(s.cand) \subseteq s.visited /\ Range(s.beam) \subseteq s.visited
  BY StateParts
<1>1. c \in Range(s.cand) /\ Range(s.cand) \in SUBSET Nodes
  BY <1>0, HeapHoldsNodes
<1>2. c \in Nodes
  BY <1>1
<1>3. h \in Heaps(Closeness(q)) /\ Range(h) = Range(s.cand) \ {c}
  BY <1>0, HeapSteps
<1>4. Popped(q, s) = [cand |-> h, beam |-> s.beam, visited |-> s.visited]
  BY <1>0 DEF Popped
<1>. HIDE DEF c, h
<1>5. Popped(q, s) \in SearchStates(q) /\ Range(Popped(q, s).cand) = Range(s.cand) \ {c}
      /\ Popped(q, s).visited = s.visited
  BY <1>0, <1>3, <1>4 DEF SearchStates
<1>6. Rank(Popped(q, s)) < Rank(s)
  <2>1. Cardinality(Range(s.cand) \ {c}) = Cardinality(Range(s.cand)) - 1
    <3>1. IsFiniteSet(Range(s.cand))
      BY <1>1, NodesAreFinite
    <3>. QED BY <1>1, <3>1, FS_RemoveElement
  <2>2. Cardinality(Nodes \ s.visited) \in Nat
    BY NodesAreFinite
  <2>3. Cardinality(Range(s.cand)) \in Nat
    BY <1>1, NodesAreFinite
  <2>. QED BY <1>5, <2>1, <2>2, <2>3 DEF Rank
<1>7. AfterPop(g, q, s) \in SearchStates(q) /\ Rank(AfterPop(g, q, s)) <= Rank(Popped(q, s))
  <2>1. M \in 0 .. M
    BY SearchSizes
  <2>2. AfterPop(g, q, s) = Scanned(g, q, Popped(q, s), c)[M]
    BY DEF AfterPop, c
  <2>. QED BY <1>2, <1>5, <2>1, <2>2, ScanRank
<1>8. Rank(AfterPop(g, q, s)) \in Nat /\ Rank(Popped(q, s)) \in Nat /\ Rank(s) \in Nat
  BY <1>5, <1>7, RankIsNatural
<1>9. Rank(AfterPop(g, q, s)) < Rank(s)
  BY <1>6, <1>7, <1>8
<1>. QED BY <1>2, <1>5, <1>7, <1>9 DEF c

Ended(q, s) == IF s.cand = <<>> THEN TRUE ELSE Hopeless(q, s.beam, s.cand[1])

\* No search has a rank above that of one that has seen nothing.
LEMMA RanksAreBounded == ASSUME NEW q PROVE \A s \in SearchStates(q) : Rank(s) < 3 * NumNodes + 1
<1>. SUFFICES ASSUME NEW s \in SearchStates(q) PROVE Rank(s) < 3 * NumNodes + 1
  OBVIOUS
<1>1. IsFiniteSet(Nodes) /\ Cardinality(Nodes) = NumNodes
  BY SearchSizes, FS_Interval DEF Nodes
<1>2. ASSUME NEW T \in SUBSET Nodes PROVE Cardinality(T) \in Nat /\ Cardinality(T) <= NumNodes
  BY <1>1, NodesAreFinite, FS_Subset
<1>3. Range(s.cand) \in SUBSET Nodes
  BY StateParts, HeapHoldsNodes
<1>4. Cardinality(Range(s.cand)) \in Nat /\ Cardinality(Range(s.cand)) <= NumNodes
  BY <1>2, <1>3
<1>5. Cardinality(Nodes \ s.visited) \in Nat /\ Cardinality(Nodes \ s.visited) <= NumNodes
  BY <1>2
<1>. QED BY <1>4, <1>5, SearchSizes DEF Rank

\* The beam a search ends with is defined by recursion on its rank.
LEMMA BeamExists ==
    ASSUME NEW g \in LinkTables, NEW q \in Queries, NEW s \in SearchStates(q)
    PROVE  BeamOf(g, q)[s] = IF Ended(q, s) THEN s.beam
                             ELSE BeamOf(g, q)[AfterPop(g, q, s)]
<1>. DEFINE Goes(f, r) == IF Ended(q, r) THEN r.beam ELSE f[AfterPop(g, q, r)]
            Upto(f, k) == \A r \in SearchStates(q) : Rank(r) < k => f[r] = Goes(f, r)
            Bad == {k \in Nat : ~ \E f : Upto(f, k)}
<1>0. ASSUME NEW r \in SearchStates(q), ~Ended(q, r)
      PROVE  AfterPop(g, q, r) \in SearchStates(q)
             /\ Rank(AfterPop(g, q, r)) < Rank(r)
  <2>1. r.cand # <<>>
    BY <1>0 DEF Ended
  <2>. QED BY <2>1, PopLowersRank
<1>1. Bad = {}
  <2>. SUFFICES ASSUME Bad # {} PROVE FALSE
    OBVIOUS
  <2>1. PICK k \in Bad : \A j \in Bad : k <= j
    <3>1. Bad \in SUBSET Nat
      OBVIOUS
    <3>. HIDE DEF Bad
    <3>. QED BY <3>1, LeastExists
  <2>2. CASE k = 0
    <3>1. \A r \in SearchStates(q) : ~(Rank(r) < 0)
      BY RankIsNatural
    <3>2. Upto({}, 0)
      BY <3>1
    <3>. QED BY <3>2, <2>2
  <2>3. CASE k # 0
    <3>1. k - 1 \in Nat /\ k - 1 \notin Bad
      BY <2>1, <2>3
    <3>2. PICK f : Upto(f, k - 1)
      BY <3>1
    <3>. DEFINE h == [r \in SearchStates(q) |-> Goes(f, r)]
    <3>3. ASSUME NEW r \in SearchStates(q), Rank(r) < k - 1
          PROVE  h[r] = f[r]
      BY <3>2, <3>3
    <3>. HIDE DEF Goes
    <3>4. ASSUME NEW r \in SearchStates(q), Rank(r) < k
          PROVE  h[r] = Goes(h, r)
      <4>1. h[r] = Goes(f, r)
        OBVIOUS
      <4>2. CASE Ended(q, r)
        BY <4>1, <4>2 DEF Goes
      <4>3. CASE ~Ended(q, r)
        <5>. DEFINE n == AfterPop(g, q, r)
        <5>1. n \in SearchStates(q) /\ Rank(n) < Rank(r)
          BY <4>3, <1>0
        <5>. HIDE DEF n
        <5>2. Rank(n) < k - 1
          <6>1. Rank(n) \in Nat /\ Rank(r) \in Nat
            BY <5>1, RankIsNatural
          <6>. QED BY <6>1, <5>1, <3>4, <3>1
        <5>3. h[n] = f[n]
          BY <5>1, <5>2, <3>3
        <5>4. Goes(f, r) = f[n] /\ Goes(h, r) = h[n]
          BY <4>3 DEF Goes, n
        <5>. QED BY <4>1, <5>3, <5>4
      <4>. QED BY <4>2, <4>3
    <3>5. Upto(h, k)
      BY <3>4
    <3>. QED BY <3>5, <2>1
  <2>. QED BY <2>2, <2>3
<1>2. 3 * NumNodes + 1 \in Nat
  BY SearchSizes
<1>3. PICK f : Upto(f, 3 * NumNodes + 1)
  BY <1>1, <1>2
<1>4. ASSUME NEW r \in SearchStates(q) PROVE f[r] = Goes(f, r)
  BY <1>3, RanksAreBounded
<1>. DEFINE F == [r \in SearchStates(q) |-> f[r]]
<1>5. F = [r \in SearchStates(q) |-> Goes(F, r)]
  <2>1. ASSUME NEW r \in SearchStates(q) PROVE Goes(f, r) = Goes(F, r)
    BY <1>0
  <2>. QED BY <1>4, <2>1
<1>. HIDE DEF F
<1>6. F = [r \in SearchStates(q) |->
             IF r.cand = <<>> THEN r.beam
             ELSE IF Hopeless(q, r.beam, r.cand[1]) THEN r.beam
                  ELSE F[Scanned(g, q, Popped(q, r), r.cand[1])[M]]]
  BY <1>5 DEF Ended, AfterPop
<1>7. BeamOf(g, q) = [r \in SearchStates(q) |->
             IF r.cand = <<>> THEN r.beam
             ELSE IF Hopeless(q, r.beam, r.cand[1]) THEN r.beam
                  ELSE BeamOf(g, q)[Scanned(g, q, Popped(q, r), r.cand[1])[M]]]
  BY <1>6 DEF BeamOf
<1>. QED BY <1>7 DEF Ended, AfterPop

-----------------------------------------------------------------------------
(* The invariant. *)

\* The state a search of query q begins with.
Begin(q) == Seed(EntryNode(q))

ShapeInv ==
    /\ links \in Graphs
    /\ probe \in [SlotIds -> Nat]
    /\ best \in [SlotIds -> Nodes]
    /\ state \in [SlotIds -> {"Unscheduled", "ProcessingLinks", "Done"}]
    /\ query \in [SlotIds -> Queries]
    /\ search = [s \in SlotIds |-> search[s]]
    /\ \A s \in SlotIds : search[s] \in SearchStates(query[s])
    /\ node \in [SlotIds -> Nodes]
    /\ linkIdx \in [SlotIds -> 0 .. M]
    /\ nextQuery \in Nat
    /\ results = [q \in Queries |-> results[q]]

\* While the entries are sought, a slot holds the first of the nearest it probed.
EntryInv ==
    phase = "entries" => \A s \in SlotIds :
        /\ state[s] = "Unscheduled"
        /\ probe[s] % StepSize = 0
        /\ best[s] \in Sampled /\ best[s] <= probe[s]
        /\ \A n \in Sampled : n < probe[s] => Before(query[s], best[s], n)

\* From r a search of query q comes to the beam it comes to from the beginning.
OnTheWay(q, r) == BeamOf(links, q)[r] = BeamOf(links, q)[Begin(q)]

SlotInv(s) ==
    /\ state[s] = "Unscheduled" => OnTheWay(query[s], search[s])
    /\ state[s] = "ProcessingLinks" =>
           \E r \in SearchStates(query[s]) :
               /\ search[s] = Scanned(links, query[s], r, node[s])[linkIdx[s]]
               /\ OnTheWay(query[s], Scanned(links, query[s], r, node[s])[M])

TurnInv == phase # "entries" => \A s \in SlotIds : SlotInv(s)

BatchInv == ShapeInv /\ EntryInv /\ TurnInv /\ SameAsSearch

\* A graph is a table of links.
LEMMA GraphsAreTables == Graphs \subseteq LinkTables
BY GraphsAssumption DEF LinkTables

\* There are no more slots than queries.
LEMMA SlotsAreQueries == NumSlots \in Nat /\ SlotIds \subseteq Queries
BY SearchSizes, ConcurrencyAssumption DEF NumSlots, SlotIds, Queries

\* initializeSearch always samples node 0.
LEMMA FirstNodeIsSampled == 0 \in Sampled
<1>1. 0 \in Nodes
  BY SearchSizes DEF Nodes
<1>2. (0 * StepSize) % StepSize = 0
  BY StepSizeMoves, MultiplesLeaveNothing
<1>3. 0 * StepSize = 0
  BY StepSizeMoves
<1>. QED BY <1>1, <1>2, <1>3 DEF Sampled

\* The entry of a query is a node.
LEMMA EntryIsANode == \A q \in Queries : EntryNode(q) \in Nodes
<1>1. Sampled # {} /\ Sampled \in SUBSET Nodes
  BY FirstNodeIsSampled DEF Sampled
<1>2. ASSUME NEW q \in Queries PROVE EntryNode(q) \in Nodes
  <2>1. PICK x \in Sampled : \A y \in Sampled : Before(q, x, y)
    BY <1>1, FirstExists
  <2>. QED BY <1>1, <2>1, EntryIsFirst
<1>. QED BY <1>2

\* A slot that has been seeded holds a state of a search.
LEMMA SeedIsAState == ASSUME NEW q PROVE \A n \in Nodes : Seed(n) \in SearchStates(q)
<1>. SUFFICES ASSUME NEW n \in Nodes PROVE Seed(n) \in SearchStates(q)
  OBVIOUS
<1>1. <<n>> \in Heaps(Closeness(q)) /\ <<n>> \in Heaps(QueryDist[q]) /\ Range(<<n>>) = {n}
  BY OneIsAHeap
<1>. DEFINE h == <<n>>
<1>. HIDE DEF h
<1>2. [cand |-> h, beam |-> h, visited |-> {n}] \in SearchStates(q)
  BY <1>1 DEF SearchStates, h
<1>. QED BY <1>2 DEF Seed, h

\* The invariant holds when the call starts.
LEMMA InitBatch == Init => BatchInv
<1>. SUFFICES ASSUME Init PROVE BatchInv
  OBVIOUS
<1>. USE DEF Init
<1>1. 0 \in Nodes /\ 0 \in 0 .. M /\ \A s \in SlotIds : Seed(0) \in SearchStates(query[s])
  BY SearchSizes, SeedIsAState DEF Nodes
<1>2. ShapeInv
  BY <1>1, SlotsAreQueries DEF ShapeInv
<1>3. EntryInv
  <2>1. 0 % StepSize = 0 /\ 0 <= 0 /\ \A n \in Sampled : ~(n < 0)
    BY FirstNodeIsSampled DEF Sampled, Nodes
  <2>. QED BY <2>1, FirstNodeIsSampled, Zenon DEF EntryInv
<1>4. TurnInv
  BY DEF TurnInv
<1>5. SameAsSearch
  BY DEF SameAsSearch
<1>. QED BY <1>2, <1>3, <1>4, <1>5 DEF BatchInv

\* A slot that a step leaves alone keeps its part of the invariant.
LEMMA SlotKept ==
    ASSUME NEW s \in SlotIds, SlotInv(s), links' = links, state'[s] = state[s], query'[s] = query[s],
           search'[s] = search[s], node'[s] = node[s], linkIdx'[s] = linkIdx[s]
    PROVE  SlotInv(s)'
BY DEF SlotInv, OnTheWay

\* A step that changes neither graph nor answers leaves them right.
LEMMA AnswersKept == SameAsSearch /\ links' = links /\ results' = results => SameAsSearch'
BY DEF SameAsSearch

\* Every step keeps the slots well formed.
LEMMA StepsKeepShape ==
    ASSUME ShapeInv, Next
    PROVE  ShapeInv'
<1>. USE DEF ShapeInv
<1>1. CASE ProbeNode
  <2>1. StepSize \in Nat
    BY StepSizeMoves
  <2>2. probe' \in [SlotIds -> Nat]
    <3>1. probe' = [probe EXCEPT ![turn] = @ + StepSize] \/ probe' = probe
      BY <1>1, Zenon DEF ProbeNode
    <3>. QED BY <2>1, <3>1
  <2>3. \A s \in SlotIds : probe[s] < NumNodes => probe[s] \in Nodes
    BY SearchSizes DEF Nodes
  <2>4. best' \in [SlotIds -> Nodes]
    <3>1. CASE UNCHANGED best
      BY <3>1
    <3>2. CASE turn \in SlotIds /\ probe[turn] < NumNodes
      <4>1. probe[turn] \in Nodes
        BY <3>2, <2>3
      <4>. DEFINE b == IF QueryDist[query[turn]][probe[turn]] < QueryDist[query[turn]][best[turn]]
                       THEN probe[turn] ELSE best[turn]
      <4>2. b \in Nodes
        BY <4>1, <3>2, Zenon
      <4>3. best' = [best EXCEPT ![turn] = b]
        BY <1>1, <3>2, Zenon DEF ProbeNode
      <4>. HIDE DEF b
      <4>. QED BY <4>2, <4>3
    <3>3. CASE turn \notin SlotIds
      BY <3>3, <1>1 DEF ProbeNode
    <3>. QED BY <3>1, <3>2, <3>3, <1>1 DEF ProbeNode
  <2>. QED BY <1>1, <2>2, <2>4 DEF ProbeNode
<1>2. CASE SeedSlots
  <2>1. query' = query /\ search' = [s \in SlotIds |-> Seed(best[s])]
    BY <1>2 DEF SeedSlots
  <2>2. \A s \in SlotIds : search'[s] \in SearchStates(query'[s])
    BY <2>1, SeedIsAState
  <2>. QED BY <1>2, <2>1, <2>2 DEF SeedSlots
<1>3. ASSUME NEW s \in SlotIds, Turn(s) PROVE ShapeInv'
  <2>1. CASE SkipDone(s)
    BY <2>1 DEF SkipDone
  <2>2. CASE PopCandidate(s)
    <3>. DEFINE c == search[s].cand[1]
                w == Popped(query[s], search[s])
    <3>1. links \in LinkTables /\ query[s] \in Queries /\ search[s] \in SearchStates(query[s])
          /\ search[s].cand # <<>>
      BY <2>2, GraphsAreTables DEF PopCandidate
    <3>2. c \in Nodes /\ w \in SearchStates(query[s])
      BY <3>1, PopLowersRank
    <3>3. search' = [search EXCEPT ![s] = w] /\ node' = [node EXCEPT ![s] = c] /\ query' = query
      BY <2>2 DEF PopCandidate
    <3>. HIDE DEF c, w
    <3>4. 0 \in 0 .. M
      BY SearchSizes
    <3>5. search' = [r \in SlotIds |-> search'[r]]
          /\ \A r \in SlotIds : search'[r] \in SearchStates(query'[r])
      BY <3>2, <3>3
    <3>6. node' \in [SlotIds -> Nodes]
      BY <3>2, <3>3
    <3>. QED BY <2>2, <3>4, <3>5, <3>6 DEF PopCandidate
  <2>3. CASE FinishSlot(s)
    BY <2>3 DEF FinishSlot, Answer
  <2>4. CASE RefillSlot(s)
    <3>. DEFINE w == Seed(EntryNode(nextQuery))
    <3>1. nextQuery \in Queries /\ w \in SearchStates(nextQuery) /\ 0 \in 0 .. M
      <4>1. nextQuery \in Queries
        BY <2>4, SearchSizes DEF RefillSlot, Queries
      <4>. QED BY <4>1, EntryIsANode, SeedIsAState, SearchSizes
    <3>2. search' = [search EXCEPT ![s] = w] /\ query' = [query EXCEPT ![s] = nextQuery]
      BY <2>4 DEF RefillSlot
    <3>. HIDE DEF w
    <3>3. search' = [r \in SlotIds |-> search'[r]]
          /\ \A r \in SlotIds : search'[r] \in SearchStates(query'[r])
      BY <3>1, <3>2
    <3>. QED BY <2>4, <3>1, <3>3 DEF RefillSlot, Answer
  <2>5. CASE ProcessOneLink(s)
    <3>. DEFINE new(i) == links[node[s]][i] \notin search[s].visited
                stop == {i \in Slots : i >= linkIdx[s] /\ new(i) /\ \A j \in linkIdx[s] .. i - 1 : ~new(j)}
                x == CHOOSE i \in stop : TRUE
    <3>1. search' = [search EXCEPT ![s] = IF stop = {} THEN @ ELSE VisitNode(query[s], @, links[node[s]][x])]
          /\ linkIdx' = [linkIdx EXCEPT ![s] = IF stop = {} THEN M ELSE 1 + x]
      BY <2>5 DEF ProcessOneLink
    <3>2. stop # {} => x \in Slots
      OBVIOUS
    <3>. HIDE DEF stop, x
    <3>3. M \in Nat
      BY SearchSizes
    <3>4. linkIdx' \in [SlotIds -> 0 .. M]
      BY <3>1, <3>2, <3>3 DEF Slots
    <3>5. search' = [r \in SlotIds |-> search'[r]]
          /\ \A r \in SlotIds : search'[r] \in SearchStates(query[r])
      <4>1. CASE stop = {}
        <5>1. search' = search
          BY <4>1, <3>1
        <5>. QED BY <5>1
      <4>2. CASE stop # {}
        <5>. DEFINE w == VisitNode(query[s], search[s], links[node[s]][x])
        <5>1. links[node[s]][x] \in Nodes
          BY <4>2, <3>2, GraphsAreTables DEF LinkTables
        <5>2. w \in SearchStates(query[s])
          <6>1. query[s] \in Queries /\ search[s] \in SearchStates(query[s])
            OBVIOUS
          <6>. QED BY <5>1, <6>1, VisitNodeRank
        <5>3. search' = [search EXCEPT ![s] = w]
          BY <4>2, <3>1
        <5>. HIDE DEF w
        <5>. QED BY <5>2, <5>3
      <4>. QED BY <4>1, <4>2
    <3>. QED BY <2>5, <3>4, <3>5 DEF ProcessOneLink
  <2>. QED BY <1>3, <2>1, <2>2, <2>3, <2>4, <2>5 DEF Turn
<1>4. CASE Return
  BY <1>4 DEF Return
<1>. QED BY <1>1, <1>2, <1>3, <1>4 DEF Next

\* One comparison: the best of the sampled nodes probed stays the nearest.
LEMMA ProbeKeepsBest ==
    ASSUME ShapeInv, EntryInv, ProbeNode
    PROVE  EntryInv'
<1>. USE DEF ShapeInv
<1>1. phase = "entries" /\ phase' = "entries" /\ state' = state /\ query' = query
  BY Zenon DEF ProbeNode
<1>. SUFFICES ASSUME NEW s \in SlotIds
              PROVE  /\ probe'[s] % StepSize = 0
                     /\ best'[s] \in Sampled /\ best'[s] <= probe'[s]
                     /\ \A n \in Sampled : n < probe'[s] => Before(query[s], best'[s], n)
  BY <1>1, Zenon DEF EntryInv
<1>. DEFINE q == query[s]
            p == probe[s]
            b == best[s]
<1>0. \A n \in Sampled : n < p => Before(q, b, n)
  BY <1>1, Zenon DEF EntryInv
<1>2. p % StepSize = 0 /\ b \in Sampled /\ b <= p /\ p \in Nat /\ q \in Queries
  <2>1. p \in Nat /\ q \in Queries
    OBVIOUS
  <2>. QED BY <1>1, <2>1, Zenon DEF EntryInv
<1>3. CASE turn = s /\ p < NumNodes
  <2>1. p \in Sampled
    BY <1>2, <1>3, SearchSizes DEF Sampled, Nodes
  <2>2. probe'[s] = p + StepSize
    <3>1. probe' = [probe EXCEPT ![turn] = @ + StepSize]
      BY <1>3, Zenon DEF ProbeNode
    <3>. QED BY <1>3, <3>1
  <2>3. best'[s] = IF QueryDist[q][p] < QueryDist[q][b] THEN p ELSE b
    <3>. DEFINE w == IF QueryDist[query[turn]][probe[turn]] < QueryDist[query[turn]][best[turn]]
                     THEN probe[turn] ELSE best[turn]
    <3>1. best' = [best EXCEPT ![turn] = w]
      BY <1>3, Zenon DEF ProbeNode
    <3>2. w = IF QueryDist[q][p] < QueryDist[q][b] THEN p ELSE b
      BY <1>3, Zenon
    <3>. HIDE DEF w
    <3>3. best'[s] = w
      BY <1>3, <3>1
    <3>. QED BY <3>2, <3>3, Zenon
  <2>. HIDE DEF q, p, b
  <2>4. probe'[s] % StepSize = 0 /\ \A n \in Sampled : n < probe'[s] => n < p \/ n = p
    <3>1. \A n \in Sampled : n \in Nat /\ n % StepSize = 0
      BY DEF Sampled, Nodes
    <3>2. /\ (p + StepSize) % StepSize = 0
          /\ \A n \in Nat : n % StepSize = 0 /\ p <= n /\ n < p + StepSize => n = p
      BY <1>2, StepSizeMoves, NextSample
    <3>. QED BY <1>2, <2>2, <3>1, <3>2
  <2>5. p \in Nodes /\ b \in Nodes /\ \A n \in Sampled : n \in Nodes
    BY <1>2, <2>1 DEF Sampled
  <2>6. best'[s] \in Sampled /\ \A n \in Sampled : n < p \/ n = p => Before(q, best'[s], n)
    <3>1. CASE QueryDist[q][p] < QueryDist[q][b]
      <4>1. best'[s] = p
        BY <2>3, <3>1, Zenon
      <4>2. Before(q, p, p)
        BY <1>2, <2>5, BeforeOrders
      <4>3. ASSUME NEW n \in Sampled, n < p PROVE Before(q, p, n)
        BY <1>2, <2>5, <3>1, <4>3, <1>0, BeforeOrders
      <4>. QED BY <2>1, <4>1, <4>2, <4>3, Zenon
    <3>2. CASE ~(QueryDist[q][p] < QueryDist[q][b])
      <4>1. best'[s] = b
        BY <2>3, <3>2, Zenon
      <4>2. Before(q, b, p)
        BY <1>2, <2>5, <3>2, BeforeOrders
      <4>. QED BY <1>0, <1>2, <4>1, <4>2, Zenon
    <3>. QED BY <3>1, <3>2
  <2>7. best'[s] <= probe'[s]
    <3>1. best'[s] = p \/ best'[s] = b
      BY <2>3
    <3>2. b \in Nat /\ StepSize \in Nat
      BY <2>5, StepSizeMoves DEF Nodes
    <3>. QED BY <1>2, <2>2, <3>1, <3>2
  <2>. QED BY <2>4, <2>6, <2>7, Zenon DEF q
<1>4. CASE ~(turn = s /\ p < NumNodes)
  <2>1. best'[s] = b /\ probe'[s] = p
    <3>1. CASE turn # s
      <4>1. (\E w : best' = [best EXCEPT ![turn] = w]) \/ best' = best
        BY Zenon DEF ProbeNode
      <4>2. (\E w : probe' = [probe EXCEPT ![turn] = w]) \/ probe' = probe
        BY Zenon DEF ProbeNode
      <4>. QED BY <3>1, <4>1, <4>2
    <3>2. CASE turn = s /\ ~(p < NumNodes)
      <4>1. best' = best /\ probe' = probe
        BY <3>2, Zenon DEF ProbeNode
      <4>. QED BY <4>1, Zenon
    <3>. QED BY <1>4, <3>1, <3>2
  <2>. QED BY <1>0, <1>2, <2>1, Zenon
<1>. QED BY <1>3, <1>4

\* Every slot is seeded with the entry node that search would take.
LEMMA SeedBegins ==
    ASSUME ShapeInv, EntryInv, SeedSlots
    PROVE  TurnInv'
<1>. USE DEF ShapeInv
<1>. SUFFICES ASSUME NEW s \in SlotIds PROVE SlotInv(s)'
  BY DEF TurnInv
<1>1. phase = "entries" /\ query' = query /\ state' = state /\ probe[s] >= NumNodes
  BY DEF SeedSlots
<1>2. /\ best[s] \in Sampled /\ state[s] = "Unscheduled" /\ query[s] \in Queries
      /\ \A n \in Sampled : n < probe[s] => Before(query[s], best[s], n)
  <2>1. query[s] \in Queries
    OBVIOUS
  <2>. QED BY <1>1, <2>1, Zenon DEF EntryInv
<1>3. \A n \in Sampled : n < probe[s]
  BY <1>1, SearchSizes DEF Sampled, Nodes
<1>4. \A n \in Sampled : Before(query[s], best[s], n)
  BY <1>2, <1>3, Zenon
<1>5. best[s] = EntryNode(query[s])
  BY <1>2, <1>4, EntryIsFirst
<1>6. search'[s] = Begin(query'[s]) /\ state'[s] = "Unscheduled"
  BY <1>1, <1>2, <1>5 DEF SeedSlots, Begin
<1>. QED BY <1>6 DEF SlotInv, OnTheWay

\* A query is answered with the beam its search ends with.
LEMMA AnswerIsSearch ==
    ASSUME ShapeInv, SameAsSearch, NEW s \in SlotIds, Answer(s), SlotInv(s), links' = links
    PROVE  SameAsSearch'
<1>. USE DEF ShapeInv
<1>1. state[s] = "Unscheduled" /\ Ended(query[s], search[s])
  BY DEF Answer, Finished, Ended
<1>2. links \in LinkTables /\ query[s] \in Queries /\ search[s] \in SearchStates(query[s])
  BY GraphsAreTables
<1>3. BeamOf(links, query[s])[search[s]] = search[s].beam
  BY <1>1, <1>2, BeamExists
<1>4. BeamOf(links, query[s])[Begin(query[s])] = search[s].beam
  BY <1>1, <1>3 DEF SlotInv, OnTheWay
<1>5. BestFirst(query[s], search[s].beam) = Search(links, query[s], {})
  <2>1. {EntryNode(query[s])} \cup {} = {EntryNode(query[s])}
    OBVIOUS
  <2>. QED BY <1>4, <2>1 DEF Search, Begin, Seed
<1>6. results' = [results EXCEPT ![query[s]] = Search(links, query[s], {})]
  BY <1>5 DEF Answer
<1>7. ASSUME NEW q \in Queries
      PROVE  results'[q] = IF q = query[s] THEN Search(links, q, {}) ELSE results[q]
  BY <1>6
<1>8. ASSUME NEW q \in Queries, results'[q] # Unanswered
      PROVE  results'[q] = Search(links, q, {})
  BY <1>7, <1>8 DEF SameAsSearch
<1>. QED BY <1>8 DEF SameAsSearch

\* A pop is the pop of search.
LEMMA PopGoesOn ==
    ASSUME ShapeInv, NEW s \in SlotIds, SlotInv(s), PopCandidate(s)
    PROVE  SlotInv(s)'
<1>. USE DEF ShapeInv
<1>. DEFINE c == search[s].cand[1]
            r == Popped(query[s], search[s])
<1>1. links \in LinkTables /\ query[s] \in Queries /\ search[s] \in SearchStates(query[s])
      /\ search[s].cand # <<>>
  BY GraphsAreTables DEF PopCandidate
<1>2. state[s] = "Unscheduled" /\ ~Ended(query[s], search[s])
  BY DEF PopCandidate, Ended
<1>3. OnTheWay(query[s], AfterPop(links, query[s], search[s]))
  BY <1>1, <1>2, BeamExists DEF SlotInv, OnTheWay
<1>4. r \in SearchStates(query[s])
  BY <1>1, PopLowersRank
<1>5. Scanned(links, query[s], r, c)[0] = r
  BY ScanSteps
<1>6. /\ links' = links /\ query'[s] = query[s] /\ search'[s] = r /\ node'[s] = c
      /\ linkIdx'[s] = 0 /\ state'[s] = "ProcessingLinks"
  BY DEF PopCandidate
<1>7. OnTheWay(query[s], Scanned(links, query[s], r, c)[M])
  BY <1>3 DEF AfterPop
<1>. HIDE DEF c, r
<1>. QED BY <1>4, <1>5, <1>6, <1>7 DEF SlotInv, OnTheWay

\* A slot taken over begins its query afresh.
LEMMA RefillBegins ==
    ASSUME ShapeInv, NEW s \in SlotIds, RefillSlot(s)
    PROVE  SlotInv(s)'
<1>. USE DEF ShapeInv
<1>1. links' = links /\ query'[s] = nextQuery /\ search'[s] = Begin(nextQuery) /\ state'[s] = "Unscheduled"
  BY DEF RefillSlot, Begin
<1>. QED BY <1>1 DEF SlotInv, OnTheWay

\* Passing over links already visited leaves a scan where it is.
LEMMA LinkGoesOn ==
    ASSUME ShapeInv, NEW s \in SlotIds, SlotInv(s), ProcessOneLink(s)
    PROVE  SlotInv(s)'
<1>. USE DEF ShapeInv
<1>. DEFINE g == links
            q == query[s]
            c == node[s]
            new(i) == g[c][i] \notin search[s].visited
            stop == {i \in Slots : i >= linkIdx[s] /\ new(i) /\ \A j \in linkIdx[s] .. i - 1 : ~new(j)}
            x == CHOOSE i \in stop : TRUE
<1>1. state[s] = "ProcessingLinks"
  BY DEF ProcessOneLink
<1>2. PICK r \in SearchStates(q) :
          /\ search[s] = Scanned(g, q, r, c)[linkIdx[s]]
          /\ OnTheWay(q, Scanned(g, q, r, c)[M])
  BY <1>1 DEF SlotInv
<1>. DEFINE S == Scanned(g, q, r, c)
<1>3. /\ links' = links /\ query' = query /\ node' = node
      /\ search'[s] = IF stop = {} THEN search[s] ELSE VisitNode(q, search[s], g[c][x])
      /\ linkIdx'[s] = IF stop = {} THEN M ELSE 1 + x
      /\ state'[s] = IF linkIdx'[s] >= M THEN "Unscheduled" ELSE state[s]
  BY DEF ProcessOneLink
<1>4. M \in Nat /\ linkIdx[s] \in 0 .. M
  BY SearchSizes
<1>5. search'[s] = S[linkIdx'[s]] /\ linkIdx'[s] \in 0 .. M
  <2>1. CASE stop = {}
    <3>1. \A k \in linkIdx[s] .. M - 1 : ~new(k)
      <4>. DEFINE Bad == {k \in linkIdx[s] .. M - 1 : new(k)}
      <4>. SUFFICES ASSUME Bad # {} PROVE FALSE
        OBVIOUS
      <4>1. PICK k \in Bad : \A j \in Bad : k <= j
        <5>1. Bad \in SUBSET Nat
          BY <1>4
        <5>. HIDE DEF Bad
        <5>. QED BY <5>1, LeastExists
      <4>2. k \in Slots /\ k >= linkIdx[s] /\ new(k)
        BY <1>4 DEF Slots
      <4>3. \A j \in linkIdx[s] .. k - 1 : ~new(j)
        BY <1>4, <4>1
      <4>4. k \in stop
        BY <4>2, <4>3
      <4>. QED BY <2>1, <4>4
    <3>2. S[M] = S[linkIdx[s]]
      <4>1. \A k \in linkIdx[s] .. M - 1 : g[c][k] \in S[linkIdx[s]].visited
        BY <1>2, <3>1
      <4>2. M \in 0 .. M /\ linkIdx[s] <= M
        BY <1>4
      <4>3. S = Scanned(g, q, r, c)
        OBVIOUS
      <4>. DEFINE i == linkIdx[s]
      <4>4. i \in 0 .. M /\ i <= M /\ \A k \in i .. M - 1 : g[c][k] \in S[i].visited
        BY <1>4, <4>1, <4>2
      <4>. HIDE DEF S, g, q, c, i
      <4>5. S[M] = S[i]
        BY <4>2, <4>3, <4>4, ScanPassesOver
      <4>. QED BY <4>5 DEF i, S, g, q, c
    <3>3. search[s] = S[linkIdx[s]]
      BY <1>2
    <3>. HIDE DEF S, stop, x
    <3>. QED BY <2>1, <1>3, <1>4, <3>2, <3>3
  <2>2. CASE stop # {}
    <3>1. x \in stop
      BY <2>2
    <3>2. x \in Slots /\ x >= linkIdx[s] /\ \A j \in linkIdx[s] .. x - 1 : ~new(j)
      BY <3>1
    <3>. HIDE DEF stop, x
    <3>3. x \in 0 .. M /\ 1 + x = x + 1 /\ 1 + x \in 0 .. M
      BY <1>4, <3>2 DEF Slots
    <3>4. S[x] = S[linkIdx[s]]
      BY <1>2, <1>4, <3>2, <3>3, ScanPassesOver
    <3>5. S[x + 1] = VisitNode(q, S[x], g[c][x])
      BY <3>2, ScanSteps
    <3>. QED BY <2>2, <1>2, <1>3, <3>3, <3>4, <3>5
  <2>. QED BY <2>1, <2>2
<1>. HIDE DEF stop, x
<1>6. CASE linkIdx'[s] >= M
  <2>1. linkIdx'[s] = M /\ state'[s] = "Unscheduled"
    BY <1>3, <1>4, <1>5, <1>6
  <2>. QED BY <1>2, <1>3, <1>5, <2>1 DEF SlotInv, OnTheWay
<1>7. CASE ~(linkIdx'[s] >= M)
  <2>1. state'[s] = "ProcessingLinks"
    BY <1>1, <1>3, <1>7
  <2>. QED BY <1>2, <1>3, <1>5, <2>1 DEF SlotInv, OnTheWay
<1>. QED BY <1>6, <1>7

\* The invariant is inductive.
LEMMA NextBatch == BatchInv /\ [Next]_vars => BatchInv'
<1>. SUFFICES ASSUME BatchInv, [Next]_vars PROVE BatchInv'
  OBVIOUS
<1>. USE DEF BatchInv
<1>1. CASE ProbeNode
  <2>1. phase' = "entries" /\ links' = links /\ results' = results
    BY <1>1, Zenon DEF ProbeNode
  <2>. QED BY <1>1, <2>1, StepsKeepShape, ProbeKeepsBest, AnswersKept DEF TurnInv, Next
<1>2. CASE SeedSlots
  <2>1. phase' = "turns" /\ links' = links /\ results' = results
    BY <1>2 DEF SeedSlots
  <2>. QED BY <1>2, <2>1, StepsKeepShape, SeedBegins, AnswersKept DEF EntryInv, Next
<1>3. ASSUME NEW s \in SlotIds, Turn(s) PROVE BatchInv'
  <2>1. phase = "turns" /\ phase' = "turns" /\ links' = links
    BY <1>3 DEF Turn, SkipDone, PopCandidate, FinishSlot, RefillSlot, ProcessOneLink, Answer, HasTurn
  <2>2. ShapeInv' /\ EntryInv'
    BY <1>3, <2>1, StepsKeepShape DEF EntryInv, Next
  <2>3. SlotInv(s)
    BY <2>1 DEF TurnInv
  <2>4. ASSUME NEW r \in SlotIds, r # s
        PROVE  SlotInv(r)'
    <3>1. SlotInv(r)
      BY <2>1 DEF TurnInv
    <3>2. /\ state'[r] = state[r] /\ query'[r] = query[r] /\ search'[r] = search[r]
          /\ node'[r] = node[r] /\ linkIdx'[r] = linkIdx[r]
      BY <1>3, <2>4 DEF Turn, SkipDone, PopCandidate, FinishSlot, RefillSlot, ProcessOneLink, Answer, ShapeInv
    <3>. QED BY <2>1, <3>1, <3>2, SlotKept
  <2>5. SlotInv(s)' /\ SameAsSearch'
    <3>1. CASE SkipDone(s)
      BY <2>1, <2>3, <3>1, SlotKept, AnswersKept DEF SkipDone
    <3>2. CASE PopCandidate(s)
      <4>1. results' = results
        BY <3>2 DEF PopCandidate
      <4>. QED BY <2>1, <2>3, <3>2, <4>1, PopGoesOn, AnswersKept
    <3>3. CASE FinishSlot(s)
      <4>1. Answer(s) /\ state'[s] = "Done"
        BY <3>3 DEF FinishSlot, ShapeInv
      <4>. QED BY <2>1, <2>3, <4>1, AnswerIsSearch DEF SlotInv
    <3>4. CASE RefillSlot(s)
      <4>1. Answer(s)
        BY <3>4 DEF RefillSlot
      <4>. QED BY <2>1, <2>3, <3>4, <4>1, AnswerIsSearch, RefillBegins
    <3>5. CASE ProcessOneLink(s)
      <4>1. results' = results
        BY <3>5 DEF ProcessOneLink
      <4>. QED BY <2>1, <2>3, <3>5, <4>1, LinkGoesOn, AnswersKept
    <3>. QED BY <1>3, <3>1, <3>2, <3>3, <3>4, <3>5 DEF Turn
  <2>6. TurnInv'
    BY <2>4, <2>5 DEF TurnInv
  <2>. QED BY <2>2, <2>5, <2>6
<1>4. CASE Return
  <2>1. phase = "turns" /\ phase' = "returned" /\ links' = links /\ results' = results
    BY <1>4 DEF Return
  <2>2. ASSUME NEW s \in SlotIds PROVE SlotInv(s)'
    <3>1. SlotInv(s)
      BY <2>1 DEF TurnInv
    <3>. QED BY <1>4, <3>1, SlotKept DEF Return
  <2>. QED BY <1>4, <2>1, <2>2, StepsKeepShape, AnswersKept DEF EntryInv, TurnInv, Next
<1>5. CASE UNCHANGED vars
  <2>1. ShapeInv' /\ EntryInv' /\ SameAsSearch'
    BY <1>5, Zenon DEF vars, ShapeInv, EntryInv, SameAsSearch
  <2>2. TurnInv'
    BY <1>5 DEF vars, TurnInv, SlotInv, OnTheWay
  <2>. QED BY <2>1, <2>2
<1>. QED BY <1>1, <1>2, <1>3, <1>4, <1>5 DEF Next

-----------------------------------------------------------------------------
(* The theorem. *)

\* Every answer of concurrentBatchSearch is the answer of search for that
\* query alone: whatever the slots did in between, and whichever query held
\* the slot before, the search of a query stays on the way from its own entry
\* node to the beam that beamSearch ends with.
THEOREM BatchIsSearch == Spec => []SameAsSearch
<1>1. BatchInv => SameAsSearch
  BY DEF BatchInv
<1>. QED BY <1>1, InitBatch, NextBatch, PTL DEF Spec

=============================================================================
