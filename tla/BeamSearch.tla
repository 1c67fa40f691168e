----------------------------- MODULE BeamSearch -----------------------------
(***************************************************************************)
(* Index::search (include/flatnav/index/Index.h) on a finished graph, as a *)
(* function: initializeSearch, beamSearch, processCandidateNode, and the   *)
(* K best of the beam.                                                     *)
(*                                                                         *)
(* The candidates and the beam are heaps that std::push_heap and pop_heap  *)
(* keep in arrays.  Which of several nodes at the same distance comes out  *)
(* first is up to them; all that is assumed is that they are functions of  *)
(* the array and keep it a heap.                                           *)
(***************************************************************************)
EXTENDS Integers, FiniteSets, Sequences, Functions

CONSTANTS
    NumNodes,    \* _cur_num_nodes
    M,           \* _M
    NumQueries,  \* the queries 0 .. NumQueries - 1
    QueryDist,   \* QueryDist[q][n], the distance from query q to node n
    K,           \* the number of neighbors asked for
    EfSearch,    \* ef_search
    NumInit,     \* num_initializations
    PushHeap(_, _, _),  \* push_heap: the heap h, ordered by d, with node n
    PopHeap(_, _)       \* pop_heap and pop_back: the heap h without its top

Nodes   == 0 .. NumNodes - 1
Slots   == 0 .. M - 1
Queries == 0 .. NumQueries - 1

ASSUME SearchSizes ==
    /\ NumNodes \in Nat \ {0} /\ M \in Nat \ {0} /\ NumQueries \in Nat
    /\ K \in Nat \ {0} /\ EfSearch \in Nat \ {0} /\ NumInit \in Nat \ {0}
ASSUME QueryDistAssumption == QueryDist \in [Queries -> [Nodes -> Int]]

\* The order of the candidates; that of the neighbors, the farthest on top, is
\* QueryDist[q].
Closeness(q) == [n \in Nodes |-> -QueryDist[q][n]]

\* The arrays of nodes that are heaps in the order d; no search pushes a node twice.
Heaps(d) ==
    {h \in UNION {[1 .. k -> Nodes] : k \in 0 .. NumNodes} :
        IsInjective(h) /\ \A i \in 2 .. Len(h) : d[h[i]] <= d[h[i \div 2]]}

ASSUME HeapAssumption ==
    \A q \in Queries : \A d \in {QueryDist[q], Closeness(q)} : \A h \in Heaps(d) :
        /\ \A n \in Nodes \ Range(h) :
              PushHeap(d, h, n) \in Heaps(d) /\ Range(PushHeap(d, h, n)) = Range(h) \cup {n}
        /\ h # <<>> =>
              PopHeap(d, h) \in Heaps(d) /\ Range(PopHeap(d, h)) = Range(h) \ {h[1]}

BufferSize == IF EfSearch > K THEN EfSearch ELSE K

StepSize == IF NumNodes \div NumInit = 0 THEN 1 ELSE NumNodes \div NumInit

\* initializeSearch: the closest of every StepSize-th node, the first of several.
EntryNode(q) ==
    LET sampled == {n \in Nodes : n % StepSize = 0}
    IN  CHOOSE n \in sampled : \A m \in sampled :
            QueryDist[q][n] < QueryDist[q][m] \/ (QueryDist[q][n] = QueryDist[q][m] /\ n <= m)

\* max_dist, the distance of the beam's farthest node.
MaxDist(q, beam) == QueryDist[q][beam[1]]

\* Whether n is pushed at all, and the beam after the push.
Improves(q, beam, n) == Len(beam) < BufferSize \/ QueryDist[q][n] < MaxDist(q, beam)

Pushed(q, beam, n) ==
    LET grown == PushHeap(QueryDist[q], beam, n)
    IN  IF Len(grown) > BufferSize THEN PopHeap(QueryDist[q], grown) ELSE grown

\* The test that ends beamSearch, for the closest candidate c.
Hopeless(q, beam, c) == QueryDist[q][c] > MaxDist(q, beam) /\ Len(beam) >= BufferSize

\* The K best of a beam, closest first: the while loops that end search pop
\* the others and then fill the results from the back.
BestFirst(q, beam) ==
    LET popped[i \in 0 .. Len(beam)] ==
            IF i = 0 THEN beam ELSE PopHeap(QueryDist[q], popped[i - 1])
    IN  [i \in 1 .. (IF Len(beam) < K THEN Len(beam) ELSE K) |-> popped[Len(beam) - i][1]]

\* What a search for q holds: cand(idates), beam (neighbors), visited.
SearchStates(q) ==
    {s \in [cand : Heaps(Closeness(q)), beam : Heaps(QueryDist[q]), visited : SUBSET Nodes] :
        Range(s.cand) \subseteq s.visited /\ Range(s.beam) \subseteq s.visited}

\* processCandidateNode on one link.
VisitNode(q, s, n) ==
    IF n \in s.visited
    THEN s
    ELSE IF Improves(q, s.beam, n)
         THEN [cand |-> PushHeap(Closeness(q), s.cand, n), beam |-> Pushed(q, s.beam, n),
               visited |-> s.visited \cup {n}]
         ELSE [s EXCEPT !.visited = @ \cup {n}]

\* A search while it looks at the links of node c: what it holds after the
\* first i of them.
Scanned(g, q, s0, c) ==
    LET after[i \in 0 .. M] ==
            IF i = 0 THEN s0 ELSE VisitNode(q, after[i - 1], g[c][i - 1])
    IN  after

\* A search that has popped its closest candidate.
Popped(q, s) == [s EXCEPT !.cand = PopHeap(Closeness(q), @)]

\* The beam that beamSearch ends with from each state.
BeamOf(g, q) ==
    LET beamOf[s \in SearchStates(q)] ==
            IF s.cand = <<>> THEN s.beam
            ELSE IF Hopeless(q, s.beam, s.cand[1]) THEN s.beam
                 ELSE beamOf[Scanned(g, q, Popped(q, s), s.cand[1])[M]]
    IN  beamOf

\* search(q, K, EfSearch, NumInit) on the graph whose links are g.  The visited
\* set comes from the pool: cleared, it may still show stale nodes, those of
\* StaleOnlyByWholeLaps in VisitedSet, which the search then passes over.
Search(g, q, stale) ==
    LET e == EntryNode(q)
    IN  BestFirst(q, BeamOf(g, q)[[cand |-> <<e>>, beam |-> <<e>>, visited |-> {e} \cup stale]])

=============================================================================
