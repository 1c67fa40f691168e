--------------------------- MODULE MCBatchSearch ---------------------------
(* Graphs over a few nodes, searched in a batch, with the heaps of         *)
(* libstdc++.                                                              *)
EXTENDS BatchSearch, TLC

\* Every set of up to two links from nodes 0 and 2, where searches begin, and of
\* one from 1 and 3; 4 leads nowhere.  The slots are in the order of node ids.
BranchingGraphs ==
    LET ordered == {l \in [Slots -> Nodes] : l[0] <= l[1]}
        single  == {l \in ordered : l[0] = l[1]}
    IN  {(0 :> a @@ 1 :> b @@ 2 :> c @@ 3 :> d @@ 4 :> [s \in Slots |-> 4]) :
            a, c \in ordered, b, d \in single}

\* Nodes at 0, 10, 20, ... on a line, queries at 25, 10, 15: for each of them
\* pairs of nodes are equally far, for the second two of the entries compared.
QueryAt == <<25, 10, 15>>
LineQueries == [q \in Queries |-> [n \in Nodes |->
    LET d == QueryAt[q + 1] - 10 * n IN IF d < 0 THEN -d ELSE d]]

Swapped(a, i, j) == [a EXCEPT ![i] = a[j], ![j] = a[i]]

\* std::__push_heap: the element at i rises while its parent is less.
RECURSIVE Rise(_, _, _)
Rise(d, a, i) ==
    IF i > 1 /\ d[a[i \div 2]] < d[a[i]]
    THEN Rise(d, Swapped(a, i, i \div 2), i \div 2)
    ELSE a

\* std::__adjust_heap: the element at i sinks to the bottom, the greater child
\* taking its place, and rises from there.
RECURSIVE Sink(_, _, _)
Sink(d, a, i) ==
    IF 2 * i > Len(a) THEN Rise(d, a, i)
    ELSE LET c == IF 2 * i < Len(a) /\ ~(d[a[2 * i + 1]] < d[a[2 * i]]) THEN 2 * i + 1 ELSE 2 * i
         IN  Sink(d, Swapped(a, i, c), c)

BinaryPush(d, h, n) == Rise(d, Append(h, n), Len(h) + 1)

BinaryPop(d, h) ==
    IF Len(h) = 1 THEN <<>>
    ELSE Sink(d, [i \in 1 .. Len(h) - 1 |-> IF i = 1 THEN h[Len(h)] ELSE h[i]], 1)
=============================================================================
