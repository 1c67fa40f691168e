---------------------------- MODULE MCReordering ----------------------------
(* Every graph of a few nodes with one to M links a node, as construction   *)
(* leaves them, and lists of strategies that succeed, that are refused and  *)
(* that fail on the way.                                                    *)
EXTENDS Reordering

\* The links of each node in ascending order, then the empty slots.
Ascending(p, S) ==
    [s \in Slots |-> IF \E q \in S : Cardinality({r \in S : r < q}) = s
                     THEN CHOOSE q \in S : Cardinality({r \in S : r < q}) = s
                     ELSE p]

FewLinks == {S \in SUBSET Nodes : Cardinality(S) \in 1 .. M}

AllGraphs ==
    {[p \in Nodes |-> Ascending(p, f[p])] :
        f \in {g \in [Nodes -> FewLinks] : \A p \in Nodes : p \notin g[p]}}

AllRequests == {<<"rcm", "gorder">>, <<"gorder", "RCM">>, <<"bfs">>}

LowerCase(name) == IF name = "RCM" THEN "rcm" ELSE name
=============================================================================
