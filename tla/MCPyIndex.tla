----------------------------- MODULE MCPyIndex -----------------------------
(* Small instances of PyIndex for TLC. *)
EXTENDS PyIndex

CONSTANTS c1, c2

TwoCallers == {c1, c2}

OneOrTwoRows == {[rows |-> 1, labelled |-> FALSE], [rows |-> 2, labelled |-> TRUE]}

\* A file with self-edges, a repeated edge and more edges than a node has slots,
\* and one whose header does not fit.
TwoFiles ==
    {[vertices |-> Capacity, edges |-> M,
      list |-> <<<<1, 1>>, <<1, 2>>, <<2, 1>>, <<1, 2>>, <<2, 2>>, <<1, 2>>>>],
     [vertices |-> Capacity, edges |-> M + 1, list |-> <<<<1, 2>>>>]}

=============================================================================
