----------------------------- MODULE MCRelabel -----------------------------
(* All reorderings of a few nodes, for a chain, a star and a random graph. *)
EXTENDS Relabel

SomeGraphs == {
    [m \in Nodes |-> [s \in Slots |-> IF s = 0 /\ m + 1 < NumNodes THEN m + 1 ELSE m]],
    [m \in Nodes |-> [s \in Slots |-> IF m = 0 THEN s + 1 ELSE 0]],
    [m \in Nodes |-> [s \in Slots |-> (m * m + 2 * s + 1) % NumNodes]]}
=============================================================================
