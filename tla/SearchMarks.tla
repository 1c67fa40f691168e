---------------------------- MODULE SearchMarks ----------------------------
(***************************************************************************)
(* What a search or a relabelling expects of the visited set it polls      *)
(* (include/flatnav/index/Index.h): a set of node ids that clear() empties *)
(* and that contains exactly what was inserted since.                      *)
(***************************************************************************)
CONSTANT Elements   \* the node ids the set is made for

VARIABLES
    marked,   \* the ids for which isVisited answers true
    call      \* the last call made, so that a call without effect shows

Init == marked = {} /\ call = <<"new">>

Insert(n) == marked' = marked \cup {n} /\ call' = <<"insert", n>>

Clear == marked' = {} /\ call' = <<"clear">>

Next == Clear \/ \E n \in Elements : Insert(n)

Spec == Init /\ [][Next]_<<marked, call>>

=============================================================================
