---------------------------- MODULE GorderQueue ----------------------------
(***************************************************************************)
(* GorderPriorityQueue (include/flatnav/util/GorderPriorityQueue.h): a     *)
(* list of keys sorted by priority, with a table of where each key stands. *)
(* A priority changes by one at a time, so a key moves past its equals by  *)
(* one swap.  Positions count from 1.                                      *)
(***************************************************************************)
EXTENDS Integers, Sequences, Functions

NewQueue(size) ==
    [list  |-> [i \in 1 .. size |-> [key |-> i - 1, priority |-> 0]],
     index |-> [k \in 0 .. size - 1 |-> k + 1]]

Swapped(q, i, j) ==
    [list  |-> [q.list EXCEPT ![i] = q.list[j], ![j] = q.list[i]],
     index |-> [q.index EXCEPT ![q.list[j].key] = i, ![q.list[i].key] = j]]

Priority(q, k) == q.list[q.index[k]].priority

\* std::upper_bound - 1: the last of the keys with a priority.
LastOf(q, p) ==
    CHOOSE i \in 0 .. Len(q.list) :
        /\ \A j \in 1 .. i : q.list[j].priority <= p
        /\ i < Len(q.list) => q.list[i + 1].priority > p

\* std::lower_bound: the first of the keys with a priority.
FirstOf(q, p) ==
    CHOOSE i \in 1 .. Len(q.list) + 1 :
        /\ \A j \in 1 .. i - 1 : q.list[j].priority < p
        /\ i <= Len(q.list) => q.list[i].priority >= p

Increment(q, k) ==
    IF k \notin DOMAIN q.index THEN q
    ELSE LET to == LastOf(q, Priority(q, k))
         IN  [Swapped(q, q.index[k], to) EXCEPT !.list[to].priority = @ + 1]

Decrement(q, k) ==
    IF k \notin DOMAIN q.index THEN q
    ELSE LET to == FirstOf(q, Priority(q, k))
         IN  [Swapped(q, q.index[k], to) EXCEPT !.list[to].priority = @ - 1]

Back(q) == q.list[Len(q.list)].key

Popped(q) ==
    [list  |-> SubSeq(q.list, 1, Len(q.list) - 1),
     index |-> Restrict(q.index, DOMAIN q.index \ {Back(q)})]

\* The table says where every key of the list stands.
IndexAgrees(q) ==
    /\ DOMAIN q.index = {q.list[i].key : i \in 1 .. Len(q.list)}
    /\ \A i \in 1 .. Len(q.list) : q.index[q.list[i].key] = i
=============================================================================
