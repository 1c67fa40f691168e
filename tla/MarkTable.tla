----------------------------- MODULE MarkTable -----------------------------
(***************************************************************************)
(* The data of a VisitedSet (include/flatnav/util/VisitedSetPool.h): one   *)
(* byte per node, a node being visited when its byte equals the current    *)
(* mark.  clear() moves to the next mark instead of wiping the table; when *)
(* the mark overflows to 0 it wipes the entries in _dirty, which by then   *)
(* names only the nodes inserted since the previous clear(), and starts    *)
(* over at 1.                                                              *)
(*                                                                         *)
(* The fields clears and inserted are history, for the properties only.    *)
(*                                                                         *)
(* A definition marked "Faulty" stands before the one it distorts and is   *)
(* used nowhere else.                                                      *)
(***************************************************************************)
EXTENDS Integers

CONSTANTS
    Elements,   \* the node ids, 0 .. _table_size - 1
    MarkLimit   \* 2^8, one more than the largest uint8_t

ASSUME MarkLimitAssumption == MarkLimit \in Nat /\ MarkLimit > 1

Marks == 0 .. MarkLimit - 1

\* The number of clear()s after which the same mark is in use again.
Lap == MarkLimit - 1

Never == -1

\* mark: _mark.  table: _table.  dirty: _dirty, which lists a node at most
\* once.  clears: the number of clear()s so far.  inserted: the value of clears
\* when each node was last inserted.
TableType ==
    [mark     : Marks \ {0},
     table    : [Elements -> Marks],
     dirty    : SUBSET Elements,
     clears   : Nat,
     inserted : [Elements -> {Never} \cup Nat]]

NewTable ==
    [mark     |-> 1,
     table    |-> [n \in Elements |-> 0],
     dirty    |-> {},
     clears   |-> 0,
     inserted |-> [n \in Elements |-> Never]]

Visited(v, n) == v.table[n] = v.mark

VisitedNodes(v) == {n \in Elements : Visited(v, n)}

\* Faulty: insert tests for a node never marked at all.
InsertedFirst(v, n) ==
    [v EXCEPT !.table = IF @[n] = 0 THEN [@ EXCEPT ![n] = v.mark] ELSE @,
              !.dirty = IF v.table[n] = 0 THEN @ \cup {n} ELSE @,
              !.inserted = [@ EXCEPT ![n] = v.clears]]

\* insert(n)
Inserted(v, n) ==
    [v EXCEPT !.table = [@ EXCEPT ![n] = v.mark],
              !.dirty = IF v.table[n] # v.mark THEN @ \cup {n} ELSE @,
              !.inserted = [@ EXCEPT ![n] = v.clears]]

\* Faulty: the mark is left at 0 when it overflows, and nothing is wiped.
ClearedUnwrapped(v) ==
    [v EXCEPT !.mark = (@ + 1) % MarkLimit, !.dirty = {}, !.clears = @ + 1]

Overflows(v) == (v.mark + 1) % MarkLimit = 0

\* clear()
Cleared(v) ==
    [v EXCEPT !.mark = IF Overflows(v) THEN 1 ELSE @ + 1,
              !.table = IF Overflows(v)
                        THEN [n \in Elements |-> IF n \in v.dirty THEN 0 ELSE v.table[n]]
                        ELSE @,
              !.dirty = {},
              !.clears = @ + 1]

=============================================================================
