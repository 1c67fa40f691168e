-------------------------- MODULE VisitedSetProofs --------------------------
(***************************************************************************)
(* What VisitedSet guarantees, for every number of nodes, every width of   *)
(* the mark and every number of clear()s: types, a plain set until the     *)
(* mark overflows, and after that no stale node but those of whole laps.   *)
(*                                                                         *)
(* The lemmas about one table of marks are about values, so that they hold *)
(* for the sets of a pool too.                                             *)
(***************************************************************************)
EXTENDS VisitedSet, TLAPS

-----------------------------------------------------------------------------
(* One table of marks. *)

\* The table keeps its type, and its history what was done to it.
LEMMA NewTableType == NewTable \in TableType
  BY MarkLimitAssumption DEF NewTable, TableType, Marks, Never

LEMMA InsertedType ==
    ASSUME NEW v \in TableType, NEW n \in Elements
    PROVE  /\ Inserted(v, n) \in TableType
           /\ Inserted(v, n).mark = v.mark /\ Inserted(v, n).clears = v.clears
           /\ \A m \in Elements :
                /\ Inserted(v, n).table[m] = IF m = n THEN v.mark ELSE v.table[m]
                /\ Inserted(v, n).inserted[m] = IF m = n THEN v.clears ELSE v.inserted[m]
  BY MarkLimitAssumption DEF Inserted, TableType, Marks, Never

\* A new mark, a new table and one clear() more.
IsMoved(w, v, k, t, c) == w = [v EXCEPT !.mark = k, !.table = t, !.dirty = {}, !.clears = c]

LEMMA Moved ==
    ASSUME NEW v \in TableType, NEW k \in Marks \ {0}, NEW t \in [Elements -> Marks], NEW c \in Nat,
           NEW w, IsMoved(w, v, k, t, c)
    PROVE  /\ w \in TableType
           /\ w.mark = k /\ w.table = t /\ w.clears = c /\ w.inserted = v.inserted
  BY DEF TableType, IsMoved

LEMMA ClearedType ==
    ASSUME NEW v \in TableType
    PROVE  /\ Cleared(v) \in TableType
           /\ Cleared(v).mark = IF v.mark = Lap THEN 1 ELSE v.mark + 1
           /\ Cleared(v).clears = v.clears + 1
           /\ Cleared(v).inserted = v.inserted
           /\ \A m \in Elements : Cleared(v).table[m] \in {0, v.table[m]}
           /\ v.mark # Lap => Cleared(v).table = v.table
<1> DEFINE c == v.clears + 1
<1>1. v.mark \in Marks \ {0} /\ v.table \in [Elements -> Marks] /\ v.clears \in Nat
  BY DEF TableType
<1>c. c \in Nat /\ v.clears + 1 = c
  BY <1>1
<1>2. Overflows(v) <=> v.mark = Lap
  BY <1>1, MarkLimitAssumption DEF Overflows, Marks, Lap
<1>3. v.mark # Lap => v.mark + 1 \in Marks \ {0}
  BY <1>1, MarkLimitAssumption DEF Marks, Lap
<1>4. 1 \in Marks \ {0} /\ 0 \in Marks
  BY MarkLimitAssumption DEF Marks
<1>5. CASE Overflows(v)
  <2> DEFINE t == [n \in Elements |-> IF n \in v.dirty THEN 0 ELSE v.table[n]]
  <2>1. t \in [Elements -> Marks] /\ \A m \in Elements : t[m] \in {0, v.table[m]}
    BY <1>1, <1>4
  <2>2. IsMoved(Cleared(v), v, 1, t, c)
    BY <1>5 DEF Cleared, IsMoved
  <2> HIDE DEF c, t
  <2>3. /\ Cleared(v) \in TableType
        /\ Cleared(v).mark = 1 /\ Cleared(v).table = t
        /\ Cleared(v).clears = c /\ Cleared(v).inserted = v.inserted
    BY <1>4, <1>c, <2>1, <2>2, Moved
  <2> QED
    BY <1>2, <1>c, <1>5, <2>1, <2>3
<1>6. CASE ~Overflows(v)
  <2>1. /\ Cleared(v) \in TableType
        /\ Cleared(v).mark = v.mark + 1 /\ Cleared(v).table = v.table
        /\ Cleared(v).clears = c /\ Cleared(v).inserted = v.inserted
    <3> DEFINE k == v.mark + 1
               t == v.table
    <3>1. k \in Marks \ {0} /\ t \in [Elements -> Marks]
      BY <1>1, <1>2, <1>3, <1>6
    <3>2. IsMoved(Cleared(v), v, k, t, c)
      BY <1>6 DEF Cleared, IsMoved
    <3>3. v.mark + 1 = k /\ v.table = t
      OBVIOUS
    <3> HIDE DEF c, k, t
    <3>4. /\ Cleared(v) \in TableType
          /\ Cleared(v).mark = k /\ Cleared(v).table = t
          /\ Cleared(v).clears = c /\ Cleared(v).inserted = v.inserted
      BY <1>c, <3>1, <3>2, Moved
    <3> QED
      BY <3>3, <3>4
  <2> QED
    BY <1>2, <1>c, <1>6, <2>1
<1> QED
  BY <1>5, <1>6

\* No entry of the table is ahead of the mark, which counts the clear()s.
FirstLap(v) ==
    v.clears < Lap => v.mark = v.clears + 1 /\ \A n \in Elements : v.table[n] <= v.mark

LEMMA NewTableFirstLap == FirstLap(NewTable)
  BY DEF NewTable, FirstLap

LEMMA InsertedFirstLap ==
    ASSUME NEW v \in TableType, NEW n \in Elements, FirstLap(v)
    PROVE  FirstLap(Inserted(v, n))
<1>1. v.mark \in Nat
  BY MarkLimitAssumption DEF TableType, Marks
<1> QED
  BY <1>1, InsertedType DEF FirstLap

\* Until the mark overflows, clear() goes ahead of every entry.
LEMMA ClearedFirstLap ==
    ASSUME NEW v \in TableType, FirstLap(v), v.clears + 1 < Lap
    PROVE  /\ FirstLap(Cleared(v))
           /\ \A n \in Elements : ~Visited(Cleared(v), n)
<1>1. v.clears \in Nat /\ v.mark \in Nat /\ \A n \in Elements : v.table[n] \in Nat
  BY MarkLimitAssumption DEF TableType, Marks
<1>2. v.mark = v.clears + 1 /\ \A n \in Elements : v.table[n] <= v.mark
  BY <1>1, MarkLimitAssumption DEF FirstLap, Lap
<1>3. v.mark # Lap
  BY <1>1, <1>2, MarkLimitAssumption DEF Lap
<1>4. Cleared(v).mark = v.mark + 1 /\ Cleared(v).clears = v.clears + 1 /\ Cleared(v).table = v.table
  BY <1>3, ClearedType
<1> QED
  BY <1>1, <1>2, <1>4 DEF FirstLap, Visited

WholeLaps(x) == x % Lap = 0

\* An entry of now is no lap old.
LEMMA NoLap == WholeLaps(0)
  BY MarkLimitAssumption DEF Lap, WholeLaps

\* A lap more is a whole number of laps.
LEMMA OneMoreLap ==
    ASSUME NEW x \in Int, WholeLaps(x) PROVE WholeLaps(x + Lap)
  BY MarkLimitAssumption DEF Lap, WholeLaps

\* How far the mark has moved past an entry of the table, and how many clear()s
\* ago the entry was made, differ by whole laps.
LapsApart(v) ==
    /\ v.mark <= Lap
    /\ \A n \in Elements :
        /\ v.inserted[n] <= v.clears
        /\ v.inserted[n] = v.clears => v.table[n] = v.mark
        /\ v.table[n] # 0 =>
            /\ v.inserted[n] # Never
            /\ WholeLaps(v.clears - v.inserted[n] - v.mark + v.table[n])

LEMMA NewTableLapsApart == LapsApart(NewTable)
  BY MarkLimitAssumption DEF NewTable, LapsApart, Lap, Never

LEMMA InsertedLapsApart ==
    ASSUME NEW v \in TableType, NEW n \in Elements, LapsApart(v)
    PROVE  LapsApart(Inserted(v, n))
<1> DEFINE w == Inserted(v, n)
<1>1. /\ w.mark = v.mark /\ w.clears = v.clears
      /\ \A m \in Elements : /\ w.table[m] = IF m = n THEN v.mark ELSE v.table[m]
                             /\ w.inserted[m] = IF m = n THEN v.clears ELSE v.inserted[m]
  BY InsertedType
<1>2. v.mark \in Nat /\ v.clears \in Nat /\ v.clears # Never
  BY MarkLimitAssumption DEF TableType, Marks, Never
<1>3. v.clears - v.clears - v.mark + v.mark = 0
  BY <1>2
<1> HIDE DEF w
<1>4. LapsApart(w)
  BY <1>1, <1>2, <1>3, NoLap DEF LapsApart
<1> QED
  BY <1>4 DEF w

LEMMA ClearedLapsApart ==
    ASSUME NEW v \in TableType, LapsApart(v)
    PROVE  LapsApart(Cleared(v))
<1> DEFINE w == Cleared(v)
<1>1. /\ w.mark = IF v.mark = Lap THEN 1 ELSE v.mark + 1
      /\ w.clears = v.clears + 1 /\ w.inserted = v.inserted
      /\ \A m \in Elements : w.table[m] \in {0, v.table[m]}
  BY ClearedType
<1>2. /\ v.mark \in Nat /\ v.clears \in Nat /\ Lap \in Nat \ {0}
      /\ \A m \in Elements : v.inserted[m] \in Int /\ v.table[m] \in Nat
  BY MarkLimitAssumption DEF TableType, Marks, Never, Lap
<1> HIDE DEF w
<1>3. w.mark <= Lap
  BY <1>1, <1>2 DEF LapsApart
<1>4. ASSUME NEW n \in Elements
      PROVE  w.inserted[n] <= w.clears /\ w.inserted[n] # w.clears
  BY <1>1, <1>2 DEF LapsApart
<1>5. ASSUME NEW n \in Elements, w.table[n] # 0
      PROVE  w.inserted[n] # Never /\ WholeLaps(w.clears - w.inserted[n] - w.mark + w.table[n])
  <2> DEFINE x == v.clears - v.inserted[n] - v.mark + v.table[n]
  <2>1. w.table[n] = v.table[n]
    BY <1>1, <1>5
  <2>2. v.inserted[n] # Never /\ WholeLaps(x) /\ x \in Int
    BY <1>2, <1>5, <2>1 DEF LapsApart
  <2>3. CASE v.mark = Lap
    <3>1. w.clears - w.inserted[n] - w.mark + w.table[n] = x + Lap
      BY <1>1, <1>2, <2>1, <2>3
    <3> HIDE DEF x
    <3> QED
      BY <1>1, <2>2, <3>1, OneMoreLap
  <2>4. CASE v.mark # Lap
    <3>1. w.clears - w.inserted[n] - w.mark + w.table[n] = x
      BY <1>1, <1>2, <2>1, <2>4
    <3> HIDE DEF x
    <3> QED
      BY <1>1, <2>2, <3>1
  <2> QED
    BY <2>3, <2>4
<1>6. LapsApart(w)
  BY <1>3, <1>4, <1>5 DEF LapsApart
<1> QED
  BY <1>6 DEF w

\* A node that shows was last inserted whole laps ago, one inserted since the
\* last clear() shows.
LEMMA ShownLapsAgo ==
    ASSUME NEW v \in TableType, LapsApart(v), NEW n \in Elements
    PROVE  /\ v.inserted[n] = v.clears => Visited(v, n)
           /\ Visited(v, n) => /\ v.inserted[n] # Never
                               /\ v.inserted[n] <= v.clears
                               /\ (v.clears - v.inserted[n]) % Lap = 0
<1>1. /\ v.mark \in Nat \ {0} /\ v.clears \in Nat
      /\ v.inserted[n] \in Int /\ v.table[n] \in Nat
  BY MarkLimitAssumption DEF TableType, Marks, Never
<1>2. v.inserted[n] = v.clears => Visited(v, n)
  BY DEF LapsApart, Visited
<1>3. ASSUME Visited(v, n)
      PROVE  v.inserted[n] # Never /\ v.inserted[n] <= v.clears /\ WholeLaps(v.clears - v.inserted[n])
  <2>1. v.table[n] = v.mark /\ v.table[n] # 0
    BY <1>1, <1>3 DEF Visited
  <2>2. v.clears - v.inserted[n] - v.mark + v.table[n] = v.clears - v.inserted[n]
    BY <1>1, <2>1
  <2> QED
    BY <2>1, <2>2 DEF LapsApart
<1> QED
  BY <1>2, <1>3 DEF WholeLaps

-----------------------------------------------------------------------------
(* The set. *)

\* The mark, the table and the histories keep their types.
THEOREM TypeCorrect == Spec => []TypeOK
<1>1. Init => TypeOK
  BY NewTableType, MaxClearsAssumption DEF Init, TypeOK, NewTable
<1>2. TypeOK /\ [Next]_vars => TypeOK'
  <2> SUFFICES ASSUME TypeOK, [Next]_vars PROVE TypeOK'
    OBVIOUS
  <2>t. set \in TableType /\ set.clears \in Nat
    BY DEF TypeOK, TableType
  <2>1. CASE Clear
    BY <2>t, <2>1, ClearedType, MaxClearsAssumption DEF Clear, TypeOK
  <2>2. ASSUME NEW n \in Elements, Insert(n) PROVE TypeOK'
    BY <2>t, <2>2, InsertedType DEF Insert, TypeOK
  <2>3. CASE UNCHANGED vars
    BY <2>3 DEF vars, TypeOK
  <2> QED
    BY <2>1, <2>2, <2>3 DEF Next
<1> QED
  BY <1>1, <1>2, PTL DEF Spec

\* The entries of the table follow the mark throughout.
MarksFollow == FirstLap(set) /\ LapsApart(set)

LEMMA MarksFollowInvariant == Spec => []MarksFollow
<1>1. Init => MarksFollow
  BY NewTableFirstLap, NewTableLapsApart DEF Init, MarksFollow
<1>2. TypeOK /\ MarksFollow /\ [Next]_vars => MarksFollow'
  <2> SUFFICES ASSUME TypeOK, MarksFollow, [Next]_vars PROVE MarksFollow'
    OBVIOUS
  <2>t. set \in TableType /\ set.clears \in Nat
    BY DEF TypeOK, TableType
  <2>1. CASE Clear
    <3>1. FirstLap(Cleared(set))
      <4>1. CASE set.clears + 1 < Lap
        BY <2>t, <4>1, ClearedFirstLap DEF MarksFollow
      <4>2. CASE ~(set.clears + 1 < Lap)
        BY <2>t, <4>2, ClearedType DEF FirstLap
      <4> QED
        BY <4>1, <4>2
    <3> QED
      BY <2>t, <2>1, <3>1, ClearedLapsApart DEF Clear, MarksFollow
  <2>2. ASSUME NEW n \in Elements, Insert(n) PROVE MarksFollow'
    BY <2>t, <2>2, InsertedFirstLap, InsertedLapsApart DEF Insert, MarksFollow
  <2>3. CASE UNCHANGED vars
    BY <2>3 DEF vars, MarksFollow
  <2> QED
    BY <2>1, <2>2, <2>3 DEF Next
<1> QED
  BY <1>1, <1>2, TypeCorrect, PTL DEF Spec

\* Until the mark overflows, every call does to the visited nodes what a set
\* would do: insert adds its node and clear() leaves none.
THEOREM ASetForALap == Spec => ActsAsSetForALap
<1>1. Init => Expected!Init
  BY DEF Init, NewTable, Expected!Init, VisitedNodes, Visited
<1>2. TypeOK /\ MarksFollow /\ [Next]_vars => [set'.clears < Lap => Expected!Next]_vars
  <2> SUFFICES ASSUME TypeOK, MarksFollow, Next, set'.clears < Lap
               PROVE  Expected!Next
    OBVIOUS
  <2>t. set \in TableType
    BY DEF TypeOK
  <2>1. CASE Clear
    <3>1. set' = Cleared(set) /\ set'.clears = set.clears + 1
      BY <2>t, <2>1, ClearedType DEF Clear
    <3>2. \A n \in Elements : ~Visited(set', n)
      BY <2>t, <3>1, ClearedFirstLap DEF MarksFollow
    <3>3. Expected!Clear
      BY <2>1, <3>2 DEF Clear, Expected!Clear, VisitedNodes
    <3> QED
      BY <3>3 DEF Expected!Next
  <2>2. ASSUME NEW n \in Elements, Insert(n) PROVE Expected!Next
    <3>1. \A m \in Elements : Visited(set', m) <=> Visited(set, m) \/ m = n
      BY <2>t, <2>2, InsertedType DEF Insert, Visited
    <3>2. Expected!Insert(n)
      BY <2>2, <3>1 DEF Insert, Expected!Insert, VisitedNodes
    <3> QED
      BY <3>2 DEF Expected!Next
  <2> QED
    BY <2>1, <2>2 DEF Next
<1> QED
  BY <1>1, <1>2, TypeCorrect, MarksFollowInvariant, PTL DEF Spec, ActsAsSetForALap

\* A search never misses what it inserted itself, and takes another node for
\* visited only if that was last inserted whole laps of the mark ago.
THEOREM StaleNodesAreLapsOld == Spec => []StaleOnlyByWholeLaps
<1>1. TypeOK /\ MarksFollow => StaleOnlyByWholeLaps
  BY ShownLapsAgo DEF TypeOK, MarksFollow, StaleOnlyByWholeLaps
<1> QED
  BY <1>1, TypeCorrect, MarksFollowInvariant, PTL

=============================================================================
