----------------------------- MODULE VisitedSet -----------------------------
(***************************************************************************)
(* One VisitedSet (include/flatnav/util/VisitedSetPool.h) and the calls    *)
(* made to it, in any order.                                               *)
(***************************************************************************)
EXTENDS MarkTable

CONSTANT MaxClears   \* bound on the number of clear()s

ASSUME MaxClearsAssumption == MaxClears \in Nat

VARIABLES
    set,   \* the visited set
    call   \* history: the last call

vars == <<set, call>>

Init ==
    /\ set = NewTable
    /\ call = <<"new">>

Insert(n) ==
    /\ set' = Inserted(set, n)
    /\ call' = <<"insert", n>>

Clear ==
    /\ set.clears < MaxClears
    /\ set' = Cleared(set)
    /\ call' = <<"clear">>

Next == Clear \/ \E n \in Elements : Insert(n)

Spec == Init /\ [][Next]_vars

-----------------------------------------------------------------------------
(* Properties. *)

TypeOK ==
    /\ set \in TableType
    /\ set.clears <= MaxClears
    /\ call \in {<<"new">>, <<"clear">>} \cup ({"insert"} \X Elements)

Expected == INSTANCE SearchMarks WITH marked <- VisitedNodes(set)

\* Until the mark overflows the table behaves as the set a search expects:
\* after every call isVisited answers as SearchMarks says, so no insert is lost
\* and no clear() leaves a node visited.
ActsAsSetForALap ==
    /\ Expected!Init
    /\ [][set'.clears < Lap => Expected!Next]_vars

\* What the class promises beyond that: a node inserted since the last clear()
\* is visited, and one that was not can be taken for visited only if it was
\* last inserted a whole number of laps of the mark ago.  With the code's eight
\* bits a lap is 255 clear()s.
StaleOnlyByWholeLaps ==
    \A n \in Elements :
        /\ set.inserted[n] = set.clears => Visited(set, n)
        /\ Visited(set, n) => /\ set.inserted[n] # Never
                              /\ (set.clears - set.inserted[n]) % Lap = 0

=============================================================================
