---------------------------- MODULE MCIndexBuild ----------------------------
(* Small instances of IndexBuild for TLC. *)
EXTENDS IndexBuild, TLC

CONSTANTS t1, t2, t3

TwoThreads == {t1, t2}
ThreeThreads == {t1, t2, t3}

Symmetry == Permutations(Threads)

\* Rows on a line, in an order in which later rows fall between earlier ones,
\* so that their links are pruned and overwritten.
Position == <<0, 16, 5, 7, 27, 12, 3, 21>>
LineDist == [p \in Rows \X Rows |->
    LET d == Position[p[1] + 1] - Position[p[2] + 1] IN IF d < 0 THEN -d ELSE d]

=============================================================================
