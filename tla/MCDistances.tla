---------------------------- MODULE MCDistances ----------------------------
(* Small instances of Distances for TLC. *)
EXTENDS Distances

CONSTANTS t1, t2

TwoThreads == {t1, t2}

\* Around every multiple and comparison of the dispatchers.
SomeDimensions == {0, 3, 4, 5, 15, 16, 17, 36, 64}

=============================================================================
