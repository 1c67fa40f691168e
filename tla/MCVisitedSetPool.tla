-------------------------- MODULE MCVisitedSetPool --------------------------
EXTENDS VisitedSetPool, TLC

CONSTANTS t1, t2, t3, s1, s2, s3

Symmetry == Permutations(Threads) \cup Permutations(Sets)
=============================================================================
