---------------------------- MODULE MCVisitedSet ----------------------------
EXTENDS VisitedSet, TLC

CONSTANTS n1, n2, n3

Symmetry == Permutations(Elements)
=============================================================================
