----------------------------- MODULE MCReembed -----------------------------
EXTENDS Reembed, TLC

CONSTANTS d1, d2, q1, q2, w1, k1

\* Every document has bytes of its own: they are named after it.
OwnContent == [d \in Docs |-> d]
Symmetry   == Permutations(Docs) \cup Permutations(Requests)
=============================================================================
