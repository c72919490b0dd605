------------------------------ MODULE MCMemory ------------------------------
(***************************************************************************)
(* A small instance of Memory for TLC: two ways to say one thing.          *)
(***************************************************************************)
EXTENDS Memory, TLC

CONSTANTS i1, i2, i3, w1, w2, s1, d1, likes, loves

MeaningOf == likes :> "taste" @@ loves :> "taste"

Symmetry == Permutations(Ids) \cup Permutations(Writers)
=============================================================================
