----------------------------- MODULE MCIngestion -----------------------------
(***************************************************************************)
(* Small instances of Ingestion for TLC.                                   *)
(***************************************************************************)
EXTENDS Ingestion, TLC

CONSTANTS d1, d2, c1, c2, q1, q2, w1, w2, k1, k2

OneContent  == (d1 :> c1)
SameContent == (d1 :> c1) @@ (d2 :> c1)
TwoContents == (d1 :> c1) @@ (d2 :> c2)
Symmetry ==
  UNION {Permutations(S) : S \in {Workers, Requests, Relays}}
=============================================================================
