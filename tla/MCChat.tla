------------------------------- MODULE MCChat -------------------------------
(***************************************************************************)
(* Small instances of Chat for TLC.                                        *)
(***************************************************************************)
EXTENDS Chat, TLC

CONSTANTS r1, r2

search      == [gated |-> 1, names |-> FALSE]
read        == [gated |-> 0, names |-> TRUE]
searchTwice == [gated |-> 2, names |-> FALSE]

ReadOnly     == {read}
SearchOnly   == {search}
TwiceOrRead  == {searchTwice, read}
ReadOrSearch == {search, read}

Symmetry == Permutations(Requests)
=============================================================================
