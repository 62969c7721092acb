--------------------------- MODULE MCMultiProcess ---------------------------
(* Instances of the forking server for TLC. *)
EXTENDS MultiProcess, TLC

CONSTANTS c1, c2, c3

TwoChildren == {c1, c2}
ThreeChildren == {c1, c2, c3}
Interchangeable == Permutations(ThreeChildren)
=============================================================================
