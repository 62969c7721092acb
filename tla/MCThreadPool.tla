---------------------------- MODULE MCThreadPool ----------------------------
(* Instances of the thread pool for TLC. *)
EXTENDS ThreadPoolRefinement, TLC

CONSTANTS w1, w2, f1, f2, f3

TwoWorkers == {w1, w2}
ThreeFds == {f1, f2, f3}

Interchangeable == Permutations(TwoWorkers) \cup Permutations(ThreeFds)
=============================================================================
