------------------------ MODULE MCThreadPerConnection ------------------------
(* Instances of the thread-per-connection server for TLC. *)
EXTENDS ThreadPerConnection, TLC

CONSTANTS a, b, c, d, t1, t2, t3

Connections == {a, b, c, d}
Threads == {t1, t2, t3}
Descriptors == 4 .. 6
Interchangeable == Permutations(Connections) \cup Permutations(Threads)
=============================================================================
