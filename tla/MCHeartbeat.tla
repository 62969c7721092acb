---------------------------- MODULE MCHeartbeat -----------------------------
(* Instances of the heartbeat demo for TLC. *)
EXTENDS Heartbeat, TLC

CONSTANTS k1, k2, k3

TwoClients == {k1, k2}
ThreeClients == {k1, k2, k3}
Interchangeable == Permutations(ThreeClients)
=============================================================================
