-------------------------- MODULE MCEpollHeartbeat --------------------------
(* Instances of the epoll heartbeat server for TLC. *)
EXTENDS EpollHeartbeat

CONSTANTS k1, k2, k3

TwoClients == {k1, k2}
ThreeClients == {k1, k2, k3}
=============================================================================
