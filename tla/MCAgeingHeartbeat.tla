------------------------- MODULE MCAgeingHeartbeat --------------------------
(* Instances of the forking heartbeat server for TLC. *)
EXTENDS AgeingHeartbeat

CONSTANTS k1, k2

TwoClients == {k1, k2}
=============================================================================
