--------------------------- MODULE MCEchoServers ----------------------------
(* Instances of the echo servers for TLC. *)
EXTENDS EchoServers, TLC

CONSTANTS c1, c2, c3

\* One client types, and two only connect and end.
Bytes == (c1 :> 2) @@ (c2 :> 0) @@ (c3 :> 0)
=============================================================================
