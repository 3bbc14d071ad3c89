-------------------------- MODULE MCTunnelRegistry --------------------------
(* Instances of TunnelRegistry for TLC: two ports. *)
EXTENDS TunnelRegistry

CONSTANTS p1, p2

MCPorts == {p1, p2}
=============================================================================
