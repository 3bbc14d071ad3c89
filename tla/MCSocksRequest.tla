--------------------------- MODULE MCSocksRequest ---------------------------
(* Instances of SocksRequest for TLC: short names, and the longest ones. *)
EXTENDS SocksRequest

MCLengths == {0, 1, 4, 6, 11, 250, 251, 255}
MCMethods == {1, 2}
=============================================================================
