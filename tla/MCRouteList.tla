----------------------------- MODULE MCRouteList -----------------------------
(* Instances of RouteList for TLC. *)
EXTENDS RouteList, TLC

CONSTANTS r1, r2, h1, h2

TwoRequests == {r1, r2}
TwoHosts    == {h1, h2}
Symmetric   == Permutations(TwoRequests) \cup Permutations(TwoHosts)
=============================================================================
