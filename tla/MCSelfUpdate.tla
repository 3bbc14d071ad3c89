----------------------------- MODULE MCSelfUpdate -----------------------------
(* An instance of SelfUpdate for TLC. *)
EXTENDS SelfUpdate

CONSTANTS u1, u2, d1

TwoUpdates    == {u1, u2}
OneDeployment == {d1}
=============================================================================
