--------------------------- MODULE MCStreamServer ---------------------------
(* Instances of StreamServer for TLC. *)
EXTENDS StreamServer

CONSTANTS s1, t1, t2

OneSession == {s1}
TwoStreams == {t1, t2}
=============================================================================
