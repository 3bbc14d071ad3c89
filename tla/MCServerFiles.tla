---------------------------- MODULE MCServerFiles ----------------------------
(* Instances of ServerFiles for TLC: a name, and a log. *)
EXTENDS ServerFiles

CONSTANTS u1, u2, u3, d1, d2, l1, l2, p1, p2

ThreeUploads == {u1, u2, u3}
TwoDownloads == {d1, d2}
TwoClears    == {l1, l2}
TwoDaemons   == {p1, p2}
NoRequests   == {}

(* The uploaded files and the log share nothing, and no property is about  *)
(* both: a behaviour works on the one or on the other.                     *)
FilesRest  == \A u \in Uploads, d \in Downloads : up[u] = "begin" /\ down[d] = "begin"
LogRests   == lines = 0 /\ started = {} /\ \A l \in Clears : step[l] = "begin"
OneAtATime == FilesRest \/ LogRests
=============================================================================
