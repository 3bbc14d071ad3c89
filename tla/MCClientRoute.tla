----------------------------- MODULE MCClientRoute -----------------------------
(* Instances of ClientRoute for TLC. *)
EXTENDS ClientRoute, TLC

CONSTANTS h1, h2, r1, r2, r3

TwoHosts      == {h1, h2}
TwoRequests   == {r1, r2}
ThreeRequests == {r1, r2, r3}
Symmetric     == Permutations(Requests)

(* One host as the page posts it, one with its port, with a scheme or not. *)
PageHost  == [host |-> h1, port |-> FALSE, tls |-> FALSE]
ThreeForms ==
    {PageHost} \cup {[host |-> h2, port |-> TRUE, tls |-> t] : t \in BOOLEAN}

(* Both as the page posts them. *)
PageForms == {PageHost, [PageHost EXCEPT !.host = h2]}
=============================================================================
