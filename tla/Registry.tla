------------------------------ MODULE Registry ------------------------------
(***************************************************************************)
(* What the list of tunnels promises the server's API while its updates do *)
(* not overlap: a tunnel is made, listed once, given to clients any number *)
(* of times and deleted once; each of these happens at one moment, and the *)
(* tally that picks the next transport counts a deletion at that moment.   *)
(* When two updates of the list are under way at once nothing is promised  *)
(* any more.                                                               *)
(***************************************************************************)
EXTENDS Integers

CONSTANT Transports \* the types of tunnels

VARIABLES
    kind,      \* the tunnels made so far, and the type of each
    listed,    \* the tunnels on the list
    gone,      \* the tunnels deleted from it
    handed,    \* the tunnels that clients were given
    tally,     \* by type: the deletions counted
    overlapped \* two updates were under way at once

rvars == <<kind, listed, gone, handed, tally, overlapped>>

RInit ==
    /\ DOMAIN kind = {} /\ listed = {} /\ gone = {} /\ handed = {}
    /\ tally = [ty \in Transports |-> 0]
    /\ overlapped = FALSE

RMake(t, ty) ==
    /\ t \notin DOMAIN kind
    /\ kind' = [u \in DOMAIN kind \cup {t} |-> IF u = t THEN ty ELSE kind[u]]
    /\ UNCHANGED <<listed, gone, handed, tally>>

RAdd(t) ==
    /\ t \in DOMAIN kind \ (listed \cup gone)
    /\ listed' = listed \cup {t}
    /\ UNCHANGED <<kind, gone, handed, tally>>

RGive(t) ==
    /\ t \in listed \cup gone
    /\ handed' = handed \cup {t}
    /\ UNCHANGED <<kind, listed, gone, tally>>

RDelete(t) ==
    /\ t \in listed
    /\ listed' = listed \ {t} /\ gone' = gone \cup {t}
    /\ tally' = [tally EXCEPT ![kind[t]] = @ + 1]
    /\ UNCHANGED <<kind, handed>>

(* The second update begins: nothing has happened yet, and anything may.   *)
ROverlap ==
    /\ overlapped' = TRUE
    /\ UNCHANGED <<kind, listed, gone, handed, tally>>

RNext ==
    \/ /\ UNCHANGED overlapped
       /\ \/ overlapped
          \/ \E t \in DOMAIN kind', ty \in Transports : RMake(t, ty)
          \/ \E t \in DOMAIN kind : RAdd(t) \/ RGive(t) \/ RDelete(t)
    \/ ROverlap

RSpec == RInit /\ [][RNext]_rvars
=============================================================================
