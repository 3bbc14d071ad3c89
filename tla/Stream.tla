------------------------------- MODULE Stream -------------------------------
(***************************************************************************)
(* What a program and a remote host may expect of a connection through the *)
(* proxy, whatever lies in between: in each direction the receiver gets    *)
(* what was sent, in order, nothing twice and nothing left out, until it   *)
(* is told that nothing more will come, and it is told only for a reason:  *)
(* one of the two ended its side, or the connection was cut.               *)
(***************************************************************************)
EXTENDS Integers, Sequences

VARIABLES
    sent,   \* by direction: the chunks handed over by the sender
    got,    \* by direction: the chunks the receiver read
    side,   \* by application: "open", "half" (it sends no more) or "closed"
    told,   \* by direction: the receiver read the end
    cut     \* something in between gave up

svars == <<sent, got, side, told, cut>>

Dirs  == {"up", "down"}
Sides == {"program", "remote"}
Sender(d)   == IF d = "up" THEN "program" ELSE "remote"
Receiver(d) == IF d = "up" THEN "remote" ELSE "program"

SInit ==
    /\ sent = [d \in Dirs |-> <<>>] /\ got = [d \in Dirs |-> <<>>]
    /\ side = [s \in Sides |-> "open"]
    /\ told = [d \in Dirs |-> FALSE]
    /\ cut = FALSE

(* The chunks of a direction are told apart by their number.               *)
SSend(d) ==
    /\ side[Sender(d)] = "open"
    /\ sent' = [sent EXCEPT ![d] = Append(@, Len(@) + 1)]
    /\ UNCHANGED <<got, side, told, cut>>

SGet(d) ==
    /\ ~told[d] /\ side[Receiver(d)] # "closed"
    /\ Len(got[d]) < Len(sent[d])
    /\ got' = [got EXCEPT ![d] = Append(@, sent[d][Len(@) + 1])]
    /\ UNCHANGED <<sent, side, told, cut>>

STell(d) ==
    /\ cut \/ \E s \in Sides : side[s] # "open"
    /\ told' = [told EXCEPT ![d] = TRUE]
    /\ UNCHANGED <<sent, got, side, cut>>

SEnd(s, to) ==
    /\ <<side[s], to>> \in {<<"open", "half">>, <<"open", "closed">>, <<"half", "closed">>}
    /\ side' = [side EXCEPT ![s] = to]
    /\ UNCHANGED <<sent, got, told, cut>>

SCut ==
    /\ cut' = TRUE
    /\ UNCHANGED <<sent, got, side, told>>

SNext ==
    \/ \E d \in Dirs : SSend(d) \/ SGet(d) \/ STell(d)
    \/ \E s \in Sides, to \in {"half", "closed"} : SEnd(s, to)
    \/ SCut

SSpec == SInit /\ [][SNext]_svars
=============================================================================
