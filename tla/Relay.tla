-------------------------------- MODULE Relay --------------------------------
(***************************************************************************)
(* One connection of a program to a remote host, from the confirmation on. *)
(*                                                                         *)
(* The client and the server each hold two connections, p1 to the program  *)
(* or the remote (tcp) and p2, the two ends of a smux or quic stream, and  *)
(* run Pipe (clientcontroll/controll.go and                                *)
(* connections/base/proxytunnel.go): two goroutines, each of which copies  *)
(* one way and, when that copy ends for whatever reason, closes p1 and p2. *)
(*                                                                         *)
(* A chunk goes over three hops in each direction.  queue[d][h] is what    *)
(* was written on hop h of direction d and not yet read.  Copier <<d, j>>  *)
(* reads from hop j and writes on hop j + 1: up, the first copier is the   *)
(* client's and the second the server's; down, the other way round.        *)
(***************************************************************************)
EXTENDS Integers, Sequences, FiniteSets

CONSTANTS
    Kinds,      \* the multiplexers to consider: "smux", "quic"
    Capacity,   \* bound: the chunks a hop holds
    MaxSent     \* bound: the chunks sent, both ways together

Dirs  == {"up", "down"}
Sides == {"program", "remote"}
Procs == {"client", "server"}
Copiers == Dirs \X {1, 2}

ASSUME RelayAssumption ==
    /\ Kinds \subseteq {"smux", "quic"} /\ Kinds # {}
    /\ Capacity \in Nat \ {0}
    /\ MaxSent \in Nat

VARIABLES
    (* the program and the remote *)
    sent, got, side, told,
    (* the hops *)
    kind, queue, lost,
    (* the copiers: their step, the chunk read and not yet written, and     *)
    (* whether it was read together with an error or the end               *)
    pc, hold, last,
    (* the processes that closed both; history: a deadline passed     *)
    closed, expired

apps    == <<sent, got, side, told>>
copiers == <<pc, hold, last>>
vars    == <<apps, kind, queue, lost, copiers, closed, expired>>

Sender(d)   == IF d = "up" THEN "program" ELSE "remote"
Receiver(d) == IF d = "up" THEN "remote" ELSE "program"
Other(d)    == IF d = "up" THEN "down" ELSE "up"
Who(d, j)   == IF (d = "up") = (j = 1) THEN "client" ELSE "server"

(* The process that reads hop h closed its end of it.                      *)
ReaderClosed(d, h) ==
    IF h = 3 THEN side[Receiver(d)] = "closed" ELSE Who(d, h) \in closed

(* The writer of hop h has ended it: an end follows what is in the queue.  *)
(* quic sends it after the data of a Write that was waiting.               *)
Ended(d, h) ==
    IF h = 1 THEN side[Sender(d)] # "open"
    ELSE Who(d, h - 1) \in closed /\ pc[d][h - 1] # "wait"

(* smux and tcp wake a reader whose own end is closed; QuicConn.Close only *)
(* ends the sending half of a quic stream.                                 *)
CutOff(d, j) == Who(d, j) \in closed /\ (j = 1 \/ kind = "smux")

(* The peer's end was reached.  (Mutant: an empty read taken for it.)      *)
AtEndEmpty(d, j) == queue[d][j] = <<>>
AtEnd(d, j)      == queue[d][j] = <<>> /\ Ended(d, j)

(* What follows a read that brought a chunk, with the end or not.          *)
(* (Mutant: the end looked at before the chunk.)                           *)
ReadOnEnd(with) == IF with THEN "shut" ELSE "write"
ReadOn(with)    == "write"

(* The processes that closed their connections, when one more did.         *)
(* (Mutant: nothing closed.)                                               *)
ClosingNone(p) == closed
Closing(p)     == closed \cup {p}

Full(d, h) == Len(queue[d][h]) >= Capacity

Goto(d, j, step) == pc' = [pc EXCEPT ![d][j] = step]
Put(d, h, q)     == queue' = [queue EXCEPT ![d][h] = q]

Init ==
    /\ sent = [d \in Dirs |-> <<>>] /\ got = [d \in Dirs |-> <<>>]
    /\ side = [s \in Sides |-> "open"] /\ told = [d \in Dirs |-> FALSE]
    /\ kind \in Kinds
    /\ queue = [d \in Dirs |-> [h \in 1..3 |-> <<>>]]
    /\ lost = FALSE
    /\ pc = [d \in Dirs |-> [j \in {1, 2} |-> "read"]]
    /\ hold = [d \in Dirs |-> [j \in {1, 2} |-> 0]]
    /\ last = [d \in Dirs |-> [j \in {1, 2} |-> FALSE]]
    /\ closed = {}
    /\ expired = FALSE

-----------------------------------------------------------------------------
(* The program, the remote and the network. *)

Send(d) ==
    /\ side[Sender(d)] = "open" /\ ~Full(d, 1)
    /\ Len(sent["up"]) + Len(sent["down"]) < MaxSent
    /\ sent' = [sent EXCEPT ![d] = Append(@, Len(@) + 1)]
    /\ Put(d, 1, Append(queue[d][1], Len(sent[d]) + 1))
    /\ UNCHANGED <<got, side, told, kind, lost, copiers, closed, expired>>

Get(d) ==
    /\ side[Receiver(d)] # "closed" /\ ~told[d] /\ queue[d][3] # <<>>
    /\ got' = [got EXCEPT ![d] = Append(@, Head(queue[d][3]))]
    /\ Put(d, 3, Tail(queue[d][3]))
    /\ UNCHANGED <<sent, side, told, kind, lost, copiers, closed, expired>>

GetEnd(d) ==
    /\ side[Receiver(d)] # "closed" /\ ~told[d]
    /\ queue[d][3] = <<>> /\ Ended(d, 3)
    /\ told' = [told EXCEPT ![d] = TRUE]
    /\ UNCHANGED <<sent, got, side, kind, queue, lost, copiers, closed, expired>>

(* A side ends what it sends and reads on, or closes altogether.           *)
EndSide(s, to) ==
    /\ <<side[s], to>> \in {<<"open", "half">>, <<"open", "closed">>, <<"half", "closed">>}
    /\ side' = [side EXCEPT ![s] = to]
    /\ UNCHANGED <<sent, got, told, kind, queue, lost, copiers, closed, expired>>

Lose ==
    /\ ~lost /\ lost' = TRUE
    /\ UNCHANGED <<apps, kind, queue, copiers, closed, expired>>

(* tcp: an end that was closed with input unread resets the connection,    *)
(* and what it wrote and was not read yet is lost.                         *)
Reset(d, h) ==
    /\ h # 2 /\ queue[d][h] # <<>>
    /\ ReaderClosed(Other(d), 4 - h) /\ queue[Other(d)][4 - h] # <<>>
    /\ Put(d, h, <<>>)
    /\ UNCHANGED <<apps, kind, lost, copiers, closed, expired>>

Environment ==
    \/ \E d \in Dirs : Send(d) \/ Get(d) \/ GetEnd(d) \/ (\E h \in {1, 3} : Reset(d, h))
    \/ \E s \in Sides, to \in {"half", "closed"} : EndSide(s, to)
    \/ Lose

-----------------------------------------------------------------------------
(* The copiers: Read, Write, and, after the loop, the two calls of Close. *)

(* A read hands over a chunk, and with the last one perhaps the end too.   *)
Read(d, j) ==
    /\ pc[d][j] = "read" /\ ~CutOff(d, j) /\ queue[d][j] # <<>>
    /\ hold' = [hold EXCEPT ![d][j] = Head(queue[d][j])]
    /\ Put(d, j, Tail(queue[d][j]))
    /\ \E with \in BOOLEAN :
        /\ with => Len(queue[d][j]) = 1 /\ Ended(d, j)
        /\ last' = [last EXCEPT ![d][j] = with]
        /\ Goto(d, j, ReadOn(with))
    /\ UNCHANGED <<apps, kind, lost, closed, expired>>

(* Only an end or an error: a closed source, the peer's end, a lost        *)
(* session.                                                                *)
ReadEnds(d, j) ==
    /\ pc[d][j] = "read"
    /\ \/ CutOff(d, j)
       \/ AtEnd(d, j)
       \/ j = 2 /\ lost
    /\ Goto(d, j, "shut")
    /\ UNCHANGED <<apps, kind, queue, lost, hold, last, closed, expired>>

(* The client's deadlines.  Down, one of thirty minutes from the start of  *)
(* the copy, however much is being read; up, one of thirty minutes for     *)
(* each read.  The server sets none.                                       *)
Expires(d) ==
    \/ d = "down" /\ pc[d][2] = "read" /\ Goto(d, 2, "shut")
    \/ d = "up" /\ pc[d][1] = "read" /\ queue[d][1] = <<>> /\ Goto(d, 1, "shut")

Expire(d) ==
    /\ Expires(d)
    /\ expired' = TRUE
    /\ UNCHANGED <<apps, kind, queue, lost, hold, last, closed>>

(* After a write: read on, unless the read had brought an error.           *)
Onward(d, j) == IF last[d][j] THEN "shut" ELSE "read"

Written(d, j) ==
    /\ Goto(d, j, Onward(d, j))
    /\ hold' = [hold EXCEPT ![d][j] = 0]
    /\ last' = [last EXCEPT ![d][j] = FALSE]

Write(d, j) ==
    /\ \/ pc[d][j] = "write" /\ Who(d, j) \notin closed
       \/ pc[d][j] = "wait"
    /\ ~(j = 1 /\ lost) /\ ~Full(d, j + 1)
    /\ Put(d, j + 1, Append(queue[d][j + 1], hold[d][j]))
    /\ Written(d, j)
    /\ UNCHANGED <<apps, kind, lost, closed, expired>>

(* A write on a connection whose other end is closed is lost; quic keeps   *)
(* it, for its other end may still read.                                   *)
WriteLost(d, j) ==
    /\ pc[d][j] = "write" /\ Who(d, j) \notin closed /\ ~(j = 1 /\ lost)
    /\ Full(d, j + 1) /\ ReaderClosed(d, j + 1) /\ (j = 2 \/ kind = "smux")
    /\ Written(d, j)
    /\ UNCHANGED <<apps, kind, queue, lost, closed, expired>>

WriteFails(d, j) ==
    /\ \/ pc[d][j] = "write" /\ (Who(d, j) \in closed \/ (j = 2 /\ ReaderClosed(d, 3)))
       \/ pc[d][j] \in {"write", "wait"} /\ j = 1 /\ lost
    /\ Goto(d, j, "shut")
    /\ hold' = [hold EXCEPT ![d][j] = 0]
    /\ last' = [last EXCEPT ![d][j] = FALSE]
    /\ UNCHANGED <<apps, kind, queue, lost, closed, expired>>

(* quic: a Write that waits for room is not woken by this process's Close. *)
WriteWaits(d, j) ==
    /\ pc[d][j] = "write" /\ j = 1 /\ kind = "quic"
    /\ Who(d, j) \notin closed /\ ~lost /\ Full(d, 2)
    /\ Goto(d, j, "wait")
    /\ UNCHANGED <<apps, kind, queue, lost, hold, last, closed, expired>>

(* p1.Close() and p2.Close(), one after the other.                         *)
Shut(d, j) ==
    /\ pc[d][j] = "shut"
    /\ Goto(d, j, "done")
    /\ closed' = Closing(Who(d, j))
    /\ UNCHANGED <<apps, kind, queue, lost, hold, last, expired>>

Copy(d, j) ==
    \/ Read(d, j) \/ ReadEnds(d, j) \/ Write(d, j) \/ WriteLost(d, j)
    \/ WriteFails(d, j) \/ WriteWaits(d, j) \/ Shut(d, j)

Next ==
    \/ Environment
    \/ \E d \in Dirs : Expire(d) \/ (\E j \in {1, 2} : Copy(d, j))

Spec == Init /\ [][Next]_vars

(* Go runs the goroutines that can run.  Nothing obliges the program or    *)
(* the remote to send, to read or to end.                                  *)
Fairness == \A d \in Dirs, j \in {1, 2} : WF_vars(Copy(d, j))

FairSpec == Spec /\ Fairness

-----------------------------------------------------------------------------
TypeOK ==
    /\ sent \in [Dirs -> Seq(Nat)] /\ got \in [Dirs -> Seq(Nat)]
    /\ side \in [Sides -> {"open", "half", "closed"}]
    /\ told \in [Dirs -> BOOLEAN]
    /\ kind \in Kinds /\ lost \in BOOLEAN /\ expired \in BOOLEAN
    /\ queue \in [Dirs -> [1..3 -> Seq(Nat)]]
    /\ pc \in [Dirs -> [{1, 2} -> {"read", "write", "wait", "shut", "done"}]]
    /\ hold \in [Dirs -> [{1, 2} -> Nat]] /\ last \in [Dirs -> [{1, 2} -> BOOLEAN]]
    /\ closed \subseteq Procs

Promise == INSTANCE Stream WITH cut <- (lost \/ expired)

(* The chain of three connections and four copiers is a stream: in order,  *)
(* without a gap, and ended only for a reason, although every copier       *)
(* closes connections another one is using.                                *)
Implements == Promise!SSpec

(* The remote that sends its answer and closes is heard to the end: if the *)
(* program is told the end, did not end itself, everything it sent was     *)
(* read, and neither the session nor a deadline cut the connection, then   *)
(* it got the whole answer.                                                *)
WholeAnswer ==
    (/\ told["down"] /\ side["program"] = "open"
     /\ got["up"] = sent["up"] /\ ~lost /\ ~expired)
        => got["down"] = sent["down"]

AllDone == \A d \in Dirs, j \in {1, 2} : pc[d][j] = "done"

(* An application that is still there does not read what waits for it.     *)
Stalled == \E d \in Dirs : Full(d, 3) /\ side[Receiver(d)] # "closed"

(* quic: a Write waits for room in a stream nobody reads any more.         *)
Abandoned == \E d \in Dirs : pc[d][1] = "wait" /\ pc[d][2] = "done"

(* When either side ended, if only what it sends, or the session was lost  *)
(* or a deadline passed, all four copiers end, unless an application does  *)
(* not read, or a quic stream is left with a Write that nothing wakes.     *)
Ends ==
    \/ <>[](Stalled \/ Abandoned)
    \/ (lost \/ expired \/ \E s \in Sides : side[s] # "open") ~> AllDone
=============================================================================
