----------------------------- MODULE StreamServer -----------------------------
(***************************************************************************)
(* How a tunnel serves the streams of its clients.                         *)
(*                                                                         *)
(* A client's connection is a session that carries many streams.  For tls  *)
(* and kcp a goroutine per session accepts them (prosmux/smux.go,          *)
(* AccpetStream) and waits for their handlers before it closes the         *)
(* multiplexer; for quic (proquic/quic_server.go, accpeStream) it does not *)
(* wait.  The handler of a stream (connections/base/proxytunnel.go,        *)
(* HandleConnAsync) reads a request, dials, confirms, and copies both      *)
(* ways: what the remote sends itself, what the client sends in a second   *)
(* goroutine.                                                              *)
(*                                                                         *)
(* acc[s], pc[st] and up[st] are the steps the accepting goroutine of      *)
(* session s, the handler of stream st and its second goroutine are about  *)
(* to take.  An operation on a connection that blocks is an action that is *)
(* enabled when it returns.                                                *)
(***************************************************************************)
EXTENDS Integers, Sequences, FiniteSets

CONSTANTS
    Sessions,   \* the clients' connections to this tunnel
    Streams,    \* bound: the streams the clients open in all
    ProxyTypes, \* the transports a tunnel may have
    NoSession   \* the session of a stream not yet opened

ASSUME StreamAssumption ==
    /\ IsFiniteSet(Streams) /\ IsFiniteSet(Sessions)
    /\ ProxyTypes \subseteq {"tls", "kcp", "quic"}
    /\ NoSession \notin Sessions

VARIABLES
    (* the tunnel: its transport, connections it remembers, how many it serves *)
    ProxyType, cons, alive,
    (* sessions: connection lost, multiplexer closed, WaitGroup, accepting goroutine *)
    lost, closed, wg, acc,
    (* streams: their session, what the client asks for, whether it ended  *)
    (* its side, whether it was sent the confirmation                      *)
    sess, asks, ended, confirmed,
    (* handlers: their steps, those of the second goroutine, the server's  *)
    (* end of the stream, the connection to the remote, whether the remote *)
    (* ended its side, and whether data went either way                    *)
    pc, up, con, remote, gone, relayed

tunnel  == <<ProxyType, cons, alive>>
session == <<lost, closed, wg, acc>>
client  == <<sess, asks, ended, confirmed>>
handler == <<pc, up, con, remote, gone, relayed>>
vars    == <<tunnel, session, client, handler>>

(* Handlers that entered and did not leave the part alive counts. *)
Counted == {"dial", "confirm", "down", "shut", "join", "uncount"}
(* Handlers that were started and have not returned. *)
Running == Counted \cup {"request", "count"}

(* Nothing more goes through st: the session is lost or closed, or this    *)
(* end closed the stream.                                                  *)
Broken(st) == lost[sess[st]] \/ closed[sess[st]] \/ con[st] = "closed"

(* Reading st fails too; closing a stream of quic ends only its writing.   *)
Unreadable(st) == Broken(st) /\ (ProxyType = "quic" => lost[sess[st]])

Goto(st, step)   == pc' = [pc EXCEPT ![st] = step]
GotoUp(st, step) == up' = [up EXCEPT ![st] = step]

(* wg.Done.                                                                *)
Released(s) == [wg EXCEPT ![s] = @ - 1]

(* wg.Wait returns.  (Mutant: not called.)                                 *)
NotWaited(s) == TRUE
Waited(s)    == wg[s] = 0

(* A read or a dial failed: where the handler goes, and the stream's end.  *)
(* (Mutants: the stream left open; the count not undone.)                  *)
RefusedOpen(st) == UNCHANGED con
Refused(st)     == con' = [con EXCEPT ![st] = "closed"]
UndialedQuick == "release"
Undialed      == "uncount"

(* One direction of Pipe ended: it closes the remote and the stream.       *)
(* (Mutant: the remote left open.)                                         *)
CloseStream(st) == con' = [con EXCEPT ![st] = "closed"] /\ UNCHANGED remote
CloseBoth(st) ==
    /\ con' = [con EXCEPT ![st] = "closed"]
    /\ remote' = [remote EXCEPT ![st] = "closed"]

(* The confirmation could not be written.  (Mutant: remote not closed.)    *)
UnconfirmedOpen(st) == UNCHANGED remote
Unconfirmed(st)     == remote' = [remote EXCEPT ![st] = "closed"]

Init ==
    /\ ProxyType \in ProxyTypes /\ cons = {} /\ alive = 0
    /\ lost = [s \in Sessions |-> FALSE]
    /\ closed = [s \in Sessions |-> FALSE]
    /\ wg = [s \in Sessions |-> 0]
    /\ acc = [s \in Sessions |-> "accept"]
    /\ sess = [st \in Streams |-> NoSession]
    /\ asks = [st \in Streams |-> "nothing"]
    /\ ended = [st \in Streams |-> FALSE]
    /\ confirmed = [st \in Streams |-> FALSE]
    /\ pc = [st \in Streams |-> "unopened"]
    /\ up = [st \in Streams |-> "none"]
    /\ con = [st \in Streams |-> "open"]
    /\ remote = [st \in Streams |-> "none"]
    /\ gone = [st \in Streams |-> FALSE]
    /\ relayed = [st \in Streams |-> FALSE]

-----------------------------------------------------------------------------
(* The clients, the remotes and the network. *)

(* A client opens a stream, for a request it sends when it likes: a host,  *)
(* "R" for a host R://, "bad" for what GetServerRequest rejects, "nothing" *)
(* if it never does.                                                       *)
Open(st, s, what) ==
    /\ pc[st] = "unopened" /\ ~lost[s] /\ ~closed[s]
    /\ sess' = [sess EXCEPT ![st] = s]
    /\ asks' = [asks EXCEPT ![st] = what]
    /\ Goto(st, "queued")
    /\ UNCHANGED <<tunnel, session, ended, confirmed, up, con, remote, gone, relayed>>

EndStream(st) ==
    /\ pc[st] # "unopened" /\ ~ended[st] /\ ~Unreadable(st)
    /\ ended' = [ended EXCEPT ![st] = TRUE]
    /\ UNCHANGED <<tunnel, session, sess, asks, confirmed, handler>>

EndRemote(st) ==
    /\ remote[st] = "open" /\ ~gone[st]
    /\ gone' = [gone EXCEPT ![st] = TRUE]
    /\ UNCHANGED <<tunnel, session, client, pc, up, con, remote, relayed>>

Lose(s) ==
    /\ ~lost[s]
    /\ lost' = [lost EXCEPT ![s] = TRUE]
    /\ UNCHANGED <<tunnel, closed, wg, acc, client, handler>>

Environment ==
    \/ \E st \in Streams, s \in Sessions, what \in {"host", "R", "bad", "nothing"} :
        Open(st, s, what)
    \/ \E st \in Streams : EndStream(st) \/ EndRemote(st)
    \/ \E s \in Sessions : Lose(s)

-----------------------------------------------------------------------------
(* The accepting goroutine of a session. *)

(* A stream the client opened is accepted, from a lost session too if it   *)
(* was queued, and its handler started.                                    *)
AcceptStream(s, st) ==
    /\ acc[s] = "accept" /\ pc[st] = "queued" /\ sess[st] = s
    /\ Goto(st, "request")
    /\ wg' = IF ProxyType = "quic" THEN wg ELSE [wg EXCEPT ![s] = @ + 1]
    /\ UNCHANGED <<tunnel, lost, closed, acc, client, up, con, remote, gone, relayed>>

(* No more streams: quic's goroutine returns, the other one waits.         *)
AcceptFails(s) ==
    /\ acc[s] = "accept" /\ lost[s]
    /\ acc' = [acc EXCEPT ![s] = IF ProxyType = "quic" THEN "done" ELSE "wait"]
    /\ UNCHANGED <<tunnel, lost, closed, wg, client, handler>>

CloseMux(s) ==
    /\ acc[s] = "wait" /\ Waited(s)
    /\ acc' = [acc EXCEPT ![s] = "done"]
    /\ closed' = [closed EXCEPT ![s] = TRUE]
    /\ UNCHANGED <<tunnel, lost, wg, client, handler>>

Acceptor(s) ==
    \/ \E st \in Streams : AcceptStream(s, st)
    \/ AcceptFails(s) \/ CloseMux(s)

-----------------------------------------------------------------------------
(* The handler of a stream. *)

(* GetServerRequest.  What arrived before the stream ended is still read;  *)
(* a lost session may have dropped it.                                     *)
Request(st) ==
    /\ pc[st] = "request"
    /\ \/ /\ asks[st] \in {"host", "R"}
          /\ Goto(st, "count")
          /\ UNCHANGED con
       \/ /\ asks[st] = "bad" \/ ended[st] \/ Broken(st)
          /\ asks[st] \in {"host", "R"} => Broken(st)
          /\ Goto(st, "release")
          /\ Refused(st)
    /\ UNCHANGED <<tunnel, session, client, up, remote, gone, relayed>>

(* Under the tunnel's lock.  A request for R:// goes to ControllFunc,      *)
(* which nothing sets: the handler returns and the stream stays open.      *)
Count(st) ==
    /\ pc[st] = "count"
    /\ cons' = cons \cup {st}
    /\ alive' = alive + 1
    /\ Goto(st, IF asks[st] = "R" THEN "uncount" ELSE "dial")
    /\ UNCHANGED <<ProxyType, session, client, up, con, remote, gone, relayed>>

(* A host that cannot be dialled is not answered, nor is its stream closed.*)
Dial(st) ==
    /\ pc[st] = "dial"
    /\ \/ Goto(st, "confirm") /\ remote' = [remote EXCEPT ![st] = "open"]
       \/ Goto(st, Undialed) /\ remote' = [remote EXCEPT ![st] = "refused"]
    /\ UNCHANGED <<tunnel, session, client, up, con, gone, relayed>>

(* The confirmation is written, or the remote is closed; Pipe either way.  *)
Confirm(st) ==
    /\ pc[st] = "confirm"
    /\ Goto(st, "down")
    /\ GotoUp(st, "spawned")
    /\ \/ /\ ~Broken(st)
          /\ confirmed' = [confirmed EXCEPT ![st] = TRUE]
          /\ UNCHANGED remote
       \/ /\ ended[st] \/ Broken(st)
          /\ Unconfirmed(st)
          /\ UNCHANGED confirmed
    /\ UNCHANGED <<tunnel, session, sess, asks, ended, con, gone, relayed>>

(* Copy from the remote to the stream: something the remote sent is passed *)
(* on, or could not be; the copy ends when the remote ended or was closed. *)
Down(st) ==
    /\ pc[st] = "down" /\ remote[st] = "open" /\ ~gone[st]
    /\ \/ /\ ~Broken(st)
          /\ ~relayed[st] /\ relayed' = [relayed EXCEPT ![st] = TRUE]
          /\ UNCHANGED pc
       \/ /\ ended[st] \/ Broken(st)
          /\ Goto(st, "shut")
          /\ UNCHANGED relayed
    /\ UNCHANGED <<tunnel, session, client, up, con, remote, gone>>

DownEnds(st) ==
    /\ pc[st] = "down"
    /\ gone[st] \/ remote[st] = "closed"
    /\ Goto(st, "shut")
    /\ UNCHANGED <<tunnel, session, client, up, con, remote, gone, relayed>>

Shut(st) ==
    /\ pc[st] = "shut"
    /\ Goto(st, "join")
    /\ CloseBoth(st)
    /\ UNCHANGED <<tunnel, session, client, up, gone, relayed>>

(* Pipe's WaitGroup is done when the second goroutine has begun.           *)
Join(st) ==
    /\ pc[st] = "join" /\ up[st] # "spawned"
    /\ Goto(st, "uncount")
    /\ UNCHANGED <<tunnel, session, client, up, con, remote, gone, relayed>>

(* The deferred function, under the lock; cons keeps the connection.       *)
Uncount(st) ==
    /\ pc[st] = "uncount"
    /\ alive' = alive - 1
    /\ Goto(st, "release")
    /\ UNCHANGED <<ProxyType, cons, session, client, up, con, remote, gone, relayed>>

(* The goroutine around the handler ends: wg.Done, but not for quic, where *)
(* nobody waits.                                                           *)
Release(st) ==
    /\ pc[st] = "release"
    /\ Goto(st, "done")
    /\ wg' = IF ProxyType = "quic" THEN wg ELSE Released(sess[st])
    /\ UNCHANGED <<tunnel, lost, closed, acc, client, up, con, remote, gone, relayed>>

(* The handler's steps that do not wait for the remote to send something.  *)
Handler(st) ==
    \/ Request(st) \/ Count(st) \/ Dial(st) \/ Confirm(st) \/ DownEnds(st)
    \/ Shut(st) \/ Join(st) \/ Uncount(st) \/ Release(st)

-----------------------------------------------------------------------------
(* Pipe's second goroutine copies from the stream to the remote. *)

UpBegins(st) ==
    /\ up[st] = "spawned"
    /\ GotoUp(st, "copy")
    /\ UNCHANGED <<tunnel, session, client, pc, con, remote, gone, relayed>>

(* Something the client sent is passed on, or could not be.                *)
Up(st) ==
    /\ up[st] = "copy" /\ ~ended[st] /\ ~Unreadable(st)
    /\ \/ /\ remote[st] = "open"
          /\ ~relayed[st] /\ relayed' = [relayed EXCEPT ![st] = TRUE]
          /\ UNCHANGED up
       \/ /\ gone[st] \/ remote[st] = "closed"
          /\ GotoUp(st, "shut")
          /\ UNCHANGED relayed
    /\ UNCHANGED <<tunnel, session, client, pc, con, remote, gone>>

UpEnds(st) ==
    /\ up[st] = "copy"
    /\ ended[st] \/ Unreadable(st)
    /\ GotoUp(st, "shut")
    /\ UNCHANGED <<tunnel, session, client, pc, con, remote, gone, relayed>>

UpShut(st) ==
    /\ up[st] = "shut"
    /\ GotoUp(st, "done")
    /\ CloseBoth(st)
    /\ UNCHANGED <<tunnel, session, client, pc, gone, relayed>>

Second(st) == UpBegins(st) \/ UpEnds(st) \/ UpShut(st)

Next ==
    \/ Environment
    \/ \E s \in Sessions : Acceptor(s)
    \/ \E st \in Streams : Handler(st) \/ Down(st) \/ Second(st) \/ Up(st)

Spec == Init /\ [][Next]_vars

(* Go runs the goroutines that can run, a dial ends (the operating system  *)
(* gives up at last), and a read or write on a dead connection returns.    *)
(* Nothing obliges a client or a remote to send or to end.                 *)
Fairness ==
    /\ \A s \in Sessions : WF_vars(Acceptor(s))
    /\ \A st \in Streams : WF_vars(Handler(st)) /\ WF_vars(Second(st))

FairSpec == Spec /\ Fairness

-----------------------------------------------------------------------------
TypeOK ==
    /\ ProxyType \in ProxyTypes /\ cons \subseteq Streams /\ alive \in Nat
    /\ lost \in [Sessions -> BOOLEAN] /\ closed \in [Sessions -> BOOLEAN]
    /\ wg \in [Sessions -> Nat]
    /\ acc \in [Sessions -> {"accept", "wait", "done"}]
    /\ sess \in [Streams -> Sessions \cup {NoSession}]
    /\ asks \in [Streams -> {"nothing", "host", "R", "bad"}]
    /\ ended \in [Streams -> BOOLEAN] /\ confirmed \in [Streams -> BOOLEAN]
    /\ pc \in [Streams -> Running \cup {"unopened", "queued", "release", "done"}]
    /\ up \in [Streams -> {"none", "spawned", "copy", "shut", "done"}]
    /\ con \in [Streams -> {"open", "closed"}]
    /\ remote \in [Streams -> {"none", "refused", "open", "closed"}]
    /\ gone \in [Streams -> BOOLEAN] /\ relayed \in [Streams -> BOOLEAN]

(* AccpetStream waits for all streams before it closes the multiplexer: no *)
(* handler of a closed session is still running.                           *)
ClosedIsQuiet ==
    \A st \in Streams : pc[st] \in Running => ~closed[sess[st]]

(* GetConnectNum's alive is the number of handlers that are serving a      *)
(* request, whatever way they end.                                         *)
AliveExact == alive = Cardinality({st \in Streams : pc[st] \in Counted})

(* A handler that returns leaves no connection to a remote behind, although*)
(* it does not wait for its second goroutine.                              *)
NoRemoteLeft == \A st \in Streams : pc[st] \in {"release", "done"} => remote[st] # "open"

(* The only streams a handler leaves open are those of hosts it could not  *)
(* dial and of R:// requests.                                              *)
LeftOpen ==
    \A st \in Streams :
        (pc[st] \in {"release", "done"} /\ con[st] = "open") =>
            (remote[st] = "refused" \/ asks[st] = "R")

(* The confirmation comes before everything else: no data goes either way  *)
(* on a stream whose client was not sent it, also when writing it failed   *)
(* and Pipe was called nevertheless.                                       *)
ConfirmFirst == \A st \in Streams : relayed[st] => confirmed[st]

(* When a client's connection is lost, every handler of its streams        *)
(* returns, those copying from a remote that never says another word       *)
(* included, and so does the accepting goroutine.                          *)
Drains ==
    \A s \in Sessions :
        lost[s] ~> (acc[s] = "done" /\ \A st \in Streams : sess[st] = s => pc[st] \notin Running)
=============================================================================
