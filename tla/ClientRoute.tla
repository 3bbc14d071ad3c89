------------------------------ MODULE ClientRoute ------------------------------
(***************************************************************************)
(* Which server a client uses (deploy/httpcontroll.go, clientcontroll/)    *)
(*                                                                         *)
(* The page of the client's local API posts "switch" with a host and       *)
(* "change" with a transport.  The first switch makes a ClientControl and  *)
(* starts Socks5Listen; a later one sets its closeFlag, and a goroutine    *)
(* (ChangeRoute) enters the new host, polls until the running loop says it *)
(* is closed and calls Socks5Listen again.  None of these fields has a     *)
(* lock.  A request r stands for its handler and the goroutines it starts, *)
(* those that serve the connections of its loop too; the control a request *)
(* makes bears its name, and so does the listener of its Socks5Listen.     *)
(*                                                                         *)
(* A host is posted, and kept in Addr, with or without a port and with or  *)
(* without the scheme https: the page posts neither.  The sessions         *)
(* themselves are module SessionPool.                                      *)
(***************************************************************************)
EXTENDS Integers, FiniteSets

CONSTANTS
    Hosts,        \* servers
    Posted,       \* bound: the addresses posted with "switch"
    Requests,     \* bound: requests to the local API
    ErrLimit,     \* errors after which the tunnel is reported (7 in the code)
    Nil           \* no control, no configuration, no host

(* An address: its host, whether the port of the API and a scheme are in it. *)
Address == [host : Hosts, port : BOOLEAN, tls : BOOLEAN]

ASSUME RouteAssumption ==
    /\ Posted \subseteq Address
    /\ Nil \notin Hosts \cup Requests \cup Address
    /\ ErrLimit \in Nat

VARIABLES
    (* globalClient.ClientConf *)
    ClientConf,
    (* fields of each control; nowconf is the server of the configuration *)
    Addr, nowconf, closeFlag, closed, ErrCount,
    (* requests: step, address posted, control; the addresses its          *)
    (* goroutines asked for a configuration and wait for, the one its loop *)
    (* reported errors to                                                  *)
    pc, host, ctl, asked, told,
    (* requests whose listener is open; how the process ended *)
    listening, exited,
    (* whether its loop took a connection; history: those it took while its *)
    (* closeFlag was set                                                    *)
    used, late

flags   == <<closeFlag, closed>>
request == <<host, ctl>>
posts   == <<asked, told>>
vars    == <<ClientConf, Addr, nowconf, flags, ErrCount, pc, request, posts, listening, exited, used, late>>

Goto(r, step) == pc' = [pc EXCEPT ![r] = step]

(* Between Listen and the end of the loop of Socks5Listen.                 *)
Loop == {"loop", "report", "flag", "accept"}

(* Which server answers /proxy-get at address a, if any: GetAviableProxy   *)
(* always posts with TLS, to port 443 if the address has none.             *)
Answers(a) == IF a.port THEN {a.host} ELSE {}

(* ReportErrorProxy posts over HTTP/3, which no server serves, if the      *)
(* address has no scheme.                                                  *)
AnswersReport(a) == IF a.tls THEN Answers(a) ELSE {}

(* NewClientControll adds the port if there is no colon, of a scheme       *)
(* neither, and the scheme.                                                *)
Normalised(a) == [a EXCEPT !.port = a.port \/ ~a.tls, !.tls = TRUE]

(* What Socks5Listen sets when it listens.  (Mutant: closed is forgotten.) *)
OpenedHalf(c) == closeFlag' = [closeFlag EXCEPT ![c] = FALSE] /\ UNCHANGED closed
Opened(c)     == closeFlag' = [closeFlag EXCEPT ![c] = FALSE] /\ closed' = [closed EXCEPT ![c] = FALSE]

(* The loop goes back to its checks after a connection.                    *)
(* (Mutant: straight to the next connection.)                              *)
AfterNext == "accept"
AfterConn == "loop"

(* ReportErrorProxy keeps what it has when nobody answers.                 *)
(* (Mutant: it drops it.)                                                  *)
SilentDropped(c) == Nil
Silent(c)        == nowconf[c]

(* The count after a success.                                              *)
Calmer(n) == IF n > 0 THEN n - 1 ELSE n

Init ==
    /\ ClientConf = Nil
    /\ Addr = [r \in Requests |-> Nil] /\ nowconf = [r \in Requests |-> Nil]
    /\ closeFlag = [r \in Requests |-> FALSE] /\ closed = [r \in Requests |-> FALSE]
    /\ ErrCount = [r \in Requests |-> 0]
    /\ pc = [r \in Requests |-> "unborn"]
    /\ host = [r \in Requests |-> Nil] /\ ctl = [r \in Requests |-> Nil]
    /\ asked = [r \in Requests |-> {}] /\ told = [r \in Requests |-> Nil]
    /\ listening = {} /\ exited = "no"
    /\ used = [r \in Requests |-> FALSE] /\ late = [r \in Requests |-> 0]

-----------------------------------------------------------------------------
(* The handler of "switch". *)

(* ClientConf is read here, and again below.                               *)
Switch(r) ==
    /\ pc[r] = "unborn"
    /\ \E a \in Posted : host' = [host EXCEPT ![r] = a]
    /\ Goto(r, IF ClientConf = Nil THEN "new" ELSE "close")
    /\ UNCHANGED <<ClientConf, Addr, nowconf, flags, ErrCount, ctl, posts, listening, exited, used, late>>

New(r) ==
    /\ pc[r] = "new"
    /\ ClientConf' = r
    /\ Addr' = [Addr EXCEPT ![r] = Normalised(host[r])]
    /\ Goto(r, "start")
    /\ UNCHANGED <<nowconf, flags, ErrCount, request, posts, listening, exited, used, late>>

(* The control that is started is the last one made.                       *)
Start(r) ==
    /\ pc[r] = "start"
    /\ ctl' = [ctl EXCEPT ![r] = ClientConf]
    /\ Goto(r, "tunnels")
    /\ UNCHANGED <<ClientConf, Addr, nowconf, flags, ErrCount, host, posts, listening, exited, used, late>>

TryClose(r) ==
    /\ pc[r] = "close"
    /\ closeFlag' = [closeFlag EXCEPT ![ClientConf] = TRUE]
    /\ Goto(r, "route")
    /\ UNCHANGED <<ClientConf, Addr, nowconf, closed, ErrCount, request, posts, listening, exited, used, late>>

(* ChangeRoute enters the host as it was posted, unless a loop that just   *)
(* began to listen has reset the flag, and waits all the same.             *)
ChangeRoute(r) ==
    /\ pc[r] = "route"
    /\ ctl' = [ctl EXCEPT ![r] = ClientConf]
    /\ Addr' = IF closeFlag[ClientConf] THEN [Addr EXCEPT ![ClientConf] = host[r]] ELSE Addr
    /\ Goto(r, "wait")
    /\ UNCHANGED <<ClientConf, nowconf, flags, ErrCount, host, posts, listening, exited, used, late>>

Poll(r) ==
    /\ pc[r] = "wait" /\ closed[ctl[r]]
    /\ Goto(r, "tunnels")
    /\ UNCHANGED <<ClientConf, Addr, nowconf, flags, ErrCount, request, posts, listening, exited, used, late>>

-----------------------------------------------------------------------------
(* Socks5Listen, and ChangeProxyType. *)

(* A goroutine of r calls GetAviableProxy - ChangeProxyType, the workers   *)
(* of InitializationTunnels, or RebuildSmux for a connection - and finds   *)
(* no configuration: it asks the address of the moment.                    *)
Ask(r) ==
    LET c == ctl[r] IN
    /\ pc[r] \in {"ask", "tunnels"} \/ used[r]
    /\ nowconf[c] = Nil
    /\ asked' = [asked EXCEPT ![r] = @ \cup {Addr[c]}]
    /\ IF pc[r] = "ask" THEN Goto(r, "answer") ELSE UNCHANGED pc
    /\ UNCHANGED <<ClientConf, Addr, nowconf, flags, ErrCount, request, told, listening, exited, used, late>>

(* A post is over, answered or not; the answer is entered whatever was     *)
(* entered meanwhile.  Several workers may have posted to one address.     *)
Answer(r) ==
    /\ \E a \in asked[r] :
          /\ \/ asked' = [asked EXCEPT ![r] = @ \ {a}]
             \/ pc[r] # "answer" /\ UNCHANGED asked
          /\ \/ \E h \in Answers(a) : nowconf' = [nowconf EXCEPT ![ctl[r]] = h]
             \/ UNCHANGED nowconf
    /\ UNCHANGED <<ClientConf, Addr, flags, ErrCount, pc, request, told, listening, exited, used, late>>

(* InitializationTunnels ends when all sessions are up, and all workers    *)
(* had a configuration, which it then reads once more.                     *)
Tunnels(r) ==
    /\ pc[r] = "tunnels" /\ asked[r] = {} /\ nowconf[ctl[r]] # Nil
    /\ Goto(r, "connected")
    /\ UNCHANGED <<ClientConf, Addr, nowconf, flags, ErrCount, request, posts, listening, exited, used, late>>

Connected(r) ==
    /\ pc[r] = "connected"
    /\ IF nowconf[ctl[r]] = Nil THEN exited' = "panic" /\ UNCHANGED pc
       ELSE /\ Goto(r, IF host[r] = Nil THEN "done" ELSE "listen")
            /\ UNCHANGED exited
    /\ UNCHANGED <<ClientConf, Addr, nowconf, flags, ErrCount, request, posts, listening, used, late>>

(* The port is the same every time; log.Fatal when it is taken.            *)
Listen(r) ==
    /\ pc[r] = "listen"
    /\ \/ /\ listening = {} /\ listening' = {r}
          /\ Opened(ctl[r]) /\ Goto(r, "loop") /\ UNCHANGED exited
       \/ listening # {} /\ exited' = "fatal" /\ UNCHANGED <<flags, pc, listening>>
    /\ UNCHANGED <<ClientConf, Addr, nowconf, ErrCount, request, posts, used, late>>

(* ErrCount is looked at between two connections only; ReportErrorProxy    *)
(* reads the address and the configuration, and posts.                     *)
CheckErr(r) ==
    LET c == ctl[r] IN
    /\ pc[r] = "loop"
    /\ \/ ErrCount[c] <= ErrLimit /\ Goto(r, "flag") /\ UNCHANGED <<told, exited>>
       \/ /\ ErrCount[c] > ErrLimit /\ nowconf[c] = Nil
          /\ exited' = "panic" /\ UNCHANGED <<pc, told>>
       \/ /\ ErrCount[c] > ErrLimit /\ nowconf[c] # Nil
          /\ told' = [told EXCEPT ![r] = Addr[c]] /\ Goto(r, "report") /\ UNCHANGED exited
    /\ UNCHANGED <<ClientConf, Addr, nowconf, flags, ErrCount, request, asked, listening, used, late>>

(* ReportErrorProxy returns, answered or not; the configuration is read    *)
(* once more, for a message.                                               *)
Report(r) ==
    LET c == ctl[r] IN
    /\ pc[r] = "report"
    /\ \E h \in AnswersReport(told[r]) \cup {Silent(c)} :
          /\ nowconf' = [nowconf EXCEPT ![c] = h]
          /\ IF h = Nil THEN exited' = "panic" /\ UNCHANGED <<pc, told, ErrCount>>
             ELSE /\ Goto(r, "flag") /\ told' = [told EXCEPT ![r] = Nil]
                  /\ ErrCount' = [ErrCount EXCEPT ![c] = 0] /\ UNCHANGED exited
    /\ UNCHANGED <<ClientConf, Addr, flags, request, asked, listening, used, late>>

(* The loop ends without closing its listener.                             *)
CheckFlag(r) ==
    LET c == ctl[r] IN
    /\ pc[r] = "flag"
    /\ IF closeFlag[c] THEN closed' = [closed EXCEPT ![c] = TRUE] /\ Goto(r, "done")
       ELSE Goto(r, "accept") /\ UNCHANGED closed
    /\ UNCHANGED <<ClientConf, Addr, nowconf, closeFlag, ErrCount, request, posts, listening, exited, used, late>>

(* Accept waits for a local program to connect, or fails.                  *)
Accept(r) ==
    LET c == ctl[r] IN
    /\ pc[r] = "accept"
    /\ \/ /\ used' = [used EXCEPT ![r] = TRUE]
          /\ late' = [late EXCEPT ![r] = IF closeFlag[c] /\ @ < 2 THEN @ + 1 ELSE @]
       \/ UNCHANGED <<used, late>>
    /\ Goto(r, AfterConn)
    /\ UNCHANGED <<ClientConf, Addr, nowconf, flags, ErrCount, request, posts, listening, exited>>

(* A goroutine serving a connection fails, or succeeds; it may outlive the *)
(* loop.  (Bound: ErrCount stops at ErrLimit + 1.)                         *)
Serve(r) ==
    LET c == ctl[r] IN
    /\ used[r]
    /\ \/ ErrCount[c] <= ErrLimit /\ ErrCount' = [ErrCount EXCEPT ![c] = @ + 1]
       \/ ErrCount' = [ErrCount EXCEPT ![c] = Calmer(@)]
    /\ UNCHANGED <<ClientConf, Addr, nowconf, flags, pc, request, posts, listening, exited, used, late>>

(* The runtime closes a listener that nobody refers to any more.           *)
Finalize(r) ==
    /\ pc[r] = "done" /\ r \in listening
    /\ listening' = listening \ {r}
    /\ UNCHANGED <<ClientConf, Addr, nowconf, flags, ErrCount, pc, request, posts, exited, used, late>>

-----------------------------------------------------------------------------
(* "change", also c://change/ from a local program: ChangeProxyType in a   *)
(* goroutine.  Before the first switch there is no control: the handler    *)
(* panics at its go statement, and net/http recovers.                      *)
Change(r) ==
    /\ pc[r] = "unborn"
    /\ IF ClientConf = Nil THEN Goto(r, "done") /\ UNCHANGED <<nowconf, ctl>>
       ELSE /\ nowconf' = [nowconf EXCEPT ![ClientConf] = Nil]
            /\ ctl' = [ctl EXCEPT ![r] = ClientConf]
            /\ Goto(r, "ask")
    /\ UNCHANGED <<ClientConf, Addr, flags, ErrCount, host, posts, listening, exited, used, late>>

(* GetAviableProxy(tp) has returned, with a configuration or none.         *)
Asked(r) ==
    /\ \/ pc[r] = "ask" /\ nowconf[ctl[r]] # Nil
       \/ pc[r] = "answer" /\ asked[r] = {}
    /\ Goto(r, "tunnels")
    /\ UNCHANGED <<ClientConf, Addr, nowconf, flags, ErrCount, request, posts, listening, exited, used, late>>

-----------------------------------------------------------------------------
SwitchStep(r) == Switch(r) \/ New(r) \/ Start(r) \/ TryClose(r) \/ ChangeRoute(r) \/ Poll(r)
LoopStep(r)   == Tunnels(r) \/ Connected(r) \/ Listen(r) \/ CheckErr(r) \/ Report(r) \/ CheckFlag(r) \/ Accept(r)

Next ==
    /\ exited = "no"
    /\ \E r \in Requests :
          \/ SwitchStep(r) \/ LoopStep(r) \/ Serve(r) \/ Finalize(r)
          \/ Change(r) \/ Ask(r) \/ Answer(r) \/ Asked(r)

Spec == Init /\ [][Next]_vars

-----------------------------------------------------------------------------
Steps == {"unborn", "new", "start", "close", "route", "wait", "tunnels", "connected", "listen", "ask",
          "answer", "done"} \cup Loop

(* Types: a request that is past its choice has a control that was made;   *)
(* at most one listener is open.                                           *)
TypeOK ==
    /\ ClientConf \in Requests \cup {Nil}
    /\ Addr \in [Requests -> Address \cup {Nil}]
    /\ nowconf \in [Requests -> Hosts \cup {Nil}]
    /\ closeFlag \in [Requests -> BOOLEAN] /\ closed \in [Requests -> BOOLEAN]
    /\ ErrCount \in [Requests -> 0 .. ErrLimit + 1]
    /\ pc \in [Requests -> Steps]
    /\ host \in [Requests -> Address \cup {Nil}] /\ ctl \in [Requests -> Requests \cup {Nil}]
    /\ asked \in [Requests -> SUBSET Address] /\ told \in [Requests -> Address \cup {Nil}]
    /\ listening \subseteq Requests /\ Cardinality(listening) <= 1
    /\ exited \in {"no", "panic", "fatal"}
    /\ used \in [Requests -> BOOLEAN] /\ late \in [Requests -> 0 .. 2]

(* While a loop listens, the server used is the one "check" reports and    *)
(* the page shows as running (GetRoute, SetHostRunningByHost): the one     *)
(* last switched to.                                                       *)
ShownIsUsed ==
    \A r \in Requests : LET c == ctl[r] IN
        pc[r] \in Loop /\ ~closeFlag[c] => nowconf[c] \in {Nil, Addr[c].host}

(* closed tells the truth to the goroutines that poll it: none of them     *)
(* sees it while a loop of the control is serving, though several may go   *)
(* on at once when a loop ends.                                            *)
ClosedTruth == \A r \in Requests : pc[r] \in Loop => ~closed[ctl[r]]

(* A loop that was told to close takes at most one connection more, and no *)
(* later loop makes it forget.                                             *)
OneMore == \A r \in Requests : late[r] <= 1

Switches == {r \in Requests : host[r] # Nil}

(* The process ends only when two switches meet - the second finds the     *)
(* port taken - or over a change, which leaves no configuration behind     *)
(* until it is answered; never by a lone switch and failing connections.   *)
EndsOnly ==
    /\ exited = "fatal" => \E r \in Switches : pc[r] = "listen" /\ \E q \in Switches \ {r} : q \in listening
    /\ exited = "panic" => \E r \in Requests \ Switches : ctl[r] # Nil
=============================================================================
