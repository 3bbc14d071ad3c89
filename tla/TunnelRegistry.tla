--------------------------- MODULE TunnelRegistry ---------------------------
(***************************************************************************)
(* The server's registry of tunnels and the goroutines that work on it.    *)
(*                                                                         *)
(* servercontroll/proxy_release.go keeps one global list of tunnels and a  *)
(* tally of deletions per transport; the HTTP handlers of                  *)
(* servercontroll/all_servers.go, each request in a goroutine of its own,  *)
(* pick, create, start and delete tunnels; a started tunnel runs a server  *)
(* goroutine (connections/base/proxytunnel.go) whose deferred function     *)
(* deletes the tunnel when its accept loop ends.                           *)
(*                                                                         *)
(* The h-th request is process h, its handler's goroutine; the tunnel it   *)
(* makes, if it does, has the identity h, and the server goroutine it      *)
(* spawns, if it does, is process ServerOf(h).  pc[p] is the step p is     *)
(* about to take; a step reads or writes the shared state once, so that    *)
(* everything the code leaves to the scheduler interleaves here too.  A    *)
(* local variable returns to its initial value where the code's goes out   *)
(* of scope.                                                               *)
(***************************************************************************)
EXTENDS Integers, Sequences, FiniteSets

CONSTANTS
    Ports,         \* the ports GiveAPort draws from
    MaxRequests,   \* bound: requests the clients send in all
    MaxActive,     \* bound: handlers in progress at a time
    MaxErrors      \* bound: failures of a listening socket in all

ASSUME RegistryAssumption ==
    MaxRequests \in Nat /\ MaxActive \in Nat /\ MaxErrors \in Nat

Handlers    == 1 .. MaxRequests
ServerOf(h) == h + MaxRequests
Servers     == MaxRequests + 1 .. 2 * MaxRequests
Procs       == Handlers \cup Servers
Tunnelids   == Handlers            \* a tunnel is named by the request that made it
Free        == 0                   \* lock when no goroutine holds it

Types     == {"tls", "kcp", "quic"}
Transport == [ty \in Types |-> IF ty = "tls" THEN "tcp" ELSE "udp"]
None      == 0                     \* no tunnel

VARIABLES
    (* servercontroll: the globals *)
    Tunnels, ErrTypeCount, lastUse, lock,
    (* the tunnels made so far: their configurations and flags *)
    config, On, ZeroToDel,
    (* the host: open firewall ports, server goroutines that own a socket, *)
    (* those whose listener is nil, and whether the process is dead        *)
    ufw, bound, doomed, crashed,
    (* control and local variables of the goroutines *)
    pc, op, want, tu, todo, seen, num, serves,
    (* bounds: requests begun, sockets that failed *)
    requests, errors,
    (* history: what the registry was told, and whether two of its updates *)
    (* overlapped; tunnels handed to a client by proxy-get or proxy-err    *)
    added, deleted, racy, given

globals == <<Tunnels, ErrTypeCount, lastUse, lock>>
tunnels == <<config, On, ZeroToDel>>
host    == <<ufw, bound, doomed, crashed>>
locals  == <<op, want, tu, todo, seen, num, serves>>
bounds  == <<requests, errors>>
history == <<added, deleted, racy, given>>
vars    == <<globals, tunnels, host, pc, locals, bounds, history>>

made   == DOMAIN config
Listed == {Tunnels[i] : i \in DOMAIN Tunnels}

(* DelProxy's new list: the old one without tunnel t.  (Mutants: the       *)
(* tunnel kept; the first tunnel dropped, whichever was named.)            *)
WithoutKept(s, t)  == s
WithoutFirst(s, t) == IF \E i \in DOMAIN s : s[i] = t THEN Tail(s) ELSE s
Without(s, t) ==
    IF \E i \in DOMAIN s : s[i] = t
    THEN LET i == CHOOSE j \in DOMAIN s : s[j] = t
         IN  [j \in 1 .. Len(s) - 1 |-> IF j < i THEN s[j] ELSE s[j + 1]]
    ELSE s

(* GiveAPort probes with a TCP listener: a port is given while no TCP      *)
(* socket is bound to it, whatever UDP sockets are.                        *)
PortFree(ty, port) ==
    \A k \in bound : \/ config[serves[k]].port # port
                     \/ Transport[config[serves[k]].type] # Transport[ty]

Goto(p, step) == pc' = [pc EXCEPT ![p] = step]

(* The global lock.  (Mutants: taken though held; not released.)           *)
LockAnyway(p) == lock' = p
Lock(p)       == lock = Free /\ lock' = p
UnlockForgot(p) == UNCHANGED lock
Unlock(p)       == lock' = Free

(* GetProxy returns tunnel t to handler h.  (Mutant: by way of AddProxy.)  *)
FoundAdded(h, t) == Goto(h, "load") /\ tu' = [tu EXCEPT ![h] = t]
Found(h, t)      == Goto(h, "check") /\ tu' = [tu EXCEPT ![h] = t]

(* The tally one up, read without the lock.  (Mutant: always tls's.)       *)
NextTallyTls(ty) == ErrTypeCount["tls"] + 1
NextTally(ty)    == ErrTypeCount[ty] + 1

(* The handlers' test before Start.  (Mutant: a listed tunnel is running.) *)
RunningListed(t) == t \in Listed
Running(t)       == On[t]

(* The deferred function's reset.  (Mutant: forgotten.)                    *)
TurnOffForgot(t) == UNCHANGED On
TurnOff(t)       == On' = [On EXCEPT ![t] = FALSE]

(* NewProxy's switch.                                                      *)
Switch(ty) == IF ty \in Types THEN ty ELSE "tls"

-----------------------------------------------------------------------------
(* A request reaches the server: net/http runs its handler in a goroutine. *)

Active == {h \in Handlers : pc[h] \notin {"idle", "done", "panicked"}}

Begin(h, kind) ==
    /\ h = requests + 1
    /\ pc[h] = "idle"
    /\ ~crashed
    /\ Cardinality(Active) < MaxActive
    /\ requests' = requests + 1
    /\ op' = [op EXCEPT ![h] = kind]

(* proxy-get without a type: create a tunnel when there is none, else take *)
(* turns.                                                                  *)
GetAny(h) ==
    /\ Begin(h, "get")
    /\ Goto(h, IF Tunnels = <<>> THEN "new" ELSE "rotate")
    /\ want' = [want EXCEPT ![h] = "tls"]
    /\ UNCHANGED <<globals, tunnels, host, tu, todo, seen, num, serves, errors, history>>

(* proxy-get with a type: the last tunnel of that type, else a new one.    *)
(* ("other", any unknown name, matches no tunnel and makes a tls one.)     *)
GetTyped(h, ty) ==
    /\ Begin(h, "get")
    /\ LET match == {i \in DOMAIN Tunnels : config[Tunnels[i]].type = ty}
       IN  IF match = {}
           THEN /\ Goto(h, "new")
                /\ want' = [want EXCEPT ![h] = Switch(ty)]
                /\ UNCHANGED tu
           ELSE /\ \E i \in match : (\A j \in match : j <= i) /\ Found(h, Tunnels[i])
                /\ UNCHANGED want
    /\ UNCHANGED <<globals, tunnels, host, todo, seen, num, serves, errors, history>>

(* proxy-err names a tunnel to delete (None: no ID in the request) and     *)
(* then makes a new one.                                                   *)
ReportErr(h, t) ==
    /\ Begin(h, "err")
    /\ Goto(h, IF t = None THEN "choose" ELSE "del")
    /\ todo' = [todo EXCEPT ![h] = IF t = None THEN <<>> ELSE <<t>>]
    /\ UNCHANGED <<globals, tunnels, host, want, tu, seen, num, serves, errors, history>>

(* proxy-new makes a tunnel, replies its configuration and forgets it.     *)
ProxyNew(h) ==
    /\ Begin(h, "new")
    /\ Goto(h, "new")
    /\ want' = [want EXCEPT ![h] = "tls"]
    /\ UNCHANGED <<globals, tunnels, host, tu, todo, seen, num, serves, errors, history>>

ProxyDel(h, t) ==
    /\ Begin(h, "del")
    /\ Goto(h, "del")
    /\ todo' = [todo EXCEPT ![h] = <<t>>]
    /\ UNCHANGED <<globals, tunnels, host, want, tu, seen, num, serves, errors, history>>

(* 04__close-all and z11-update: collect the ids, then delete each.        *)
CloseAll(h) ==
    /\ Begin(h, "del")
    /\ Goto(h, IF Tunnels = <<>> THEN "done" ELSE "del")
    /\ todo' = [todo EXCEPT ![h] = Tunnels]
    /\ UNCHANGED <<globals, tunnels, host, want, tu, seen, num, serves, errors, history>>

Request(h) ==
    \/ GetAny(h)
    \/ \E ty \in Types \cup {"other"} : GetTyped(h, ty)
    \/ \E t \in made \cup {None} : ReportErr(h, t) \/ ProxyDel(h, t)
    \/ ProxyNew(h)
    \/ CloseAll(h)

-----------------------------------------------------------------------------
(* GetProxy *)

(* Take the lock and advance the turn, past the end of the list at times.  *)
Rotate(h) ==
    /\ pc[h] = "rotate"
    /\ Lock(h)
    /\ lastUse' = lastUse + 1
    /\ Goto(h, "wrap")
    /\ UNCHANGED <<Tunnels, ErrTypeCount, tunnels, host, locals, bounds, history>>

(* Reduce it and release the lock.  The list may have been emptied since   *)
(* it was found non-empty: the modulus by zero panics, the HTTP server     *)
(* recovers the handler, and the lock stays held.                          *)
Wrap(h) ==
    /\ pc[h] = "wrap"
    /\ IF Tunnels = <<>>
       THEN Goto(h, "panicked") /\ UNCHANGED <<lock, lastUse>>
       ELSE /\ Goto(h, "nth")
            /\ Unlock(h)
            /\ lastUse' = lastUse % Len(Tunnels)
    /\ UNCHANGED <<Tunnels, ErrTypeCount, tunnels, host, locals, bounds, history>>

(* Read the tunnel whose turn it is, the lock released: past the end of a  *)
(* list that has shrunk there is none and the handler panics.              *)
Nth(h) ==
    /\ pc[h] = "nth"
    /\ IF lastUse < Len(Tunnels)
       THEN Found(h, Tunnels[lastUse + 1])
       ELSE Goto(h, "done") /\ UNCHANGED tu
    /\ UNCHANGED <<globals, tunnels, host, op, want, todo, seen, num, serves, bounds, history>>

(* NewProxyByErrCount: the transport with the better record.               *)
Choose(h) ==
    /\ pc[h] = "choose"
    /\ want' = [want EXCEPT ![h] =
                  IF ErrTypeCount["quic"] < ErrTypeCount["tls"] THEN "quic"
                  ELSE IF ErrTypeCount["kcp"] < ErrTypeCount["tls"] THEN "kcp"
                  ELSE "tls"]
    /\ Goto(h, "new")
    /\ UNCHANGED <<globals, tunnels, host, op, tu, todo, seen, num, serves, bounds, history>>

(* NewProxy: a configuration with a port no TCP listener is bound to now,  *)
(* opened in the firewall.                                                 *)
New(h) ==
    /\ pc[h] = "new"
    /\ \E port \in {q \in Ports : PortFree("tls", q)} :
         /\ config' = [t \in made \cup {h} |->
                          IF t = h THEN [type |-> want[h], port |-> port] ELSE config[t]]
         /\ ufw' = ufw \cup {port}
    /\ tu' = [tu EXCEPT ![h] = IF op[h] = "new" THEN None ELSE h]
    /\ want' = [want EXCEPT ![h] = "tls"]
    /\ Goto(h, IF op[h] = "new" THEN "done" ELSE "load")
    /\ UNCHANGED <<globals, On, ZeroToDel, bound, doomed, crashed,
                   op, todo, seen, num, serves, bounds, history>>

(* AddProxy holds the lock from its read of Tunnels to its write.          *)
AddLoad(h) ==
    /\ pc[h] = "load"
    /\ Lock(h)
    /\ seen' = [seen EXCEPT ![h] = Tunnels]
    /\ Goto(h, "append")
    /\ UNCHANGED <<Tunnels, ErrTypeCount, lastUse, tunnels, host,
                   op, want, tu, todo, num, serves, bounds, history>>

(* p is between its read of Tunnels and its write.                         *)
Updating(p) == pc[p] \in {"append", "close", "count", "store"}

Overlaps(p) == racy' = (racy \/ \E q \in Procs \ {p} : Updating(q))

AddStore(h) ==
    /\ pc[h] = "append"
    /\ Tunnels' = Append(seen[h], tu[h])
    /\ Unlock(h)
    /\ added' = added \cup {tu[h]}
    /\ seen' = [seen EXCEPT ![h] = <<>>]
    /\ Overlaps(h)
    /\ Goto(h, IF op[h] = "err" THEN "start" ELSE "check")
    /\ UNCHANGED <<ErrTypeCount, lastUse, tunnels, host,
                   op, want, tu, todo, num, serves, bounds, deleted, given>>

-----------------------------------------------------------------------------
(* proxy-get and proxy-err: start the tunnel and reply its configuration.  *)

Check(h) ==
    /\ pc[h] = "check"
    /\ IF Running(tu[h])
       THEN /\ Goto(h, "done")
            /\ given' = given \cup {tu[h]}
            /\ tu' = [tu EXCEPT ![h] = None]
       ELSE Goto(h, "start") /\ UNCHANGED <<given, tu>>
    /\ UNCHANGED <<globals, tunnels, host, op, want, todo, seen, num, serves,
                   bounds, added, deleted, racy>>

Start(h) ==
    /\ pc[h] = "start"
    /\ On' = [On EXCEPT ![tu[h]] = TRUE]
    /\ serves' = [serves EXCEPT ![ServerOf(h)] = tu[h]]
    /\ pc' = [pc EXCEPT ![h] = "done", ![ServerOf(h)] = "listen"]
    /\ given' = given \cup {tu[h]}
    /\ tu' = [tu EXCEPT ![h] = None]
    /\ UNCHANGED <<globals, config, ZeroToDel, host,
                   op, want, todo, seen, num, bounds, added, deleted, racy>>

-----------------------------------------------------------------------------
(* DelProxy, called by handlers and, as after(), by server goroutines.     *)

(* The loop walks the list as it is now; the tunnels it keeps go into a    *)
(* new list.                                                               *)
DelScan(p) ==
    /\ pc[p] = "del"
    /\ LET t == Head(todo[p])
       IN  /\ seen' = [seen EXCEPT ![p] = Without(Tunnels, t)]
           /\ Goto(p, IF t \in Listed THEN "close" ELSE "store")
    /\ UNCHANGED <<globals, tunnels, host, op, want, tu, todo, num, serves, bounds, history>>

(* Close the port in the firewall and read the tally, without the lock.    *)
DelClose(p) ==
    /\ pc[p] = "close"
    /\ LET c == config[Head(todo[p])]
       IN  /\ ufw' = ufw \ {c.port}
           /\ num' = [num EXCEPT ![p] = NextTally(c.type)]
    /\ Goto(p, "count")
    /\ UNCHANGED <<globals, tunnels, bound, doomed, crashed,
                   op, want, tu, todo, seen, serves, bounds, history>>

(* Write the tally under the lock and ask the tunnel to stop.              *)
DelCount(p) ==
    /\ pc[p] = "count"
    /\ lock = Free
    /\ ErrTypeCount' = [ErrTypeCount EXCEPT ![config[Head(todo[p])].type] = num[p]]
    /\ ZeroToDel' = [ZeroToDel EXCEPT ![Head(todo[p])] = TRUE]
    /\ num' = [num EXCEPT ![p] = 0]
    /\ Goto(p, "store")
    /\ UNCHANGED <<Tunnels, lastUse, lock, config, On, host,
                   op, want, tu, todo, seen, serves, bounds, history>>

(* Where a goroutine continues when DelProxy returns.                      *)
AfterDel(p) ==
    IF Len(todo[p]) > 1 THEN "del"
    ELSE IF p \in Handlers /\ op[p] = "err" THEN "choose" ELSE "done"

(* Install the new list, under GLOCK, which no reader and no AddProxy      *)
(* takes.  A server goroutine that panicked on its nil listener has run    *)
(* its deferred function now, and the panic ends the process.              *)
DelStore(p) ==
    /\ pc[p] = "store"
    /\ Tunnels' = seen[p]
    /\ deleted' = deleted \cup ({Head(todo[p])} \cap added)
    /\ Overlaps(p)
    /\ Goto(p, AfterDel(p))
    /\ todo' = [todo EXCEPT ![p] = Tail(@)]
    /\ seen' = [seen EXCEPT ![p] = <<>>]
    /\ crashed' = (p \in doomed)
    /\ UNCHANGED <<ErrTypeCount, lastUse, lock, tunnels, ufw, bound, doomed,
                   op, want, tu, num, serves, bounds, added, given>>

-----------------------------------------------------------------------------
(* A server goroutine: Server, AcceptHandle and the deferred function.     *)

(* Bind the socket.  tls and kcp call Accept on the nil listener a failed  *)
(* bind leaves and panic; quic returns the error.                          *)
Listen(k) ==
    /\ pc[k] = "listen"
    /\ LET c == config[serves[k]]
       IN  IF PortFree(c.type, c.port)
           THEN /\ bound' = bound \cup {k}
                /\ Goto(k, "select")
                /\ UNCHANGED doomed
           ELSE /\ doomed' = IF c.type = "quic" THEN doomed ELSE doomed \cup {k}
                /\ Goto(k, "exit")
                /\ UNCHANGED bound
    /\ UNCHANGED <<globals, tunnels, ufw, crashed, locals, bounds, history>>

(* The loop's head.  Once ZeroToDel is set the code breaks, but break only *)
(* leaves the select, so that Accept is next in either case.               *)
Select(k) ==
    /\ pc[k] = "select"
    /\ Goto(k, IF ZeroToDel[serves[k]] THEN "accept" ELSE "accept")
    /\ UNCHANGED <<globals, tunnels, host, locals, bounds, history>>

(* A connection arrives.                                                   *)
Accept(k) ==
    /\ pc[k] = "accept"
    /\ ~crashed
    /\ Goto(k, "select")
    /\ UNCHANGED <<globals, tunnels, host, locals, bounds, history>>

(* Accept fails: tls and kcp close the listener, quic leaves it open.      *)
AcceptError(k) ==
    /\ pc[k] = "accept"
    /\ ~crashed
    /\ errors < MaxErrors
    /\ errors' = errors + 1
    /\ bound' = IF config[serves[k]].type = "quic" THEN bound ELSE bound \ {k}
    /\ Goto(k, "exit")
    /\ UNCHANGED <<globals, tunnels, ufw, doomed, crashed, locals, requests, history>>

(* The deferred function: the tunnel is off, its port closed, DelProxy.    *)
Exit(k) ==
    /\ pc[k] = "exit"
    /\ TurnOff(serves[k])
    /\ ufw' = ufw \ {config[serves[k]].port}
    /\ todo' = [todo EXCEPT ![k] = <<serves[k]>>]
    /\ Goto(k, "del")
    /\ UNCHANGED <<globals, config, ZeroToDel, bound, doomed, crashed,
                   op, want, tu, seen, num, serves, bounds, history>>

-----------------------------------------------------------------------------
(* Go's map detects an access that meets a write and ends the process:     *)
(* DelProxy and NewProxyByErrCount read ErrTypeCount without the lock      *)
(* that the writer holds.                                                  *)
MapRace ==
    /\ ~crashed
    /\ lock = Free
    /\ \E p \in Procs, q \in Procs : pc[p] = "count" /\ pc[q] \in {"close", "choose"}
    /\ crashed' = TRUE
    /\ UNCHANGED <<globals, tunnels, ufw, bound, doomed, pc, locals, bounds, history>>

HandlerStep(h) ==
    /\ ~crashed
    /\ \/ Rotate(h) \/ Wrap(h) \/ Nth(h) \/ Choose(h) \/ New(h) \/ AddLoad(h) \/ AddStore(h)
       \/ Check(h) \/ Start(h)

DelStep(p) == ~crashed /\ (DelScan(p) \/ DelClose(p) \/ DelCount(p) \/ DelStore(p))

ServerStep(k) == ~crashed /\ (Listen(k) \/ Select(k) \/ Exit(k))

Init ==
    /\ Tunnels = <<>>
    /\ ErrTypeCount = [ty \in Types |-> 0]
    /\ lastUse = 0
    /\ lock = Free
    /\ config = [t \in {} |-> None]
    /\ On = [t \in Tunnelids |-> FALSE]
    /\ ZeroToDel = [t \in Tunnelids |-> FALSE]
    /\ ufw = {} /\ bound = {} /\ doomed = {} /\ crashed = FALSE
    /\ pc = [p \in Procs |-> "idle"]
    /\ op = [h \in Handlers |-> "get"]
    /\ want = [h \in Handlers |-> "tls"]
    /\ tu = [h \in Handlers |-> None]
    /\ todo = [p \in Procs |-> <<>>]
    /\ seen = [p \in Procs |-> <<>>]
    /\ num = [p \in Procs |-> 0]
    /\ serves = [k \in Servers |-> None]
    /\ requests = 0 /\ errors = 0
    /\ added = {} /\ deleted = {} /\ racy = FALSE /\ given = {}

Next ==
    \/ \E h \in Handlers : Request(h) \/ HandlerStep(h)
    \/ \E p \in Procs : DelStep(p)
    \/ \E k \in Servers : ServerStep(k) \/ Accept(k) \/ AcceptError(k)
    \/ MapRace

Spec == Init /\ [][Next]_vars

(* Go runs every goroutine that can run, and its mutexes do not starve a   *)
(* waiter; when requests, connections and errors arrive is up to others.   *)
Fairness ==
    /\ \A h \in Handlers : WF_vars(HandlerStep(h))
    /\ \A p \in Procs : WF_vars(DelStep(p))
    /\ \A k \in Servers : WF_vars(ServerStep(k))

FairSpec == Spec /\ Fairness

(* Clients keep connecting.                                                *)
BusySpec == FairSpec /\ \A k \in Servers : WF_vars(Accept(k))

-----------------------------------------------------------------------------
Steps == {"idle", "done", "rotate", "wrap", "nth", "choose", "new", "load", "append",
          "check", "start", "del", "close", "count", "store", "panicked",
          "listen", "select", "accept", "exit"}

GlobalsOK ==
    /\ Tunnels \in Seq(Tunnelids)
    /\ ErrTypeCount \in [Types -> Nat]
    /\ lastUse \in Nat
    /\ lock \in Procs \cup {Free}

TunnelsOK ==
    /\ made \subseteq Tunnelids
    /\ config \in [made -> [type : Types, port : Ports]]
    /\ On \in [Tunnelids -> BOOLEAN]
    /\ ZeroToDel \in [Tunnelids -> BOOLEAN]

HostOK ==
    /\ ufw \subseteq Ports /\ bound \subseteq Servers /\ doomed \subseteq Servers
    /\ crashed \in BOOLEAN

PcOK == pc \in [Procs -> Steps]

LocalsOK ==
    /\ op \in [Handlers -> {"get", "err", "new", "del"}]
    /\ want \in [Handlers -> Types]
    /\ tu \in [Handlers -> Tunnelids \cup {None}]
    /\ todo \in [Procs -> Seq(Tunnelids \cup {None})]
    /\ seen \in [Procs -> Seq(Tunnelids)]
    /\ num \in [Procs -> Nat]
    /\ serves \in [Servers -> Tunnelids \cup {None}]

BoundsOK == requests \in 0 .. MaxRequests /\ errors \in 0 .. MaxErrors

HistoryOK ==
    /\ added \subseteq Tunnelids /\ deleted \subseteq Tunnelids /\ given \subseteq Tunnelids
    /\ racy \in BOOLEAN

TypeOK == GlobalsOK /\ TunnelsOK /\ HostOK /\ PcOK /\ LocalsOK /\ BoundsOK /\ HistoryOK

(* The lock is held exactly where AddProxy and GetProxy hold it, by one    *)
(* goroutine, and otherwise only by a handler that panicked inside.        *)
LockOwner == \A p \in Procs : lock = p <=> pc[p] \in {"wrap", "append", "panicked"}

(* However AddProxy and DelProxy interleave, lists a stale copy brings     *)
(* back included, no tunnel is listed twice: round robin and DelProxy, who *)
(* take the list for a set, see each tunnel once.                          *)
NoDuplicate == \A i, j \in DOMAIN Tunnels : Tunnels[i] = Tunnels[j] => i = j

(* The two locks do not exclude each other, so an update can be lost or a  *)
(* deleted tunnel come back.  This is what it takes: as long as no update  *)
(* of the list was in progress when another stored its own, the list holds *)
(* the tunnels added and not deleted, no more and no fewer.                *)
ExactWhenSerial == ~racy => Listed = added \ deleted

(* Under the same condition the tally that decides the next tunnel's       *)
(* transport counts each deleted tunnel once, though it is read without    *)
(* the lock and written with it.                                           *)
TallyExact ==
    (~racy /\ \A p \in Procs : pc[p] \notin {"count", "store"}) =>
        \A ty \in Types :
            ErrTypeCount[ty] = Cardinality({t \in deleted : config[t].type = ty})

(* Two updates are under way, or one stored its list when another was.     *)
Clash == racy \/ \E p, q \in Procs : p # q /\ Updating(p) /\ Updating(q)

(* DelProxy writes the tally first and the list later: until the list is   *)
(* stored, the deletion that was counted has not happened.                 *)
CountedEarly(ty) ==
    \E p \in Procs : /\ pc[p] = "store" /\ Head(todo[p]) \in Listed
                     /\ config[Head(todo[p])].type = ty

Settled == [ty \in Types |-> ErrTypeCount[ty] - (IF CountedEarly(ty) THEN 1 ELSE 0)]

Promise == INSTANCE Registry WITH
    Transports <- Types,
    kind <- [t \in made |-> config[t].type], listed <- Listed, gone <- deleted,
    handed <- given, tally <- Settled, overlapped <- Clash

(* As long as no two updates are under way at once, AddProxy and DelProxy  *)
(* are atomic, with the tally and with what clients are given in between,  *)
(* although DelProxy works on a copy and writes in two steps: a tunnel is  *)
(* listed once, given only when it was listed, deleted once and counted    *)
(* once, for its own transport.                                            *)
Atomic == Promise!RSpec

(* A tunnel whose flag On makes proxy-get hand it out without starting it  *)
(* has a server goroutine that has not returned, whichever of several      *)
(* goroutines of one tunnel ended.                                         *)
OnHasServer ==
    \A t \in Tunnelids : On[t] =>
        \E k \in Servers : serves[k] = t /\ pc[k] \in {"listen", "select", "accept", "exit"}

(* Every tunnel a client was given by proxy-get or proxy-err was started,  *)
(* also when the client was given one another request had just made.       *)
GivenStarted == given \subseteq {serves[k] : k \in Servers} \ {None}

Deleting(t) ==
    \E p \in Procs : pc[p] \in {"del", "close", "count", "store"} /\ Head(todo[p]) = t

(* As long as updates did not overlap, a listed tunnel nobody is deleting  *)
(* has its port open in the firewall, unless another tunnel was given the  *)
(* same port, in which case closing one closes both.                       *)
ListedPortOpen ==
    ~racy => \A t \in Listed :
        \/ Deleting(t)
        \/ config[t].port \in ufw
        \/ \E u \in made \ {t} : config[u].port = config[t].port

(* What TryClose is for (prosmux/smux.go:195-197: on ZeroToDel close the   *)
(* listener and leave the loop): a deleted tunnel stops listening.         *)
DeletedTunnelStops ==
    \A t \in Tunnelids : ZeroToDel[t] ~> (crashed \/ \A k \in bound : serves[k] # t)

LockLost  == \E h \in Handlers : pc[h] = "panicked"
Exhausted == \A q \in Ports : ~PortFree("tls", q)

(* Every request is answered and every ended server's deferred function    *)
(* returns, unless the process died, a handler panicked with the lock, or  *)
(* GiveAPort finds every port taken.                                       *)
Finishes ==
    \A p \in Procs : pc[p] \notin {"idle", "listen", "select", "accept"} ~>
        (pc[p] = "done" \/ crashed \/ LockLost \/ Exhausted)
=============================================================================
