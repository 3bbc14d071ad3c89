------------------------------ MODULE SessionPool ------------------------------
(***************************************************************************)
(* The client's pool of sessions to the tunnel (clientcontroll/controll.go)*)
(*                                                                         *)
(* SmuxClients holds up to ClientNum sessions.  InitializationTunnels      *)
(* fills it with a goroutine per slot that calls RebuildSmux until it      *)
(* succeeds; each request of the local SOCKS server takes the next session *)
(* in turn (GetSession), rebuilds it when it is closed, and tries again    *)
(* when anything fails.  A request c://change/<type> asks for another      *)
(* tunnel and fills the pool anew while others use it.                     *)
(*                                                                         *)
(* c.lock guards lastUse, the counters and the replacement of a session,   *)
(* but neither the reading of the list nor append.  pc[p] is the step p is *)
(* about to take; a step touches the unguarded state once.  The goroutine  *)
(* that fills slot i is worker i; slots count from 0 as in the code.       *)
(***************************************************************************)
EXTENDS Integers, Sequences, FiniteSets

CONSTANTS
    ClientNum,     \* sessions wanted (40 in the code)
    Tries,         \* tries of a request (3 in the code)
    ErrLimit,      \* errors after which the tunnel is reported (7 in the code)
    ProxyTypes,    \* the transports the server gives
    MaxRequests,   \* bound: requests in all
    MaxDials,      \* bound: sessions dialled successfully in all
    MaxChanges     \* bound: requests to change the type

ASSUME PoolAssumption ==
    /\ ClientNum \in Nat \ {0} /\ Tries \in Nat \ {0} /\ ErrLimit \in Nat
    /\ MaxRequests \in Nat /\ MaxDials \in Nat /\ MaxChanges \in Nat
    /\ ProxyTypes \subseteq {"tls", "kcp", "quic"}

Workers  == 0 .. ClientNum - 1
Requests == ClientNum .. ClientNum + MaxRequests - 1
Procs    == Workers \cup Requests
Free     == -1          \* lock when nobody holds it
Ids      == 1 .. MaxDials
Nil      == 0           \* no session
NoConf   == "nil"

VARIABLES
    (* ClientControl *)
    SmuxClients, nowconf, lastUse, lock, ErrCount, AliveCount,
    (* the listening goroutine: InitializationTunnels returned; ErrCount is to be reset *)
    ready, reported,
    (* sessions: how they are, and their transport *)
    state, kind,
    (* goroutines: step, slot to rebuild, configuration read, session made, *)
    (* list as append read it, session in use, calls of GetSession made     *)
    pc, no, conf, new, seen, e, calls,
    (* the process has panicked; changes begun; history: whether an append *)
    (* overlapped another update of the list; the lists changes began with  *)
    crashed, changes, raced, before

control  == <<ErrCount, AliveCount, ready, reported>>
sessions == <<state, kind>>
locals   == <<no, conf, new, seen, e, calls>>
vars     == <<SmuxClients, nowconf, lastUse, lock, control, sessions, pc, locals, crashed, changes, raced, before>>

Range0(s) == {s[i] : i \in DOMAIN s}
Goto(p, step) == pc' = [pc EXCEPT ![p] = step]

(* Slot i of the list, counted from 0. *)
Slot(i) == SmuxClients[i + 1]

(* A goroutine that found room for its slot and has not appended yet. *)
Appending(p) == pc[p] \in {"dialslot", "load", "store"}
Overlap(p)   == raced' = (raced \/ \E q \in Procs \ {p} : Appending(q))

(* IsClosed.  A smux session whose keep-alive failed closes itself; a quic *)
(* one is closed only by Close.                                            *)
IsClosed(s) == state[s] = "closed"

(* Where RebuildSmux returns to: the worker's loop, or GetSession, which   *)
(* opens a stream on the session it has, or on a new one if it had none.   *)
(* (Mutant: GetSession tries again, as the workers do.)                    *)
FailedAgain(p) == "conf"
Failed(p) == IF p \in Workers THEN "conf" ELSE "err"
Built(p)  == IF p \in Workers THEN "idle" ELSE IF e[p] = Nil THEN "fetch" ELSE "open"

(* GetSession's turn.  (Mutant: one too far.)                              *)
TurnBeyond == lastUse' = (lastUse + 1) % (ClientNum + 1)
Turn       == lastUse' = (lastUse + 1) % ClientNum

(* RebuildSmux replaces slot i: the old session is closed.                 *)
(* (Mutant: it is dropped.)                                                *)
Dropped(s) == state
Closing(s) == [state EXCEPT ![s] = "closed"]

(* Whether slot i is still to be appended.  (Mutant: off by one.)          *)
RoomWider(i) == Len(SmuxClients) <= i + 1
Room(i)      == Len(SmuxClients) <= i

(* The lock around the replacement.  (Mutants: not taken; not released.)   *)
HoldForgot(p) == UNCHANGED lock
Hold(p)       == lock' = p
UnlockForgot == UNCHANGED lock
Unlock       == lock' = Free

(* The WaitGroup of InitializationTunnels.                                 *)
AllFilled == \A w \in Workers : pc[w] = "idle"

(* GetSession opens its stream on the session it found closed, not on the  *)
(* one it has just rebuilt: such a call fails, and the request tries again.*)
Opened(q) == e[q]

(* ErrCount after a success.                                               *)
Calmer == IF ErrCount > 0 THEN ErrCount - 1 ELSE ErrCount

Init ==
    /\ SmuxClients = <<>> /\ nowconf = NoConf /\ lastUse = -1 /\ lock = Free
    /\ ErrCount = 0 /\ AliveCount = 0 /\ ready = FALSE /\ reported = FALSE
    /\ state = [s \in Ids |-> "none"] /\ kind = [s \in Ids |-> NoConf]
    /\ pc = [p \in Procs |-> IF p \in Workers THEN "conf" ELSE "unborn"]
    /\ no = [p \in Procs |-> IF p \in Workers THEN p ELSE 0]
    /\ conf = [p \in Procs |-> NoConf] /\ new = [p \in Procs |-> Nil]
    /\ seen = [p \in Procs |-> <<>>] /\ e = [p \in Procs |-> Nil]
    /\ calls = [p \in Procs |-> 0]
    /\ crashed = FALSE /\ changes = 0 /\ raced = FALSE /\ before = [q \in Requests |-> {}]

-----------------------------------------------------------------------------
(* RebuildSmux(no[p]). *)

(* GetAviableProxy: the configuration the client has, else the server is   *)
(* asked, for any type (a change asks for its own, below).                 *)
Conf(p) ==
    /\ pc[p] = "conf"
    /\ \/ /\ nowconf # NoConf
          /\ conf' = [conf EXCEPT ![p] = nowconf] /\ Goto(p, "dial")
       \/ nowconf = NoConf /\ Goto(p, "ask") /\ UNCHANGED conf
    /\ UNCHANGED <<SmuxClients, nowconf, lastUse, lock, control, sessions, no, new, seen, e, calls,
                   crashed, changes, raced, before>>

(* The answer is everybody's configuration, also if somebody else has got  *)
(* one by now; without an answer the route is broken (ErrRouteISBreak).    *)
Ask(p) ==
    /\ pc[p] = "ask"
    /\ \/ \E ty \in ProxyTypes :
             /\ nowconf' = ty
             /\ conf' = [conf EXCEPT ![p] = ty] /\ Goto(p, "dial")
       \/ Goto(p, Failed(p)) /\ UNCHANGED <<nowconf, conf>>
    /\ UNCHANGED <<SmuxClients, lastUse, lock, control, sessions, no, new, seen, e, calls,
                   crashed, changes, raced, before>>

(* A dial succeeds: the next session is p's. *)
Dialled(p) ==
    \E s \in Ids :
        /\ state[s] = "none" /\ \A r \in 1 .. s - 1 : state[r] # "none"
        /\ state' = [state EXCEPT ![s] = "open"]
        /\ kind' = [kind EXCEPT ![s] = conf[p]]
        /\ new' = [new EXCEPT ![p] = s]

(* tls and kcp are dialled before the list is looked at. *)
Dial(p) ==
    /\ pc[p] = "dial"
    /\ \/ conf[p] = "quic" /\ Goto(p, "room") /\ UNCHANGED <<sessions, new>>
       \/ conf[p] # "quic" /\ Dialled(p) /\ Goto(p, "room")
       \/ conf[p] # "quic" /\ Goto(p, Failed(p)) /\ UNCHANGED <<sessions, new>>
    /\ UNCHANGED <<SmuxClients, nowconf, lastUse, lock, control, no, conf, seen, e, calls,
                   crashed, changes, raced, before>>

LookForRoom(p) ==
    /\ pc[p] = "room"
    /\ Goto(p, IF ~Room(no[p]) THEN "replace"
               ELSE IF conf[p] = "quic" THEN "dialslot" ELSE "load")
    /\ UNCHANGED <<SmuxClients, nowconf, lastUse, lock, control, sessions, locals,
                   crashed, changes, raced, before>>

DialSlot(p) ==
    /\ pc[p] = "dialslot"
    /\ \/ Dialled(p) /\ Goto(p, "load")
       \/ Goto(p, Failed(p)) /\ UNCHANGED <<sessions, new>>
    /\ UNCHANGED <<SmuxClients, nowconf, lastUse, lock, control, no, conf, seen, e, calls,
                   crashed, changes, raced, before>>

(* append, without the lock: it reads the list and stores a longer one.    *)
AppendLoad(p) ==
    /\ pc[p] = "load"
    /\ Goto(p, "store")
    /\ seen' = [seen EXCEPT ![p] = SmuxClients]
    /\ UNCHANGED <<SmuxClients, nowconf, lastUse, lock, control, sessions, no, conf, new, e, calls,
                   crashed, changes, raced, before>>

(* The sessions before the new one are those append copied, or, while the  *)
(* array had room, those that are in it now.                               *)
AppendStore(p) ==
    /\ pc[p] = "store"
    /\ \/ SmuxClients' = Append(seen[p], new[p])
       \/ /\ Len(SmuxClients) >= Len(seen[p])
          /\ SmuxClients' = Append(SubSeq(SmuxClients, 1, Len(seen[p])), new[p])
    /\ Overlap(p)
    /\ Goto(p, Built(p))
    /\ seen' = [seen EXCEPT ![p] = <<>>]
    /\ new' = [new EXCEPT ![p] = IF p \in Workers THEN Nil ELSE @]
    /\ UNCHANGED <<nowconf, lastUse, lock, control, sessions, no, conf, e, calls, crashed, changes, before>>

(* Under the lock the old session is closed and its slot set to nil; a     *)
(* slot that is nil, or no longer there, panics.                           *)
Replace(p) ==
    /\ pc[p] = "replace" /\ lock = Free
    /\ IF no[p] < Len(SmuxClients) /\ Slot(no[p]) # Nil
       THEN /\ Hold(p)
            /\ state' = Closing(Slot(no[p]))
            /\ SmuxClients' = [SmuxClients EXCEPT ![no[p] + 1] = Nil]
            /\ Goto(p, IF conf[p] = "quic" THEN "redial" ELSE "put")
            /\ Overlap(p)
            /\ UNCHANGED crashed
       ELSE crashed' = TRUE /\ UNCHANGED <<lock, state, SmuxClients, pc, raced>>
    /\ UNCHANGED <<nowconf, lastUse, control, kind, locals, changes, before>>

(* A quic redial that fails returns at once: the lock stays locked.        *)
Redial(p) ==
    /\ pc[p] = "redial"
    /\ \/ Dialled(p) /\ Goto(p, "put")
       \/ Goto(p, Failed(p)) /\ UNCHANGED <<sessions, new>>
    /\ UNCHANGED <<SmuxClients, nowconf, lastUse, lock, control, no, conf, seen, e, calls,
                   crashed, changes, raced, before>>

Put(p) ==
    /\ pc[p] = "put"
    /\ IF no[p] < Len(SmuxClients)
       THEN /\ SmuxClients' = [SmuxClients EXCEPT ![no[p] + 1] = new[p]]
            /\ Unlock
            /\ Goto(p, Built(p))
            /\ new' = [new EXCEPT ![p] = IF p \in Workers THEN Nil ELSE @]
            /\ Overlap(p)
            /\ UNCHANGED crashed
       ELSE crashed' = TRUE /\ UNCHANGED <<SmuxClients, lock, pc, new, raced>>
    /\ UNCHANGED <<nowconf, lastUse, control, sessions, no, conf, seen, e, calls, changes, before>>

RebuildSmux(p) ==
    \/ Conf(p) \/ Ask(p) \/ Dial(p) \/ LookForRoom(p) \/ DialSlot(p) \/ AppendLoad(p) \/ AppendStore(p)
    \/ Replace(p) \/ Redial(p) \/ Put(p)

-----------------------------------------------------------------------------
(* A request of the local SOCKS server. *)

Begin(q) ==
    /\ ready /\ ~reported
    /\ pc[q] = "unborn" /\ \A r \in Requests : r < q => pc[r] # "unborn"
    /\ \/ Goto(q, "turn") /\ UNCHANGED changes
       \/ Goto(q, "forget") /\ changes < MaxChanges /\ changes' = changes + 1
    /\ UNCHANGED <<SmuxClients, nowconf, lastUse, lock, control, sessions, locals, crashed, raced, before>>

(* GetSession takes its turn under the lock, and reads lastUse without it. *)
TakeTurn(q) ==
    /\ pc[q] = "turn" /\ lock = Free
    /\ Turn
    /\ Goto(q, "pick")
    /\ calls' = [calls EXCEPT ![q] = @ + 1]
    /\ UNCHANGED <<SmuxClients, nowconf, lock, control, sessions, no, conf, new, seen, e,
                   crashed, changes, raced, before>>

(* Session s will serve; a nil one panics at its first method call. *)
Use(q, s) ==
    IF s = Nil THEN crashed' = TRUE /\ UNCHANGED <<pc, e>>
    ELSE /\ e' = [e EXCEPT ![q] = s]
         /\ Goto(q, IF new[q] # Nil THEN "open" ELSE "check")
         /\ UNCHANGED crashed

(* Beyond the list's end the last session serves; an empty list is rebuilt. *)
Pick(q) ==
    /\ pc[q] = "pick"
    /\ IF SmuxClients = <<>>
       THEN Goto(q, "conf") /\ no' = [no EXCEPT ![q] = lastUse] /\ UNCHANGED <<e, crashed>>
       ELSE IF lastUse >= Len(SmuxClients)
       THEN Use(q, Slot(Len(SmuxClients) - 1)) /\ UNCHANGED no
       ELSE Goto(q, "fetch") /\ UNCHANGED <<no, e, crashed>>
    /\ UNCHANGED <<SmuxClients, nowconf, lastUse, lock, control, sessions, conf, new, seen, calls,
                   changes, raced, before>>

(* lastUse is read a second time: another request may have moved it beyond *)
(* the list's end.                                                         *)
Fetch(q) ==
    /\ pc[q] = "fetch"
    /\ IF lastUse < Len(SmuxClients)
       THEN Use(q, Slot(lastUse))
       ELSE crashed' = TRUE /\ UNCHANGED <<e, pc>>
    /\ UNCHANGED <<SmuxClients, nowconf, lastUse, lock, control, sessions, no, conf, new, seen, calls,
                   changes, raced, before>>

(* A closed session is rebuilt, at the slot lastUse says by now.           *)
Check(q) ==
    /\ pc[q] = "check"
    /\ Goto(q, IF IsClosed(e[q]) THEN "conf" ELSE "open")
    /\ no' = [no EXCEPT ![q] = IF IsClosed(e[q]) THEN lastUse ELSE @]
    /\ UNCHANGED <<SmuxClients, nowconf, lastUse, lock, control, sessions, conf, new, seen, e, calls,
                   crashed, changes, raced, before>>

(* NewConnnect on the session chosen before the rebuild. *)
OpenStream(q) ==
    /\ pc[q] = "open"
    /\ Goto(q, IF state[Opened(q)] = "open" THEN "send" ELSE "err")
    /\ UNCHANGED <<SmuxClients, nowconf, lastUse, lock, control, sessions, locals,
                   crashed, changes, raced, before>>

(* What a request forgets when GetSession returns. *)
Fresh(q) ==
    /\ e' = [e EXCEPT ![q] = Nil] /\ new' = [new EXCEPT ![q] = Nil]
    /\ conf' = [conf EXCEPT ![q] = NoConf] /\ no' = [no EXCEPT ![q] = 0]

(* ConnectRemote calls GetSession twice; after that ErrCount goes up, under *)
(* the lock, and the request has another try or none left.                  *)
Err(q) ==
    /\ pc[q] = "err"
    /\ \/ calls[q] % 2 = 1 /\ Goto(q, "turn") /\ UNCHANGED ErrCount
       \/ /\ calls[q] % 2 = 0 /\ lock = Free
          /\ ErrCount' = ErrCount + 1
          /\ Goto(q, IF calls[q] < 2 * Tries THEN "turn" ELSE "done")
    /\ Fresh(q)
    /\ UNCHANGED <<SmuxClients, nowconf, lastUse, lock, AliveCount, ready, reported, sessions, seen, calls,
                   crashed, changes, raced, before>>

(* The request is written, the confirmation read and passed on; whatever   *)
(* fails counts as an error and takes another try.                         *)
Send(q) ==
    /\ pc[q] = "send"
    /\ \/ Goto(q, "alive") /\ UNCHANGED calls
       \/ Goto(q, "err") /\ calls' = [calls EXCEPT ![q] = @ + (@ % 2)]
    /\ UNCHANGED <<SmuxClients, nowconf, lastUse, lock, control, sessions, no, conf, new, seen, e,
                   crashed, changes, raced, before>>

Alive(q) ==
    /\ pc[q] = "alive" /\ lock = Free
    /\ AliveCount' = AliveCount + 1
    /\ ErrCount' = Calmer
    /\ Goto(q, "pipe")
    /\ Fresh(q)
    /\ UNCHANGED <<SmuxClients, nowconf, lastUse, lock, ready, reported, sessions, seen, calls,
                   crashed, changes, raced, before>>

(* The copy ends, and the count goes down under the lock. *)
Piped(q) ==
    /\ pc[q] = "pipe" /\ lock = Free
    /\ AliveCount' = AliveCount - 1
    /\ Goto(q, "done")
    /\ UNCHANGED <<SmuxClients, nowconf, lastUse, lock, ErrCount, ready, reported, sessions, locals,
                   crashed, changes, raced, before>>

Request(q) ==
    \/ TakeTurn(q) \/ Pick(q) \/ Fetch(q) \/ Check(q) \/ OpenStream(q) \/ Err(q) \/ Send(q)
    \/ Alive(q) \/ Piped(q)

-----------------------------------------------------------------------------
(* ChangeProxyType, in the goroutine of a request. *)

Forget(q) ==
    /\ pc[q] = "forget"
    /\ nowconf' = NoConf
    /\ Goto(q, "want")
    /\ before' = [before EXCEPT ![q] = Range0(SmuxClients)]
    /\ UNCHANGED <<SmuxClients, lastUse, lock, control, sessions, locals, crashed, changes, raced>>

(* GetAviableProxy(tp): the type is asked for only if nobody else has got  *)
(* another configuration since.                                            *)
Want(q) ==
    /\ pc[q] = "want"
    /\ Goto(q, IF nowconf = NoConf THEN "wish" ELSE "fill")
    /\ UNCHANGED <<SmuxClients, nowconf, lastUse, lock, control, sessions, locals,
                   crashed, changes, raced, before>>

Wish(q) ==
    /\ pc[q] = "wish"
    /\ nowconf' \in ProxyTypes \cup {nowconf}
    /\ Goto(q, "fill")
    /\ UNCHANGED <<SmuxClients, lastUse, lock, control, sessions, locals,
                   crashed, changes, raced, before>>

(* InitializationTunnels starts the workers (bound: one change fills the   *)
(* pool at a time).                                                        *)
Fill(q) ==
    /\ pc[q] = "fill" /\ AllFilled
    /\ \A r \in Requests : pc[r] # "filling"
    /\ pc' = [p \in Procs |-> IF p \in Workers THEN "conf" ELSE IF p = q THEN "filling" ELSE pc[p]]
    /\ UNCHANGED <<SmuxClients, nowconf, lastUse, lock, control, sessions, locals,
                   crashed, changes, raced, before>>

(* It waits for them all, and then names the configuration's type.         *)
Filled(q) ==
    /\ pc[q] = "filling" /\ AllFilled
    /\ IF nowconf = NoConf THEN crashed' = TRUE /\ UNCHANGED pc
       ELSE Goto(q, "done") /\ UNCHANGED crashed
    /\ UNCHANGED <<SmuxClients, nowconf, lastUse, lock, control, sessions, locals, changes, raced, before>>

Change(q) == Forget(q) \/ Want(q) \/ Wish(q) \/ Fill(q) \/ Filled(q)

-----------------------------------------------------------------------------
(* The listening goroutine: it fills the pool, then accepts; after too many *)
(* errors it reports the tunnel and starts counting afresh.                 *)
Ready ==
    /\ ~ready /\ AllFilled
    /\ ready' = TRUE
    /\ UNCHANGED <<SmuxClients, nowconf, lastUse, lock, ErrCount, AliveCount, reported, sessions, pc, locals,
                   crashed, changes, raced, before>>

(* ReportErrorProxy: another configuration, or none was given; a nil one   *)
(* cannot be named and panics.                                             *)
Report ==
    /\ ready /\ ~reported /\ ErrCount > ErrLimit
    /\ IF nowconf = NoConf
       THEN crashed' = TRUE /\ UNCHANGED <<nowconf, reported>>
       ELSE nowconf' \in ProxyTypes /\ reported' = TRUE /\ UNCHANGED crashed
    /\ UNCHANGED <<SmuxClients, lastUse, lock, ErrCount, AliveCount, ready, sessions, pc, locals,
                   changes, raced, before>>

Reset ==
    /\ reported
    /\ reported' = FALSE /\ ErrCount' = 0
    /\ UNCHANGED <<SmuxClients, nowconf, lastUse, lock, AliveCount, ready, sessions, pc, locals,
                   crashed, changes, raced, before>>

(* The network loses a session; a smux session's keep-alive closes it.     *)
Lose(s) ==
    /\ state[s] = "open"
    /\ state' = [state EXCEPT ![s] = "lost"]
    /\ UNCHANGED <<SmuxClients, nowconf, lastUse, lock, control, kind, pc, locals,
                   crashed, changes, raced, before>>

KeepAlive(s) ==
    /\ state[s] = "lost" /\ kind[s] # "quic"
    /\ state' = [state EXCEPT ![s] = "closed"]
    /\ UNCHANGED <<SmuxClients, nowconf, lastUse, lock, control, kind, pc, locals,
                   crashed, changes, raced, before>>

Proc(p) == ~crashed /\ (RebuildSmux(p) \/ Request(p) \/ Change(p))

Next ==
    \/ \E p \in Procs : Proc(p)
    \/ ~crashed /\ (Ready \/ Report \/ Reset)
    \/ ~crashed /\ \E q \in Requests : Begin(q)
    \/ ~crashed /\ \E s \in Ids : Lose(s) \/ KeepAlive(s)

Spec == Init /\ [][Next]_vars

(* Go runs the goroutines that can run and its mutexes starve no one; a    *)
(* dial succeeds or fails in the end.                                      *)
FairSpec == Spec /\ \A p \in Procs : WF_vars(Proc(p))

-----------------------------------------------------------------------------
Holds(p) == pc[p] \in {"redial", "put"}

TypeOK ==
    /\ SmuxClients \in Seq(Ids \cup {Nil}) /\ nowconf \in ProxyTypes \cup {NoConf}
    /\ lastUse \in -1 .. ClientNum - 1 /\ lock \in Procs \cup {Free}
    /\ ErrCount \in Nat /\ AliveCount \in Nat
    /\ ready \in BOOLEAN /\ reported \in BOOLEAN
    /\ state \in [Ids -> {"none", "open", "lost", "closed"}]
    /\ kind \in [Ids -> ProxyTypes \cup {NoConf}]
    /\ pc \in [Procs -> {"idle", "unborn", "done", "conf", "ask", "dial", "room", "dialslot", "load", "store",
                         "replace", "redial", "put", "turn", "pick", "fetch", "check", "open", "err",
                         "send", "alive", "pipe", "forget", "want", "wish", "fill", "filling"}]
    /\ no \in [Procs -> -1 .. ClientNum - 1] /\ conf \in [Procs -> ProxyTypes \cup {NoConf}]
    /\ new \in [Procs -> Ids \cup {Nil}] /\ e \in [Procs -> Ids \cup {Nil}]
    /\ seen \in [Procs -> Seq(Ids \cup {Nil})] /\ calls \in [Procs -> 0 .. 2 * Tries]
    /\ crashed \in BOOLEAN /\ changes \in 0 .. MaxChanges /\ raced \in BOOLEAN
    /\ before \in [Requests -> SUBSET (Ids \cup {Nil})]

(* The lock is held while a session is replaced and otherwise only for     *)
(* good, by a goroutine whose quic redial failed, which leaves nil in the  *)
(* list; with tls and kcp that cannot be.                                  *)
LockLeft == \E p \in Procs : lock = p /\ ~Holds(p)
LockHeld ==
    /\ \A p \in Procs : Holds(p) => lock = p
    /\ LockLeft => "quic" \in ProxyTypes /\ (Nil \in Range0(SmuxClients) \/ raced)

(* As long as no append overlapped another update, a slot is nil only      *)
(* while the lock is held: a request that takes the lock before it reads   *)
(* the list meets nil only if the replacement began after its turn.        *)
NilIsLocked == ~raced => (Nil \in Range0(SmuxClients) => lock # Free)

(* As long as no append overlapped another update no session is lost: one  *)
(* that is not closed is in the list or about to be put there.             *)
NoneLost ==
    ~raced => \A s \in Ids :
        state[s] \in {"open", "lost"} =>
            \/ s \in Range0(SmuxClients)
            \/ \E p \in Procs : new[p] = s /\ pc[p] \in {"room", "load", "store", "replace", "put"}

(* The workers do not fill the pool in order, and one that finds the list  *)
(* longer than its number replaces a session instead of adding one.  Still,*)
(* unless appends overlapped, at least half the slots are filled once the  *)
(* client listens, and never more than ClientNum.                          *)
HalfFull ==
    ~raced => /\ Len(SmuxClients) <= ClientNum
              /\ ready => 2 * Len(SmuxClients) >= ClientNum

(* The process panics only while a slot is nil, while the list is shorter  *)
(* than ClientNum, or without a configuration, if no append overlapped     *)
(* another update: a request indexes a full list safely although lastUse   *)
(* moves between its three reads.                                          *)
PanicOnly ==
    crashed => \/ raced \/ nowconf = NoConf
               \/ Len(SmuxClients) < ClientNum \/ Nil \in Range0(SmuxClients)

(* When a change of type has filled the pool anew, every session that was  *)
(* in the list when it began is closed, whoever rebuilt slots meanwhile.   *)
ChangeClosesOld ==
    \A q \in Requests : (pc[q] = "filling" /\ AllFilled /\ ~raced) =>
        \A s \in before[q] \ {Nil} : state[s] = "closed"

(* Every request is served or given up, whoever rebuilds the pool at the   *)
(* same time, unless the process panics or the lock is left locked.        *)
Answered == \A q \in Requests : pc[q] = "turn" ~> (pc[q] \in {"pipe", "done"} \/ crashed \/ LockLeft)
=============================================================================
