------------------------------ MODULE SelfUpdate ------------------------------
(***************************************************************************)
(* The server on a machine, replacing itself (update/update.go, main.go)   *)
(* and deployed anew over ssh (deploy/dev_server.go, DepOneHost).          *)
(*                                                                         *)
(* z11-update starts a goroutine (Update) that fetches a Go toolchain,     *)
(* clones the repository into /tmp/repo_update/pz, builds it there, starts *)
(* the result as a new process and ends its own three seconds later; the   *)
(* new process waits seven seconds before it listens.  An update that      *)
(* fails removes the whole directory.  A deployment is a shell script that *)
(* ends every server process first, then clones into                       *)
(* /tmp/repo_update/proxy-z, builds and starts what is there, and removes  *)
(* /tmp/repo_update in any case, which is all its exit status tells of.    *)
(* Nothing keeps updates and deployments apart.                            *)
(*                                                                         *)
(* The process an update or a deployment starts bears its name, Boot is    *)
(* the first.                                                              *)
(***************************************************************************)
CONSTANTS Updates,      \* bound: requests to update
          Deployments,  \* bound: runs of DepOneHost
          Boot          \* the first process

ASSUME UpdateAssumption ==
    Boot \notin Updates \cup Deployments /\ Updates \cap Deployments = {}

Changes == Updates \cup Deployments
Procs   == Changes \cup {Boot}
None  == [stage |-> "none", of |-> Boot]

VARIABLES
    proc,         \* each process: none, launching, starting, serving, dead,
                  \* or killed by a deployment
    version,      \* the update or deployment whose source it was built from
    pc,           \* the step of each update or deployment
    home,         \* the process an update runs in
    pz, px,       \* the clones, pz and proxy-z: stage, and whose they are
    overlapped,   \* history: one began while another was under way
    logFailed,    \* history: Daemon could not create the log file
    undeployed    \* history: a deployment had nothing to start

dirs    == <<pz, px>>
history == <<overlapped, logFailed, undeployed>>
vars    == <<proc, version, pc, home, dirs, history>>

Busy   == {"env", "remove", "clone", "cloning", "build", "daemon"}
AtWork == Busy \cup {"sleep", "tools", "kill", "fetch", "make", "run", "clean"}

Goto(u, step) == pc' = [pc EXCEPT ![u] = step]

(* The deferred REPO_TMP.Rm(), and the script's rm -rf.                    *)
NoDirs  == pz' = None /\ px' = None
Fail(u) == Goto(u, "done") /\ NoDirs

(* Processes end with all their goroutines, deferred functions not run.    *)
Stopped(ps) == [c \in Changes |->
    IF c \in Updates /\ home[c] \in ps /\ pc[c] \in Busy \cup {"sleep"} THEN "killed" ELSE pc[c]]

(* A server process, or what an update or a deployment made of it.         *)
Living == {"launching", "starting", "serving"}

(* An earlier clone is removed.  (Mutant: it is good enough.)              *)
RemoveUnless(u) == UNCHANGED dirs /\ Goto(u, IF pz = None THEN "clone" ELSE "build")
RemoveOld(u)    == pz' = None /\ UNCHANGED px /\ Goto(u, "clone")

(* A build without a Puzzle in its listing fails.  (Mutant: it is tried.)  *)
UnbuiltTried(u) == Goto(u, "daemon") /\ UNCHANGED dirs
Unbuilt(u)      == Fail(u)

(* The process that started the new one ends.  (Mutant: it goes on.)       *)
Remains(p) == "serving"
Leaves(p)  == "dead"

(* What a deployment can start: the build of its own clone.                *)
Runnable(d) == px = [stage |-> "built", of |-> d]

Init ==
    /\ proc = [p \in Procs |-> IF p = Boot THEN "launching" ELSE "none"]
    /\ version = [p \in Procs |-> Boot]
    /\ pc = [c \in Changes |-> "unborn"] /\ home = [u \in Updates |-> Boot]
    /\ pz = None /\ px = None
    /\ overlapped = FALSE /\ logFailed = FALSE /\ undeployed = FALSE

(* The first process may be run as a daemon: it starts itself again and    *)
(* ends, also when there is no log file and nothing was started.           *)
Launch ==
    /\ proc[Boot] = "launching"
    /\ \/ proc' = [proc EXCEPT ![Boot] = "starting"] /\ UNCHANGED logFailed
       \/ proc' = [proc EXCEPT ![Boot] = "dead"] /\ logFailed' = TRUE
    /\ UNCHANGED <<version, pc, home, dirs, overlapped, undeployed>>

(* main: after seven seconds, when the three of the process that started   *)
(* this one are over, it listens; a taken port makes Serve(nil) panic.     *)
Wake(p) ==
    /\ proc[p] = "starting"
    /\ p \in Updates => pc[p] # "sleep"
    /\ proc' = [proc EXCEPT ![p] = IF \E q \in Procs : proc[q] = "serving" THEN "dead" ELSE "serving"]
    /\ UNCHANGED <<version, pc, home, dirs, history>>

Begins(c, step) ==
    /\ overlapped' = (overlapped \/ \E v \in Changes : pc[v] \in AtWork)
    /\ Goto(c, step)

(* z11-update; what it does to the tunnels is in module TunnelRegistry.    *)
Request(u) ==
    /\ pc[u] = "unborn"
    /\ \E p \in Procs : proc[p] = "serving" /\ home' = [home EXCEPT ![u] = p]
    /\ Begins(u, "env")
    /\ UNCHANGED <<proc, version, dirs, logFailed, undeployed>>

(* The toolchain, fetched and tried.                                       *)
Env(u) ==
    /\ pc[u] = "env"
    /\ Fail(u) \/ (Goto(u, "remove") /\ UNCHANGED dirs)
    /\ UNCHANGED <<proc, version, home, history>>

Remove(u) ==
    /\ pc[u] = "remove" /\ RemoveOld(u)
    /\ UNCHANGED <<proc, version, home, history>>

(* PlainClone refuses a repository that exists.                            *)
Clone(u) ==
    /\ pc[u] = "clone"
    /\ IF pz = None
       THEN pz' = [stage |-> "partial", of |-> u] /\ Goto(u, "cloning") /\ UNCHANGED px
       ELSE Fail(u)
    /\ UNCHANGED <<proc, version, home, history>>

(* The network may fail; a clone removed meanwhile may be missed or not.   *)
Cloned(u) ==
    /\ pc[u] = "cloning"
    /\ Fail(u) \/ (pz' = [stage |-> "source", of |-> u] /\ Goto(u, "build") /\ UNCHANGED px)
    /\ UNCHANGED <<proc, version, home, history>>

Build(u) ==
    /\ pc[u] = "build"
    /\ \/ /\ pz.stage \in {"source", "built"}
          /\ pz' = [pz EXCEPT !.stage = "built"] /\ Goto(u, "daemon") /\ UNCHANGED px
       \/ Unbuilt(u)
    /\ UNCHANGED <<proc, version, home, history>>

(* Daemon returns when there is no log file, and Update carries on; it     *)
(* ends the process (log.Fatal) when there is nothing to start.            *)
Daemon(u) ==
    /\ pc[u] = "daemon"
    /\ \/ logFailed' = TRUE /\ Goto(u, "sleep") /\ UNCHANGED <<proc, version>>
       \/ /\ UNCHANGED logFailed
          /\ IF pz.stage = "built"
             THEN /\ proc' = [proc EXCEPT ![u] = "starting"]
                  /\ version' = [version EXCEPT ![u] = pz.of]
                  /\ Goto(u, "sleep")
             ELSE /\ proc' = [proc EXCEPT ![home[u]] = "dead"]
                  /\ pc' = Stopped({home[u]}) /\ UNCHANGED version
    /\ UNCHANGED <<home, dirs, overlapped, undeployed>>

(* Three seconds later, os.Exit.                                           *)
Exit(u) ==
    /\ pc[u] = "sleep"
    /\ proc' = [proc EXCEPT ![home[u]] = Leaves(home[u])]
    /\ pc' = Stopped({home[u]})
    /\ UNCHANGED <<version, home, dirs, history>>

Update(u) == Env(u) \/ Remove(u) \/ Clone(u) \/ Cloned(u) \/ Build(u) \/ Daemon(u) \/ Exit(u)

-----------------------------------------------------------------------------
(* DepOneHost's two commands on the machine. *)

Deploy(d) ==
    /\ pc[d] = "unborn"
    /\ Begins(d, "tools")
    /\ UNCHANGED <<proc, version, home, dirs, logFailed, undeployed>>

(* BU: without a toolchain nothing else is done.                           *)
Tools(d) ==
    /\ pc[d] = "tools"
    /\ Goto(d, "kill") \/ Goto(d, "done")
    /\ UNCHANGED <<proc, version, home, dirs, history>>

(* B: kill -9 of every process that runs a Puzzle.                         *)
Kill(d) ==
    /\ pc[d] = "kill"
    /\ proc' = [p \in Procs |-> IF proc[p] \in Living THEN "killed" ELSE proc[p]]
    /\ pc' = [Stopped(Procs) EXCEPT ![d] = "fetch"]
    /\ UNCHANGED <<version, home, dirs, history>>

(* The clone fails when there is one, or no /tmp/repo_update to go to, and *)
(* then nothing is built; what follows is done nevertheless.               *)
Fetch(d) ==
    /\ pc[d] = "fetch"
    /\ \/ px = None /\ px' = [stage |-> "source", of |-> d] /\ Goto(d, "make")
       \/ UNCHANGED px /\ Goto(d, "run")
    /\ UNCHANGED <<proc, version, home, pz, history>>

Make(d) ==
    /\ pc[d] = "make"
    /\ \/ px.of = d /\ px.stage # "none" /\ px' = [px EXCEPT !.stage = "built"]
       \/ UNCHANGED px
    /\ Goto(d, "run")
    /\ UNCHANGED <<proc, version, home, pz, history>>

(* ./Puzzle -d, where the script has come to: the clone, if it was made.   *)
Run(d) ==
    /\ pc[d] = "run"
    /\ IF Runnable(d)
       THEN \/ /\ proc' = [proc EXCEPT ![d] = "starting"]
               /\ version' = [version EXCEPT ![d] = px.of]
               /\ UNCHANGED <<logFailed, undeployed>>
            \/ logFailed' = TRUE /\ UNCHANGED <<proc, version, undeployed>>
       ELSE undeployed' = TRUE /\ UNCHANGED <<proc, version, logFailed>>
    /\ Goto(d, "clean")
    /\ UNCHANGED <<home, dirs, overlapped>>

Clean(d) ==
    /\ pc[d] = "clean"
    /\ Goto(d, "done") /\ NoDirs
    /\ UNCHANGED <<proc, version, home, history>>

Deployment(d) == Tools(d) \/ Kill(d) \/ Fetch(d) \/ Make(d) \/ Run(d) \/ Clean(d)

Next ==
    \/ Launch
    \/ \E p \in Procs : Wake(p)
    \/ \E u \in Updates : Request(u) \/ Update(u)
    \/ \E d \in Deployments : Deploy(d) \/ Deployment(d)

Spec == Init /\ [][Next]_vars

(* Commands end, timers expire and the scheduler runs every goroutine.     *)
Fairness ==
    /\ \A p \in Procs : WF_vars(Wake(p))
    /\ \A u \in Updates : WF_vars(Update(u))
    /\ \A d \in Deployments : WF_vars(Deployment(d))

FairSpec == Spec /\ Fairness

-----------------------------------------------------------------------------
(* A machine is left without a server only after two updates or            *)
(* deployments overlapped, when the log file could not be created, or by a *)
(* deployment that ended the old server and had no new one to start: an    *)
(* update that fails leaves the process that runs it alone.                *)
LostOnly ==
    (\A p \in Procs : proc[p] \notin Living) =>
        \/ overlapped \/ logFailed \/ undeployed
        \/ \E d \in Deployments : pc[d] \in {"fetch", "make", "run"}

(* Every update or deployment that never met another runs what it cloned   *)
(* itself, not the rest of an earlier or interrupted one.                  *)
OwnBuild == \A c \in Changes : (proc[c] # "none" /\ ~overlapped) => version[c] = c

(* A new process leads to a new process that serves: it finds the port     *)
(* free, or another new one has it, unless a deployment ends it.           *)
HandsOver ==
    \A c \in Changes :
        proc[c] = "starting" ~> (proc[c] = "killed" \/ \E p \in Changes : proc[p] = "serving")
=============================================================================
