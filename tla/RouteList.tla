------------------------------- MODULE RouteList -------------------------------
(***************************************************************************)
(* The list of routes a client chooses from (deploy/httpcontroll.go and    *)
(* deploy/dev_server.go).                                                  *)
(*                                                                         *)
(* A login or connect request clones the repository of accounts into one   *)
(* directory under the temporary files, decrypts the account's file and    *)
(* removes the directory (GitGetAccount); the list becomes                 *)
(* globalClient.Routes.  Every route is then tested and the list sorted in *)
(* place (TestRoutes), after a login and every ten minutes.  An operator   *)
(* stores a list with SyncToGit, which uses the same directory and leaves  *)
(* it behind.                                                              *)
(*                                                                         *)
(* A list is named by the request that fetched it.  pc[u] is the next step *)
(* of request or sync u, tpc[t] that of the test started by t, which is    *)
(* the timer or a login.                                                   *)
(***************************************************************************)
EXTENDS Integers, Sequences, FiniteSets, Functions

CONSTANTS
    Requests,   \* bound: the login and connect requests
    Hosts,      \* the routes of the account
    Sync,       \* the operator's sync
    Timer,      \* the ten-minute goroutine
    None        \* no list, no directory

ASSUME RouteListAssumption ==
    /\ IsFiniteSet(Hosts) /\ Hosts # {}
    /\ Sync \notin Requests /\ Timer \notin Requests /\ None \notin Requests \cup {Sync}
    /\ None \notin [by : Requests \cup {Sync}, ready : BOOLEAN, file : {"old", "new"},
                   commit : {None, "old", "new"}]

Users   == Requests \cup {Sync}
Testers == Requests \cup {Timer}

VARIABLES
    repo,       \* the list stored for the account: "old" or "new"
    dir,        \* the directory: None, or who cloned it, whether the clone is
                \* complete, its file of the account and the commit to push
    pc, kind,   \* kind[r]: "login" or "connect", with "right" or "wrong" names
    fetched,    \* fetched[r]: the request got a list
    Routes,     \* globalClient.Routes
    list, quality,  \* by request: the list, and what its tests found
    tpc, on, left,  \* tests: step, the list, the routes not yet tested
    (* history: another used the directory meanwhile; a step of its own     *)
    (* failed; the last list stored by a request, and whether the timer was *)
    (* testing then; two tests of a list, or two sorts, overlapped          *)
    met, failed, latest, overtaken, mixed, torn

git   == <<repo, dir>>
users == <<pc, kind, fetched, met, failed>>
page  == <<Routes, latest, overtaken>>
tests == <<list, quality, tpc, on, left, mixed, torn>>
vars  == <<git, users, page, tests>>

(* Every host once, in any order.                                          *)
Orders == {s \in [1..Cardinality(Hosts) -> Hosts] : IsInjective(s)}

Goto(u, step)  == pc' = [pc EXCEPT ![u] = step]
Inside(u)      == pc[u] \notin {"start", "store", "done", "dead"}

Clone(u) == [by |-> u, ready |-> FALSE, file |-> repo, commit |-> None]

(* What is left of the directory before a clone.  (Mutant: left as it is.) *)
Kept(d)    == d
Cleared(d) == None

(* What a commit holds.  (Mutant: the changed file is not added.)          *)
Unadded(d)   == repo
Committed(d) == d.file

(* The tests are waited for before the sort.  (Mutant: they are not.)      *)
NotWaited(t) == TRUE
Waited(t)    == left[t] = {}

(* What a test leaves in Routes: the timer stores the list it tested, a    *)
(* login's goroutine drops it.  (Mutant: both store it.)                   *)
StoredAny(t)   == on[t]
StoredTimer(t) == IF t = Timer THEN on[t] ELSE Routes

Init ==
    /\ repo = "old"
    (* a sync of an earlier run left its clone, or not *)
    /\ dir \in {None, [Clone(Sync) EXCEPT !.ready = TRUE]}
    /\ pc = [u \in Users |-> "start"]
    /\ kind \in [Requests -> {"login", "connect"} \X {"right", "wrong"}]
    /\ fetched = [r \in Requests |-> FALSE]
    /\ Routes = None
    /\ list = [r \in Requests |-> <<>>]
    /\ quality = [r \in Requests |-> [h \in Hosts |-> 0]]
    /\ tpc = [t \in Testers |-> "idle"]
    /\ on = [t \in Testers |-> None]
    /\ left = [t \in Testers |-> {}]
    /\ met = [u \in Users |-> FALSE] /\ failed = [u \in Users |-> FALSE]
    /\ latest = None /\ overtaken = FALSE
    /\ mixed = [r \in Requests |-> FALSE] /\ torn = [r \in Requests |-> FALSE]

-----------------------------------------------------------------------------
(* GitGetAccount and SyncToGit: the directory. *)

(* A request enters; connect is refused while there is no list.  The       *)
(* directory is removed if it exists.                                      *)
RemoveDir(u) ==
    /\ pc[u] = "start"
    /\ u \in Requests /\ kind[u][1] = "connect" => Routes # None
    /\ dir' = IF dir = None THEN None ELSE Cleared(dir)
    /\ met' = [v \in Users |->
                  met[v] \/ (v = u /\ \E w \in Users : Inside(w)) \/ (v # u /\ Inside(v))]
    /\ Goto(u, "clone")
    /\ UNCHANGED <<repo, kind, fetched, failed, page, tests>>

(* What an error leads to: a request leaves, a sync ends its process.      *)
GiveUp(u) == Goto(u, IF u = Sync THEN "dead" ELSE "leave")

(* PlainClone refuses a directory in which there is a repository.          *)
BeginClone(u) ==
    /\ pc[u] = "clone"
    /\ IF dir = None
       THEN dir' = Clone(u) /\ Goto(u, "cloning")
       ELSE UNCHANGED dir /\ GiveUp(u)
    /\ UNCHANGED <<repo, kind, fetched, met, failed, page, tests>>

(* The clone completes, unless its directory was taken away; one that      *)
(* fails, also for want of a network, removes what is there.               *)
EndClone(u) ==
    /\ pc[u] = "cloning"
    /\ \/ /\ dir # None /\ dir.by = u
          /\ dir' = [Clone(u) EXCEPT !.ready = TRUE]
          /\ Goto(u, "file")
          /\ UNCHANGED failed
       \/ /\ dir' = None
          /\ failed' = [failed EXCEPT ![u] = TRUE]
          /\ GiveUp(u)
    /\ UNCHANGED <<repo, kind, fetched, met, page, tests>>

(* The account's file is found and decrypted.                              *)
Read(r) ==
    /\ pc[r] = "file" /\ r \in Requests
    /\ \/ /\ dir # None /\ kind[r][2] = "right"
          /\ fetched' = [fetched EXCEPT ![r] = TRUE]
       \/ /\ dir = None \/ (dir # None /\ ~dir.ready) \/ kind[r][2] = "wrong"
          /\ UNCHANGED fetched
    /\ Goto(r, "leave")
    /\ UNCHANGED <<git, kind, met, failed, page, tests>>

(* The deferred removal, whoever's clone it is by now.                     *)
Leave(r) ==
    /\ pc[r] = "leave"
    /\ dir' = None
    /\ Goto(r, "store")
    /\ UNCHANGED <<repo, kind, fetched, met, failed, page, tests>>

WriteFile ==
    /\ pc[Sync] = "file"
    /\ dir' = IF dir = None THEN None ELSE [dir EXCEPT !.file = "new"]
    /\ Goto(Sync, "commit")
    /\ UNCHANGED <<repo, kind, fetched, met, failed, page, tests>>

(* Add and Commit, also of a file that is as it was.                       *)
Commit ==
    /\ pc[Sync] = "commit"
    /\ IF dir # None /\ dir.ready
       THEN dir' = [dir EXCEPT !.commit = Committed(dir)] /\ Goto(Sync, "push")
       ELSE UNCHANGED dir /\ Goto(Sync, "dead")
    /\ UNCHANGED <<repo, kind, fetched, met, failed, page, tests>>

(* A push with nothing to push is an error, as is one without a network.   *)
Push ==
    /\ pc[Sync] = "push"
    /\ \/ /\ dir # None /\ dir.ready /\ dir.commit # None
          /\ repo' = dir.commit
          /\ Goto(Sync, "done")
       \/ Goto(Sync, "dead") /\ UNCHANGED repo
    /\ UNCHANGED <<dir, kind, fetched, met, failed, page, tests>>

-----------------------------------------------------------------------------
(* The page's list and its tests. *)

Busy(t, r) == tpc[t] \in {"test", "sort"} /\ on[t] = r

(* TestRoutes begins: a goroutine for each route.                          *)
Testing(t, r) ==
    /\ tpc' = [tpc EXCEPT ![t] = "test"]
    /\ on' = [on EXCEPT ![t] = r]
    /\ left' = [left EXCEPT ![t] = Hosts]
    /\ mixed' = [mixed EXCEPT ![r] = @ \/ \E v \in Testers : Busy(v, r)]

(* A list that is not empty replaces the one before; a login tests it.     *)
Store(r) ==
    /\ pc[r] = "store"
    /\ Goto(r, "done")
    /\ IF fetched[r]
       THEN /\ Routes' = r /\ latest' = r
            /\ overtaken' = (tpc[Timer] # "idle")
            /\ \E s \in Orders : list' = [list EXCEPT ![r] = s]
            /\ IF kind[r][1] = "login" THEN Testing(r, r)
               ELSE UNCHANGED <<tpc, on, left, mixed>>
            /\ UNCHANGED <<quality, torn>>
       ELSE UNCHANGED <<page, tests>>
    /\ UNCHANGED <<git, kind, fetched, met, failed>>

Tick ==
    /\ tpc[Timer] = "idle" /\ Routes # None
    /\ Testing(Timer, Routes)
    /\ UNCHANGED <<git, users, page, list, quality, torn>>

(* One route answered soon, late or not at all.                            *)
TestOne(t, h, q) ==
    /\ h \in left[t]
    /\ left' = [left EXCEPT ![t] = @ \ {h}]
    /\ quality' = [quality EXCEPT ![on[t]][h] = q]
    /\ UNCHANGED <<git, users, page, list, tpc, on, mixed, torn>>

BeginSort(t) ==
    /\ tpc[t] = "test" /\ Waited(t)
    /\ tpc' = [tpc EXCEPT ![t] = "sort"]
    /\ torn' = [torn EXCEPT ![on[t]] =
                   @ \/ \E v \in Testers : tpc[v] = "sort" /\ on[v] = on[t]]
    /\ UNCHANGED <<git, users, page, list, quality, on, left, mixed>>

(* s is sorted by what the tests of list r found.                          *)
InOrder(s, r) == \A i \in 1..(Len(s) - 1) : quality[r][s[i]] <= quality[r][s[i + 1]]

(* Sort swaps entries of the list every reader shares.  While a test       *)
(* changes what it compares any order may come out; two sorts at a time    *)
(* may also leave a route twice and another not at all.  TestRoutes        *)
(* returns the list it sorted.                                             *)
EndSort(t) ==
    /\ tpc[t] = "sort"
    /\ list' \in {[list EXCEPT ![on[t]] = s] : s \in
           IF torn[on[t]] THEN [1..Cardinality(Hosts) -> Hosts]
           ELSE {s \in Orders : InOrder(s, on[t]) \/ \E v \in Testers \ {t} : Busy(v, on[t])}}
    /\ Routes' = StoredTimer(t)
    /\ tpc' = [tpc EXCEPT ![t] = "idle"]
    /\ UNCHANGED <<git, users, latest, overtaken, quality, on, left, mixed, torn>>

Next ==
    \/ \E u \in Users : RemoveDir(u) \/ BeginClone(u) \/ EndClone(u)
    \/ \E r \in Requests : Read(r) \/ Leave(r) \/ Store(r)
    \/ WriteFile \/ Commit \/ Push
    \/ Tick
    \/ \E t \in Testers : BeginSort(t) \/ EndSort(t)
    \/ \E t \in Testers, h \in Hosts, q \in {1, 2} : TestOne(t, h, q)

Spec == Init /\ [][Next]_vars

-----------------------------------------------------------------------------
(* The page shows the list of the last login or connect that got one; only *)
(* the timer can bring an earlier one back, when it was testing that when  *)
(* the last was stored.                                                    *)
LastLogin == Routes = latest \/ overtaken

(* A list whose test has ended is in the order of what the test found,     *)
(* every route once, unless another test of it ran meanwhile: the timer's  *)
(* and a login's are not kept apart.                                       *)
FastestFirst ==
    \A r \in Requests :
        (/\ ~mixed[r] /\ \A h \in Hosts : quality[r][h] # 0
         /\ \A t \in Testers : ~Busy(t, r))
            => list[r] \in Orders /\ InOrder(list[r], r)

(* The directory a sync left, or a request that failed, is in nobody's     *)
(* way: a request with the right name and password whose clone succeeds    *)
(* gets its list, unless another used the directory at the same time.      *)
LoginServed ==
    \A r \in Requests :
        (pc[r] = "done" /\ kind[r][2] = "right" /\ ~met[r] /\ ~failed[r]) => fetched[r]

(* A sync that reports its push stored the list, unless a request used the *)
(* directory at the same time.                                             *)
SyncStored == pc[Sync] = "done" => repo = "new" \/ met[Sync]
=============================================================================
