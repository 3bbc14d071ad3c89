--------------------------- MODULE SharedFiles_proofs ---------------------------
(***************************************************************************)
(* Proofs about what requests share in the file system: RouteList, for any *)
(* number of requests and routes, and ServerFiles, for any number of       *)
(* uploads, downloads, c-log requests, daemons and lines.                  *)
(***************************************************************************)
EXTENDS RouteList, ServerFiles, SequenceTheorems, FiniteSetTheorems, TLAPS

(* The types of RouteList, in two parts.                                   *)
Clones == [by : Users, ready : BOOLEAN, file : {"old", "new"}, commit : {None, "old", "new"}]
GitTypes ==
    /\ repo \in {"old", "new"} /\ dir \in Clones \cup {None}
    /\ pc \in [Users -> {"start", "clone", "cloning", "file", "leave", "store",
                         "commit", "push", "done", "dead"}]
    /\ kind \in [Requests -> {"login", "connect"} \X {"right", "wrong"}]
    /\ fetched \in [Requests -> BOOLEAN]
    /\ met \in [Users -> BOOLEAN] /\ failed \in [Users -> BOOLEAN]
PageTypes ==
    /\ Routes \in Requests \cup {None} /\ latest \in Requests \cup {None} /\ overtaken \in BOOLEAN
    /\ list \in [Requests -> Seq(Hosts)]
    /\ quality \in [Requests -> [Hosts -> {0, 1, 2}]]
    /\ tpc \in [Testers -> {"idle", "test", "sort"}] /\ on \in [Testers -> Requests \cup {None}]
    /\ left \in [Testers -> SUBSET Hosts]
    /\ mixed \in [Requests -> BOOLEAN] /\ torn \in [Requests -> BOOLEAN]

(* What the directory holds for one who met nobody in it.                  *)
HasClone(u) ==
    /\ pc[u] = "clone" => dir = None
    /\ pc[u] \in {"cloning", "file", "commit", "push"} => dir # None /\ dir.by = u
    /\ pc[u] \in {"file", "commit", "push"} => dir.ready

(* Who met nobody in the directory is alone in it, and has its clone.      *)
Alone ==
    \A u \in Users : Inside(u) /\ ~met[u] =>
        (\A w \in Users \ {u} : ~Inside(w)) /\ HasClone(u)

(* A request that found its clone and knows the names has its list.        *)
Served ==
    \A r \in Requests :
        (/\ pc[r] \in {"leave", "store", "done"}
         /\ kind[r][2] = "right" /\ ~met[r] /\ ~failed[r]) => fetched[r]

(* A sync that met nobody commits and pushes the file it wrote.            *)
Synced ==
    ~met[Sync] =>
        /\ pc[Sync] \in {"commit", "push"} => dir.file = "new"
        /\ pc[Sync] = "push" => dir.commit = "new"
        /\ pc[Sync] = "done" => repo = "new"

(* The timer tests the last list, or the last was stored meanwhile.        *)
Shows == LastLogin /\ (tpc[Timer] # "idle" => on[Timer] = latest \/ overtaken)

(* Only stored lists are tested; a test sorts when nothing is left to do.  *)
Tested ==
    /\ \A r \in Requests : pc[r] # "done" => quality[r] = [h \in Hosts |-> 0] /\ tpc[r] = "idle"
    /\ Routes # None => pc[Routes] = "done"
    /\ \A t \in Testers :
         /\ tpc[t] # "test" => left[t] = {}
         /\ tpc[t] # "idle" => on[t] \in Requests /\ pc[on[t]] = "done"

(* Tests of a list that never overlapped: one at a time, and no torn sort. *)
Apart ==
    \A r \in Requests : ~mixed[r] =>
        /\ ~torn[r]
        /\ \A t, v \in Testers : Busy(t, r) /\ Busy(v, r) => t = v

Directory == GitTypes /\ Alone /\ Served /\ Synced
Page      == PageTypes /\ Shows /\ Tested /\ Apart /\ FastestFirst
RouteInv  == Directory /\ Page

-----------------------------------------------------------------------------
LEMMA RouteNames ==
    /\ Sync \notin Requests /\ Timer \notin Requests /\ None \notin Requests /\ None # Sync
    /\ None \notin Clones
    /\ Requests \subseteq Users /\ Sync \in Users /\ Requests \subseteq Testers /\ Timer \in Testers
    /\ \A u \in Users : u \in Requests \/ u = Sync
    /\ Hosts # {} /\ Cardinality(Hosts) \in Nat
<1>1. Cardinality(Hosts) \in Nat  BY RouteListAssumption, FS_CardinalityType
<1> QED  BY <1>1, RouteListAssumption DEF Clones, Users, Testers

(* Entering the directory: whoever is inside has met somebody.             *)
LEMMA RemoveDirSafe ==
    ASSUME Directory, NEW u \in Users, RemoveDir(u)
    PROVE  Directory'
<1> USE DEF Directory
<1>1. /\ pc[u] = "start" /\ pc' = [pc EXCEPT ![u] = "clone"] /\ dir' = None
      /\ UNCHANGED <<repo, kind, fetched, failed>>
      /\ met' = [v \in Users |->
                   met[v] \/ (v = u /\ \E w \in Users : Inside(w)) \/ (v # u /\ Inside(v))]
  BY DEF RemoveDir, Goto, Cleared
<1>2. GitTypes'  BY <1>1 DEF GitTypes
<1>3. /\ pc'[u] = "clone" /\ \A v \in Users : v # u => pc'[v] = pc[v]
  BY <1>1 DEF GitTypes
<1>4. ~Inside(u) /\ \A v \in Users : v # u => (Inside(v)' <=> Inside(v))
  BY <1>1, <1>3 DEF Inside
<1>5. \A v \in Users : met[v] => met'[v]  BY <1>1
<1>6. Alone'
  <2> SUFFICES ASSUME NEW v \in Users, Inside(v)', ~met'[v]
               PROVE  (\A w \in Users \ {v} : ~Inside(w)') /\ HasClone(v)'
    BY DEF Alone
  <2>1. v = u /\ \A w \in Users : ~Inside(w)  BY <1>1, <1>4
  <2> QED  BY <1>1, <1>3, <1>4, <2>1 DEF HasClone
<1>7. Served'  BY <1>1, <1>3, <1>5, RouteNames DEF Served
<1>8. Synced'
  <2>1. CASE u = Sync  BY <1>3, <2>1 DEF Synced
  <2>2. CASE u # Sync
    <3>1. Inside(Sync) => met'[Sync]  BY <1>1, <2>2, RouteNames
    <3>2. pc'[Sync] = pc[Sync] /\ repo' = repo  BY <1>1, <1>3, <2>2, RouteNames
    <3> QED  BY <1>5, <3>1, <3>2, RouteNames DEF Synced, Inside
  <2> QED  BY <2>1, <2>2
<1> QED  BY <1>2, <1>6, <1>7, <1>8

(* A step of one inside: the others inside have met it.                    *)
LEMMA OneInside ==
    ASSUME Directory, NEW u \in Users, NEW next, Inside(u),
           pc' = [pc EXCEPT ![u] = next], met' = met
    PROVE  /\ pc'[u] = next /\ \A v \in Users : v # u => pc'[v] = pc[v]
           /\ \A v \in Users \ {u} : Inside(v) => met[v]
           /\ (~met[u] => HasClone(u))
           /\ (~met'[u] => HasClone(u)') => Alone'
<1> USE DEF Directory
<1>1. pc'[u] = next /\ \A v \in Users : v # u => pc'[v] = pc[v]  BY DEF GitTypes
<1>2. \A v \in Users \ {u} : Inside(v) => met[v]  BY DEF Alone
<1>3. ~met[u] => HasClone(u) /\ \A w \in Users \ {u} : ~Inside(w)  BY DEF Alone
<1>4. \A v \in Users : v # u => (Inside(v)' <=> Inside(v))  BY <1>1 DEF Inside
<1> QED  BY <1>1, <1>2, <1>3, <1>4 DEF Alone

LEMMA CloneSafe ==
    ASSUME Directory, NEW u \in Users, BeginClone(u) \/ EndClone(u)
    PROVE  Directory'
<1> USE DEF Directory
<1>1. PICK next \in {"cloning", "file", "leave", "dead"} : pc' = [pc EXCEPT ![u] = next]
  BY DEF BeginClone, EndClone, Goto, GiveUp
<1>2. /\ pc[u] \in {"clone", "cloning"} /\ Inside(u) /\ met' = met
      /\ UNCHANGED <<repo, kind, fetched>>
  BY DEF BeginClone, EndClone, Inside
<1>3. /\ pc'[u] = next /\ \A v \in Users : v # u => pc'[v] = pc[v]
      /\ \A v \in Users \ {u} : Inside(v) => met[v]
      /\ ~met[u] => HasClone(u)
      /\ (~met'[u] => HasClone(u)') => Alone'
  BY <1>1, <1>2, OneInside
<1>4. GitTypes'
  <2>1. Clone(u) \in Clones /\ [Clone(u) EXCEPT !.ready = TRUE] \in Clones
    BY DEF Clone, Clones, GitTypes
  <2>2. dir' \in Clones \cup {None}  BY <2>1 DEF BeginClone, EndClone, GitTypes
  <2>3. failed' \in [Users -> BOOLEAN]  BY DEF BeginClone, EndClone, GitTypes
  <2>4. pc' \in [Users -> {"start", "clone", "cloning", "file", "leave", "store",
                          "commit", "push", "done", "dead"}]
    BY <1>1 DEF GitTypes
  <2> QED  BY <1>2, <2>2, <2>3, <2>4 DEF GitTypes
<1>5. ASSUME ~met[u]
      PROVE  /\ HasClone(u)'
             /\ u \in Requests /\ next \in {"leave", "dead"} => failed'[u]
  <2>1. HasClone(u)  BY <1>3, <1>5
  <2>2. CASE BeginClone(u)
    <3>1. dir = None /\ dir' = Clone(u) /\ pc'[u] = "cloning"
      <4>1. pc[u] = "clone"  BY <2>2 DEF BeginClone
      <4>2. dir = None  BY <2>1, <4>1 DEF HasClone
      <4>3. dir' = Clone(u) /\ pc' = [pc EXCEPT ![u] = "cloning"]  BY <2>2, <4>2 DEF BeginClone, Goto
      <4> QED  BY <4>2, <4>3 DEF GitTypes
    <3>2. Clone(u) # None /\ Clone(u).by = u
      <4>1. Clone(u) \in Clones  BY DEF Clone, Clones, GitTypes
      <4> QED  BY <4>1, RouteNames DEF Clone
    <3> QED  BY <1>3, <3>1, <3>2 DEF HasClone
  <2>3. CASE EndClone(u)
    <3>1. CASE dir' = [Clone(u) EXCEPT !.ready = TRUE] /\ Goto(u, "file")
      <4>1. [Clone(u) EXCEPT !.ready = TRUE] \in Clones  BY DEF Clone, Clones, GitTypes
      <4>2. dir' # None /\ dir'.by = u /\ dir'.ready  BY <3>1, <4>1, RouteNames DEF Clone
      <4>3. pc'[u] = "file"  BY <3>1 DEF Goto, GitTypes
      <4> QED  BY <1>3, <4>2, <4>3 DEF HasClone
    <3>2. CASE failed' = [failed EXCEPT ![u] = TRUE] /\ GiveUp(u)
      <4>1. failed'[u] /\ pc'[u] \in {"leave", "dead"}  BY <3>2 DEF GiveUp, Goto, GitTypes
      <4> QED  BY <4>1 DEF HasClone
    <3> QED  BY <2>3, <3>1, <3>2 DEF EndClone
  <2> QED  BY <2>2, <2>3
<1>6. Alone'  BY <1>2, <1>3, <1>5
<1>7. \A v \in Users : failed[v] => failed'[v]  BY DEF BeginClone, EndClone, GitTypes
<1>8. Served'
  <2> SUFFICES ASSUME NEW r \in Requests, pc'[r] \in {"leave", "store", "done"},
                      kind[r][2] = "right", ~met[r], ~failed'[r]
               PROVE  fetched[r]
    BY <1>2 DEF Served
  <2>1. CASE r = u  BY <1>3, <1>5, <2>1
  <2>2. CASE r # u  BY <1>3, <1>7, <2>2, RouteNames DEF Served
  <2> QED  BY <2>1, <2>2
<1>9. Synced'
  <2>1. CASE u = Sync  BY <1>3, <2>1 DEF Synced
  <2>2. CASE u # Sync
    <3>1. pc'[Sync] = pc[Sync] /\ (Inside(Sync) => met[Sync])  BY <1>3, <2>2, RouteNames
    <3> QED  BY <1>2, <3>1 DEF Synced, Inside
  <2> QED  BY <2>1, <2>2
<1> QED  BY <1>4, <1>6, <1>8, <1>9

LEMMA RequestSafe ==
    ASSUME Directory, NEW r \in Requests, Read(r) \/ Leave(r)
    PROVE  Directory'
<1> USE DEF Directory
<1>0. r \in Users /\ r # Sync  BY RouteNames
<1>1. PICK next \in {"leave", "store"} : pc' = [pc EXCEPT ![r] = next]
  BY DEF Read, Leave, Goto
<1>2. /\ pc[r] \in {"file", "leave"} /\ Inside(r) /\ met' = met
      /\ UNCHANGED <<repo, kind, failed>>
  BY DEF Read, Leave, Inside, git
<1>3. /\ pc'[r] = next /\ \A v \in Users : v # r => pc'[v] = pc[v]
      /\ \A v \in Users \ {r} : Inside(v) => met[v]
      /\ ~met[r] => HasClone(r)
      /\ (~met'[r] => HasClone(r)') => Alone'
  BY <1>0, <1>1, <1>2, OneInside
<1>4. GitTypes'
  <2>1. dir' \in Clones \cup {None} /\ fetched' \in [Requests -> BOOLEAN]  BY DEF Read, Leave, GitTypes, git
  <2>2. pc' \in [Users -> {"start", "clone", "cloning", "file", "leave", "store",
                          "commit", "push", "done", "dead"}]
    BY <1>1 DEF GitTypes
  <2> QED  BY <1>2, <2>1, <2>2 DEF GitTypes
<1>5. Alone'  BY <1>3 DEF HasClone
<1>6. Served'
  <2> SUFFICES ASSUME NEW q \in Requests, pc'[q] \in {"leave", "store", "done"},
                      kind[q][2] = "right", ~met[q], ~failed[q]
               PROVE  fetched'[q]
    BY <1>2 DEF Served
  <2>1. CASE q = r /\ Read(r)
    <3>1. pc[r] = "file" /\ HasClone(r)  BY <1>3, <2>1 DEF Read
    <3>2. dir # None /\ dir.ready  BY <3>1 DEF HasClone
    <3> QED  BY <2>1, <3>2 DEF Read, GitTypes
  <2>2. CASE q = r /\ Leave(r)  BY <2>2 DEF Leave, Served
  <2>3. CASE q # r
    <3>1. pc'[q] = pc[q] /\ fetched'[q] = fetched[q]
      BY <1>3, <2>3, RouteNames DEF Read, Leave, GitTypes
    <3> QED  BY <3>1 DEF Served
  <2> QED  BY <2>1, <2>2, <2>3
<1>7. Synced'
  <2>1. pc'[Sync] = pc[Sync] /\ (Inside(Sync) => met[Sync])  BY <1>0, <1>3, RouteNames
  <2> QED  BY <1>2, <2>1 DEF Synced, Inside
<1> QED  BY <1>4, <1>5, <1>6, <1>7

LEMMA SyncSafe ==
    ASSUME Directory, WriteFile \/ Commit \/ Push
    PROVE  Directory'
<1> USE DEF Directory
<1>0. Sync \in Users /\ Sync \notin Requests  BY RouteNames
<1>1. PICK next \in {"commit", "push", "done", "dead"} : pc' = [pc EXCEPT ![Sync] = next]
  BY DEF WriteFile, Commit, Push, Goto
<1>2. /\ pc[Sync] \in {"file", "commit", "push"} /\ Inside(Sync) /\ met' = met
      /\ UNCHANGED <<kind, fetched, failed>>
  BY DEF WriteFile, Commit, Push, Inside
<1>3. /\ pc'[Sync] = next /\ \A v \in Users : v # Sync => pc'[v] = pc[v]
      /\ ~met[Sync] => HasClone(Sync)
      /\ (~met'[Sync] => HasClone(Sync)') => Alone'
  BY <1>0, <1>1, <1>2, OneInside
<1>4. GitTypes'
  <2>1. dir # None => /\ dir \in Clones
                      /\ [dir EXCEPT !.file = "new"] \in Clones
                      /\ [dir EXCEPT !.commit = Committed(dir)] \in Clones
    BY DEF GitTypes, Clones, Committed
  <2>2. dir' \in Clones \cup {None}  BY <2>1 DEF WriteFile, Commit, Push, GitTypes
  <2>3. Push => repo' \in {"old", "new"}
    BY <2>1 DEF Push, GitTypes, Clones
  <2>4. repo' \in {"old", "new"}  BY <2>3 DEF WriteFile, Commit, GitTypes
  <2>5. pc' \in [Users -> {"start", "clone", "cloning", "file", "leave", "store",
                          "commit", "push", "done", "dead"}]
    BY <1>1 DEF GitTypes
  <2> QED  BY <1>2, <2>2, <2>4, <2>5 DEF GitTypes
<1>5. Served'  BY <1>0, <1>2, <1>3, RouteNames DEF Served
<1>6. ASSUME ~met[Sync]
      PROVE  /\ HasClone(Sync)'
             /\ next \in {"commit", "push"} => dir'.file = "new"
             /\ next = "push" => dir'.commit = "new"
             /\ next = "done" => repo' = "new"
  <2>1. dir \in Clones /\ dir.by = Sync /\ dir.ready
    BY <1>2, <1>3, <1>6 DEF HasClone, GitTypes
  <2>2. CASE WriteFile
    <3>1. dir' = [dir EXCEPT !.file = "new"] /\ pc'[Sync] = "commit"
      BY <1>0, <2>1, <2>2, RouteNames DEF WriteFile, Goto, GitTypes
    <3>2. dir' \in Clones /\ dir'.by = Sync /\ dir'.ready /\ dir'.file = "new"
      BY <2>1, <3>1 DEF Clones
    <3> QED  BY <1>3, <3>1, <3>2, RouteNames DEF HasClone
  <2>3. CASE Commit
    <3>1. dir' = [dir EXCEPT !.commit = dir.file] /\ pc'[Sync] = "push" /\ dir.file = "new"
      BY <1>0, <1>6, <2>1, <2>3, RouteNames DEF Commit, Committed, Goto, GitTypes, Synced
    <3>2. dir' \in Clones /\ dir'.by = Sync /\ dir'.ready /\ dir'.file = "new" /\ dir'.commit = "new"
      BY <2>1, <3>1 DEF Clones
    <3> QED  BY <1>3, <3>1, <3>2, RouteNames DEF HasClone
  <2>4. CASE Push
    <3>1. dir.commit = "new" /\ dir' = dir  BY <1>6, <2>4 DEF Push, Synced
    <3>2. (repo' = dir.commit /\ pc'[Sync] = "done") \/ pc'[Sync] = "dead"
      BY <1>0, <2>4 DEF Push, Goto, GitTypes
    <3> QED  BY <1>3, <3>1, <3>2 DEF HasClone
  <2> QED  BY <2>2, <2>3, <2>4
<1>7. Alone'  BY <1>2, <1>3, <1>6
<1>8. Synced'  BY <1>2, <1>3, <1>6 DEF Synced
<1> QED  BY <1>4, <1>5, <1>7, <1>8

-----------------------------------------------------------------------------
(* The page and the tests.                                                 *)

(* Orders are lists of routes.                                             *)
LEMMA OrdersAreLists ==
    /\ Orders \subseteq [1 .. Cardinality(Hosts) -> Hosts]
    /\ [1 .. Cardinality(Hosts) -> Hosts] \subseteq Seq(Hosts)
<1>1. Cardinality(Hosts) \in Nat  BY RouteNames
<1> QED  BY <1>1 DEF Orders

(* A test begins on a list that is stored: what follows for the tests.     *)
LEMMA TestingSafe ==
    ASSUME PageTypes, Tested, Apart, FastestFirst,
           NEW t \in Testers, NEW r \in Requests, tpc[t] = "idle", Testing(t, r),
           UNCHANGED torn
    PROVE  /\ tpc' \in [Testers -> {"idle", "test", "sort"}] /\ on' \in [Testers -> Requests \cup {None}]
           /\ left' \in [Testers -> SUBSET Hosts] /\ mixed' \in [Requests -> BOOLEAN]
           /\ Apart'
           /\ tpc'[t] = "test" /\ on'[t] = r
           /\ \A v \in Testers : v # t => tpc'[v] = tpc[v] /\ on'[v] = on[v] /\ left'[v] = left[v]
           /\ Busy(t, r)' /\ \A v \in Testers, q \in Requests : Busy(v, q) => Busy(v, q)'
           /\ \A q \in Requests : mixed[q] => mixed'[q]
<1>1. /\ tpc' = [tpc EXCEPT ![t] = "test"] /\ on' = [on EXCEPT ![t] = r]
      /\ left' = [left EXCEPT ![t] = Hosts]
      /\ mixed' = [mixed EXCEPT ![r] = @ \/ \E v \in Testers : Busy(v, r)]
  BY DEF Testing
<1>2. /\ tpc' \in [Testers -> {"idle", "test", "sort"}] /\ on' \in [Testers -> Requests \cup {None}]
      /\ left' \in [Testers -> SUBSET Hosts] /\ mixed' \in [Requests -> BOOLEAN]
  BY <1>1 DEF PageTypes
<1>3. /\ tpc'[t] = "test" /\ on'[t] = r
      /\ \A v \in Testers : v # t => tpc'[v] = tpc[v] /\ on'[v] = on[v] /\ left'[v] = left[v]
  BY <1>1 DEF PageTypes
<1>4. mixed'[r] = (mixed[r] \/ \E v \in Testers : Busy(v, r)) /\ \A q \in Requests : q # r => mixed'[q] = mixed[q]
  BY <1>1 DEF PageTypes
<1>5. Busy(t, r)' /\ \A v \in Testers, q \in Requests : v # t => (Busy(v, q)' <=> Busy(v, q))
  BY <1>3 DEF Busy
<1>6. \A q \in Requests : ~Busy(t, q) /\ (Busy(t, q)' => q = r)  BY <1>3 DEF Busy
<1>7. \A q \in Requests : mixed[q] => mixed'[q]  BY <1>4
<1>8. Apart'
  <2> SUFFICES ASSUME NEW q \in Requests, ~mixed'[q]
               PROVE  /\ ~torn[q]
                      /\ \A v, w \in Testers : Busy(v, q)' /\ Busy(w, q)' => v = w
    BY DEF Apart
  <2>1. ~mixed[q] /\ ~torn[q] /\ \A v, w \in Testers : Busy(v, q) /\ Busy(w, q) => v = w
    BY <1>7 DEF Apart
  <2>2. q = r => \A v \in Testers : ~Busy(v, r)  BY <1>4
  <2> QED  BY <1>5, <1>6, <2>1, <2>2
<1> QED  BY <1>2, <1>3, <1>5, <1>6, <1>7, <1>8

(* A list is stored; a login tests it.                                     *)
LEMMA StoreSafe ==
    ASSUME RouteInv, NEW r \in Requests, Store(r)
    PROVE  RouteInv'
<1> USE DEF RouteInv, Directory, Page
<1>0. r \in Users /\ r # Sync  BY RouteNames
<1>1. /\ pc[r] = "store" /\ pc' = [pc EXCEPT ![r] = "done"]
      /\ UNCHANGED <<repo, dir, kind, fetched, met, failed>>
  BY DEF Store, Goto, git
<1>2. pc'[r] = "done" /\ \A u \in Users : u # r => pc'[u] = pc[u]  BY <1>0, <1>1 DEF GitTypes
<1>3. Directory'
  <2>1. GitTypes'  BY <1>1 DEF GitTypes
  <2>2. \A u \in Users : Inside(u)' => Inside(u)  BY <1>2 DEF Inside
  <2>4. Alone'  BY <1>1, <1>2, <2>2 DEF Alone, HasClone, Inside
  <2>5. Served'  BY <1>1, <1>2, RouteNames DEF Served
  <2>6. Synced'  BY <1>0, <1>1, <1>2, RouteNames DEF Synced
  <2> QED  BY <2>1, <2>4, <2>5, <2>6
<1>4. quality[r] = [h \in Hosts |-> 0] /\ tpc[r] = "idle"  BY <1>1 DEF Tested
<1>5. \A q \in Requests : pc[q] = "done" => pc'[q] = "done"  BY <1>2, RouteNames
<1>6. \A t \in Testers : tpc[t] # "idle" => on[t] # r  BY <1>1 DEF Tested
<1>7. CASE ~fetched[r]
  <2>1. UNCHANGED <<page, tests>>  BY <1>7 DEF Store
  <2>2. /\ UNCHANGED <<Routes, latest, overtaken, list, quality, tpc, on, left, mixed, torn>>
    BY <2>1 DEF page, tests
  <2>3. PageTypes'  BY <2>2 DEF PageTypes
  <2>4. Shows'  BY <2>2 DEF Shows, LastLogin
  <2>5. Tested'  BY <1>2, <1>5, <2>2, RouteNames DEF Tested, PageTypes
  <2>6. Apart'  BY <2>2 DEF Apart, Busy
  <2>7. FastestFirst'  BY <2>2 DEF FastestFirst, Busy, InOrder
  <2> QED  BY <1>3, <2>3, <2>4, <2>5, <2>6, <2>7
<1>8. CASE fetched[r]
  <2>1. PICK s \in Orders : list' = [list EXCEPT ![r] = s]  BY <1>8 DEF Store
  <2>2. /\ Routes' = r /\ latest' = r /\ overtaken' = (tpc[Timer] # "idle")
        /\ Testing(r, r) \/ UNCHANGED <<tpc, on, left, mixed>>
        /\ UNCHANGED <<quality, torn>>
    BY <1>8 DEF Store
  <2>3. list' \in [Requests -> Seq(Hosts)] /\ \A q \in Requests : q # r => list'[q] = list[q]
    BY <2>1, OrdersAreLists DEF PageTypes
  <2>4. \E h \in Hosts : quality'[r][h] = 0  BY <1>4, <2>2, RouteNames
  <2>5. /\ tpc' \in [Testers -> {"idle", "test", "sort"}] /\ on' \in [Testers -> Requests \cup {None}]
        /\ left' \in [Testers -> SUBSET Hosts] /\ mixed' \in [Requests -> BOOLEAN]
        /\ Apart'
        /\ \A v \in Testers : v # r => tpc'[v] = tpc[v] /\ on'[v] = on[v] /\ left'[v] = left[v]
        /\ \A v \in Testers, q \in Requests : Busy(v, q) => Busy(v, q)'
        /\ \A q \in Requests : mixed[q] => mixed'[q]
        /\ \/ tpc'[r] = "test" /\ on'[r] = r
           \/ tpc'[r] = "idle" /\ left'[r] = left[r]
    <3>1. CASE Testing(r, r)
      <4>1. r \in Testers  BY RouteNames
      <4> QED  BY <1>4, <2>2, <3>1, <4>1, TestingSafe
    <3>2. CASE UNCHANGED <<tpc, on, left, mixed>>
      BY <1>4, <2>2, <3>2 DEF PageTypes, Apart, Busy
    <3> QED  BY <2>2, <3>1, <3>2
  <2>6. PageTypes'
    BY <2>2, <2>3, <2>5 DEF PageTypes
  <2>7. Shows'
    <3>1. tpc'[Timer] = tpc[Timer]  BY <2>5, RouteNames
    <3> QED  BY <2>2, <3>1 DEF Shows, LastLogin
  <2>8. Tested'
    <3>1. ASSUME NEW q \in Requests, pc'[q] # "done"
          PROVE  quality'[q] = [h \in Hosts |-> 0] /\ tpc'[q] = "idle"
      <4>1. q # r /\ q \in Testers /\ q \in Users  BY <1>2, <3>1, RouteNames
      <4>2. pc[q] # "done"  BY <1>2, <3>1, <4>1
      <4> QED  BY <2>2, <2>5, <4>1, <4>2 DEF Tested
    <3>2. ASSUME NEW t \in Testers
          PROVE  /\ tpc'[t] # "test" => left'[t] = {}
                 /\ tpc'[t] # "idle" => on'[t] \in Requests /\ pc'[on'[t]] = "done"
      <4>1. CASE t # r  BY <1>5, <2>5, <4>1 DEF Tested
      <4>2. CASE t = r  BY <1>2, <1>4, <2>5, <4>2 DEF Tested
      <4> QED  BY <4>1, <4>2
    <3> QED  BY <1>2, <2>2, <3>1, <3>2 DEF Tested
  <2>9. FastestFirst'
    <3> SUFFICES ASSUME NEW q \in Requests, ~mixed'[q], \A h \in Hosts : quality[q][h] # 0,
                        \A t \in Testers : ~Busy(t, q)'
                 PROVE  (list[q] \in Orders /\ InOrder(list[q], q))'
      BY <2>2 DEF FastestFirst
    <3>1. q # r  BY <2>2, <2>4
    <3>2. list[q] \in Orders /\ InOrder(list[q], q)  BY <2>5 DEF FastestFirst
    <3> QED  BY <2>2, <2>3, <3>1, <3>2 DEF InOrder
  <2> QED  BY <1>3, <2>5, <2>6, <2>7, <2>8, <2>9
<1> QED  BY <1>7, <1>8

LEMMA TickSafe ==
    ASSUME RouteInv, Tick
    PROVE  RouteInv'
<1> USE DEF RouteInv, Directory, Page
<1>1. /\ tpc[Timer] = "idle" /\ Routes \in Requests /\ Testing(Timer, Routes)
      /\ UNCHANGED <<git, users, page, list, quality, torn>>
  BY DEF Tick, PageTypes
<1>2. UNCHANGED <<repo, dir, pc, kind, fetched, met, failed, Routes, latest, overtaken, list, quality, torn>>
  BY <1>1 DEF git, users, page
<1>3. Directory'
  BY <1>2 DEF GitTypes, Alone, HasClone, Inside, Served, Synced
<1>4. /\ tpc' \in [Testers -> {"idle", "test", "sort"}] /\ on' \in [Testers -> Requests \cup {None}]
      /\ left' \in [Testers -> SUBSET Hosts] /\ mixed' \in [Requests -> BOOLEAN]
      /\ Apart'
      /\ tpc'[Timer] = "test" /\ on'[Timer] = Routes
      /\ \A v \in Testers : v # Timer => tpc'[v] = tpc[v] /\ on'[v] = on[v] /\ left'[v] = left[v]
      /\ \A v \in Testers, q \in Requests : Busy(v, q) => Busy(v, q)'
      /\ Busy(Timer, Routes)'
      /\ \A q \in Requests : mixed[q] => mixed'[q]
  <2>1. Timer \in Testers  BY RouteNames
  <2> QED  BY <1>1, <1>2, <2>1, TestingSafe
<1>5. PageTypes'  BY <1>2, <1>4 DEF PageTypes
<1>6. Shows'  BY <1>2, <1>4 DEF Shows, LastLogin
<1>7. Tested'
  <2>1. pc[Routes] = "done"  BY <1>1, RouteNames DEF Tested
  <2>2. \A q \in Requests : q # Timer /\ q \in Testers  BY RouteNames
  <2> QED  BY <1>1, <1>2, <1>4, <2>1, <2>2 DEF Tested
<1>8. FastestFirst'  BY <1>2, <1>4 DEF FastestFirst, InOrder
<1> QED  BY <1>3, <1>4, <1>5, <1>6, <1>7, <1>8

LEMMA TestOneSafe ==
    ASSUME RouteInv, NEW t \in Testers, NEW h \in Hosts, NEW n \in {1, 2}, TestOne(t, h, n)
    PROVE  RouteInv'
<1> USE DEF RouteInv, Directory, Page
<1>1. /\ left' = [left EXCEPT ![t] = @ \ {h}] /\ quality' = [quality EXCEPT ![on[t]][h] = n]
      /\ UNCHANGED <<repo, dir, pc, kind, fetched, met, failed, Routes, latest, overtaken,
                     list, tpc, on, mixed, torn>>
  BY DEF TestOne, git, users, page
<1>2. Directory'
  BY <1>1 DEF GitTypes, Alone, HasClone, Inside, Served, Synced
<1>3. tpc[t] = "test" /\ on[t] \in Requests /\ pc[on[t]] = "done"
  BY DEF TestOne, Tested, PageTypes
<1>4. /\ quality' \in [Requests -> [Hosts -> {0, 1, 2}]]
      /\ \A q \in Requests : q # on[t] => quality'[q] = quality[q]
  BY <1>1, <1>3 DEF PageTypes
<1>5. left' \in [Testers -> SUBSET Hosts] /\ \A v \in Testers : v # t => left'[v] = left[v]
  BY <1>1 DEF PageTypes
<1>6. PageTypes'  BY <1>1, <1>4, <1>5 DEF PageTypes
<1>7. Shows'  BY <1>1 DEF Shows, LastLogin
<1>8. Tested'  BY <1>1, <1>3, <1>4, <1>5 DEF Tested
<1>9. Apart'  BY <1>1 DEF Apart, Busy
<1>10. FastestFirst'
  <2> SUFFICES ASSUME NEW q \in Requests, ~mixed[q], \A g \in Hosts : quality'[q][g] # 0,
                      \A v \in Testers : ~Busy(v, q)'
               PROVE  (list[q] \in Orders /\ InOrder(list[q], q))'
    BY <1>1 DEF FastestFirst
  <2>1. q # on[t]  BY <1>1, <1>3 DEF Busy
  <2>2. \A v \in Testers : ~Busy(v, q)  BY <1>1 DEF Busy
  <2>3. quality'[q] = quality[q]  BY <1>4, <2>1
  <2>4. list' = list /\ mixed' = mixed  BY <1>1
  <2>5. list[q] \in Orders /\ InOrder(list[q], q)  BY <2>2, <2>3 DEF FastestFirst
  <2> QED  BY <2>3, <2>4, <2>5 DEF InOrder
<1> QED  BY <1>2, <1>6, <1>7, <1>8, <1>9, <1>10

LEMMA BeginSortSafe ==
    ASSUME RouteInv, NEW t \in Testers, BeginSort(t)
    PROVE  RouteInv'
<1> USE DEF RouteInv, Directory, Page
<1>1. /\ tpc[t] = "test" /\ left[t] = {} /\ tpc' = [tpc EXCEPT ![t] = "sort"]
      /\ torn' = [torn EXCEPT ![on[t]] = @ \/ \E v \in Testers : tpc[v] = "sort" /\ on[v] = on[t]]
      /\ UNCHANGED <<repo, dir, pc, kind, fetched, met, failed, Routes, latest, overtaken,
                     list, quality, on, left, mixed>>
  BY DEF BeginSort, Waited, git, users, page
<1>2. Directory'
  BY <1>1 DEF GitTypes, Alone, HasClone, Inside, Served, Synced
<1>3. on[t] \in Requests  BY <1>1 DEF Tested
<1>4. tpc' \in [Testers -> {"idle", "test", "sort"}] /\ tpc'[t] = "sort"
      /\ \A v \in Testers : v # t => tpc'[v] = tpc[v]
  BY <1>1 DEF PageTypes
<1>5. /\ torn' \in [Requests -> BOOLEAN] /\ \A q \in Requests : q # on[t] => torn'[q] = torn[q]
      /\ torn'[on[t]] => torn[on[t]] \/ \E v \in Testers : tpc[v] = "sort" /\ on[v] = on[t]
  BY <1>1, <1>3 DEF PageTypes
<1>6. PageTypes'  BY <1>1, <1>4, <1>5 DEF PageTypes
<1>7. Shows'
  <2>1. Timer \in Testers  BY RouteNames
  <2>2. tpc'[Timer] # "idle" => tpc[Timer] # "idle"  BY <1>1, <1>4, <2>1
  <2> QED  BY <1>1, <2>2 DEF Shows, LastLogin
<1>8. Tested'
  <2>1. \A q \in Requests : q \in Testers /\ (tpc[q] = "idle" => tpc'[q] = "idle")  BY <1>1, <1>4, RouteNames
  <2>2. \A v \in Testers : tpc'[v] # "test" => left[v] = {}  BY <1>1, <1>4 DEF Tested
  <2>3. \A v \in Testers : tpc'[v] # "idle" => tpc[v] # "idle"  BY <1>1, <1>4
  <2> QED  BY <1>1, <2>1, <2>2, <2>3 DEF Tested
<1>9. \A v \in Testers, q \in Requests : Busy(v, q)' <=> Busy(v, q)  BY <1>1, <1>4 DEF Busy
<1>10. Apart'
  <2> SUFFICES ASSUME NEW q \in Requests, ~mixed[q]
               PROVE  ~torn'[q] /\ \A v, w \in Testers : Busy(v, q)' /\ Busy(w, q)' => v = w
    BY <1>1 DEF Apart
  <2>1. ~torn[q] /\ \A v, w \in Testers : Busy(v, q) /\ Busy(w, q) => v = w  BY DEF Apart
  <2>2. Busy(t, on[t]) /\ \A v \in Testers : tpc[v] = "sort" /\ on[v] = on[t] => v # t /\ Busy(v, on[t])
    BY <1>1 DEF Busy
  <2> QED  BY <1>5, <1>9, <2>1, <2>2
<1>11. FastestFirst'  BY <1>1, <1>9 DEF FastestFirst, InOrder
<1> QED  BY <1>2, <1>6, <1>7, <1>8, <1>10, <1>11

LEMMA EndSortSafe ==
    ASSUME RouteInv, NEW t \in Testers, EndSort(t)
    PROVE  RouteInv'
<1> USE DEF RouteInv, Directory, Page
<1>1. /\ tpc[t] = "sort" /\ Routes' = (IF t = Timer THEN on[t] ELSE Routes)
      /\ tpc' = [tpc EXCEPT ![t] = "idle"]
      /\ UNCHANGED <<repo, dir, pc, kind, fetched, met, failed, latest, overtaken,
                     quality, on, left, mixed, torn>>
  BY DEF EndSort, StoredTimer, git, users
<1>2. Directory'
  BY <1>1 DEF GitTypes, Alone, HasClone, Inside, Served, Synced
<1>3. on[t] \in Requests /\ pc[on[t]] = "done" /\ left[t] = {}  BY <1>1 DEF Tested
<1>4. PICK s : /\ s \in IF torn[on[t]] THEN [1 .. Cardinality(Hosts) -> Hosts]
                        ELSE {o \in Orders : InOrder(o, on[t]) \/ \E v \in Testers \ {t} : Busy(v, on[t])}
               /\ list' = [list EXCEPT ![on[t]] = s]
  BY DEF EndSort
<1>5. s \in Seq(Hosts)  BY <1>4, OrdersAreLists
<1>6. /\ list' \in [Requests -> Seq(Hosts)] /\ list'[on[t]] = s
      /\ \A q \in Requests : q # on[t] => list'[q] = list[q]
  BY <1>3, <1>4, <1>5 DEF PageTypes
<1>7. tpc' \in [Testers -> {"idle", "test", "sort"}] /\ tpc'[t] = "idle"
      /\ \A v \in Testers : v # t => tpc'[v] = tpc[v]
  BY <1>1 DEF PageTypes
<1>8. PageTypes'  BY <1>1, <1>3, <1>6, <1>7 DEF PageTypes
<1>9. Shows'
  <2>1. Timer \in Testers  BY RouteNames
  <2>2. CASE t = Timer  BY <1>1, <1>7, <2>2 DEF Shows, LastLogin
  <2>3. CASE t # Timer  BY <1>1, <1>7, <2>1, <2>3 DEF Shows, LastLogin
  <2> QED  BY <2>2, <2>3
<1>10. Tested'
  <2>1. \A q \in Requests : q \in Testers /\ (tpc[q] = "idle" => tpc'[q] = "idle")  BY <1>1, <1>7, RouteNames
  <2>2. \A v \in Testers : tpc'[v] # "test" => left[v] = {}  BY <1>3, <1>7 DEF Tested
  <2>3. \A v \in Testers : tpc'[v] # "idle" => tpc[v] # "idle"  BY <1>1, <1>7
  <2>4. Routes' # None => pc[Routes'] = "done"  BY <1>1, <1>3 DEF Tested
  <2> QED  BY <1>1, <2>1, <2>2, <2>3, <2>4 DEF Tested
<1>11. \A v \in Testers, q \in Requests : Busy(v, q)' <=> (Busy(v, q) /\ v # t)  BY <1>1, <1>7 DEF Busy
<1>12. Apart'  BY <1>1, <1>11 DEF Apart
<1>13. FastestFirst'
  <2> SUFFICES ASSUME NEW q \in Requests, ~mixed[q], \A g \in Hosts : quality[q][g] # 0,
                      \A v \in Testers : ~Busy(v, q)'
               PROVE  (list[q] \in Orders /\ InOrder(list[q], q))'
    BY <1>1 DEF FastestFirst
  <2>1. CASE q = on[t]
    <3>1. ~torn[q] /\ \A v \in Testers \ {t} : ~Busy(v, q)  BY <1>11 DEF Apart
    <3>2. s \in Orders /\ InOrder(s, q)  BY <1>4, <2>1, <3>1
    <3> QED  BY <1>1, <1>6, <2>1, <3>2 DEF InOrder
  <2>2. CASE q # on[t]
    <3>1. \A v \in Testers : ~Busy(v, q)  BY <1>11, <2>2 DEF Busy
    <3>2. list'[q] = list[q]  BY <1>6, <2>2
    <3> QED  BY <1>1, <3>1, <3>2 DEF FastestFirst, InOrder
  <2> QED  BY <2>1, <2>2
<1> QED  BY <1>2, <1>8, <1>9, <1>10, <1>12, <1>13

(* The directory's steps leave the page alone, and no list is tested       *)
(* before its request is done.                                             *)
LEMMA PageKept ==
    ASSUME RouteInv, NEW u \in Users, pc[u] \notin {"store", "done"}, NEW next,
           pc' = [pc EXCEPT ![u] = next], next = "done" => u = Sync,
           UNCHANGED <<page, tests>>
    PROVE  Page'
<1> USE DEF RouteInv, Directory, Page
<1>1. UNCHANGED <<Routes, latest, overtaken, list, quality, tpc, on, left, mixed, torn>>
  BY DEF page, tests
<1>2. \A q \in Requests : pc'[q] = "done" <=> pc[q] = "done"  BY RouteNames DEF GitTypes
<1>3. PageTypes'  BY <1>1 DEF PageTypes
<1>4. Shows'  BY <1>1 DEF Shows, LastLogin
<1>5. Tested'  BY <1>1, <1>2 DEF Tested, PageTypes
<1>6. Apart'  BY <1>1 DEF Apart, Busy
<1>7. FastestFirst'  BY <1>1 DEF FastestFirst, Busy, InOrder
<1> QED  BY <1>3, <1>4, <1>5, <1>6, <1>7

LEMMA RouteInit == Init => RouteInv
<1> SUFFICES ASSUME Init  PROVE RouteInv  OBVIOUS
<1> USE DEF Init
<1>1. GitTypes
  <2>1. Sync \in Users  BY RouteNames
  <2>2. dir \in Clones \cup {None}  BY <2>1 DEF Clones, Clone
  <2> QED  BY <2>2 DEF GitTypes
<1>2. Alone /\ Served /\ Synced
  <2>1. Sync \in Users /\ Requests \subseteq Users  BY RouteNames
  <2> QED  BY <2>1 DEF Alone, Inside, Served, Synced
<1>3. PageTypes
  <2>1. <<>> \in Seq(Hosts) /\ 0 \in {0, 1, 2}  OBVIOUS
  <2>2. list \in [Requests -> Seq(Hosts)]  BY <2>1
  <2>3. quality \in [Requests -> [Hosts -> {0, 1, 2}]]  BY <2>1
  <2> QED  BY <2>2, <2>3 DEF PageTypes
<1>4. Shows  BY RouteNames DEF Shows, LastLogin
<1>5. Tested /\ Apart  BY RouteNames DEF Tested, Apart, Busy
<1>6. FastestFirst  BY RouteNames DEF FastestFirst
<1> QED  BY <1>1, <1>2, <1>3, <1>4, <1>5, <1>6 DEF RouteInv, Directory, Page

LEMMA RouteStep == RouteInv /\ [Next]_vars => RouteInv'
<1> SUFFICES ASSUME RouteInv, [Next]_vars  PROVE RouteInv'  OBVIOUS
<1>0. Directory /\ Page /\ Requests \subseteq Users /\ Sync \in Users /\ Sync \notin Requests
  BY RouteNames DEF RouteInv
<1>1. ASSUME NEW u \in Users, RemoveDir(u) \/ BeginClone(u) \/ EndClone(u)  PROVE RouteInv'
  <2>1. Directory'  BY <1>0, <1>1, RemoveDirSafe, CloneSafe
  <2>2. /\ pc[u] \in {"start", "clone", "cloning"} /\ UNCHANGED <<page, tests>>
        /\ \E next \in {"clone", "cloning", "file", "leave", "dead"} : pc' = [pc EXCEPT ![u] = next]
    BY <1>1 DEF RemoveDir, BeginClone, EndClone, Goto, GiveUp
  <2>3. Page'  BY <2>2, PageKept
  <2> QED  BY <2>1, <2>3 DEF RouteInv
<1>2. ASSUME NEW r \in Requests, Read(r) \/ Leave(r)  PROVE RouteInv'
  <2>1. Directory'  BY <1>0, <1>2, RequestSafe
  <2>2. /\ pc[r] \in {"file", "leave"} /\ UNCHANGED <<page, tests>>
        /\ \E next \in {"leave", "store"} : pc' = [pc EXCEPT ![r] = next]
    BY <1>2 DEF Read, Leave, Goto
  <2>3. Page'  BY <1>0, <2>2, PageKept
  <2> QED  BY <2>1, <2>3 DEF RouteInv
<1>3. ASSUME WriteFile \/ Commit \/ Push  PROVE RouteInv'
  <2>1. Directory'  BY <1>0, <1>3, SyncSafe
  <2>2. /\ pc[Sync] \in {"file", "commit", "push"} /\ UNCHANGED <<page, tests>>
        /\ \E next \in {"commit", "push", "done", "dead"} : pc' = [pc EXCEPT ![Sync] = next]
    BY <1>3 DEF WriteFile, Commit, Push, Goto
  <2>3. Page'  BY <1>0, <2>2, PageKept
  <2> QED  BY <2>1, <2>3 DEF RouteInv
<1>4. CASE UNCHANGED vars
  <2> USE DEF RouteInv, Directory, Page
  <2>1. UNCHANGED <<repo, dir, pc, kind, fetched, met, failed, Routes, latest, overtaken,
                    list, quality, tpc, on, left, mixed, torn>>
    BY <1>4 DEF vars, git, users, page, tests
  <2>2. Directory'  BY <2>1 DEF GitTypes, Alone, HasClone, Inside, Served, Synced
  <2>3. PageTypes' /\ Shows'  BY <2>1 DEF PageTypes, Shows, LastLogin
  <2>4. Tested' /\ Apart'  BY <2>1 DEF Tested, Apart, Busy
  <2>5. FastestFirst'  BY <2>1 DEF FastestFirst, Busy, InOrder
  <2> QED  BY <2>2, <2>3, <2>4, <2>5
<1> QED
  BY <1>1, <1>2, <1>3, <1>4, StoreSafe, TickSafe, TestOneSafe, BeginSortSafe, EndSortSafe DEF Next

(* The inductive invariant: who met nobody in the directory finds its own  *)
(* clone there, and tests of a list that never overlapped leave it sorted. *)
THEOREM RouteInvariance == Spec => []RouteInv
BY RouteInit, RouteStep, PTL DEF Spec

(* TestRoutes and the handlers of all_servers.go: the page shows the list  *)
(* of the last login, or the timer was testing when that came.             *)
THEOREM LastLoginCorrect == Spec => []LastLogin
<1>1. RouteInv => LastLogin  BY DEF RouteInv, Page, Shows
<1> QED  BY <1>1, RouteInvariance, PTL

(* TestRoutes: a list is sorted by its tests unless two of them overlapped.*)
THEOREM FastestCorrect == Spec => []FastestFirst
<1>1. RouteInv => FastestFirst  BY DEF RouteInv, Page
<1> QED  BY <1>1, RouteInvariance, PTL

(* GitGetAccount: a request that met nobody in the directory and whose     *)
(* clone succeeded has its list.                                           *)
THEOREM LoginCorrect == Spec => []LoginServed
<1>1. RouteInv => LoginServed  BY DEF RouteInv, Directory, Served, LoginServed
<1> QED  BY <1>1, RouteInvariance, PTL

(* SyncToGit: a push that is reported stored the new list, unless a        *)
(* request was in the directory meanwhile.                                 *)
THEOREM SyncCorrect == Spec => []SyncStored
<1>1. RouteInv => SyncStored  BY DEF RouteInv, Directory, Synced, SyncStored
<1> QED  BY <1>1, RouteInvariance, PTL

-----------------------------------------------------------------------------
Part(u)  == <<<<u, 1>>>>
Whole(u) == <<<<u, 1>>, <<u, 2>>>>

(* An upload's temporary file, by the step it is at; the name is that of a *)
(* stored one.                                                             *)
Stored ==
    /\ up \in [Uploads -> {"begin", "write", "rename", "stored", "failed"}]
    /\ file \in [Uploads -> Seq(Uploads \X {1, 2})]
    /\ \A u \in Uploads :
         /\ up[u] = "begin" => file[u] = <<>>
         /\ up[u] = "write" => file[u] \in {<<>>, Part(u)}
         /\ up[u] \in {"rename", "stored"} => file[u] \in {<<>>, Part(u), Whole(u)}
    /\ named # NoFile => named \in Uploads /\ up[named] = "stored"

(* A download has the first pieces of the file it opened.                  *)
Sending ==
    /\ down \in [Downloads -> {"begin", "missing", "read", "sent"}]
    /\ open \in [Downloads -> Uploads \cup {NoFile}]
    /\ body \in [Downloads -> Seq(Uploads \X {1, 2})]
    /\ \A d \in Downloads :
         /\ down[d] = "begin" => body[d] = <<>>
         /\ down[d] \in {"read", "sent"} =>
              /\ open[d] \in Uploads /\ up[open[d]] = "stored"
              /\ \/ body[d] \in {<<>>, file[open[d]]}
                 \/ body[d] = Part(open[d]) /\ file[open[d]] = Whole(open[d])
         /\ down[d] = "sent" => body[d] = file[open[d]]

(* Line i is not in the log any more, for a reason.                        *)
Gone(i) == i \in covered \cup truncated \/ \E l \in Clears : LostBy(i, l)

(* Line i, which the log had when c-log l began, is still before it: it    *)
(* was copied, is gone, or stands where the copy has yet to come.          *)
Ahead(i, l) ==
    i \in ToSet(copied[l]) \/ Gone(i) \/ \E n \in DOMAIN log : n > Len(copied[l]) /\ log[n] = i

(* What a c-log has copied of the lines it began with.                     *)
Copying(l) ==
    /\ begun[l] <= lines
    /\ step[l] = "begin" => copied[l] = <<>>
    /\ step[l] # "end" => dropped[l] = {}
    /\ step[l] = "copy" => \A i \in 1 .. begun[l] : Ahead(i, l)
    /\ step[l] = "empty" => broken[l] \/ \A i \in 1 .. begun[l] : i \in ToSet(copied[l]) \/ Gone(i)

LogTypes ==
    /\ log \in Seq(Nat) /\ started \subseteq Daemons /\ offset \in [Daemons -> Nat] /\ lines \in Nat
    /\ step \in [Clears -> {"begin", "copy", "empty", "end"}]
    /\ copied \in [Clears -> Seq(Nat)]
    /\ begun \in [Clears -> Nat] /\ broken \in [Clears -> BOOLEAN]
    /\ dropped \in [Clears -> SUBSET Nat]

Logged ==
    /\ LogTypes
    /\ \A l \in Clears : Copying(l)
    /\ \A i \in 1 .. lines : i \in ToSet(log) \/ Gone(i)

FilesInv == Stored /\ Sending /\ Logged

-----------------------------------------------------------------------------
USE DEF files, logs, TheTemp

LEMMA Second ==
    ASSUME NEW S, NEW a \in S, NEW b \in S
    PROVE  Append(<<a>>, b) = <<a, b>>
<1> DEFINE s == Append(<<a>>, b)
           t == <<a, b>>
<1>1. s \in Seq(S) /\ Len(s) = 2 /\ s[1] = a /\ s[2] = b  OBVIOUS
<1>2. t \in Seq(S) /\ Len(t) = 2 /\ t[1] = a /\ t[2] = b  OBVIOUS
<1> HIDE DEF s, t
<1>3. \A i \in 1 .. Len(s) : i = 1 \/ i = 2  BY <1>1
<1>4. \A i \in 1 .. Len(s) : s[i] = t[i]  BY <1>1, <1>2, <1>3
<1>5. s = t  BY <1>1, <1>2, <1>4, SeqEqual
<1> QED  BY <1>5 DEF s, t

LEMMA Pieces ==
    ASSUME NEW u
    PROVE  /\ ToSet(<<>>) = {} /\ ToSet(Part(u)) = {<<u, 1>>}
           /\ Append(<<>>, <<u, 1>>) = Part(u) /\ Append(Part(u), <<u, 2>>) = Whole(u)
           /\ Len(Part(u)) = 1 /\ Len(Whole(u)) = 2
           /\ Whole(u)[1] = <<u, 1>> /\ Whole(u)[2] = <<u, 2>>
<1>1. ToSet(<<>>) = {}  BY DEF ToSet
<1>2. ToSet(Part(u)) = {<<u, 1>>}
  <2>1. DOMAIN Part(u) = {1} /\ Part(u)[1] = <<u, 1>>  BY DEF Part
  <2> QED  BY <2>1 DEF ToSet
<1>3. Append(<<>>, <<u, 1>>) = Part(u)  BY DEF Part
<1>4. Append(Part(u), <<u, 2>>) = Whole(u)
  BY Second, <<u, 1>> \in {<<u, 1>>, <<u, 2>>}, <<u, 2>> \in {<<u, 1>>, <<u, 2>>} DEF Part, Whole
<1>5. Len(Part(u)) = 1 /\ Len(Whole(u)) = 2  BY DEF Part, Whole
<1>6. Whole(u)[1] = <<u, 1>> /\ Whole(u)[2] = <<u, 2>>  BY DEF Whole
<1> QED  BY <1>1, <1>2, <1>3, <1>4, <1>5, <1>6

LEMMA StoredStep ==
    ASSUME Stored, [FilesNext]_fvars
    PROVE  Stored' /\ \A u \in Uploads : up[u] = "stored" => up'[u] = "stored" /\ file'[u] = file[u]
<1> DEFINE Goal == Stored' /\ \A u \in Uploads : up[u] = "stored" => up'[u] = "stored" /\ file'[u] = file[u]
<1> USE DEF Stored
<1>1. ASSUME NEW u \in Uploads, Receive(u)  PROVE Goal
  BY <1>1, ServerFilesAssumption DEF Receive
<1>2. ASSUME NEW u \in Uploads, Fill(u)  PROVE Goal
  <2>1. up[u] = "write" /\ named' = named  BY <1>2 DEF Fill
  <2>2. CASE file[u] = <<>>
    <3>1. <<u, 1>> \notin ToSet(file[u])  BY <2>2, Pieces
    <3>2. file' = [file EXCEPT ![u] = Append(@, <<u, 1>>)] /\ up' = [up EXCEPT ![u] = "write"]
      BY <1>2, <3>1 DEF Fill
    <3>3. file'[u] = Part(u)  BY <2>2, <3>2, Pieces
    <3> QED  BY <2>1, <3>2, <3>3
  <2>3. CASE file[u] = Part(u)
    <3>1. <<u, 1>> \in ToSet(file[u])  BY <2>3, Pieces
    <3>2. file' = [file EXCEPT ![u] = Append(@, <<u, 2>>)] /\ up' = [up EXCEPT ![u] = "rename"]
      BY <1>2, <3>1 DEF Fill
    <3>3. file'[u] = Whole(u)  BY <2>3, <3>2, Pieces
    <3> QED  BY <2>1, <3>2, <3>3
  <2> QED  BY <2>1, <2>2, <2>3
<1>9. ASSUME NEW u \in Uploads, FallShort(u)  PROVE Goal
  BY <1>9, ServerFilesAssumption DEF FallShort
<1>3. ASSUME NEW u \in Uploads, Rename(u)  PROVE Goal
  BY <1>3, ServerFilesAssumption DEF Rename
<1>4. CASE UNCHANGED <<up, file, named>>  BY <1>4
<1>5. ASSUME NEW d \in Downloads, Open(d) \/ ReadPiece(d)  PROVE UNCHANGED <<up, file, named>>
  BY <1>5 DEF Open, ReadPiece
<1>6. ErrToFile => UNCHANGED files  BY DEF ErrToFile
<1>10. ASSUME NEW p \in Daemons, Daemon(p) \/ PrintLine(p)  PROVE UNCHANGED files
  BY <1>10 DEF Daemon, PrintLine
<1>7. ASSUME NEW l \in Clears, Defer(l) \/ CopyLog(l) \/ BreakOff(l) \/ EmptyLog(l)  PROVE UNCHANGED files
  BY <1>7 DEF Defer, CopyLog, BreakOff, EmptyLog
<1>8. CASE UNCHANGED fvars  BY <1>4, <1>8 DEF fvars
<1> QED  BY <1>1, <1>2, <1>3, <1>4, <1>5, <1>6, <1>7, <1>8, <1>9, <1>10 DEF FilesNext

LEMMA SendingStep ==
    ASSUME Stored, Sending, [FilesNext]_fvars
    PROVE  Sending'
<1>1. \A u \in Uploads : up[u] = "stored" => up'[u] = "stored" /\ file'[u] = file[u]  BY StoredStep
<1> USE DEF Sending
<1>2. CASE UNCHANGED <<down, open, body>>  BY <1>1, <1>2
<1>3. ASSUME NEW d \in Downloads, Open(d)  PROVE Sending'
  BY <1>1, <1>3 DEF Open, Stored
<1>4. ASSUME NEW d \in Downloads, ReadPiece(d)  PROVE Sending'
  <2>1. /\ down[d] = "read" /\ open' = open /\ open[d] \in Uploads /\ up' = up /\ file' = file
        /\ up[open[d]] = "stored"
    BY <1>4 DEF ReadPiece
  <2>2. PICK u \in Uploads : open[d] = u  BY <2>1
  <2>3. /\ file[u] \in {<<>>, Part(u), Whole(u)}
        /\ body[d] \in {<<>>, file[u]} \/ (body[d] = Part(u) /\ file[u] = Whole(u))
    BY <2>1, <2>2 DEF Stored
  <2>4. CASE body[d] = file[u]
    <3>1. ~(Len(body[d]) < Len(file[u]))
      <4>1. Len(file[u]) \in Nat  BY <2>3, Pieces
      <4> QED  BY <2>4, <4>1
    <3>2. body' = body /\ down' = [down EXCEPT ![d] = "sent"]  BY <1>4, <2>2, <3>1 DEF ReadPiece
    <3> QED  BY <2>1, <2>2, <2>4, <3>2
  <2>5. CASE body[d] = <<>> /\ file[u] # <<>>
    <3>1. Len(body[d]) = 0 /\ Len(file[u]) \in {1, 2} /\ file[u][1] = <<u, 1>>
      <4>1. Part(u)[1] = <<u, 1>>  BY DEF Part
      <4> QED  BY <2>3, <2>5, <4>1, Pieces
    <3>2. body' = [body EXCEPT ![d] = Append(@, <<u, 1>>)] /\ down' = down
      BY <1>4, <2>2, <3>1 DEF ReadPiece
    <3>3. body'[d] = Part(u)  BY <2>5, <3>2, Pieces
    <3>4. file[u] \in {Part(u), Whole(u)}  BY <2>3, <2>5
    <3>5. body' \in [Downloads -> Seq(Uploads \X {1, 2})]
      <4>1. <<u, 1>> \in Uploads \X {1, 2}  OBVIOUS
      <4> QED  BY <3>2, <4>1
    <3> QED  BY <2>1, <2>2, <3>2, <3>3, <3>4, <3>5
  <2>6. CASE body[d] = Part(u) /\ file[u] = Whole(u)
    <3>1. Len(body[d]) = 1 /\ Len(file[u]) = 2 /\ file[u][2] = <<u, 2>>  BY <2>6, Pieces
    <3>2. body' = [body EXCEPT ![d] = Append(@, <<u, 2>>)] /\ down' = down
      BY <1>4, <2>2, <3>1 DEF ReadPiece
    <3>3. body'[d] = Whole(u)  BY <2>6, <3>2, Pieces
    <3>4. body' \in [Downloads -> Seq(Uploads \X {1, 2})]
      <4>1. <<u, 2>> \in Uploads \X {1, 2}  OBVIOUS
      <4> QED  BY <3>2, <4>1
    <3> QED  BY <2>1, <2>2, <2>6, <3>2, <3>3, <3>4
  <2> QED  BY <2>3, <2>4, <2>5, <2>6
<1>5. ASSUME NEW u \in Uploads, Receive(u) \/ Fill(u) \/ FallShort(u) \/ Rename(u)
      PROVE  UNCHANGED <<down, open, body>>
  BY <1>5 DEF Receive, Fill, FallShort, Rename
<1>6. ErrToFile => UNCHANGED files  BY DEF ErrToFile
<1>10. ASSUME NEW p \in Daemons, Daemon(p) \/ PrintLine(p)  PROVE UNCHANGED files
  BY <1>10 DEF Daemon, PrintLine
<1>7. ASSUME NEW l \in Clears, Defer(l) \/ CopyLog(l) \/ BreakOff(l) \/ EmptyLog(l)  PROVE UNCHANGED files
  BY <1>7 DEF Defer, CopyLog, BreakOff, EmptyLog
<1>8. CASE UNCHANGED fvars  BY <1>2, <1>8 DEF fvars
<1> QED  BY <1>2, <1>3, <1>4, <1>5, <1>6, <1>7, <1>8, <1>10 DEF FilesNext

(* What is gone stays gone, and what a c-log found in the log it emptied   *)
(* is gone or was lost by it.                                              *)
LEMMA LoggedStep ==
    ASSUME Logged, [FilesNext]_fvars
    PROVE  Logged'
<1> USE DEF Logged, LogTypes
<1>1. CASE UNCHANGED logs
  <2>1. UNCHANGED <<log, started, offset, lines, step, copied, covered, truncated, begun, broken, dropped>>
    BY <1>1
  <2>2. \A i : Gone(i)' <=> Gone(i)  BY <2>1 DEF Gone, LostBy
  <2>3. \A i, l : l \in Clears /\ Ahead(i, l) => Ahead(i, l)'  BY <2>1, <2>2 DEF Ahead
  <2>4. \A l \in Clears : Copying(l)'  BY <2>1, <2>2, <2>3 DEF Copying
  <2> QED  BY <2>1, <2>2, <2>4
<1>2. ASSUME ErrToFile  PROVE Logged'
  <2>1. /\ log' = Append(log, lines + 1) /\ lines' = lines + 1
        /\ UNCHANGED <<started, offset, step, copied, covered, truncated, begun, broken, dropped>>
    BY <1>2 DEF ErrToFile
  <2>2. /\ log' \in Seq(Nat) /\ DOMAIN log' = 1 .. Len(log) + 1 /\ log'[Len(log) + 1] = lines + 1
        /\ \A n \in DOMAIN log : n \in DOMAIN log' /\ log'[n] = log[n]
    BY <2>1
  <2>3. \A i : Gone(i)' <=> Gone(i)  BY <2>1 DEF Gone, LostBy
  <2>4. \A i, l : l \in Clears /\ Ahead(i, l) => Ahead(i, l)'  BY <2>1, <2>2, <2>3 DEF Ahead
  <2>5. \A l \in Clears : Copying(l)'  BY <2>1, <2>3, <2>4 DEF Copying
  <2>6. \A i \in 1 .. lines' : i \in ToSet(log') \/ Gone(i)'
    <3>1. \A i \in 1 .. lines' : i \in 1 .. lines \/ i = lines + 1  BY <2>1
    <3>2. lines + 1 \in ToSet(log')
      <4>1. Len(log) + 1 \in DOMAIN log'  BY <2>2
      <4>2. \A n \in DOMAIN log' : log'[n] \in ToSet(log')  BY DEF ToSet
      <4> QED  BY <2>2, <4>1, <4>2
    <3>3. \A i \in ToSet(log) : i \in ToSet(log')  BY <2>2 DEF ToSet
    <3> QED  BY <2>3, <3>1, <3>2, <3>3
  <2> QED  BY <2>1, <2>2, <2>5, <2>6
<1>3. ASSUME NEW p \in Daemons, PrintLine(p)  PROVE Logged'
  <2> DEFINE at == offset[p] + 1
             m  == IF Len(log) < at THEN at ELSE Len(log)
  <2>1. /\ log' = [i \in 1 .. m |-> IF i = at THEN lines + 1 ELSE IF i <= Len(log) THEN log[i] ELSE Hole]
        /\ covered' = covered \cup (IF Len(log) < at THEN {} ELSE {log[at]})
        /\ lines' = lines + 1 /\ offset' = [offset EXCEPT ![p] = at]
        /\ UNCHANGED <<started, step, copied, truncated, begun, broken, dropped>>
    BY <1>3 DEF PrintLine
  <2>2. at \in Nat /\ m \in Nat /\ m >= Len(log) /\ at \in 1 .. m  OBVIOUS
  <2>3. ~(Len(log) < at) => log[at] \in covered'  BY <2>1
  <2> HIDE DEF at, m
  <2>4. log' \in Seq(Nat)
    <3>1. \A i \in 1 .. m : (IF i = at THEN lines + 1
                             ELSE IF i <= Len(log) THEN log[i] ELSE Hole) \in Nat
      BY <2>2 DEF Hole
    <3> QED  BY <2>1, <2>2, <3>1
  <2>5. /\ DOMAIN log' = 1 .. m /\ log'[at] = lines + 1
        /\ \A i \in DOMAIN log : i # at => i \in DOMAIN log' /\ log'[i] = log[i]
    BY <2>1, <2>2
  <2>6. \A i : Gone(i) => Gone(i)'  BY <2>1 DEF Gone, LostBy
  <2>7. \A n \in DOMAIN log : n = at => log[n] \in covered'
    <3>1. \A n \in DOMAIN log : n = at => ~(Len(log) < at)  BY <2>2
    <3> QED  BY <2>3, <3>1
  <2>8. \A i : i \in covered' => Gone(i)'
    <3>1. \A i : i \in covered' \cup truncated' => Gone(i)'  BY DEF Gone
    <3> QED  BY <3>1
  <2>9. \A i, l : l \in Clears /\ Ahead(i, l) => Ahead(i, l)'
    <3> SUFFICES ASSUME NEW i, NEW l \in Clears, Ahead(i, l)  PROVE Ahead(i, l)'  OBVIOUS
    <3>1. ASSUME NEW n \in DOMAIN log, n > Len(copied[l]), log[n] = i  PROVE Ahead(i, l)'
      <4>1. CASE n = at
        <5>1. i \in covered'  BY <2>7, <3>1, <4>1
        <5>2. Gone(i)'  BY <2>8, <5>1
        <5> QED  BY <5>2 DEF Ahead
      <4>2. CASE n # at  BY <2>1, <2>5, <3>1, <4>2 DEF Ahead
      <4> QED  BY <4>1, <4>2
    <3> QED  BY <2>1, <2>6, <3>1 DEF Ahead
  <2>10. \A l \in Clears : Copying(l)'  BY <2>1, <2>6, <2>9 DEF Copying
  <2>11. \A i \in 1 .. lines' : i \in ToSet(log') \/ Gone(i)'
    <3>1. \A i \in 1 .. lines' : i \in 1 .. lines \/ i = lines + 1  BY <2>1
    <3>2. lines + 1 \in ToSet(log')  BY <2>2, <2>5 DEF ToSet
    <3>3. ASSUME NEW i, NEW n \in DOMAIN log, log[n] = i  PROVE i \in ToSet(log') \/ Gone(i)'
      <4>1. CASE n = at
        <5>1. i \in covered'  BY <2>7, <3>3, <4>1
        <5> QED  BY <2>8, <5>1
      <4>2. CASE n # at
        <5>1. n \in DOMAIN log' /\ log'[n] = i  BY <2>5, <3>3, <4>2
        <5> QED  BY <5>1 DEF ToSet
      <4> QED  BY <4>1, <4>2
    <3>4. \A i \in ToSet(log) : \E n \in DOMAIN log : i = log[n]  BY DEF ToSet
    <3>5. \A i \in 1 .. lines : i \in ToSet(log') \/ Gone(i)'  BY <2>6, <3>3, <3>4
    <3> QED  BY <3>1, <3>2, <3>5
  <2>12. lines' \in Nat /\ offset' \in [Daemons -> Nat]  BY <2>1, <2>2
  <2> QED  BY <2>1, <2>4, <2>10, <2>11, <2>12
<1>4. ASSUME NEW p \in Daemons, Daemon(p)  PROVE Logged'
  <2>1. /\ log' = <<>> /\ truncated' = truncated \cup ToSet(log) /\ started' = started \cup {p}
        /\ UNCHANGED <<offset, lines, step, copied, covered, begun, broken, dropped>>
    BY <1>4 DEF Daemon
  <2>2. \A i : Gone(i) \/ i \in ToSet(log) => Gone(i)'  BY <2>1 DEF Gone, LostBy
  <2>3. \A n \in DOMAIN log : log[n] \in ToSet(log)  BY DEF ToSet
  <2>4. \A i, l : l \in Clears /\ Ahead(i, l) => Ahead(i, l)'  BY <2>1, <2>2, <2>3 DEF Ahead
  <2>5. \A l \in Clears : Copying(l)'  BY <2>1, <2>2, <2>4 DEF Copying
  <2>6. log' \in Seq(Nat)  BY <2>1
  <2> QED  BY <2>1, <2>2, <2>5, <2>6
<1>5. ASSUME NEW l \in Clears, Defer(l)  PROVE Logged'
  <2>1. /\ step[l] = "begin" /\ step' = [step EXCEPT ![l] = "copy"] /\ begun' = [begun EXCEPT ![l] = lines]
        /\ UNCHANGED <<log, started, offset, lines, copied, covered, truncated, broken, dropped>>
    BY <1>5 DEF Defer, GoesTo
  <2>2. copied[l] = <<>> /\ dropped[l] = {}  BY <2>1 DEF Copying
  <2>3. \A i, k : k \in Clears /\ LostBy(i, k) => LostBy(i, k)'
    <3> SUFFICES ASSUME NEW i, NEW k \in Clears, LostBy(i, k)  PROVE LostBy(i, k)'  OBVIOUS
    <3>1. k # l  BY <2>2 DEF LostBy
    <3> QED  BY <2>1, <3>1 DEF LostBy
  <2>4. \A i : Gone(i) => Gone(i)'  BY <2>1, <2>3 DEF Gone
  <2>5. \A i \in 1 .. lines : Ahead(i, l)'
    <3>1. \A n \in DOMAIN log : n > Len(<<>>)  OBVIOUS
    <3>2. \A i \in ToSet(log) : \E n \in DOMAIN log : log[n] = i  BY DEF ToSet
    <3> QED  BY <2>1, <2>2, <2>4, <3>1, <3>2 DEF Ahead
  <2>6. \A i, k : k \in Clears /\ Ahead(i, k) => Ahead(i, k)'  BY <2>1, <2>4 DEF Ahead
  <2>7. Copying(l)'  BY <2>1, <2>2, <2>5 DEF Copying
  <2>8. ASSUME NEW k \in Clears, k # l  PROVE Copying(k)'
    <3>1. step'[k] = step[k] /\ begun'[k] = begun[k]  BY <2>1, <2>8
    <3> QED  BY <2>1, <2>4, <2>6, <3>1 DEF Copying
  <2> QED  BY <2>1, <2>4, <2>7, <2>8
<1>6. ASSUME NEW l \in Clears, CopyLog(l)  PROVE Logged'
  <2>1. /\ step[l] = "copy" /\ UNCHANGED <<log, started, offset, lines, covered, truncated, begun, broken, dropped>>
        /\ \A i \in 1 .. begun[l] : Ahead(i, l)
    BY <1>6 DEF CopyLog, Copying
  <2>2. dropped[l] = {}  BY <2>1 DEF Copying
  <2>3. CASE AtEnd(l)
    <3>1. copied' = copied /\ step' = [step EXCEPT ![l] = "empty"]  BY <1>6, <2>3 DEF CopyLog, GoesTo
    <3>2. \A i : Gone(i)' <=> Gone(i)  BY <2>1, <3>1 DEF Gone, LostBy
    <3>3. \A i, k : k \in Clears /\ Ahead(i, k) => Ahead(i, k)'  BY <2>1, <3>1, <3>2 DEF Ahead
    <3>4. \A i \in 1 .. begun[l] : i \in ToSet(copied[l]) \/ Gone(i)
      <4>1. \A n \in DOMAIN log : ~(n > Len(copied[l]))  BY <2>3 DEF AtEnd
      <4> QED  BY <2>1, <4>1 DEF Ahead
    <3>5. \A k \in Clears : Copying(k)'  BY <2>1, <3>1, <3>2, <3>3, <3>4 DEF Copying
    <3> QED  BY <2>1, <3>1, <3>2, <3>5
  <2>4. CASE ~AtEnd(l)
    <3> DEFINE n == Len(copied[l]) + 1
    <3>1. copied' = [copied EXCEPT ![l] = Append(copied[l], log[n])] /\ step' = step
      BY <1>6, <2>4 DEF CopyLog
    <3>2. n \in DOMAIN log /\ log[n] \in Nat  BY <2>4 DEF AtEnd
    <3>3. /\ copied'[l] = Append(copied[l], log[n]) /\ Len(copied'[l]) = n
          /\ \A k \in Clears : k # l => copied'[k] = copied[k]
      BY <3>1, <3>2
    <3>4. ToSet(copied[l]) \cup {log[n]} \subseteq ToSet(copied'[l])
      <4>1. DOMAIN copied'[l] = 1 .. n /\ copied'[l][n] = log[n]
            /\ \A j \in DOMAIN copied[l] : j \in DOMAIN copied'[l] /\ copied'[l][j] = copied[l][j]
        BY <3>2, <3>3
      <4>2. n \in DOMAIN copied'[l]  BY <4>1
      <4>3. \A j \in DOMAIN copied'[l] : copied'[l][j] \in ToSet(copied'[l])  BY DEF ToSet
      <4>4. \A i \in ToSet(copied[l]) : \E j \in DOMAIN copied[l] : copied[l][j] = i  BY DEF ToSet
      <4>5. ASSUME NEW i \in ToSet(copied[l])  PROVE i \in ToSet(copied'[l])
        <5>1. PICK j \in DOMAIN copied[l] : copied[l][j] = i  BY <4>4, <4>5
        <5>2. j \in DOMAIN copied'[l] /\ copied'[l][j] = i  BY <4>1, <5>1
        <5> QED  BY <4>3, <5>2
      <4>6. log[n] \in ToSet(copied'[l])  BY <4>1, <4>2, <4>3
      <4> QED  BY <4>5, <4>6
    <3>5. n \in Nat  OBVIOUS
    <3> HIDE DEF n
    <3>6. \A i, k : k \in Clears /\ LostBy(i, k) => LostBy(i, k)'
      BY <2>1, <2>2, <3>3 DEF LostBy
    <3>7. \A i : Gone(i) => Gone(i)'  BY <2>1, <3>6 DEF Gone
    <3>8. ASSUME NEW i, Ahead(i, l)  PROVE Ahead(i, l)'
      <4>1. ASSUME NEW j \in DOMAIN log, j > Len(copied[l]), log[j] = i  PROVE Ahead(i, l)'
        <5>1. CASE j = n  BY <3>4, <4>1, <5>1 DEF Ahead
        <5>2. CASE j # n
          <6>1. j > n  BY <4>1, <5>2 DEF n
          <6> QED  BY <2>1, <3>3, <4>1, <6>1 DEF Ahead
        <5> QED  BY <5>1, <5>2
      <4> QED  BY <3>4, <3>7, <3>8, <4>1 DEF Ahead
    <3>9. \A i, k : k \in Clears /\ k # l /\ Ahead(i, k) => Ahead(i, k)'
      BY <2>1, <3>3, <3>7 DEF Ahead
    <3>10. Copying(l)'  BY <2>1, <2>2, <3>1, <3>8 DEF Copying
    <3>11. \A k \in Clears : k # l => Copying(k)'  BY <2>1, <3>1, <3>3, <3>7, <3>9 DEF Copying
    <3>12. copied' \in [Clears -> Seq(Nat)]  BY <3>1, <3>2
    <3> QED  BY <2>1, <3>1, <3>7, <3>10, <3>11, <3>12
  <2> QED  BY <2>3, <2>4
<1>7. ASSUME NEW l \in Clears, BreakOff(l)  PROVE Logged'
  <2>1. /\ step[l] = "copy" /\ broken' = [broken EXCEPT ![l] = TRUE] /\ step' = [step EXCEPT ![l] = "empty"]
        /\ UNCHANGED <<log, started, offset, lines, copied, covered, truncated, begun, dropped>>
    BY <1>7 DEF BreakOff, GoesTo
  <2>2. \A i : Gone(i) => Gone(i)'  BY <2>1 DEF Gone, LostBy
  <2>3. \A i, k : k \in Clears /\ Ahead(i, k) => Ahead(i, k)'  BY <2>1, <2>2 DEF Ahead
  <2>4. \A k \in Clears : Copying(k)'  BY <2>1, <2>2, <2>3 DEF Copying
  <2> QED  BY <2>1, <2>2, <2>4
<1>8. ASSUME NEW l \in Clears, EmptyLog(l)  PROVE Logged'
  <2>1. /\ step[l] = "empty" /\ step' = [step EXCEPT ![l] = "end"]
        /\ UNCHANGED <<started, offset, lines, copied, covered, truncated, begun, broken>>
        /\ broken[l] \/ \A i \in 1 .. begun[l] : i \in ToSet(copied[l]) \/ Gone(i)
    BY <1>8 DEF EmptyLog, GoesTo, Copying
  <2>2. CASE UNCHANGED <<log, dropped>>
    <3>1. \A i : Gone(i)' <=> Gone(i)  BY <2>1, <2>2 DEF Gone, LostBy
    <3>2. \A i, k : k \in Clears /\ Ahead(i, k) => Ahead(i, k)'  BY <2>1, <2>2, <3>1 DEF Ahead
    <3>3. \A k \in Clears : Copying(k)'  BY <2>1, <2>2, <3>1, <3>2 DEF Copying
    <3> QED  BY <2>1, <2>2, <3>1, <3>3
  <2>3. CASE log' = <<>> /\ dropped' = [dropped EXCEPT ![l] = ToSet(log)]
    <3>1. \A i : Gone(i) => Gone(i)'
      <4>1. dropped[l] = {} /\ \A k \in Clears : k # l => dropped'[k] = dropped[k]
        BY <2>1, <2>3 DEF Copying
      <4>2. \A i, k : k \in Clears /\ LostBy(i, k) => LostBy(i, k)'  BY <2>1, <4>1 DEF LostBy
      <4> QED  BY <2>1, <4>2 DEF Gone
    <3>2. ASSUME NEW i \in 1 .. lines, i \in ToSet(log)  PROVE Gone(i)'
      <4>1. i \in dropped'[l]  BY <2>3, <3>2
      <4>2. CASE i \in ToSet(copied[l]) \/ broken[l] \/ i > begun[l]
        <5>1. LostBy(i, l)'  BY <2>1, <4>1, <4>2 DEF LostBy
        <5> QED  BY <5>1 DEF Gone
      <4>3. CASE ~(i \in ToSet(copied[l]) \/ broken[l] \/ i > begun[l])
        <5>1. i \in 1 .. begun[l]  BY <4>3
        <5> QED  BY <2>1, <3>1, <4>3, <5>1
      <4> QED  BY <4>2, <4>3
    <3>3. \A i \in 1 .. lines : Gone(i)'  BY <3>1, <3>2
    <3>4. ASSUME NEW k \in Clears  PROVE Copying(k)'
      <4>1. \A i \in 1 .. begun[k] : i \in 1 .. lines  BY DEF Copying
      <4>2. \A i \in 1 .. begun[k] : Gone(i)' /\ Ahead(i, k)'  BY <3>3, <4>1 DEF Ahead
      <4>3. k # l => dropped'[k] = dropped[k] /\ step'[k] = step[k]  BY <2>1, <2>3
      <4>4. step'[l] = "end"  BY <2>1
      <4> QED  BY <2>1, <4>2, <4>3, <4>4 DEF Copying
    <3>5. log' \in Seq(Nat) /\ dropped' \in [Clears -> SUBSET Nat]
      <4>1. ToSet(log) \subseteq Nat  BY DEF ToSet
      <4>2. log' \in Seq(Nat)  BY <2>3
      <4> QED  BY <2>3, <4>1, <4>2
    <3> QED  BY <2>1, <3>3, <3>4, <3>5
  <2> QED  BY <1>8, <2>2, <2>3 DEF EmptyLog
<1>9. ASSUME NEW u \in Uploads, Receive(u) \/ Fill(u) \/ FallShort(u) \/ Rename(u)  PROVE UNCHANGED logs
  BY <1>9 DEF Receive, Fill, FallShort, Rename
<1>10. ASSUME NEW d \in Downloads, Open(d) \/ ReadPiece(d)  PROVE UNCHANGED logs
  BY <1>10 DEF Open, ReadPiece
<1>11. CASE UNCHANGED fvars  BY <1>1, <1>11 DEF fvars
<1> QED  BY <1>1, <1>2, <1>3, <1>4, <1>5, <1>6, <1>7, <1>8, <1>9, <1>10, <1>11 DEF FilesNext

-----------------------------------------------------------------------------
LEMMA FilesInvInit == FilesInit => FilesInv
<1> SUFFICES ASSUME FilesInit  PROVE FilesInv  OBVIOUS
<1>1. Stored  BY DEF FilesInit, Stored
<1>2. Sending  BY DEF FilesInit, Sending
<1>3. LogTypes  BY DEF FilesInit, LogTypes
<1>4. Logged  BY <1>3 DEF FilesInit, Logged, Copying
<1> QED  BY <1>1, <1>2, <1>4 DEF FilesInv

LEMMA FilesInvStep == FilesInv /\ [FilesNext]_fvars => FilesInv'
BY StoredStep, SendingStep, LoggedStep DEF FilesInv

(* The inductive invariant: a file, complete or not, is known by its       *)
(* upload's step, a download by its file, and each line a c-log began with *)
(* is copied, gone for a reason, or stands before the place it reads from. *)
THEOREM FilesInvariance == FilesSpec => []FilesInv
BY FilesInvInit, FilesInvStep, PTL DEF FilesSpec

(* A download is what one upload stored, in order (uploadFile's rename,    *)
(* the file server), also when the handler wrote a part only.              *)
THEOREM DownloadCorrect == FilesSpec => []DownloadOne
<1>1. FilesInv => DownloadOne
  <2> SUFFICES ASSUME FilesInv, NEW d \in Downloads, down[d] = "sent"
               PROVE  \E u \in Uploads : /\ up[u] = "stored" /\ body[d] = file[u]
                                         /\ \A i \in DOMAIN body[d] : body[d][i] = <<u, i>>
    BY DEF DownloadOne
  <2>1. PICK u \in Uploads : up[u] = "stored" /\ body[d] = file[u]  BY DEF FilesInv, Sending
  <2>2. file[u] \in {<<>>, Part(u), Whole(u)}  BY <2>1 DEF FilesInv, Stored
  <2>3. \A i \in DOMAIN body[d] : body[d][i] = <<u, i>>
    <3>1. DOMAIN Part(u) = {1} /\ Part(u)[1] = <<u, 1>>  BY DEF Part
    <3>2. DOMAIN Whole(u) = {1, 2} /\ Whole(u)[1] = <<u, 1>> /\ Whole(u)[2] = <<u, 2>>  BY DEF Whole
    <3>3. \A i \in DOMAIN <<>> : FALSE  OBVIOUS
    <3> QED  BY <2>1, <2>2, <3>1, <3>2, <3>3
  <2> QED  BY <2>1, <2>3
<1> QED  BY <1>1, FilesInvariance, PTL

(* c-log, Daemon, ErrToFile: the ways in which a line of the log is lost.  *)
THEOREM LogCorrect == FilesSpec => []LogLost
<1>1. FilesInv => LogLost  BY DEF FilesInv, Logged, Gone, LogLost
<1> QED  BY <1>1, FilesInvariance, PTL
=============================================================================
