--------------------------- MODULE SelfUpdate_proofs ---------------------------
(***************************************************************************)
(* Proofs about SelfUpdate: for any updates and deployments.               *)
(***************************************************************************)
EXTENDS SelfUpdate, TLAPS

(* The steps of an update and of a deployment.                             *)
Updating  == {"unborn", "env", "remove", "clone", "cloning", "build", "daemon", "sleep", "done", "killed"}
Deploying == {"unborn", "tools", "kill", "fetch", "make", "run", "clean", "done"}

Clones == [stage : {"none", "partial", "source", "built"}, of : Procs]

Types ==
    /\ proc \in [Procs -> Living \cup {"none", "dead", "killed"}]
    /\ version \in [Procs -> Procs]
    /\ pc \in [Changes -> Updating \cup Deploying]
    /\ home \in [Updates -> Procs]
    /\ pz \in Clones /\ px \in Clones
    /\ overlapped \in BOOLEAN

(* Each does its own steps; an update starts its process last, and not in  *)
(* the place of the one it runs in.                                        *)
Places ==
    /\ \A u \in Updates : /\ pc[u] \in Updating /\ home[u] # u
                          /\ pc[u] \in {"unborn"} \cup Busy => proc[u] = "none"
                          /\ pc[u] \in Busy \cup {"sleep"} => proc[home[u]] # "none"
    /\ \A d \in Deployments : pc[d] \in Deploying

(* Unless two have overlapped, at most one is at work, the clone an update *)
(* builds is its own, and the process it started waits for it to end.      *)
Alone ==
    ~overlapped =>
        /\ \A c, v \in Changes : pc[c] \in AtWork /\ pc[v] \in AtWork => c = v
        /\ \A u \in Updates :
             /\ pc[u] \in {"cloning", "build", "daemon"} => pz.of = u
             /\ pc[u] = "daemon" => pz.stage = "built"
             /\ pc[u] = "sleep" /\ ~logFailed => proc[u] = "starting"

IInv == Types /\ Places /\ Alone /\ LostOnly /\ OwnBuild

-----------------------------------------------------------------------------
USE DEF Goto, dirs, history, None

LEMMA Names ==
    /\ Boot \in Procs /\ Boot \notin Changes /\ Updates \cap Deployments = {}
    /\ Updates \subseteq Changes /\ Deployments \subseteq Changes /\ Changes \subseteq Procs
    /\ Changes = Updates \cup Deployments
    /\ None \in Clones /\ Updates \subseteq Procs /\ Deployments \subseteq Procs
BY UpdateAssumption DEF Procs, Changes, Clones

(* The steps f differ from pc only in updates that were at work and end.   *)
Only(f) ==
    \A c \in Changes : \/ f[c] = pc[c]
                       \/ c \in Updates /\ pc[c] \in Busy \cup {"sleep"} /\ f[c] = "killed"

(* A process that ends takes only the updates at work in it with it.       *)
LEMMA Halted ==
    ASSUME Types, Places, NEW ps
    PROVE  /\ Stopped(ps) \in [Changes -> Updating \cup Deploying]
           /\ Only(Stopped(ps))
BY Names DEF Types, Stopped, Updating, Only

(* What the ends of processes leave: which steps and processes change.     *)
Moves ==
    /\ \A p \in Procs : proc'[p] = "none" <=> proc[p] = "none"
    /\ UNCHANGED <<version, home, pz, px, overlapped, logFailed, undeployed>>
ExitEffect(u) ==
    /\ pc[u] = "sleep" /\ proc' = [proc EXCEPT ![home[u]] = "dead"]
    /\ Only(pc') /\ Moves
KillEffect(d) ==
    /\ pc[d] = "kill" /\ pc'[d] = "fetch"
    /\ \A c \in Changes : c # d =>
         \/ pc'[c] = pc[c]
         \/ c \in Updates /\ pc[c] \in Busy \cup {"sleep"} /\ pc'[c] = "killed"
    /\ Moves

LEMMA ExitFacts ==
    ASSUME Types, Places, NEW u \in Updates, Exit(u)
    PROVE  ExitEffect(u)
<1>1. /\ pc[u] = "sleep" /\ proc' = [proc EXCEPT ![home[u]] = "dead"] /\ pc' = Stopped({home[u]})
      /\ UNCHANGED <<version, home, pz, px, overlapped, logFailed, undeployed>>
  BY DEF Exit, Leaves
<1>2. Only(pc')  BY <1>1, Halted
<1>3. proc[home[u]] # "none"  BY <1>1 DEF Places
<1>4. \A p \in Procs : proc'[p] = "none" <=> proc[p] = "none"  BY <1>1, <1>3 DEF Types
<1> QED  BY <1>1, <1>2, <1>4 DEF ExitEffect, Moves

LEMMA KillFacts ==
    ASSUME Types, Places, NEW d \in Deployments, Kill(d)
    PROVE  KillEffect(d)
<1> DEFINE S == Stopped(Procs)
<1>1. /\ pc[d] = "kill" /\ pc' = [S EXCEPT ![d] = "fetch"]
      /\ UNCHANGED <<version, home, pz, px, overlapped, logFailed, undeployed>>
  BY DEF Kill
<1>2. S \in [Changes -> Updating \cup Deploying] /\ Only(S)  BY Halted
<1>3. \A p \in Procs : proc'[p] = "none" <=> proc[p] = "none"  BY DEF Kill, Living, Types
<1> HIDE DEF S
<1>4. pc'[d] = "fetch" /\ \A c \in Changes : c # d => pc'[c] = S[c]  BY <1>1, <1>2, Names
<1> QED  BY <1>1, <1>2, <1>3, <1>4 DEF KillEffect, Moves, Only

LEMMA TypesStep ==
    ASSUME Types, Places, [Next]_vars
    PROVE  Types'
<1> USE DEF Types, Places, Living, Updating, Deploying, Clones, Busy
<1>1. ASSUME Launch  PROVE Types'
  BY <1>1, Names DEF Launch
<1>2. ASSUME NEW p \in Procs, Wake(p)  PROVE Types'
  BY <1>2, Names DEF Wake
<1>3. ASSUME NEW u \in Updates, Request(u)  PROVE Types'
  BY <1>3, Names DEF Request, Begins
<1>4. ASSUME NEW u \in Updates, Env(u)  PROVE Types'
  BY <1>4, Names DEF Env, Fail, NoDirs
<1>5. ASSUME NEW u \in Updates, Remove(u)  PROVE Types'
  BY <1>5, Names DEF Remove, RemoveOld
<1>6. ASSUME NEW u \in Updates, Clone(u)  PROVE Types'
  BY <1>6, Names DEF Clone, Fail, NoDirs
<1>7. ASSUME NEW u \in Updates, Cloned(u)  PROVE Types'
  BY <1>7, Names DEF Cloned, Fail, NoDirs
<1>8. ASSUME NEW u \in Updates, Build(u)  PROVE Types'
  BY <1>8, Names DEF Build, Unbuilt, Fail, NoDirs
<1>9. ASSUME NEW u \in Updates, Daemon(u)  PROVE Types'
  BY <1>9, Names, Halted DEF Daemon
<1>10. ASSUME NEW u \in Updates, Exit(u)  PROVE Types'
  BY <1>10, Names, Halted DEF Exit, Leaves
<1>11. ASSUME NEW d \in Deployments, Deploy(d)  PROVE Types'
  BY <1>11, Names DEF Deploy, Begins
<1>12. ASSUME NEW d \in Deployments, Tools(d)  PROVE Types'
  BY <1>12, Names DEF Tools
<1>13. ASSUME NEW d \in Deployments, Kill(d)  PROVE Types'
  BY <1>13, Names, Halted DEF Kill
<1>14. ASSUME NEW d \in Deployments, Fetch(d)  PROVE Types'
  BY <1>14, Names DEF Fetch
<1>15. ASSUME NEW d \in Deployments, Make(d)  PROVE Types'
  BY <1>15, Names DEF Make
<1>16. ASSUME NEW d \in Deployments, Run(d)  PROVE Types'
  BY <1>16, Names DEF Run, Runnable
<1>17. ASSUME NEW d \in Deployments, Clean(d)  PROVE Types'
  BY <1>17, Names DEF Clean, NoDirs
<1>18. CASE UNCHANGED vars  BY <1>18 DEF vars
<1> QED
  BY <1>1, <1>2, <1>3, <1>4, <1>5, <1>6, <1>7, <1>8, <1>9, <1>10, <1>11, <1>12, <1>13, <1>14, <1>15, <1>16, <1>17, <1>18
  DEF Next, Update, Deployment

LEMMA PlacesStep ==
    ASSUME Types, Places, [Next]_vars
    PROVE  Places'
<1>0. /\ \A ps : Only(Stopped(ps))
      /\ \A u \in Updates : Exit(u) => ExitEffect(u)
      /\ \A d \in Deployments : Kill(d) => KillEffect(d)
  BY Halted, ExitFacts, KillFacts
<1> USE DEF Types, Places, Updating, Deploying, Busy
<1>1. ASSUME Launch  PROVE Places'
  BY <1>1, Names DEF Launch
<1>2. ASSUME NEW p \in Procs, Wake(p)  PROVE Places'
  BY <1>2, Names DEF Wake
<1>3. ASSUME NEW u \in Updates, Request(u)  PROVE Places'
  BY <1>3, Names DEF Request, Begins
<1>4. ASSUME NEW u \in Updates, Env(u)  PROVE Places'
  BY <1>4, Names DEF Env, Fail, NoDirs
<1>5. ASSUME NEW u \in Updates, Remove(u)  PROVE Places'
  BY <1>5, Names DEF Remove, RemoveOld
<1>6. ASSUME NEW u \in Updates, Clone(u)  PROVE Places'
  BY <1>6, Names DEF Clone, Fail, NoDirs
<1>7. ASSUME NEW u \in Updates, Cloned(u)  PROVE Places'
  BY <1>7, Names DEF Cloned, Fail, NoDirs
<1>8. ASSUME NEW u \in Updates, Build(u)  PROVE Places'
  BY <1>8, Names DEF Build, Unbuilt, Fail, NoDirs
<1>9. ASSUME NEW u \in Updates, Daemon(u)  PROVE Places'
  <2>1. pc[u] = "daemon" /\ UNCHANGED home  BY <1>9 DEF Daemon
  <2>2. CASE pc' = Stopped({home[u]}) /\ proc' = [proc EXCEPT ![home[u]] = "dead"]
    <3>1. \A p \in Procs : proc'[p] = "none" <=> proc[p] = "none"  BY <2>1, <2>2
    <3>2. Only(pc')  BY <2>2, <1>0
    <3> QED  BY <2>1, <3>1, <3>2, Names DEF Only
  <2>3. CASE pc' = [pc EXCEPT ![u] = "sleep"] /\ proc' \in {proc, [proc EXCEPT ![u] = "starting"]}
    <3>1. pc'[u] = "sleep" /\ \A c \in Changes : c # u => pc'[c] = pc[c]  BY <2>3, Names
    <3>2. \A p \in Procs : proc'[p] = "none" => proc[p] = "none"  BY <2>3, Names
    <3>3. \A w \in Updates : w # u => proc'[w] = proc[w]  BY <2>3, Names
    <3> QED  BY <2>1, <3>1, <3>2, <3>3, Names
  <2> QED  BY <1>9, <2>2, <2>3 DEF Daemon
<1>10. ASSUME NEW u \in Updates, Exit(u)  PROVE Places'
  <2>1. ExitEffect(u)  BY <1>10, <1>0
  <2> QED  BY <2>1, Names DEF ExitEffect, Moves, Only
<1>11. ASSUME NEW d \in Deployments, Deploy(d)  PROVE Places'
  BY <1>11, Names DEF Deploy, Begins
<1>12. ASSUME NEW d \in Deployments, Tools(d)  PROVE Places'
  BY <1>12, Names DEF Tools
<1>13. ASSUME NEW d \in Deployments, Kill(d)  PROVE Places'
  <2>1. KillEffect(d)  BY <1>13, <1>0
  <2> QED  BY <2>1, Names DEF KillEffect, Moves
<1>14. ASSUME NEW d \in Deployments, Fetch(d)  PROVE Places'
  BY <1>14, Names DEF Fetch
<1>15. ASSUME NEW d \in Deployments, Make(d)  PROVE Places'
  BY <1>15, Names DEF Make
<1>16. ASSUME NEW d \in Deployments, Run(d)  PROVE Places'
  BY <1>16, Names DEF Run, Runnable
<1>17. ASSUME NEW d \in Deployments, Clean(d)  PROVE Places'
  BY <1>17, Names DEF Clean, NoDirs
<1>18. CASE UNCHANGED vars  BY <1>18 DEF vars
<1> QED
  BY <1>1, <1>2, <1>3, <1>4, <1>5, <1>6, <1>7, <1>8, <1>9, <1>10, <1>11, <1>12, <1>13, <1>14, <1>15, <1>16, <1>17, <1>18
  DEF Next, Update, Deployment

LEMMA AloneStep ==
    ASSUME Types, Places, Alone, [Next]_vars
    PROVE  Alone'
<1>0. /\ \A ps : Only(Stopped(ps))
      /\ \A u \in Updates : Exit(u) => ExitEffect(u)
      /\ \A d \in Deployments : Kill(d) => KillEffect(d)
  BY Halted, ExitFacts, KillFacts
<1> USE DEF Types, Places, Alone, Updating, Deploying, Busy, AtWork
<1>1. ASSUME Launch  PROVE Alone'
  BY <1>1, Names DEF Launch
<1>2. ASSUME NEW p \in Procs, Wake(p)  PROVE Alone'
  BY <1>2, Names DEF Wake
<1>3. ASSUME NEW u \in Updates, Request(u)  PROVE Alone'
  <2>1. pc'[u] # "sleep" /\ \A c \in Changes : c # u => pc'[c] = pc[c]  BY <1>3, Names DEF Request, Begins
  <2>2. UNCHANGED <<proc, pz, logFailed>>  BY <1>3 DEF Request
  <2>3. ~overlapped' => ~overlapped /\ \A c \in Changes : pc[c] \notin AtWork  BY <1>3 DEF Request, Begins
  <2>4. pc'[u] \in {"env", "tools"}  BY <1>3, Names DEF Request, Begins
  <2> QED  BY <2>1, <2>2, <2>3, <2>4, Names
<1>4. ASSUME NEW u \in Updates, Env(u)  PROVE Alone'
  BY <1>4, Names DEF Env, Fail, NoDirs
<1>5. ASSUME NEW u \in Updates, Remove(u)  PROVE Alone'
  BY <1>5, Names DEF Remove, RemoveOld
<1>6. ASSUME NEW u \in Updates, Clone(u)  PROVE Alone'
  BY <1>6, Names DEF Clone, Fail, NoDirs
<1>7. ASSUME NEW u \in Updates, Cloned(u)  PROVE Alone'
  BY <1>7, Names DEF Cloned, Fail, NoDirs
<1>8. ASSUME NEW u \in Updates, Build(u)  PROVE Alone'
  <2>1. pc[u] = "build" /\ UNCHANGED <<proc, overlapped, logFailed>>
        /\ \A c \in Changes : c # u => pc'[c] = pc[c]
    BY <1>8, Names DEF Build, Unbuilt, Fail
  <2>2. CASE pc'[u] = "done"
    <3>1. \A w \in Updates : (w # u /\ ~overlapped) => pc[w] \notin AtWork  BY <2>1, Names
    <3> QED  BY <2>1, <2>2, <3>1, Names
  <2>3. CASE pz' = [pz EXCEPT !.stage = "built"] /\ pc'[u] = "daemon"
    <3>1. pz'.of = pz.of /\ pz'.stage = "built"  BY <2>3 DEF Clones
    <3> QED  BY <2>1, <2>3, <3>1, Names
  <2> QED  BY <1>8, <2>2, <2>3, Names DEF Build, Unbuilt, Fail
<1>9. ASSUME NEW u \in Updates, Daemon(u)  PROVE Alone'
  BY <1>9, Names, Halted DEF Daemon
<1>10. ASSUME NEW u \in Updates, Exit(u)  PROVE Alone'
  <2>1. ExitEffect(u)  BY <1>10, <1>0
  <2> QED  BY <2>1, Names DEF ExitEffect, Moves, Only
<1>11. ASSUME NEW d \in Deployments, Deploy(d)  PROVE Alone'
  <2>1. pc'[d] # "sleep" /\ \A c \in Changes : c # d => pc'[c] = pc[c]  BY <1>11, Names DEF Deploy, Begins
  <2>2. UNCHANGED <<proc, pz, logFailed>>  BY <1>11 DEF Deploy
  <2>3. ~overlapped' => ~overlapped /\ \A c \in Changes : pc[c] \notin AtWork  BY <1>11 DEF Deploy, Begins
  <2>4. pc'[d] \in {"env", "tools"}  BY <1>11, Names DEF Deploy, Begins
  <2> QED  BY <2>1, <2>2, <2>3, <2>4, Names
<1>12. ASSUME NEW d \in Deployments, Tools(d)  PROVE Alone'
  BY <1>12, Names DEF Tools
<1>13. ASSUME NEW d \in Deployments, Kill(d)  PROVE Alone'
  <2>1. KillEffect(d)  BY <1>13, <1>0
  <2> QED  BY <2>1, Names DEF KillEffect, Moves
<1>14. ASSUME NEW d \in Deployments, Fetch(d)  PROVE Alone'
  BY <1>14, Names DEF Fetch
<1>15. ASSUME NEW d \in Deployments, Make(d)  PROVE Alone'
  BY <1>15, Names DEF Make
<1>16. ASSUME NEW d \in Deployments, Run(d)  PROVE Alone'
  BY <1>16, Names DEF Run, Runnable
<1>17. ASSUME NEW d \in Deployments, Clean(d)  PROVE Alone'
  BY <1>17, Names DEF Clean, NoDirs
<1>18. CASE UNCHANGED vars  BY <1>18 DEF vars
<1> QED
  BY <1>1, <1>2, <1>3, <1>4, <1>5, <1>6, <1>7, <1>8, <1>9, <1>10, <1>11, <1>12, <1>13, <1>14, <1>15, <1>16, <1>17, <1>18
  DEF Next, Update, Deployment

LEMMA LostStep ==
    ASSUME Types, Places, Alone, LostOnly, [Next]_vars
    PROVE  LostOnly'
<1>0. /\ \A ps : Only(Stopped(ps))
      /\ \A u \in Updates : Exit(u) => ExitEffect(u)
      /\ \A d \in Deployments : Kill(d) => KillEffect(d)
  BY Halted, ExitFacts, KillFacts
<1> USE DEF Types, Places, Alone, LostOnly, Living
<1>1. ASSUME Launch  PROVE LostOnly'
  BY <1>1, Names DEF Launch
<1>2. ASSUME NEW p \in Procs, Wake(p)  PROVE LostOnly'
  BY <1>2, Names DEF Wake
<1>3. ASSUME NEW u \in Updates, Request(u)  PROVE LostOnly'
  BY <1>3, Names DEF Request, Begins
<1>4. ASSUME NEW u \in Updates, Env(u)  PROVE LostOnly'
  BY <1>4, Names DEF Env, Fail, NoDirs
<1>5. ASSUME NEW u \in Updates, Remove(u)  PROVE LostOnly'
  BY <1>5, Names DEF Remove, RemoveOld
<1>6. ASSUME NEW u \in Updates, Clone(u)  PROVE LostOnly'
  BY <1>6, Names DEF Clone, Fail, NoDirs
<1>7. ASSUME NEW u \in Updates, Cloned(u)  PROVE LostOnly'
  BY <1>7, Names DEF Cloned, Fail, NoDirs
<1>8. ASSUME NEW u \in Updates, Build(u)  PROVE LostOnly'
  BY <1>8, Names DEF Build, Unbuilt, Fail, NoDirs
<1>9. ASSUME NEW u \in Updates, Daemon(u)  PROVE LostOnly'
  BY <1>9, Names, Halted DEF Daemon, Busy, AtWork
<1>10. ASSUME NEW u \in Updates, Exit(u)  PROVE LostOnly'
  <2>1. ExitEffect(u)  BY <1>10, <1>0
  <2>2. ~overlapped /\ ~logFailed => proc'[u] = "starting"  BY <2>1, Names DEF ExitEffect, Moves
  <2> QED  BY <2>1, <2>2, Names DEF ExitEffect, Moves
<1>11. ASSUME NEW d \in Deployments, Deploy(d)  PROVE LostOnly'
  BY <1>11, Names DEF Deploy, Begins
<1>12. ASSUME NEW d \in Deployments, Tools(d)  PROVE LostOnly'
  BY <1>12, Names DEF Tools
<1>13. ASSUME NEW d \in Deployments, Kill(d)  PROVE LostOnly'
  <2>1. KillEffect(d)  BY <1>13, <1>0
  <2> QED  BY <2>1, Names DEF KillEffect, Moves
<1>14. ASSUME NEW d \in Deployments, Fetch(d)  PROVE LostOnly'
  BY <1>14, Names DEF Fetch
<1>15. ASSUME NEW d \in Deployments, Make(d)  PROVE LostOnly'
  BY <1>15, Names DEF Make
<1>16. ASSUME NEW d \in Deployments, Run(d)  PROVE LostOnly'
  BY <1>16, Names DEF Run, Runnable
<1>17. ASSUME NEW d \in Deployments, Clean(d)  PROVE LostOnly'
  BY <1>17, Names DEF Clean, NoDirs
<1>18. CASE UNCHANGED vars  BY <1>18 DEF vars
<1> QED
  BY <1>1, <1>2, <1>3, <1>4, <1>5, <1>6, <1>7, <1>8, <1>9, <1>10, <1>11, <1>12, <1>13, <1>14, <1>15, <1>16, <1>17, <1>18
  DEF Next, Update, Deployment

LEMMA BuildStep ==
    ASSUME Types, Places, Alone, OwnBuild, [Next]_vars
    PROVE  OwnBuild'
<1>0. /\ \A ps : Only(Stopped(ps))
      /\ \A u \in Updates : Exit(u) => ExitEffect(u)
      /\ \A d \in Deployments : Kill(d) => KillEffect(d)
  BY Halted, ExitFacts, KillFacts
<1> USE DEF Types, Places, Alone, OwnBuild
<1>1. ASSUME Launch  PROVE OwnBuild'
  BY <1>1, Names DEF Launch
<1>2. ASSUME NEW p \in Procs, Wake(p)  PROVE OwnBuild'
  BY <1>2, Names DEF Wake
<1>3. ASSUME NEW u \in Updates, Request(u)  PROVE OwnBuild'
  BY <1>3, Names DEF Request, Begins
<1>4. ASSUME NEW u \in Updates, Env(u)  PROVE OwnBuild'
  BY <1>4, Names DEF Env, Fail, NoDirs
<1>5. ASSUME NEW u \in Updates, Remove(u)  PROVE OwnBuild'
  BY <1>5, Names DEF Remove, RemoveOld
<1>6. ASSUME NEW u \in Updates, Clone(u)  PROVE OwnBuild'
  BY <1>6, Names DEF Clone, Fail, NoDirs
<1>7. ASSUME NEW u \in Updates, Cloned(u)  PROVE OwnBuild'
  BY <1>7, Names DEF Cloned, Fail, NoDirs
<1>8. ASSUME NEW u \in Updates, Build(u)  PROVE OwnBuild'
  BY <1>8, Names DEF Build, Unbuilt, Fail, NoDirs
<1>9. ASSUME NEW u \in Updates, Daemon(u)  PROVE OwnBuild'
  BY <1>9, Names, Halted DEF Daemon
<1>10. ASSUME NEW u \in Updates, Exit(u)  PROVE OwnBuild'
  <2>1. ExitEffect(u)  BY <1>10, <1>0
  <2> QED  BY <2>1, Names DEF ExitEffect, Moves, Only
<1>11. ASSUME NEW d \in Deployments, Deploy(d)  PROVE OwnBuild'
  BY <1>11, Names DEF Deploy, Begins
<1>12. ASSUME NEW d \in Deployments, Tools(d)  PROVE OwnBuild'
  BY <1>12, Names DEF Tools
<1>13. ASSUME NEW d \in Deployments, Kill(d)  PROVE OwnBuild'
  <2>1. KillEffect(d)  BY <1>13, <1>0
  <2> QED  BY <2>1, Names DEF KillEffect, Moves
<1>14. ASSUME NEW d \in Deployments, Fetch(d)  PROVE OwnBuild'
  BY <1>14, Names DEF Fetch
<1>15. ASSUME NEW d \in Deployments, Make(d)  PROVE OwnBuild'
  BY <1>15, Names DEF Make
<1>16. ASSUME NEW d \in Deployments, Run(d)  PROVE OwnBuild'
  BY <1>16, Names DEF Run, Runnable
<1>17. ASSUME NEW d \in Deployments, Clean(d)  PROVE OwnBuild'
  BY <1>17, Names DEF Clean, NoDirs
<1>18. CASE UNCHANGED vars  BY <1>18 DEF vars
<1> QED
  BY <1>1, <1>2, <1>3, <1>4, <1>5, <1>6, <1>7, <1>8, <1>9, <1>10, <1>11, <1>12, <1>13, <1>14, <1>15, <1>16, <1>17, <1>18
  DEF Next, Update, Deployment

-----------------------------------------------------------------------------
LEMMA InvInit == Init => IInv
<1> SUFFICES ASSUME Init  PROVE IInv  OBVIOUS
<1>1. Types  BY Names DEF Init, Types, Living, Updating
<1>2. Places  BY Names DEF Init, Places, Updating, Deploying
<1>3. Alone  BY Names DEF Init, Alone, AtWork, Busy
<1>4. LostOnly /\ OwnBuild  BY Names DEF Init, LostOnly, OwnBuild, Living
<1> QED  BY <1>1, <1>2, <1>3, <1>4 DEF IInv

LEMMA InvStep == IInv /\ [Next]_vars => IInv'
BY TypesStep, PlacesStep, AloneStep, LostStep, BuildStep DEF IInv

(* The inductive invariant: unless updates and deployments overlapped, the *)
(* shared clone and the new process belong to the only one at work.        *)
THEOREM Invariance == Spec => []IInv
BY InvInit, InvStep, PTL DEF Spec

(* A machine is without a server only if two updates or deployments        *)
(* overlapped, the log file could not be created (Daemon), or a deployment *)
(* had nothing to start, or has yet to start it (DepOneHost).              *)
THEOREM LostCorrect == Spec => []LostOnly
BY Invariance, PTL DEF IInv

(* What never met another runs what it cloned itself (Update, DepOneHost). *)
THEOREM BuildCorrect == Spec => []OwnBuild
BY Invariance, PTL DEF IInv
=============================================================================
