-------------------------- MODULE ClientRoute_proofs --------------------------
(***************************************************************************)
(* Proofs about ClientRoute: for any number of requests and hosts.         *)
(***************************************************************************)
EXTENDS ClientRoute, FiniteSetTheorems, TLAPS

(* What a request has by the step it is at; a control in use has an        *)
(* address.                                                                *)
Owned(r) ==
    /\ pc[r] \in {"start", "close", "route"} => ClientConf # Nil
    /\ pc[r] \in {"wait", "tunnels", "connected", "listen", "ask", "answer"} \cup Loop => ctl[r] # Nil
    /\ pc[r] \in {"new", "start", "close", "route", "wait", "listen"} \cup Loop => host[r] # Nil
    /\ pc[r] = "unborn" => host[r] = Nil /\ ctl[r] = Nil
    /\ pc[r] = "report" => told[r] # Nil
    /\ used[r] \/ asked[r] # {} => ctl[r] # Nil
    /\ ctl[r] # Nil => Addr[ctl[r]] # Nil
    /\ ClientConf = r => Addr[r] # Nil

(* At most one loop runs, the one that listens.                            *)
Alone ==
    /\ listening = {} \/ \E q \in Requests : listening = {q}
    /\ \A r \in Requests :
         /\ pc[r] \in Loop => listening = {r} /\ ~closed[ctl[r]]
         /\ r \in listening => pc[r] \in Loop \cup {"done"} /\ host[r] # Nil

(* A loop that took a connection late goes to look at its flag next.       *)
Late(r) ==
    /\ late[r] <= 1
    /\ late[r] = 0 \/ pc[r] = "done" \/ (pc[r] \in Loop \ {"accept"} /\ closeFlag[ctl[r]])

(* Only a change takes a configuration away.                               *)
Changed == \E q \in Requests : host[q] = Nil /\ ctl[q] # Nil
Configured ==
    Changed \/ \A r \in Requests :
        pc[r] \in {"connected", "listen"} \cup Loop => nowconf[ctl[r]] # Nil

(* The types, without the number of listeners, which is that of Alone.     *)
Types ==
    /\ ClientConf \in Requests \cup {Nil}
    /\ Addr \in [Requests -> Address \cup {Nil}]
    /\ nowconf \in [Requests -> Hosts \cup {Nil}]
    /\ closeFlag \in [Requests -> BOOLEAN] /\ closed \in [Requests -> BOOLEAN]
    /\ ErrCount \in [Requests -> 0 .. ErrLimit + 1]
    /\ pc \in [Requests -> Steps]
    /\ host \in [Requests -> Address \cup {Nil}] /\ ctl \in [Requests -> Requests \cup {Nil}]
    /\ asked \in [Requests -> SUBSET Address] /\ told \in [Requests -> Address \cup {Nil}]
    /\ listening \subseteq Requests
    /\ exited \in {"no", "panic", "fatal"}
    /\ used \in [Requests -> BOOLEAN] /\ late \in [Requests -> 0 .. 2]

Places == Types /\ \A r \in Requests : Owned(r)

IInv == Places /\ Alone /\ Configured /\ EndsOnly /\ \A r \in Requests : Late(r)

-----------------------------------------------------------------------------
USE RouteAssumption DEF flags, request, posts, Goto, Loop

(* What GetAviableProxy and ReportErrorProxy leave as the configuration of *)
(* control c: a server that answered, or the one it had.                   *)
Took(c) ==
    \E h \in Hosts \cup {Nil} : nowconf' = [nowconf EXCEPT ![c] = h] /\ (h \in Hosts \/ h = nowconf[c])

LEMMA Answered ==
    ASSUME NEW a \in Address
    PROVE  Answers(a) \subseteq Hosts /\ AnswersReport(a) \subseteq Hosts
<1>1. a.host \in Hosts  BY DEF Address
<1> QED  BY <1>1 DEF Answers, AnswersReport

LEMMA Posting ==
    ASSUME Places, NEW r \in Requests, Ask(r) \/ Answer(r)
    PROVE  /\ ctl[r] \in Requests /\ Took(ctl[r])
           /\ asked' \in [Requests -> SUBSET Address] /\ pc' \in [Requests -> Steps]
           /\ \A q \in Requests : q # r => asked'[q] = asked[q]
           /\ pc' = pc \/ (pc[r] = "ask" /\ pc' = [pc EXCEPT ![r] = "answer"])
           /\ UNCHANGED <<ClientConf, Addr, flags, ErrCount, request, told, listening, exited, used, late>>
<1> USE DEF Places, Types
<1>1. ASSUME NEW c \in Requests, nowconf' = nowconf  PROVE Took(c)
  <2>1. nowconf' = [nowconf EXCEPT ![c] = nowconf[c]] /\ nowconf[c] \in Hosts \cup {Nil}  BY <1>1
  <2> QED  BY <2>1 DEF Took
<1>2. CASE Ask(r)
  <2>1. ctl[r] \in Requests  BY <1>2 DEF Ask, Owned
  <2>2. Addr[ctl[r]] \in Address  BY <2>1 DEF Owned
  <2>3. asked' \in [Requests -> SUBSET Address]  BY <1>2, <2>2 DEF Ask
  <2>4. pc' = pc \/ (pc[r] = "ask" /\ pc' = [pc EXCEPT ![r] = "answer"])  BY <1>2 DEF Ask
  <2>5. pc' \in [Requests -> Steps]  BY <2>4 DEF Steps
  <2>6. nowconf' = nowconf  BY <1>2 DEF Ask
  <2>7. \A q \in Requests : q # r => asked'[q] = asked[q]  BY <1>2 DEF Ask
  <2> QED  BY <1>1, <1>2, <2>1, <2>3, <2>4, <2>5, <2>6, <2>7 DEF Ask
<1>3. CASE Answer(r)
  <2>1. PICK a \in asked[r] :
          /\ asked' = [asked EXCEPT ![r] = @ \ {a}] \/ asked' = asked
          /\ (\E h \in Answers(a) : nowconf' = [nowconf EXCEPT ![ctl[r]] = h]) \/ nowconf' = nowconf
    BY <1>3 DEF Answer
  <2>2. a \in Address  BY <2>1
  <2>3. ctl[r] \in Requests  BY <2>1 DEF Owned
  <2>4. asked' \in [Requests -> SUBSET Address] /\ \A q \in Requests : q # r => asked'[q] = asked[q]
    BY <2>1
  <2>5. Took(ctl[r])
    <3>1. CASE nowconf' = nowconf  BY <1>1, <2>3, <3>1
    <3>2. ASSUME NEW h \in Answers(a), nowconf' = [nowconf EXCEPT ![ctl[r]] = h]  PROVE Took(ctl[r])
      BY <2>2, <3>2, Answered DEF Took
    <3> QED  BY <2>1, <3>1, <3>2
  <2> QED  BY <1>3, <2>3, <2>4, <2>5 DEF Answer
<1> QED  BY <1>2, <1>3

LEMMA Reporting ==
    ASSUME Places, NEW r \in Requests, Report(r)
    PROVE  /\ ctl[r] \in Requests /\ Took(ctl[r])
           /\ \E h \in Hosts \cup {nowconf[ctl[r]]} :
                 /\ nowconf' = [nowconf EXCEPT ![ctl[r]] = h]
                 /\ h = Nil => exited' = "panic"
<1> USE DEF Places, Types
<1>1. ctl[r] \in Requests /\ told[r] \in Address  BY DEF Report, Owned
<1>2. PICK h \in AnswersReport(told[r]) \cup {nowconf[ctl[r]]} :
          nowconf' = [nowconf EXCEPT ![ctl[r]] = h] /\ (h = Nil => exited' = "panic")
  BY DEF Report, Silent
<1>3. h \in Hosts \cup {nowconf[ctl[r]]}  BY <1>1, <1>2, Answered
<1>4. nowconf[ctl[r]] \in Hosts \cup {Nil}  BY <1>1
<1>5. Took(ctl[r])  BY <1>2, <1>3, <1>4 DEF Took
<1> QED  BY <1>1, <1>2, <1>3, <1>5

LEMMA TypesStep ==
    ASSUME Places, [Next]_vars
    PROVE  Types'
<1> USE DEF Places, Types, Steps
<1>1. ASSUME NEW r \in Requests, Switch(r)  PROVE Types'
  BY <1>1 DEF Switch
<1>2. ASSUME NEW r \in Requests, New(r)  PROVE Types'
  <2>1. host[r] \in Address  BY <1>2 DEF New, Owned
  <2>2. Normalised(host[r]) \in Address
    <3>1. host[r].port \in BOOLEAN /\ host[r].tls \in BOOLEAN  BY <2>1 DEF Address
    <3>2. (host[r].port \/ ~host[r].tls) \in BOOLEAN  BY <3>1
    <3> QED  BY <2>1, <3>2 DEF Normalised, Address
  <2>3. Addr' \in [Requests -> Address \cup {Nil}]  BY <1>2, <2>2 DEF New
  <2> QED  BY <1>2, <2>3 DEF New
<1>3. ASSUME NEW r \in Requests, Start(r)  PROVE Types'
  BY <1>3 DEF Start
<1>4. ASSUME NEW r \in Requests, TryClose(r)  PROVE Types'
  BY <1>4 DEF TryClose
<1>5. ASSUME NEW r \in Requests, ChangeRoute(r)  PROVE Types'
  <2>1. host[r] \in Address  BY <1>5 DEF ChangeRoute, Owned
  <2>2. Addr' \in [Requests -> Address \cup {Nil}]  BY <1>5, <2>1 DEF ChangeRoute
  <2> QED  BY <1>5, <2>2 DEF ChangeRoute
<1>6. ASSUME NEW r \in Requests, Poll(r)  PROVE Types'
  BY <1>6 DEF Poll
<1>7. ASSUME NEW r \in Requests, Tunnels(r)  PROVE Types'
  BY <1>7 DEF Tunnels
<1>8. ASSUME NEW r \in Requests, Connected(r)  PROVE Types'
  BY <1>8 DEF Connected
<1>9. ASSUME NEW r \in Requests, Listen(r)  PROVE Types'
  BY <1>9 DEF Listen, Opened
<1>10. ASSUME NEW r \in Requests, CheckErr(r)  PROVE Types'
  <2>1. told' = told \/ told' = [told EXCEPT ![r] = Addr[ctl[r]]]  BY <1>10 DEF CheckErr
  <2>2. ctl[r] \in Requests  BY <1>10 DEF CheckErr, Owned
  <2>3. told' \in [Requests -> Address \cup {Nil}]  BY <2>1, <2>2
  <2> QED  BY <1>10, <2>3 DEF CheckErr
<1>11. ASSUME NEW r \in Requests, Report(r)  PROVE Types'
  <2>1. Took(ctl[r])  BY <1>11, Reporting
  <2>2. ErrCount' = ErrCount \/ ErrCount' = [ErrCount EXCEPT ![ctl[r]] = 0]  BY <1>11 DEF Report
  <2>3. pc' = pc \/ pc' = [pc EXCEPT ![r] = "flag"]  BY <1>11 DEF Report
  <2>4. exited' \in {"no", "panic", "fatal"}  BY <1>11 DEF Report
  <2>5. nowconf' \in [Requests -> Hosts \cup {Nil}]  BY <2>1 DEF Took
  <2>6. pc' \in [Requests -> Steps]  BY <2>3
  <2>7. ErrCount' \in [Requests -> 0 .. ErrLimit + 1]
    <3>1. 0 \in 0 .. ErrLimit + 1  OBVIOUS
    <3> QED  BY <2>2, <3>1
  <2>8. told' \in [Requests -> Address \cup {Nil}]  BY <1>11 DEF Report
  <2> QED  BY <1>11, <2>4, <2>5, <2>6, <2>7, <2>8 DEF Report
<1>12. ASSUME NEW r \in Requests, CheckFlag(r)  PROVE Types'
  BY <1>12 DEF CheckFlag
<1>13. ASSUME NEW r \in Requests, Accept(r)  PROVE Types'
  <2>1. late[r] \in 0..2 /\ (late[r] < 2 => late[r] + 1 \in 0..2)  OBVIOUS
  <2>2. late' \in [Requests -> 0..2]  BY <1>13, <2>1 DEF Accept
  <2>3. pc' \in [Requests -> Steps] /\ used' \in [Requests -> BOOLEAN]
    BY <1>13 DEF Accept, AfterConn, Steps
  <2> QED  BY <1>13, <2>2, <2>3 DEF Accept
<1>14. ASSUME NEW r \in Requests, Serve(r)  PROVE Types'
  BY <1>14 DEF Serve, Calmer
<1>15. ASSUME NEW r \in Requests, Finalize(r)  PROVE Types'
  BY <1>15 DEF Finalize
<1>16. ASSUME NEW r \in Requests, Change(r)  PROVE Types'
  BY <1>16 DEF Change
<1>17. ASSUME NEW r \in Requests, Ask(r) \/ Answer(r)  PROVE Types'
  BY <1>17, Posting DEF Took
<1>19. ASSUME NEW r \in Requests, Asked(r)  PROVE Types'
  BY <1>19 DEF Asked
<1>18. CASE UNCHANGED vars  BY <1>18 DEF vars
<1> QED  BY <1>1, <1>2, <1>3, <1>4, <1>5, <1>6, <1>7, <1>8, <1>9, <1>10, <1>11, <1>12, <1>13, <1>14, <1>15, <1>16, <1>17, <1>18, <1>19 DEF Next, SwitchStep, LoopStep

LEMMA OwnedStep ==
    ASSUME Places, NEW p \in Requests, [Next]_vars
    PROVE  Owned(p)'
<1> USE DEF Places, Types, Owned
<1>1. ASSUME NEW r \in Requests, Switch(r)  PROVE Owned(p)'
  BY <1>1 DEF Switch
<1>2. ASSUME NEW r \in Requests, New(r)  PROVE Owned(p)'
  <2>1. Addr' = [Addr EXCEPT ![r] = Normalised(host[r])] /\ Normalised(host[r]) # Nil
    <3>1. host[r] \in Address  BY <1>2 DEF New
    <3>2. Normalised(host[r]) \in Address
      <4>1. host[r].port \in BOOLEAN /\ host[r].tls \in BOOLEAN  BY <3>1 DEF Address
      <4>2. (host[r].port \/ ~host[r].tls) \in BOOLEAN  BY <4>1
      <4> QED  BY <3>1, <4>2 DEF Normalised, Address
    <3> QED  BY <1>2, <3>2 DEF New
  <2> QED  BY <1>2, <2>1 DEF New
<1>3. ASSUME NEW r \in Requests, Start(r)  PROVE Owned(p)'
  BY <1>3 DEF Start
<1>4. ASSUME NEW r \in Requests, TryClose(r)  PROVE Owned(p)'
  BY <1>4 DEF TryClose
<1>5. ASSUME NEW r \in Requests, ChangeRoute(r)  PROVE Owned(p)'
  <2>1. host[r] # Nil /\ ClientConf \in Requests  BY <1>5 DEF ChangeRoute
  <2>2. \A q \in Requests : Addr[q] # Nil => Addr'[q] # Nil  BY <1>5, <2>1 DEF ChangeRoute
  <2> QED  BY <1>5, <2>1, <2>2 DEF ChangeRoute
<1>6. ASSUME NEW r \in Requests, Poll(r)  PROVE Owned(p)'
  BY <1>6 DEF Poll
<1>7. ASSUME NEW r \in Requests, Tunnels(r)  PROVE Owned(p)'
  BY <1>7 DEF Tunnels
<1>8. ASSUME NEW r \in Requests, Connected(r)  PROVE Owned(p)'
  BY <1>8 DEF Connected
<1>9. ASSUME NEW r \in Requests, Listen(r)  PROVE Owned(p)'
  BY <1>9 DEF Listen, Opened
<1>10. ASSUME NEW r \in Requests, CheckErr(r)  PROVE Owned(p)'
  <2>1. ctl[r] \in Requests /\ Addr[ctl[r]] # Nil  BY <1>10 DEF CheckErr
  <2> QED  BY <1>10, <2>1 DEF CheckErr
<1>11. ASSUME NEW r \in Requests, Report(r)  PROVE Owned(p)'
  BY <1>11 DEF Report
<1>12. ASSUME NEW r \in Requests, CheckFlag(r)  PROVE Owned(p)'
  BY <1>12 DEF CheckFlag
<1>13. ASSUME NEW r \in Requests, Accept(r)  PROVE Owned(p)'
  BY <1>13 DEF Accept, AfterConn
<1>14. ASSUME NEW r \in Requests, Serve(r)  PROVE Owned(p)'
  BY <1>14 DEF Serve
<1>15. ASSUME NEW r \in Requests, Finalize(r)  PROVE Owned(p)'
  BY <1>15 DEF Finalize
<1>16. ASSUME NEW r \in Requests, Change(r)  PROVE Owned(p)'
  BY <1>16 DEF Change
<1>17. ASSUME NEW r \in Requests, Ask(r) \/ Answer(r)  PROVE Owned(p)'
  BY <1>17, Posting DEF Took
<1>19. ASSUME NEW r \in Requests, Asked(r)  PROVE Owned(p)'
  BY <1>19 DEF Asked
<1>18. CASE UNCHANGED vars  BY <1>18 DEF vars
<1> QED  BY <1>1, <1>2, <1>3, <1>4, <1>5, <1>6, <1>7, <1>8, <1>9, <1>10, <1>11, <1>12, <1>13, <1>14, <1>15, <1>16, <1>17, <1>18, <1>19 DEF Next, SwitchStep, LoopStep

LEMMA AloneStep ==
    ASSUME Places, Alone, [Next]_vars
    PROVE  Alone'
<1> USE DEF Places, Types, Owned, Alone
<1>1. ASSUME NEW r \in Requests, Switch(r)  PROVE Alone'
  BY <1>1 DEF Switch
<1>2. ASSUME NEW r \in Requests, New(r)  PROVE Alone'
  BY <1>2 DEF New
<1>3. ASSUME NEW r \in Requests, Start(r)  PROVE Alone'
  BY <1>3 DEF Start
<1>4. ASSUME NEW r \in Requests, TryClose(r)  PROVE Alone'
  BY <1>4 DEF TryClose
<1>5. ASSUME NEW r \in Requests, ChangeRoute(r)  PROVE Alone'
  BY <1>5 DEF ChangeRoute
<1>6. ASSUME NEW r \in Requests, Poll(r)  PROVE Alone'
  BY <1>6 DEF Poll
<1>7. ASSUME NEW r \in Requests, Tunnels(r)  PROVE Alone'
  BY <1>7 DEF Tunnels
<1>8. ASSUME NEW r \in Requests, Connected(r)  PROVE Alone'
  BY <1>8 DEF Connected
<1>9. ASSUME NEW r \in Requests, Listen(r)  PROVE Alone'
  <2>1. CASE exited' = "fatal" /\ UNCHANGED <<flags, pc, listening>>
    BY <1>9, <2>1 DEF Listen
  <2>2. CASE listening = {} /\ listening' = {r} /\ Opened(ctl[r]) /\ Goto(r, "loop")
    <3>1. closed'[ctl[r]] = FALSE  BY <1>9, <2>2 DEF Opened, Listen
    <3> QED  BY <1>9, <2>2, <3>1 DEF Listen
  <2> QED  BY <1>9, <2>1, <2>2 DEF Listen
<1>10. ASSUME NEW r \in Requests, CheckErr(r)  PROVE Alone'
  BY <1>10 DEF CheckErr
<1>11. ASSUME NEW r \in Requests, Report(r)  PROVE Alone'
  BY <1>11 DEF Report
<1>12. ASSUME NEW r \in Requests, CheckFlag(r)  PROVE Alone'
  BY <1>12 DEF CheckFlag
<1>13. ASSUME NEW r \in Requests, Accept(r)  PROVE Alone'
  BY <1>13 DEF Accept, AfterConn
<1>14. ASSUME NEW r \in Requests, Serve(r)  PROVE Alone'
  BY <1>14 DEF Serve
<1>15. ASSUME NEW r \in Requests, Finalize(r)  PROVE Alone'
  BY <1>15 DEF Finalize
<1>16. ASSUME NEW r \in Requests, Change(r)  PROVE Alone'
  BY <1>16 DEF Change
<1>17. ASSUME NEW r \in Requests, Ask(r) \/ Answer(r)  PROVE Alone'
  BY <1>17, Posting DEF Took
<1>19. ASSUME NEW r \in Requests, Asked(r)  PROVE Alone'
  BY <1>19 DEF Asked
<1>18. CASE UNCHANGED vars  BY <1>18 DEF vars
<1> QED  BY <1>1, <1>2, <1>3, <1>4, <1>5, <1>6, <1>7, <1>8, <1>9, <1>10, <1>11, <1>12, <1>13, <1>14, <1>15, <1>16, <1>17, <1>18, <1>19 DEF Next, SwitchStep, LoopStep

LEMMA LateStep ==
    ASSUME Places, Alone, NEW p \in Requests, Late(p), [Next]_vars
    PROVE  Late(p)'
<1> USE DEF Places, Types, Owned, Alone, Late
<1>1. ASSUME NEW r \in Requests, Switch(r)  PROVE Late(p)'
  BY <1>1 DEF Switch
<1>2. ASSUME NEW r \in Requests, New(r)  PROVE Late(p)'
  BY <1>2 DEF New
<1>3. ASSUME NEW r \in Requests, Start(r)  PROVE Late(p)'
  BY <1>3 DEF Start
<1>4. ASSUME NEW r \in Requests, TryClose(r)  PROVE Late(p)'
  BY <1>4 DEF TryClose
<1>5. ASSUME NEW r \in Requests, ChangeRoute(r)  PROVE Late(p)'
  BY <1>5 DEF ChangeRoute
<1>6. ASSUME NEW r \in Requests, Poll(r)  PROVE Late(p)'
  BY <1>6 DEF Poll
<1>7. ASSUME NEW r \in Requests, Tunnels(r)  PROVE Late(p)'
  BY <1>7 DEF Tunnels
<1>8. ASSUME NEW r \in Requests, Connected(r)  PROVE Late(p)'
  BY <1>8 DEF Connected
<1>9. ASSUME NEW r \in Requests, Listen(r)  PROVE Late(p)'
  <2>1. CASE exited' = "fatal" /\ UNCHANGED <<flags, pc, listening>>
    BY <1>9, <2>1 DEF Listen
  <2>2. CASE listening = {} /\ listening' = {r} /\ Opened(ctl[r]) /\ Goto(r, "loop")
    <3>1. pc[p] \notin Loop  BY <2>2
    <3>2. p # r => pc'[p] = pc[p]  BY <2>2
    <3>3. late' = late /\ (p = r => late[p] = 0)  BY <1>9 DEF Listen
    <3> QED  BY <2>2, <3>1, <3>2, <3>3
  <2> QED  BY <1>9, <2>1, <2>2 DEF Listen
<1>10. ASSUME NEW r \in Requests, CheckErr(r)  PROVE Late(p)'
  BY <1>10 DEF CheckErr
<1>11. ASSUME NEW r \in Requests, Report(r)  PROVE Late(p)'
  BY <1>11 DEF Report
<1>12. ASSUME NEW r \in Requests, CheckFlag(r)  PROVE Late(p)'
  BY <1>12 DEF CheckFlag
<1>13. ASSUME NEW r \in Requests, Accept(r)  PROVE Late(p)'
  BY <1>13 DEF Accept, AfterConn
<1>14. ASSUME NEW r \in Requests, Serve(r)  PROVE Late(p)'
  BY <1>14 DEF Serve
<1>15. ASSUME NEW r \in Requests, Finalize(r)  PROVE Late(p)'
  BY <1>15 DEF Finalize
<1>16. ASSUME NEW r \in Requests, Change(r)  PROVE Late(p)'
  BY <1>16 DEF Change
<1>17. ASSUME NEW r \in Requests, Ask(r) \/ Answer(r)  PROVE Late(p)'
  BY <1>17, Posting DEF Took
<1>19. ASSUME NEW r \in Requests, Asked(r)  PROVE Late(p)'
  BY <1>19 DEF Asked
<1>18. CASE UNCHANGED vars  BY <1>18 DEF vars
<1> QED  BY <1>1, <1>2, <1>3, <1>4, <1>5, <1>6, <1>7, <1>8, <1>9, <1>10, <1>11, <1>12, <1>13, <1>14, <1>15, <1>16, <1>17, <1>18, <1>19 DEF Next, SwitchStep, LoopStep

LEMMA ConfiguredStep ==
    ASSUME Places, Configured, [Next]_vars
    PROVE  Configured'
<1> USE DEF Places, Types, Owned, Configured, Changed
<1>1. ASSUME NEW r \in Requests, Switch(r)  PROVE Configured'
  BY <1>1 DEF Switch
<1>2. ASSUME NEW r \in Requests, New(r)  PROVE Configured'
  BY <1>2 DEF New
<1>3. ASSUME NEW r \in Requests, Start(r)  PROVE Configured'
  BY <1>3 DEF Start
<1>4. ASSUME NEW r \in Requests, TryClose(r)  PROVE Configured'
  BY <1>4 DEF TryClose
<1>5. ASSUME NEW r \in Requests, ChangeRoute(r)  PROVE Configured'
  BY <1>5 DEF ChangeRoute
<1>6. ASSUME NEW r \in Requests, Poll(r)  PROVE Configured'
  BY <1>6 DEF Poll
<1>7. ASSUME NEW r \in Requests, Tunnels(r)  PROVE Configured'
  BY <1>7 DEF Tunnels
<1>8. ASSUME NEW r \in Requests, Connected(r)  PROVE Configured'
  BY <1>8 DEF Connected
<1>9. ASSUME NEW r \in Requests, Listen(r)  PROVE Configured'
  BY <1>9 DEF Listen, Opened
<1>10. ASSUME NEW r \in Requests, CheckErr(r)  PROVE Configured'
  BY <1>10 DEF CheckErr
<1>11. ASSUME NEW r \in Requests, Report(r)  PROVE Configured'
  <2>1. PICK h \in Hosts \cup {nowconf[ctl[r]]} : nowconf' = [nowconf EXCEPT ![ctl[r]] = h]
    BY <1>11, Reporting
  <2>2. \A c \in Requests : nowconf[c] # Nil => nowconf'[c] # Nil  BY <2>1
  <2>3. ctl' = ctl /\ host' = host /\ (pc' = pc \/ (pc' = [pc EXCEPT ![r] = "flag"] /\ pc[r] = "report"))
    BY <1>11 DEF Report
  <2> QED  BY <2>2, <2>3
<1>12. ASSUME NEW r \in Requests, CheckFlag(r)  PROVE Configured'
  BY <1>12 DEF CheckFlag
<1>13. ASSUME NEW r \in Requests, Accept(r)  PROVE Configured'
  BY <1>13 DEF Accept, AfterConn
<1>14. ASSUME NEW r \in Requests, Serve(r)  PROVE Configured'
  BY <1>14 DEF Serve
<1>15. ASSUME NEW r \in Requests, Finalize(r)  PROVE Configured'
  BY <1>15 DEF Finalize
<1>16. ASSUME NEW r \in Requests, Change(r)  PROVE Configured'
  BY <1>16 DEF Change
<1>17. ASSUME NEW r \in Requests, Ask(r) \/ Answer(r)  PROVE Configured'
  BY <1>17, Posting DEF Took
<1>19. ASSUME NEW r \in Requests, Asked(r)  PROVE Configured'
  BY <1>19 DEF Asked
<1>18. CASE UNCHANGED vars  BY <1>18 DEF vars
<1> QED  BY <1>1, <1>2, <1>3, <1>4, <1>5, <1>6, <1>7, <1>8, <1>9, <1>10, <1>11, <1>12, <1>13, <1>14, <1>15, <1>16, <1>17, <1>18, <1>19 DEF Next, SwitchStep, LoopStep

LEMMA EndsStep ==
    ASSUME Places, Alone, Configured, EndsOnly, [Next]_vars
    PROVE  EndsOnly'
<1> USE DEF Places, Types, EndsOnly, Switches
<1>1. CASE UNCHANGED vars  BY <1>1 DEF vars
<1>2. CASE Next /\ exited' = "no"  BY <1>2
<1>3. ASSUME NEW r \in Requests, Listen(r), exited' # "no", exited = "no"  PROVE EndsOnly'
  <2>1. pc[r] = "listen" /\ listening # {} /\ exited' = "fatal" /\ UNCHANGED <<pc, listening, host>>
    BY <1>3 DEF Listen, request
  <2>2. PICK q \in Requests : q \in listening  BY <2>1
  <2>3. host[q] # Nil /\ q # r  BY <2>1, <2>2 DEF Alone
  <2>4. host[r] # Nil  BY <2>1 DEF Owned
  <2> QED  BY <2>1, <2>2, <2>3, <2>4
<1>4. ASSUME NEW r \in Requests, Connected(r) \/ CheckErr(r), exited' # "no", exited = "no"
      PROVE  EndsOnly'
  <2>1. exited' = "panic" /\ nowconf[ctl[r]] = Nil /\ pc[r] \in {"connected", "loop"}
        /\ UNCHANGED <<host, ctl>>
    BY <1>4 DEF Connected, CheckErr
  <2>2. Changed  BY <2>1 DEF Configured
  <2> QED  BY <2>1, <2>2 DEF Changed
<1>5. ASSUME NEW r \in Requests, Report(r), exited' # "no", exited = "no"  PROVE EndsOnly'
  <2>1. told[r] \in Address  BY <1>5 DEF Report, Owned
  <2>2. PICK h \in AnswersReport(told[r]) \cup {nowconf[ctl[r]]} : h = Nil /\ exited' = "panic"
    BY <1>5 DEF Report, Silent
  <2>4. nowconf[ctl[r]] = Nil  BY <2>1, <2>2, Answered
  <2>3. Changed  BY <1>5, <2>4 DEF Configured, Report
  <2> QED  BY <1>5, <2>2, <2>3 DEF Changed, Report
<1>6. ASSUME NEW r \in Requests,
             \/ SwitchStep(r) \/ Tunnels(r) \/ CheckFlag(r) \/ Accept(r)
             \/ Serve(r) \/ Finalize(r) \/ Change(r) \/ Ask(r) \/ Answer(r) \/ Asked(r)
      PROVE  exited' = exited
  BY <1>6 DEF SwitchStep, Switch, New, Start, TryClose, ChangeRoute, Poll, Tunnels, CheckFlag, Accept,
              Serve, Finalize, Change, Ask, Answer, Asked
<1> QED  BY <1>1, <1>2, <1>3, <1>4, <1>5, <1>6 DEF Next, LoopStep

-----------------------------------------------------------------------------
LEMMA InvInit == Init => IInv
<1> SUFFICES ASSUME Init  PROVE IInv  OBVIOUS
<1> USE DEF Init
<1>1. 0 \in 0 .. ErrLimit + 1 /\ 0 \in 0 .. 2 /\ "unborn" \in Steps  BY DEF Steps
<1>2. Types  BY <1>1 DEF Types
<1>3. \A r \in Requests : Owned(r)  BY DEF Owned
<1>4. Alone /\ Configured /\ EndsOnly /\ \A r \in Requests : Late(r)
  BY DEF Alone, Configured, EndsOnly, Late
<1> QED  BY <1>2, <1>3, <1>4 DEF IInv, Places

LEMMA InvStep == IInv /\ [Next]_vars => IInv'
<1> SUFFICES ASSUME IInv, [Next]_vars  PROVE IInv'  OBVIOUS
<1>0. Places /\ Alone /\ Configured /\ EndsOnly /\ \A r \in Requests : Late(r)  BY DEF IInv
<1>1. Types'  BY <1>0, TypesStep
<1>2. \A r \in Requests : Owned(r)'  BY <1>0, OwnedStep
<1>3. Alone'  BY <1>0, AloneStep
<1>4. Configured'  BY <1>0, ConfiguredStep
<1>5. EndsOnly'  BY <1>0, EndsStep
<1>6. \A r \in Requests : Late(r)'  BY <1>0, LateStep
<1> QED  BY <1>1, <1>2, <1>3, <1>4, <1>5, <1>6 DEF IInv, Places

(* The inductive invariant of the client's route.                          *)
THEOREM Invariance == Spec => []IInv
  BY InvInit, InvStep, PTL DEF Spec

(* Every variable keeps its type, and at most one loop listens.            *)
THEOREM TypeCorrect == Spec => []TypeOK
<1>1. IInv => TypeOK
  <2> SUFFICES ASSUME IInv  PROVE TypeOK  OBVIOUS
  <2>1. CASE listening = {}
    <3>1. Cardinality(listening) = 0  BY <2>1, FS_EmptySet
    <3> QED  BY <3>1 DEF IInv, Places, Types, TypeOK
  <2>2. ASSUME NEW q \in Requests, listening = {q}  PROVE TypeOK
    <3>1. Cardinality(listening) = 1  BY <2>2, FS_Singleton
    <3> QED  BY <3>1 DEF IInv, Places, Types, TypeOK
  <2> QED  BY <2>1, <2>2 DEF IInv, Alone
<1> QED  BY <1>1, Invariance, PTL

(* Socks5Listen: closed is never set while a loop of the control serves.   *)
THEOREM ClosedTrue == Spec => []ClosedTruth
<1>1. IInv => ClosedTruth  BY DEF IInv, Alone, ClosedTruth
<1> QED  BY <1>1, Invariance, PTL

(* Socks5Listen: a loop told to close takes one connection more at most.   *)
THEOREM OneMoreOnly == Spec => []OneMore
<1>1. IInv => OneMore  BY DEF IInv, Late, OneMore
<1> QED  BY <1>1, Invariance, PTL

(* The process ends only when two switches meet, or over a change.         *)
THEOREM EndsCorrect == Spec => []EndsOnly
<1>1. IInv => EndsOnly  BY DEF IInv
<1> QED  BY <1>1, Invariance, PTL
=============================================================================
