------------------------- MODULE StreamServer_proofs -------------------------
(***************************************************************************)
(* Proofs about StreamServer: for any number of sessions and streams, over *)
(* any transport.                                                          *)
(***************************************************************************)
EXTENDS StreamServer, FiniteSetTheorems, TLAPS

(* The types, but for the two counters: that these never go below zero is  *)
(* a consequence of what they count.                                       *)
Steps == Running \cup {"unopened", "queued", "release", "done"}
Types ==
    /\ ProxyType \in ProxyTypes /\ cons \subseteq Streams /\ alive \in Int
    /\ lost \in [Sessions -> BOOLEAN] /\ closed \in [Sessions -> BOOLEAN]
    /\ wg \in [Sessions -> Int]
    /\ acc \in [Sessions -> {"accept", "wait", "done"}]
    /\ sess \in [Streams -> Sessions \cup {NoSession}]
    /\ asks \in [Streams -> {"nothing", "host", "R", "bad"}]
    /\ ended \in [Streams -> BOOLEAN] /\ confirmed \in [Streams -> BOOLEAN]
    /\ pc \in [Streams -> Steps]
    /\ up \in [Streams -> {"none", "spawned", "copy", "shut", "done"}]
    /\ con \in [Streams -> {"open", "closed"}]
    /\ remote \in [Streams -> {"none", "refused", "open", "closed"}]
    /\ gone \in [Streams -> BOOLEAN] /\ relayed \in [Streams -> BOOLEAN]
    /\ \A st \in Streams : pc[st] # "unopened" => sess[st] \in Sessions

(* What a handler has opened, closed and promised, by the step it is at.   *)
Before == {"unopened", "queued", "request", "count", "dial"}
Ending == {"uncount", "release", "done"}
Handled(st) ==
    /\ pc[st] \in Before => up[st] = "none" /\ remote[st] = "none" /\ con[st] = "open"
    /\ pc[st] = "confirm" => up[st] = "none" /\ remote[st] = "open" /\ con[st] = "open"
    /\ pc[st] \in {"down", "shut", "join"} => up[st] # "none"
    /\ up[st] # "none" =>
         /\ pc[st] \notin Before \cup {"confirm"}
         /\ remote[st] = "closed" \/ (remote[st] = "open" /\ confirmed[st])
    /\ pc[st] = "join" \/ (pc[st] \in Ending /\ up[st] # "none") =>
         con[st] = "closed" /\ remote[st] = "closed"
    /\ pc[st] \in Ending /\ up[st] = "none" =>
         \/ remote[st] = "refused"
         \/ remote[st] = "none" /\ (con[st] = "closed" \/ asks[st] = "R")
    /\ relayed[st] => confirmed[st]

(* The handlers alive counts, and those a session's WaitGroup counts.      *)
Serving   == {st \in Streams : pc[st] \in Counted}
Awaited(s) == {st \in Streams : sess[st] = s /\ pc[st] \in Running \cup {"release"}}

(* The multiplexer is closed only by a goroutine that waited, and a        *)
(* goroutine that waits, or is done, starts no handler.                    *)
Waiting(s) ==
    /\ IF ProxyType = "quic" THEN acc[s] # "wait" ELSE wg[s] = Cardinality(Awaited(s))
    /\ closed[s] => acc[s] = "done" /\ Awaited(s) = {}

IInv ==
    /\ Types /\ AliveExact /\ \A st \in Streams : Handled(st)
    /\ \A s \in Sessions : Waiting(s) /\ (ProxyType = "quic" => wg[s] = 0)

-----------------------------------------------------------------------------
USE DEF tunnel, session, client, handler

LEMMA TypesStep == Types /\ [Next]_vars => Types'
<1> SUFFICES ASSUME Types, [Next]_vars  PROVE Types'  OBVIOUS
<1> USE DEF Types, Goto, GotoUp, Steps, Running, Counted, Released, Refused, Unconfirmed, CloseBoth, Undialed
<1>1. ASSUME NEW st \in Streams, NEW s \in Sessions, NEW what \in {"host", "R", "bad", "nothing"},
             Open(st, s, what)
      PROVE  Types'
  BY <1>1 DEF Open
<1>2. ASSUME NEW st \in Streams, EndStream(st) \/ EndRemote(st)  PROVE Types'
  <2>1. CASE EndStream(st)  BY <2>1 DEF EndStream
  <2>2. CASE EndRemote(st)  BY <2>2 DEF EndRemote
  <2> QED  BY <1>2, <2>1, <2>2
<1>3. ASSUME NEW s \in Sessions, Lose(s) \/ AcceptFails(s) \/ CloseMux(s)  PROVE Types'
  <2>1. CASE Lose(s)  BY <2>1 DEF Lose
  <2>2. CASE AcceptFails(s)
    <3>1. acc' \in [Sessions -> {"accept", "wait", "done"}]  BY <2>2 DEF AcceptFails
    <3> QED  BY <2>2, <3>1 DEF AcceptFails
  <2>3. CASE CloseMux(s)  BY <2>3 DEF CloseMux
  <2> QED  BY <1>3, <2>1, <2>2, <2>3
<1>4. ASSUME NEW s \in Sessions, NEW st \in Streams, AcceptStream(s, st)  PROVE Types'
  <2>1. wg' \in [Sessions -> Int]  BY <1>4 DEF AcceptStream
  <2>2. pc' = [pc EXCEPT ![st] = "request"]  BY <1>4 DEF AcceptStream
  <2> QED  BY <1>4, <2>1, <2>2 DEF AcceptStream
<1>5. ASSUME NEW st \in Streams, Handler(st)  PROVE Types'
  <2>1. CASE Request(st)  BY <2>1 DEF Request
  <2>2. CASE Count(st)  BY <2>2 DEF Count
  <2>3. CASE Dial(st)  BY <2>3 DEF Dial
  <2>4. CASE Confirm(st)  BY <2>4 DEF Confirm
  <2>5. CASE DownEnds(st)  BY <2>5 DEF DownEnds
  <2>6. CASE Shut(st)  BY <2>6 DEF Shut
  <2>7. CASE Join(st)  BY <2>7 DEF Join
  <2>8. CASE Uncount(st)  BY <2>8 DEF Uncount
  <2>9. CASE Release(st)  BY <2>9 DEF Release
  <2> QED  BY <1>5, <2>1, <2>2, <2>3, <2>4, <2>5, <2>6, <2>7, <2>8, <2>9 DEF Handler
<1>6. ASSUME NEW st \in Streams, Down(st)  PROVE Types'
  BY <1>6 DEF Down
<1>7. ASSUME NEW st \in Streams, Second(st) \/ Up(st)  PROVE Types'
  <2>1. CASE UpBegins(st)  BY <2>1 DEF UpBegins
  <2>2. CASE UpEnds(st)  BY <2>2 DEF UpEnds
  <2>3. CASE UpShut(st)  BY <2>3 DEF UpShut
  <2>4. CASE Up(st)  BY <2>4 DEF Up
  <2> QED  BY <1>7, <2>1, <2>2, <2>3, <2>4 DEF Second
<1>8. CASE UNCHANGED vars  BY <1>8 DEF vars
<1> QED  BY <1>1, <1>2, <1>3, <1>4, <1>5, <1>6, <1>7, <1>8 DEF Next, Environment, Acceptor

LEMMA HandledStep ==
    ASSUME Types, NEW e \in Streams, Handled(e), [Next]_vars
    PROVE  Handled(e)'
<1> USE DEF Types, Handled, Goto, GotoUp, Before, Ending, Steps, Running, Counted
<1>1. ASSUME NEW st \in Streams, NEW s \in Sessions, NEW what \in {"host", "R", "bad", "nothing"},
             Open(st, s, what)
      PROVE  Handled(e)'
  BY <1>1 DEF Open
<1>2. ASSUME NEW st \in Streams, EndStream(st) \/ EndRemote(st)  PROVE Handled(e)'
  BY <1>2 DEF EndStream, EndRemote
<1>3. ASSUME NEW s \in Sessions, Lose(s) \/ AcceptFails(s) \/ CloseMux(s)  PROVE Handled(e)'
  BY <1>3 DEF Lose, AcceptFails, CloseMux
<1>4. ASSUME NEW s \in Sessions, NEW st \in Streams, AcceptStream(s, st)  PROVE Handled(e)'
  BY <1>4 DEF AcceptStream
<1>5. ASSUME NEW st \in Streams, Handler(st)  PROVE Handled(e)'
  <2>1. CASE Request(st)  BY <2>1 DEF Request, Refused
  <2>2. CASE Count(st)  BY <2>2 DEF Count
  <2>3. CASE Dial(st)  BY <2>3 DEF Dial, Undialed
  <2>4. CASE Confirm(st)  BY <2>4 DEF Confirm, Unconfirmed
  <2>5. CASE DownEnds(st)  BY <2>5 DEF DownEnds
  <2>6. CASE Shut(st)  BY <2>6 DEF Shut, CloseBoth
  <2>7. CASE Join(st)  BY <2>7 DEF Join
  <2>8. CASE Uncount(st)  BY <2>8 DEF Uncount
  <2>9. CASE Release(st)  BY <2>9 DEF Release
  <2> QED  BY <1>5, <2>1, <2>2, <2>3, <2>4, <2>5, <2>6, <2>7, <2>8, <2>9 DEF Handler
<1>6. ASSUME NEW st \in Streams, Down(st)  PROVE Handled(e)'
  BY <1>6 DEF Down
<1>7. ASSUME NEW st \in Streams, Second(st) \/ Up(st)  PROVE Handled(e)'
  <2>1. CASE UpBegins(st)  BY <2>1 DEF UpBegins
  <2>2. CASE UpEnds(st)  BY <2>2 DEF UpEnds
  <2>3. CASE UpShut(st)  BY <2>3 DEF UpShut, CloseBoth
  <2>4. CASE Up(st)  BY <2>4 DEF Up
  <2> QED  BY <1>7, <2>1, <2>2, <2>3, <2>4 DEF Second
<1>8. CASE UNCHANGED vars  BY <1>8 DEF vars
<1> QED  BY <1>1, <1>2, <1>3, <1>4, <1>5, <1>6, <1>7, <1>8 DEF Next, Environment, Acceptor

-----------------------------------------------------------------------------
LEMMA Finite ==
    Types => /\ IsFiniteSet(Serving) /\ Cardinality(Serving) \in Nat
             /\ \A s \in Sessions : IsFiniteSet(Awaited(s)) /\ Cardinality(Awaited(s)) \in Nat
<1>1. Serving \subseteq Streams /\ \A s \in Sessions : Awaited(s) \subseteq Streams
  BY DEF Serving, Awaited
<1> QED  BY <1>1, StreamAssumption, FS_Subset, FS_CardinalityType

(* A step neither enters nor leaves the part that is counted.              *)
Level(set) == \A e \in Streams : pc'[e] \in set <=> pc[e] \in set

LEMMA Levels ==
    ASSUME Types, [Next]_vars
    PROVE  /\ (\E st \in Streams : Count(st) \/ Uncount(st)) \/ (alive' = alive /\ Level(Counted))
           /\ \/ \E st \in Streams : Release(st) \/ \E s \in Sessions : AcceptStream(s, st)
              \/ wg' = wg /\ Level(Running \cup {"release"})
           /\ ProxyType' = ProxyType
           /\ \A e \in Streams : pc[e] # "unopened" => sess'[e] = sess[e]
           /\ (\E s \in Sessions : AcceptFails(s) \/ CloseMux(s)) \/ (acc' = acc /\ closed' = closed)
<1> DEFINE Claim ==
             /\ (\E st \in Streams : Count(st) \/ Uncount(st)) \/ (alive' = alive /\ Level(Counted))
             /\ \/ \E st \in Streams : Release(st) \/ \E s \in Sessions : AcceptStream(s, st)
                \/ wg' = wg /\ Level(Running \cup {"release"})
             /\ ProxyType' = ProxyType
             /\ \A e \in Streams : pc[e] # "unopened" => sess'[e] = sess[e]
             /\ (\E s \in Sessions : AcceptFails(s) \/ CloseMux(s)) \/ (acc' = acc /\ closed' = closed)
<1> SUFFICES Claim  OBVIOUS
<1>0. pc \in [Streams -> Steps] /\ sess \in [Streams -> Sessions \cup {NoSession}]
  BY DEF Types
<1>m. ASSUME NEW st \in Streams, NEW x, pc' = [pc EXCEPT ![st] = x],
             (x \in Counted) <=> (pc[st] \in Counted)
      PROVE  Level(Counted)
  BY <1>0, <1>m DEF Level
<1>n. ASSUME NEW st \in Streams, NEW x, pc' = [pc EXCEPT ![st] = x],
             (x \in Running \cup {"release"}) <=> (pc[st] \in Running \cup {"release"})
      PROVE  Level(Running \cup {"release"})
  BY <1>0, <1>n DEF Level
<1>s. pc' = pc => Level(Counted) /\ Level(Running \cup {"release"})  BY DEF Level
<1> USE DEF Goto
<1>1. ASSUME NEW st \in Streams, NEW s \in Sessions, NEW what \in {"host", "R", "bad", "nothing"},
             Open(st, s, what)
      PROVE  Claim
  BY <1>0, <1>1, <1>m, <1>n DEF Open, Running, Counted
<1>2. ASSUME NEW st \in Streams, EndStream(st) \/ EndRemote(st)  PROVE Claim
  BY <1>2, <1>s DEF EndStream, EndRemote
<1>3. ASSUME NEW s \in Sessions, Lose(s) \/ AcceptFails(s) \/ CloseMux(s)  PROVE Claim
  BY <1>3, <1>s DEF Lose, AcceptFails, CloseMux
<1>4. ASSUME NEW s \in Sessions, NEW st \in Streams, AcceptStream(s, st)  PROVE Claim
  BY <1>4, <1>m DEF AcceptStream, Counted
<1>5. ASSUME NEW st \in Streams, Handler(st)  PROVE Claim
  <2>1. CASE Request(st)  BY <2>1, <1>m, <1>n DEF Request, Running, Counted
  <2>2. CASE Count(st)  BY <2>2, <1>n DEF Count, Running, Counted
  <2>3. CASE Dial(st)  BY <2>3, <1>m, <1>n DEF Dial, Undialed, Running, Counted
  <2>4. CASE Confirm(st)  BY <2>4, <1>m, <1>n DEF Confirm, Running, Counted
  <2>5. CASE DownEnds(st)  BY <2>5, <1>m, <1>n DEF DownEnds, Running, Counted
  <2>6. CASE Shut(st)  BY <2>6, <1>m, <1>n DEF Shut, Running, Counted
  <2>7. CASE Join(st)  BY <2>7, <1>m, <1>n DEF Join, Running, Counted
  <2>8. CASE Uncount(st)  BY <2>8, <1>n DEF Uncount, Running, Counted
  <2>9. CASE Release(st)  BY <2>9, <1>m DEF Release, Running, Counted
  <2> QED  BY <1>5, <2>1, <2>2, <2>3, <2>4, <2>5, <2>6, <2>7, <2>8, <2>9 DEF Handler
<1>6. ASSUME NEW st \in Streams, Down(st)  PROVE Claim
  <2>1. pc' = pc \/ (pc[st] = "down" /\ pc' = [pc EXCEPT ![st] = "shut"])  BY <1>6 DEF Down
  <2>2. Level(Counted) /\ Level(Running \cup {"release"})
    BY <2>1, <1>s, <1>m, <1>n DEF Running, Counted
  <2> QED  BY <1>6, <2>2 DEF Down
<1>7. ASSUME NEW st \in Streams, Second(st) \/ Up(st)  PROVE Claim
  BY <1>7, <1>s DEF Second, UpBegins, UpEnds, UpShut, Up
<1>8. CASE UNCHANGED vars  BY <1>8, <1>s DEF vars
<1> HIDE DEF Claim
<1> QED  BY <1>1, <1>2, <1>3, <1>4, <1>5, <1>6, <1>7, <1>8 DEF Next, Environment, Acceptor

LEMMA AliveStep == Types /\ AliveExact /\ [Next]_vars => AliveExact'
<1> SUFFICES ASSUME Types, AliveExact, [Next]_vars  PROVE AliveExact'  OBVIOUS
<1>0. pc \in [Streams -> Steps]  BY DEF Types
<1>a. alive = Cardinality(Serving) /\ (AliveExact' <=> alive' = Cardinality(Serving'))
  BY DEF AliveExact, Serving
<1>1. CASE alive' = alive /\ Level(Counted)
  <2>1. Serving' = Serving  BY <1>1 DEF Serving, Level
  <2> QED  BY <1>1, <1>a, <2>1
<1>2. ASSUME NEW st \in Streams, Count(st)  PROVE AliveExact'
  <2>1. Serving' = Serving \cup {st} /\ st \notin Serving
    BY <1>0, <1>2 DEF Count, Goto, Serving, Counted
  <2>2. Cardinality(Serving \cup {st}) = Cardinality(Serving) + 1
    BY <2>1, Finite, FS_AddElement
  <2> QED  BY <1>2, <1>a, <2>1, <2>2 DEF Count
<1>3. ASSUME NEW st \in Streams, Uncount(st)  PROVE AliveExact'
  <2>1. Serving' = Serving \ {st} /\ st \in Serving
    BY <1>0, <1>3 DEF Uncount, Goto, Serving, Counted
  <2>2. Cardinality(Serving \ {st}) = Cardinality(Serving) - 1
    BY <2>1, Finite, FS_RemoveElement
  <2> QED  BY <1>3, <1>a, <2>1, <2>2 DEF Uncount
<1> QED  BY <1>1, <1>2, <1>3, Levels

LEMMA WaitingStep ==
    ASSUME Types, \A s \in Sessions : Waiting(s) /\ (ProxyType = "quic" => wg[s] = 0), [Next]_vars,
           NEW s \in Sessions
    PROVE  Waiting(s)' /\ (ProxyType' = "quic" => wg'[s] = 0)
<1> DEFINE Goal == Waiting(s)' /\ (ProxyType' = "quic" => wg'[s] = 0)
<1> SUFFICES Goal  OBVIOUS
<1>0. /\ pc \in [Streams -> Steps] /\ wg \in [Sessions -> Int]
      /\ acc \in [Sessions -> {"accept", "wait", "done"}] /\ closed \in [Sessions -> BOOLEAN]
      /\ ProxyType' = ProxyType
  BY Levels DEF Types
<1>1. ASSUME wg' = wg, Level(Running \cup {"release"})
      PROVE  Awaited(s)' = Awaited(s)
  <2>1. \A e \in Streams : pc[e] \in Running \cup {"release"} => sess'[e] = sess[e]
    BY Levels DEF Running, Counted
  <2> QED  BY <1>1, <2>1 DEF Awaited, Level
<1>2. CASE wg' = wg /\ Level(Running \cup {"release"}) /\ acc' = acc /\ closed' = closed
  BY <1>0, <1>1, <1>2 DEF Waiting
<1>3. ASSUME NEW t \in Sessions, AcceptFails(t)  PROVE Goal
  <2>1. wg' = wg /\ closed' = closed /\ pc' = pc /\ acc[t] = "accept"
        /\ acc' = [acc EXCEPT ![t] = IF ProxyType = "quic" THEN "done" ELSE "wait"]
    BY <1>3 DEF AcceptFails
  <2>2. Awaited(s)' = Awaited(s)  BY <1>1, <2>1 DEF Level
  <2>3. ~closed[t]  BY <2>1 DEF Waiting
  <2>4. acc'[s] = acc[s] \/ (s = t /\ (ProxyType = "quic" => acc'[s] = "done"))
    BY <1>0, <2>1
  <2> QED  BY <1>0, <2>1, <2>2, <2>3, <2>4 DEF Waiting
<1>4. ASSUME NEW t \in Sessions, CloseMux(t)  PROVE Goal
  <2>1. wg' = wg /\ pc' = pc /\ acc[t] = "wait" /\ wg[t] = 0
        /\ acc' = [acc EXCEPT ![t] = "done"] /\ closed' = [closed EXCEPT ![t] = TRUE]
    BY <1>4 DEF CloseMux, Waited
  <2>2. Awaited(s)' = Awaited(s)  BY <1>1, <2>1 DEF Level
  <2>3. ProxyType # "quic" /\ Cardinality(Awaited(t)) = 0  BY <2>1 DEF Waiting
  <2>4. Awaited(t) = {}  BY <2>3, Finite, FS_EmptySet
  <2>5. CASE s = t
    <3>1. acc'[s] = "done"  BY <1>0, <2>1, <2>5
    <3> QED  BY <1>0, <2>1, <2>2, <2>3, <2>4, <2>5, <3>1 DEF Waiting
  <2>6. CASE s # t
    <3>1. acc'[s] = acc[s] /\ closed'[s] = closed[s]  BY <1>0, <2>1, <2>6
    <3> QED  BY <1>0, <2>1, <2>2, <2>3, <3>1 DEF Waiting
  <2> QED  BY <2>5, <2>6
<1>5. ASSUME NEW t \in Sessions, NEW st \in Streams, AcceptStream(t, st)  PROVE Goal
  <2>1. /\ acc[t] = "accept" /\ pc[st] = "queued" /\ sess[st] = t
        /\ pc' = [pc EXCEPT ![st] = "request"] /\ sess' = sess /\ acc' = acc /\ closed' = closed
        /\ wg' = IF ProxyType = "quic" THEN wg ELSE [wg EXCEPT ![t] = @ + 1]
    BY <1>5 DEF AcceptStream, Goto
  <2>2. ~closed[t]  BY <2>1 DEF Waiting
  <2>3. CASE s = t
    <3>1. Awaited(s)' = Awaited(s) \cup {st} /\ st \notin Awaited(s)
      BY <1>0, <2>1, <2>3 DEF Awaited, Running, Counted
    <3>2. Cardinality(Awaited(s) \cup {st}) = Cardinality(Awaited(s)) + 1
      BY <3>1, Finite, FS_AddElement
    <3>3. ProxyType # "quic" => wg'[s] = wg[s] + 1  BY <1>0, <2>1, <2>3
    <3> QED  BY <1>0, <2>1, <2>2, <2>3, <3>1, <3>2, <3>3 DEF Waiting
  <2>4. CASE s # t
    <3>1. Awaited(s)' = Awaited(s)  BY <1>0, <2>1, <2>4 DEF Awaited
    <3>2. wg'[s] = wg[s]  BY <1>0, <2>1, <2>4
    <3> QED  BY <1>0, <2>1, <3>1, <3>2 DEF Waiting
  <2> QED  BY <2>3, <2>4
<1>6. ASSUME NEW st \in Streams, Release(st)  PROVE Goal
  <2>1. /\ pc[st] = "release" /\ sess[st] \in Sessions
        /\ pc' = [pc EXCEPT ![st] = "done"] /\ sess' = sess /\ acc' = acc /\ closed' = closed
        /\ wg' = IF ProxyType = "quic" THEN wg ELSE [wg EXCEPT ![sess[st]] = @ - 1]
    BY <1>6 DEF Release, Released, Goto, Types
  <2>2. CASE s = sess[st]
    <3>1. Awaited(s)' = Awaited(s) \ {st} /\ st \in Awaited(s)
      BY <1>0, <2>1, <2>2 DEF Awaited, Running, Counted
    <3>2. Cardinality(Awaited(s) \ {st}) = Cardinality(Awaited(s)) - 1
      BY <3>1, Finite, FS_RemoveElement
    <3>3. ProxyType # "quic" => wg'[s] = wg[s] - 1  BY <1>0, <2>1, <2>2
    <3> QED  BY <1>0, <2>1, <2>2, <3>1, <3>2, <3>3 DEF Waiting
  <2>3. CASE s # sess[st]
    <3>1. Awaited(s)' = Awaited(s)  BY <1>0, <2>1, <2>3 DEF Awaited
    <3>2. wg'[s] = wg[s]  BY <1>0, <2>1, <2>3
    <3> QED  BY <1>0, <2>1, <3>1, <3>2 DEF Waiting
  <2> QED  BY <2>2, <2>3
<1> HIDE DEF Goal
<1>7. CASE wg' = wg /\ Level(Running \cup {"release"})
  <2>1. CASE acc' = acc /\ closed' = closed  BY <1>2, <1>7, <2>1 DEF Goal
  <2>2. CASE \E t \in Sessions : AcceptFails(t) \/ CloseMux(t)  BY <1>3, <1>4, <2>2
  <2> QED  BY <2>1, <2>2, Levels
<1> QED  BY <1>5, <1>6, <1>7, Levels

-----------------------------------------------------------------------------
LEMMA InvInit == Init => IInv
<1> SUFFICES ASSUME Init  PROVE IInv  OBVIOUS
<1> USE DEF Init
<1>1. Types
  <2>1. 0 \in Int /\ "unopened" \in Steps  BY DEF Steps
  <2> QED  BY <2>1 DEF Types
<1>2. Serving = {} /\ \A s \in Sessions : Awaited(s) = {}
  BY DEF Serving, Awaited, Running, Counted
<1>3. Cardinality({}) = 0  BY FS_EmptySet
<1>4. AliveExact  BY <1>2, <1>3 DEF AliveExact, Serving
<1>5. \A st \in Streams : Handled(st)  BY DEF Handled, Before, Ending
<1>6. \A s \in Sessions : Waiting(s) /\ (ProxyType = "quic" => wg[s] = 0)
  BY <1>2, <1>3 DEF Waiting
<1> QED  BY <1>1, <1>4, <1>5, <1>6 DEF IInv

LEMMA InvStep == IInv /\ [Next]_vars => IInv'
<1> SUFFICES ASSUME IInv, [Next]_vars  PROVE IInv'  OBVIOUS
<1>1. Types'  BY TypesStep DEF IInv
<1>2. AliveExact'  BY AliveStep DEF IInv
<1>3. \A st \in Streams : Handled(st)'  BY HandledStep DEF IInv
<1>4. \A s \in Sessions : Waiting(s)' /\ (ProxyType' = "quic" => wg'[s] = 0)
  BY WaitingStep DEF IInv
<1> QED  BY <1>1, <1>2, <1>3, <1>4 DEF IInv

(* The inductive invariant of the stream server.                           *)
THEOREM Invariance == Spec => []IInv
  BY InvInit, InvStep, PTL DEF Spec

(* Every variable keeps its type: neither alive nor a WaitGroup ever goes  *)
(* below zero, at which wg.Done would panic.                               *)
THEOREM TypeCorrect == Spec => []TypeOK
<1>1. IInv => TypeOK
  <2> SUFFICES ASSUME IInv  PROVE TypeOK  OBVIOUS
  <2>1. alive \in Nat  BY Finite DEF IInv, AliveExact, Serving
  <2>2. \A s \in Sessions : wg[s] \in Nat  BY Finite DEF IInv, Waiting
  <2>3. wg \in [Sessions -> Nat]  BY <2>2 DEF IInv, Types
  <2> QED  BY <2>1, <2>3 DEF IInv, Types, TypeOK, Steps
<1> QED  BY <1>1, Invariance, PTL

(* AccpetStream: the multiplexer of a session is closed when none of its   *)
(* handlers is running any more.                                           *)
THEOREM ClosedCorrect == Spec => []ClosedIsQuiet
<1>1. IInv => ClosedIsQuiet
  <2> SUFFICES ASSUME IInv, NEW st \in Streams, pc[st] \in Running  PROVE ~closed[sess[st]]
    BY DEF ClosedIsQuiet
  <2>1. sess[st] \in Sessions  BY DEF IInv, Types, Running, Counted
  <2>2. st \in Awaited(sess[st])  BY DEF Awaited
  <2> QED  BY <2>1, <2>2 DEF IInv, Waiting
<1> QED  BY <1>1, Invariance, PTL

(* HandleConnAsync: alive counts the handlers that serve a request, however*)
(* they end.                                                               *)
THEOREM AliveCorrect == Spec => []AliveExact
<1>1. IInv => AliveExact  BY DEF IInv
<1> QED  BY <1>1, Invariance, PTL

(* Pipe and TcpNormal: a handler that returned left no connection to a     *)
(* remote open, whichever direction ended first.                           *)
THEOREM NothingLeft == Spec => []NoRemoteLeft
<1>1. IInv => NoRemoteLeft  BY DEF IInv, Handled, Ending, NoRemoteLeft
<1> QED  BY <1>1, Invariance, PTL

(* TcpNormal: a handler that returned left its stream open only if it      *)
(* could not dial, or was asked R://.                                      *)
THEOREM LeftCorrect == Spec => []LeftOpen
<1>1. IInv => LeftOpen  BY DEF IInv, Handled, Ending, LeftOpen
<1> QED  BY <1>1, Invariance, PTL

(* TcpNormal: nothing is relayed on a stream that was never confirmed.     *)
THEOREM ConfirmedFirst == Spec => []ConfirmFirst
<1>1. IInv => ConfirmFirst  BY DEF IInv, Handled, ConfirmFirst
<1> QED  BY <1>1, Invariance, PTL
=============================================================================
