----------------------- MODULE TunnelRegistry_proofs -----------------------
(***************************************************************************)
(* Proofs about TunnelRegistry: the registry's invariants for any number   *)
(* of requests, any number in progress at a time and any set of ports.     *)
(***************************************************************************)
EXTENDS TunnelRegistry, FiniteSetTheorems, TLAPS

Elements(s) == {s[i] : i \in DOMAIN s}
Distinct(s) == \A i, j \in DOMAIN s : s[i] = s[j] => i = j

(* DelProxy's new list is a list again, has every tunnel but t, and no     *)
(* tunnel twice if the old one had none twice.                             *)
LEMMA WithoutFacts ==
    ASSUME NEW S, NEW s \in Seq(S), NEW t, Distinct(s)
    PROVE  /\ Without(s, t) \in Seq(S)
           /\ Elements(Without(s, t)) = Elements(s) \ {t}
           /\ Distinct(Without(s, t))
<1>1. CASE ~ \E i \in DOMAIN s : s[i] = t
  <2>1. Without(s, t) = s  BY <1>1 DEF Without
  <2> QED  BY <1>1, <2>1 DEF Elements
<1>2. CASE \E i \in DOMAIN s : s[i] = t
  <2> DEFINE i == CHOOSE j \in DOMAIN s : s[j] = t
             w == [j \in 1 .. Len(s) - 1 |-> IF j < i THEN s[j] ELSE s[j + 1]]
  <2>1. Without(s, t) = w  BY <1>2 DEF Without
  <2>2. i \in 1 .. Len(s) /\ s[i] = t  BY <1>2
  <2> HIDE DEF i
  <2>3. Len(s) - 1 \in Nat  BY <2>2
  <2>4. \A j \in 1 .. Len(s) - 1 : w[j] = IF j < i THEN s[j] ELSE s[j + 1]
    OBVIOUS
  <2>5. \A j \in 1 .. Len(s) - 1 : w[j] \in S  BY <2>2, <2>4
  <2>6. w \in Seq(S) /\ DOMAIN w = 1 .. Len(s) - 1  BY <2>3, <2>5
  <2> HIDE DEF w
  <2>7. Distinct(w)
    <3> SUFFICES ASSUME NEW j \in DOMAIN w, NEW k \in DOMAIN w, w[j] = w[k]  PROVE j = k
      BY DEF Distinct
    <3> DEFINE Old(n) == IF n < i THEN n ELSE n + 1
    <3>1. /\ w[j] = s[Old(j)] /\ Old(j) \in DOMAIN s
          /\ w[k] = s[Old(k)] /\ Old(k) \in DOMAIN s
      BY <2>2, <2>4, <2>6
    <3>2. Old(j) = Old(k)  BY <3>1 DEF Distinct
    <3> QED  BY <3>2, <2>2, <2>6
  <2>8. Elements(w) \subseteq Elements(s) \ {t}
    <3> SUFFICES ASSUME NEW j \in DOMAIN w  PROVE w[j] \in Elements(s) /\ w[j] # t
      BY DEF Elements
    <3> QED  BY <2>2, <2>4, <2>6 DEF Elements, Distinct
  <2>9. Elements(s) \ {t} \subseteq Elements(w)
    <3> SUFFICES ASSUME NEW k \in DOMAIN s, s[k] # t  PROVE \E j \in DOMAIN w : w[j] = s[k]
      BY DEF Elements
    <3>1. CASE k < i  BY <3>1, <2>2, <2>4, <2>6
    <3>2. CASE k > i
      <4>1. k - 1 \in DOMAIN w /\ w[k - 1] = s[k]  BY <3>2, <2>2, <2>4, <2>6
      <4> QED  BY <4>1
    <3> QED  BY <3>1, <3>2, <2>2
  <2> QED  BY <2>1, <2>6, <2>7, <2>8, <2>9
<1> QED  BY <1>1, <1>2

LEMMA AppendFacts ==
    ASSUME NEW S, NEW s \in Seq(S), NEW t \in S, Distinct(s), t \notin Elements(s)
    PROVE  /\ Append(s, t) \in Seq(S)
           /\ Elements(Append(s, t)) = Elements(s) \cup {t}
           /\ Distinct(Append(s, t))
<1> DEFINE a == Append(s, t)
<1>1. a \in Seq(S) /\ DOMAIN a = 1 .. Len(s) + 1 /\ DOMAIN s = 1 .. Len(s) /\ Len(s) \in Nat
  OBVIOUS
<1>2. a[Len(s) + 1] = t /\ \A j \in DOMAIN s : a[j] = s[j]
  OBVIOUS
<1> HIDE DEF a
<1>3. Elements(a) \subseteq Elements(s) \cup {t}  BY <1>1, <1>2 DEF Elements
<1>4. Elements(s) \cup {t} \subseteq Elements(a)  BY <1>1, <1>2 DEF Elements
<1>5. Distinct(a)  BY <1>1, <1>2 DEF Elements, Distinct
<1> QED  BY <1>1, <1>3, <1>4, <1>5 DEF a

-----------------------------------------------------------------------------
(* What holds of the goroutines' local variables, whatever the schedule:   *)
(* where a tunnel in hand comes from, that a goroutine in DelProxy has a   *)
(* tunnel to delete, that a request makes one tunnel and starts one server *)
(* at most, and that every list and every copy of it holds added tunnels.  *)
ServerSteps == {"listen", "select", "accept", "exit"}
DelSteps    == {"del", "close", "count", "store"}

PcInv ==
    /\ \A h \in Handlers : pc[h] \notin ServerSteps
    /\ \A k \in Servers : pc[k] \in ServerSteps \cup DelSteps \cup {"idle", "done"}

HandInv ==
    /\ \A h \in Handlers : pc[h] \in {"load", "append"} => tu[h] = h /\ h \in made
    /\ \A h \in Handlers : pc[h] \in {"check", "start"} => tu[h] \in added

WorkInv ==
    /\ \A p \in Procs : pc[p] \in DelSteps => todo[p] # <<>>
    /\ \A p \in Procs : Elements(todo[p]) \subseteq made \cup {None}
    /\ \A p \in Procs : pc[p] \in {"close", "count"} => Head(todo[p]) \in made

ServeInv ==
    /\ \A k \in Servers : pc[k] \in ServerSteps => serves[k] \in made
    /\ \A h \in Handlers :
         pc[h] # "done" => pc[ServerOf(h)] = "idle" /\ serves[ServerOf(h)] = None

OnceInv ==
    /\ \A h \in made : pc[h] \in {"load", "append", "check", "start", "done"}
    /\ \A h \in added : pc[h] \in {"check", "start", "done"}

AddedInv ==
    /\ added \subseteq made /\ Listed \subseteq added /\ deleted \subseteq added
    /\ \A p \in Procs : Elements(seen[p]) \subseteq added

LocalsInv == PcInv /\ HandInv /\ WorkInv /\ ServeInv /\ OnceInv /\ AddedInv

ListsInv == Distinct(Tunnels) /\ \A p \in Procs : Distinct(seen[p])

IInv == TypeOK /\ LocalsInv /\ ListsInv

LEMMA ProcFacts ==
    /\ Handlers \subseteq Procs /\ Servers \subseteq Procs
    /\ Handlers \cap Servers = {} /\ Free \notin Procs /\ None \notin Handlers
    /\ \A h \in Handlers : ServerOf(h) \in Servers
    /\ \A h, g \in Handlers : ServerOf(h) = ServerOf(g) => h = g
BY RegistryAssumption DEF Handlers, Servers, Procs, ServerOf, Free, None

LEMMA InitIInv == Init => IInv
<1> SUFFICES ASSUME Init  PROVE IInv
  OBVIOUS
<1> USE RegistryAssumption, ProcFacts
<1>1. TypeOK
  <2>1. GlobalsOK  BY DEF Init, GlobalsOK, Types
  <2>2. TunnelsOK  BY DEF Init, TunnelsOK, made
  <2>3. HostOK  BY DEF Init, HostOK
  <2>4. PcOK  BY DEF Init, PcOK, Steps
  <2>5. LocalsOK  BY DEF Init, LocalsOK, Types
  <2>6. BoundsOK  BY DEF Init, BoundsOK
  <2>7. HistoryOK  BY DEF Init, HistoryOK
  <2> QED  BY <2>1, <2>2, <2>3, <2>4, <2>5, <2>6, <2>7 DEF TypeOK
<1>2. LocalsInv
  BY DEF Init, LocalsInv, PcInv, HandInv, WorkInv, ServeInv, OnceInv, AddedInv, ServerSteps,
       DelSteps, Elements, made, Listed, Tunnelids
<1>3. ListsInv  BY DEF Init, ListsInv, Distinct
<1> QED  BY <1>1, <1>2, <1>3 DEF IInv

LEMMA Frame ==
    /\ GlobalsOK /\ UNCHANGED globals => GlobalsOK'
    /\ TunnelsOK /\ UNCHANGED tunnels => TunnelsOK'
    /\ HostOK /\ UNCHANGED host => HostOK'
    /\ PcOK /\ UNCHANGED pc => PcOK'
    /\ LocalsOK /\ UNCHANGED locals => LocalsOK'
    /\ BoundsOK /\ UNCHANGED bounds => BoundsOK'
    /\ HistoryOK /\ UNCHANGED history => HistoryOK'
<1>1. GlobalsOK /\ UNCHANGED globals => GlobalsOK'  BY DEF GlobalsOK, globals
<1>2. TunnelsOK /\ UNCHANGED tunnels => TunnelsOK'  BY DEF TunnelsOK, tunnels, made
<1>3. HostOK /\ UNCHANGED host => HostOK'  BY DEF HostOK, host
<1>4. PcOK /\ UNCHANGED pc => PcOK'  BY DEF PcOK
<1>5. LocalsOK /\ UNCHANGED locals => LocalsOK'  BY DEF LocalsOK, locals
<1>6. BoundsOK /\ UNCHANGED bounds => BoundsOK'  BY DEF BoundsOK, bounds
<1>7. HistoryOK /\ UNCHANGED history => HistoryOK'  BY DEF HistoryOK, history
<1> QED  BY <1>1, <1>2, <1>3, <1>4, <1>5, <1>6, <1>7

LEMMA GotoOK ==
    ASSUME PcOK, NEW p \in Procs, NEW step \in Steps, Goto(p, step)
    PROVE  PcOK'
BY DEF PcOK, Goto

LEMMA NextTypeOK == IInv /\ [Next]_vars => TypeOK'
<1> SUFFICES ASSUME IInv, [Next]_vars  PROVE TypeOK'
  OBVIOUS
<1> USE DEF IInv, TypeOK
<1>1. ASSUME NEW h \in Handlers, GetAny(h)  PROVE TypeOK'
  <2>1. BoundsOK'  BY <1>1, RegistryAssumption DEF GetAny, Begin, BoundsOK, Handlers
  <2>2. LocalsOK'  BY <1>1 DEF GetAny, Begin, LocalsOK, Types
  <2>3. PcOK'  BY <1>1, GotoOK, ProcFacts DEF GetAny, Steps
  <2> QED  BY <1>1, Frame, <2>1, <2>2, <2>3 DEF GetAny
<1>2. ASSUME NEW h \in Handlers, NEW ty \in Types \cup {"other"}, GetTyped(h, ty)  PROVE TypeOK'
  <2>1. BoundsOK'  BY <1>2, RegistryAssumption DEF GetTyped, Begin, BoundsOK, Handlers
  <2>2. \A i \in DOMAIN Tunnels : Tunnels[i] \in Tunnelids  BY <1>2 DEF GetTyped, GlobalsOK
  <2>3. tu' \in [Handlers -> Tunnelids \cup {None}]  BY <1>2, <2>2 DEF GetTyped, LocalsOK,
       Found
  <2>4. want' \in [Handlers -> Types]  BY <1>2, <2>2, <2>3 DEF GetTyped, LocalsOK, Switch,
       Types
  <2>5. LocalsOK'  BY <1>2, <2>2, <2>3, <2>4 DEF GetTyped, Begin, LocalsOK
  <2>6. PcOK'  BY <1>2, <2>2, <2>3, <2>4, GotoOK, ProcFacts DEF GetTyped, Steps, Found
  <2> QED  BY <1>2, Frame, <2>1, <2>2, <2>3, <2>4, <2>5, <2>6 DEF GetTyped
<1>3. ASSUME NEW h \in Handlers, NEW t \in made \cup {None}, ReportErr(h, t)  PROVE TypeOK'
  <2>1. BoundsOK'  BY <1>3, RegistryAssumption DEF ReportErr, Begin, BoundsOK, Handlers
  <2>2. <<>> \in Seq(Tunnelids \cup {None}) /\ <<t>> \in Seq(Tunnelids \cup {None})  BY <1>3
       DEF ReportErr, TunnelsOK
  <2>3. LocalsOK'  BY <1>3, <2>2, ProcFacts DEF ReportErr, Begin, LocalsOK
  <2>4. PcOK'  BY <1>3, <2>2, GotoOK, ProcFacts DEF ReportErr, Steps
  <2> QED  BY <1>3, Frame, <2>1, <2>2, <2>3, <2>4 DEF ReportErr
<1>4. ASSUME NEW h \in Handlers, ProxyNew(h)  PROVE TypeOK'
  <2>1. BoundsOK'  BY <1>4, RegistryAssumption DEF ProxyNew, Begin, BoundsOK, Handlers
  <2>2. LocalsOK'  BY <1>4 DEF ProxyNew, Begin, LocalsOK, Types
  <2>3. PcOK'  BY <1>4, GotoOK, ProcFacts DEF ProxyNew, Steps
  <2> QED  BY <1>4, Frame, <2>1, <2>2, <2>3 DEF ProxyNew
<1>5. ASSUME NEW h \in Handlers, NEW t \in made \cup {None}, ProxyDel(h, t)  PROVE TypeOK'
  <2>1. BoundsOK'  BY <1>5, RegistryAssumption DEF ProxyDel, Begin, BoundsOK, Handlers
  <2>2. LocalsOK'  BY <1>5, ProcFacts DEF ProxyDel, Begin, LocalsOK, TunnelsOK
  <2>3. PcOK'  BY <1>5, GotoOK, ProcFacts DEF ProxyDel, Steps
  <2> QED  BY <1>5, Frame, <2>1, <2>2, <2>3 DEF ProxyDel
<1>6. ASSUME NEW h \in Handlers, CloseAll(h)  PROVE TypeOK'
  <2>1. BoundsOK'  BY <1>6, RegistryAssumption DEF CloseAll, Begin, BoundsOK, Handlers
  <2>2. LocalsOK'  BY <1>6, ProcFacts DEF CloseAll, Begin, LocalsOK, GlobalsOK
  <2>3. PcOK'  BY <1>6, GotoOK, ProcFacts DEF CloseAll, Steps
  <2> QED  BY <1>6, Frame, <2>1, <2>2, <2>3 DEF CloseAll
<1>7. ASSUME NEW h \in Handlers, Rotate(h)  PROVE TypeOK'
  <2>1. GlobalsOK'  BY <1>7, ProcFacts DEF Rotate, Lock, GlobalsOK
  <2>2. PcOK'  BY <1>7, GotoOK, ProcFacts DEF Rotate, Steps
  <2> QED  BY <1>7, Frame, <2>1, <2>2 DEF Rotate
<1>8. ASSUME NEW h \in Handlers, Wrap(h)  PROVE TypeOK'
  <2>1. GlobalsOK'  BY <1>8 DEF Wrap, Unlock, GlobalsOK
  <2>2. PcOK'  BY <1>8, GotoOK, ProcFacts DEF Wrap, Steps
  <2> QED  BY <1>8, Frame, <2>1, <2>2 DEF Wrap
<1>9. ASSUME NEW h \in Handlers, Nth(h)  PROVE TypeOK'
  <2>1. lastUse < Len(Tunnels) => Tunnels[lastUse + 1] \in Tunnelids  BY <1>9 DEF Nth,
       GlobalsOK
  <2>2. LocalsOK'  BY <1>9, <2>1 DEF Nth, Found, LocalsOK, GlobalsOK
  <2>3. PcOK'  BY <1>9, <2>1, GotoOK, ProcFacts DEF Nth, Steps, Found
  <2> QED  BY <1>9, Frame, <2>1, <2>2, <2>3 DEF Nth
<1>10. ASSUME NEW h \in Handlers, Choose(h)  PROVE TypeOK'
  <2>1. LocalsOK'  BY <1>10 DEF Choose, LocalsOK, Types
  <2>2. PcOK'  BY <1>10, GotoOK, ProcFacts DEF Choose, Steps
  <2> QED  BY <1>10, Frame, <2>1, <2>2 DEF Choose
<1>11. ASSUME NEW h \in Handlers, New(h)  PROVE TypeOK'
  <2>1. TunnelsOK'  BY <1>11 DEF New, TunnelsOK, LocalsOK, made, Tunnelids
  <2>2. HostOK'  BY <1>11 DEF New, HostOK
  <2>3. LocalsOK'  BY <1>11 DEF New, LocalsOK, Types, Tunnelids
  <2>4. PcOK'  BY <1>11, GotoOK, ProcFacts DEF New, Steps
  <2> QED  BY <1>11, Frame, <2>1, <2>2, <2>3, <2>4 DEF New
<1>12. ASSUME NEW h \in Handlers, AddLoad(h)  PROVE TypeOK'
  <2>1. GlobalsOK'  BY <1>12, ProcFacts DEF AddLoad, Lock, GlobalsOK
  <2>2. LocalsOK'  BY <1>12, ProcFacts DEF AddLoad, LocalsOK, GlobalsOK
  <2>3. PcOK'  BY <1>12, GotoOK, ProcFacts DEF AddLoad, Steps
  <2> QED  BY <1>12, Frame, <2>1, <2>2, <2>3 DEF AddLoad
<1>13. ASSUME NEW h \in Handlers, AddStore(h)  PROVE TypeOK'
  <2>1. tu[h] \in Tunnelids  BY <1>13 DEF AddStore, HandInv, WorkInv, ServeInv, LocalsInv,
       TunnelsOK
  <2>2. GlobalsOK'  BY <1>13, <2>1, ProcFacts DEF AddStore, Unlock, GlobalsOK, LocalsOK
  <2>3. LocalsOK'  BY <1>13, <2>1, ProcFacts DEF AddStore, LocalsOK
  <2>4. HistoryOK'  BY <1>13, <2>1 DEF AddStore, HistoryOK, Overlaps
  <2>5. PcOK'  BY <1>13, <2>1, GotoOK, ProcFacts DEF AddStore, Steps
  <2> QED  BY <1>13, Frame, <2>1, <2>2, <2>3, <2>4, <2>5 DEF AddStore
<1>14. ASSUME NEW h \in Handlers, Check(h)  PROVE TypeOK'
  <2>1. tu[h] \in Tunnelids  BY <1>14 DEF Check, HandInv, WorkInv, ServeInv, LocalsInv,
       HistoryOK
  <2>2. LocalsOK'  BY <1>14, <2>1 DEF Check, LocalsOK
  <2>3. HistoryOK'  BY <1>14, <2>1 DEF Check, HistoryOK
  <2>4. PcOK'  BY <1>14, <2>1, GotoOK, ProcFacts DEF Check, Steps
  <2> QED  BY <1>14, Frame, <2>1, <2>2, <2>3, <2>4 DEF Check
<1>15. ASSUME NEW h \in Handlers, Start(h)  PROVE TypeOK'
  <2>1. tu[h] \in Tunnelids  BY <1>15 DEF Start, HandInv, WorkInv, ServeInv, LocalsInv,
       HistoryOK
  <2>2. TunnelsOK'  BY <1>15, <2>1 DEF Start, TunnelsOK, made
  <2>3. LocalsOK'  BY <1>15, <2>1, ProcFacts DEF Start, LocalsOK
  <2>4. HistoryOK'  BY <1>15, <2>1 DEF Start, HistoryOK
  <2>5. PcOK'  BY <1>15, <2>1, ProcFacts DEF Start, PcOK, Steps
  <2> QED  BY <1>15, Frame, <2>1, <2>2, <2>3, <2>4, <2>5 DEF Start
<1>16. ASSUME NEW p \in Procs, DelScan(p)  PROVE TypeOK'
  <2>1. Without(Tunnels, Head(todo[p])) \in Seq(Tunnelids)  BY <1>16, WithoutFacts DEF
       DelScan, GlobalsOK, ListsInv
  <2>2. LocalsOK'  BY <1>16, <2>1 DEF DelScan, LocalsOK
  <2>3. PcOK'  BY <1>16, <2>1, GotoOK, ProcFacts DEF DelScan, Steps
  <2> QED  BY <1>16, Frame, <2>1, <2>2, <2>3 DEF DelScan
<1>17. ASSUME NEW p \in Procs, DelClose(p)  PROVE TypeOK'
  <2>1. Head(todo[p]) \in made  BY <1>17 DEF DelClose, LocalsInv, WorkInv
  <2>2. HostOK'  BY <1>17, <2>1 DEF DelClose, HostOK
  <2>3. config[Head(todo[p])].type \in Types  BY <1>17, <2>1 DEF DelClose, TunnelsOK
  <2>4. LocalsOK'  BY <1>17, <2>1, <2>3 DEF DelClose, LocalsOK, GlobalsOK, NextTally
  <2>5. PcOK'  BY <1>17, <2>1, <2>3, GotoOK, ProcFacts DEF DelClose, Steps
  <2> QED  BY <1>17, Frame, <2>1, <2>2, <2>3, <2>4, <2>5 DEF DelClose
<1>18. ASSUME NEW p \in Procs, DelCount(p)  PROVE TypeOK'
  <2>1. Head(todo[p]) \in made  BY <1>18 DEF DelCount, LocalsInv, WorkInv
  <2>2. GlobalsOK'  BY <1>18, <2>1 DEF DelCount, GlobalsOK, TunnelsOK, LocalsOK
  <2>3. TunnelsOK'  BY <1>18, <2>1 DEF DelCount, TunnelsOK, made
  <2>4. LocalsOK'  BY <1>18, <2>1 DEF DelCount, LocalsOK
  <2>5. PcOK'  BY <1>18, <2>1, GotoOK, ProcFacts DEF DelCount, Steps
  <2> QED  BY <1>18, Frame, <2>1, <2>2, <2>3, <2>4, <2>5 DEF DelCount
<1>19. ASSUME NEW p \in Procs, DelStore(p)  PROVE TypeOK'
  <2>1. todo[p] # <<>>  BY <1>19 DEF DelStore, HandInv, WorkInv, ServeInv, LocalsInv,
       DelSteps
  <2>2. GlobalsOK'  BY <1>19, <2>1 DEF DelStore, GlobalsOK, LocalsOK
  <2>3. HostOK'  BY <1>19, <2>1 DEF DelStore, HostOK
  <2>4. LocalsOK'  BY <1>19, <2>1 DEF DelStore, LocalsOK
  <2>5. HistoryOK'  BY <1>19, <2>1 DEF DelStore, HistoryOK, Overlaps
  <2>6. PcOK'  BY <1>19, <2>1, GotoOK, ProcFacts DEF DelStore, Steps, AfterDel
  <2> QED  BY <1>19, Frame, <2>1, <2>2, <2>3, <2>4, <2>5, <2>6 DEF DelStore
<1>20. ASSUME NEW k \in Servers, Listen(k)  PROVE TypeOK'
  <2>1. HostOK'  BY <1>20 DEF Listen, HostOK
  <2>2. PcOK'  BY <1>20, GotoOK, ProcFacts DEF Listen, Steps
  <2> QED  BY <1>20, Frame, <2>1, <2>2 DEF Listen
<1>21. ASSUME NEW k \in Servers, Select(k)  PROVE TypeOK'
  <2>1. PcOK'  BY <1>21, GotoOK, ProcFacts DEF Select, Steps
  <2> QED  BY <1>21, Frame, <2>1 DEF Select
<1>22. ASSUME NEW k \in Servers, Accept(k)  PROVE TypeOK'
  <2>1. PcOK'  BY <1>22, GotoOK, ProcFacts DEF Accept, Steps
  <2> QED  BY <1>22, Frame, <2>1 DEF Accept
<1>23. ASSUME NEW k \in Servers, AcceptError(k)  PROVE TypeOK'
  <2>1. HostOK'  BY <1>23 DEF AcceptError, HostOK
  <2>2. BoundsOK'  BY <1>23, RegistryAssumption DEF AcceptError, BoundsOK
  <2>3. PcOK'  BY <1>23, GotoOK, ProcFacts DEF AcceptError, Steps
  <2> QED  BY <1>23, Frame, <2>1, <2>2, <2>3 DEF AcceptError
<1>24. ASSUME NEW k \in Servers, Exit(k)  PROVE TypeOK'
  <2>1. TunnelsOK'  BY <1>24 DEF Exit, TunnelsOK, made, TurnOff
  <2>2. HostOK'  BY <1>24 DEF Exit, HostOK
  <2>3. serves[k] \in Tunnelids  BY <1>24 DEF Exit, HandInv, WorkInv, ServeInv, LocalsInv,
       ServerSteps, TunnelsOK
  <2>4. LocalsOK'  BY <1>24, <2>3, ProcFacts DEF Exit, LocalsOK
  <2>5. PcOK'  BY <1>24, <2>3, GotoOK, ProcFacts DEF Exit, Steps
  <2> QED  BY <1>24, Frame, <2>1, <2>2, <2>3, <2>4, <2>5 DEF Exit
<1>25. CASE MapRace
  <2>1. HostOK'  BY <1>25 DEF MapRace, HostOK
  <2> QED  BY <1>25, <2>1, Frame DEF MapRace
<1>26. CASE UNCHANGED vars  BY <1>26, Frame DEF vars
<1> QED
  BY <1>1, <1>2, <1>3, <1>4, <1>5, <1>6, <1>7, <1>8, <1>9, <1>10, <1>11, <1>12, <1>13,
       <1>14, <1>15, <1>16, <1>17, <1>18, <1>19, <1>20, <1>21, <1>22, <1>23, <1>24, <1>25,
       <1>26
  DEF Next, Request, HandlerStep, DelStep, ServerStep

LEMMA NextPcInv == IInv /\ [Next]_vars => PcInv'
<1> SUFFICES ASSUME IInv, [Next]_vars  PROVE PcInv'
  OBVIOUS
<1> USE ProcFacts DEF IInv, TypeOK, LocalsInv, PcOK, PcInv, ServerSteps, DelSteps
<1>1. ASSUME NEW h \in Handlers, GetAny(h)  PROVE PcInv'
  BY <1>1 DEF GetAny, Begin, Goto, globals, tunnels, host, locals, history
<1>2. ASSUME NEW h \in Handlers, NEW ty \in Types \cup {"other"}, GetTyped(h, ty)  PROVE PcInv'
  BY <1>2 DEF GetTyped, Begin, Goto, Found, Switch, globals, tunnels, host, locals, history
<1>3. ASSUME NEW h \in Handlers, NEW t \in made \cup {None}, ReportErr(h, t)  PROVE PcInv'
  BY <1>3 DEF ReportErr, Begin, Goto, globals, tunnels, host, locals, history
<1>4. ASSUME NEW h \in Handlers, ProxyNew(h)  PROVE PcInv'
  BY <1>4 DEF ProxyNew, Begin, Goto, globals, tunnels, host, locals, history
<1>5. ASSUME NEW h \in Handlers, NEW t \in made \cup {None}, ProxyDel(h, t)  PROVE PcInv'
  BY <1>5 DEF ProxyDel, Begin, Goto, globals, tunnels, host, locals, history
<1>6. ASSUME NEW h \in Handlers, CloseAll(h)  PROVE PcInv'
  BY <1>6 DEF CloseAll, Begin, Goto, globals, tunnels, host, locals, history
<1>7. ASSUME NEW h \in Handlers, Rotate(h)  PROVE PcInv'
  BY <1>7 DEF Rotate, Goto, Lock, globals, tunnels, host, locals, history
<1>8. ASSUME NEW h \in Handlers, Wrap(h)  PROVE PcInv'
  BY <1>8 DEF Wrap, Goto, Unlock, globals, tunnels, host, locals, history
<1>9. ASSUME NEW h \in Handlers, Nth(h)  PROVE PcInv'
  BY <1>9 DEF Nth, Goto, Found, globals, tunnels, host, locals, history
<1>10. ASSUME NEW h \in Handlers, Choose(h)  PROVE PcInv'
  BY <1>10 DEF Choose, Goto, globals, tunnels, host, locals, history
<1>11. ASSUME NEW h \in Handlers, New(h)  PROVE PcInv'
  BY <1>11 DEF New, Goto, globals, tunnels, host, locals, history
<1>12. ASSUME NEW h \in Handlers, AddLoad(h)  PROVE PcInv'
  BY <1>12 DEF AddLoad, Goto, Lock, globals, tunnels, host, locals, history
<1>13. ASSUME NEW h \in Handlers, AddStore(h)  PROVE PcInv'
  BY <1>13 DEF AddStore, Goto, Unlock, Overlaps, globals, tunnels, host, locals, history
<1>14. ASSUME NEW h \in Handlers, Check(h)  PROVE PcInv'
  BY <1>14 DEF Check, Goto, Running, globals, tunnels, host, locals, history
<1>15. ASSUME NEW h \in Handlers, Start(h)  PROVE PcInv'
  BY <1>15 DEF Start, globals, tunnels, host, locals, history
<1>16. ASSUME NEW p \in Procs, DelScan(p)  PROVE PcInv'
  BY <1>16 DEF DelScan, Goto, globals, tunnels, host, locals, history
<1>17. ASSUME NEW p \in Procs, DelClose(p)  PROVE PcInv'
  BY <1>17 DEF DelClose, Goto, NextTally, globals, tunnels, host, locals, history
<1>18. ASSUME NEW p \in Procs, DelCount(p)  PROVE PcInv'
  BY <1>18 DEF DelCount, Goto, globals, tunnels, host, locals, history
<1>19. ASSUME NEW p \in Procs, DelStore(p)  PROVE PcInv'
  BY <1>19 DEF DelStore, Goto, Overlaps, AfterDel, globals, tunnels, host, locals, history
<1>20. ASSUME NEW k \in Servers, Listen(k)  PROVE PcInv'
  BY <1>20 DEF Listen, Goto, globals, tunnels, host, locals, history
<1>21. ASSUME NEW k \in Servers, Select(k)  PROVE PcInv'
  BY <1>21 DEF Select, Goto, globals, tunnels, host, locals, history
<1>22. ASSUME NEW k \in Servers, Accept(k)  PROVE PcInv'
  BY <1>22 DEF Accept, Goto, globals, tunnels, host, locals, history
<1>23. ASSUME NEW k \in Servers, AcceptError(k)  PROVE PcInv'
  BY <1>23 DEF AcceptError, Goto, globals, tunnels, host, locals, history
<1>24. ASSUME NEW k \in Servers, Exit(k)  PROVE PcInv'
  BY <1>24 DEF Exit, Goto, TurnOff, globals, tunnels, host, locals, history
<1>25. CASE MapRace  BY <1>25 DEF MapRace, globals, tunnels, locals, history
<1>26. CASE UNCHANGED vars  BY <1>26 DEF vars, globals, tunnels, locals, history
<1> QED
  BY <1>1, <1>2, <1>3, <1>4, <1>5, <1>6, <1>7, <1>8, <1>9, <1>10, <1>11, <1>12, <1>13,
       <1>14, <1>15, <1>16, <1>17, <1>18, <1>19, <1>20, <1>21, <1>22, <1>23, <1>24, <1>25,
       <1>26
  DEF Next, Request, HandlerStep, DelStep, ServerStep

LEMMA NextHandInv == IInv /\ [Next]_vars => HandInv'
<1> SUFFICES ASSUME IInv, [Next]_vars  PROVE HandInv'
  OBVIOUS
<1> USE ProcFacts DEF IInv, TypeOK, LocalsInv, PcOK, HandInv, made
<1>1. ASSUME NEW h \in Handlers, GetAny(h)  PROVE HandInv'
  BY <1>1 DEF GetAny, Begin, Goto, globals, tunnels, host, locals, history
<1>2. ASSUME NEW h \in Handlers, NEW ty \in Types \cup {"other"}, GetTyped(h, ty)  PROVE HandInv'
  <2>1. \A i \in DOMAIN Tunnels : Tunnels[i] \in added  BY DEF AddedInv, Listed
  <2>2. pc'[h] = "check" => tu'[h] \in added  BY <1>2, <2>1 DEF GetTyped, Begin, Goto,
       Found, LocalsOK
  <2>3. pc'[h] \in {"check", "new"}  BY <1>2 DEF GetTyped, Begin, Goto, Found
  <2>4. \A g \in Handlers \ {h} : pc'[g] = pc[g] /\ tu'[g] = tu[g]
    BY <1>2 DEF GetTyped, Begin, Goto, Found, LocalsOK
  <2> QED  BY <1>2, <2>2, <2>3, <2>4 DEF GetTyped, tunnels, history
<1>3. ASSUME NEW h \in Handlers, NEW t \in made \cup {None}, ReportErr(h, t)  PROVE HandInv'
  BY <1>3 DEF ReportErr, Begin, Goto, globals, tunnels, host, locals, history
<1>4. ASSUME NEW h \in Handlers, ProxyNew(h)  PROVE HandInv'
  BY <1>4 DEF ProxyNew, Begin, Goto, globals, tunnels, host, locals, history
<1>5. ASSUME NEW h \in Handlers, NEW t \in made \cup {None}, ProxyDel(h, t)  PROVE HandInv'
  BY <1>5 DEF ProxyDel, Begin, Goto, globals, tunnels, host, locals, history
<1>6. ASSUME NEW h \in Handlers, CloseAll(h)  PROVE HandInv'
  BY <1>6 DEF CloseAll, Begin, Goto, globals, tunnels, host, locals, history
<1>7. ASSUME NEW h \in Handlers, Rotate(h)  PROVE HandInv'
  BY <1>7 DEF Rotate, Goto, Lock, globals, tunnels, host, locals, history
<1>8. ASSUME NEW h \in Handlers, Wrap(h)  PROVE HandInv'
  BY <1>8 DEF Wrap, Goto, Unlock, globals, tunnels, host, locals, history
<1>9. ASSUME NEW h \in Handlers, Nth(h)  PROVE HandInv'
  <2>1. lastUse < Len(Tunnels) => Tunnels[lastUse + 1] \in added
    BY DEF AddedInv, Listed, GlobalsOK
  <2>2. pc'[h] = "check" => tu'[h] \in added  BY <1>9, <2>1 DEF Nth, Goto, Found, LocalsOK
  <2>3. pc'[h] \in {"check", "done"}  BY <1>9 DEF Nth, Goto, Found
  <2>4. \A g \in Handlers \ {h} : pc'[g] = pc[g] /\ tu'[g] = tu[g]
    BY <1>9 DEF Nth, Goto, Found, LocalsOK
  <2> QED  BY <1>9, <2>2, <2>3, <2>4 DEF Nth, tunnels, history
<1>10. ASSUME NEW h \in Handlers, Choose(h)  PROVE HandInv'
  BY <1>10 DEF Choose, Goto, globals, tunnels, host, locals, history
<1>11. ASSUME NEW h \in Handlers, New(h)  PROVE HandInv'
  <2>1. made' = made \cup {h} /\ added' = added  BY <1>11 DEF New, history
  <2>2. pc'[h] = "load" => tu'[h] = h  BY <1>11 DEF New, Goto, LocalsOK
  <2>3. pc'[h] \in {"load", "done"}  BY <1>11 DEF New, Goto
  <2>4. \A g \in Handlers \ {h} : pc'[g] = pc[g] /\ tu'[g] = tu[g]
    BY <1>11 DEF New, Goto, LocalsOK
  <2> QED  BY <2>1, <2>2, <2>3, <2>4
<1>12. ASSUME NEW h \in Handlers, AddLoad(h)  PROVE HandInv'
  BY <1>12 DEF AddLoad, Goto, Lock, globals, tunnels, host, locals, history
<1>13. ASSUME NEW h \in Handlers, AddStore(h)  PROVE HandInv'
  BY <1>13 DEF AddStore, Goto, Unlock, Overlaps, globals, tunnels, host, locals, history
<1>14. ASSUME NEW h \in Handlers, Check(h)  PROVE HandInv'
  <2>1. pc'[h] = "start" => tu'[h] \in added  BY <1>14 DEF Check, Goto, LocalsOK
  <2>2. pc'[h] \in {"start", "done"}  BY <1>14 DEF Check, Goto
  <2>3. \A g \in Handlers \ {h} : pc'[g] = pc[g] /\ tu'[g] = tu[g]
    BY <1>14 DEF Check, Goto, LocalsOK
  <2> QED  BY <1>14, <2>1, <2>2, <2>3 DEF Check, tunnels
<1>15. ASSUME NEW h \in Handlers, Start(h)  PROVE HandInv'
  BY <1>15 DEF Start, globals, tunnels, host, locals, history
<1>16. ASSUME NEW p \in Procs, DelScan(p)  PROVE HandInv'
  BY <1>16 DEF DelScan, Goto, globals, tunnels, host, locals, history
<1>17. ASSUME NEW p \in Procs, DelClose(p)  PROVE HandInv'
  BY <1>17 DEF DelClose, Goto, NextTally, globals, tunnels, host, locals, history
<1>18. ASSUME NEW p \in Procs, DelCount(p)  PROVE HandInv'
  BY <1>18 DEF DelCount, Goto, globals, tunnels, host, locals, history
<1>19. ASSUME NEW p \in Procs, DelStore(p)  PROVE HandInv'
  BY <1>19 DEF DelStore, Goto, Overlaps, AfterDel, globals, tunnels, host, locals, history
<1>20. ASSUME NEW k \in Servers, Listen(k)  PROVE HandInv'
  BY <1>20 DEF Listen, Goto, globals, tunnels, host, locals, history
<1>21. ASSUME NEW k \in Servers, Select(k)  PROVE HandInv'
  BY <1>21 DEF Select, Goto, globals, tunnels, host, locals, history
<1>22. ASSUME NEW k \in Servers, Accept(k)  PROVE HandInv'
  BY <1>22 DEF Accept, Goto, globals, tunnels, host, locals, history
<1>23. ASSUME NEW k \in Servers, AcceptError(k)  PROVE HandInv'
  BY <1>23 DEF AcceptError, Goto, globals, tunnels, host, locals, history
<1>24. ASSUME NEW k \in Servers, Exit(k)  PROVE HandInv'
  BY <1>24 DEF Exit, Goto, TurnOff, globals, tunnels, host, locals, history
<1>25. CASE MapRace  BY <1>25 DEF MapRace, globals, tunnels, locals, history
<1>26. CASE UNCHANGED vars  BY <1>26 DEF vars, globals, tunnels, locals, history
<1> QED
  BY <1>1, <1>2, <1>3, <1>4, <1>5, <1>6, <1>7, <1>8, <1>9, <1>10, <1>11, <1>12, <1>13,
       <1>14, <1>15, <1>16, <1>17, <1>18, <1>19, <1>20, <1>21, <1>22, <1>23, <1>24, <1>25,
       <1>26
  DEF Next, Request, HandlerStep, DelStep, ServerStep

LEMMA NextWorkInv == IInv /\ [Next]_vars => WorkInv'
<1> SUFFICES ASSUME IInv, [Next]_vars  PROVE WorkInv'
  OBVIOUS
<1> USE ProcFacts DEF IInv, TypeOK, LocalsInv, PcOK, WorkInv, DelSteps, made, Elements
<1>1. ASSUME NEW h \in Handlers, GetAny(h)  PROVE WorkInv'
  BY <1>1 DEF GetAny, Begin, Goto, globals, tunnels, host, locals, history
<1>2. ASSUME NEW h \in Handlers, NEW ty \in Types \cup {"other"}, GetTyped(h, ty)  PROVE WorkInv'
  BY <1>2 DEF GetTyped, Begin, Goto, Found, Switch, globals, tunnels, host, locals, history
<1>3. ASSUME NEW h \in Handlers, NEW t \in made \cup {None}, ReportErr(h, t)  PROVE WorkInv'
  <2>1. todo'[h] \in {<<>>, <<t>>} /\ (pc'[h] \in DelSteps => pc'[h] = "del" /\ todo'[h] = <<t>>)
    BY <1>3 DEF ReportErr, Begin, Goto, LocalsOK
  <2>2. \A q \in Procs \ {h} : pc'[q] = pc[q] /\ todo'[q] = todo[q]
    BY <1>3 DEF ReportErr, Begin, Goto, LocalsOK
  <2>3. Elements(todo'[h]) \subseteq made \cup {None}  BY <2>1
  <2>4. made' = made  BY <1>3 DEF ReportErr, tunnels
  <2> QED  BY <2>1, <2>2, <2>3, <2>4
<1>4. ASSUME NEW h \in Handlers, ProxyNew(h)  PROVE WorkInv'
  BY <1>4 DEF ProxyNew, Begin, Goto, globals, tunnels, host, locals, history
<1>5. ASSUME NEW h \in Handlers, NEW t \in made \cup {None}, ProxyDel(h, t)  PROVE WorkInv'
  <2>1. todo'[h] \in {<<>>, <<t>>} /\ (pc'[h] \in DelSteps => pc'[h] = "del" /\ todo'[h] = <<t>>)
    BY <1>5 DEF ProxyDel, Begin, Goto, LocalsOK
  <2>2. \A q \in Procs \ {h} : pc'[q] = pc[q] /\ todo'[q] = todo[q]
    BY <1>5 DEF ProxyDel, Begin, Goto, LocalsOK
  <2>3. Elements(todo'[h]) \subseteq made \cup {None}  BY <2>1
  <2>4. made' = made  BY <1>5 DEF ProxyDel, tunnels
  <2> QED  BY <2>1, <2>2, <2>3, <2>4
<1>6. ASSUME NEW h \in Handlers, CloseAll(h)  PROVE WorkInv'
  <2>1. todo'[h] = Tunnels /\ (pc'[h] \in DelSteps => pc'[h] = "del" /\ Tunnels # <<>>)
    BY <1>6 DEF CloseAll, Begin, Goto, LocalsOK
  <2>2. \A q \in Procs \ {h} : pc'[q] = pc[q] /\ todo'[q] = todo[q]
    BY <1>6 DEF CloseAll, Begin, Goto, LocalsOK
  <2>3. Elements(Tunnels) \subseteq made  BY DEF AddedInv, Listed
  <2>4. made' = made  BY <1>6 DEF CloseAll, tunnels
  <2> QED  BY <2>1, <2>2, <2>3, <2>4
<1>7. ASSUME NEW h \in Handlers, Rotate(h)  PROVE WorkInv'
  BY <1>7 DEF Rotate, Goto, Lock, globals, tunnels, host, locals, history
<1>8. ASSUME NEW h \in Handlers, Wrap(h)  PROVE WorkInv'
  BY <1>8 DEF Wrap, Goto, Unlock, globals, tunnels, host, locals, history
<1>9. ASSUME NEW h \in Handlers, Nth(h)  PROVE WorkInv'
  BY <1>9 DEF Nth, Goto, Found, globals, tunnels, host, locals, history
<1>10. ASSUME NEW h \in Handlers, Choose(h)  PROVE WorkInv'
  BY <1>10 DEF Choose, Goto, globals, tunnels, host, locals, history
<1>11. ASSUME NEW h \in Handlers, New(h)  PROVE WorkInv'
  BY <1>11 DEF New, Goto, globals, tunnels, host, locals, history
<1>12. ASSUME NEW h \in Handlers, AddLoad(h)  PROVE WorkInv'
  BY <1>12 DEF AddLoad, Goto, Lock, globals, tunnels, host, locals, history
<1>13. ASSUME NEW h \in Handlers, AddStore(h)  PROVE WorkInv'
  BY <1>13 DEF AddStore, Goto, Unlock, Overlaps, globals, tunnels, host, locals, history
<1>14. ASSUME NEW h \in Handlers, Check(h)  PROVE WorkInv'
  BY <1>14 DEF Check, Goto, Running, globals, tunnels, host, locals, history
<1>15. ASSUME NEW h \in Handlers, Start(h)  PROVE WorkInv'
  BY <1>15 DEF Start, globals, tunnels, host, locals, history
<1>16. ASSUME NEW p \in Procs, DelScan(p)  PROVE WorkInv'
  <2>1. pc'[p] = "close" => Head(todo[p]) \in made
    BY <1>16 DEF DelScan, Goto, AddedInv
  <2>2. pc'[p] \in {"close", "store"} /\ todo' = todo /\ made' = made
    BY <1>16 DEF DelScan, Goto, tunnels
  <2>3. \A q \in Procs \ {p} : pc'[q] = pc[q]  BY <1>16 DEF DelScan, Goto
  <2>4. todo[p] # <<>>  BY <1>16 DEF DelScan
  <2> QED  BY <2>1, <2>2, <2>3, <2>4
<1>17. ASSUME NEW p \in Procs, DelClose(p)  PROVE WorkInv'
  BY <1>17 DEF DelClose, Goto, NextTally, globals, tunnels, host, locals, history
<1>18. ASSUME NEW p \in Procs, DelCount(p)  PROVE WorkInv'
  BY <1>18 DEF DelCount, Goto, globals, tunnels, host, locals, history
<1>19. ASSUME NEW p \in Procs, DelStore(p)  PROVE WorkInv'
  <2>1. todo' = [todo EXCEPT ![p] = Tail(todo[p])] /\ made' = made
    BY <1>19 DEF DelStore, tunnels
  <2>2. todo[p] # <<>> /\ todo[p] \in Seq(Tunnelids \cup {None})  BY <1>19 DEF DelStore,
       LocalsOK
  <2>3. Elements(Tail(todo[p])) \subseteq Elements(todo[p])  BY <2>2
  <2>4. pc'[p] = AfterDel(p)  BY <1>19 DEF DelStore, Goto
  <2>7. Len(todo[p]) > 1 => Tail(todo[p]) # <<>>  BY <2>2
  <2>5. \A q \in Procs \ {p} : pc'[q] = pc[q] /\ todo'[q] = todo[q]
    BY <1>19, <2>1 DEF DelStore, Goto, LocalsOK
  <2>6. todo'[p] = Tail(todo[p])  BY <2>1 DEF LocalsOK
  <2> QED  BY <2>1, <2>2, <2>3, <2>4, <2>5, <2>6, <2>7 DEF AfterDel
<1>20. ASSUME NEW k \in Servers, Listen(k)  PROVE WorkInv'
  BY <1>20 DEF Listen, Goto, globals, tunnels, host, locals, history
<1>21. ASSUME NEW k \in Servers, Select(k)  PROVE WorkInv'
  BY <1>21 DEF Select, Goto, globals, tunnels, host, locals, history
<1>22. ASSUME NEW k \in Servers, Accept(k)  PROVE WorkInv'
  BY <1>22 DEF Accept, Goto, globals, tunnels, host, locals, history
<1>23. ASSUME NEW k \in Servers, AcceptError(k)  PROVE WorkInv'
  BY <1>23 DEF AcceptError, Goto, globals, tunnels, host, locals, history
<1>24. ASSUME NEW k \in Servers, Exit(k)  PROVE WorkInv'
  <2>1. serves[k] \in made  BY <1>24 DEF Exit, ServeInv, ServerSteps
  <2>2. pc'[k] = "del" /\ todo'[k] = <<serves[k]>>  BY <1>24 DEF Exit, Goto, LocalsOK
  <2>3. \A q \in Procs \ {k} : pc'[q] = pc[q] /\ todo'[q] = todo[q]
    BY <1>24 DEF Exit, Goto, LocalsOK
  <2>4. made' = made  BY <1>24 DEF Exit, TurnOff
  <2>5. Elements(<<serves[k]>>) \subseteq made  BY <2>1
  <2> QED  BY <2>2, <2>3, <2>4, <2>5
<1>25. CASE MapRace  BY <1>25 DEF MapRace, globals, tunnels, locals, history
<1>26. CASE UNCHANGED vars  BY <1>26 DEF vars, globals, tunnels, locals, history
<1> QED
  BY <1>1, <1>2, <1>3, <1>4, <1>5, <1>6, <1>7, <1>8, <1>9, <1>10, <1>11, <1>12, <1>13,
       <1>14, <1>15, <1>16, <1>17, <1>18, <1>19, <1>20, <1>21, <1>22, <1>23, <1>24, <1>25,
       <1>26
  DEF Next, Request, HandlerStep, DelStep, ServerStep

LEMMA NextServeInv == IInv /\ [Next]_vars => ServeInv'
<1> SUFFICES ASSUME IInv, [Next]_vars  PROVE ServeInv'
  OBVIOUS
<1> USE ProcFacts DEF IInv, TypeOK, LocalsInv, PcOK, ServeInv, ServerSteps, made
<1>1. ASSUME NEW h \in Handlers, GetAny(h)  PROVE ServeInv'
  BY <1>1 DEF GetAny, Begin, Goto, globals, tunnels, host, locals, history
<1>2. ASSUME NEW h \in Handlers, NEW ty \in Types \cup {"other"}, GetTyped(h, ty)  PROVE ServeInv'
  <2>1. serves' = serves /\ made' = made  BY <1>2 DEF GetTyped, tunnels
  <2>2. pc[h] = "idle"  BY <1>2 DEF GetTyped, Begin
  <2>3. \A q \in Procs \ {h} : pc'[q] = pc[q]  BY <1>2 DEF GetTyped, Goto, Found
  <2> QED  BY <2>1, <2>2, <2>3
<1>3. ASSUME NEW h \in Handlers, NEW t \in made \cup {None}, ReportErr(h, t)  PROVE ServeInv'
  BY <1>3 DEF ReportErr, Begin, Goto, globals, tunnels, host, locals, history
<1>4. ASSUME NEW h \in Handlers, ProxyNew(h)  PROVE ServeInv'
  BY <1>4 DEF ProxyNew, Begin, Goto, globals, tunnels, host, locals, history
<1>5. ASSUME NEW h \in Handlers, NEW t \in made \cup {None}, ProxyDel(h, t)  PROVE ServeInv'
  BY <1>5 DEF ProxyDel, Begin, Goto, globals, tunnels, host, locals, history
<1>6. ASSUME NEW h \in Handlers, CloseAll(h)  PROVE ServeInv'
  BY <1>6 DEF CloseAll, Begin, Goto, globals, tunnels, host, locals, history
<1>7. ASSUME NEW h \in Handlers, Rotate(h)  PROVE ServeInv'
  BY <1>7 DEF Rotate, Goto, Lock, globals, tunnels, host, locals, history
<1>8. ASSUME NEW h \in Handlers, Wrap(h)  PROVE ServeInv'
  BY <1>8 DEF Wrap, Goto, Unlock, globals, tunnels, host, locals, history
<1>9. ASSUME NEW h \in Handlers, Nth(h)  PROVE ServeInv'
  BY <1>9 DEF Nth, Goto, Found, globals, tunnels, host, locals, history
<1>10. ASSUME NEW h \in Handlers, Choose(h)  PROVE ServeInv'
  BY <1>10 DEF Choose, Goto, globals, tunnels, host, locals, history
<1>11. ASSUME NEW h \in Handlers, New(h)  PROVE ServeInv'
  BY <1>11 DEF New, Goto, globals, tunnels, host, locals, history
<1>12. ASSUME NEW h \in Handlers, AddLoad(h)  PROVE ServeInv'
  BY <1>12 DEF AddLoad, Goto, Lock, globals, tunnels, host, locals, history
<1>13. ASSUME NEW h \in Handlers, AddStore(h)  PROVE ServeInv'
  BY <1>13 DEF AddStore, Goto, Unlock, Overlaps, globals, tunnels, host, locals, history
<1>14. ASSUME NEW h \in Handlers, Check(h)  PROVE ServeInv'
  BY <1>14 DEF Check, Goto, Running, globals, tunnels, host, locals, history
<1>15. ASSUME NEW h \in Handlers, Start(h)  PROVE ServeInv'
  <2>1. tu[h] \in made  BY <1>15 DEF Start, HandInv, AddedInv
  <2>2. serves'[ServerOf(h)] = tu[h] /\ pc'[h] = "done" /\ made' = made
    BY <1>15 DEF Start, LocalsOK
  <2>3. \A k \in Servers \ {ServerOf(h)} : serves'[k] = serves[k] /\ pc'[k] = pc[k]
    BY <1>15 DEF Start, LocalsOK
  <2>4. \A g \in Handlers \ {h} : pc'[g] = pc[g] /\ ServerOf(g) # ServerOf(h)
    BY <1>15 DEF Start
  <2> QED  BY <2>1, <2>2, <2>3, <2>4
<1>16. ASSUME NEW p \in Procs, DelScan(p)  PROVE ServeInv'
  BY <1>16 DEF DelScan, Goto, globals, tunnels, host, locals, history
<1>17. ASSUME NEW p \in Procs, DelClose(p)  PROVE ServeInv'
  BY <1>17 DEF DelClose, Goto, NextTally, globals, tunnels, host, locals, history
<1>18. ASSUME NEW p \in Procs, DelCount(p)  PROVE ServeInv'
  BY <1>18 DEF DelCount, Goto, globals, tunnels, host, locals, history
<1>19. ASSUME NEW p \in Procs, DelStore(p)  PROVE ServeInv'
  BY <1>19 DEF DelStore, Goto, Overlaps, AfterDel, globals, tunnels, host, locals, history
<1>20. ASSUME NEW k \in Servers, Listen(k)  PROVE ServeInv'
  BY <1>20 DEF Listen, Goto, globals, tunnels, host, locals, history
<1>21. ASSUME NEW k \in Servers, Select(k)  PROVE ServeInv'
  BY <1>21 DEF Select, Goto, globals, tunnels, host, locals, history
<1>22. ASSUME NEW k \in Servers, Accept(k)  PROVE ServeInv'
  BY <1>22 DEF Accept, Goto, globals, tunnels, host, locals, history
<1>23. ASSUME NEW k \in Servers, AcceptError(k)  PROVE ServeInv'
  BY <1>23 DEF AcceptError, Goto, globals, tunnels, host, locals, history
<1>24. ASSUME NEW k \in Servers, Exit(k)  PROVE ServeInv'
  BY <1>24 DEF Exit, Goto, TurnOff, globals, tunnels, host, locals, history
<1>25. CASE MapRace  BY <1>25 DEF MapRace, globals, tunnels, locals, history
<1>26. CASE UNCHANGED vars  BY <1>26 DEF vars, globals, tunnels, locals, history
<1> QED
  BY <1>1, <1>2, <1>3, <1>4, <1>5, <1>6, <1>7, <1>8, <1>9, <1>10, <1>11, <1>12, <1>13,
       <1>14, <1>15, <1>16, <1>17, <1>18, <1>19, <1>20, <1>21, <1>22, <1>23, <1>24, <1>25,
       <1>26
  DEF Next, Request, HandlerStep, DelStep, ServerStep

LEMMA NextOnceInv == IInv /\ [Next]_vars => OnceInv'
<1> SUFFICES ASSUME IInv, [Next]_vars  PROVE OnceInv'
  OBVIOUS
<1> USE ProcFacts DEF IInv, TypeOK, LocalsInv, PcOK, OnceInv, made, Tunnelids
<1>1. ASSUME NEW h \in Handlers, GetAny(h)  PROVE OnceInv'
  BY <1>1 DEF GetAny, Begin, Goto, globals, tunnels, host, locals, history
<1>2. ASSUME NEW h \in Handlers, NEW ty \in Types \cup {"other"}, GetTyped(h, ty)  PROVE OnceInv'
  <2>1. made' = made /\ added' = added /\ made \subseteq Handlers /\ added \subseteq Handlers
    BY <1>2 DEF GetTyped, tunnels, history, TunnelsOK, HistoryOK, Tunnelids
  <2>2. \A q \in Procs \ {h} : pc'[q] = pc[q]  BY <1>2 DEF GetTyped, Goto, Found
  <2>3. h \notin made /\ h \notin added  BY <1>2 DEF GetTyped, Begin
  <2> QED  BY <2>1, <2>2, <2>3
<1>3. ASSUME NEW h \in Handlers, NEW t \in made \cup {None}, ReportErr(h, t)  PROVE OnceInv'
  BY <1>3 DEF ReportErr, Begin, Goto, globals, tunnels, host, locals, history
<1>4. ASSUME NEW h \in Handlers, ProxyNew(h)  PROVE OnceInv'
  BY <1>4 DEF ProxyNew, Begin, Goto, globals, tunnels, host, locals, history
<1>5. ASSUME NEW h \in Handlers, NEW t \in made \cup {None}, ProxyDel(h, t)  PROVE OnceInv'
  BY <1>5 DEF ProxyDel, Begin, Goto, globals, tunnels, host, locals, history
<1>6. ASSUME NEW h \in Handlers, CloseAll(h)  PROVE OnceInv'
  BY <1>6 DEF CloseAll, Begin, Goto, globals, tunnels, host, locals, history
<1>7. ASSUME NEW h \in Handlers, Rotate(h)  PROVE OnceInv'
  BY <1>7 DEF Rotate, Goto, Lock, globals, tunnels, host, locals, history
<1>8. ASSUME NEW h \in Handlers, Wrap(h)  PROVE OnceInv'
  <2>1. made' = made /\ added' = added /\ made \subseteq Handlers /\ added \subseteq Handlers
    BY <1>8 DEF Wrap, tunnels, history, TunnelsOK, HistoryOK, Tunnelids
  <2>2. \A q \in Procs \ {h} : pc'[q] = pc[q]  BY <1>8 DEF Wrap, Goto
  <2>3. h \notin made /\ h \notin added  BY <1>8 DEF Wrap, OnceInv
  <2> QED  BY <2>1, <2>2, <2>3
<1>9. ASSUME NEW h \in Handlers, Nth(h)  PROVE OnceInv'
  <2>1. made' = made /\ added' = added /\ made \subseteq Handlers /\ added \subseteq Handlers
    BY <1>9 DEF Nth, tunnels, history, TunnelsOK, HistoryOK, Tunnelids
  <2>2. \A q \in Procs \ {h} : pc'[q] = pc[q]  BY <1>9 DEF Nth, Goto, Found
  <2>3. h \notin made /\ h \notin added  BY <1>9 DEF Nth, OnceInv
  <2> QED  BY <2>1, <2>2, <2>3
<1>10. ASSUME NEW h \in Handlers, Choose(h)  PROVE OnceInv'
  BY <1>10 DEF Choose, Goto, globals, tunnels, host, locals, history
<1>11. ASSUME NEW h \in Handlers, New(h)  PROVE OnceInv'
  BY <1>11 DEF New, Goto, globals, tunnels, host, locals, history
<1>12. ASSUME NEW h \in Handlers, AddLoad(h)  PROVE OnceInv'
  BY <1>12 DEF AddLoad, Goto, Lock, globals, tunnels, host, locals, history
<1>13. ASSUME NEW h \in Handlers, AddStore(h)  PROVE OnceInv'
  <2>1. made' = made /\ added' = added \cup {h} /\ made \subseteq Handlers
    BY <1>13 DEF AddStore, tunnels, TunnelsOK, Tunnelids, HandInv
  <2>2. \A q \in Procs \ {h} : pc'[q] = pc[q]  BY <1>13 DEF AddStore, Goto
  <2>3. pc'[h] \in {"check", "start"}  BY <1>13 DEF AddStore, Goto
  <2>4. added \subseteq Handlers  BY DEF HistoryOK, Tunnelids
  <2> QED  BY <2>1, <2>2, <2>3, <2>4
<1>14. ASSUME NEW h \in Handlers, Check(h)  PROVE OnceInv'
  <2>1. made' = made /\ added' = added /\ made \subseteq Handlers /\ added \subseteq Handlers
    BY <1>14 DEF Check, tunnels, history, TunnelsOK, HistoryOK, Tunnelids
  <2>2. \A q \in Procs \ {h} : pc'[q] = pc[q]  BY <1>14 DEF Check, Goto
  <2>3. pc'[h] \in {"start", "done"}  BY <1>14 DEF Check, Goto
  <2> QED  BY <2>1, <2>2, <2>3
<1>15. ASSUME NEW h \in Handlers, Start(h)  PROVE OnceInv'
  <2>1. made' = made /\ added' = added /\ made \subseteq Handlers /\ added \subseteq Handlers
    BY <1>15 DEF Start, tunnels, history, TunnelsOK, HistoryOK, Tunnelids
  <2>2. \A q \in Handlers \ {h} : pc'[q] = pc[q]  BY <1>15 DEF Start
  <2>3. pc'[h] = "done"  BY <1>15 DEF Start
  <2> QED  BY <2>1, <2>2, <2>3
<1>16. ASSUME NEW p \in Procs, DelScan(p)  PROVE OnceInv'
  BY <1>16 DEF DelScan, Goto, globals, tunnels, host, locals, history
<1>17. ASSUME NEW p \in Procs, DelClose(p)  PROVE OnceInv'
  BY <1>17 DEF DelClose, Goto, NextTally, globals, tunnels, host, locals, history
<1>18. ASSUME NEW p \in Procs, DelCount(p)  PROVE OnceInv'
  BY <1>18 DEF DelCount, Goto, globals, tunnels, host, locals, history
<1>19. ASSUME NEW p \in Procs, DelStore(p)  PROVE OnceInv'
  BY <1>19 DEF DelStore, Goto, Overlaps, AfterDel, globals, tunnels, host, locals, history
<1>20. ASSUME NEW k \in Servers, Listen(k)  PROVE OnceInv'
  <2>1. made' = made /\ added' = added /\ made \subseteq Handlers /\ added \subseteq Handlers
    BY <1>20 DEF Listen, tunnels, history, TunnelsOK, HistoryOK, Tunnelids
  <2>2. \A q \in Procs \ {k} : pc'[q] = pc[q]  BY <1>20 DEF Listen, Goto
  <2>3. k \notin Handlers  BY <1>20 DEF Listen, OnceInv
  <2> QED  BY <2>1, <2>2, <2>3
<1>21. ASSUME NEW k \in Servers, Select(k)  PROVE OnceInv'
  BY <1>21 DEF Select, Goto, globals, tunnels, host, locals, history
<1>22. ASSUME NEW k \in Servers, Accept(k)  PROVE OnceInv'
  BY <1>22 DEF Accept, Goto, globals, tunnels, host, locals, history
<1>23. ASSUME NEW k \in Servers, AcceptError(k)  PROVE OnceInv'
  BY <1>23 DEF AcceptError, Goto, globals, tunnels, host, locals, history
<1>24. ASSUME NEW k \in Servers, Exit(k)  PROVE OnceInv'
  BY <1>24 DEF Exit, Goto, TurnOff, globals, tunnels, host, locals, history
<1>25. CASE MapRace  BY <1>25 DEF MapRace, globals, tunnels, locals, history
<1>26. CASE UNCHANGED vars  BY <1>26 DEF vars, globals, tunnels, locals, history
<1> QED
  BY <1>1, <1>2, <1>3, <1>4, <1>5, <1>6, <1>7, <1>8, <1>9, <1>10, <1>11, <1>12, <1>13,
       <1>14, <1>15, <1>16, <1>17, <1>18, <1>19, <1>20, <1>21, <1>22, <1>23, <1>24, <1>25,
       <1>26
  DEF Next, Request, HandlerStep, DelStep, ServerStep

LEMMA NextAddedInv == IInv /\ [Next]_vars => AddedInv'
<1> SUFFICES ASSUME IInv, [Next]_vars  PROVE AddedInv'
  OBVIOUS
<1> USE ProcFacts DEF IInv, TypeOK, LocalsInv, PcOK, AddedInv, made, Listed, Elements
<1>1. ASSUME NEW h \in Handlers, GetAny(h)  PROVE AddedInv'
  BY <1>1 DEF GetAny, Begin, Goto, globals, tunnels, host, locals, history
<1>2. ASSUME NEW h \in Handlers, NEW ty \in Types \cup {"other"}, GetTyped(h, ty)  PROVE AddedInv'
  BY <1>2 DEF GetTyped, Begin, Goto, Found, Switch, globals, tunnels, host, locals, history
<1>3. ASSUME NEW h \in Handlers, NEW t \in made \cup {None}, ReportErr(h, t)  PROVE AddedInv'
  BY <1>3 DEF ReportErr, Begin, Goto, globals, tunnels, host, locals, history
<1>4. ASSUME NEW h \in Handlers, ProxyNew(h)  PROVE AddedInv'
  BY <1>4 DEF ProxyNew, Begin, Goto, globals, tunnels, host, locals, history
<1>5. ASSUME NEW h \in Handlers, NEW t \in made \cup {None}, ProxyDel(h, t)  PROVE AddedInv'
  BY <1>5 DEF ProxyDel, Begin, Goto, globals, tunnels, host, locals, history
<1>6. ASSUME NEW h \in Handlers, CloseAll(h)  PROVE AddedInv'
  BY <1>6 DEF CloseAll, Begin, Goto, globals, tunnels, host, locals, history
<1>7. ASSUME NEW h \in Handlers, Rotate(h)  PROVE AddedInv'
  BY <1>7 DEF Rotate, Goto, Lock, globals, tunnels, host, locals, history
<1>8. ASSUME NEW h \in Handlers, Wrap(h)  PROVE AddedInv'
  BY <1>8 DEF Wrap, Goto, Unlock, globals, tunnels, host, locals, history
<1>9. ASSUME NEW h \in Handlers, Nth(h)  PROVE AddedInv'
  BY <1>9 DEF Nth, Goto, Found, globals, tunnels, host, locals, history
<1>10. ASSUME NEW h \in Handlers, Choose(h)  PROVE AddedInv'
  BY <1>10 DEF Choose, Goto, globals, tunnels, host, locals, history
<1>11. ASSUME NEW h \in Handlers, New(h)  PROVE AddedInv'
  BY <1>11 DEF New, Goto, globals, tunnels, host, locals, history
<1>12. ASSUME NEW h \in Handlers, AddLoad(h)  PROVE AddedInv'
  BY <1>12 DEF AddLoad, Goto, Lock, globals, tunnels, host, locals, history
<1>13. ASSUME NEW h \in Handlers, AddStore(h)  PROVE AddedInv'
  <2>1. h \in made /\ h \notin added /\ tu[h] = h  BY <1>13 DEF AddStore, HandInv, OnceInv
  <2>2. Elements(seen[h]) \subseteq added  OBVIOUS
  <2>3. Elements(Append(seen[h], h)) = Elements(seen[h]) \cup {h}
    <3>1. seen[h] \in Seq(Tunnelids) /\ h \in Tunnelids  BY DEF LocalsOK, Tunnelids
    <3>2. Distinct(seen[h]) /\ h \notin Elements(seen[h])  BY <2>1, <2>2 DEF ListsInv
    <3> HIDE DEF Elements
    <3> QED  BY <3>1, <3>2, AppendFacts
  <2>4. Listed' \subseteq added'  BY <1>13, <2>1, <2>2, <2>3 DEF AddStore
  <2>5. added' = added \cup {h} /\ made' = made /\ deleted' = deleted
    BY <1>13, <2>1 DEF AddStore, tunnels
  <2>6. \A p \in Procs : Elements(seen'[p]) \subseteq added'
    BY <1>13, <2>5 DEF AddStore, LocalsOK
  <2> QED  BY <2>1, <2>4, <2>5, <2>6
<1>14. ASSUME NEW h \in Handlers, Check(h)  PROVE AddedInv'
  BY <1>14 DEF Check, Goto, Running, globals, tunnels, host, locals, history
<1>15. ASSUME NEW h \in Handlers, Start(h)  PROVE AddedInv'
  BY <1>15 DEF Start, globals, tunnels, host, locals, history
<1>16. ASSUME NEW p \in Procs, DelScan(p)  PROVE AddedInv'
  <2>1. Elements(Without(Tunnels, Head(todo[p]))) \subseteq added
    <3>1. Tunnels \in Seq(Tunnelids) /\ Distinct(Tunnels)  BY DEF GlobalsOK, ListsInv
    <3>2. Elements(Tunnels) \subseteq added  BY DEF AddedInv, Listed
    <3> HIDE DEF Elements
    <3> QED  BY <3>1, <3>2, WithoutFacts
  <2>2. \A q \in Procs : Elements(seen'[q]) \subseteq added
    BY <1>16, <2>1 DEF DelScan, LocalsOK
  <2> QED  BY <1>16, <2>2 DEF DelScan, globals, tunnels, history
<1>17. ASSUME NEW p \in Procs, DelClose(p)  PROVE AddedInv'
  BY <1>17 DEF DelClose, Goto, NextTally, globals, tunnels, host, locals, history
<1>18. ASSUME NEW p \in Procs, DelCount(p)  PROVE AddedInv'
  BY <1>18 DEF DelCount, Goto, globals, tunnels, host, locals, history
<1>19. ASSUME NEW p \in Procs, DelStore(p)  PROVE AddedInv'
  BY <1>19 DEF DelStore, Goto, Overlaps, AfterDel, globals, tunnels, host, locals, history
<1>20. ASSUME NEW k \in Servers, Listen(k)  PROVE AddedInv'
  BY <1>20 DEF Listen, Goto, globals, tunnels, host, locals, history
<1>21. ASSUME NEW k \in Servers, Select(k)  PROVE AddedInv'
  BY <1>21 DEF Select, Goto, globals, tunnels, host, locals, history
<1>22. ASSUME NEW k \in Servers, Accept(k)  PROVE AddedInv'
  BY <1>22 DEF Accept, Goto, globals, tunnels, host, locals, history
<1>23. ASSUME NEW k \in Servers, AcceptError(k)  PROVE AddedInv'
  BY <1>23 DEF AcceptError, Goto, globals, tunnels, host, locals, history
<1>24. ASSUME NEW k \in Servers, Exit(k)  PROVE AddedInv'
  BY <1>24 DEF Exit, Goto, TurnOff, globals, tunnels, host, locals, history
<1>25. CASE MapRace  BY <1>25 DEF MapRace, globals, tunnels, locals, history
<1>26. CASE UNCHANGED vars  BY <1>26 DEF vars, globals, tunnels, locals, history
<1> QED
  BY <1>1, <1>2, <1>3, <1>4, <1>5, <1>6, <1>7, <1>8, <1>9, <1>10, <1>11, <1>12, <1>13,
       <1>14, <1>15, <1>16, <1>17, <1>18, <1>19, <1>20, <1>21, <1>22, <1>23, <1>24, <1>25,
       <1>26
  DEF Next, Request, HandlerStep, DelStep, ServerStep

LEMMA NextListsInv == IInv /\ [Next]_vars => ListsInv'
<1> SUFFICES ASSUME IInv, [Next]_vars  PROVE ListsInv'
  OBVIOUS
<1> USE ProcFacts DEF IInv, TypeOK, LocalsInv, ListsInv
<1>1. ASSUME NEW h \in Handlers, GetAny(h)  PROVE ListsInv'
  BY <1>1 DEF GetAny, Begin, Goto, globals, tunnels, host, locals, history
<1>2. ASSUME NEW h \in Handlers, NEW ty \in Types \cup {"other"}, GetTyped(h, ty)  PROVE ListsInv'
  BY <1>2 DEF GetTyped, Begin, Goto, Found, Switch, globals, tunnels, host, locals, history
<1>3. ASSUME NEW h \in Handlers, NEW t \in made \cup {None}, ReportErr(h, t)  PROVE ListsInv'
  BY <1>3 DEF ReportErr, Begin, Goto, globals, tunnels, host, locals, history
<1>4. ASSUME NEW h \in Handlers, ProxyNew(h)  PROVE ListsInv'
  BY <1>4 DEF ProxyNew, Begin, Goto, globals, tunnels, host, locals, history
<1>5. ASSUME NEW h \in Handlers, NEW t \in made \cup {None}, ProxyDel(h, t)  PROVE ListsInv'
  BY <1>5 DEF ProxyDel, Begin, Goto, globals, tunnels, host, locals, history
<1>6. ASSUME NEW h \in Handlers, CloseAll(h)  PROVE ListsInv'
  BY <1>6 DEF CloseAll, Begin, Goto, globals, tunnels, host, locals, history
<1>7. ASSUME NEW h \in Handlers, Rotate(h)  PROVE ListsInv'
  BY <1>7 DEF Rotate, Goto, Lock, globals, tunnels, host, locals, history
<1>8. ASSUME NEW h \in Handlers, Wrap(h)  PROVE ListsInv'
  BY <1>8 DEF Wrap, Goto, Unlock, globals, tunnels, host, locals, history
<1>9. ASSUME NEW h \in Handlers, Nth(h)  PROVE ListsInv'
  BY <1>9 DEF Nth, Goto, Found, globals, tunnels, host, locals, history
<1>10. ASSUME NEW h \in Handlers, Choose(h)  PROVE ListsInv'
  BY <1>10 DEF Choose, Goto, globals, tunnels, host, locals, history
<1>11. ASSUME NEW h \in Handlers, New(h)  PROVE ListsInv'
  BY <1>11 DEF New, Goto, globals, tunnels, host, locals, history
<1>12. ASSUME NEW h \in Handlers, AddLoad(h)  PROVE ListsInv'
  BY <1>12 DEF AddLoad, LocalsOK, globals, locals
<1>13. ASSUME NEW h \in Handlers, AddStore(h)  PROVE ListsInv'
  <2>1. tu[h] = h /\ h \in Tunnelids /\ h \notin Elements(seen[h])
    BY <1>13 DEF AddStore, HandInv, OnceInv, AddedInv, Tunnelids
  <2>2. seen[h] \in Seq(Tunnelids) /\ Distinct(seen[h])  BY DEF LocalsOK
  <2>3. Distinct(Append(seen[h], h))  BY <2>1, <2>2, AppendFacts
  <2>4. Distinct(<<>>)  BY DEF Distinct
  <2> QED  BY <1>13, <2>1, <2>3, <2>4 DEF AddStore, LocalsOK
<1>14. ASSUME NEW h \in Handlers, Check(h)  PROVE ListsInv'
  BY <1>14 DEF Check, Goto, Running, globals, tunnels, host, locals, history
<1>15. ASSUME NEW h \in Handlers, Start(h)  PROVE ListsInv'
  BY <1>15 DEF Start, globals, tunnels, host, locals, history
<1>16. ASSUME NEW p \in Procs, DelScan(p)  PROVE ListsInv'
  <2>1. Tunnels \in Seq(Tunnelids)  BY DEF GlobalsOK
  <2>2. Distinct(Without(Tunnels, Head(todo[p])))  BY <2>1, WithoutFacts
  <2> QED  BY <1>16, <2>2 DEF DelScan, LocalsOK, globals
<1>17. ASSUME NEW p \in Procs, DelClose(p)  PROVE ListsInv'
  BY <1>17 DEF DelClose, Goto, NextTally, globals, tunnels, host, locals, history
<1>18. ASSUME NEW p \in Procs, DelCount(p)  PROVE ListsInv'
  BY <1>18 DEF DelCount, Goto, globals, tunnels, host, locals, history
<1>19. ASSUME NEW p \in Procs, DelStore(p)  PROVE ListsInv'
  <2>1. Distinct(<<>>)  BY DEF Distinct
  <2> QED  BY <1>19, <2>1 DEF DelStore, LocalsOK
<1>20. ASSUME NEW k \in Servers, Listen(k)  PROVE ListsInv'
  BY <1>20 DEF Listen, Goto, globals, tunnels, host, locals, history
<1>21. ASSUME NEW k \in Servers, Select(k)  PROVE ListsInv'
  BY <1>21 DEF Select, Goto, globals, tunnels, host, locals, history
<1>22. ASSUME NEW k \in Servers, Accept(k)  PROVE ListsInv'
  BY <1>22 DEF Accept, Goto, globals, tunnels, host, locals, history
<1>23. ASSUME NEW k \in Servers, AcceptError(k)  PROVE ListsInv'
  BY <1>23 DEF AcceptError, Goto, globals, tunnels, host, locals, history
<1>24. ASSUME NEW k \in Servers, Exit(k)  PROVE ListsInv'
  BY <1>24 DEF Exit, Goto, TurnOff, globals, tunnels, host, locals, history
<1>25. CASE MapRace  BY <1>25 DEF MapRace, globals, tunnels, locals, history
<1>26. CASE UNCHANGED vars  BY <1>26 DEF vars, globals, tunnels, locals, history
<1> QED
  BY <1>1, <1>2, <1>3, <1>4, <1>5, <1>6, <1>7, <1>8, <1>9, <1>10, <1>11, <1>12, <1>13,
       <1>14, <1>15, <1>16, <1>17, <1>18, <1>19, <1>20, <1>21, <1>22, <1>23, <1>24, <1>25,
       <1>26
  DEF Next, Request, HandlerStep, DelStep, ServerStep

LEMMA NextIInv == IInv /\ [Next]_vars => IInv'
BY NextTypeOK, NextPcInv, NextHandInv, NextWorkInv, NextServeInv, NextOnceInv, NextAddedInv,
   NextListsInv DEF IInv, LocalsInv

(* Every variable keeps its type, whatever requests come and however the   *)
(* goroutines interleave: no step takes the head of an empty list of ids,  *)
(* makes a second tunnel for one request or starts a second server for it. *)
THEOREM TypeCorrect == Spec => []TypeOK
<1>1. Spec => []IInv  BY InitIInv, NextIInv, PTL DEF Spec
<1>2. IInv => TypeOK  BY DEF IInv
<1> QED  BY <1>1, <1>2, PTL

(* The registry never lists a tunnel twice.                                *)
THEOREM NeverTwice == Spec => []NoDuplicate
<1>1. Spec => []IInv  BY InitIInv, NextIInv, PTL DEF Spec
<1>2. IInv => NoDuplicate  BY DEF IInv, ListsInv, Distinct, NoDuplicate
<1> QED  BY <1>1, <1>2, PTL

-----------------------------------------------------------------------------
(* The lock.  LockOwner is inductive with the types.                       *)

LEMMA NextLockOwner == IInv /\ LockOwner /\ [Next]_vars => LockOwner'
<1> SUFFICES ASSUME IInv, LockOwner, [Next]_vars  PROVE LockOwner'
  OBVIOUS
<1> USE ProcFacts DEF IInv, TypeOK, LocalsInv, PcOK, LockOwner, GlobalsOK
<1>1. ASSUME NEW h \in Handlers, GetAny(h)  PROVE LockOwner'
  BY <1>1 DEF GetAny, Begin, Goto, globals, tunnels, host, locals, history
<1>2. ASSUME NEW h \in Handlers, NEW ty \in Types \cup {"other"}, GetTyped(h, ty)  PROVE LockOwner'
  BY <1>2 DEF GetTyped, Begin, Goto, Found, Switch, globals, tunnels, host, locals, history
<1>3. ASSUME NEW h \in Handlers, NEW t \in made \cup {None}, ReportErr(h, t)  PROVE LockOwner'
  BY <1>3 DEF ReportErr, Begin, Goto, globals, tunnels, host, locals, history
<1>4. ASSUME NEW h \in Handlers, ProxyNew(h)  PROVE LockOwner'
  BY <1>4 DEF ProxyNew, Begin, Goto, globals, tunnels, host, locals, history
<1>5. ASSUME NEW h \in Handlers, NEW t \in made \cup {None}, ProxyDel(h, t)  PROVE LockOwner'
  BY <1>5 DEF ProxyDel, Begin, Goto, globals, tunnels, host, locals, history
<1>6. ASSUME NEW h \in Handlers, CloseAll(h)  PROVE LockOwner'
  BY <1>6 DEF CloseAll, Begin, Goto, globals, tunnels, host, locals, history
<1>7. ASSUME NEW h \in Handlers, Rotate(h)  PROVE LockOwner'
  BY <1>7 DEF Rotate, Goto, Lock, globals, tunnels, host, locals, history
<1>8. ASSUME NEW h \in Handlers, Wrap(h)  PROVE LockOwner'
  BY <1>8 DEF Wrap, Goto, Unlock, globals, tunnels, host, locals, history
<1>9. ASSUME NEW h \in Handlers, Nth(h)  PROVE LockOwner'
  BY <1>9 DEF Nth, Goto, Found, globals, tunnels, host, locals, history
<1>10. ASSUME NEW h \in Handlers, Choose(h)  PROVE LockOwner'
  BY <1>10 DEF Choose, Goto, globals, tunnels, host, locals, history
<1>11. ASSUME NEW h \in Handlers, New(h)  PROVE LockOwner'
  BY <1>11 DEF New, Goto, globals, tunnels, host, locals, history
<1>12. ASSUME NEW h \in Handlers, AddLoad(h)  PROVE LockOwner'
  BY <1>12 DEF AddLoad, Goto, Lock, globals, tunnels, host, locals, history
<1>13. ASSUME NEW h \in Handlers, AddStore(h)  PROVE LockOwner'
  BY <1>13 DEF AddStore, Goto, Unlock, Overlaps, globals, tunnels, host, locals, history
<1>14. ASSUME NEW h \in Handlers, Check(h)  PROVE LockOwner'
  BY <1>14 DEF Check, Goto, Running, globals, tunnels, host, locals, history
<1>15. ASSUME NEW h \in Handlers, Start(h)  PROVE LockOwner'
  BY <1>15 DEF Start, ServeInv, globals, tunnels, host, locals, history
<1>16. ASSUME NEW p \in Procs, DelScan(p)  PROVE LockOwner'
  BY <1>16 DEF DelScan, Goto, globals, tunnels, host, locals, history
<1>17. ASSUME NEW p \in Procs, DelClose(p)  PROVE LockOwner'
  BY <1>17 DEF DelClose, Goto, NextTally, globals, tunnels, host, locals, history
<1>18. ASSUME NEW p \in Procs, DelCount(p)  PROVE LockOwner'
  BY <1>18 DEF DelCount, Goto, globals, tunnels, host, locals, history
<1>19. ASSUME NEW p \in Procs, DelStore(p)  PROVE LockOwner'
  BY <1>19 DEF DelStore, Goto, Overlaps, AfterDel, globals, tunnels, host, locals, history
<1>20. ASSUME NEW k \in Servers, Listen(k)  PROVE LockOwner'
  BY <1>20 DEF Listen, Goto, globals, tunnels, host, locals, history
<1>21. ASSUME NEW k \in Servers, Select(k)  PROVE LockOwner'
  BY <1>21 DEF Select, Goto, globals, tunnels, host, locals, history
<1>22. ASSUME NEW k \in Servers, Accept(k)  PROVE LockOwner'
  BY <1>22 DEF Accept, Goto, globals, tunnels, host, locals, history
<1>23. ASSUME NEW k \in Servers, AcceptError(k)  PROVE LockOwner'
  BY <1>23 DEF AcceptError, Goto, globals, tunnels, host, locals, history
<1>24. ASSUME NEW k \in Servers, Exit(k)  PROVE LockOwner'
  BY <1>24 DEF Exit, Goto, TurnOff, globals, tunnels, host, locals, history
<1>25. CASE MapRace  BY <1>25 DEF MapRace, globals, tunnels, locals, history
<1>26. CASE UNCHANGED vars  BY <1>26 DEF vars, globals, tunnels, locals, history
<1> QED
  BY <1>1, <1>2, <1>3, <1>4, <1>5, <1>6, <1>7, <1>8, <1>9, <1>10, <1>11, <1>12, <1>13,
       <1>14, <1>15, <1>16, <1>17, <1>18, <1>19, <1>20, <1>21, <1>22, <1>23, <1>24, <1>25,
       <1>26
  DEF Next, Request, HandlerStep, DelStep, ServerStep

(* AddProxy and GetProxy exclude each other, and only a handler that       *)
(* panicked in GetProxy keeps the lock for good.                           *)
THEOREM LockCorrect == Spec => []LockOwner
<1>1. Init => LockOwner  BY ProcFacts DEF Init, LockOwner
<1> QED  BY <1>1, InitIInv, NextIInv, NextLockOwner, PTL DEF Spec

-----------------------------------------------------------------------------
(* What the copies of the list hold as long as no update overlapped.       *)
SerialInv ==
    ~racy =>
    /\ Listed = added \ deleted
    /\ \A h \in Handlers : pc[h] = "append" => seen[h] = Tunnels
    /\ \A p \in Procs : pc[p] \in {"close", "count", "store"} =>
          Elements(seen[p]) = Listed \ {Head(todo[p])}

Copying == {"append", "close", "count", "store"}

(* A step that leaves the list, its copies and the history alone, and      *)
(* makes no goroutine hold a copy.                                         *)
LEMMA SerialFrame ==
    ASSUME SerialInv, UNCHANGED <<Tunnels, seen, added, deleted, racy>>,
           \A q \in Procs : pc'[q] \in Copying => pc'[q] = pc[q] /\ todo'[q] = todo[q]
    PROVE  SerialInv'
BY ProcFacts DEF SerialInv, Copying, Listed

LEMMA SerialInit == Init => SerialInv
BY ProcFacts DEF Init, SerialInv, Listed

LEMMA NextSerialInv == IInv /\ SerialInv /\ [Next]_vars => SerialInv'
<1> SUFFICES ASSUME IInv, SerialInv, [Next]_vars  PROVE SerialInv'
  OBVIOUS
<1> USE ProcFacts DEF IInv, TypeOK, LocalsInv, PcOK, SerialInv, Listed
<1>1. ASSUME NEW h \in Handlers, GetAny(h)  PROVE SerialInv'
  <2>1. UNCHANGED <<Tunnels, seen, added, deleted, racy>>
    BY <1>1 DEF GetAny, globals, locals, history
  <2>2. \A q \in Procs : pc'[q] \in Copying => pc'[q] = pc[q] /\ todo'[q] = todo[q]
    BY <1>1 DEF GetAny, Copying, locals, Begin, Goto
  <2> QED  BY <2>1, <2>2, SerialFrame
<1>2. ASSUME NEW h \in Handlers, NEW ty \in Types \cup {"other"}, GetTyped(h, ty)  PROVE SerialInv'
  <2>1. UNCHANGED <<Tunnels, seen, added, deleted, racy>>
    BY <1>2 DEF GetTyped, globals, locals, history
  <2>2. \A q \in Procs : pc'[q] \in Copying => pc'[q] = pc[q] /\ todo'[q] = todo[q]
    BY <1>2 DEF GetTyped, Copying, locals, Begin, Goto, Found
  <2> QED  BY <2>1, <2>2, SerialFrame
<1>3. ASSUME NEW h \in Handlers, NEW t \in made \cup {None}, ReportErr(h, t)  PROVE SerialInv'
  <2>1. UNCHANGED <<Tunnels, seen, added, deleted, racy>>
    BY <1>3 DEF ReportErr, globals, locals, history
  <2>2. \A q \in Procs : pc'[q] \in Copying => pc'[q] = pc[q] /\ todo'[q] = todo[q]
    BY <1>3 DEF ReportErr, Copying, locals, Begin, Goto, LocalsOK
  <2> QED  BY <2>1, <2>2, SerialFrame
<1>4. ASSUME NEW h \in Handlers, ProxyNew(h)  PROVE SerialInv'
  <2>1. UNCHANGED <<Tunnels, seen, added, deleted, racy>>
    BY <1>4 DEF ProxyNew, globals, locals, history
  <2>2. \A q \in Procs : pc'[q] \in Copying => pc'[q] = pc[q] /\ todo'[q] = todo[q]
    BY <1>4 DEF ProxyNew, Copying, locals, Begin, Goto
  <2> QED  BY <2>1, <2>2, SerialFrame
<1>5. ASSUME NEW h \in Handlers, NEW t \in made \cup {None}, ProxyDel(h, t)  PROVE SerialInv'
  <2>1. UNCHANGED <<Tunnels, seen, added, deleted, racy>>
    BY <1>5 DEF ProxyDel, globals, locals, history
  <2>2. \A q \in Procs : pc'[q] \in Copying => pc'[q] = pc[q] /\ todo'[q] = todo[q]
    BY <1>5 DEF ProxyDel, Copying, locals, Begin, Goto, LocalsOK
  <2> QED  BY <2>1, <2>2, SerialFrame
<1>6. ASSUME NEW h \in Handlers, CloseAll(h)  PROVE SerialInv'
  <2>1. UNCHANGED <<Tunnels, seen, added, deleted, racy>>
    BY <1>6 DEF CloseAll, globals, locals, history
  <2>2. \A q \in Procs : pc'[q] \in Copying => pc'[q] = pc[q] /\ todo'[q] = todo[q]
    BY <1>6 DEF CloseAll, Copying, locals, Begin, Goto, LocalsOK
  <2> QED  BY <2>1, <2>2, SerialFrame
<1>7. ASSUME NEW h \in Handlers, Rotate(h)  PROVE SerialInv'
  <2>1. UNCHANGED <<Tunnels, seen, added, deleted, racy>>
    BY <1>7 DEF Rotate, globals, locals, history
  <2>2. \A q \in Procs : pc'[q] \in Copying => pc'[q] = pc[q] /\ todo'[q] = todo[q]
    BY <1>7 DEF Rotate, Copying, locals, Goto
  <2> QED  BY <2>1, <2>2, SerialFrame
<1>8. ASSUME NEW h \in Handlers, Wrap(h)  PROVE SerialInv'
  <2>1. UNCHANGED <<Tunnels, seen, added, deleted, racy>>
    BY <1>8 DEF Wrap, globals, locals, history
  <2>2. \A q \in Procs : pc'[q] \in Copying => pc'[q] = pc[q] /\ todo'[q] = todo[q]
    BY <1>8 DEF Wrap, Copying, locals, Goto
  <2> QED  BY <2>1, <2>2, SerialFrame
<1>9. ASSUME NEW h \in Handlers, Nth(h)  PROVE SerialInv'
  <2>1. UNCHANGED <<Tunnels, seen, added, deleted, racy>>
    BY <1>9 DEF Nth, globals, locals, history
  <2>2. \A q \in Procs : pc'[q] \in Copying => pc'[q] = pc[q] /\ todo'[q] = todo[q]
    BY <1>9 DEF Nth, Copying, locals, Goto, Found
  <2> QED  BY <2>1, <2>2, SerialFrame
<1>10. ASSUME NEW h \in Handlers, Choose(h)  PROVE SerialInv'
  <2>1. UNCHANGED <<Tunnels, seen, added, deleted, racy>>
    BY <1>10 DEF Choose, globals, locals, history
  <2>2. \A q \in Procs : pc'[q] \in Copying => pc'[q] = pc[q] /\ todo'[q] = todo[q]
    BY <1>10 DEF Choose, Copying, locals, Goto
  <2> QED  BY <2>1, <2>2, SerialFrame
<1>11. ASSUME NEW h \in Handlers, New(h)  PROVE SerialInv'
  <2>1. UNCHANGED <<Tunnels, seen, added, deleted, racy>>
    BY <1>11 DEF New, globals, locals, history
  <2>2. \A q \in Procs : pc'[q] \in Copying => pc'[q] = pc[q] /\ todo'[q] = todo[q]
    BY <1>11 DEF New, Copying, locals, Goto
  <2> QED  BY <2>1, <2>2, SerialFrame
<1>12. ASSUME NEW h \in Handlers, AddLoad(h)  PROVE SerialInv'
  <2>1. Tunnels' = Tunnels /\ UNCHANGED history  BY <1>12 DEF AddLoad
  <2>2. seen'[h] = Tunnels /\ pc'[h] = "append"  BY <1>12 DEF AddLoad, Goto, LocalsOK
  <2>3. \A q \in Procs \ {h} : pc'[q] = pc[q] /\ seen'[q] = seen[q] /\ todo'[q] = todo[q]
    BY <1>12 DEF AddLoad, Goto, LocalsOK
  <2> QED  BY <2>1, <2>2, <2>3 DEF history, Listed
<1>13. ASSUME NEW h \in Handlers, AddStore(h)  PROVE SerialInv'
  <2> SUFFICES ASSUME ~racy'
             PROVE  /\ Listed' = added' \ deleted'
                    /\ \A q \in Procs : pc'[q] \notin {"append", "close", "count", "store"}
    BY ProcFacts
  <2>1. ~racy /\ \A q \in Procs \ {h} : ~Updating(q)
    BY <1>13 DEF AddStore, Overlaps, HistoryOK
  <2>2. \A q \in Procs : pc'[q] \notin {"append", "close", "count", "store"}
    BY <1>13, <2>1 DEF AddStore, Goto, Updating
  <2>3. seen[h] = Tunnels /\ Listed = added \ deleted  BY <1>13, <2>1 DEF AddStore
  <2>4. tu[h] = h /\ h \in Tunnelids /\ h \notin added
    BY <1>13 DEF AddStore, HandInv, OnceInv, Tunnelids
  <2>5. Elements(Append(Tunnels, h)) = Elements(Tunnels) \cup {h}
    <3>1. Tunnels \in Seq(Tunnelids) /\ Distinct(Tunnels)  BY DEF GlobalsOK, ListsInv
    <3>2. h \notin Elements(Tunnels)  BY <2>4 DEF AddedInv, Listed, Elements
    <3> QED  BY <2>4, <3>1, <3>2, AppendFacts
  <2>6. Listed' = Listed \cup {h}  BY <1>13, <2>3, <2>4, <2>5 DEF AddStore, Listed, Elements
  <2>7. added' = added \cup {h} /\ deleted' = deleted  BY <1>13, <2>4 DEF AddStore
  <2>8. h \notin deleted  BY <2>4 DEF AddedInv
  <2> QED  BY <2>2, <2>3, <2>6, <2>7, <2>8
<1>14. ASSUME NEW h \in Handlers, Check(h)  PROVE SerialInv'
  <2>1. UNCHANGED <<Tunnels, seen, added, deleted, racy>>
    BY <1>14 DEF Check, globals, locals, history
  <2>2. \A q \in Procs : pc'[q] \in Copying => pc'[q] = pc[q] /\ todo'[q] = todo[q]
    BY <1>14 DEF Check, Copying, locals, Goto
  <2> QED  BY <2>1, <2>2, SerialFrame
<1>15. ASSUME NEW h \in Handlers, Start(h)  PROVE SerialInv'
  <2>1. UNCHANGED <<Tunnels, seen, added, deleted, racy>>
    BY <1>15 DEF Start, globals, locals, history
  <2>2. \A q \in Procs : pc'[q] \in Copying => pc'[q] = pc[q] /\ todo'[q] = todo[q]
    BY <1>15 DEF Start, Copying, locals
  <2> QED  BY <2>1, <2>2, SerialFrame
<1>16. ASSUME NEW p \in Procs, DelScan(p)  PROVE SerialInv'
  <2>1. Tunnels' = Tunnels /\ UNCHANGED history /\ todo' = todo
    BY <1>16 DEF DelScan, globals
  <2>2. seen'[p] = Without(Tunnels, Head(todo[p])) /\ pc'[p] \in {"close", "store"}
    BY <1>16 DEF DelScan, Goto, LocalsOK
  <2>3. Elements(Without(Tunnels, Head(todo[p]))) = Listed \ {Head(todo[p])}
    <3>1. Tunnels \in Seq(Tunnelids) /\ Distinct(Tunnels)  BY DEF GlobalsOK, ListsInv
    <3>2. Elements(Tunnels) = Listed  BY DEF Elements, Listed
    <3> QED  BY <3>1, <3>2, WithoutFacts
  <2>4. \A q \in Procs \ {p} : pc'[q] = pc[q] /\ seen'[q] = seen[q]
    BY <1>16 DEF DelScan, Goto, LocalsOK
  <2> QED  BY <2>1, <2>2, <2>3, <2>4, ProcFacts DEF history, Listed
<1>17. ASSUME NEW p \in Procs, DelClose(p)  PROVE SerialInv'
  <2>1. Tunnels' = Tunnels /\ UNCHANGED history /\ todo' = todo /\ seen' = seen
    BY <1>17 DEF DelClose, globals
  <2>2. pc[p] = "close" /\ pc'[p] = "count" /\ \A q \in Procs \ {p} : pc'[q] = pc[q]
    BY <1>17 DEF DelClose, Goto
  <2> QED  BY <2>1, <2>2, ProcFacts DEF history, Listed
<1>18. ASSUME NEW p \in Procs, DelCount(p)  PROVE SerialInv'
  <2>1. Tunnels' = Tunnels /\ UNCHANGED history /\ todo' = todo /\ seen' = seen
    BY <1>18 DEF DelCount, globals
  <2>2. pc[p] = "count" /\ pc'[p] = "store" /\ \A q \in Procs \ {p} : pc'[q] = pc[q]
    BY <1>18 DEF DelCount, Goto
  <2> QED  BY <2>1, <2>2, ProcFacts DEF history, Listed
<1>19. ASSUME NEW p \in Procs, DelStore(p)  PROVE SerialInv'
  <2> DEFINE t == Head(todo[p])
  <2> SUFFICES ASSUME ~racy'
             PROVE  /\ Listed' = added' \ deleted'
                    /\ \A q \in Procs : pc'[q] \notin {"append", "close", "count", "store"}
    BY ProcFacts
  <2>1. ~racy /\ \A q \in Procs \ {p} : ~Updating(q)
    BY <1>19 DEF DelStore, Overlaps, HistoryOK
  <2>2. \A q \in Procs : pc'[q] \notin {"append", "close", "count", "store"}
    BY <1>19, <2>1 DEF DelStore, Goto, Updating, AfterDel
  <2>3. Elements(seen[p]) = Listed \ {t} /\ Listed = added \ deleted
    BY <1>19, <2>1 DEF DelStore
  <2>4. Listed' = Elements(seen[p])  BY <1>19 DEF DelStore, Listed, Elements
  <2>5. added' = added /\ deleted' = deleted \cup ({t} \cap added)  BY <1>19 DEF DelStore
  <2> QED  BY <2>2, <2>3, <2>4, <2>5
<1>20. ASSUME NEW k \in Servers, Listen(k)  PROVE SerialInv'
  <2>1. UNCHANGED <<Tunnels, seen, added, deleted, racy>>
    BY <1>20 DEF Listen, globals, locals, history
  <2>2. \A q \in Procs : pc'[q] \in Copying => pc'[q] = pc[q] /\ todo'[q] = todo[q]
    BY <1>20 DEF Listen, Copying, locals, Goto
  <2> QED  BY <2>1, <2>2, SerialFrame
<1>21. ASSUME NEW k \in Servers, Select(k)  PROVE SerialInv'
  <2>1. UNCHANGED <<Tunnels, seen, added, deleted, racy>>
    BY <1>21 DEF Select, globals, locals, history
  <2>2. \A q \in Procs : pc'[q] \in Copying => pc'[q] = pc[q] /\ todo'[q] = todo[q]
    BY <1>21 DEF Select, Copying, locals, Goto
  <2> QED  BY <2>1, <2>2, SerialFrame
<1>22. ASSUME NEW k \in Servers, Accept(k)  PROVE SerialInv'
  <2>1. UNCHANGED <<Tunnels, seen, added, deleted, racy>>
    BY <1>22 DEF Accept, globals, locals, history
  <2>2. \A q \in Procs : pc'[q] \in Copying => pc'[q] = pc[q] /\ todo'[q] = todo[q]
    BY <1>22 DEF Accept, Copying, locals, Goto
  <2> QED  BY <2>1, <2>2, SerialFrame
<1>23. ASSUME NEW k \in Servers, AcceptError(k)  PROVE SerialInv'
  <2>1. UNCHANGED <<Tunnels, seen, added, deleted, racy>>
    BY <1>23 DEF AcceptError, globals, locals, history
  <2>2. \A q \in Procs : pc'[q] \in Copying => pc'[q] = pc[q] /\ todo'[q] = todo[q]
    BY <1>23 DEF AcceptError, Copying, locals, Goto
  <2> QED  BY <2>1, <2>2, SerialFrame
<1>24. ASSUME NEW k \in Servers, Exit(k)  PROVE SerialInv'
  <2>1. UNCHANGED <<Tunnels, seen, added, deleted, racy>>
    BY <1>24 DEF Exit, globals, locals, history
  <2>2. \A q \in Procs : pc'[q] \in Copying => pc'[q] = pc[q] /\ todo'[q] = todo[q]
    BY <1>24 DEF Exit, Copying, locals, Goto, LocalsOK
  <2> QED  BY <2>1, <2>2, SerialFrame
<1>25. CASE MapRace  BY <1>25 DEF MapRace, globals, tunnels, locals, history
<1>26. CASE UNCHANGED vars  BY <1>26 DEF vars, globals, tunnels, locals, history
<1> QED
  BY <1>1, <1>2, <1>3, <1>4, <1>5, <1>6, <1>7, <1>8, <1>9, <1>10, <1>11, <1>12, <1>13,
       <1>14, <1>15, <1>16, <1>17, <1>18, <1>19, <1>20, <1>21, <1>22, <1>23, <1>24, <1>25,
       <1>26
  DEF Next, Request, HandlerStep, DelStep, ServerStep

(* Without overlapping updates the registry is exactly what was added and  *)
(* not deleted, for any number of requests.                                *)
THEOREM SerialExact == Spec => []ExactWhenSerial
<1>1. SerialInv => ExactWhenSerial  BY DEF SerialInv, ExactWhenSerial
<1> QED  BY <1>1, SerialInit, InitIInv, NextIInv, NextSerialInv, PTL DEF Spec

-----------------------------------------------------------------------------
(* The flag On and the goroutines behind it.                               *)

LEMMA NextOnHasServer == IInv /\ OnHasServer /\ [Next]_vars => OnHasServer'
<1> SUFFICES ASSUME IInv, OnHasServer, [Next]_vars  PROVE OnHasServer'
  OBVIOUS
<1> USE ProcFacts DEF IInv, TypeOK, LocalsInv, PcOK, PcInv, OnHasServer, tunnels
<1>1. ASSUME NEW h \in Handlers, GetAny(h)  PROVE OnHasServer'
  BY <1>1 DEF GetAny, Begin, Goto, globals, tunnels, host, locals, history
<1>2. ASSUME NEW h \in Handlers, NEW ty \in Types \cup {"other"}, GetTyped(h, ty)
      PROVE  OnHasServer'
  <2>1. On' = On /\ serves' = serves  BY <1>2 DEF GetTyped
  <2>2. \A k \in Servers : pc'[k] = pc[k]  BY <1>2 DEF GetTyped, Goto, Found
  <2> QED  BY <2>1, <2>2
<1>3. ASSUME NEW h \in Handlers, NEW t \in made \cup {None}, ReportErr(h, t)  PROVE OnHasServer'
  BY <1>3 DEF ReportErr, Begin, Goto, globals, tunnels, host, locals, history
<1>4. ASSUME NEW h \in Handlers, ProxyNew(h)  PROVE OnHasServer'
  BY <1>4 DEF ProxyNew, Begin, Goto, globals, tunnels, host, locals, history
<1>5. ASSUME NEW h \in Handlers, NEW t \in made \cup {None}, ProxyDel(h, t)  PROVE OnHasServer'
  BY <1>5 DEF ProxyDel, Begin, Goto, globals, tunnels, host, locals, history
<1>6. ASSUME NEW h \in Handlers, CloseAll(h)  PROVE OnHasServer'
  BY <1>6 DEF CloseAll, Begin, Goto, globals, tunnels, host, locals, history
<1>7. ASSUME NEW h \in Handlers, Rotate(h)  PROVE OnHasServer'
  BY <1>7 DEF Rotate, Goto, Lock, globals, tunnels, host, locals, history
<1>8. ASSUME NEW h \in Handlers, Wrap(h)  PROVE OnHasServer'
  BY <1>8 DEF Wrap, Goto, Unlock, globals, tunnels, host, locals, history
<1>9. ASSUME NEW h \in Handlers, Nth(h)  PROVE OnHasServer'
  BY <1>9 DEF Nth, Goto, Found, globals, tunnels, host, locals, history
<1>10. ASSUME NEW h \in Handlers, Choose(h)  PROVE OnHasServer'
  BY <1>10 DEF Choose, Goto, globals, tunnels, host, locals, history
<1>11. ASSUME NEW h \in Handlers, New(h)  PROVE OnHasServer'
  BY <1>11 DEF New, Goto, globals, tunnels, host, locals, history
<1>12. ASSUME NEW h \in Handlers, AddLoad(h)  PROVE OnHasServer'
  BY <1>12 DEF AddLoad, Goto, Lock, globals, tunnels, host, locals, history
<1>13. ASSUME NEW h \in Handlers, AddStore(h)  PROVE OnHasServer'
  BY <1>13 DEF AddStore, Goto, Unlock, Overlaps, globals, tunnels, host, locals, history
<1>14. ASSUME NEW h \in Handlers, Check(h)  PROVE OnHasServer'
  BY <1>14 DEF Check, Goto, Running, globals, tunnels, host, locals, history
<1>15. ASSUME NEW h \in Handlers, Start(h)  PROVE OnHasServer'
  <2>1. tu[h] \in Tunnelids  BY <1>15 DEF Start, HandInv, HistoryOK
  <2>2. serves'[ServerOf(h)] = tu[h] /\ pc'[ServerOf(h)] = "listen"
    BY <1>15 DEF Start, LocalsOK
  <2>3. pc[ServerOf(h)] = "idle"  BY <1>15 DEF Start, ServeInv
  <2>4. \A k \in Servers \ {ServerOf(h)} : serves'[k] = serves[k] /\ pc'[k] = pc[k]
    BY <1>15 DEF Start, LocalsOK
  <2>5. On' = [On EXCEPT ![tu[h]] = TRUE]  BY <1>15 DEF Start
  <2> QED  BY <2>1, <2>2, <2>3, <2>4, <2>5 DEF TunnelsOK
<1>16. ASSUME NEW p \in Procs, DelScan(p)  PROVE OnHasServer'
  BY <1>16 DEF DelScan, Goto, globals, tunnels, host, locals, history
<1>17. ASSUME NEW p \in Procs, DelClose(p)  PROVE OnHasServer'
  BY <1>17 DEF DelClose, Goto, NextTally, globals, tunnels, host, locals, history
<1>18. ASSUME NEW p \in Procs, DelCount(p)  PROVE OnHasServer'
  BY <1>18 DEF DelCount, Goto, globals, tunnels, host, locals, history
<1>19. ASSUME NEW p \in Procs, DelStore(p)  PROVE OnHasServer'
  BY <1>19 DEF DelStore, Goto, Overlaps, AfterDel, globals, tunnels, host, locals, history
<1>20. ASSUME NEW k \in Servers, Listen(k)  PROVE OnHasServer'
  BY <1>20 DEF Listen, Goto, globals, tunnels, host, locals, history
<1>21. ASSUME NEW k \in Servers, Select(k)  PROVE OnHasServer'
  BY <1>21 DEF Select, Goto, globals, tunnels, host, locals, history
<1>22. ASSUME NEW k \in Servers, Accept(k)  PROVE OnHasServer'
  BY <1>22 DEF Accept, Goto, globals, tunnels, host, locals, history
<1>23. ASSUME NEW k \in Servers, AcceptError(k)  PROVE OnHasServer'
  BY <1>23 DEF AcceptError, Goto, globals, tunnels, host, locals, history
<1>24. ASSUME NEW k \in Servers, Exit(k)  PROVE OnHasServer'
  <2>1. serves[k] \in Tunnelids  BY <1>24 DEF Exit, ServeInv, ServerSteps, TunnelsOK
  <2>2. On' = [On EXCEPT ![serves[k]] = FALSE] /\ serves' = serves  BY <1>24 DEF Exit,
       TurnOff
  <2>3. \A q \in Servers \ {k} : pc'[q] = pc[q]  BY <1>24 DEF Exit, Goto
  <2> QED  BY <2>1, <2>2, <2>3 DEF TunnelsOK
<1>25. CASE MapRace  BY <1>25 DEF MapRace, globals, tunnels, locals, history
<1>26. CASE UNCHANGED vars  BY <1>26 DEF vars, globals, tunnels, locals, history
<1> QED
  BY <1>1, <1>2, <1>3, <1>4, <1>5, <1>6, <1>7, <1>8, <1>9, <1>10, <1>11, <1>12, <1>13,
       <1>14, <1>15, <1>16, <1>17, <1>18, <1>19, <1>20, <1>21, <1>22, <1>23, <1>24, <1>25,
       <1>26
  DEF Next, Request, HandlerStep, DelStep, ServerStep

(* A tunnel that is On always has a server goroutine that has not returned.*)
THEOREM OnCorrect == Spec => []OnHasServer
<1>1. Init => OnHasServer  BY DEF Init, OnHasServer
<1> QED  BY <1>1, InitIInv, NextIInv, NextOnHasServer, PTL DEF Spec

LEMMA NextGivenStarted == IInv /\ OnHasServer /\ GivenStarted /\ [Next]_vars => GivenStarted'
<1> SUFFICES ASSUME IInv, OnHasServer /\ GivenStarted, [Next]_vars  PROVE GivenStarted'
  OBVIOUS
<1> USE ProcFacts DEF IInv, TypeOK, LocalsInv, GivenStarted
<1>1. ASSUME NEW h \in Handlers, GetAny(h)  PROVE GivenStarted'
  BY <1>1 DEF GetAny, Begin, Goto, globals, tunnels, host, locals, history
<1>2. ASSUME NEW h \in Handlers, NEW ty \in Types \cup {"other"}, GetTyped(h, ty)
      PROVE  GivenStarted'
  BY <1>2 DEF GetTyped, Begin, Goto, Found, Switch, globals, tunnels, host, locals, history
<1>3. ASSUME NEW h \in Handlers, NEW t \in made \cup {None}, ReportErr(h, t)  PROVE GivenStarted'
  BY <1>3 DEF ReportErr, Begin, Goto, globals, tunnels, host, locals, history
<1>4. ASSUME NEW h \in Handlers, ProxyNew(h)  PROVE GivenStarted'
  BY <1>4 DEF ProxyNew, Begin, Goto, globals, tunnels, host, locals, history
<1>5. ASSUME NEW h \in Handlers, NEW t \in made \cup {None}, ProxyDel(h, t)  PROVE GivenStarted'
  BY <1>5 DEF ProxyDel, Begin, Goto, globals, tunnels, host, locals, history
<1>6. ASSUME NEW h \in Handlers, CloseAll(h)  PROVE GivenStarted'
  BY <1>6 DEF CloseAll, Begin, Goto, globals, tunnels, host, locals, history
<1>7. ASSUME NEW h \in Handlers, Rotate(h)  PROVE GivenStarted'
  BY <1>7 DEF Rotate, Goto, Lock, globals, tunnels, host, locals, history
<1>8. ASSUME NEW h \in Handlers, Wrap(h)  PROVE GivenStarted'
  BY <1>8 DEF Wrap, Goto, Unlock, globals, tunnels, host, locals, history
<1>9. ASSUME NEW h \in Handlers, Nth(h)  PROVE GivenStarted'
  BY <1>9 DEF Nth, Goto, Found, globals, tunnels, host, locals, history
<1>10. ASSUME NEW h \in Handlers, Choose(h)  PROVE GivenStarted'
  BY <1>10 DEF Choose, Goto, globals, tunnels, host, locals, history
<1>11. ASSUME NEW h \in Handlers, New(h)  PROVE GivenStarted'
  BY <1>11 DEF New, Goto, globals, tunnels, host, locals, history
<1>12. ASSUME NEW h \in Handlers, AddLoad(h)  PROVE GivenStarted'
  BY <1>12 DEF AddLoad, Goto, Lock, globals, tunnels, host, locals, history
<1>13. ASSUME NEW h \in Handlers, AddStore(h)  PROVE GivenStarted'
  BY <1>13 DEF AddStore, Goto, Unlock, Overlaps, globals, tunnels, host, locals, history
<1>14. ASSUME NEW h \in Handlers, Check(h)  PROVE GivenStarted'
  <2>1. tu[h] \in Tunnelids  BY <1>14 DEF Check, HandInv, HistoryOK
  <2>2. On[tu[h]] => tu[h] \in {serves[k] : k \in Servers} \ {None}
    BY <2>1, ProcFacts DEF OnHasServer, Tunnelids
  <2>3. serves' = serves /\ (given' = given \/ (On[tu[h]] /\ given' = given \cup {tu[h]}))
    BY <1>14 DEF Check, Running
  <2> QED  BY <2>2, <2>3
<1>15. ASSUME NEW h \in Handlers, Start(h)  PROVE GivenStarted'
  <2>1. tu[h] \in Tunnelids  BY <1>15 DEF Start, HandInv, HistoryOK
  <2>2. serves'[ServerOf(h)] = tu[h] /\ tu[h] # None  BY <1>15, <2>1, ProcFacts DEF Start,
       LocalsOK, Tunnelids
  <2>3. serves[ServerOf(h)] = None  BY <1>15 DEF Start, ServeInv
  <2>4. \A k \in Servers \ {ServerOf(h)} : serves'[k] = serves[k]
    BY <1>15 DEF Start, LocalsOK
  <2>5. given' = given \cup {tu[h]}  BY <1>15 DEF Start
  <2> QED  BY <2>2, <2>3, <2>4, <2>5, ProcFacts
<1>16. ASSUME NEW p \in Procs, DelScan(p)  PROVE GivenStarted'
  BY <1>16 DEF DelScan, Goto, globals, tunnels, host, locals, history
<1>17. ASSUME NEW p \in Procs, DelClose(p)  PROVE GivenStarted'
  BY <1>17 DEF DelClose, Goto, NextTally, globals, tunnels, host, locals, history
<1>18. ASSUME NEW p \in Procs, DelCount(p)  PROVE GivenStarted'
  BY <1>18 DEF DelCount, Goto, globals, tunnels, host, locals, history
<1>19. ASSUME NEW p \in Procs, DelStore(p)  PROVE GivenStarted'
  BY <1>19 DEF DelStore, Goto, Overlaps, AfterDel, globals, tunnels, host, locals, history
<1>20. ASSUME NEW k \in Servers, Listen(k)  PROVE GivenStarted'
  BY <1>20 DEF Listen, Goto, globals, tunnels, host, locals, history
<1>21. ASSUME NEW k \in Servers, Select(k)  PROVE GivenStarted'
  BY <1>21 DEF Select, Goto, globals, tunnels, host, locals, history
<1>22. ASSUME NEW k \in Servers, Accept(k)  PROVE GivenStarted'
  BY <1>22 DEF Accept, Goto, globals, tunnels, host, locals, history
<1>23. ASSUME NEW k \in Servers, AcceptError(k)  PROVE GivenStarted'
  BY <1>23 DEF AcceptError, Goto, globals, tunnels, host, locals, history
<1>24. ASSUME NEW k \in Servers, Exit(k)  PROVE GivenStarted'
  BY <1>24 DEF Exit, Goto, TurnOff, globals, tunnels, host, locals, history
<1>25. CASE MapRace  BY <1>25 DEF MapRace, globals, tunnels, locals, history
<1>26. CASE UNCHANGED vars  BY <1>26 DEF vars, globals, tunnels, locals, history
<1> QED
  BY <1>1, <1>2, <1>3, <1>4, <1>5, <1>6, <1>7, <1>8, <1>9, <1>10, <1>11, <1>12, <1>13,
       <1>14, <1>15, <1>16, <1>17, <1>18, <1>19, <1>20, <1>21, <1>22, <1>23, <1>24, <1>25,
       <1>26
  DEF Next, Request, HandlerStep, DelStep, ServerStep

(* Every tunnel proxy-get or proxy-err gave to a client was started.       *)
THEOREM GivenCorrect == Spec => []GivenStarted
<1>1. Init => OnHasServer /\ GivenStarted  BY DEF Init, OnHasServer, GivenStarted
<1> QED  BY <1>1, InitIInv, NextIInv, NextOnHasServer, NextGivenStarted, PTL DEF Spec
-----------------------------------------------------------------------------
(* The tally and the firewall depend on few steps.  A quiet step leaves    *)
(* both alone, and the goroutines in DelProxy as they are.                 *)
Cutting == {"close", "count", "store"}

Quiet ==
    /\ UNCHANGED <<Tunnels, ErrTypeCount, config, ufw, added, deleted, racy>>
    /\ \A q \in Procs : pc[q] \in DelSteps \/ pc'[q] \in Cutting =>
          pc'[q] = pc[q] /\ todo'[q] = todo[q] /\ num'[q] = num[q]
    /\ \A k \in Servers : pc'[k] \in ServerSteps =>
          \/ pc[k] \in ServerSteps /\ serves'[k] = serves[k]
          \/ serves'[k] \in added
    /\ \A q \in Procs : pc[q] = "append" => pc'[q] = "append"
    /\ \/ given' = given
       \/ /\ \E t \in added : given' = given \cup {t}
          /\ \A q \in Procs : pc'[q] = "append" => pc[q] = "append"

LEMMA QuietSteps ==
    ASSUME IInv, [Next]_vars
    PROVE  \/ Quiet
           \/ \E h \in Handlers : New(h) \/ AddStore(h)
           \/ \E p \in Procs : DelScan(p) \/ DelClose(p) \/ DelCount(p) \/ DelStore(p)
           \/ \E k \in Servers : Exit(k)
<1> USE ProcFacts DEF IInv, TypeOK, LocalsInv, PcOK, PcInv, Cutting, DelSteps
<1>1. ASSUME NEW h \in Handlers, GetAny(h)  PROVE Quiet
  BY <1>1 DEF GetAny, Begin, Goto, globals, tunnels, host, locals, history, Quiet
<1>2. ASSUME NEW h \in Handlers, NEW ty \in Types \cup {"other"}, GetTyped(h, ty)  PROVE Quiet
  <2>1. UNCHANGED <<Tunnels, ErrTypeCount, config, ufw, added, deleted, racy, given, todo, num, serves>>
    BY <1>2 DEF GetTyped, globals, tunnels, host, history
  <2>2. \A q \in Procs : pc[q] \in DelSteps \cup {"append"} \/ pc'[q] \in Cutting \cup ServerSteps =>
          pc'[q] = pc[q]
    BY <1>2 DEF GetTyped, Begin, Goto, Found, ServerSteps
  <2> QED  BY <2>1, <2>2 DEF Quiet
<1>3. ASSUME NEW h \in Handlers, NEW t \in made \cup {None}, ReportErr(h, t)  PROVE Quiet
  BY <1>3 DEF ReportErr, Begin, Goto, globals, tunnels, host, history, LocalsOK, Quiet
<1>4. ASSUME NEW h \in Handlers, ProxyNew(h)  PROVE Quiet
  BY <1>4 DEF ProxyNew, Begin, Goto, globals, tunnels, host, history, Quiet
<1>5. ASSUME NEW h \in Handlers, NEW t \in made \cup {None}, ProxyDel(h, t)  PROVE Quiet
  BY <1>5 DEF ProxyDel, Begin, Goto, globals, tunnels, host, history, LocalsOK, Quiet
<1>6. ASSUME NEW h \in Handlers, CloseAll(h)  PROVE Quiet
  BY <1>6 DEF CloseAll, Begin, Goto, globals, tunnels, host, history, LocalsOK, Quiet
<1>7. ASSUME NEW h \in Handlers, Rotate(h)  PROVE Quiet
  BY <1>7 DEF Rotate, Goto, tunnels, host, locals, history, Quiet
<1>8. ASSUME NEW h \in Handlers, Wrap(h)  PROVE Quiet
  BY <1>8 DEF Wrap, Goto, tunnels, host, locals, history, Quiet
<1>9. ASSUME NEW h \in Handlers, Nth(h)  PROVE Quiet
  BY <1>9 DEF Nth, Goto, Found, globals, tunnels, host, history, Quiet
<1>10. ASSUME NEW h \in Handlers, Choose(h)  PROVE Quiet
  BY <1>10 DEF Choose, Goto, globals, tunnels, host, history, Quiet
<1>11. ASSUME NEW h \in Handlers, AddLoad(h)  PROVE Quiet
  BY <1>11 DEF AddLoad, Goto, tunnels, host, history, Quiet
<1>12. ASSUME NEW h \in Handlers, Check(h)  PROVE Quiet
  BY <1>12 DEF Check, Goto, globals, tunnels, host, HandInv, Quiet
<1>13. ASSUME NEW h \in Handlers, Start(h)  PROVE Quiet
  <2>1. UNCHANGED <<Tunnels, ErrTypeCount, config, ufw, added, deleted, racy, todo, num>>
    BY <1>13 DEF Start, globals, host
  <2>2. pc[h] = "start" /\ pc'[h] = "done" /\ pc[ServerOf(h)] = "idle" /\ pc'[ServerOf(h)] = "listen"
    BY <1>13 DEF Start, ServeInv
  <2>3. \A q \in Procs \ {h, ServerOf(h)} : pc'[q] = pc[q]  BY <1>13 DEF Start
  <2>4. serves'[ServerOf(h)] = tu[h] /\ \A k \in Servers \ {ServerOf(h)} : serves'[k] = serves[k]
    BY <1>13 DEF Start, LocalsOK
  <2>5. tu[h] \in added  BY <2>2 DEF HandInv
  <2>6. given' = given \cup {tu[h]}  BY <1>13 DEF Start
  <2> QED  BY <2>1, <2>2, <2>3, <2>4, <2>5, <2>6 DEF Quiet, ServerSteps
<1>14. ASSUME NEW k \in Servers, Listen(k)  PROVE Quiet
  BY <1>14 DEF Listen, Goto, globals, tunnels, locals, history, Quiet, ServerSteps
<1>15. ASSUME NEW k \in Servers, Select(k) \/ Accept(k)  PROVE Quiet
  BY <1>15 DEF Select, Accept, Goto, globals, tunnels, host, locals, history, Quiet, ServerSteps
<1>16. ASSUME NEW k \in Servers, AcceptError(k)  PROVE Quiet
  BY <1>16 DEF AcceptError, Goto, globals, tunnels, locals, history, Quiet, ServerSteps
<1>17. CASE MapRace  BY <1>17 DEF MapRace, globals, tunnels, locals, history, Quiet
<1>18. CASE UNCHANGED vars  BY <1>18 DEF vars, globals, tunnels, host, locals, history, Quiet
<1> QED
  BY <1>1, <1>2, <1>3, <1>4, <1>5, <1>6, <1>7, <1>8, <1>9, <1>10, <1>11, <1>12, <1>13,
       <1>14, <1>15, <1>16, <1>17, <1>18
  DEF Next, Request, HandlerStep, DelStep, ServerStep

-----------------------------------------------------------------------------
(* The tally.  A goroutine alone in DelProxy has read the tally it will    *)
(* write; once written, and until the new list is stored, the tally is one *)
(* ahead if the tunnel is on the list.                                     *)
Gone(ty) == {t \in deleted : config[t].type = ty}
Exact    == \A ty \in Types : ErrTypeCount[ty] = Cardinality(Gone(ty))

OneAhead(t) ==
    \A ty \in Types : ErrTypeCount[ty] = Cardinality(Gone(ty)) + (IF ty = config[t].type THEN 1 ELSE 0)

Counted(p) ==
    LET t == Head(todo[p])
    IN  /\ pc[p] = "count" => Exact /\ num[p] = ErrTypeCount[config[t].type] + 1
        /\ pc[p] = "store" => IF t \in Listed THEN OneAhead(t) ELSE Exact

TallyInv ==
    ~racy =>
    /\ \A p \in Procs : pc[p] \in {"close", "count"} => Head(todo[p]) \in Listed
    /\ (\A p \in Procs : pc[p] \notin {"count", "store"}) => Exact
    /\ \A p \in Procs :
         pc[p] \in {"count", "store"} /\ (\A q \in Procs \ {p} : pc[q] \notin Cutting) => Counted(p)

LEMMA GoneFinite ==
    ASSUME TypeOK, NEW ty
    PROVE  IsFiniteSet(Gone(ty)) /\ Cardinality(Gone(ty)) \in Nat
<1>1. IsFiniteSet(Tunnelids)
  BY RegistryAssumption, FS_Interval DEF Tunnelids, Handlers
<1>2. Gone(ty) \subseteq Tunnelids  BY DEF Gone, TypeOK, HistoryOK
<1> QED  BY <1>1, <1>2, FS_Subset, FS_CardinalityType

(* One deletion counts once, for its own type.                             *)
LEMMA GoneOneMore ==
    ASSUME TypeOK, NEW t, t \notin deleted, deleted' = deleted \cup {t}, UNCHANGED config,
           NEW ty
    PROVE  Cardinality(Gone(ty)') = Cardinality(Gone(ty)) + (IF ty = config[t].type THEN 1 ELSE 0)
<1>1. CASE ty = config[t].type
  <2>1. Gone(ty)' = Gone(ty) \cup {t} /\ t \notin Gone(ty)  BY <1>1 DEF Gone
  <2> QED  BY <1>1, <2>1, GoneFinite, FS_AddElement
<1>2. CASE ty # config[t].type
  <2>1. Gone(ty)' = Gone(ty)  BY <1>2 DEF Gone
  <2> QED  BY <1>2, <2>1, GoneFinite
<1> QED  BY <1>1, <1>2

LEMMA ExactFrame ==
    ASSUME UNCHANGED <<ErrTypeCount, deleted>>, \A t \in deleted : config'[t] = config[t]
    PROVE  Exact' = Exact /\ \A ty : Gone(ty)' = Gone(ty)
<1>1. \A ty : Gone(ty)' = Gone(ty)  BY DEF Gone
<1> QED  BY <1>1 DEF Exact

LEMMA TallyInit == Init => TallyInv
<1> SUFFICES ASSUME Init  PROVE TallyInv
  OBVIOUS
<1>1. \A ty : Gone(ty) = {}  BY DEF Init, Gone
<1>2. Exact  BY <1>1, FS_EmptySet DEF Init, Exact
<1> QED  BY <1>2, ProcFacts DEF Init, TallyInv

LEMMA NextTallyInv == IInv /\ SerialInv /\ TallyInv /\ [Next]_vars => TallyInv'
<1> SUFFICES ASSUME IInv, SerialInv, TallyInv, [Next]_vars, ~racy'  PROVE TallyInv'
  BY DEF TallyInv
<1> USE ProcFacts DEF IInv, TypeOK, LocalsInv, PcOK, Cutting, DelSteps
<1> DEFINE Alone(p) == \A q \in Procs \ {p} : pc[q] \notin Cutting
<1>1. CASE Quiet
  <2>1. Exact' = Exact /\ (\A ty : Gone(ty)' = Gone(ty)) /\ Listed' = Listed /\ config' = config
    BY <1>1, ExactFrame DEF Quiet, Listed
  <2>2. \A q \in Procs : pc'[q] \in Cutting => pc'[q] = pc[q] /\ todo'[q] = todo[q] /\ num'[q] = num[q]
    BY <1>1 DEF Quiet
  <2>3. \A q \in Procs : pc[q] \in Cutting => pc'[q] = pc[q]  BY <1>1 DEF Quiet
  <2>4. ErrTypeCount' = ErrTypeCount /\ ~racy  BY <1>1 DEF Quiet
  <2>5. \A p \in Procs : pc'[p] \in Cutting => Counted(p)' = Counted(p)
    BY <2>1, <2>2, <2>4 DEF Counted, OneAhead
  <2> QED  BY <2>1, <2>2, <2>3, <2>4, <2>5 DEF TallyInv
<1>2. ASSUME NEW h \in Handlers, New(h)  PROVE TallyInv'
  <2>1. UNCHANGED <<Tunnels, ErrTypeCount, deleted, racy, todo, num>>
    BY <1>2 DEF New, globals, history
  <2>2. h \notin made /\ deleted \subseteq made /\ Listed \subseteq made
    BY <1>2 DEF New, OnceInv, AddedInv
  <2>3. \A t \in made : config'[t] = config[t]  BY <1>2, <2>2 DEF New
  <2>4. Exact' = Exact /\ (\A ty : Gone(ty)' = Gone(ty)) /\ Listed' = Listed
    BY <2>1, <2>2, <2>3, ExactFrame DEF Listed
  <2>5. \A q \in Procs : pc'[q] \in Cutting \/ pc[q] \in Cutting => pc'[q] = pc[q]
    BY <1>2 DEF New, Goto
  <2>6. \A p \in Procs : pc[p] \in {"close", "count"} => Head(todo[p]) \in made  BY DEF WorkInv
  <2>7. \A p \in Procs : pc'[p] \in Cutting => Counted(p)' = Counted(p)
    BY <2>1, <2>2, <2>3, <2>4, <2>5, <2>6 DEF Counted, OneAhead
  <2> QED  BY <2>1, <2>4, <2>5, <2>7 DEF TallyInv
<1>3. ASSUME NEW h \in Handlers, AddStore(h)  PROVE TallyInv'
  <2>1. ~racy /\ \A q \in Procs : pc[q] \notin Cutting
    BY <1>3 DEF AddStore, Overlaps, Updating, HistoryOK
  <2>2. \A q \in Procs : pc'[q] \notin Cutting  BY <1>3, <2>1 DEF AddStore, Goto
  <2>3. Exact' = Exact  BY <1>3, ExactFrame DEF AddStore, tunnels
  <2> QED  BY <2>1, <2>2, <2>3 DEF TallyInv
<1>4. ASSUME NEW p \in Procs, DelScan(p)  PROVE TallyInv'
  <2>1. UNCHANGED <<Tunnels, ErrTypeCount, config, deleted, racy, todo, num>>
    BY <1>4 DEF DelScan, globals, tunnels, history
  <2>2. Exact' = Exact /\ (\A ty : Gone(ty)' = Gone(ty)) /\ Listed' = Listed
    BY <2>1, ExactFrame DEF Listed
  <2>3. pc[p] = "del" /\ pc'[p] = IF Head(todo[p]) \in Listed THEN "close" ELSE "store"
    BY <1>4 DEF DelScan, Goto
  <2>4. \A q \in Procs \ {p} : pc'[q] = pc[q]  BY <1>4 DEF DelScan, Goto
  <2>5. (\A q \in Procs \ {p} : pc[q] \notin Cutting) => Exact  BY <2>1, <2>3 DEF TallyInv
  <2> QED  BY <2>1, <2>2, <2>3, <2>4, <2>5 DEF TallyInv, Counted
<1>5. ASSUME NEW p \in Procs, DelClose(p)  PROVE TallyInv'
  <2>1. UNCHANGED <<Tunnels, ErrTypeCount, config, deleted, racy, todo>>
    BY <1>5 DEF DelClose, globals, tunnels, history
  <2>2. Exact' = Exact /\ Listed' = Listed  BY <2>1, ExactFrame DEF Listed
  <2>3. pc[p] = "close" /\ pc'[p] = "count" /\ \A q \in Procs \ {p} : pc'[q] = pc[q]
    BY <1>5 DEF DelClose, Goto
  <2>4. num'[p] = ErrTypeCount[config[Head(todo[p])].type] + 1
    BY <1>5 DEF DelClose, NextTally, LocalsOK
  <2>5. (\A q \in Procs \ {p} : pc[q] \notin Cutting) => Exact  BY <2>1, <2>3 DEF TallyInv
  <2> QED  BY <2>1, <2>2, <2>3, <2>4, <2>5 DEF TallyInv, Counted
<1>6. ASSUME NEW p \in Procs, DelCount(p)  PROVE TallyInv'
  <2> DEFINE t == Head(todo[p])
  <2>1. UNCHANGED <<Tunnels, config, deleted, racy, todo>>
    BY <1>6 DEF DelCount, history
  <2>2. Listed' = Listed /\ \A ty : Gone(ty)' = Gone(ty)  BY <2>1 DEF Listed, Gone
  <2>3. pc[p] = "count" /\ pc'[p] = "store" /\ \A q \in Procs \ {p} : pc'[q] = pc[q]
    BY <1>6 DEF DelCount, Goto
  <2>4. t \in made /\ t \in Listed  BY <2>1, <2>3 DEF WorkInv, TallyInv
  <2>5. config[t].type \in Types  BY <2>4 DEF TunnelsOK
  <2>6. ErrTypeCount' = [ErrTypeCount EXCEPT ![config[t].type] = num[p]]  BY <1>6 DEF DelCount
  <2>7. Alone(p) => OneAhead(t)'
    <3> SUFFICES ASSUME Alone(p), NEW ty \in Types
                 PROVE  ErrTypeCount'[ty] = Cardinality(Gone(ty)) + (IF ty = config[t].type THEN 1 ELSE 0)
      BY <2>1, <2>2 DEF OneAhead
    <3>1. Counted(p)  BY <2>1, <2>3 DEF TallyInv
    <3>2. Exact /\ num[p] = ErrTypeCount[config[t].type] + 1  BY <2>3, <3>1 DEF Counted
    <3>3. Cardinality(Gone(ty)) \in Nat  BY GoneFinite
    <3> QED  BY <2>5, <2>6, <3>2, <3>3 DEF Exact, GlobalsOK
  <2> QED  BY <2>1, <2>2, <2>3, <2>4, <2>7 DEF TallyInv, Counted
<1>7. ASSUME NEW p \in Procs, DelStore(p)  PROVE TallyInv'
  <2> DEFINE t == Head(todo[p])
  <2>1. ~racy /\ Alone(p)
    BY <1>7 DEF DelStore, Overlaps, Updating, HistoryOK
  <2>2. \A q \in Procs : pc'[q] \notin Cutting  BY <1>7, <2>1 DEF DelStore, Goto, AfterDel
  <2>3. pc[p] = "store" /\ UNCHANGED <<ErrTypeCount, config>> /\ deleted' = deleted \cup ({t} \cap added)
    BY <1>7 DEF DelStore, tunnels
  <2>4. Counted(p) /\ Listed = added \ deleted  BY <2>1, <2>3 DEF TallyInv, SerialInv
  <2>5. CASE t \in Listed
    <3>1. t \notin deleted /\ deleted' = deleted \cup {t} /\ OneAhead(t)
      BY <2>3, <2>4, <2>5 DEF Counted
    <3> QED  BY <2>2, <2>3, <3>1, GoneOneMore DEF TallyInv, OneAhead, Exact
  <2>6. CASE t \notin Listed
    <3>1. deleted' = deleted /\ Exact  BY <2>3, <2>4, <2>6 DEF Counted
    <3> QED  BY <2>2, <2>3, <3>1, ExactFrame DEF TallyInv
  <2> QED  BY <2>5, <2>6
<1>8. ASSUME NEW k \in Servers, Exit(k)  PROVE TallyInv'
  <2>1. UNCHANGED <<Tunnels, ErrTypeCount, config, deleted, racy, num>>
    BY <1>8 DEF Exit, globals, history
  <2>2. Exact' = Exact /\ (\A ty : Gone(ty)' = Gone(ty)) /\ Listed' = Listed
    BY <2>1, ExactFrame DEF Listed
  <2>3. pc[k] = "exit" /\ pc'[k] = "del" /\ \A q \in Procs \ {k} : pc'[q] = pc[q] /\ todo'[q] = todo[q]
    BY <1>8 DEF Exit, Goto, LocalsOK
  <2>4. \A p \in Procs : pc'[p] \in Cutting => Counted(p)' = Counted(p)
    BY <2>1, <2>2, <2>3 DEF Counted, OneAhead
  <2> QED  BY <2>1, <2>2, <2>3, <2>4 DEF TallyInv
<1> QED  BY <1>1, <1>2, <1>3, <1>4, <1>5, <1>6, <1>7, <1>8, QuietSteps

(* Without overlapping updates the tally is the number of tunnels of each  *)
(* type deleted so far, though DelProxy reads it without the lock.         *)
THEOREM TallyCorrect == Spec => []TallyExact
<1>1. TallyInv => TallyExact  BY DEF TallyInv, TallyExact, Exact, Gone
<1> QED  BY <1>1, SerialInit, TallyInit, InitIInv, NextIInv, NextSerialInv, NextTallyInv, PTL DEF Spec

-----------------------------------------------------------------------------
(* The firewall.  A tunnel not deleted yet has its port open, or another   *)
(* tunnel was given the same port, or DelProxy is at work on it: whoever   *)
(* closes a port is in DelProxy, or about to enter it, for that tunnel.    *)
Shared(t) == \E u \in made \ {t} : config[u].port = config[t].port

PortInv ==
    /\ \A t \in made \ deleted :
         config[t].port \in ufw \/ Shared(t) \/ (t \in added /\ Deleting(t))
    /\ \A p \in Procs : pc[p] \in {"close", "count"} => Head(todo[p]) \in added
    /\ \A k \in Servers : pc[k] \in ServerSteps => serves[k] \in added

LEMMA NextPortInv == IInv /\ PortInv /\ [Next]_vars => PortInv'
<1> SUFFICES ASSUME IInv, PortInv, [Next]_vars  PROVE PortInv'
  OBVIOUS
<1> USE ProcFacts DEF IInv, TypeOK, LocalsInv, PcOK, PcInv, Cutting, DelSteps, ServerSteps
<1>1. CASE Quiet
  <2>1. UNCHANGED <<config, ufw, added, deleted>>  BY <1>1 DEF Quiet
  <2>2. \A q \in Procs : pc[q] \in DelSteps => pc'[q] = pc[q] /\ todo'[q] = todo[q]
    BY <1>1 DEF Quiet
  <2>3. \A t : Shared(t)' = Shared(t) /\ (Deleting(t) => Deleting(t)')
    BY <2>1, <2>2 DEF Shared, Deleting, made
  <2>4. \A q \in Procs : pc'[q] \in {"close", "count"} => pc'[q] = pc[q] /\ todo'[q] = todo[q]
    BY <1>1 DEF Quiet
  <2>5. \A k \in Servers : pc'[k] \in ServerSteps =>
          (pc[k] \in ServerSteps /\ serves'[k] = serves[k]) \/ serves'[k] \in added
    BY <1>1 DEF Quiet
  <2> QED  BY <2>1, <2>3, <2>4, <2>5 DEF PortInv, made
<1>2. ASSUME NEW h \in Handlers, New(h)  PROVE PortInv'
  <2>1. UNCHANGED <<added, deleted, todo, serves>> /\ ufw \subseteq ufw'  BY <1>2 DEF New, history
  <2>2. h \notin made /\ made' = made \cup {h}  BY <1>2 DEF New, OnceInv, made
  <2>3. \A t \in made : config'[t] = config[t]  BY <1>2, <2>2 DEF New
  <2>4. config'[h].port \in ufw'  BY <1>2 DEF New
  <2>5. pc[h] = "new" /\ pc'[h] \in {"done", "load"} /\ \A q \in Procs \ {h} : pc'[q] = pc[q]
    BY <1>2 DEF New, Goto
  <2>6. \A t \in made : (Shared(t) => Shared(t)') /\ (Deleting(t) => Deleting(t)')
    BY <2>1, <2>2, <2>3, <2>5 DEF Shared, Deleting
  <2> QED  BY <2>1, <2>2, <2>3, <2>4, <2>5, <2>6 DEF PortInv
<1>3. ASSUME NEW h \in Handlers, AddStore(h)  PROVE PortInv'
  <2>1. UNCHANGED <<config, ufw, deleted, todo, serves>> /\ added \subseteq added'
    BY <1>3 DEF AddStore, tunnels, host
  <2>2. pc[h] = "append" /\ pc'[h] \in {"start", "check"} /\ \A q \in Procs \ {h} : pc'[q] = pc[q]
    BY <1>3 DEF AddStore, Goto
  <2>3. \A t : Shared(t)' = Shared(t) /\ (Deleting(t) => Deleting(t)')
    BY <2>1, <2>2 DEF Shared, Deleting, made
  <2> QED  BY <2>1, <2>2, <2>3 DEF PortInv, made
<1>4. ASSUME NEW p \in Procs, DelScan(p)  PROVE PortInv'
  <2>1. UNCHANGED <<config, ufw, added, deleted, todo, serves>>
    BY <1>4 DEF DelScan, tunnels, host, history
  <2>2. /\ pc[p] = "del" /\ \A q \in Procs \ {p} : pc'[q] = pc[q]
        /\ pc'[p] = IF Head(todo[p]) \in Listed THEN "close" ELSE "store"
    BY <1>4 DEF DelScan, Goto
  <2>3. \A t : Shared(t)' = Shared(t) /\ (Deleting(t) => Deleting(t)')
    BY <2>1, <2>2 DEF Shared, Deleting, made
  <2>4. Listed \subseteq added  BY DEF AddedInv
  <2> QED  BY <2>1, <2>2, <2>3, <2>4 DEF PortInv, made
<1>5. ASSUME NEW p \in Procs, DelClose(p)  PROVE PortInv'
  <2> DEFINE t == Head(todo[p])
  <2>1. UNCHANGED <<config, added, deleted, todo, serves>> /\ ufw' = ufw \ {config[t].port}
    BY <1>5 DEF DelClose, tunnels, history
  <2>2. pc[p] = "close" /\ pc'[p] = "count" /\ \A q \in Procs \ {p} : pc'[q] = pc[q]
    BY <1>5 DEF DelClose, Goto
  <2>3. \A u : Shared(u)' = Shared(u) /\ (Deleting(u) => Deleting(u)')
    BY <2>1, <2>2 DEF Shared, Deleting, made
  <2>4. t \in added /\ t \in made /\ Deleting(t)'
    BY <2>1, <2>2 DEF PortInv, WorkInv, Deleting
  <2>5. \A u \in made \ {t} : config[u].port = config[t].port => Shared(u)
    BY <2>4 DEF Shared
  <2> QED  BY <2>1, <2>2, <2>3, <2>4, <2>5 DEF PortInv, made
<1>6. ASSUME NEW p \in Procs, DelCount(p)  PROVE PortInv'
  <2>1. UNCHANGED <<config, ufw, added, deleted, todo, serves>>  BY <1>6 DEF DelCount, host, history
  <2>2. pc[p] = "count" /\ pc'[p] = "store" /\ \A q \in Procs \ {p} : pc'[q] = pc[q]
    BY <1>6 DEF DelCount, Goto
  <2>3. \A t : Shared(t)' = Shared(t) /\ (Deleting(t) => Deleting(t)')
    BY <2>1, <2>2 DEF Shared, Deleting, made
  <2> QED  BY <2>1, <2>2, <2>3 DEF PortInv, made
<1>7. ASSUME NEW p \in Procs, DelStore(p)  PROVE PortInv'
  <2> DEFINE t == Head(todo[p])
  <2>1. /\ UNCHANGED <<config, ufw, added, serves>>
        /\ deleted' = deleted \cup ({t} \cap added)
    BY <1>7 DEF DelStore, tunnels
  <2>2. /\ pc[p] = "store" /\ pc'[p] \in {"del", "choose", "done"}
        /\ \A q \in Procs \ {p} : pc'[q] = pc[q] /\ todo'[q] = todo[q]
    BY <1>7 DEF DelStore, Goto, AfterDel, LocalsOK
  <2>3. \A u : Shared(u)' = Shared(u)  BY <2>1 DEF Shared, made
  <2>4. \A u : u # t /\ Deleting(u) => Deleting(u)'  BY <2>2 DEF Deleting
  <2> QED  BY <2>1, <2>2, <2>3, <2>4 DEF PortInv, made
<1>8. ASSUME NEW k \in Servers, Exit(k)  PROVE PortInv'
  <2> DEFINE t == serves[k]
  <2>1. UNCHANGED <<config, added, deleted, serves>> /\ ufw' = ufw \ {config[t].port}
    BY <1>8 DEF Exit, history
  <2>2. /\ pc[k] = "exit" /\ pc'[k] = "del" /\ todo'[k] = <<t>>
        /\ \A q \in Procs \ {k} : pc'[q] = pc[q] /\ todo'[q] = todo[q]
    BY <1>8 DEF Exit, Goto, LocalsOK
  <2>3. \A u : Shared(u)' = Shared(u) /\ (Deleting(u) => Deleting(u)')
    BY <2>1, <2>2 DEF Shared, Deleting, made
  <2>4. t \in added /\ t \in made /\ Deleting(t)'
    <3>1. t \in added /\ t \in made  BY <2>2 DEF PortInv, ServeInv
    <3>2. Head(todo'[k]) = t  BY <2>2
    <3> QED  BY <2>1, <2>2, <3>1, <3>2 DEF Deleting
  <2>5. \A u \in made \ {t} : config[u].port = config[t].port => Shared(u)
    BY <2>4 DEF Shared
  <2> QED  BY <2>1, <2>2, <2>3, <2>4, <2>5 DEF PortInv, made
<1> QED  BY <1>1, <1>2, <1>3, <1>4, <1>5, <1>6, <1>7, <1>8, QuietSteps

(* Without overlapping updates, a listed tunnel nobody is deleting and     *)
(* whose port no other tunnel was given is open in the firewall.           *)
THEOREM PortsOpen == Spec => []ListedPortOpen
<1>1. Init => SerialInv /\ PortInv
  BY ProcFacts DEF Init, SerialInv, Listed, PortInv, made, ServerSteps
<1>2. IInv /\ SerialInv /\ PortInv => ListedPortOpen
  BY DEF IInv, LocalsInv, AddedInv, SerialInv, PortInv, ListedPortOpen, Shared
<1> QED  BY <1>1, <1>2, InitIInv, NextIInv, NextSerialInv, NextPortInv, PTL DEF Spec
-----------------------------------------------------------------------------
(* While no two updates are under way the registry is atomic.  An update   *)
(* is under way until it is stored, and if another is then, they clashed.  *)
LEMMA ClashStays ==
    ASSUME IInv, [Next]_vars, Clash
    PROVE  Clash'
<1> USE ProcFacts DEF IInv, TypeOK, PcOK, Updating, Cutting, DelSteps
<1>1. ASSUME NEW p \in Procs, ~Updating(p)', Updating(p)
      PROVE  racy' = (racy \/ \E q \in Procs \ {p} : Updating(q))
  <2>1. CASE Quiet  BY <1>1, <2>1 DEF Quiet
  <2>2. ASSUME NEW h \in Handlers, New(h)  PROVE FALSE  BY <1>1, <2>2 DEF New, Goto
  <2>3. ASSUME NEW h \in Handlers, AddStore(h)
        PROVE  racy' = (racy \/ \E q \in Procs \ {p} : Updating(q))
    <3>1. h = p  BY <1>1, <2>3 DEF AddStore, Goto
    <3> QED  BY <2>3, <3>1 DEF AddStore, Overlaps
  <2>4. ASSUME NEW q \in Procs, DelScan(q) \/ DelClose(q) \/ DelCount(q)  PROVE FALSE
    BY <1>1, <2>4 DEF DelScan, DelClose, DelCount, Goto
  <2>5. ASSUME NEW q \in Procs, DelStore(q)
        PROVE  racy' = (racy \/ \E r \in Procs \ {p} : Updating(r))
    <3>1. q = p  BY <1>1, <2>5 DEF DelStore, Goto
    <3> QED  BY <2>5, <3>1 DEF DelStore, Overlaps
  <2>6. ASSUME NEW k \in Servers, Exit(k)  PROVE FALSE  BY <1>1, <2>6 DEF Exit, Goto
  <2> QED  BY <2>1, <2>2, <2>3, <2>4, <2>5, <2>6, QuietSteps
<1>2. racy => racy'
  <2>1. CASE Quiet  BY <2>1 DEF Quiet
  <2>2. ASSUME NEW h \in Handlers, New(h) \/ AddStore(h)  PROVE racy => racy'
    BY <2>2 DEF New, AddStore, Overlaps, history
  <2>3. ASSUME NEW q \in Procs, DelScan(q) \/ DelClose(q) \/ DelCount(q) \/ DelStore(q)
        PROVE  racy => racy'
    BY <2>3 DEF DelScan, DelClose, DelCount, DelStore, Overlaps, history
  <2>4. ASSUME NEW k \in Servers, Exit(k)  PROVE racy => racy'  BY <2>4 DEF Exit, history
  <2> QED  BY <2>1, <2>2, <2>3, <2>4, QuietSteps
<1>3. CASE racy  BY <1>2, <1>3 DEF Clash
<1>4. ASSUME NEW p \in Procs, NEW q \in Procs, p # q, Updating(p), Updating(q)  PROVE Clash'
  <2>1. CASE Updating(p)' /\ Updating(q)'  BY <1>4, <2>1 DEF Clash
  <2>2. CASE ~Updating(p)'
    <3>1. racy'  BY <1>1, <1>4, <2>2
    <3> QED  BY <3>1 DEF Clash
  <2>3. CASE ~Updating(q)'
    <3>1. racy'  BY <1>1, <1>4, <2>3
    <3> QED  BY <3>1 DEF Clash
  <2> QED  BY <2>1, <2>2, <2>3
<1> QED  BY <1>3, <1>4 DEF Clash

(* Where no deletion is counted early, and nothing else is either.         *)
LEMMA SettledKept ==
    ASSUME UNCHANGED <<ErrTypeCount, Tunnels>>,
           \A t \in Listed : config'[t] = config[t],
           \A p \in Procs : pc[p] = "store" \/ pc'[p] = "store" =>
              /\ pc'[p] = pc[p] \/ Head(todo'[p]) \notin Listed
              /\ Head(todo'[p]) = Head(todo[p])
    PROVE  Settled' = Settled
<1>1. Listed' = Listed  BY DEF Listed
<1>2. \A ty : CountedEarly(ty)' <=> CountedEarly(ty)  BY <1>1 DEF CountedEarly
<1> QED  BY <1>2 DEF Settled

LEMMA RegistryStep ==
    ASSUME IInv, SerialInv, TallyInv, [Next]_vars
    PROVE  Promise!RNext \/ UNCHANGED Promise!rvars
<1> USE ProcFacts DEF IInv, TypeOK, LocalsInv, PcOK, Updating, Cutting, DelSteps
<1> DEFINE kind == [t \in made |-> config[t].type]
           Goal == Promise!RNext \/ UNCHANGED Promise!rvars
<1>0. SerialInv' /\ IInv'  BY NextSerialInv, NextIInv
<1>a. Clash \in BOOLEAN /\ Clash' \in BOOLEAN  BY DEF Clash
<1>b. DOMAIN kind = made /\ DOMAIN kind' = made'  OBVIOUS
<1>1. CASE Clash
  <2>1. Clash /\ Clash'  BY <1>1, ClashStays
  <2>2. UNCHANGED Clash  BY <1>a, <2>1
  <2> QED  BY <2>1, <2>2 DEF Promise!RNext
<1>2. ASSUME UNCHANGED <<config, Tunnels, deleted, given>>, Settled' = Settled
      PROVE  Goal
  <2>1. kind' = kind /\ Listed' = Listed  BY <1>2 DEF made, Listed
  <2>2. CASE Clash'
    <3>1. Clash' = TRUE  BY <1>a, <2>2
    <3> QED  BY <1>2, <2>1, <3>1 DEF Promise!RNext, Promise!ROverlap
  <2>3. CASE ~Clash'
    <3>1. CASE Clash  BY <1>1, <3>1
    <3>2. CASE ~Clash
      <4>1. Clash' = Clash  BY <1>a, <2>3, <3>2
      <4> QED  BY <1>2, <2>1, <4>1 DEF Promise!rvars
    <3> QED  BY <3>1, <3>2
  <2> QED  BY <2>2, <2>3
<1>3. ASSUME ~Clash, ~Clash', NEW t \in made, Promise!RAdd(t) \/ Promise!RGive(t) \/ Promise!RDelete(t)
      PROVE  Goal
  <2>1. Clash' = Clash  BY <1>a, <1>3
  <2> QED  BY <1>3, <1>b, <2>1 DEF Promise!RNext
<1> HIDE DEF Goal
<1> SUFFICES ASSUME ~Clash  PROVE Goal  BY <1>1 DEF Goal
<1>4. ~racy /\ \A p, q \in Procs : Updating(p) /\ Updating(q) => p = q  BY DEF Clash
<1>5. Listed = added \ deleted /\ added \subseteq made /\ deleted \subseteq added
  BY <1>4 DEF SerialInv, AddedInv
<1>6. CASE Quiet
  <2>1. UNCHANGED <<Tunnels, ErrTypeCount, config, added, deleted, racy>>  BY <1>6 DEF Quiet
  <2>2. Settled' = Settled  BY <1>6, <2>1, SettledKept DEF Quiet
  <2>3. CASE given' = given  BY <1>2, <2>1, <2>2, <2>3
  <2>4. CASE given' # given
    <3>1. PICK t \in added : given' = given \cup {t}  BY <1>6, <2>4 DEF Quiet
    <3>2. \A q \in Procs : Updating(q)' => Updating(q)  BY <1>6, <2>4 DEF Quiet
    <3>3. ~Clash'  BY <1>4, <2>1, <3>2 DEF Clash
    <3>4. t \in Listed \cup deleted /\ t \in made  BY <1>5
    <3>5. kind' = kind /\ Listed' = Listed  BY <2>1 DEF made, Listed
    <3>6. Promise!RGive(t)  BY <2>1, <2>2, <3>1, <3>4, <3>5 DEF Promise!RGive
    <3> QED  BY <1>3, <3>3, <3>4, <3>6
  <2> QED  BY <2>3, <2>4
<1>7. ASSUME NEW h \in Handlers, New(h)  PROVE Goal
  <2>1. UNCHANGED <<Tunnels, ErrTypeCount, added, deleted, given, racy, todo>>
    BY <1>7 DEF New, globals, history
  <2>2. h \notin made /\ \A t \in made : config'[t] = config[t]  BY <1>7 DEF New, OnceInv
  <2>3. made' = made \cup {h} /\ Listed' = Listed  BY <1>7, <2>1 DEF New, made, Listed
  <2>4. \A q \in Procs : pc'[q] \in Cutting \cup {"append"} \/ pc[q] \in Cutting \cup {"append"} =>
          pc'[q] = pc[q]
    BY <1>7 DEF New, Goto
  <2>5. Settled' = Settled  BY <1>5, <2>1, <2>2, <2>4, SettledKept
  <2>6. ~Clash'  BY <1>4, <2>1, <2>4 DEF Clash
  <2>a. PICK ty \in Types : ty = want[h]  BY DEF LocalsOK
  <2>7. Promise!RMake(h, ty)
    <3>0. config'[h].type = ty
      <4>1. PICK port \in Ports :
               config' = [t \in made \cup {h} |->
                             IF t = h THEN [type |-> want[h], port |-> port] ELSE config[t]]
        BY <1>7 DEF New
      <4> QED  BY <2>a, <4>1
    <3>1. kind' = [u \in made \cup {h} |-> IF u = h THEN ty ELSE kind[u]]
      BY <2>2, <2>3, <3>0
    <3> QED  BY <1>b, <2>1, <2>2, <2>3, <2>5, <3>1 DEF Promise!RMake
  <2>8. Clash' = Clash  BY <1>a, <2>6
  <2>9. h \in DOMAIN kind'  BY <1>b, <2>3
  <2>10. Promise!RNext  BY <2>7, <2>8, <2>9 DEF Promise!RNext
  <2> QED  BY <2>10 DEF Goal
<1>8. ASSUME NEW h \in Handlers, AddStore(h)  PROVE Goal
  <2>1. UNCHANGED <<ErrTypeCount, config, deleted, given>> /\ added' = added \cup {h} /\ h \in made \ added
    BY <1>8 DEF AddStore, tunnels, HandInv, OnceInv
  <2>2. Updating(h) /\ ~Updating(h)' /\ \A q \in Procs \ {h} : Updating(q)' => Updating(q)
    BY <1>8 DEF AddStore, Goto
  <2>3. \A q \in Procs : ~Updating(q)'  BY <1>4, <2>2
  <2>4. ~racy'  BY <1>4, <1>8, <2>2 DEF AddStore, Overlaps
  <2>5. ~Clash'  BY <2>3, <2>4 DEF Clash
  <2>6. Listed' = Listed \cup {h}  BY <1>0, <1>5, <2>1, <2>4 DEF SerialInv
  <2>7. Settled' = Settled
    <3>1. \A q \in Procs : pc[q] # "store" /\ pc'[q] # "store"  BY <1>4, <1>8, <2>2, <2>3 DEF AddStore
    <3> QED  BY <2>1, <3>1 DEF Settled, CountedEarly
  <2>8. kind' = kind /\ made' = made  BY <2>1 DEF made
  <2>9. Promise!RAdd(h)  BY <1>5, <1>b, <2>1, <2>6, <2>7, <2>8 DEF Promise!RAdd
  <2> QED  BY <1>3, <2>1, <2>5, <2>8, <2>9
<1>9. ASSUME NEW p \in Procs, DelScan(p) \/ DelClose(p)  PROVE Goal
  <2>1. UNCHANGED <<Tunnels, ErrTypeCount, config, deleted, given, todo>>
    BY <1>9 DEF DelScan, DelClose, globals, tunnels, history
  <2>2. pc[p] # "store" /\ (pc'[p] = "store" => Head(todo[p]) \notin Listed)
        /\ \A q \in Procs \ {p} : pc'[q] = pc[q]
    BY <1>9 DEF DelScan, DelClose, Goto
  <2>3. Settled' = Settled  BY <2>1, <2>2, SettledKept
  <2> QED  BY <1>2, <2>1, <2>3
<1>11. ASSUME NEW p \in Procs, DelCount(p)  PROVE Goal
  <2> DEFINE t == Head(todo[p])
  <2>1. UNCHANGED <<Tunnels, config, deleted, given, todo>>  BY <1>11 DEF DelCount, history
  <2>2. pc[p] = "count" /\ pc'[p] = "store" /\ \A q \in Procs \ {p} : pc'[q] = pc[q]
    BY <1>11 DEF DelCount, Goto
  <2>3. \A q \in Procs \ {p} : pc[q] \notin Cutting  BY <1>4, <2>2
  <2>4. t \in Listed /\ t \in made  BY <1>4, <2>2 DEF TallyInv, WorkInv
  <2>5. config[t].type \in Types  BY <2>4 DEF TunnelsOK
  <2>6. num[p] = ErrTypeCount[config[t].type] + 1  BY <1>4, <2>2, <2>3 DEF TallyInv, Counted
  <2>7. ErrTypeCount' = [ErrTypeCount EXCEPT ![config[t].type] = num[p]]  BY <1>11 DEF DelCount
  <2>8. \A ty \in Types : ~CountedEarly(ty) /\ (CountedEarly(ty)' <=> ty = config[t].type)
    BY <2>1, <2>2, <2>3, <2>4 DEF CountedEarly, Listed
  <2>9. Settled' = Settled
    <3>1. \A ty \in Types : ErrTypeCount[ty] \in Nat  BY DEF GlobalsOK
    <3>2. \A ty \in Types : ErrTypeCount'[ty] = ErrTypeCount[ty] + (IF ty = config[t].type THEN 1 ELSE 0)
      BY <2>5, <2>6, <2>7, <3>1 DEF GlobalsOK
    <3> QED  BY <2>8, <3>1, <3>2 DEF Settled
  <2> QED  BY <1>2, <2>1, <2>9
<1>12. ASSUME NEW p \in Procs, DelStore(p)  PROVE Goal
  <2> DEFINE t == Head(todo[p])
  <2>1. UNCHANGED <<ErrTypeCount, config, added, given>> /\ deleted' = deleted \cup ({t} \cap added)
        /\ pc[p] = "store"
    BY <1>12 DEF DelStore, tunnels
  <2>2. pc'[p] \notin Cutting \cup {"append"} /\ \A q \in Procs \ {p} : pc'[q] = pc[q] /\ ~Updating(q)
    BY <1>4, <1>12, <2>1 DEF DelStore, Goto, AfterDel
  <2>3. ~racy'  BY <1>4, <1>12, <2>2 DEF DelStore, Overlaps
  <2>4. ~Clash'  BY <2>2, <2>3 DEF Clash
  <2>5. Listed' = added \ deleted'  BY <1>0, <2>1, <2>3 DEF SerialInv
  <2>6. kind' = kind /\ made' = made  BY <2>1 DEF made
  <2>7. \A ty \in Types : ~CountedEarly(ty)'  BY <2>2 DEF CountedEarly
  <2>8. CASE t \in Listed
    <3>1. Listed' = Listed \ {t} /\ deleted' = deleted \cup {t} /\ t \in made
      BY <1>5, <2>1, <2>5, <2>8
    <3>2. \A ty \in Types : CountedEarly(ty) <=> ty = config[t].type
      BY <2>1, <2>2, <2>8 DEF CountedEarly
    <3>3. Settled' = [Settled EXCEPT ![kind[t]] = @ + 1]
      <4>1. \A ty \in Types : ErrTypeCount[ty] \in Nat  BY DEF GlobalsOK
      <4>2. kind[t] = config[t].type  BY <3>1
      <4> QED  BY <2>1, <2>7, <3>2, <4>1, <4>2 DEF Settled
    <3>4. Promise!RDelete(t)  BY <2>1, <2>6, <2>8, <3>1, <3>3 DEF Promise!RDelete
    <3> QED  BY <1>3, <2>4, <2>6, <3>1, <3>4
  <2>9. CASE t \notin Listed
    <3>1. deleted' = deleted /\ Listed' = Listed  BY <1>5, <2>1, <2>5, <2>9
    <3>2. \A ty \in Types : ~CountedEarly(ty)  BY <2>1, <2>2, <2>9 DEF CountedEarly
    <3>3. Settled' = Settled  BY <2>1, <2>7, <3>2 DEF Settled
    <3>4. Clash' = Clash  BY <1>a, <2>4
    <3> QED  BY <2>1, <2>6, <3>1, <3>3, <3>4 DEF Goal, Promise!rvars
  <2> QED  BY <2>8, <2>9
<1>13. ASSUME NEW k \in Servers, Exit(k)  PROVE Goal
  <2>1. UNCHANGED <<Tunnels, ErrTypeCount, config, deleted, given>>  BY <1>13 DEF Exit, globals, history
  <2>2. pc[k] = "exit" /\ pc'[k] = "del" /\ \A q \in Procs \ {k} : pc'[q] = pc[q] /\ todo'[q] = todo[q]
    BY <1>13 DEF Exit, Goto, LocalsOK
  <2>3. Settled' = Settled  BY <2>1, <2>2, SettledKept
  <2> QED  BY <1>2, <2>1, <2>3
<1> QED  BY <1>6, <1>7, <1>8, <1>9, <1>11, <1>12, <1>13, QuietSteps

(* AddProxy, GetProxy and DelProxy: as long as no two updates are under    *)
(* way at once the registry with its tally is atomic (Registry), for any   *)
(* number of requests.                                                     *)
THEOREM AtomicCorrect == Spec => Atomic
<1>1. Init => Promise!RInit
  BY DEF Init, Promise!RInit, made, Listed, Settled, CountedEarly, Clash, Updating, Types
<1>2. Init => SerialInv /\ TallyInv  BY SerialInit, TallyInit
<1>3. IInv /\ SerialInv /\ TallyInv /\ [Next]_vars => [Promise!RNext]_(Promise!rvars)
  BY RegistryStep
<1> QED
  BY <1>1, <1>2, <1>3, InitIInv, NextIInv, NextSerialInv, NextTallyInv, PTL DEF Spec, Atomic, Promise!RSpec
=============================================================================
