-------------------------- MODULE SessionPool_proofs --------------------------
(***************************************************************************)
(* Proofs about SessionPool: for any number of sessions, requests, dials,  *)
(* tries and changes, and any set of transports.                           *)
(***************************************************************************)
EXTENDS SessionPool, FiniteSetTheorems, TLAPS

Rebuilding == {"conf", "ask", "dial", "room", "dialslot", "load", "store", "replace", "redial", "put"}
Changing   == {"forget", "want", "wish", "fill", "filling"}

(* Where workers and requests can be, and what is true of lastUse, slot    *)
(* numbers and calls there.                                                *)
Places ==
    /\ \A w \in Workers : pc[w] \in Rebuilding \cup {"idle"} /\ no[w] = w
    /\ \A q \in Requests :
         /\ pc[q] # "idle"
         /\ pc[q] \in Rebuilding \cup {"pick", "fetch", "check"} => lastUse >= 0
         /\ pc[q] \in Rebuilding => no[q] >= 0
         /\ pc[q] \in {"unborn", "turn"} => calls[q] < 2 * Tries

(* Whether a goroutine has made a session by the step it is at: over quic  *)
(* a session is dialled only once its place in the list is known.          *)
Made(p) ==
    /\ pc[p] \in {"idle", "unborn", "conf", "ask", "dial", "dialslot", "redial", "turn", "pick", "check"}
                 \cup Changing => new[p] = Nil
    /\ pc[p] \in {"load", "store", "put"} => new[p] # Nil
    /\ pc[p] \in {"room", "replace"} => (new[p] = Nil <=> conf[p] = "quic")
    /\ pc[p] \in {"dialslot", "redial"} => conf[p] = "quic"

(* The lock is taken only to replace a session, whose slot alone is nil.   *)
Locked ==
    /\ \A p \in Procs : Holds(p) => lock = p
    /\ LockLeft => "quic" \in ProxyTypes
    /\ ~raced =>
         /\ lock # Free <=> \E i \in DOMAIN SmuxClients : SmuxClients[i] = Nil
         /\ \A p \in Procs : Holds(p) =>
              /\ no[p] + 1 \in DOMAIN SmuxClients
              /\ \A i \in DOMAIN SmuxClients : SmuxClients[i] = Nil <=> i = no[p] + 1

(* As long as appends do not overlap, an append finds the list as it was   *)
(* when its goroutine looked for room, and the list does not grow too long.*)
Grows ==
    ~raced =>
        /\ Len(SmuxClients) <= ClientNum
        /\ \A p \in Procs : Appending(p) => Len(SmuxClients) <= no[p]
        /\ \A p \in Procs : pc[p] = "store" => seen[p] = SmuxClients

(* AliveCount counts the requests that are being relayed.                  *)
Piping  == {p \in Procs : pc[p] = "pipe"}
Counted == AliveCount = Cardinality(Piping)

(* A worker that has returned though the list does not reach its slot has  *)
(* appended a session; there are no more of these than sessions.           *)
Short  == {w \in Workers : pc[w] = "idle" /\ w >= Len(SmuxClients)}
Enough ==
    ~raced => /\ Cardinality(Short) <= Len(SmuxClients)
              /\ ready => 2 * Len(SmuxClients) >= ClientNum

Steps == {"idle", "unborn", "done", "conf", "ask", "dial", "room", "dialslot", "load", "store",
          "replace", "redial", "put", "turn", "pick", "fetch", "check", "open", "err",
          "send", "alive", "pipe", "forget", "want", "wish", "fill", "filling"}

(* The types, in three parts; AliveCount's is that of a cardinality.       *)
ListTypes ==
    /\ SmuxClients \in Seq(Ids \cup {Nil})
    /\ seen \in [Procs -> Seq(Ids \cup {Nil})]
    /\ before \in [Requests -> SUBSET (Ids \cup {Nil})]
SessionTypes ==
    /\ state \in [Ids -> {"none", "open", "lost", "closed"}]
    /\ kind \in [Ids -> ProxyTypes \cup {NoConf}]
    /\ new \in [Procs -> Ids \cup {Nil}] /\ e \in [Procs -> Ids \cup {Nil}]
    /\ conf \in [Procs -> ProxyTypes \cup {NoConf}]
    /\ nowconf \in ProxyTypes \cup {NoConf}
StepTypes ==
    /\ lastUse \in -1 .. ClientNum - 1 /\ lock \in Procs \cup {Free}
    /\ ErrCount \in Nat /\ ready \in BOOLEAN /\ reported \in BOOLEAN
    /\ pc \in [Procs -> Steps]
    /\ no \in [Procs -> -1 .. ClientNum - 1] /\ calls \in [Procs -> 0 .. 2 * Tries]
    /\ crashed \in BOOLEAN /\ changes \in 0 .. MaxChanges /\ raced \in BOOLEAN
Types == ListTypes /\ SessionTypes /\ StepTypes

Kept == NoneLost /\ PanicOnly
IInv ==
    /\ Types /\ Places /\ (\A p \in Procs : Made(p))
    /\ Locked /\ Grows /\ Counted /\ Enough /\ Kept

-----------------------------------------------------------------------------
USE DEF Goto, control, sessions, locals, Nil, NoConf

LEMMA Numbers ==
    /\ ClientNum \in Nat /\ ClientNum > 0 /\ Tries \in Nat /\ Tries > 0 /\ MaxRequests \in Nat /\ MaxChanges \in Nat
    /\ Workers \subseteq Procs /\ Requests \subseteq Procs /\ Workers \cap Requests = {}
    /\ Procs \subseteq Nat /\ Free \notin Procs /\ Nil \notin Ids /\ NoConf \notin ProxyTypes
    /\ IsFiniteSet(Procs) /\ IsFiniteSet(Workers)
<1>1. ClientNum \in Nat /\ ClientNum > 0 /\ Tries \in Nat /\ Tries > 0 /\ MaxRequests \in Nat /\ MaxDials \in Nat /\ MaxChanges \in Nat
  BY PoolAssumption
<1>2. IsFiniteSet(Workers) /\ IsFiniteSet(Requests)
  BY <1>1, FS_Interval DEF Workers, Requests
<1>3. IsFiniteSet(Procs)  BY <1>2, FS_Union DEF Procs
<1>4. NoConf \notin ProxyTypes  BY PoolAssumption
<1>5. Nil \notin Ids  BY <1>1 DEF Ids
<1> QED  BY <1>1, <1>2, <1>3, <1>4, <1>5 DEF Workers, Requests, Procs, Free

(* What an append does to the list.                                        *)
LEMMA Appended ==
    ASSUME NEW S, NEW l \in Seq(S), NEW x \in S
    PROVE  /\ Append(l, x) \in Seq(S) /\ Len(Append(l, x)) = Len(l) + 1
           /\ DOMAIN Append(l, x) = DOMAIN l \cup {Len(l) + 1}
           /\ \A i \in DOMAIN l : Append(l, x)[i] = l[i] /\ i # Len(l) + 1
           /\ Append(l, x)[Len(l) + 1] = x
OBVIOUS

(* A store that overlapped nothing appends to the list as it is.           *)
LEMMA Stored ==
    ASSUME Types, Grows, NEW p \in Procs, AppendStore(p)
    PROVE  /\ SmuxClients' \in Seq(Ids \cup {Nil})
           /\ ~raced' => /\ ~raced /\ SmuxClients' = Append(SmuxClients, new[p])
                         /\ \A q \in Procs \ {p} : ~Appending(q)
                         /\ Len(SmuxClients) <= no[p]
<1> USE DEF Types, ListTypes
<1>1. new[p] \in Ids \cup {Nil} /\ seen[p] \in Seq(Ids \cup {Nil})  BY DEF SessionTypes
<1>2. /\ Append(seen[p], new[p]) \in Seq(Ids \cup {Nil})
      /\ Len(SmuxClients) >= Len(seen[p]) =>
           Append(SubSeq(SmuxClients, 1, Len(seen[p])), new[p]) \in Seq(Ids \cup {Nil})
  BY <1>1
<1>3. SmuxClients' \in Seq(Ids \cup {Nil})  BY <1>2 DEF AppendStore
<1>4. ASSUME ~raced'  PROVE ~raced /\ \A q \in Procs \ {p} : ~Appending(q)
  BY <1>4 DEF AppendStore, Overlap
<1>5. ASSUME ~raced'
      PROVE  SmuxClients' = Append(SmuxClients, new[p]) /\ Len(SmuxClients) <= no[p]
  <2>1. pc[p] = "store" /\ seen[p] = SmuxClients /\ Len(SmuxClients) <= no[p]
    BY <1>4, <1>5 DEF AppendStore, Grows, Appending
  <2>2. SubSeq(SmuxClients, 1, Len(SmuxClients)) = SmuxClients  OBVIOUS
  <2> QED  BY <2>1, <2>2 DEF AppendStore
<1> QED  BY <1>3, <1>4, <1>5

LEMMA ListTypesStep ==
    ASSUME Types, Places, Grows, [Next]_vars
    PROVE  ListTypes'
<1> USE DEF ListTypes, Types
<1>1. ASSUME NEW p \in Procs, Conf(p)  PROVE ListTypes'
  BY <1>1 DEF Conf
<1>2. ASSUME NEW p \in Procs, Ask(p)  PROVE ListTypes'
  BY <1>2 DEF Ask, Failed
<1>3. ASSUME NEW p \in Procs, Dial(p)  PROVE ListTypes'
  BY <1>3 DEF Dial, Dialled, Failed
<1>4. ASSUME NEW p \in Procs, LookForRoom(p)  PROVE ListTypes'
  BY <1>4 DEF LookForRoom, Room
<1>5. ASSUME NEW p \in Procs, DialSlot(p)  PROVE ListTypes'
  BY <1>5 DEF DialSlot, Dialled, Failed
<1>6. ASSUME NEW p \in Procs, AppendLoad(p)  PROVE ListTypes'
  BY <1>6 DEF AppendLoad
<1>7. ASSUME NEW p \in Procs, AppendStore(p)  PROVE ListTypes'
  <2>1. SmuxClients' \in Seq(Ids \cup {Nil})  BY <1>7, Stored
  <2>2. seen' \in [Procs -> Seq(Ids \cup {Nil})] /\ before' = before
    BY <1>7 DEF AppendStore
  <2> QED  BY <2>1, <2>2
<1>8. ASSUME NEW p \in Procs, Replace(p)  PROVE ListTypes'
  <2>2. no[p] \in Int /\ (pc[p] = "replace" => no[p] >= 0)  BY Numbers DEF Types, StepTypes, Places, Workers, Requests, Procs, Rebuilding
  <2>3. pc[p] = "replace"  BY <1>8 DEF Replace
  <2>4. no[p] < Len(SmuxClients) => [SmuxClients EXCEPT ![no[p] + 1] = Nil] \in Seq(Ids \cup {Nil})
    BY <2>2, <2>3
  <2>5. SmuxClients' \in Seq(Ids \cup {Nil})  BY <1>8, <2>4 DEF Replace
  <2> QED  BY <1>8, <2>5 DEF Replace
<1>9. ASSUME NEW p \in Procs, Redial(p)  PROVE ListTypes'
  BY <1>9 DEF Redial, Dialled, Failed
<1>10. ASSUME NEW p \in Procs, Put(p)  PROVE ListTypes'
  <2>1. new[p] \in Ids \cup {Nil}  BY DEF Types, SessionTypes
  <2>2. no[p] \in Int /\ (pc[p] = "put" => no[p] >= 0)  BY Numbers DEF Types, StepTypes, Places, Workers, Requests, Procs, Rebuilding
  <2>3. pc[p] = "put"  BY <1>10 DEF Put
  <2>4. no[p] < Len(SmuxClients) => [SmuxClients EXCEPT ![no[p] + 1] = new[p]] \in Seq(Ids \cup {Nil})
    BY <2>1, <2>2, <2>3
  <2>5. SmuxClients' \in Seq(Ids \cup {Nil})  BY <1>10, <2>4 DEF Put
  <2> QED  BY <1>10, <2>5 DEF Put
<1>11. ASSUME NEW p \in Procs, TakeTurn(p)  PROVE ListTypes'
  BY <1>11 DEF TakeTurn, Turn
<1>12. ASSUME NEW p \in Procs, Pick(p)  PROVE ListTypes'
  BY <1>12 DEF Pick, Use, Slot
<1>13. ASSUME NEW p \in Procs, Fetch(p)  PROVE ListTypes'
  BY <1>13 DEF Fetch, Use, Slot
<1>14. ASSUME NEW p \in Procs, Check(p)  PROVE ListTypes'
  BY <1>14 DEF Check, IsClosed
<1>15. ASSUME NEW p \in Procs, OpenStream(p)  PROVE ListTypes'
  BY <1>15 DEF OpenStream, Opened
<1>16. ASSUME NEW p \in Procs, Err(p)  PROVE ListTypes'
  BY <1>16 DEF Err, Fresh
<1>17. ASSUME NEW p \in Procs, Send(p)  PROVE ListTypes'
  BY <1>17 DEF Send
<1>18. ASSUME NEW p \in Procs, Alive(p)  PROVE ListTypes'
  BY <1>18 DEF Alive, Calmer, Fresh
<1>19. ASSUME NEW p \in Procs, Piped(p)  PROVE ListTypes'
  BY <1>19 DEF Piped
<1>20. ASSUME NEW p \in Procs, Forget(p)  PROVE ListTypes'
  <2>1. Range0(SmuxClients) \subseteq Ids \cup {Nil}  BY DEF Range0
  <2> QED  BY <1>20, <2>1 DEF Forget
<1>21. ASSUME NEW p \in Procs, Want(p)  PROVE ListTypes'
  BY <1>21 DEF Want
<1>22. ASSUME NEW p \in Procs, Wish(p)  PROVE ListTypes'
  BY <1>22 DEF Wish
<1>23. ASSUME NEW p \in Procs, Fill(p)  PROVE ListTypes'
  BY <1>23 DEF Fill
<1>24. ASSUME NEW p \in Procs, Filled(p)  PROVE ListTypes'
  BY <1>24 DEF Filled
<1>25. ASSUME Ready  PROVE ListTypes'
  BY <1>25 DEF Ready
<1>26. ASSUME Report  PROVE ListTypes'
  BY <1>26 DEF Report
<1>27. ASSUME Reset  PROVE ListTypes'
  BY <1>27 DEF Reset
<1>28. ASSUME NEW p \in Requests, Begin(p)  PROVE ListTypes'
  BY <1>28 DEF Begin
<1>29. ASSUME NEW s \in Ids, Lose(s)  PROVE ListTypes'
  BY <1>29 DEF Lose
<1>30. ASSUME NEW s \in Ids, KeepAlive(s)  PROVE ListTypes'
  BY <1>30 DEF KeepAlive
<1>31. CASE UNCHANGED vars  BY <1>31 DEF vars
<1> QED
  BY <1>1, <1>2, <1>3, <1>4, <1>5, <1>6, <1>7, <1>8, <1>9, <1>10, <1>11, <1>12, <1>13, <1>14, <1>15, <1>16, <1>17, <1>18, <1>19, <1>20, <1>21, <1>22, <1>23, <1>24, <1>25, <1>26, <1>27, <1>28, <1>29, <1>30, <1>31
  DEF Next, Proc, RebuildSmux, Request, Change

LEMMA SessionTypesStep ==
    ASSUME Types, Places, [Next]_vars
    PROVE  SessionTypes'
<1> USE DEF Types, ListTypes, SessionTypes
<1>1. ASSUME NEW p \in Procs, Conf(p)  PROVE SessionTypes'
  BY <1>1, Numbers DEF Conf
<1>2. ASSUME NEW p \in Procs, Ask(p)  PROVE SessionTypes'
  BY <1>2, Numbers DEF Ask, Failed
<1>3. ASSUME NEW p \in Procs, Dial(p)  PROVE SessionTypes'
  <2>1. CASE UNCHANGED <<sessions, new>>  BY <1>3, <2>1 DEF Dial
  <2>2. CASE Dialled(p)
    <3>1. conf[p] \in ProxyTypes \cup {NoConf}  OBVIOUS
    <3> QED  BY <1>3, <2>2, <3>1 DEF Dial, Dialled
  <2> QED  BY <1>3, <2>1, <2>2 DEF Dial
<1>4. ASSUME NEW p \in Procs, LookForRoom(p)  PROVE SessionTypes'
  BY <1>4, Numbers DEF LookForRoom, Room
<1>5. ASSUME NEW p \in Procs, DialSlot(p)  PROVE SessionTypes'
  BY <1>5, Numbers DEF DialSlot, Dialled, Failed
<1>6. ASSUME NEW p \in Procs, AppendLoad(p)  PROVE SessionTypes'
  BY <1>6, Numbers DEF AppendLoad
<1>7. ASSUME NEW p \in Procs, AppendStore(p)  PROVE SessionTypes'
  BY <1>7, Numbers DEF AppendStore, Overlap, Built
<1>8. ASSUME NEW p \in Procs, Replace(p)  PROVE SessionTypes'
  BY <1>8, Numbers DEF Replace, Hold, Closing, Overlap, Slot
<1>9. ASSUME NEW p \in Procs, Redial(p)  PROVE SessionTypes'
  BY <1>9, Numbers DEF Redial, Dialled, Failed
<1>10. ASSUME NEW p \in Procs, Put(p)  PROVE SessionTypes'
  BY <1>10, Numbers DEF Put, Unlock, Built, Overlap
<1>11. ASSUME NEW p \in Procs, TakeTurn(p)  PROVE SessionTypes'
  BY <1>11, Numbers DEF TakeTurn, Turn
<1>12. ASSUME NEW p \in Procs, Pick(p)  PROVE SessionTypes'
  BY <1>12, Numbers DEF Pick, Use, Slot
<1>13. ASSUME NEW p \in Procs, Fetch(p)  PROVE SessionTypes'
  <2>1. pc[p] = "fetch" /\ p \notin Workers  BY <1>13 DEF Fetch, Rebuilding, Places
  <2>2. lastUse >= 0 /\ lastUse \in Int  BY <2>1, Numbers DEF Procs, StepTypes, Places, Rebuilding
  <2>3. lastUse < Len(SmuxClients) => SmuxClients[lastUse + 1] \in Ids \cup {Nil}  BY <2>2
  <2> QED  BY <1>13, <2>3 DEF Fetch, Use, Slot
<1>14. ASSUME NEW p \in Procs, Check(p)  PROVE SessionTypes'
  BY <1>14, Numbers DEF Check, IsClosed
<1>15. ASSUME NEW p \in Procs, OpenStream(p)  PROVE SessionTypes'
  BY <1>15, Numbers DEF OpenStream, Opened
<1>16. ASSUME NEW p \in Procs, Err(p)  PROVE SessionTypes'
  BY <1>16, Numbers DEF Err, Fresh
<1>17. ASSUME NEW p \in Procs, Send(p)  PROVE SessionTypes'
  BY <1>17, Numbers DEF Send
<1>18. ASSUME NEW p \in Procs, Alive(p)  PROVE SessionTypes'
  BY <1>18, Numbers DEF Alive, Calmer, Fresh
<1>19. ASSUME NEW p \in Procs, Piped(p)  PROVE SessionTypes'
  BY <1>19, Numbers DEF Piped
<1>20. ASSUME NEW p \in Procs, Forget(p)  PROVE SessionTypes'
  BY <1>20, Numbers DEF Forget
<1>21. ASSUME NEW p \in Procs, Want(p)  PROVE SessionTypes'
  BY <1>21, Numbers DEF Want
<1>22. ASSUME NEW p \in Procs, Wish(p)  PROVE SessionTypes'
  BY <1>22, Numbers DEF Wish
<1>23. ASSUME NEW p \in Procs, Fill(p)  PROVE SessionTypes'
  BY <1>23, Numbers DEF Fill
<1>24. ASSUME NEW p \in Procs, Filled(p)  PROVE SessionTypes'
  BY <1>24, Numbers DEF Filled
<1>25. ASSUME Ready  PROVE SessionTypes'
  BY <1>25, Numbers DEF Ready
<1>26. ASSUME Report  PROVE SessionTypes'
  BY <1>26, Numbers DEF Report
<1>27. ASSUME Reset  PROVE SessionTypes'
  BY <1>27, Numbers DEF Reset
<1>28. ASSUME NEW p \in Requests, Begin(p)  PROVE SessionTypes'
  BY <1>28, Numbers DEF Begin
<1>29. ASSUME NEW s \in Ids, Lose(s)  PROVE SessionTypes'
  BY <1>29, Numbers DEF Lose
<1>30. ASSUME NEW s \in Ids, KeepAlive(s)  PROVE SessionTypes'
  BY <1>30, Numbers DEF KeepAlive
<1>31. CASE UNCHANGED vars  BY <1>31 DEF vars
<1> QED
  BY <1>1, <1>2, <1>3, <1>4, <1>5, <1>6, <1>7, <1>8, <1>9, <1>10, <1>11, <1>12, <1>13, <1>14, <1>15, <1>16, <1>17, <1>18, <1>19, <1>20, <1>21, <1>22, <1>23, <1>24, <1>25, <1>26, <1>27, <1>28, <1>29, <1>30, <1>31
  DEF Next, Proc, RebuildSmux, Request, Change

LEMMA StepTypesStep ==
    ASSUME Types, Places, [Next]_vars
    PROVE  StepTypes'
<1> USE DEF Types, StepTypes, Steps, Places
<1>1. ASSUME NEW p \in Procs, Conf(p)  PROVE StepTypes'
  BY <1>1, Numbers DEF Conf
<1>2. ASSUME NEW p \in Procs, Ask(p)  PROVE StepTypes'
  BY <1>2, Numbers DEF Ask, Failed
<1>3. ASSUME NEW p \in Procs, Dial(p)  PROVE StepTypes'
  BY <1>3, Numbers DEF Dial, Dialled, Failed
<1>4. ASSUME NEW p \in Procs, LookForRoom(p)  PROVE StepTypes'
  BY <1>4, Numbers DEF LookForRoom, Room
<1>5. ASSUME NEW p \in Procs, DialSlot(p)  PROVE StepTypes'
  BY <1>5, Numbers DEF DialSlot, Dialled, Failed
<1>6. ASSUME NEW p \in Procs, AppendLoad(p)  PROVE StepTypes'
  BY <1>6, Numbers DEF AppendLoad
<1>7. ASSUME NEW p \in Procs, AppendStore(p)  PROVE StepTypes'
  BY <1>7, Numbers DEF AppendStore, Overlap, Built
<1>8. ASSUME NEW p \in Procs, Replace(p)  PROVE StepTypes'
  BY <1>8, Numbers DEF Replace, Hold, Closing, Overlap, Slot
<1>9. ASSUME NEW p \in Procs, Redial(p)  PROVE StepTypes'
  BY <1>9, Numbers DEF Redial, Dialled, Failed
<1>10. ASSUME NEW p \in Procs, Put(p)  PROVE StepTypes'
  BY <1>10, Numbers DEF Put, Unlock, Built, Overlap
<1>11. ASSUME NEW p \in Procs, TakeTurn(p)  PROVE StepTypes'
  <2>1. lastUse + 1 \in Nat /\ lastUse' = (lastUse + 1) % ClientNum  BY <1>11, Numbers DEF TakeTurn, Turn
  <2>2. (lastUse + 1) % ClientNum \in 0 .. ClientNum - 1  BY <2>1, Numbers, Z3
  <2>3. lastUse' \in 0 .. ClientNum - 1  BY <2>1, <2>2
  <2>4. p \in Requests /\ calls[p] < 2 * Tries /\ calls[p] \in Nat  BY <1>11, Numbers DEF TakeTurn, Rebuilding, Procs
  <2>5. calls' \in [Procs -> 0 .. 2 * Tries]  BY <1>11, <2>4, Numbers DEF TakeTurn
  <2>6. lastUse' \in -1 .. ClientNum - 1  BY <2>3, Numbers
  <2>7. pc' \in [Procs -> Steps]  BY <1>11 DEF TakeTurn
  <2> QED  BY <1>11, <2>5, <2>6, <2>7 DEF TakeTurn
<1>12. ASSUME NEW p \in Procs, Pick(p)  PROVE StepTypes'
  <2>1. pc[p] = "pick" /\ p \notin Workers  BY <1>12 DEF Pick, Rebuilding
  <2>2. no' \in [Procs -> -1 .. ClientNum - 1]  BY <1>12 DEF Pick
  <2>3. pc' \in [Procs -> Steps] /\ crashed' \in BOOLEAN  BY <1>12 DEF Pick, Use
  <2> QED  BY <1>12, <2>2, <2>3 DEF Pick
<1>13. ASSUME NEW p \in Procs, Fetch(p)  PROVE StepTypes'
  BY <1>13, Numbers DEF Fetch, Use, Slot
<1>14. ASSUME NEW p \in Procs, Check(p)  PROVE StepTypes'
  BY <1>14, Numbers DEF Check, IsClosed
<1>15. ASSUME NEW p \in Procs, OpenStream(p)  PROVE StepTypes'
  BY <1>15, Numbers DEF OpenStream, Opened
<1>16. ASSUME NEW p \in Procs, Err(p)  PROVE StepTypes'
  BY <1>16, Numbers DEF Err, Fresh
<1>17. ASSUME NEW p \in Procs, Send(p)  PROVE StepTypes'
  BY <1>17, Numbers DEF Send
<1>18. ASSUME NEW p \in Procs, Alive(p)  PROVE StepTypes'
  BY <1>18, Numbers DEF Alive, Calmer, Fresh
<1>19. ASSUME NEW p \in Procs, Piped(p)  PROVE StepTypes'
  BY <1>19, Numbers DEF Piped
<1>20. ASSUME NEW p \in Procs, Forget(p)  PROVE StepTypes'
  BY <1>20, Numbers DEF Forget
<1>21. ASSUME NEW p \in Procs, Want(p)  PROVE StepTypes'
  BY <1>21, Numbers DEF Want
<1>22. ASSUME NEW p \in Procs, Wish(p)  PROVE StepTypes'
  BY <1>22, Numbers DEF Wish
<1>23. ASSUME NEW p \in Procs, Fill(p)  PROVE StepTypes'
  BY <1>23, Numbers DEF Fill
<1>24. ASSUME NEW p \in Procs, Filled(p)  PROVE StepTypes'
  BY <1>24, Numbers DEF Filled
<1>25. ASSUME Ready  PROVE StepTypes'
  BY <1>25, Numbers DEF Ready
<1>26. ASSUME Report  PROVE StepTypes'
  BY <1>26, Numbers DEF Report
<1>27. ASSUME Reset  PROVE StepTypes'
  BY <1>27, Numbers DEF Reset
<1>28. ASSUME NEW p \in Requests, Begin(p)  PROVE StepTypes'
  BY <1>28, Numbers DEF Begin
<1>29. ASSUME NEW s \in Ids, Lose(s)  PROVE StepTypes'
  BY <1>29, Numbers DEF Lose
<1>30. ASSUME NEW s \in Ids, KeepAlive(s)  PROVE StepTypes'
  BY <1>30, Numbers DEF KeepAlive
<1>31. CASE UNCHANGED vars  BY <1>31 DEF vars
<1> QED
  BY <1>1, <1>2, <1>3, <1>4, <1>5, <1>6, <1>7, <1>8, <1>9, <1>10, <1>11, <1>12, <1>13, <1>14, <1>15, <1>16, <1>17, <1>18, <1>19, <1>20, <1>21, <1>22, <1>23, <1>24, <1>25, <1>26, <1>27, <1>28, <1>29, <1>30, <1>31
  DEF Next, Proc, RebuildSmux, Request, Change

LEMMA PlacesStep ==
    ASSUME Types, Places, [Next]_vars
    PROVE  Places'
<1> USE DEF Types, StepTypes, Places, Rebuilding
<1>1. ASSUME NEW p \in Procs, Conf(p)  PROVE Places'
  BY <1>1, Numbers DEF Conf
<1>2. ASSUME NEW p \in Procs, Ask(p)  PROVE Places'
  BY <1>2, Numbers DEF Ask, Failed
<1>3. ASSUME NEW p \in Procs, Dial(p)  PROVE Places'
  BY <1>3, Numbers DEF Dial, Dialled, Failed
<1>4. ASSUME NEW p \in Procs, LookForRoom(p)  PROVE Places'
  BY <1>4, Numbers DEF LookForRoom, Room
<1>5. ASSUME NEW p \in Procs, DialSlot(p)  PROVE Places'
  BY <1>5, Numbers DEF DialSlot, Dialled, Failed
<1>6. ASSUME NEW p \in Procs, AppendLoad(p)  PROVE Places'
  BY <1>6, Numbers DEF AppendLoad
<1>7. ASSUME NEW p \in Procs, AppendStore(p)  PROVE Places'
  BY <1>7, Numbers DEF AppendStore, Overlap, Built
<1>8. ASSUME NEW p \in Procs, Replace(p)  PROVE Places'
  <2>1. pc[p] = "replace" /\ (pc' = pc \/ pc' = [pc EXCEPT ![p] = "redial"] \/ pc' = [pc EXCEPT ![p] = "put"])
        /\ UNCHANGED <<no, calls, lastUse>>
    BY <1>8 DEF Replace
  <2> QED  BY <2>1, Numbers
<1>9. ASSUME NEW p \in Procs, Redial(p)  PROVE Places'
  BY <1>9, Numbers DEF Redial, Dialled, Failed
<1>10. ASSUME NEW p \in Procs, Put(p)  PROVE Places'
  <2>1. pc[p] = "put" /\ UNCHANGED <<no, calls, lastUse>>
        /\ pc' \in {pc, [pc EXCEPT ![p] = IF p \in Workers THEN "idle" ELSE IF e[p] = Nil THEN "fetch" ELSE "open"]}
    BY <1>10 DEF Put, Built
  <2>2. p \in Workers => pc'[p] \in {"put", "idle"}  BY <2>1
  <2>3. p \in Requests => pc'[p] \in {"put", "fetch", "open"} /\ lastUse >= 0 /\ no[p] >= 0  BY <2>1, Numbers
  <2>4. \A q \in Procs : q # p => pc'[q] = pc[q]  BY <2>1
  <2> QED  BY <2>1, <2>2, <2>3, <2>4, Numbers
<1>11. ASSUME NEW p \in Procs, TakeTurn(p)  PROVE Places'
  <2>1. lastUse + 1 \in Nat /\ lastUse' = (lastUse + 1) % ClientNum  BY <1>11, Numbers DEF TakeTurn, Turn
  <2>2. (lastUse + 1) % ClientNum \in 0 .. ClientNum - 1  BY <2>1, Numbers, Z3
  <2>3. lastUse' \in 0 .. ClientNum - 1  BY <2>1, <2>2
  <2> QED  BY <1>11, <2>3, Numbers DEF TakeTurn
<1>12. ASSUME NEW p \in Procs, Pick(p)  PROVE Places'
  <2>1. pc[p] = "pick" /\ pc' \in {pc, [pc EXCEPT ![p] = "conf"], [pc EXCEPT ![p] = "open"],
                                   [pc EXCEPT ![p] = "check"], [pc EXCEPT ![p] = "fetch"]}
        /\ no' \in {no, [no EXCEPT ![p] = lastUse]} /\ UNCHANGED <<calls, lastUse>>
    BY <1>12 DEF Pick, Use
  <2>2. p \in Requests /\ p \notin Workers /\ lastUse >= 0 /\ lastUse \in Int  BY <2>1, Numbers DEF Procs
  <2>3. \A w \in Workers : pc'[w] = pc[w] /\ no'[w] = no[w]  BY <2>1, <2>2, Numbers
  <2>4. \A q \in Requests : q # p => pc'[q] = pc[q] /\ no'[q] = no[q]
    BY <2>1, Numbers
  <2>5. pc'[p] \in {"pick", "conf", "open", "check", "fetch"} /\ calls' = calls /\ lastUse' = lastUse
    BY <2>1, <2>2, Numbers
  <2>6. pc'[p] = "conf" => no'[p] >= 0
    <3>1. pc'[p] = "conf" => no' = [no EXCEPT ![p] = lastUse]  BY <1>12 DEF Pick, Use
    <3> QED  BY <2>2, <3>1, Numbers
  <2> QED  BY <2>2, <2>3, <2>4, <2>5, <2>6
<1>13. ASSUME NEW p \in Procs, Fetch(p)  PROVE Places'
  <2>1. pc[p] = "fetch" /\ UNCHANGED <<no, calls, lastUse>>
        /\ pc' \in {pc, [pc EXCEPT ![p] = "open"], [pc EXCEPT ![p] = "check"]}
    BY <1>13 DEF Fetch, Use
  <2>2. p \in Requests /\ p \notin Workers /\ lastUse >= 0  BY <2>1, Numbers DEF Procs
  <2>3. pc'[p] \in {"fetch", "open", "check"}  BY <2>1
  <2>4. \A q \in Procs : q # p => pc'[q] = pc[q]  BY <2>1
  <2> QED  BY <2>1, <2>2, <2>3, <2>4, Numbers
<1>14. ASSUME NEW p \in Procs, Check(p)  PROVE Places'
  BY <1>14, Numbers DEF Check, IsClosed
<1>15. ASSUME NEW p \in Procs, OpenStream(p)  PROVE Places'
  BY <1>15, Numbers DEF OpenStream, Opened
<1>16. ASSUME NEW p \in Procs, Err(p)  PROVE Places'
  BY <1>16, Numbers DEF Err, Fresh
<1>17. ASSUME NEW p \in Procs, Send(p)  PROVE Places'
  BY <1>17, Numbers DEF Send
<1>18. ASSUME NEW p \in Procs, Alive(p)  PROVE Places'
  BY <1>18, Numbers DEF Alive, Calmer, Fresh
<1>19. ASSUME NEW p \in Procs, Piped(p)  PROVE Places'
  BY <1>19, Numbers DEF Piped
<1>20. ASSUME NEW p \in Procs, Forget(p)  PROVE Places'
  BY <1>20, Numbers DEF Forget
<1>21. ASSUME NEW p \in Procs, Want(p)  PROVE Places'
  BY <1>21, Numbers DEF Want
<1>22. ASSUME NEW p \in Procs, Wish(p)  PROVE Places'
  BY <1>22, Numbers DEF Wish
<1>23. ASSUME NEW p \in Procs, Fill(p)  PROVE Places'
  BY <1>23, Numbers DEF Fill
<1>24. ASSUME NEW p \in Procs, Filled(p)  PROVE Places'
  BY <1>24, Numbers DEF Filled
<1>25. ASSUME Ready  PROVE Places'
  BY <1>25, Numbers DEF Ready
<1>26. ASSUME Report  PROVE Places'
  BY <1>26, Numbers DEF Report
<1>27. ASSUME Reset  PROVE Places'
  BY <1>27, Numbers DEF Reset
<1>28. ASSUME NEW p \in Requests, Begin(p)  PROVE Places'
  BY <1>28, Numbers DEF Begin
<1>29. ASSUME NEW s \in Ids, Lose(s)  PROVE Places'
  BY <1>29, Numbers DEF Lose
<1>30. ASSUME NEW s \in Ids, KeepAlive(s)  PROVE Places'
  BY <1>30, Numbers DEF KeepAlive
<1>31. CASE UNCHANGED vars  BY <1>31 DEF vars
<1> QED
  BY <1>1, <1>2, <1>3, <1>4, <1>5, <1>6, <1>7, <1>8, <1>9, <1>10, <1>11, <1>12, <1>13, <1>14, <1>15, <1>16, <1>17, <1>18, <1>19, <1>20, <1>21, <1>22, <1>23, <1>24, <1>25, <1>26, <1>27, <1>28, <1>29, <1>30, <1>31
  DEF Next, Proc, RebuildSmux, Request, Change

LEMMA MadeStep ==
    ASSUME Types, Places, NEW r \in Procs, Made(r), [Next]_vars
    PROVE  Made(r)'
<1> USE DEF Types, StepTypes, SessionTypes, Places, Rebuilding, Changing, Made
<1>1. ASSUME NEW p \in Procs, Conf(p)  PROVE Made(r)'
  BY <1>1, Numbers DEF Conf
<1>2. ASSUME NEW p \in Procs, Ask(p)  PROVE Made(r)'
  BY <1>2, Numbers DEF Ask, Failed
<1>3. ASSUME NEW p \in Procs, Dial(p)  PROVE Made(r)'
  BY <1>3, Numbers DEF Dial, Dialled, Failed
<1>4. ASSUME NEW p \in Procs, LookForRoom(p)  PROVE Made(r)'
  BY <1>4, Numbers DEF LookForRoom, Room
<1>5. ASSUME NEW p \in Procs, DialSlot(p)  PROVE Made(r)'
  BY <1>5, Numbers DEF DialSlot, Dialled, Failed
<1>6. ASSUME NEW p \in Procs, AppendLoad(p)  PROVE Made(r)'
  BY <1>6, Numbers DEF AppendLoad
<1>7. ASSUME NEW p \in Procs, AppendStore(p)  PROVE Made(r)'
  BY <1>7, Numbers DEF AppendStore, Overlap, Built
<1>8. ASSUME NEW p \in Procs, Replace(p)  PROVE Made(r)'
  BY <1>8, Numbers DEF Replace, Hold, Closing, Overlap, Slot
<1>9. ASSUME NEW p \in Procs, Redial(p)  PROVE Made(r)'
  BY <1>9, Numbers DEF Redial, Dialled, Failed
<1>10. ASSUME NEW p \in Procs, Put(p)  PROVE Made(r)'
  BY <1>10, Numbers DEF Put, Unlock, Built, Overlap
<1>11. ASSUME NEW p \in Procs, TakeTurn(p)  PROVE Made(r)'
  BY <1>11, Numbers DEF TakeTurn, Turn
<1>12. ASSUME NEW p \in Procs, Pick(p)  PROVE Made(r)'
  BY <1>12, Numbers DEF Pick, Use, Slot
<1>13. ASSUME NEW p \in Procs, Fetch(p)  PROVE Made(r)'
  BY <1>13, Numbers DEF Fetch, Use, Slot
<1>14. ASSUME NEW p \in Procs, Check(p)  PROVE Made(r)'
  BY <1>14, Numbers DEF Check, IsClosed
<1>15. ASSUME NEW p \in Procs, OpenStream(p)  PROVE Made(r)'
  BY <1>15, Numbers DEF OpenStream, Opened
<1>16. ASSUME NEW p \in Procs, Err(p)  PROVE Made(r)'
  BY <1>16, Numbers DEF Err, Fresh
<1>17. ASSUME NEW p \in Procs, Send(p)  PROVE Made(r)'
  BY <1>17, Numbers DEF Send
<1>18. ASSUME NEW p \in Procs, Alive(p)  PROVE Made(r)'
  BY <1>18, Numbers DEF Alive, Calmer, Fresh
<1>19. ASSUME NEW p \in Procs, Piped(p)  PROVE Made(r)'
  BY <1>19, Numbers DEF Piped
<1>20. ASSUME NEW p \in Procs, Forget(p)  PROVE Made(r)'
  BY <1>20, Numbers DEF Forget
<1>21. ASSUME NEW p \in Procs, Want(p)  PROVE Made(r)'
  BY <1>21, Numbers DEF Want
<1>22. ASSUME NEW p \in Procs, Wish(p)  PROVE Made(r)'
  BY <1>22, Numbers DEF Wish
<1>23. ASSUME NEW p \in Procs, Fill(p)  PROVE Made(r)'
  <2>1. pc'[r] = pc[r] \/ pc'[r] = "filling" \/ (pc[r] = "idle" /\ pc'[r] = "conf")
    BY <1>23, Numbers DEF Fill, AllFilled
  <2>2. pc'[r] = "filling" => new[r] = Nil  BY <1>23 DEF Fill
  <2> QED  BY <1>23, <2>1, <2>2 DEF Fill
<1>24. ASSUME NEW p \in Procs, Filled(p)  PROVE Made(r)'
  BY <1>24, Numbers DEF Filled
<1>25. ASSUME Ready  PROVE Made(r)'
  BY <1>25, Numbers DEF Ready
<1>26. ASSUME Report  PROVE Made(r)'
  BY <1>26, Numbers DEF Report
<1>27. ASSUME Reset  PROVE Made(r)'
  BY <1>27, Numbers DEF Reset
<1>28. ASSUME NEW p \in Requests, Begin(p)  PROVE Made(r)'
  BY <1>28, Numbers DEF Begin
<1>29. ASSUME NEW s \in Ids, Lose(s)  PROVE Made(r)'
  BY <1>29, Numbers DEF Lose
<1>30. ASSUME NEW s \in Ids, KeepAlive(s)  PROVE Made(r)'
  BY <1>30, Numbers DEF KeepAlive
<1>31. CASE UNCHANGED vars  BY <1>31 DEF vars
<1> QED
  BY <1>1, <1>2, <1>3, <1>4, <1>5, <1>6, <1>7, <1>8, <1>9, <1>10, <1>11, <1>12, <1>13, <1>14, <1>15, <1>16, <1>17, <1>18, <1>19, <1>20, <1>21, <1>22, <1>23, <1>24, <1>25, <1>26, <1>27, <1>28, <1>29, <1>30, <1>31
  DEF Next, Proc, RebuildSmux, Request, Change

LEMMA LockedStep ==
    ASSUME Types, Places, Grows, Locked, (\A p \in Procs : Made(p)), [Next]_vars
    PROVE  Locked'
<1> USE DEF Types, StepTypes, Locked, Holds, LockLeft
<1>1. ASSUME NEW p \in Procs, Conf(p)  PROVE Locked'
  BY <1>1, Numbers DEF Conf
<1>2. ASSUME NEW p \in Procs, Ask(p)  PROVE Locked'
  BY <1>2, Numbers DEF Ask, Failed
<1>3. ASSUME NEW p \in Procs, Dial(p)  PROVE Locked'
  BY <1>3, Numbers DEF Dial, Dialled, Failed
<1>4. ASSUME NEW p \in Procs, LookForRoom(p)  PROVE Locked'
  BY <1>4, Numbers DEF LookForRoom, Room
<1>5. ASSUME NEW p \in Procs, DialSlot(p)  PROVE Locked'
  BY <1>5, Numbers DEF DialSlot, Dialled, Failed
<1>6. ASSUME NEW p \in Procs, AppendLoad(p)  PROVE Locked'
  BY <1>6, Numbers DEF AppendLoad
<1>7. ASSUME NEW p \in Procs, AppendStore(p)  PROVE Locked'
  <2>1. CASE raced'
    <3>1. /\ pc[p] = "store" /\ lock' = lock /\ \A q \in Procs : q # p => pc'[q] = pc[q]
          /\ pc'[p] \notin {"redial", "put"}
      BY <1>7 DEF AppendStore, Built
    <3> QED  BY <2>1, <3>1
  <2>2. CASE ~raced'
    <3>1. /\ ~raced /\ SmuxClients' = Append(SmuxClients, new[p]) /\ Len(SmuxClients) <= no[p]
          /\ SmuxClients \in Seq(Ids \cup {Nil}) /\ new[p] \in Ids \cup {Nil} /\ new[p] # Nil
      BY <1>7, <2>2, Stored DEF ListTypes, SessionTypes, AppendStore, Made
    <3>2. /\ DOMAIN SmuxClients' = DOMAIN SmuxClients \cup {Len(SmuxClients) + 1}
          /\ \A i \in DOMAIN SmuxClients : SmuxClients'[i] = SmuxClients[i] /\ i # Len(SmuxClients) + 1
          /\ SmuxClients'[Len(SmuxClients) + 1] # Nil
      BY <3>1, Appended
    <3>3. /\ pc[p] = "store" /\ UNCHANGED <<lock, no>> /\ \A q \in Procs : q # p => pc'[q] = pc[q]
          /\ pc'[p] \notin {"redial", "put"}
      BY <1>7 DEF AppendStore, Built
    <3>4. lock' # Free <=> \E i \in DOMAIN SmuxClients' : SmuxClients'[i] = Nil
      BY <3>1, <3>2, <3>3
    <3>5. ASSUME NEW q \in Procs, Holds(q)'
          PROVE  /\ no'[q] + 1 \in DOMAIN SmuxClients'
                 /\ \A i \in DOMAIN SmuxClients' : SmuxClients'[i] = Nil <=> i = no'[q] + 1
      <4>1. Holds(q) /\ no'[q] = no[q]  BY <3>3, <3>5
      <4> QED  BY <3>1, <3>2, <4>1
    <3> QED  BY <3>1, <3>3, <3>4, <3>5
  <2> QED  BY <2>1, <2>2
<1>8. ASSUME NEW p \in Procs, Replace(p)  PROVE Locked'
  <2>1. CASE crashed'= TRUE /\ UNCHANGED <<lock, state, SmuxClients, pc, raced>>
    BY <1>8, <2>1 DEF Replace
  <2>2. CASE /\ no[p] < Len(SmuxClients) /\ Slot(no[p]) # Nil /\ Hold(p)
             /\ SmuxClients' = [SmuxClients EXCEPT ![no[p] + 1] = Nil]
             /\ Goto(p, IF conf[p] = "quic" THEN "redial" ELSE "put") /\ Overlap(p)
    <3>1. no[p] + 1 \in DOMAIN SmuxClients /\ lock = Free /\ lock' = p
      BY <1>8, <2>2, Numbers DEF Replace, Hold, ListTypes, Places, Rebuilding, Procs
    <3>2. DOMAIN SmuxClients' = DOMAIN SmuxClients /\ SmuxClients'[no[p] + 1] = Nil
          /\ \A i \in DOMAIN SmuxClients : i # no[p] + 1 => SmuxClients'[i] = SmuxClients[i]
      BY <2>2, <3>1 DEF ListTypes
    <3>3. \A q \in Procs : q # p => ~Holds(q)'  BY <2>2, <3>1, Numbers
    <3>4. Holds(p)'  BY <2>2
    <3>5. ~raced' => ~raced  BY <2>2 DEF Overlap
    <3>6. no' = no  BY <1>8 DEF Replace
    <3>7. ~raced => \A i \in DOMAIN SmuxClients : SmuxClients[i] # Nil  BY <3>1
    <3>8. ~raced' => \A i \in DOMAIN SmuxClients' : SmuxClients'[i] = Nil <=> i = no[p] + 1
      BY <3>1, <3>2, <3>5, <3>7
    <3>9. lock' # Free  BY <3>1, Numbers
    <3> QED  BY <3>1, <3>2, <3>3, <3>4, <3>6, <3>8, <3>9
  <2> QED  BY <1>8, <2>1, <2>2 DEF Replace
<1>9. ASSUME NEW p \in Procs, Redial(p)  PROVE Locked'
  BY <1>9, Numbers DEF Redial, Dialled, Failed, SessionTypes, Made
<1>10. ASSUME NEW p \in Procs, Put(p)  PROVE Locked'
  <2>1. CASE crashed' = TRUE /\ UNCHANGED <<SmuxClients, lock, pc, new, raced>>
    BY <1>10, <2>1 DEF Put
  <2>2. CASE /\ no[p] < Len(SmuxClients) /\ SmuxClients' = [SmuxClients EXCEPT ![no[p] + 1] = new[p]]
             /\ Unlock /\ Goto(p, Built(p)) /\ Overlap(p)
    <3>1. pc[p] = "put" /\ lock = p /\ lock' = Free /\ new[p] # Nil
      BY <1>10, <2>2 DEF Put, Unlock, Made
    <3>2. \A q \in Procs : ~Holds(q)'
      <4>1. \A q \in Procs : q # p => ~Holds(q)  BY <3>1
      <4> QED  BY <2>2, <4>1 DEF Built
    <3>3. ~raced' => ~raced  BY <2>2 DEF Overlap
    <3>4. ASSUME ~raced'  PROVE \A i \in DOMAIN SmuxClients' : SmuxClients'[i] # Nil
      <4>1. no[p] + 1 \in DOMAIN SmuxClients /\ \A i \in DOMAIN SmuxClients : SmuxClients[i] = Nil <=> i = no[p] + 1
        BY <3>1, <3>3, <3>4
      <4> QED  BY <2>2, <3>1, <4>1 DEF ListTypes
    <3> QED  BY <3>1, <3>2, <3>4, Numbers
  <2> QED  BY <1>10, <2>1, <2>2 DEF Put
<1>11. ASSUME NEW p \in Procs, TakeTurn(p)  PROVE Locked'
  BY <1>11, Numbers DEF TakeTurn, Turn
<1>12. ASSUME NEW p \in Procs, Pick(p)  PROVE Locked'
  BY <1>12, Numbers DEF Pick, Use, Slot
<1>13. ASSUME NEW p \in Procs, Fetch(p)  PROVE Locked'
  BY <1>13, Numbers DEF Fetch, Use, Slot
<1>14. ASSUME NEW p \in Procs, Check(p)  PROVE Locked'
  BY <1>14, Numbers DEF Check, IsClosed
<1>15. ASSUME NEW p \in Procs, OpenStream(p)  PROVE Locked'
  BY <1>15, Numbers DEF OpenStream, Opened
<1>16. ASSUME NEW p \in Procs, Err(p)  PROVE Locked'
  BY <1>16, Numbers DEF Err, Fresh
<1>17. ASSUME NEW p \in Procs, Send(p)  PROVE Locked'
  BY <1>17, Numbers DEF Send
<1>18. ASSUME NEW p \in Procs, Alive(p)  PROVE Locked'
  BY <1>18, Numbers DEF Alive, Calmer, Fresh
<1>19. ASSUME NEW p \in Procs, Piped(p)  PROVE Locked'
  BY <1>19, Numbers DEF Piped
<1>20. ASSUME NEW p \in Procs, Forget(p)  PROVE Locked'
  BY <1>20, Numbers DEF Forget
<1>21. ASSUME NEW p \in Procs, Want(p)  PROVE Locked'
  BY <1>21, Numbers DEF Want
<1>22. ASSUME NEW p \in Procs, Wish(p)  PROVE Locked'
  BY <1>22, Numbers DEF Wish
<1>23. ASSUME NEW p \in Procs, Fill(p)  PROVE Locked'
  <2>1. \A q \in Procs : Holds(q)' <=> Holds(q)  BY <1>23, Numbers DEF Fill, AllFilled
  <2> QED  BY <1>23, <2>1 DEF Fill
<1>24. ASSUME NEW p \in Procs, Filled(p)  PROVE Locked'
  BY <1>24, Numbers DEF Filled
<1>25. ASSUME Ready  PROVE Locked'
  BY <1>25, Numbers DEF Ready
<1>26. ASSUME Report  PROVE Locked'
  BY <1>26, Numbers DEF Report
<1>27. ASSUME Reset  PROVE Locked'
  BY <1>27, Numbers DEF Reset
<1>28. ASSUME NEW p \in Requests, Begin(p)  PROVE Locked'
  BY <1>28, Numbers DEF Begin
<1>29. ASSUME NEW s \in Ids, Lose(s)  PROVE Locked'
  BY <1>29, Numbers DEF Lose
<1>30. ASSUME NEW s \in Ids, KeepAlive(s)  PROVE Locked'
  BY <1>30, Numbers DEF KeepAlive
<1>31. CASE UNCHANGED vars  BY <1>31 DEF vars
<1> QED
  BY <1>1, <1>2, <1>3, <1>4, <1>5, <1>6, <1>7, <1>8, <1>9, <1>10, <1>11, <1>12, <1>13, <1>14, <1>15, <1>16, <1>17, <1>18, <1>19, <1>20, <1>21, <1>22, <1>23, <1>24, <1>25, <1>26, <1>27, <1>28, <1>29, <1>30, <1>31
  DEF Next, Proc, RebuildSmux, Request, Change

LEMMA GrowsStep ==
    ASSUME Types, Places, Grows, [Next]_vars
    PROVE  Grows'
<1> USE DEF Types, StepTypes, Grows, Appending
<1>1. ASSUME NEW p \in Procs, Conf(p)  PROVE Grows'
  BY <1>1, Numbers DEF Conf
<1>2. ASSUME NEW p \in Procs, Ask(p)  PROVE Grows'
  BY <1>2, Numbers DEF Ask, Failed
<1>3. ASSUME NEW p \in Procs, Dial(p)  PROVE Grows'
  BY <1>3, Numbers DEF Dial, Dialled, Failed
<1>4. ASSUME NEW p \in Procs, LookForRoom(p)  PROVE Grows'
  BY <1>4, Numbers DEF LookForRoom, Room
<1>5. ASSUME NEW p \in Procs, DialSlot(p)  PROVE Grows'
  BY <1>5, Numbers DEF DialSlot, Dialled, Failed
<1>6. ASSUME NEW p \in Procs, AppendLoad(p)  PROVE Grows'
  BY <1>6, Numbers DEF AppendLoad, ListTypes
<1>7. ASSUME NEW p \in Procs, AppendStore(p)  PROVE Grows'
  <2> SUFFICES ASSUME ~raced'  PROVE Grows'  BY DEF Grows
  <2>1. /\ ~raced /\ SmuxClients' = Append(SmuxClients, new[p]) /\ Len(SmuxClients) <= no[p]
        /\ \A q \in Procs \ {p} : ~Appending(q)
        /\ SmuxClients \in Seq(Ids \cup {Nil}) /\ new[p] \in Ids \cup {Nil}
    BY <1>7, Stored DEF ListTypes, SessionTypes
  <2>2. Len(SmuxClients') = Len(SmuxClients) + 1  BY <2>1, Appended
  <2>3. no[p] <= ClientNum - 1 /\ no[p] \in Int  BY Numbers
  <2>4. \A q \in Procs : ~Appending(q)'  BY <1>7, <2>1 DEF AppendStore, Built
  <2> QED  BY <2>1, <2>2, <2>3, <2>4, Numbers
<1>8. ASSUME NEW p \in Procs, Replace(p)  PROVE Grows'
  <2>1. CASE UNCHANGED <<SmuxClients, pc, raced>>  BY <1>8, <2>1 DEF Replace
  <2>2. CASE /\ SmuxClients' = [SmuxClients EXCEPT ![no[p] + 1] = Nil]
             /\ Goto(p, IF conf[p] = "quic" THEN "redial" ELSE "put") /\ Overlap(p)
    <3>1. Len(SmuxClients') = Len(SmuxClients)  BY <2>2 DEF ListTypes
    <3>2. ~raced' => ~raced /\ \A q \in Procs : ~Appending(q)'  BY <2>2 DEF Overlap
    <3> QED  BY <3>1, <3>2
  <2> QED  BY <1>8, <2>1, <2>2 DEF Replace
<1>9. ASSUME NEW p \in Procs, Redial(p)  PROVE Grows'
  BY <1>9, Numbers DEF Redial, Dialled, Failed
<1>10. ASSUME NEW p \in Procs, Put(p)  PROVE Grows'
  <2>1. CASE UNCHANGED <<SmuxClients, pc, raced>>  BY <1>10, <2>1 DEF Put
  <2>2. CASE /\ SmuxClients' = [SmuxClients EXCEPT ![no[p] + 1] = new[p]]
             /\ Goto(p, Built(p)) /\ Overlap(p)
    <3>1. Len(SmuxClients') = Len(SmuxClients)  BY <2>2 DEF ListTypes
    <3>2. ~raced' => ~raced /\ \A q \in Procs : ~Appending(q)'  BY <2>2 DEF Overlap, Built
    <3> QED  BY <3>1, <3>2
  <2> QED  BY <1>10, <2>1, <2>2 DEF Put
<1>11. ASSUME NEW p \in Procs, TakeTurn(p)  PROVE Grows'
  BY <1>11, Numbers DEF TakeTurn, Turn
<1>12. ASSUME NEW p \in Procs, Pick(p)  PROVE Grows'
  BY <1>12, Numbers DEF Pick, Use, Slot
<1>13. ASSUME NEW p \in Procs, Fetch(p)  PROVE Grows'
  BY <1>13, Numbers DEF Fetch, Use, Slot
<1>14. ASSUME NEW p \in Procs, Check(p)  PROVE Grows'
  BY <1>14, Numbers DEF Check, IsClosed
<1>15. ASSUME NEW p \in Procs, OpenStream(p)  PROVE Grows'
  BY <1>15, Numbers DEF OpenStream, Opened
<1>16. ASSUME NEW p \in Procs, Err(p)  PROVE Grows'
  BY <1>16, Numbers DEF Err, Fresh
<1>17. ASSUME NEW p \in Procs, Send(p)  PROVE Grows'
  BY <1>17, Numbers DEF Send
<1>18. ASSUME NEW p \in Procs, Alive(p)  PROVE Grows'
  BY <1>18, Numbers DEF Alive, Calmer, Fresh
<1>19. ASSUME NEW p \in Procs, Piped(p)  PROVE Grows'
  BY <1>19, Numbers DEF Piped
<1>20. ASSUME NEW p \in Procs, Forget(p)  PROVE Grows'
  BY <1>20, Numbers DEF Forget
<1>21. ASSUME NEW p \in Procs, Want(p)  PROVE Grows'
  BY <1>21, Numbers DEF Want
<1>22. ASSUME NEW p \in Procs, Wish(p)  PROVE Grows'
  BY <1>22, Numbers DEF Wish
<1>23. ASSUME NEW p \in Procs, Fill(p)  PROVE Grows'
  <2>1. \A q \in Procs : pc'[q] # pc[q] => pc'[q] \in {"conf", "filling"}  BY <1>23 DEF Fill
  <2> QED  BY <1>23, <2>1 DEF Fill
<1>24. ASSUME NEW p \in Procs, Filled(p)  PROVE Grows'
  BY <1>24, Numbers DEF Filled
<1>25. ASSUME Ready  PROVE Grows'
  BY <1>25, Numbers DEF Ready
<1>26. ASSUME Report  PROVE Grows'
  BY <1>26, Numbers DEF Report
<1>27. ASSUME Reset  PROVE Grows'
  BY <1>27, Numbers DEF Reset
<1>28. ASSUME NEW p \in Requests, Begin(p)  PROVE Grows'
  BY <1>28, Numbers DEF Begin
<1>29. ASSUME NEW s \in Ids, Lose(s)  PROVE Grows'
  BY <1>29, Numbers DEF Lose
<1>30. ASSUME NEW s \in Ids, KeepAlive(s)  PROVE Grows'
  BY <1>30, Numbers DEF KeepAlive
<1>31. CASE UNCHANGED vars  BY <1>31 DEF vars
<1> QED
  BY <1>1, <1>2, <1>3, <1>4, <1>5, <1>6, <1>7, <1>8, <1>9, <1>10, <1>11, <1>12, <1>13, <1>14, <1>15, <1>16, <1>17, <1>18, <1>19, <1>20, <1>21, <1>22, <1>23, <1>24, <1>25, <1>26, <1>27, <1>28, <1>29, <1>30, <1>31
  DEF Next, Proc, RebuildSmux, Request, Change

(* A step that adds no worker to Short and leaves the list's length.       *)
LEMMA Shorter ==
    ASSUME Types, Enough, Short' \subseteq Short, Len(SmuxClients') = Len(SmuxClients),
           ready' = ready, ~raced' => ~raced
    PROVE  Enough'
<1> SUFFICES ASSUME ~raced'  PROVE Cardinality(Short') <= Len(SmuxClients')
  BY DEF Enough
<1>1. IsFiniteSet(Short)  BY Numbers, FS_Subset DEF Short
<1>2. Cardinality(Short') <= Cardinality(Short) /\ Cardinality(Short') \in Nat /\ Cardinality(Short) \in Nat
  BY <1>1, FS_Subset, FS_CardinalityType
<1>3. Len(SmuxClients) \in Nat  BY DEF Types, ListTypes
<1> QED  BY <1>2, <1>3 DEF Enough

LEMMA EnoughStep ==
    ASSUME Types, Places, Grows, Enough, [Next]_vars
    PROVE  Enough'
<1> USE DEF Types, StepTypes, Short
<1>1. ASSUME NEW p \in Procs, Conf(p)  PROVE Enough'
  BY <1>1, Shorter, Numbers DEF Conf
<1>2. ASSUME NEW p \in Procs, Ask(p)  PROVE Enough'
  BY <1>2, Shorter, Numbers DEF Ask, Failed
<1>3. ASSUME NEW p \in Procs, Dial(p)  PROVE Enough'
  BY <1>3, Shorter, Numbers DEF Dial, Dialled, Failed
<1>4. ASSUME NEW p \in Procs, LookForRoom(p)  PROVE Enough'
  BY <1>4, Shorter, Numbers DEF LookForRoom, Room
<1>5. ASSUME NEW p \in Procs, DialSlot(p)  PROVE Enough'
  BY <1>5, Shorter, Numbers DEF DialSlot, Dialled, Failed
<1>6. ASSUME NEW p \in Procs, AppendLoad(p)  PROVE Enough'
  BY <1>6, Shorter, Numbers DEF AppendLoad
<1>7. ASSUME NEW p \in Procs, AppendStore(p)  PROVE Enough'
  <2> SUFFICES ASSUME ~raced'  PROVE Enough'  BY DEF Enough
  <2>1. /\ ~raced /\ SmuxClients' = Append(SmuxClients, new[p])
        /\ SmuxClients \in Seq(Ids \cup {Nil}) /\ new[p] \in Ids \cup {Nil}
    BY <1>7, Stored DEF ListTypes, SessionTypes
  <2>2. Len(SmuxClients') = Len(SmuxClients) + 1 /\ Len(SmuxClients) \in Nat  BY <2>1, Appended
  <2>3. \A q \in Procs : q # p => pc'[q] = pc[q]  BY <1>7 DEF AppendStore
  <2>4. ASSUME NEW w \in Short', w # p  PROVE w \in Short
    <3>1. w \in Workers /\ w \in Int /\ w >= Len(SmuxClients')  BY <2>4, Numbers
    <3> QED  BY <2>2, <2>3, <2>4, <3>1, Numbers
  <2>5. IsFiniteSet(Short)  BY Numbers, FS_Subset
  <2>6. /\ Cardinality(Short') <= Cardinality(Short \cup {p})
        /\ Cardinality(Short \cup {p}) <= Cardinality(Short) + 1
        /\ Cardinality(Short) \in Nat /\ Cardinality(Short') \in Nat /\ Cardinality(Short \cup {p}) \in Nat
    <3>1. IsFiniteSet(Short \cup {p}) /\ Cardinality(Short) \in Nat
          /\ Cardinality(Short \cup {p}) = IF p \in Short THEN Cardinality(Short) ELSE Cardinality(Short) + 1
      BY <2>5, FS_AddElement, FS_CardinalityType
    <3>2. IsFiniteSet(Short') /\ Cardinality(Short') <= Cardinality(Short \cup {p})
      BY <2>4, <3>1, FS_Subset DEF Short
    <3> QED  BY <3>1, <3>2, FS_CardinalityType
  <2>7. Cardinality(Short) <= Len(SmuxClients) /\ (ready => 2 * Len(SmuxClients) >= ClientNum)
    BY <2>1 DEF Enough
  <2>8. ready' = ready  BY <1>7 DEF AppendStore
  <2>9. Cardinality(Short') <= Len(SmuxClients')  BY <2>2, <2>6, <2>7
  <2>10. ready' => 2 * Len(SmuxClients') >= ClientNum  BY <2>2, <2>7, <2>8, Numbers
  <2> QED  BY <2>9, <2>10 DEF Enough
<1>8. ASSUME NEW p \in Procs, Replace(p)  PROVE Enough'
  <2>1. Len(SmuxClients') = Len(SmuxClients)  BY <1>8 DEF Replace, ListTypes
  <2>2. (~raced' => ~raced) /\ ready' = ready  BY <1>8 DEF Replace, Overlap
  <2>3. \A q \in Procs : pc'[q] = "idle" => pc[q] = "idle"  BY <1>8 DEF Replace
  <2>4. Short' \subseteq Short  BY <2>1, <2>3, Numbers
  <2> QED  BY <2>1, <2>2, <2>4, Shorter
<1>9. ASSUME NEW p \in Procs, Redial(p)  PROVE Enough'
  BY <1>9, Shorter, Numbers DEF Redial, Dialled, Failed
<1>10. ASSUME NEW p \in Procs, Put(p)  PROVE Enough'
  <2>1. Len(SmuxClients') = Len(SmuxClients)  BY <1>10 DEF Put, ListTypes
  <2>2. (~raced' => ~raced) /\ ready' = ready  BY <1>10 DEF Put, Overlap
  <2>3. \A q \in Workers : pc'[q] = "idle" => pc[q] = "idle" \/ (q = p /\ no[p] < Len(SmuxClients))
    BY <1>10, Numbers DEF Put
  <2>4. \A w \in Workers : no[w] = w /\ w \in Int  BY Numbers DEF Places
  <2>5. Len(SmuxClients) \in Int  BY DEF ListTypes
  <2>6. \A w \in Workers : no[w] < Len(SmuxClients) => ~(w >= Len(SmuxClients))  BY <2>4, <2>5
  <2>7. Short' \subseteq Short  BY <2>1, <2>3, <2>6
  <2> QED  BY <2>1, <2>2, <2>7, Shorter
<1>11. ASSUME NEW p \in Procs, TakeTurn(p)  PROVE Enough'
  BY <1>11, Shorter, Numbers DEF TakeTurn, Turn
<1>12. ASSUME NEW p \in Procs, Pick(p)  PROVE Enough'
  BY <1>12, Shorter, Numbers DEF Pick, Use, Slot
<1>13. ASSUME NEW p \in Procs, Fetch(p)  PROVE Enough'
  BY <1>13, Shorter, Numbers DEF Fetch, Use, Slot
<1>14. ASSUME NEW p \in Procs, Check(p)  PROVE Enough'
  BY <1>14, Shorter, Numbers DEF Check, IsClosed
<1>15. ASSUME NEW p \in Procs, OpenStream(p)  PROVE Enough'
  BY <1>15, Shorter, Numbers DEF OpenStream, Opened
<1>16. ASSUME NEW p \in Procs, Err(p)  PROVE Enough'
  BY <1>16, Shorter, Numbers DEF Err, Fresh
<1>17. ASSUME NEW p \in Procs, Send(p)  PROVE Enough'
  BY <1>17, Shorter, Numbers DEF Send
<1>18. ASSUME NEW p \in Procs, Alive(p)  PROVE Enough'
  BY <1>18, Shorter, Numbers DEF Alive, Calmer, Fresh
<1>19. ASSUME NEW p \in Procs, Piped(p)  PROVE Enough'
  BY <1>19, Shorter, Numbers DEF Piped
<1>20. ASSUME NEW p \in Procs, Forget(p)  PROVE Enough'
  BY <1>20, Shorter, Numbers DEF Forget
<1>21. ASSUME NEW p \in Procs, Want(p)  PROVE Enough'
  BY <1>21, Shorter, Numbers DEF Want
<1>22. ASSUME NEW p \in Procs, Wish(p)  PROVE Enough'
  BY <1>22, Shorter, Numbers DEF Wish
<1>23. ASSUME NEW p \in Procs, Fill(p)  PROVE Enough'
  <2>1. UNCHANGED <<SmuxClients, ready, raced>> /\ \A q \in Workers : pc'[q] # "idle"
    BY <1>23, Numbers DEF Fill
  <2>2. Short' \subseteq Short  BY <2>1
  <2> QED  BY <2>1, <2>2, Shorter
<1>24. ASSUME NEW p \in Procs, Filled(p)  PROVE Enough'
  BY <1>24, Shorter, Numbers DEF Filled
<1>25. ASSUME Ready  PROVE Enough'
  <2> SUFFICES ASSUME ~raced  PROVE Enough'  BY <1>25 DEF Ready, Enough
  <2>1. Short' = Short /\ UNCHANGED <<SmuxClients, raced>>  BY <1>25 DEF Ready
  <2>2. Len(SmuxClients) \in Nat /\ Len(SmuxClients) <= ClientNum  BY DEF Grows, ListTypes
  <2>3. Short = Len(SmuxClients) .. ClientNum - 1  BY <1>25, <2>2, Numbers DEF Ready, AllFilled, Workers
  <2> DEFINE a == Len(SmuxClients)
             b == ClientNum - 1
  <2>a. a \in Int /\ b \in Int /\ ~(a > b + 1)  BY <2>2, Numbers
  <2>b. Cardinality(a .. b) = IF a > b THEN 0 ELSE b - a + 1
    <3> HIDE DEF a, b
    <3> QED  BY <2>a, FS_Interval
  <2>4. Cardinality(Short) = ClientNum - Len(SmuxClients)  
    <3> HIDE DEF Short
    <3> QED  BY <2>2, <2>3, <2>a, <2>b, Numbers
  <2>5. Cardinality(Short) <= Len(SmuxClients)  BY DEF Enough
  <2>6. 2 * Len(SmuxClients) >= ClientNum  BY <2>2, <2>4, <2>5, Numbers
  <2> QED  BY <2>1, <2>5, <2>6 DEF Enough
<1>26. ASSUME Report  PROVE Enough'
  BY <1>26, Shorter, Numbers DEF Report
<1>27. ASSUME Reset  PROVE Enough'
  BY <1>27, Shorter, Numbers DEF Reset
<1>28. ASSUME NEW p \in Requests, Begin(p)  PROVE Enough'
  BY <1>28, Shorter, Numbers DEF Begin
<1>29. ASSUME NEW s \in Ids, Lose(s)  PROVE Enough'
  BY <1>29, Shorter, Numbers DEF Lose
<1>30. ASSUME NEW s \in Ids, KeepAlive(s)  PROVE Enough'
  BY <1>30, Shorter, Numbers DEF KeepAlive
<1>31. CASE UNCHANGED vars
  BY <1>31, Shorter DEF vars
<1> QED
  BY <1>1, <1>2, <1>3, <1>4, <1>5, <1>6, <1>7, <1>8, <1>9, <1>10, <1>11, <1>12, <1>13, <1>14, <1>15, <1>16, <1>17, <1>18, <1>19, <1>20, <1>21, <1>22, <1>23, <1>24, <1>25, <1>26, <1>27, <1>28, <1>29, <1>30, <1>31
  DEF Next, Proc, RebuildSmux, Request, Change

LEMMA Pipes == IsFiniteSet(Piping) /\ Cardinality(Piping) \in Nat
BY Numbers, FS_Subset, FS_CardinalityType DEF Piping

LEMMA CountedStep ==
    ASSUME Types, Counted, [Next]_vars
    PROVE  Counted'
<1> USE DEF Types, StepTypes, Counted, Piping
<1>1. ASSUME NEW p \in Procs, Conf(p)  PROVE Counted'
  BY <1>1, Numbers DEF Conf
<1>2. ASSUME NEW p \in Procs, Ask(p)  PROVE Counted'
  BY <1>2, Numbers DEF Ask, Failed
<1>3. ASSUME NEW p \in Procs, Dial(p)  PROVE Counted'
  BY <1>3, Numbers DEF Dial, Dialled, Failed
<1>4. ASSUME NEW p \in Procs, LookForRoom(p)  PROVE Counted'
  BY <1>4, Numbers DEF LookForRoom, Room
<1>5. ASSUME NEW p \in Procs, DialSlot(p)  PROVE Counted'
  BY <1>5, Numbers DEF DialSlot, Dialled, Failed
<1>6. ASSUME NEW p \in Procs, AppendLoad(p)  PROVE Counted'
  BY <1>6, Numbers DEF AppendLoad
<1>7. ASSUME NEW p \in Procs, AppendStore(p)  PROVE Counted'
  BY <1>7, Numbers DEF AppendStore, Overlap, Built
<1>8. ASSUME NEW p \in Procs, Replace(p)  PROVE Counted'
  BY <1>8, Numbers DEF Replace, Hold, Closing, Overlap, Slot
<1>9. ASSUME NEW p \in Procs, Redial(p)  PROVE Counted'
  BY <1>9, Numbers DEF Redial, Dialled, Failed
<1>10. ASSUME NEW p \in Procs, Put(p)  PROVE Counted'
  BY <1>10, Numbers DEF Put, Unlock, Built, Overlap
<1>11. ASSUME NEW p \in Procs, TakeTurn(p)  PROVE Counted'
  BY <1>11, Numbers DEF TakeTurn, Turn
<1>12. ASSUME NEW p \in Procs, Pick(p)  PROVE Counted'
  BY <1>12, Numbers DEF Pick, Use, Slot
<1>13. ASSUME NEW p \in Procs, Fetch(p)  PROVE Counted'
  BY <1>13, Numbers DEF Fetch, Use, Slot
<1>14. ASSUME NEW p \in Procs, Check(p)  PROVE Counted'
  BY <1>14, Numbers DEF Check, IsClosed
<1>15. ASSUME NEW p \in Procs, OpenStream(p)  PROVE Counted'
  BY <1>15, Numbers DEF OpenStream, Opened
<1>16. ASSUME NEW p \in Procs, Err(p)  PROVE Counted'
  BY <1>16, Numbers DEF Err, Fresh
<1>17. ASSUME NEW p \in Procs, Send(p)  PROVE Counted'
  BY <1>17, Numbers DEF Send
<1>18. ASSUME NEW p \in Procs, Alive(p)  PROVE Counted'
  <2>1. Piping' = Piping \cup {p} /\ p \notin Piping  BY <1>18 DEF Alive, Fresh, Piping
  <2>2. AliveCount' = AliveCount + 1  BY <1>18 DEF Alive
  <2> QED  BY <2>1, <2>2, Pipes, FS_AddElement DEF Counted
<1>19. ASSUME NEW p \in Procs, Piped(p)  PROVE Counted'
  <2>1. Piping' = Piping \ {p} /\ p \in Piping  BY <1>19 DEF Piped, Piping
  <2>2. AliveCount' = AliveCount - 1  BY <1>19 DEF Piped
  <2>3. Cardinality(Piping \ {p}) = Cardinality(Piping) - 1  BY <2>1, Pipes, FS_RemoveElement
  <2> QED  BY <2>1, <2>2, <2>3 DEF Counted
<1>20. ASSUME NEW p \in Procs, Forget(p)  PROVE Counted'
  BY <1>20, Numbers DEF Forget
<1>21. ASSUME NEW p \in Procs, Want(p)  PROVE Counted'
  BY <1>21, Numbers DEF Want
<1>22. ASSUME NEW p \in Procs, Wish(p)  PROVE Counted'
  BY <1>22, Numbers DEF Wish
<1>23. ASSUME NEW p \in Procs, Fill(p)  PROVE Counted'
  <2>1. Piping' = Piping /\ AliveCount' = AliveCount  BY <1>23, Numbers DEF Fill, Piping, AllFilled
  <2> QED  BY <2>1 DEF Counted
<1>24. ASSUME NEW p \in Procs, Filled(p)  PROVE Counted'
  BY <1>24, Numbers DEF Filled
<1>25. ASSUME Ready  PROVE Counted'
  BY <1>25, Numbers DEF Ready
<1>26. ASSUME Report  PROVE Counted'
  BY <1>26, Numbers DEF Report
<1>27. ASSUME Reset  PROVE Counted'
  BY <1>27, Numbers DEF Reset
<1>28. ASSUME NEW p \in Requests, Begin(p)  PROVE Counted'
  BY <1>28, Numbers DEF Begin
<1>29. ASSUME NEW s \in Ids, Lose(s)  PROVE Counted'
  BY <1>29, Numbers DEF Lose
<1>30. ASSUME NEW s \in Ids, KeepAlive(s)  PROVE Counted'
  BY <1>30, Numbers DEF KeepAlive
<1>31. CASE UNCHANGED vars  BY <1>31 DEF vars
<1> QED
  BY <1>1, <1>2, <1>3, <1>4, <1>5, <1>6, <1>7, <1>8, <1>9, <1>10, <1>11, <1>12, <1>13, <1>14, <1>15, <1>16, <1>17, <1>18, <1>19, <1>20, <1>21, <1>22, <1>23, <1>24, <1>25, <1>26, <1>27, <1>28, <1>29, <1>30, <1>31
  DEF Next, Proc, RebuildSmux, Request, Change

LEMMA NoneLostStep ==
    ASSUME Types, Places, (\A p \in Procs : Made(p)), Locked, Grows, NoneLost, [Next]_vars
    PROVE  NoneLost'
<1> USE DEF Types, StepTypes, NoneLost, Range0
<1>1. ASSUME NEW p \in Procs, Conf(p)  PROVE NoneLost'
  BY <1>1, Numbers DEF Conf
<1>2. ASSUME NEW p \in Procs, Ask(p)  PROVE NoneLost'
  BY <1>2, Numbers DEF Ask, Failed
<1>3. ASSUME NEW p \in Procs, Dial(p)  PROVE NoneLost'
  <2>1. CASE Dialled(p) /\ Goto(p, "room")
    <3>1. PICK s \in Ids : state' = [state EXCEPT ![s] = "open"] /\ new' = [new EXCEPT ![p] = s]
      BY <2>1 DEF Dialled
    <3>2. new[p] = Nil /\ UNCHANGED <<SmuxClients, raced>>  BY <1>3 DEF Dial, Made
    <3>3. new'[p] = s /\ \A q \in Procs : q # p => new'[q] = new[q]  BY <3>1 DEF SessionTypes
    <3>4. \A t \in Ids : t # s => state'[t] = state[t]  BY <3>1 DEF SessionTypes
    <3>5. pc'[p] = "room" /\ \A q \in Procs : q # p => pc'[q] = pc[q]  BY <2>1
    <3>6. \A t \in Ids : t # Nil  BY Numbers
    <3> QED  BY <3>2, <3>3, <3>4, <3>5, <3>6
  <2>2. CASE UNCHANGED <<sessions, new>>
    <3>1. pc[p] \in {"dial", "dialslot", "redial"} /\ UNCHANGED <<SmuxClients, raced>>
          /\ \A q \in Procs : q # p => pc'[q] = pc[q]
      BY <1>3 DEF Dial
    <3> QED  BY <2>2, <3>1
  <2> QED  BY <1>3, <2>1, <2>2 DEF Dial
<1>4. ASSUME NEW p \in Procs, LookForRoom(p)  PROVE NoneLost'
  BY <1>4, Numbers DEF LookForRoom, Room, Made
<1>5. ASSUME NEW p \in Procs, DialSlot(p)  PROVE NoneLost'
  <2>1. CASE Dialled(p) /\ Goto(p, "load")
    <3>1. PICK s \in Ids : state' = [state EXCEPT ![s] = "open"] /\ new' = [new EXCEPT ![p] = s]
      BY <2>1 DEF Dialled
    <3>2. new[p] = Nil /\ UNCHANGED <<SmuxClients, raced>>  BY <1>5 DEF DialSlot, Made
    <3>3. new'[p] = s /\ \A q \in Procs : q # p => new'[q] = new[q]  BY <3>1 DEF SessionTypes
    <3>4. \A t \in Ids : t # s => state'[t] = state[t]  BY <3>1 DEF SessionTypes
    <3>5. pc'[p] = "load" /\ \A q \in Procs : q # p => pc'[q] = pc[q]  BY <2>1
    <3>6. \A t \in Ids : t # Nil  BY Numbers
    <3> QED  BY <3>2, <3>3, <3>4, <3>5, <3>6
  <2>2. CASE UNCHANGED <<sessions, new>>
    <3>1. pc[p] \in {"dial", "dialslot", "redial"} /\ UNCHANGED <<SmuxClients, raced>>
          /\ \A q \in Procs : q # p => pc'[q] = pc[q]
      BY <1>5 DEF DialSlot
    <3> QED  BY <2>2, <3>1
  <2> QED  BY <1>5, <2>1, <2>2 DEF DialSlot
<1>6. ASSUME NEW p \in Procs, AppendLoad(p)  PROVE NoneLost'
  BY <1>6, Numbers DEF AppendLoad
<1>7. ASSUME NEW p \in Procs, AppendStore(p)  PROVE NoneLost'
  <2> SUFFICES ASSUME ~raced'  PROVE NoneLost'  BY DEF NoneLost
  <2>1. /\ ~raced /\ SmuxClients' = Append(SmuxClients, new[p])
        /\ SmuxClients \in Seq(Ids \cup {Nil}) /\ new[p] \in Ids \cup {Nil}
    BY <1>7, Stored DEF ListTypes, SessionTypes
  <2>2. \A s \in Ids : s = new[p] \/ (\E i \in DOMAIN SmuxClients : SmuxClients[i] = s)
                         => \E i \in DOMAIN SmuxClients' : SmuxClients'[i] = s
    <3>1. /\ DOMAIN SmuxClients' = DOMAIN SmuxClients \cup {Len(SmuxClients) + 1}
          /\ \A i \in DOMAIN SmuxClients : SmuxClients'[i] = SmuxClients[i]
          /\ SmuxClients'[Len(SmuxClients) + 1] = new[p]
      BY <2>1, Appended
    <3> QED  BY <3>1
  <2>3. state' = state /\ \A q \in Procs : q # p => pc'[q] = pc[q] /\ new'[q] = new[q]
    BY <1>7 DEF AppendStore, SessionTypes
  <2>4. \A s \in Ids : state[s] \in {"open", "lost"} =>
          \/ \E i \in DOMAIN SmuxClients : SmuxClients[i] = s
          \/ \E q \in Procs : new[q] = s /\ pc[q] \in {"room", "load", "store", "replace", "put"}
    <3>1. ~raced  BY <2>1
    <3> QED  BY <3>1
  <2> QED  BY <2>2, <2>3, <2>4
<1>8. ASSUME NEW p \in Procs, Replace(p)  PROVE NoneLost'
  <2>1. CASE UNCHANGED <<state, SmuxClients, pc, raced>>
    BY <1>8, <2>1 DEF Replace
  <2>2. CASE /\ no[p] < Len(SmuxClients) /\ Slot(no[p]) # Nil
             /\ state' = Closing(Slot(no[p]))
             /\ SmuxClients' = [SmuxClients EXCEPT ![no[p] + 1] = Nil]
             /\ Goto(p, IF conf[p] = "quic" THEN "redial" ELSE "put") /\ Overlap(p)
    <3>1. no[p] + 1 \in DOMAIN SmuxClients /\ pc[p] = "replace"
      BY <1>8, <2>2, Numbers DEF Replace, ListTypes, Places, Rebuilding, Procs
    <3>2. /\ DOMAIN SmuxClients' = DOMAIN SmuxClients
          /\ \A i \in DOMAIN SmuxClients : i # no[p] + 1 => SmuxClients'[i] = SmuxClients[i]
      BY <2>2, <3>1 DEF ListTypes
    <3>3. /\ SmuxClients[no[p] + 1] \in Ids
          /\ state'[SmuxClients[no[p] + 1]] = "closed"
          /\ \A s \in Ids : s # SmuxClients[no[p] + 1] => state'[s] = state[s]
      BY <2>2, <3>1 DEF Closing, Slot, SessionTypes, ListTypes
    <3>4. (~raced' => ~raced) /\ new' = new  BY <1>8, <2>2 DEF Overlap, Replace
    <3>5. \A q \in Procs : q # p => pc'[q] = pc[q]  BY <2>2
    <3>6. pc'[p] = "put" \/ new[p] = Nil  BY <2>2, <3>1 DEF Made
    <3>7. \A s \in Ids : s # Nil  BY Numbers
    <3> QED  BY <3>1, <3>2, <3>3, <3>4, <3>5, <3>6, <3>7
  <2> QED  BY <1>8, <2>1, <2>2 DEF Replace
<1>9. ASSUME NEW p \in Procs, Redial(p)  PROVE NoneLost'
  <2>1. CASE Dialled(p) /\ Goto(p, "put")
    <3>1. PICK s \in Ids : state' = [state EXCEPT ![s] = "open"] /\ new' = [new EXCEPT ![p] = s]
      BY <2>1 DEF Dialled
    <3>2. new[p] = Nil /\ UNCHANGED <<SmuxClients, raced>>  BY <1>9 DEF Redial, Made
    <3>3. new'[p] = s /\ \A q \in Procs : q # p => new'[q] = new[q]  BY <3>1 DEF SessionTypes
    <3>4. \A t \in Ids : t # s => state'[t] = state[t]  BY <3>1 DEF SessionTypes
    <3>5. pc'[p] = "put" /\ \A q \in Procs : q # p => pc'[q] = pc[q]  BY <2>1
    <3>6. \A t \in Ids : t # Nil  BY Numbers
    <3> QED  BY <3>2, <3>3, <3>4, <3>5, <3>6
  <2>2. CASE UNCHANGED <<sessions, new>>
    <3>1. pc[p] \in {"dial", "dialslot", "redial"} /\ UNCHANGED <<SmuxClients, raced>>
          /\ \A q \in Procs : q # p => pc'[q] = pc[q]
      BY <1>9 DEF Redial
    <3> QED  BY <2>2, <3>1
  <2> QED  BY <1>9, <2>1, <2>2 DEF Redial
<1>10. ASSUME NEW p \in Procs, Put(p)  PROVE NoneLost'
  <2>1. CASE UNCHANGED <<SmuxClients, pc, new, raced>>
    BY <1>10, <2>1 DEF Put
  <2>2. CASE /\ no[p] < Len(SmuxClients) /\ SmuxClients' = [SmuxClients EXCEPT ![no[p] + 1] = new[p]]
             /\ Goto(p, Built(p)) /\ Overlap(p) /\ new' = [new EXCEPT ![p] = IF p \in Workers THEN Nil ELSE @]
    <3>1. pc[p] = "put" /\ state' = state /\ (~raced' => ~raced)  BY <1>10, <2>2 DEF Put, Overlap
    <3>2. \A q \in Procs : q # p => pc'[q] = pc[q] /\ new'[q] = new[q]  BY <2>2 DEF SessionTypes
    <3>3. ASSUME ~raced'
          PROVE  /\ no[p] + 1 \in DOMAIN SmuxClients /\ SmuxClients[no[p] + 1] = Nil
                 /\ DOMAIN SmuxClients' = DOMAIN SmuxClients /\ SmuxClients'[no[p] + 1] = new[p]
                 /\ \A i \in DOMAIN SmuxClients : i # no[p] + 1 => SmuxClients'[i] = SmuxClients[i]
      <4>1. no[p] + 1 \in DOMAIN SmuxClients /\ SmuxClients[no[p] + 1] = Nil
        BY <3>1, <3>3 DEF Locked, Holds
      <4> QED  BY <2>2, <4>1 DEF ListTypes
    <3>4. \A s \in Ids : s # Nil  BY Numbers
    <3> QED  BY <3>1, <3>2, <3>3, <3>4
  <2> QED  BY <1>10, <2>1, <2>2 DEF Put
<1>11. ASSUME NEW p \in Procs, TakeTurn(p)  PROVE NoneLost'
  BY <1>11, Numbers DEF TakeTurn, Turn
<1>12. ASSUME NEW p \in Procs, Pick(p)  PROVE NoneLost'
  BY <1>12, Numbers DEF Pick, Use, Slot
<1>13. ASSUME NEW p \in Procs, Fetch(p)  PROVE NoneLost'
  BY <1>13, Numbers DEF Fetch, Use, Slot
<1>14. ASSUME NEW p \in Procs, Check(p)  PROVE NoneLost'
  BY <1>14, Numbers DEF Check, IsClosed
<1>15. ASSUME NEW p \in Procs, OpenStream(p)  PROVE NoneLost'
  BY <1>15, Numbers DEF OpenStream, Opened
<1>16. ASSUME NEW p \in Procs, Err(p)  PROVE NoneLost'
  BY <1>16, Numbers DEF Err, Fresh
<1>17. ASSUME NEW p \in Procs, Send(p)  PROVE NoneLost'
  BY <1>17, Numbers DEF Send
<1>18. ASSUME NEW p \in Procs, Alive(p)  PROVE NoneLost'
  BY <1>18, Numbers DEF Alive, Calmer, Fresh
<1>19. ASSUME NEW p \in Procs, Piped(p)  PROVE NoneLost'
  BY <1>19, Numbers DEF Piped
<1>20. ASSUME NEW p \in Procs, Forget(p)  PROVE NoneLost'
  BY <1>20, Numbers DEF Forget
<1>21. ASSUME NEW p \in Procs, Want(p)  PROVE NoneLost'
  BY <1>21, Numbers DEF Want
<1>22. ASSUME NEW p \in Procs, Wish(p)  PROVE NoneLost'
  BY <1>22, Numbers DEF Wish
<1>23. ASSUME NEW p \in Procs, Fill(p)  PROVE NoneLost'
  <2>1. \A q \in Procs : pc[q] \in {"room", "load", "store", "replace", "put"} => pc'[q] = pc[q]
    BY <1>23, Numbers DEF Fill, AllFilled
  <2>2. UNCHANGED <<SmuxClients, state, new, raced>>  BY <1>23 DEF Fill
  <2> QED  BY <2>1, <2>2
<1>24. ASSUME NEW p \in Procs, Filled(p)  PROVE NoneLost'
  <2>1. pc' = pc \/ pc' = [pc EXCEPT ![p] = "done"]  BY <1>24 DEF Filled
  <2>2. pc[p] = "filling" /\ UNCHANGED <<SmuxClients, state, new, raced>>  BY <1>24 DEF Filled
  <2>3. \A q \in Procs : pc[q] \in {"room", "load", "store", "replace", "put"} => pc'[q] = pc[q]
    BY <2>1, <2>2
  <2> QED  BY <2>2, <2>3
<1>25. ASSUME Ready  PROVE NoneLost'
  BY <1>25, Numbers DEF Ready
<1>26. ASSUME Report  PROVE NoneLost'
  BY <1>26, Numbers DEF Report
<1>27. ASSUME Reset  PROVE NoneLost'
  BY <1>27, Numbers DEF Reset
<1>28. ASSUME NEW p \in Requests, Begin(p)  PROVE NoneLost'
  BY <1>28, Numbers DEF Begin
<1>29. ASSUME NEW s \in Ids, Lose(s)  PROVE NoneLost'
  BY <1>29, Numbers DEF Lose
<1>30. ASSUME NEW s \in Ids, KeepAlive(s)  PROVE NoneLost'
  BY <1>30, Numbers DEF KeepAlive
<1>31. CASE UNCHANGED vars  BY <1>31 DEF vars
<1> QED
  BY <1>1, <1>2, <1>3, <1>4, <1>5, <1>6, <1>7, <1>8, <1>9, <1>10, <1>11, <1>12, <1>13, <1>14, <1>15, <1>16, <1>17, <1>18, <1>19, <1>20, <1>21, <1>22, <1>23, <1>24, <1>25, <1>26, <1>27, <1>28, <1>29, <1>30, <1>31
  DEF Next, Proc, RebuildSmux, Request, Change

(* Each place that panics does so for one of PanicOnly's reasons.          *)
LEMMA PanicOnlyStep ==
    ASSUME Types, Places, PanicOnly, [Next]_vars
    PROVE  PanicOnly'
<1> USE DEF Types, ListTypes, StepTypes, PanicOnly
<1>1. CASE UNCHANGED vars  BY <1>1 DEF vars
<1>2. CASE crashed' = FALSE  BY <1>2
<1> DEFINE Reason == nowconf' = NoConf \/ Len(SmuxClients') < ClientNum \/ Nil \in Range0(SmuxClients')
<1>3. ASSUME NEW p \in Procs, Replace(p), crashed' # crashed  PROVE Reason
  <2>1. UNCHANGED SmuxClients /\ (no[p] < Len(SmuxClients) => Slot(no[p]) = Nil) /\ pc[p] = "replace"
    BY <1>3 DEF Replace
  <2>2. no[p] \in 0 .. ClientNum - 1
    BY <2>1, Numbers DEF Places, Rebuilding, Procs
  <2> QED  BY <2>1, <2>2, Numbers DEF Slot, Range0
<1>4. ASSUME NEW p \in Procs, Put(p), crashed' # crashed  PROVE Reason
  <2>1. UNCHANGED SmuxClients /\ ~(no[p] < Len(SmuxClients))  BY <1>4 DEF Put
  <2> QED  BY <2>1, Numbers
<1>5. ASSUME NEW p \in Procs, Pick(p), crashed' # crashed  PROVE Reason
  <2>1. UNCHANGED SmuxClients /\ SmuxClients # <<>> /\ Slot(Len(SmuxClients) - 1) = Nil
    BY <1>5 DEF Pick, Use
  <2> QED  BY <2>1 DEF Slot, Range0
<1>6. ASSUME NEW p \in Procs, Fetch(p), crashed' # crashed  PROVE Reason
  <2>1. UNCHANGED SmuxClients /\ pc[p] = "fetch" /\ (lastUse < Len(SmuxClients) => Slot(lastUse) = Nil)
    BY <1>6 DEF Fetch, Use
  <2>2. p \in Requests  BY <2>1, Numbers DEF Places, Rebuilding, Procs
  <2>3. lastUse \in Int /\ lastUse >= 0 /\ lastUse <= ClientNum - 1
    BY <2>1, <2>2, Numbers DEF Places, Rebuilding
  <2>4. SmuxClients \in Seq(Ids \cup {Nil}) /\ lastUse + 1 \in 1 .. ClientNum  BY <2>3, Numbers
  <2> QED  BY <2>1, <2>3, <2>4, Numbers DEF Slot, Range0
<1>7. ASSUME NEW p \in Procs, Filled(p), crashed' # crashed  PROVE Reason
  BY <1>7 DEF Filled
<1>8. ASSUME NEW p \in Procs,
             \/ Conf(p) \/ Ask(p) \/ Dial(p) \/ LookForRoom(p) \/ DialSlot(p) \/ AppendLoad(p)
             \/ AppendStore(p) \/ Redial(p) \/ TakeTurn(p) \/ Check(p) \/ OpenStream(p) \/ Err(p)
             \/ Send(p) \/ Alive(p) \/ Piped(p) \/ Forget(p) \/ Want(p) \/ Wish(p) \/ Fill(p)
      PROVE  crashed' = crashed
  BY <1>8 DEF Conf, Ask, Dial, LookForRoom, DialSlot, AppendLoad, AppendStore, Redial, TakeTurn, Check,
              OpenStream, Err, Send, Alive, Piped, Forget, Want, Wish, Fill
<1>9. /\ Ready \/ Reset => crashed' = crashed
      /\ \A q \in Requests : Begin(q) => crashed' = crashed
      /\ \A s \in Ids : Lose(s) \/ KeepAlive(s) => crashed' = crashed
      /\ Report => crashed' = crashed \/ Reason
  BY DEF Begin, Lose, KeepAlive, Ready, Reset, Report
<1>10. CASE Next
  <2>1. crashed = FALSE  BY <1>10 DEF Next, Proc
  <2>2. crashed' = crashed \/ Reason
    <3>1. ASSUME NEW p \in Procs, Proc(p)  PROVE crashed' = crashed \/ Reason
      <4> HIDE DEF Reason
      <4> QED
        BY <1>3, <1>4, <1>5, <1>6, <1>7, <1>8, <3>1 DEF Proc, RebuildSmux, Request, Change
    <3> HIDE DEF Reason
    <3> QED  BY <1>9, <1>10, <3>1 DEF Next
  <2> QED  BY <2>1, <2>2
<1> QED  BY <1>1, <1>10

-----------------------------------------------------------------------------
LEMMA InvInit == Init => IInv
<1> SUFFICES ASSUME Init  PROVE IInv  OBVIOUS
<1>1. \A p \in Procs : pc[p] \in {"conf", "unborn"} /\ pc[p] = "conf" <=> p \in Workers  BY DEF Init
<1>2. Types
  <2>1. ListTypes  BY DEF Init, ListTypes
  <2>2. SessionTypes  BY DEF Init, SessionTypes
  <2>3. no \in [Procs -> -1 .. ClientNum - 1]  BY Numbers DEF Init, Workers
  <2>a. pc \in [Procs -> Steps]  BY DEF Init, Steps
  <2>b. calls \in [Procs -> 0 .. 2 * Tries]
    <3>1. 0 \in 0 .. 2 * Tries  BY Numbers
    <3> QED  BY <3>1 DEF Init
  <2>c. lastUse \in -1 .. ClientNum - 1 /\ changes \in 0 .. MaxChanges  BY Numbers DEF Init
  <2>4. StepTypes  BY <2>3, <2>a, <2>b, <2>c DEF Init, StepTypes
  <2> QED  BY <2>1, <2>2, <2>4 DEF Types
<1>3. Places  BY Numbers DEF Init, Places, Rebuilding
<1>4. \A p \in Procs : Made(p)  BY Numbers DEF Init, Made, Changing
<1>5. Locked  BY Numbers DEF Init, Locked, Holds, LockLeft
<1>6. Grows  BY Numbers DEF Init, Grows, Appending
<1>7. Counted
  <2>1. Piping = {}  BY DEF Init, Piping
  <2> QED  BY <2>1, FS_EmptySet DEF Init, Counted
<1>8. Enough
  <2>1. Short = {}  BY Numbers DEF Init, Short
  <2>2. Len(SmuxClients) = 0 /\ ~ready  BY DEF Init
  <2> QED  BY <2>1, <2>2, FS_EmptySet DEF Enough
<1>9. Kept  BY DEF Init, Kept, NoneLost, PanicOnly
<1> QED  BY <1>2, <1>3, <1>4, <1>5, <1>6, <1>7, <1>8, <1>9 DEF IInv

LEMMA InvStep == IInv /\ [Next]_vars => IInv'
<1> SUFFICES ASSUME IInv, [Next]_vars  PROVE IInv'  OBVIOUS
<1> USE DEF IInv
<1>1. Types'  BY ListTypesStep, SessionTypesStep, StepTypesStep DEF Types
<1>2. Places'  BY PlacesStep
<1>3. ASSUME NEW r \in Procs  PROVE Made(r)'  BY MadeStep
<1>4. (\A p \in Procs : Made(p))'  BY <1>3
<1>5. Locked'  BY LockedStep
<1>6. Grows'  BY GrowsStep
<1>7. Counted' /\ Enough'  BY CountedStep, EnoughStep
<1>8. Kept'  BY NoneLostStep, PanicOnlyStep DEF Kept
<1> QED  BY <1>1, <1>2, <1>4, <1>5, <1>6, <1>7, <1>8

(* The inductive invariant: the pool's list, lock and goroutines agree for *)
(* as long as no append overlaps another update.                           *)
THEOREM Invariance == Spec => []IInv
BY InvInit, InvStep, PTL DEF Spec

(* Every variable of the pool keeps its type: no negative slot, no session *)
(* outside the list's, AliveCount never below zero.                        *)
THEOREM TypeCorrect == Spec => []TypeOK
<1>1. IInv => TypeOK
  BY Pipes DEF IInv, Types, ListTypes, SessionTypes, StepTypes, Steps, Counted, TypeOK
<1> QED  BY <1>1, Invariance, PTL

(* The lock stays held only after a quic redial that failed (RebuildSmux). *)
THEOREM LockCorrect == Spec => []LockHeld
<1>1. ASSUME IInv, LockLeft, ~raced  PROVE Nil \in Range0(SmuxClients)
  <2>1. lock # Free  BY <1>1, Numbers DEF LockLeft
  <2> QED  BY <1>1, <2>1 DEF IInv, Locked, Range0
<1>2. IInv => LockHeld  BY <1>1 DEF IInv, Locked, LockHeld
<1> QED  BY <1>2, Invariance, PTL

(* A slot is nil only under the lock, unless appends overlapped.           *)
THEOREM NilCorrect == Spec => []NilIsLocked
<1>1. IInv => NilIsLocked  BY DEF IInv, Locked, NilIsLocked, Range0
<1> QED  BY <1>1, Invariance, PTL

(* Unless appends overlapped, RebuildSmux loses no session that is open.   *)
THEOREM KeptCorrect == Spec => []NoneLost
<1>1. IInv => NoneLost  BY DEF IInv, Kept
<1> QED  BY <1>1, Invariance, PTL

(* Unless appends overlapped, InitializationTunnels fills half the pool.   *)
THEOREM HalfCorrect == Spec => []HalfFull
<1>1. IInv => HalfFull  BY DEF IInv, Grows, Enough, HalfFull
<1> QED  BY <1>1, Invariance, PTL

(* Unless appends overlapped, the process panics only over a nil slot, a   *)
(* list that is short, or no configuration (GetSession, RebuildSmux).      *)
THEOREM PanicCorrect == Spec => []PanicOnly
<1>1. IInv => PanicOnly  BY DEF IInv, Kept
<1> QED  BY <1>1, Invariance, PTL
-----------------------------------------------------------------------------
(* A change of type: what becomes of the sessions it is to replace.        *)

(* A goroutine has a session in hand for the list.                         *)
Handing(p) == pc[p] \in {"room", "load", "store", "replace", "put"} /\ new[p] # Nil

(* A request has begun to change the type.                                 *)
Underway(q) == pc[q] \in {"want", "wish", "fill", "filling"}

(* A session in hand is not in the list, nor in another hand.              *)
Distinct ==
    /\ \A i \in DOMAIN SmuxClients : SmuxClients[i] # Nil => state[SmuxClients[i]] # "none"
    /\ \A p \in Procs : Handing(p) =>
         /\ state[new[p]] # "none" /\ \A i \in DOMAIN SmuxClients : SmuxClients[i] # new[p]
         /\ \A r \in Procs \ {p} : Handing(r) => new[r] # new[p]

(* No session that a change is to replace is in hand, so none comes back;  *)
(* one that is not closed is in a slot whose worker has still to come.     *)
OldLeft(q, s) ==
    \/ state[s] = "closed"
    \/ \E i \in DOMAIN SmuxClients :
         SmuxClients[i] = s /\ (pc[q] = "filling" => pc[i - 1] # "idle")
Older(q) ==
    Underway(q) =>
      /\ \A p \in Procs : Handing(p) => new[p] \notin before[q]
      /\ \A s \in before[q] \ {Nil} : state[s] # "none" /\ OldLeft(q, s)

ChangeInv == ~raced => Distinct /\ \A q \in Requests : Older(q)

(* A step that neither makes a session nor touches the list.               *)
Quiet ==
    /\ UNCHANGED <<SmuxClients, before>> /\ (~raced' => ~raced)
    /\ \A s \in Ids : state[s] # "none" => state'[s] # "none"
    /\ \A s \in Ids : state[s] = "closed" => state'[s] = "closed"
    /\ \A r \in Procs : Handing(r)' => Handing(r) /\ new'[r] = new[r]
    /\ \A q \in Requests : Underway(q)' => Underway(q) /\ (pc'[q] = "filling" => pc[q] = "filling")
    /\ \A w \in Workers : pc'[w] = "idle" => pc[w] = "idle"

(* Slots belong to workers: the list has no more than ClientNum.           *)
LEMMA Slots ==
    ASSUME Types, Grows, ~raced
    PROVE  /\ \A i \in DOMAIN SmuxClients : i \in Nat /\ i > 0 /\ i - 1 \in Workers /\ SmuxClients[i] \in Ids \cup {Nil}
           /\ SmuxClients \in Seq(Ids \cup {Nil}) /\ Len(SmuxClients) <= ClientNum
<1>1. SmuxClients \in Seq(Ids \cup {Nil}) /\ Len(SmuxClients) <= ClientNum /\ ClientNum \in Nat
  BY Numbers DEF Types, ListTypes, Grows
<1>2. ASSUME NEW i \in DOMAIN SmuxClients  PROVE i \in Nat /\ i > 0 /\ i - 1 \in Workers /\ SmuxClients[i] \in Ids \cup {Nil}
  <2>1. i \in 1 .. Len(SmuxClients)  BY <1>1, <1>2
  <2> QED  BY <1>1, <2>1 DEF Workers
<1> QED  BY <1>1, <1>2

LEMMA Quietly ==
    ASSUME Types, Grows, ChangeInv, Quiet
    PROVE  ChangeInv'
<1> SUFFICES ASSUME ~raced'  PROVE Distinct' /\ \A q \in Requests : Older(q)'
  BY DEF ChangeInv
<1>1. ~raced /\ Distinct /\ \A q \in Requests : Older(q)  BY DEF Quiet, ChangeInv
<1>2. SmuxClients' = SmuxClients /\ before' = before  BY DEF Quiet
<1>3. new \in [Procs -> Ids \cup {Nil}] /\ before \in [Requests -> SUBSET (Ids \cup {Nil})]
  BY DEF Types, SessionTypes, ListTypes
<1>4. \A i \in DOMAIN SmuxClients : i - 1 \in Workers /\ SmuxClients[i] \in Ids \cup {Nil}
  BY <1>1, Slots
<1>5. Distinct'
  <2>1. \A i \in DOMAIN SmuxClients : SmuxClients[i] # Nil => state'[SmuxClients[i]] # "none"
    BY <1>1, <1>4 DEF Distinct, Quiet
  <2>2. ASSUME NEW p \in Procs, Handing(p)'
        PROVE  /\ state'[new'[p]] # "none" /\ \A i \in DOMAIN SmuxClients : SmuxClients[i] # new'[p]
               /\ \A r \in Procs \ {p} : Handing(r)' => new'[r] # new'[p]
    <3>1. Handing(p) /\ new'[p] = new[p]  BY <2>2 DEF Quiet
    <3>2. new[p] \in Ids  BY <1>3, <3>1 DEF Handing
    <3>3. state'[new[p]] # "none"  BY <1>1, <3>1, <3>2 DEF Distinct, Quiet
    <3>4. \A r \in Procs : Handing(r)' => Handing(r) /\ new'[r] = new[r]  BY DEF Quiet
    <3> QED  BY <1>1, <3>1, <3>3, <3>4 DEF Distinct
  <2> QED  BY <1>2, <2>1, <2>2 DEF Distinct
<1>6. ASSUME NEW q \in Requests, Underway(q)'
      PROVE  /\ \A p \in Procs : Handing(p)' => new'[p] \notin before[q]
             /\ \A s \in before[q] \ {Nil} : state'[s] # "none" /\ OldLeft(q, s)'
  <2>1. Underway(q) /\ (pc'[q] = "filling" => pc[q] = "filling") /\ Older(q)  BY <1>1, <1>6 DEF Quiet
  <2>2. \A p \in Procs : Handing(p)' => new'[p] \notin before[q]  BY <2>1 DEF Quiet, Older
  <2>3. ASSUME NEW s \in before[q] \ {Nil}  PROVE state'[s] # "none" /\ OldLeft(q, s)'
    <3>1. s \in Ids  BY <1>3, <2>3
    <3>2. state[s] # "none" /\ OldLeft(q, s)  BY <2>1, <2>3 DEF Older
    <3>3. state'[s] # "none" /\ (state[s] = "closed" => state'[s] = "closed")  BY <3>1, <3>2 DEF Quiet
    <3>4. \A w \in Workers : pc'[w] = "idle" => pc[w] = "idle"  BY DEF Quiet
    <3> QED  BY <1>2, <1>4, <2>1, <3>2, <3>3, <3>4 DEF OldLeft
  <2> QED  BY <2>2, <2>3
<1> QED  BY <1>2, <1>5, <1>6 DEF Older

(* A dial: the new session was nobody's.                                   *)
LEMMA Makes ==
    ASSUME Types, Grows, Places, ChangeInv, NEW p \in Procs, Dialled(p),
           NEW step \in {"room", "load", "put"}, Goto(p, step), pc[p] \in Rebuilding,
           UNCHANGED <<SmuxClients, before, raced>>
    PROVE  ChangeInv'
<1> SUFFICES ASSUME ~raced'  PROVE Distinct' /\ \A q \in Requests : Older(q)'
  BY DEF ChangeInv
<1>1. ~raced /\ Distinct /\ \A q \in Requests : Older(q)  BY DEF ChangeInv
<1>2. PICK new0 \in Ids : state[new0] = "none" /\ state' = [state EXCEPT ![new0] = "open"]
                          /\ new' = [new EXCEPT ![p] = new0]
  BY DEF Dialled
<1>3. /\ new \in [Procs -> Ids \cup {Nil}] /\ before \in [Requests -> SUBSET (Ids \cup {Nil})]
      /\ state \in [Ids -> {"none", "open", "lost", "closed"}] /\ pc \in [Procs -> Steps]
  BY DEF Types, SessionTypes, ListTypes, StepTypes
<1>4. \A i \in DOMAIN SmuxClients : i - 1 \in Workers /\ SmuxClients[i] \in Ids \cup {Nil}
  BY <1>1, Slots
<1>5. /\ state'[new0] = "open" /\ \A s \in Ids : s # new0 => state'[s] = state[s]
      /\ new'[p] = new0 /\ \A r \in Procs : r # p => new'[r] = new[r]
      /\ pc'[p] = step /\ \A r \in Procs : r # p => pc'[r] = pc[r]
  BY <1>2, <1>3
<1>6. \A r \in Procs : r # p => (Handing(r)' <=> Handing(r))  BY <1>5 DEF Handing
<1>7. \A r \in Procs : Handing(r) => new[r] \in Ids /\ new[r] # new0 /\ state[new[r]] # "none"
  BY <1>1, <1>2, <1>3 DEF Distinct, Handing
<1>8. \A i \in DOMAIN SmuxClients : SmuxClients[i] # new0  BY <1>1, <1>2, Numbers DEF Distinct
<1>9. Distinct'
  <2>1. \A i \in DOMAIN SmuxClients : SmuxClients[i] # Nil => state'[SmuxClients[i]] # "none"
    BY <1>1, <1>4, <1>5, <1>8 DEF Distinct
  <2>2. ASSUME NEW r \in Procs, Handing(r)'
        PROVE  /\ state'[new'[r]] # "none" /\ \A i \in DOMAIN SmuxClients : SmuxClients[i] # new'[r]
               /\ \A t \in Procs \ {r} : Handing(t)' => new'[t] # new'[r]
    <3>1. CASE r = p  BY <1>5, <1>6, <1>7, <1>8, <2>2, <3>1
    <3>2. CASE r # p
      <4>1. Handing(r) /\ new'[r] = new[r]  BY <1>5, <1>6, <2>2, <3>2
      <4>2. state'[new[r]] # "none"  BY <1>5, <1>7, <4>1
      <4>3. \A t \in Procs \ {r} : Handing(t)' => new'[t] # new[r]
        BY <1>1, <1>5, <1>6, <1>7, <4>1 DEF Distinct
      <4> QED  BY <1>1, <4>1, <4>2, <4>3 DEF Distinct
    <3> QED  BY <3>1, <3>2
  <2> QED  BY <2>1, <2>2 DEF Distinct
<1>10. ASSUME NEW q \in Requests, Underway(q)'
      PROVE  /\ \A r \in Procs : Handing(r)' => new'[r] \notin before[q]
             /\ \A s \in before[q] \ {Nil} : state'[s] # "none" /\ OldLeft(q, s)'
  <2>1. q \in Procs /\ q # p  BY <1>5, <1>10, Numbers DEF Underway
  <2>2. Underway(q) /\ pc'[q] = pc[q] /\ Older(q)  BY <1>1, <1>5, <1>10, <2>1 DEF Underway
  <2>3. \A s \in before[q] \ {Nil} : s \in Ids /\ s # new0 /\ state'[s] = state[s] /\ state[s] # "none" /\ OldLeft(q, s)
    BY <1>2, <1>3, <1>5, <2>2 DEF Older
  <2>4. \A r \in Procs : Handing(r)' => new'[r] \notin before[q]
    BY <1>5, <1>6, <2>2, <2>3, Numbers DEF Older
  <2>5. \A w \in Workers : pc'[w] = "idle" => pc[w] = "idle"  BY <1>5, Numbers
  <2> QED  BY <1>4, <2>2, <2>3, <2>4, <2>5 DEF OldLeft
<1> QED  BY <1>9, <1>10 DEF Older

(* The session in hand is appended: it is in one place again.              *)
LEMMA Lists ==
    ASSUME Types, Places, Grows, (\A p \in Procs : Made(p)), ChangeInv, NEW p \in Procs, AppendStore(p)
    PROVE  ChangeInv'
<1> SUFFICES ASSUME ~raced'  PROVE Distinct' /\ \A q \in Requests : Older(q)'
  BY DEF ChangeInv
<1>1. ~raced /\ SmuxClients' = Append(SmuxClients, new[p])  BY Stored
<1>2. Distinct /\ \A q \in Requests : Older(q)  BY <1>1 DEF ChangeInv
<1>3. /\ new \in [Procs -> Ids \cup {Nil}] /\ before \in [Requests -> SUBSET (Ids \cup {Nil})]
      /\ pc \in [Procs -> Steps]
  BY DEF Types, SessionTypes, ListTypes, StepTypes
<1>4. /\ pc[p] = "store" /\ state' = state /\ before' = before
      /\ pc'[p] \notin {"room", "load", "store", "replace", "put"} /\ ~Underway(p)'
      /\ \A r \in Procs : r # p => pc'[r] = pc[r] /\ new'[r] = new[r]
  BY <1>3 DEF AppendStore, Built, Underway
<1>5. Handing(p) /\ new[p] \in Ids /\ state[new[p]] # "none"
  BY <1>2, <1>3, <1>4 DEF Handing, Made, Distinct
<1>6. ~Handing(p)' /\ \A r \in Procs : r # p => (Handing(r)' <=> Handing(r))
  BY <1>4 DEF Handing
<1>7. SmuxClients \in Seq(Ids \cup {Nil}) /\ \A i \in DOMAIN SmuxClients : i - 1 \in Workers
  BY <1>1, Slots
<1>8. /\ DOMAIN SmuxClients' = DOMAIN SmuxClients \cup {Len(SmuxClients) + 1}
      /\ \A i \in DOMAIN SmuxClients : SmuxClients'[i] = SmuxClients[i]
      /\ SmuxClients'[Len(SmuxClients) + 1] = new[p]
  BY <1>1, <1>3, <1>7, Appended
<1>9. Distinct'
  <2>1. \A i \in DOMAIN SmuxClients' : SmuxClients'[i] # Nil => state'[SmuxClients'[i]] # "none"
    BY <1>2, <1>4, <1>5, <1>8 DEF Distinct
  <2>2. ASSUME NEW r \in Procs, Handing(r)'
        PROVE  /\ state'[new'[r]] # "none" /\ \A i \in DOMAIN SmuxClients' : SmuxClients'[i] # new'[r]
               /\ \A t \in Procs \ {r} : Handing(t)' => new'[t] # new'[r]
    <3>1. r # p /\ Handing(r) /\ new'[r] = new[r]  BY <1>4, <1>6, <2>2
    <3>2. new[p] # new[r]  BY <1>2, <1>5, <3>1 DEF Distinct
    <3> QED  BY <1>2, <1>4, <1>6, <1>8, <3>1, <3>2 DEF Distinct
  <2> QED  BY <2>1, <2>2 DEF Distinct
<1>10. ASSUME NEW q \in Requests, Underway(q)'
      PROVE  /\ \A r \in Procs : Handing(r)' => new'[r] \notin before[q]
             /\ \A s \in before[q] \ {Nil} : state'[s] # "none" /\ OldLeft(q, s)'
  <2>1. q \in Procs /\ q # p  BY <1>4, <1>10, Numbers
  <2>2. Underway(q) /\ pc'[q] = pc[q] /\ Older(q)  BY <1>2, <1>4, <1>10, <2>1 DEF Underway
  <2>3. \A s \in before[q] \ {Nil} : state[s] # "none" /\ OldLeft(q, s)  BY <2>2 DEF Older
  <2>4. \A r \in Procs : Handing(r)' => new'[r] \notin before[q]  BY <1>4, <1>6, <2>2 DEF Older
  <2>5. ASSUME NEW i \in DOMAIN SmuxClients, pc[i - 1] # "idle"  PROVE pc'[i - 1] # "idle"
    <3>1. CASE i - 1 = p
      <4>1. p \in Workers /\ no[p] = p /\ i <= Len(SmuxClients) /\ i \in Nat
        BY <1>7, <3>1 DEF Places
      <4>2. Len(SmuxClients) <= no[p]  BY <1>1, <1>4 DEF Grows, Appending
      <4> QED  BY <3>1, <4>1, <4>2, <1>7
    <3>2. CASE i - 1 # p  BY <1>4, <1>7, <2>5, <3>2, Numbers
    <3> QED  BY <3>1, <3>2
  <2> QED  BY <1>4, <1>8, <2>2, <2>3, <2>4, <2>5 DEF OldLeft
<1> QED  BY <1>4, <1>9, <1>10 DEF Older

(* The old session of a slot is closed, and the slot nil until it is put.  *)
LEMMA Replaces ==
    ASSUME Types, Places, Grows, (\A p \in Procs : Made(p)), ChangeInv, NEW p \in Procs, Replace(p)
    PROVE  ChangeInv'
<1>1. CASE UNCHANGED <<state, SmuxClients, pc, raced>>
  <2>1. Quiet  BY <1>1 DEF Replace, Quiet, Handing, Underway
  <2> QED  BY <2>1, Quietly
<1>2. CASE /\ no[p] < Len(SmuxClients) /\ Slot(no[p]) # Nil
           /\ state' = Closing(Slot(no[p]))
           /\ SmuxClients' = [SmuxClients EXCEPT ![no[p] + 1] = Nil]
           /\ Goto(p, IF conf[p] = "quic" THEN "redial" ELSE "put") /\ Overlap(p)
  <2> SUFFICES ASSUME ~raced'  PROVE Distinct' /\ \A q \in Requests : Older(q)'
    BY DEF ChangeInv
  <2>1. ~raced  BY <1>2 DEF Overlap
  <2>2. Distinct /\ \A q \in Requests : Older(q)  BY <2>1 DEF ChangeInv
  <2>3. /\ new \in [Procs -> Ids \cup {Nil}] /\ before \in [Requests -> SUBSET (Ids \cup {Nil})]
        /\ pc \in [Procs -> Steps] /\ state \in [Ids -> {"none", "open", "lost", "closed"}]
    BY DEF Types, SessionTypes, ListTypes, StepTypes
  <2>4. pc[p] = "replace" /\ new' = new /\ before' = before  BY <1>2 DEF Replace
  <2>5. no[p] + 1 \in DOMAIN SmuxClients
    BY <1>2, <2>4, Numbers DEF Types, ListTypes, StepTypes, Places, Rebuilding, Procs
  <2> DEFINE k == no[p] + 1
             old == SmuxClients[k]
  <2>6. /\ SmuxClients \in Seq(Ids \cup {Nil})
        /\ \A i \in DOMAIN SmuxClients : i - 1 \in Workers /\ SmuxClients[i] \in Ids \cup {Nil}
    BY <2>1, Slots
  <2>7. old \in Ids /\ state' = [state EXCEPT ![old] = "closed"]
    BY <1>2, <2>5, <2>6 DEF Slot, Closing
  <2>8. k \in DOMAIN SmuxClients /\ SmuxClients' = [SmuxClients EXCEPT ![k] = Nil]  BY <1>2, <2>5
  <2> HIDE DEF k
  <2>9. state'[old] = "closed" /\ \A s \in Ids : s # old => state'[s] = state[s]  BY <2>3, <2>7
  <2>10. /\ DOMAIN SmuxClients' = DOMAIN SmuxClients /\ SmuxClients'[k] = Nil
         /\ \A i \in DOMAIN SmuxClients : i # k => SmuxClients'[i] = SmuxClients[i]
    BY <2>6, <2>8
  <2> HIDE DEF old
  <2>11. /\ pc'[p] \in {"redial", "put"} /\ \A r \in Procs : r # p => pc'[r] = pc[r]
    BY <1>2, <2>3
  <2>12. \A r \in Procs : Handing(r)' => Handing(r)  BY <2>4, <2>11 DEF Handing
  <2>13. \A s \in Ids : state[s] # "none" => state'[s] # "none"  BY <2>9
  <2>14. Distinct'
    <3>1. \A i \in DOMAIN SmuxClients' : SmuxClients'[i] # Nil => state'[SmuxClients'[i]] # "none"
      BY <2>2, <2>6, <2>10, <2>13 DEF Distinct
    <3>2. ASSUME NEW r \in Procs, Handing(r)'
          PROVE  /\ state'[new[r]] # "none" /\ \A i \in DOMAIN SmuxClients' : SmuxClients'[i] # new[r]
                 /\ \A t \in Procs \ {r} : Handing(t)' => new[t] # new[r]
      <4>1. Handing(r) /\ new[r] \in Ids  BY <2>3, <2>12, <3>2 DEF Handing
      <4>2. Nil # new[r]  BY <4>1, Numbers
      <4> QED  BY <2>2, <2>10, <2>12, <2>13, <4>1, <4>2 DEF Distinct
    <3> QED  BY <2>4, <3>1, <3>2 DEF Distinct
  <2>15. ASSUME NEW q \in Requests, Underway(q)'
         PROVE  /\ \A r \in Procs : Handing(r)' => new[r] \notin before[q]
                /\ \A s \in before[q] \ {Nil} : state'[s] # "none" /\ OldLeft(q, s)'
    <3>1. q \in Procs /\ q # p  BY <2>11, <2>15, Numbers DEF Underway
    <3>2. Underway(q) /\ pc'[q] = pc[q] /\ Older(q)  BY <2>2, <2>11, <2>15, <3>1 DEF Underway
    <3>3. \A r \in Procs : Handing(r)' => new[r] \notin before[q]  BY <2>12, <3>2 DEF Older
    <3>4. ASSUME NEW s \in before[q] \ {Nil}  PROVE state'[s] # "none" /\ OldLeft(q, s)'
      <4>1. s \in Ids /\ state[s] # "none" /\ OldLeft(q, s)  BY <2>3, <3>2, <3>4 DEF Older
      <4>2. CASE s = old  BY <2>9, <4>2 DEF OldLeft
      <4>3. CASE s # old
        <5>1. state'[s] = state[s]  BY <2>9, <4>1, <4>3
        <5>2. \A i \in DOMAIN SmuxClients : SmuxClients[i] = s => i # k  BY <4>3 DEF old
        <5>3. \A i \in DOMAIN SmuxClients : pc'[i - 1] = "idle" => pc[i - 1] = "idle"
          BY <2>6, <2>11, Numbers
        <5> QED  BY <2>10, <3>2, <4>1, <5>1, <5>2, <5>3 DEF OldLeft
      <4> QED  BY <4>2, <4>3
    <3> QED  BY <3>3, <3>4
  <2> QED  BY <2>4, <2>14, <2>15 DEF Older
<1> QED  BY <1>1, <1>2 DEF Replace

(* The session in hand takes the place of nil.                             *)
LEMMA Puts ==
    ASSUME Types, Places, Grows, Locked, (\A p \in Procs : Made(p)), ChangeInv, NEW p \in Procs, Put(p)
    PROVE  ChangeInv'
<1>1. CASE UNCHANGED <<SmuxClients, pc, new, raced>>
  <2>1. Quiet  BY <1>1 DEF Put, Quiet, Handing, Underway
  <2> QED  BY <2>1, Quietly
<1>2. CASE /\ no[p] < Len(SmuxClients) /\ SmuxClients' = [SmuxClients EXCEPT ![no[p] + 1] = new[p]]
           /\ Goto(p, Built(p)) /\ Overlap(p) /\ new' = [new EXCEPT ![p] = IF p \in Workers THEN Nil ELSE @]
  <2> SUFFICES ASSUME ~raced'  PROVE Distinct' /\ \A q \in Requests : Older(q)'
    BY DEF ChangeInv
  <2>1. ~raced  BY <1>2 DEF Overlap
  <2>2. Distinct /\ \A q \in Requests : Older(q)  BY <2>1 DEF ChangeInv
  <2>3. /\ new \in [Procs -> Ids \cup {Nil}] /\ before \in [Requests -> SUBSET (Ids \cup {Nil})]
        /\ pc \in [Procs -> Steps]
    BY DEF Types, SessionTypes, ListTypes, StepTypes
  <2>4. /\ pc[p] = "put" /\ state' = state /\ before' = before
        /\ pc'[p] \notin {"room", "load", "store", "replace", "put"} /\ ~Underway(p)'
        /\ \A r \in Procs : r # p => pc'[r] = pc[r] /\ new'[r] = new[r]
    BY <1>2, <2>3 DEF Put, Built, Underway
  <2>5. Handing(p) /\ new[p] \in Ids /\ state[new[p]] # "none"
    BY <2>2, <2>3, <2>4 DEF Handing, Made, Distinct
  <2>6. ~Handing(p)' /\ \A r \in Procs : r # p => (Handing(r)' <=> Handing(r))
    BY <2>4 DEF Handing
  <2> DEFINE k == no[p] + 1
  <2>7. /\ k \in DOMAIN SmuxClients /\ SmuxClients[k] = Nil
        /\ SmuxClients' = [SmuxClients EXCEPT ![k] = new[p]]
    BY <1>2, <2>1, <2>4 DEF Locked, Holds
  <2>8. p \in Workers => k - 1 = p
    BY <2>4, Numbers DEF Places
  <2> HIDE DEF k
  <2>9. SmuxClients \in Seq(Ids \cup {Nil}) /\ \A i \in DOMAIN SmuxClients : i - 1 \in Workers /\ i \in Nat
    BY <2>1, Slots
  <2>10. /\ DOMAIN SmuxClients' = DOMAIN SmuxClients /\ SmuxClients'[k] = new[p]
         /\ \A i \in DOMAIN SmuxClients : i # k => SmuxClients'[i] = SmuxClients[i]
    BY <2>7, <2>9
  <2>11. Distinct'
    <3>1. \A i \in DOMAIN SmuxClients' : SmuxClients'[i] # Nil => state'[SmuxClients'[i]] # "none"
      BY <2>2, <2>4, <2>5, <2>10 DEF Distinct
    <3>2. ASSUME NEW r \in Procs, Handing(r)'
          PROVE  /\ state'[new'[r]] # "none" /\ \A i \in DOMAIN SmuxClients' : SmuxClients'[i] # new'[r]
                 /\ \A t \in Procs \ {r} : Handing(t)' => new'[t] # new'[r]
      <4>1. r # p /\ Handing(r) /\ new'[r] = new[r]  BY <2>4, <2>6, <3>2
      <4>2. new[p] # new[r]  BY <2>2, <2>5, <4>1 DEF Distinct
      <4> QED  BY <2>2, <2>4, <2>6, <2>10, <4>1, <4>2 DEF Distinct
    <3> QED  BY <3>1, <3>2 DEF Distinct
  <2>12. ASSUME NEW q \in Requests, Underway(q)'
        PROVE  /\ \A r \in Procs : Handing(r)' => new'[r] \notin before[q]
               /\ \A s \in before[q] \ {Nil} : state'[s] # "none" /\ OldLeft(q, s)'
    <3>1. q \in Procs /\ q # p  BY <2>4, <2>12, Numbers
    <3>2. Underway(q) /\ pc'[q] = pc[q] /\ Older(q)  BY <2>2, <2>4, <2>12, <3>1 DEF Underway
    <3>3. \A s \in before[q] \ {Nil} : state[s] # "none" /\ OldLeft(q, s) /\ s # Nil  BY <3>2 DEF Older
    <3>4. \A r \in Procs : Handing(r)' => new'[r] \notin before[q]  BY <2>4, <2>6, <3>2 DEF Older
    <3>5. \A i \in DOMAIN SmuxClients : i # k => i - 1 # p
      BY <2>7, <2>8, <2>9
    <3>6. \A i \in DOMAIN SmuxClients : i # k => pc'[i - 1] = pc[i - 1]
      BY <2>4, <2>9, <3>5, Numbers
    <3> QED  BY <2>4, <2>7, <2>10, <3>2, <3>3, <3>4, <3>6 DEF OldLeft
  <2> QED  BY <2>4, <2>11, <2>12 DEF Older
<1> QED  BY <1>1, <1>2 DEF Put

(* A change begins: what it is to replace is what is in the list.          *)
LEMMA Forgets ==
    ASSUME Types, Places, Grows, ChangeInv, NEW p \in Procs, Forget(p)
    PROVE  ChangeInv'
<1> SUFFICES ASSUME ~raced'  PROVE Distinct' /\ \A q \in Requests : Older(q)'
  BY DEF ChangeInv
<1>1. ~raced  BY DEF Forget
<1>2. Distinct /\ \A q \in Requests : Older(q)  BY <1>1 DEF ChangeInv
<1>3. before \in [Requests -> SUBSET (Ids \cup {Nil})] /\ pc \in [Procs -> Steps]
  BY DEF Types, ListTypes, StepTypes
<1>4. /\ UNCHANGED <<SmuxClients, state, new>> /\ pc[p] = "forget" /\ pc'[p] = "want"
      /\ before' = [before EXCEPT ![p] = Range0(SmuxClients)]
      /\ \A r \in Procs : r # p => pc'[r] = pc[r]
  BY <1>3 DEF Forget
<1>5. \A r \in Procs : Handing(r)' <=> Handing(r)  BY <1>4 DEF Handing
<1>6. Distinct'  BY <1>2, <1>4, <1>5 DEF Distinct
<1>7. ASSUME NEW q \in Requests, Underway(q)'
      PROVE  /\ \A r \in Procs : Handing(r)' => new'[r] \notin before'[q]
             /\ \A s \in before'[q] \ {Nil} : state'[s] # "none" /\ OldLeft(q, s)'
  <2>1. CASE q = p
    <3>1. before'[q] = Range0(SmuxClients) /\ pc'[q] # "filling"  BY <1>3, <1>4, <2>1
    <3>2. \A r \in Procs : Handing(r)' => new'[r] \notin before'[q]
      BY <1>2, <1>4, <1>5, <3>1 DEF Distinct, Range0
    <3>3. ASSUME NEW s \in before'[q] \ {Nil}  PROVE state'[s] # "none" /\ OldLeft(q, s)'
      <4>1. PICK i \in DOMAIN SmuxClients : SmuxClients[i] = s  BY <3>1, <3>3 DEF Range0
      <4>2. state[s] # "none"  BY <1>2, <3>3, <4>1 DEF Distinct
      <4> QED  BY <1>4, <3>1, <4>1, <4>2 DEF OldLeft
    <3> QED  BY <3>2, <3>3
  <2>2. CASE q # p
    <3>1. q \in Procs /\ before'[q] = before[q] /\ pc'[q] = pc[q]  BY <1>3, <1>4, <2>2, Numbers
    <3>2. Underway(q) /\ Older(q)  BY <1>2, <1>7, <3>1 DEF Underway
    <3>3. \A i \in DOMAIN SmuxClients : pc'[i - 1] = "idle" => pc[i - 1] = "idle"
      <4>1. \A i \in DOMAIN SmuxClients : i - 1 \in Workers  BY <1>1, Slots
      <4> QED  BY <1>4, <4>1, Numbers
    <3> QED  BY <1>4, <1>5, <3>1, <3>2, <3>3 DEF Older, OldLeft
  <2> QED  BY <2>1, <2>2
<1> QED  BY <1>6, <1>7 DEF Older

(* The workers start: each slot of the list has one that has still to come.*)
LEMMA Fills ==
    ASSUME Types, Places, Grows, ChangeInv, NEW p \in Procs, Fill(p)
    PROVE  ChangeInv'
<1> SUFFICES ASSUME ~raced'  PROVE Distinct' /\ \A q \in Requests : Older(q)'
  BY DEF ChangeInv
<1>1. ~raced  BY DEF Fill
<1>2. Distinct /\ \A q \in Requests : Older(q)  BY <1>1 DEF ChangeInv
<1>3. UNCHANGED <<SmuxClients, state, new, before>> /\ pc[p] = "fill"  BY DEF Fill
<1>4. /\ \A w \in Workers : pc[w] = "idle" /\ pc'[w] = "conf"
      /\ \A r \in Procs : r \notin Workers => pc'[r] \in {pc[r], "filling"}
      /\ \A r \in Procs : r \notin Workers /\ r # p => pc'[r] = pc[r]
  BY Numbers DEF Fill, AllFilled
<1>5. \A r \in Procs : Handing(r)' <=> Handing(r)
  <2>1. \A r \in Procs : r \in Workers \/ (r \notin Workers /\ (pc'[r] = pc[r] \/ r = p))  BY <1>4
  <2>2. p \notin Workers => pc'[p] \in {"fill", "filling"}  BY <1>3, <1>4
  <2> QED  BY <1>3, <1>4, <2>1, <2>2 DEF Handing
<1>6. Distinct'  BY <1>2, <1>3, <1>5 DEF Distinct
<1>7. \A i \in DOMAIN SmuxClients : pc'[i - 1] = "conf"  BY <1>1, <1>4, Slots
<1>8. \A q \in Requests : Underway(q)' => Underway(q)
  BY <1>3, <1>4, Numbers DEF Underway
<1>9. ASSUME NEW q \in Requests, Underway(q)'
      PROVE  /\ \A r \in Procs : Handing(r)' => new'[r] \notin before'[q]
             /\ \A s \in before'[q] \ {Nil} : state'[s] # "none" /\ OldLeft(q, s)'
  <2>1. Older(q) /\ Underway(q)  BY <1>2, <1>8, <1>9
  <2> QED  BY <1>3, <1>5, <1>7, <2>1 DEF Older, OldLeft
<1> QED  BY <1>6, <1>9 DEF Older

(* The other steps leave the list and who has what in hand as they are.    *)
LEMMA QuietSteps ==
    ASSUME Types, Places, (\A p \in Procs : Made(p)), NEW p \in Procs,
           \/ Conf(p) \/ Ask(p) \/ LookForRoom(p) \/ AppendLoad(p) \/ Request(p)
           \/ Want(p) \/ Wish(p) \/ Filled(p)
           \/ (Dial(p) \/ DialSlot(p) \/ Redial(p)) /\ UNCHANGED <<sessions, new>>
    PROVE  Quiet
<1> USE DEF Quiet, Handing, Underway
<1>0. /\ new \in [Procs -> Ids \cup {Nil}] /\ pc \in [Procs -> Steps]
      /\ Workers \subseteq Procs /\ Requests \subseteq Procs
  BY Numbers DEF Types, SessionTypes, StepTypes
<1>1. CASE Conf(p)  BY <1>0, <1>1 DEF Conf
<1>2. CASE Ask(p)  BY <1>0, <1>2 DEF Ask, Failed
<1>3. CASE LookForRoom(p)
  BY <1>0, <1>3 DEF LookForRoom
<1>4. CASE AppendLoad(p)  BY <1>0, <1>4 DEF AppendLoad
<1>5. CASE TakeTurn(p)  BY <1>0, <1>5 DEF TakeTurn
<1>6. CASE Pick(p)  BY <1>0, <1>6 DEF Pick, Use
<1>7. CASE Fetch(p)  BY <1>0, <1>7 DEF Fetch, Use
<1>8. CASE Check(p)  BY <1>0, <1>8 DEF Check
<1>9. CASE OpenStream(p)  BY <1>0, <1>9 DEF OpenStream
<1>10. CASE Err(p)  BY <1>0, <1>10 DEF Err, Fresh
<1>11. CASE Send(p)  BY <1>0, <1>11 DEF Send
<1>12. CASE Alive(p)  BY <1>0, <1>12 DEF Alive, Fresh
<1>13. CASE Piped(p)  BY <1>0, <1>13 DEF Piped
<1>14. CASE Want(p)  BY <1>0, <1>14 DEF Want
<1>15. CASE Wish(p)  BY <1>0, <1>15 DEF Wish
<1>16. CASE Filled(p)  BY <1>0, <1>16 DEF Filled
<1>17. CASE (Dial(p) \/ DialSlot(p) \/ Redial(p)) /\ UNCHANGED <<sessions, new>>
  <2>1. /\ UNCHANGED <<SmuxClients, before, raced, state, new>>
        /\ pc[p] \in {"dial", "dialslot", "redial"} /\ new[p] = Nil
        /\ \A r \in Procs : r # p => pc'[r] = pc[r]
    BY <1>0, <1>17 DEF Dial, DialSlot, Redial, Made
  <2>2. pc'[p] \in {"room", "conf", "err"}
    <3>1. CASE Dial(p)
      <4>1. Dialled(p) => new'[p] \in Ids  BY <1>0 DEF Dialled
      <4>2. ~Dialled(p)  BY <2>1, <4>1, Numbers
      <4> QED  BY <1>0, <3>1, <4>2 DEF Dial, Failed
    <3>2. CASE DialSlot(p) \/ Redial(p)
      <4>1. Dialled(p) => new'[p] \in Ids  BY <1>0 DEF Dialled
      <4>2. ~Dialled(p)  BY <2>1, <4>1, Numbers
      <4> QED  BY <1>0, <3>2, <4>2 DEF DialSlot, Redial, Failed
    <3> QED  BY <1>17, <3>1, <3>2
  <2> QED  BY <1>0, <2>1, <2>2
<1> QED
  BY <1>1, <1>2, <1>3, <1>4, <1>5, <1>6, <1>7, <1>8, <1>9, <1>10, <1>11, <1>12, <1>13, <1>14, <1>15,
     <1>16, <1>17 DEF Request

LEMMA QuietOthers ==
    ASSUME Types,
           \/ Ready \/ Report \/ Reset \/ UNCHANGED vars
           \/ (\E q \in Requests : Begin(q)) \/ (\E s \in Ids : Lose(s) \/ KeepAlive(s))
    PROVE  Quiet
<1> USE DEF Quiet, Handing, Underway
<1>0. pc \in [Procs -> Steps] /\ state \in [Ids -> {"none", "open", "lost", "closed"}]
      /\ Workers \subseteq Procs /\ Requests \subseteq Procs
  BY Numbers DEF Types, SessionTypes, StepTypes
<1>1. CASE Ready  BY <1>1 DEF Ready
<1>2. CASE Report  BY <1>2 DEF Report
<1>3. CASE Reset  BY <1>3 DEF Reset
<1>4. CASE UNCHANGED vars  BY <1>4 DEF vars
<1>5. ASSUME NEW q \in Requests, Begin(q)  PROVE Quiet  BY <1>0, <1>5 DEF Begin
<1>6. ASSUME NEW s \in Ids, Lose(s)  PROVE Quiet  BY <1>0, <1>6 DEF Lose
<1>7. ASSUME NEW s \in Ids, KeepAlive(s)  PROVE Quiet  BY <1>0, <1>7 DEF KeepAlive
<1> HIDE DEF Quiet
<1> QED  BY <1>1, <1>2, <1>3, <1>4, <1>5, <1>6, <1>7

LEMMA ChangeInit == Init => ChangeInv
<1> SUFFICES ASSUME Init  PROVE ChangeInv  OBVIOUS
<1>1. \A p \in Procs : pc[p] \in {"conf", "unborn"} /\ new[p] = Nil  BY DEF Init
<1>2. Requests \subseteq Procs  BY Numbers
<1> QED  BY <1>1, <1>2 DEF Init, ChangeInv, Distinct, Older, Handing, Underway

LEMMA ChangeStep ==
    ASSUME IInv, ChangeInv, [Next]_vars
    PROVE  ChangeInv'
<1>0. Types /\ Places /\ Grows /\ Locked /\ \A p \in Procs : Made(p)  BY DEF IInv
<1>1. ASSUME NEW p \in Procs, Dial(p) \/ DialSlot(p) \/ Redial(p)  PROVE ChangeInv'
  <2>1. CASE UNCHANGED <<sessions, new>>
    <3>1. Quiet  BY <1>0, <1>1, <2>1, QuietSteps
    <3> QED  BY <1>0, <3>1, Quietly
  <2>2. CASE Dialled(p) /\ \E step \in {"room", "load", "put"} : Goto(p, step)
    <3>1. UNCHANGED <<SmuxClients, before, raced>> /\ pc[p] \in Rebuilding
      BY <1>1 DEF Dial, DialSlot, Redial, Rebuilding
    <3> QED  BY <1>0, <2>2, <3>1, Makes
  <2> QED  BY <1>1, <2>1, <2>2 DEF Dial, DialSlot, Redial
<1>2. ASSUME NEW p \in Procs,
             \/ Conf(p) \/ Ask(p) \/ LookForRoom(p) \/ AppendLoad(p) \/ Request(p)
             \/ Want(p) \/ Wish(p) \/ Filled(p)
      PROVE  ChangeInv'
  <2>1. Quiet  BY <1>0, <1>2, QuietSteps
  <2> QED  BY <1>0, <2>1, Quietly
<1>3. ASSUME NEW p \in Procs, AppendStore(p) \/ Replace(p) \/ Put(p) \/ Forget(p) \/ Fill(p)
      PROVE  ChangeInv'
  BY <1>0, <1>3, Lists, Replaces, Puts, Forgets, Fills
<1>4. ASSUME NEW p \in Procs, Proc(p)  PROVE ChangeInv'
  BY <1>1, <1>2, <1>3, <1>4 DEF Proc, RebuildSmux, Change
<1>5. ASSUME Quiet  PROVE ChangeInv'  BY <1>0, <1>5, Quietly
<1> QED  BY <1>0, <1>4, <1>5, QuietOthers DEF Next

(* ChangeProxyType: unless appends overlapped, InitializationTunnels has   *)
(* closed every session the change began with when it returns, for any     *)
(* number of sessions, requests and changes under way at once.             *)
THEOREM ChangeCorrect == Spec => []ChangeClosesOld
<1>1. Spec => []ChangeInv
  <2>1. ChangeInv /\ IInv /\ [Next]_vars => ChangeInv'  BY ChangeStep
  <2> QED  BY <2>1, ChangeInit, Invariance, PTL DEF Spec
<1>2. ASSUME IInv, ChangeInv  PROVE ChangeClosesOld
  <2> SUFFICES ASSUME NEW q \in Requests, pc[q] = "filling", AllFilled, ~raced,
                      NEW s \in before[q] \ {Nil}
               PROVE  state[s] = "closed"
    BY DEF ChangeClosesOld
  <2>1. OldLeft(q, s)  BY <1>2 DEF ChangeInv, Older, Underway
  <2>2. \A i \in DOMAIN SmuxClients : pc[i - 1] = "idle"
    BY <1>2, Slots DEF IInv, AllFilled
  <2> QED  BY <2>1, <2>2 DEF OldLeft
<1> QED  BY <1>1, <1>2, Invariance, PTL
=============================================================================
