---------------------------- MODULE Relay_proofs ----------------------------
(***************************************************************************)
(* Proofs about Relay: for any capacity of the hops and any number of      *)
(* chunks the relay implements the ordered stream of module Stream.        *)
(***************************************************************************)
EXTENDS Relay, TLAPS

Moving == {"read", "write", "wait"}

(* The chunks of a queue are those numbered after t; none is beyond n.      *)
From(q, t)  == \A i \in 1..Len(q) : q[i] = t + i
Below(q, n) == \A i \in 1..Len(q) : q[i] <= n

(* How many chunks of direction d are past hop 2, and past hop 1, those    *)
(* held by a copier included.                                              *)
Held2(d) == IF pc[d][2] = "write" THEN 1 ELSE 0
Held1(d) == IF pc[d][1] \in {"write", "wait"} THEN 1 ELSE 0
Past2(d) == Len(got[d]) + Len(queue[d][3]) + Held2(d)
Past1(d) == Past2(d) + Len(queue[d][2]) + Held1(d)
Flow(d)  == Past1(d) + Len(queue[d][1])

(* Chunks bear their numbers, and no number is used before it is sent.     *)
Numbered(d) ==
    /\ From(sent[d], 0) /\ Len(got[d]) <= Len(sent[d])
    /\ Below(queue[d][1], Len(sent[d])) /\ Below(queue[d][2], Len(sent[d]))
    /\ Below(queue[d][3], Len(sent[d]))
    /\ hold[d][1] <= Len(sent[d]) /\ hold[d][2] <= Len(sent[d])
    /\ pc[d][2] # "wait"

(* From the receiver back to the sender, as far as nobody closed and every *)
(* copier still moves, what a hop holds follows what is past it.           *)
Order2(d) ==
    /\ pc[d][2] = "write" => hold[d][2] = Len(got[d]) + Len(queue[d][3]) + 1
    /\ pc[d][2] \in Moving => From(queue[d][2], Past2(d))
Order1(d) ==
    /\ pc[d][1] \in {"write", "wait"} => hold[d][1] = Past2(d) + Len(queue[d][2]) + 1
    /\ pc[d][1] \in Moving =>
         /\ From(queue[d][1], Past1(d))
         /\ side[Sender(d)] = "open" => Past1(d) + Len(queue[d][1]) = Len(sent[d])
Ordered(d) ==
    side[Receiver(d)] # "closed" =>
        /\ From(queue[d][3], Len(got[d]))
        /\ Who(d, 2) \notin closed => Order2(d) /\ (pc[d][2] \in Moving => Order1(d))

(* Nothing closes, or ends, or is last, without a reason.                  *)
Reason == lost \/ expired \/ \E s \in Sides : side[s] # "open"
Caused ==
    (closed # {} \/ \E d \in Dirs, j \in {1, 2} : pc[d][j] \in {"shut", "done"} \/ last[d][j])
        => Reason

IInv == TypeOK /\ Caused /\ \A d \in Dirs : Numbered(d) /\ Ordered(d)

-----------------------------------------------------------------------------
(* Functions of two arguments, and sequences.                              *)

LEMMA Updated ==
    ASSUME NEW D, NEW K, NEW V, NEW f \in [D -> [K -> V]], NEW d \in D, NEW k \in K, NEW v \in V
    PROVE  /\ [f EXCEPT ![d][k] = v] \in [D -> [K -> V]]
           /\ \A e \in D, m \in K :
                [f EXCEPT ![d][k] = v][e][m] = IF e = d /\ m = k THEN v ELSE f[e][m]
  OBVIOUS

LEMMA Appended ==
    ASSUME NEW q \in Seq(Nat), NEW x \in Nat
    PROVE  /\ Append(q, x) \in Seq(Nat) /\ Len(Append(q, x)) = Len(q) + 1
           /\ \A t \in Nat : From(q, t) /\ x = t + Len(q) + 1 => From(Append(q, x), t)
           /\ \A n \in Nat : Below(q, n) /\ x <= n => Below(Append(q, x), n)
<1>1. /\ Append(q, x) \in Seq(Nat) /\ Len(Append(q, x)) = Len(q) + 1
      /\ \A i \in 1..Len(q) + 1 : Append(q, x)[i] = IF i <= Len(q) THEN q[i] ELSE x
  OBVIOUS
<1>2. \A t \in Nat : From(q, t) /\ x = t + Len(q) + 1 => From(Append(q, x), t)
  BY <1>1 DEF From
<1>3. \A n \in Nat : Below(q, n) /\ x <= n => Below(Append(q, x), n)
  BY <1>1 DEF Below
<1> QED  BY <1>1, <1>2, <1>3

LEMMA Removed ==
    ASSUME NEW q \in Seq(Nat), q # <<>>
    PROVE  /\ Head(q) \in Nat /\ Tail(q) \in Seq(Nat) /\ Len(Tail(q)) = Len(q) - 1
           /\ Len(q) \in Nat \ {0}
           /\ \A t \in Nat : From(q, t) => Head(q) = t + 1 /\ From(Tail(q), t + 1)
           /\ \A n \in Nat : Below(q, n) => Head(q) <= n /\ Below(Tail(q), n)
<1>1. /\ Head(q) \in Nat /\ Tail(q) \in Seq(Nat) /\ Len(Tail(q)) = Len(q) - 1
      /\ Len(q) \in Nat \ {0} /\ Head(q) = q[1]
      /\ \A i \in 1..Len(Tail(q)) : Tail(q)[i] = q[i + 1]
  OBVIOUS
<1>2. \A t \in Nat : From(q, t) => Head(q) = t + 1 /\ From(Tail(q), t + 1)
  BY <1>1 DEF From
<1>3. \A n \in Nat : Below(q, n) => Head(q) <= n /\ Below(Tail(q), n)
  BY <1>1 DEF Below
<1> QED  BY <1>1, <1>2, <1>3

LEMMA Emptied ==
    <<>> \in Seq(Nat) /\ Len(<<>>) = 0 /\ \A t \in Nat : From(<<>>, t) /\ Below(<<>>, t)
  BY DEF From, Below

LEMMA Raised ==
    ASSUME NEW q \in Seq(Nat), NEW n \in Nat, Below(q, n)
    PROVE  Below(q, n + 1)
<1>1. \A i \in 1..Len(q) : q[i] \in Nat  OBVIOUS
<1> QED  BY <1>1 DEF Below

-----------------------------------------------------------------------------
LEMMA TypeStep == TypeOK /\ [Next]_vars => TypeOK'
<1> SUFFICES ASSUME TypeOK, [Next]_vars  PROVE TypeOK'  OBVIOUS
<1> USE DEF TypeOK, Goto, Put, copiers, apps
<1>1. ASSUME NEW d \in Dirs, Send(d)  PROVE TypeOK'
  BY <1>1 DEF Send
<1>2. ASSUME NEW d \in Dirs, Get(d)  PROVE TypeOK'
  <2>1. queue[d][3] \in Seq(Nat) /\ queue[d][3] # <<>>  BY <1>2 DEF Get
  <2>2. Head(queue[d][3]) \in Nat /\ Tail(queue[d][3]) \in Seq(Nat)  BY <2>1, Removed
  <2>3. queue' \in [Dirs -> [1..3 -> Seq(Nat)]]  BY <1>2, <2>2 DEF Get
  <2>4. got' \in [Dirs -> Seq(Nat)]  BY <1>2, <2>2 DEF Get
  <2> QED  BY <1>2, <2>3, <2>4 DEF Get
<1>3. ASSUME NEW d \in Dirs, GetEnd(d)  PROVE TypeOK'
  BY <1>3 DEF GetEnd
<1>4. ASSUME NEW d \in Dirs, NEW h \in {1, 3}, Reset(d, h)  PROVE TypeOK'
  <2>1. h \in 1..3 /\ <<>> \in Seq(Nat)  BY Emptied
  <2>2. queue' \in [Dirs -> [1..3 -> Seq(Nat)]]  BY <1>4, <2>1 DEF Reset
  <2> QED  BY <1>4, <2>2 DEF Reset
<1>5. ASSUME NEW s \in Sides, NEW to \in {"half", "closed"}, EndSide(s, to)  PROVE TypeOK'
  BY <1>5 DEF EndSide
<1>6. ASSUME Lose  PROVE TypeOK'
  BY <1>6 DEF Lose
<1>7. ASSUME NEW d \in Dirs, Expire(d)  PROVE TypeOK'
  <2>1. Goto(d, 1, "shut") \/ Goto(d, 2, "shut")  BY <1>7 DEF Expire, Expires
  <2>2. ASSUME NEW j \in {1, 2}, Goto(d, j, "shut")
        PROVE pc' \in [Dirs -> [{1, 2} -> {"read", "write", "wait", "shut", "done"}]]
    BY <2>2
  <2>3. pc' \in [Dirs -> [{1, 2} -> {"read", "write", "wait", "shut", "done"}]]  BY <2>1, <2>2
  <2> QED  BY <1>7, <2>3 DEF Expire
<1>8. ASSUME NEW d \in Dirs, NEW j \in {1, 2}, Copy(d, j)  PROVE TypeOK'
  <2>1. CASE Read(d, j)
    <3>1. j \in 1..3 /\ queue[d][j] \in Seq(Nat) /\ queue[d][j] # <<>>  BY <2>1 DEF Read
    <3>2. Head(queue[d][j]) \in Nat /\ Tail(queue[d][j]) \in Seq(Nat)  BY <3>1, Removed
    <3>3. queue' \in [Dirs -> [1..3 -> Seq(Nat)]]  BY <2>1, <3>1, <3>2 DEF Read
    <3>4. hold' \in [Dirs -> [{1, 2} -> Nat]]  BY <2>1, <3>2 DEF Read
    <3>5. PICK with \in BOOLEAN : last' = [last EXCEPT ![d][j] = with] /\ Goto(d, j, ReadOn(with))
      BY <2>1 DEF Read
    <3> QED  BY <2>1, <3>3, <3>4, <3>5 DEF Read, ReadOn
  <2>2. CASE ReadEnds(d, j)  BY <2>2 DEF ReadEnds
  <2>3. CASE Write(d, j)
    <3>1. j + 1 \in 1..3 /\ Append(queue[d][j + 1], hold[d][j]) \in Seq(Nat)  OBVIOUS
    <3>2. queue' \in [Dirs -> [1..3 -> Seq(Nat)]]  BY <2>3, <3>1 DEF Write
    <3>3. /\ pc' \in [Dirs -> [{1, 2} -> {"read", "write", "wait", "shut", "done"}]]
          /\ hold' \in [Dirs -> [{1, 2} -> Nat]] /\ last' \in [Dirs -> [{1, 2} -> BOOLEAN]]
      BY <2>3 DEF Write, Written, Onward
    <3> QED  BY <2>3, <3>2, <3>3 DEF Write
  <2>4. CASE WriteLost(d, j)  BY <2>4 DEF WriteLost, Written, Onward
  <2>5. CASE WriteFails(d, j)  BY <2>5 DEF WriteFails
  <2>6. CASE WriteWaits(d, j)  BY <2>6 DEF WriteWaits
  <2>7. CASE Shut(d, j)  BY <2>7 DEF Shut, Closing, Who, Procs
  <2> QED  BY <1>8, <2>1, <2>2, <2>3, <2>4, <2>5, <2>6, <2>7 DEF Copy
<1>9. CASE UNCHANGED vars  BY <1>9 DEF vars
<1> QED  BY <1>1, <1>2, <1>3, <1>4, <1>5, <1>6, <1>7, <1>8, <1>9 DEF Next, Environment

LEMMA TypeInit == Init => TypeOK
<1> SUFFICES ASSUME Init  PROVE TypeOK  OBVIOUS
<1> USE Emptied DEF Init
<1>1. sent \in [Dirs -> Seq(Nat)] /\ got \in [Dirs -> Seq(Nat)]  OBVIOUS
<1>2. queue \in [Dirs -> [1..3 -> Seq(Nat)]]  OBVIOUS
<1>3. pc \in [Dirs -> [{1, 2} -> {"read", "write", "wait", "shut", "done"}]]  OBVIOUS
<1>4. hold \in [Dirs -> [{1, 2} -> Nat]]  OBVIOUS
<1>5. last \in [Dirs -> [{1, 2} -> BOOLEAN]]  OBVIOUS
<1> QED  BY <1>1, <1>2, <1>3, <1>4, <1>5 DEF TypeOK

-----------------------------------------------------------------------------
LEMMA CausedStep == TypeOK /\ Caused /\ [Next]_vars => Caused'
<1> SUFFICES ASSUME TypeOK, Caused, [Next]_vars  PROVE Caused'  OBVIOUS
<1> DEFINE Quiet ==
             /\ closed' = closed
             /\ \A d \in Dirs, j \in {1, 2} :
                  /\ pc'[d][j] \in {"shut", "done"} => pc[d][j] \in {"shut", "done"}
                  /\ last'[d][j] => last[d][j]
           Kept == lost' = lost /\ expired' = expired /\ side' = side
<1>1. Quiet /\ (Reason => Reason') => Caused'  BY DEF Caused
<1>2. Reason' => Caused'  BY DEF Caused
<1>3. Kept => (Reason <=> Reason')  BY DEF Reason
<1> USE DEF copiers, apps
<1>4. ASSUME NEW d \in Dirs, Send(d) \/ Get(d) \/ GetEnd(d) \/ \E h \in {1, 3} : Reset(d, h)  PROVE Caused'
  BY <1>1, <1>3, <1>4 DEF Send, Get, GetEnd, Reset
<1>5. ASSUME NEW s \in Sides, NEW to \in {"half", "closed"}, EndSide(s, to)  PROVE Caused'
  BY <1>2, <1>5 DEF EndSide, Reason, TypeOK
<1>6. CASE Lose  BY <1>2, <1>6 DEF Lose, Reason
<1>7. ASSUME NEW d \in Dirs, Expire(d)  PROVE Caused'
  BY <1>2, <1>7 DEF Expire, Reason
<1>8. ASSUME NEW d \in Dirs, NEW j \in {1, 2}, Copy(d, j)  PROVE Caused'
  <2>0. Kept  BY <1>8 DEF Copy, Read, ReadEnds, Write, WriteLost, WriteFails, WriteWaits, Shut
  <2>1. \A h \in 1..3 : Ended(d, h) => Reason
    <3> SUFFICES ASSUME NEW h \in 1..3, Ended(d, h)  PROVE Reason  OBVIOUS
    <3>1. CASE h = 1  BY <3>1 DEF Ended, Reason, Sender, Sides
    <3>2. CASE h # 1  BY <3>2 DEF Ended, Caused
    <3> QED  BY <3>1, <3>2
  <2>2. ReaderClosed(d, 3) => Reason
    BY DEF ReaderClosed, Reason, Receiver, Sides
  <2>3. Who(d, j) \in closed => Reason  BY DEF Caused
  <2>4. CASE Read(d, j)
    <3>1. PICK with \in BOOLEAN :
            /\ with => Len(queue[d][j]) = 1 /\ Ended(d, j)
            /\ last' = [last EXCEPT ![d][j] = with]
            /\ pc' = [pc EXCEPT ![d][j] = "write"]
      BY <2>4 DEF Read, Goto, ReadOn
    <3>2. CASE with  BY <1>2, <1>3, <2>0, <2>1, <3>1, <3>2
    <3>3. CASE ~with
      <4>1. Quiet  BY <2>4, <3>1, <3>3 DEF Read, TypeOK
      <4> QED  BY <1>1, <1>3, <2>0, <4>1
    <3> QED  BY <3>2, <3>3
  <2>5. CASE ReadEnds(d, j)
    <3>1. Reason  BY <2>1, <2>3, <2>5 DEF ReadEnds, CutOff, AtEnd, Reason
    <3> QED  BY <1>2, <1>3, <2>0, <3>1
  <2>6. CASE Write(d, j) \/ WriteLost(d, j)
    <3>1. CASE last[d][j]  BY <1>2, <1>3, <2>0, <3>1 DEF Caused
    <3>2. CASE ~last[d][j]
      <4>1. pc' = [pc EXCEPT ![d][j] = "read"] /\ last' = [last EXCEPT ![d][j] = FALSE]
        BY <2>6, <3>2 DEF Write, WriteLost, Written, Onward, Goto
      <4>2. closed' = closed  BY <2>6 DEF Write, WriteLost
      <4>3. Quiet  BY <4>1, <4>2 DEF TypeOK
      <4> QED  BY <1>1, <1>3, <2>0, <4>3
    <3> QED  BY <3>1, <3>2
  <2>7. CASE WriteFails(d, j)
    <3>1. Reason  BY <2>2, <2>3, <2>7 DEF WriteFails, Reason
    <3> QED  BY <1>2, <1>3, <2>0, <3>1
  <2>8. CASE WriteWaits(d, j)
    <3>1. Quiet  BY <2>8 DEF WriteWaits, Goto, TypeOK
    <3> QED  BY <1>1, <1>3, <2>0, <3>1
  <2>9. CASE Shut(d, j)
    <3>1. Reason  BY <2>9 DEF Shut, Caused
    <3> QED  BY <1>2, <1>3, <2>0, <3>1
  <2> QED  BY <1>8, <2>4, <2>5, <2>6, <2>7, <2>8, <2>9 DEF Copy
<1>9. CASE UNCHANGED vars  BY <1>1, <1>3, <1>9 DEF vars
<1> QED  BY <1>4, <1>5, <1>6, <1>7, <1>8, <1>9 DEF Next, Environment

-----------------------------------------------------------------------------
(* The order of a direction.  A step leaves it alone, or takes one of its  *)
(* chunks a place further; and closing only ever weakens what is claimed.  *)
Same(d) ==
    /\ sent'[d] = sent[d] /\ got'[d] = got[d]
    /\ queue'[d] = queue[d] /\ pc'[d] = pc[d] /\ hold'[d] = hold[d]

Narrows ==
    /\ closed \subseteq closed'
    /\ \A s \in Sides : (side'[s] # "closed" => side[s] # "closed") /\ (side'[s] = "open" => side[s] = "open")

LEMMA Framed ==
    ASSUME NEW d \in Dirs, Same(d), Narrows, Numbered(d), Ordered(d)
    PROVE  Numbered(d)' /\ Ordered(d)'
<1>1. Numbered(d)'  BY DEF Numbered, Same
<1>2. Past2(d)' = Past2(d) /\ Past1(d)' = Past1(d)
  BY DEF Past2, Past1, Held2, Held1, Same
<1>3. Receiver(d) \in Sides /\ Sender(d) \in Sides  BY DEF Receiver, Sender, Sides
<1>4. Order2(d) => Order2(d)'  BY <1>2 DEF Order2, Same
<1>5. Order1(d) => Order1(d)'  BY <1>2, <1>3 DEF Order1, Same, Narrows
<1>6. Ordered(d)'
  <2> SUFFICES ASSUME side'[Receiver(d)] # "closed"
               PROVE  /\ From(queue'[d][3], Len(got'[d]))
                      /\ Who(d, 2) \notin closed' => Order2(d)' /\ (pc'[d][2] \in Moving => Order1(d)')
    BY DEF Ordered
  <2>1. side[Receiver(d)] # "closed"  BY <1>3 DEF Narrows
  <2> QED  BY <2>1, <1>4, <1>5 DEF Ordered, Same, Narrows
<1> QED  BY <1>1, <1>6

LEMMA Natural ==
    ASSUME TypeOK, NEW d \in Dirs
    PROVE  /\ sent[d] \in Seq(Nat) /\ got[d] \in Seq(Nat)
           /\ Len(sent[d]) \in Nat /\ Len(got[d]) \in Nat
           /\ queue[d][1] \in Seq(Nat) /\ queue[d][2] \in Seq(Nat) /\ queue[d][3] \in Seq(Nat)
           /\ Len(queue[d][1]) \in Nat /\ Len(queue[d][2]) \in Nat /\ Len(queue[d][3]) \in Nat
           /\ hold[d][1] \in Nat /\ hold[d][2] \in Nat
           /\ Held1(d) \in {0, 1} /\ Held2(d) \in {0, 1}
           /\ Past2(d) \in Nat /\ Past1(d) \in Nat
<1>1. queue[d][1] \in Seq(Nat) /\ queue[d][2] \in Seq(Nat) /\ queue[d][3] \in Seq(Nat)
  BY DEF TypeOK
<1>2. /\ sent[d] \in Seq(Nat) /\ got[d] \in Seq(Nat)
      /\ hold[d][1] \in Nat /\ hold[d][2] \in Nat
  BY DEF TypeOK
<1>3. /\ Len(sent[d]) \in Nat /\ Len(got[d]) \in Nat
      /\ Len(queue[d][1]) \in Nat /\ Len(queue[d][2]) \in Nat /\ Len(queue[d][3]) \in Nat
  BY <1>1, <1>2
<1>4. Held1(d) \in {0, 1} /\ Held2(d) \in {0, 1} /\ Held1(d) \in Nat /\ Held2(d) \in Nat
  BY DEF Held1, Held2
<1>5. \A a, b, c \in Nat : a + b + c \in Nat  OBVIOUS
<1>6. Past2(d) \in Nat  BY <1>3, <1>4, <1>5, Zenon DEF Past2
<1>7. Past1(d) \in Nat  BY <1>3, <1>4, <1>5, <1>6, Zenon DEF Past1
<1> QED  BY <1>1, <1>2, <1>3, <1>4, <1>6, <1>7

LEMMA SendOrder ==
    ASSUME TypeOK, NEW d \in Dirs, Send(d), Numbered(d), Ordered(d)
    PROVE  /\ Numbered(d)' /\ Ordered(d)'
           /\ Flow(d)' = Flow(d) + 1 /\ Len(sent'[d]) = Len(sent[d]) + 1
<1> DEFINE n == Len(sent[d]) + 1
<1>0. n \in Nat /\ Len(sent[d]) \in Nat  BY Natural
<1>1. /\ sent'[d] = Append(sent[d], n) /\ got' = got /\ side' = side /\ closed' = closed
      /\ pc' = pc /\ hold' = hold
      /\ queue'[d][1] = Append(queue[d][1], n) /\ queue'[d][2] = queue[d][2]
      /\ queue'[d][3] = queue[d][3] /\ side[Sender(d)] = "open"
  BY DEF Send, Put, TypeOK, copiers
<1>2. Past2(d)' = Past2(d) /\ Past1(d)' = Past1(d)
  BY <1>1 DEF Past2, Past1, Held2, Held1
<1>3. Len(sent'[d]) = n /\ Len(queue'[d][1]) = Len(queue[d][1]) + 1
  BY <1>0, <1>1, Natural, Appended
<1>4. Numbered(d)'
  <2>1. From(sent'[d], 0)  BY <1>0, <1>1, Natural, Appended DEF Numbered
  <2>2. Below(queue[d][1], n) /\ Below(queue[d][2], n) /\ Below(queue[d][3], n)
    BY <1>0, Natural, Raised DEF Numbered
  <2>3. Below(queue'[d][1], n)  BY <1>0, <1>1, <2>2, Natural, Appended
  <2>4. Len(got[d]) <= n /\ hold[d][1] <= n /\ hold[d][2] <= n
    BY <1>0, Natural DEF Numbered
  <2> QED  BY <1>1, <1>3, <2>1, <2>2, <2>3, <2>4 DEF Numbered
<1>5. Order2(d) => Order2(d)'  BY <1>1, <1>2 DEF Order2
<1>6. Order1(d) => Order1(d)'
  <2> SUFFICES ASSUME Order1(d), pc[d][1] \in Moving
               PROVE  /\ From(queue'[d][1], Past1(d))
                      /\ Past1(d) + Len(queue'[d][1]) = Len(sent'[d])
    BY <1>1, <1>2 DEF Order1
  <2>1. Past1(d) + Len(queue[d][1]) + 1 = n  BY <1>1, Natural DEF Order1
  <2>2. From(queue'[d][1], Past1(d))  BY <1>0, <1>1, <2>1, Natural, Appended DEF Order1
  <2> QED  BY <1>3, <2>1, <2>2, Natural
<1>7. Ordered(d)'  BY <1>1, <1>5, <1>6 DEF Ordered
<1>8. Flow(d)' = Flow(d) + 1
  <2>1. \A k, m \in Nat : k + (m + 1) = (k + m) + 1  OBVIOUS
  <2> QED  BY <1>2, <1>3, <2>1, Natural, Zenon DEF Flow
<1> QED  BY <1>0, <1>3, <1>4, <1>7, <1>8

LEMMA GetOrder ==
    ASSUME TypeOK, NEW d \in Dirs, Get(d), Numbered(d), Ordered(d)
    PROVE  /\ Numbered(d)' /\ Ordered(d)'
           /\ Head(queue[d][3]) = Len(got[d]) + 1 /\ Len(got[d]) < Len(sent[d])
           /\ Flow(d)' = Flow(d)
<1>0. queue[d][3] # <<>> /\ side[Receiver(d)] # "closed"  BY DEF Get
<1>1. /\ got'[d] = Append(got[d], Head(queue[d][3])) /\ sent' = sent /\ side' = side
      /\ closed' = closed /\ pc' = pc /\ hold' = hold
      /\ queue'[d][3] = Tail(queue[d][3]) /\ queue'[d][2] = queue[d][2] /\ queue'[d][1] = queue[d][1]
  BY DEF Get, Put, TypeOK, copiers
<1>2. From(queue[d][3], Len(got[d]))  BY <1>0 DEF Ordered
<1>3. Len(got[d]) \in Nat /\ Len(sent[d]) \in Nat /\ queue[d][3] \in Seq(Nat) /\ got[d] \in Seq(Nat)
  BY Natural
<1>4. /\ Head(queue[d][3]) = Len(got[d]) + 1 /\ Head(queue[d][3]) \in Nat
      /\ From(Tail(queue[d][3]), Len(got[d]) + 1) /\ Len(Tail(queue[d][3])) = Len(queue[d][3]) - 1
  BY <1>0, <1>2, <1>3, Removed
<1>5. Len(got'[d]) = Len(got[d]) + 1  BY <1>1, <1>3, <1>4, Appended
<1>6. Head(queue[d][3]) <= Len(sent[d]) /\ Below(queue'[d][3], Len(sent[d]))
  BY <1>0, <1>1, <1>3, Removed DEF Numbered
<1>7. Len(got[d]) < Len(sent[d])  BY <1>3, <1>4, <1>6
<1>8. Len(got'[d]) + Len(queue'[d][3]) = Len(got[d]) + Len(queue[d][3]) /\ Past2(d)' = Past2(d)
  <2>1. Held2(d)' = Held2(d)  BY <1>1 DEF Held2
  <2>2. Len(queue[d][3]) \in Nat /\ Len(queue'[d][3]) = Len(queue[d][3]) - 1
    BY <1>1, <1>4, Natural
  <2>3. \A m, n \in Nat : (m + 1) + (n - 1) = m + n  OBVIOUS
  <2>4. Len(got'[d]) + Len(queue'[d][3]) = Len(got[d]) + Len(queue[d][3])
    BY <1>3, <1>5, <2>2, <2>3, Zenon
  <2> QED  BY <2>1, <2>4 DEF Past2
<1>9. Past1(d)' = Past1(d)  BY <1>1, <1>8 DEF Past1, Held1
<1>10. Numbered(d)'
  <2>1. Len(got'[d]) <= Len(sent[d])  BY <1>3, <1>5, <1>7
  <2> QED  BY <1>1, <1>6, <2>1 DEF Numbered
<1>11. Order2(d) => Order2(d)'  BY <1>1, <1>8 DEF Order2
<1>12. Order1(d) => Order1(d)'  BY <1>1, <1>9, <1>8 DEF Order1
<1>13. Ordered(d)'  BY <1>0, <1>1, <1>4, <1>5, <1>11, <1>12 DEF Ordered
<1>14. Flow(d)' = Flow(d)  BY <1>1, <1>9 DEF Flow
<1> QED  BY <1>4, <1>7, <1>10, <1>13, <1>14

(* Copier j stops, or its chunk is lost with the connection it goes to.    *)
LEMMA StopOrder ==
    ASSUME TypeOK, NEW d \in Dirs, NEW j \in {1, 2}, Numbered(d), Ordered(d), Narrows,
           sent'[d] = sent[d], got'[d] = got[d], queue'[d] = queue[d],
           NEW x \in {"shut", "done"}, pc'[d] = [pc[d] EXCEPT ![j] = x],
           \A i \in {1, 2} : hold'[d][i] = hold[d][i] \/ (i = j /\ hold'[d][i] = 0)
    PROVE  Numbered(d)' /\ Ordered(d)'
<1>1. Receiver(d) \in Sides  BY DEF Receiver, Sides
<1>2. /\ pc'[d][j] = x /\ x \notin Moving /\ pc'[d][2] # "wait"
      /\ \A i \in {1, 2} : i # j => pc'[d][i] = pc[d][i] /\ hold'[d][i] = hold[d][i]
  BY DEF TypeOK, Numbered, Moving
<1>3. hold'[d][1] <= Len(sent[d]) /\ hold'[d][2] <= Len(sent[d])
  <2>1. Len(sent[d]) \in Nat /\ 0 <= Len(sent[d])  BY Natural
  <2> QED  BY <2>1 DEF Numbered
<1>4. Numbered(d)'  BY <1>2, <1>3 DEF Numbered
<1>5. CASE j = 2
  <2>1. pc'[d][2] \notin Moving  BY <1>2, <1>5
  <2>2. Order2(d)'  BY <2>1 DEF Order2, Moving
  <2> QED  BY <1>1, <1>4, <2>1, <2>2 DEF Ordered, Narrows
<1>6. CASE j = 1
  <2>1. pc'[d][1] \notin Moving /\ pc'[d][2] = pc[d][2] /\ hold'[d][2] = hold[d][2]
    BY <1>2, <1>6
  <2>2. Order1(d)'  BY <2>1 DEF Order1, Moving
  <2>3. Past2(d)' = Past2(d)  BY <2>1 DEF Past2, Held2
  <2>4. Order2(d) => Order2(d)'  BY <2>1, <2>3 DEF Order2
  <2> QED  BY <1>1, <1>4, <2>2, <2>4 DEF Ordered, Narrows
<1> QED  BY <1>5, <1>6

(* What Read and Write do to the places of their direction.                *)
LEMMA ReadEffect ==
    ASSUME TypeOK, NEW d \in Dirs, NEW j \in {1, 2}, Read(d, j)
    PROVE  /\ sent' = sent /\ got' = got /\ side' = side /\ closed' = closed
           /\ pc[d][j] = "read" /\ pc'[d][j] = "write" /\ hold'[d][j] = Head(queue[d][j])
           /\ queue[d][j] # <<>> /\ queue'[d][j] = Tail(queue[d][j])
           /\ \A i \in {1, 2} : i # j => pc'[d][i] = pc[d][i] /\ hold'[d][i] = hold[d][i]
           /\ \A h \in 1..3 : h # j => queue'[d][h] = queue[d][h]
<1>1. j \in 1..3  OBVIOUS
<1>2. pc' = [pc EXCEPT ![d][j] = "write"]  BY DEF Read, Goto, ReadOn
<1>3. /\ pc'[d][j] = "write" /\ \A i \in {1, 2} : i # j => pc'[d][i] = pc[d][i]
  BY <1>2 DEF TypeOK
<1>4. /\ hold'[d][j] = Head(queue[d][j]) /\ \A i \in {1, 2} : i # j => hold'[d][i] = hold[d][i]
  BY DEF Read, TypeOK
<1>5. /\ queue'[d][j] = Tail(queue[d][j]) /\ \A h \in 1..3 : h # j => queue'[d][h] = queue[d][h]
  BY <1>1 DEF Read, Put, TypeOK
<1> QED  BY <1>3, <1>4, <1>5 DEF Read, apps

LEMMA Read2Order ==
    ASSUME TypeOK, NEW d \in Dirs, Read(d, 2), Numbered(d), Ordered(d)
    PROVE  Numbered(d)' /\ Ordered(d)' /\ Flow(d)' = Flow(d)
<1>1. /\ sent' = sent /\ got' = got /\ side' = side /\ closed' = closed
      /\ pc[d][2] = "read" /\ pc'[d][2] = "write" /\ hold'[d][2] = Head(queue[d][2])
      /\ queue[d][2] # <<>> /\ queue'[d][2] = Tail(queue[d][2])
      /\ pc'[d][1] = pc[d][1] /\ hold'[d][1] = hold[d][1]
      /\ queue'[d][1] = queue[d][1] /\ queue'[d][3] = queue[d][3]
  BY ReadEffect
<1>2. /\ Head(queue[d][2]) \in Nat /\ Len(queue[d][2]) \in Nat \ {0}
      /\ Len(queue'[d][2]) = Len(queue[d][2]) - 1
      /\ Head(queue[d][2]) <= Len(sent[d]) /\ Below(queue'[d][2], Len(sent[d]))
  BY <1>1, Natural, Removed DEF Numbered
<1>3. Numbered(d)'  BY <1>1, <1>2 DEF Numbered
<1>4. /\ Past2(d) \in Nat /\ Past2(d) = Len(got[d]) + Len(queue[d][3])
      /\ Past2(d)' = Past2(d) + 1
  <2>1. Held2(d) = 0 /\ Held2(d)' = 1  BY <1>1 DEF Held2
  <2>2. \A a, b \in Nat : a + b + 0 = a + b /\ a + b + 1 = (a + b) + 1  OBVIOUS
  <2>3. Len(got[d]) \in Nat /\ Len(queue[d][3]) \in Nat  BY Natural
  <2>4. Past2(d) = Len(got[d]) + Len(queue[d][3])  BY <2>1, <2>2, <2>3, Zenon DEF Past2
  <2>5. Past2(d)' = Len(got[d]) + Len(queue[d][3]) + 1  BY <1>1, <2>1 DEF Past2
  <2> QED  BY <2>4, <2>5, Natural
<1>5. Past2(d)' + Len(queue'[d][2]) = Past2(d) + Len(queue[d][2])
  <2>1. \A m, n \in Nat : (m + 1) + (n - 1) = m + n  OBVIOUS
  <2> QED  BY <1>2, <1>4, <2>1, Zenon
<1>6. Past1(d)' = Past1(d)  BY <1>1, <1>5 DEF Past1, Held1
<1>7. Order2(d) => Order2(d)'
  <2> SUFFICES ASSUME Order2(d)  PROVE Order2(d)'  OBVIOUS
  <2>1. From(queue[d][2], Past2(d))  BY <1>1 DEF Order2, Moving
  <2>2. Head(queue[d][2]) = Past2(d) + 1 /\ From(queue'[d][2], Past2(d) + 1)
    BY <1>1, <1>4, <2>1, Natural, Removed
  <2> QED  BY <1>1, <1>4, <2>2 DEF Order2
<1>8. Order1(d) => Order1(d)'  BY <1>1, <1>5, <1>6 DEF Order1
<1>9. Ordered(d)'  BY <1>1, <1>7, <1>8 DEF Ordered, Moving
<1>10. Flow(d)' = Flow(d)  BY <1>1, <1>6 DEF Flow
<1> QED  BY <1>3, <1>9, <1>10

LEMMA Read1Order ==
    ASSUME TypeOK, NEW d \in Dirs, Read(d, 1), Numbered(d), Ordered(d)
    PROVE  Numbered(d)' /\ Ordered(d)' /\ Flow(d)' = Flow(d)
<1>1. /\ sent' = sent /\ got' = got /\ side' = side /\ closed' = closed
      /\ pc[d][1] = "read" /\ pc'[d][1] = "write" /\ hold'[d][1] = Head(queue[d][1])
      /\ queue[d][1] # <<>> /\ queue'[d][1] = Tail(queue[d][1])
      /\ pc'[d][2] = pc[d][2] /\ hold'[d][2] = hold[d][2]
      /\ queue'[d][2] = queue[d][2] /\ queue'[d][3] = queue[d][3]
  BY ReadEffect
<1>2. /\ Head(queue[d][1]) \in Nat /\ Len(queue[d][1]) \in Nat \ {0}
      /\ Len(queue'[d][1]) = Len(queue[d][1]) - 1
      /\ Head(queue[d][1]) <= Len(sent[d]) /\ Below(queue'[d][1], Len(sent[d]))
  BY <1>1, Natural, Removed DEF Numbered
<1>3. Numbered(d)'  BY <1>1, <1>2 DEF Numbered
<1>4. Past2(d)' = Past2(d)  BY <1>1 DEF Past2, Held2
<1>5. /\ Past1(d) \in Nat /\ Past1(d) = Past2(d) + Len(queue[d][2])
      /\ Past1(d)' = Past1(d) + 1
  <2>1. Held1(d) = 0 /\ Held1(d)' = 1  BY <1>1 DEF Held1
  <2>2. \A a, b \in Nat : a + b + 0 = a + b /\ a + b + 1 = (a + b) + 1  OBVIOUS
  <2>3. Past2(d) \in Nat /\ Len(queue[d][2]) \in Nat  BY Natural
  <2>4. Past1(d) = Past2(d) + Len(queue[d][2])  BY <2>1, <2>2, <2>3, Zenon DEF Past1
  <2>5. Past1(d)' = Past2(d) + Len(queue[d][2]) + 1  BY <1>1, <1>4, <2>1 DEF Past1
  <2> QED  BY <2>4, <2>5, Natural
<1>9. Past1(d)' + Len(queue'[d][1]) = Past1(d) + Len(queue[d][1])
  <2>1. \A m, n \in Nat : (m + 1) + (n - 1) = m + n  OBVIOUS
  <2> QED  BY <1>2, <1>5, <2>1, Zenon
<1>6. Order2(d) => Order2(d)'  BY <1>1, <1>4 DEF Order2
<1>7. Order1(d) => Order1(d)'
  <2> SUFFICES ASSUME Order1(d)  PROVE Order1(d)'  OBVIOUS
  <2>1. From(queue[d][1], Past1(d))  BY <1>1 DEF Order1, Moving
  <2>2. Head(queue[d][1]) = Past1(d) + 1 /\ From(queue'[d][1], Past1(d) + 1)
    BY <1>1, <1>5, <2>1, Natural, Removed
  <2>4. side[Sender(d)] = "open" => Past1(d)' + Len(queue'[d][1]) = Len(sent'[d])
    BY <1>1, <1>9 DEF Order1, Moving
  <2>5. hold'[d][1] = Past2(d)' + Len(queue'[d][2]) + 1  BY <1>1, <1>4, <1>5, <2>2
  <2> QED  BY <1>1, <1>5, <2>2, <2>4, <2>5 DEF Order1
<1>8. Ordered(d)'  BY <1>1, <1>6, <1>7 DEF Ordered
<1> QED  BY <1>3, <1>8, <1>9 DEF Flow

LEMMA WriteEffect ==
    ASSUME TypeOK, NEW d \in Dirs, NEW j \in {1, 2}, Write(d, j)
    PROVE  /\ sent' = sent /\ got' = got /\ side' = side /\ closed' = closed
           /\ pc[d][j] \in {"write", "wait"} /\ pc'[d][j] \in {"shut", "read"} /\ hold'[d][j] = 0
           /\ queue'[d][j + 1] = Append(queue[d][j + 1], hold[d][j])
           /\ \A i \in {1, 2} : i # j => pc'[d][i] = pc[d][i] /\ hold'[d][i] = hold[d][i]
           /\ \A h \in 1..3 : h # j + 1 => queue'[d][h] = queue[d][h]
<1>1. j + 1 \in 1..3  OBVIOUS
<1>2. pc' = [pc EXCEPT ![d][j] = Onward(d, j)] /\ Onward(d, j) \in {"shut", "read"}
  BY DEF Write, Written, Goto, Onward
<1>3. /\ pc'[d][j] \in {"shut", "read"} /\ \A i \in {1, 2} : i # j => pc'[d][i] = pc[d][i]
  BY <1>2 DEF TypeOK
<1>4. /\ hold'[d][j] = 0 /\ \A i \in {1, 2} : i # j => hold'[d][i] = hold[d][i]
  BY DEF Write, Written, TypeOK
<1>5. /\ queue'[d][j + 1] = Append(queue[d][j + 1], hold[d][j])
      /\ \A h \in 1..3 : h # j + 1 => queue'[d][h] = queue[d][h]
  BY <1>1 DEF Write, Put, TypeOK
<1> QED  BY <1>3, <1>4, <1>5 DEF Write, apps

LEMMA Write2Order ==
    ASSUME TypeOK, NEW d \in Dirs, Write(d, 2), Numbered(d), Ordered(d)
    PROVE  Numbered(d)' /\ Ordered(d)' /\ Flow(d)' = Flow(d)
<1>1. /\ sent' = sent /\ got' = got /\ side' = side /\ closed' = closed
      /\ pc[d][2] \in {"write", "wait"} /\ pc'[d][2] \in {"shut", "read"} /\ hold'[d][2] = 0
      /\ queue'[d][3] = Append(queue[d][3], hold[d][2])
      /\ pc'[d][1] = pc[d][1] /\ hold'[d][1] = hold[d][1]
      /\ queue'[d][1] = queue[d][1] /\ queue'[d][2] = queue[d][2]
  <2>1. 2 + 1 = 3  OBVIOUS
  <2> QED  BY <2>1, WriteEffect
<1>2. pc[d][2] = "write" /\ Who(d, 2) \notin closed  BY <1>1 DEF Numbered, Write
<1>3. /\ Len(got[d]) \in Nat /\ Len(queue[d][3]) \in Nat /\ Len(sent[d]) \in Nat /\ 0 <= Len(sent[d])
      /\ queue[d][3] \in Seq(Nat) /\ hold[d][2] \in Nat
  BY Natural
<1>4. Below(queue'[d][3], Len(sent[d])) /\ Len(queue'[d][3]) = Len(queue[d][3]) + 1
  BY <1>1, <1>3, Appended DEF Numbered
<1>5. Numbered(d)'  BY <1>1, <1>3, <1>4 DEF Numbered
<1>6. Past2(d)' = Past2(d)
  <2>1. Held2(d) = 1 /\ Held2(d)' = 0  BY <1>1, <1>2 DEF Held2
  <2>2. \A a, b \in Nat : a + (b + 1) + 0 = a + b + 1  OBVIOUS
  <2>3. Past2(d) = Len(got[d]) + Len(queue[d][3]) + 1  BY <2>1 DEF Past2
  <2>4. Past2(d)' = Len(got[d]) + (Len(queue[d][3]) + 1) + 0  BY <1>1, <1>4, <2>1 DEF Past2
  <2> QED  BY <1>3, <2>2, <2>3, <2>4, Zenon
<1>7. Past1(d)' = Past1(d)  BY <1>1, <1>6 DEF Past1, Held1
<1>8. Order2(d) => Order2(d)'  BY <1>1, <1>2, <1>6 DEF Order2, Moving
<1>9. Order1(d) => Order1(d)'  BY <1>1, <1>6, <1>7 DEF Order1
<1>10. Order2(d) /\ From(queue[d][3], Len(got[d])) => From(queue'[d][3], Len(got[d]))
  BY <1>1, <1>2, <1>3, Appended DEF Order2
<1>11. Ordered(d)'  BY <1>1, <1>2, <1>8, <1>9, <1>10 DEF Ordered, Moving
<1>12. Flow(d)' = Flow(d)  BY <1>1, <1>7 DEF Flow
<1> QED  BY <1>5, <1>11, <1>12

LEMMA Write1Order ==
    ASSUME TypeOK, NEW d \in Dirs, Write(d, 1), Numbered(d), Ordered(d)
    PROVE  Numbered(d)' /\ Ordered(d)' /\ Flow(d)' = Flow(d)
<1>1. /\ sent' = sent /\ got' = got /\ side' = side /\ closed' = closed
      /\ pc[d][1] \in {"write", "wait"} /\ pc'[d][1] \in {"shut", "read"} /\ hold'[d][1] = 0
      /\ queue'[d][2] = Append(queue[d][2], hold[d][1])
      /\ pc'[d][2] = pc[d][2] /\ hold'[d][2] = hold[d][2]
      /\ queue'[d][1] = queue[d][1] /\ queue'[d][3] = queue[d][3]
  <2>1. 1 + 1 = 2  OBVIOUS
  <2> QED  BY <2>1, WriteEffect
<1>2. /\ Past2(d) \in Nat /\ Len(queue[d][2]) \in Nat /\ Len(sent[d]) \in Nat /\ 0 <= Len(sent[d])
      /\ queue[d][2] \in Seq(Nat) /\ hold[d][1] \in Nat
  BY Natural
<1>3. Below(queue'[d][2], Len(sent[d])) /\ Len(queue'[d][2]) = Len(queue[d][2]) + 1
  BY <1>1, <1>2, Appended DEF Numbered
<1>4. Numbered(d)'  BY <1>1, <1>2, <1>3 DEF Numbered
<1>5. Past2(d)' = Past2(d)  BY <1>1 DEF Past2, Held2
<1>6. Past1(d)' = Past1(d)
  <2>1. Held1(d) = 1 /\ Held1(d)' = 0  BY <1>1 DEF Held1
  <2>2. \A a, b \in Nat : a + (b + 1) + 0 = a + b + 1  OBVIOUS
  <2>3. Past1(d) = Past2(d) + Len(queue[d][2]) + 1  BY <2>1 DEF Past1
  <2>4. Past1(d)' = Past2(d) + (Len(queue[d][2]) + 1) + 0  BY <1>1, <1>3, <1>5, <2>1 DEF Past1
  <2> QED  BY <1>2, <2>2, <2>3, <2>4, Zenon
<1>7. Order2(d) /\ (pc[d][2] \in Moving => Order1(d)) => Order2(d)'
  <2> SUFFICES ASSUME Order2(d), pc[d][2] \in Moving => Order1(d)  PROVE Order2(d)'  OBVIOUS
  <2>1. pc'[d][2] = "write" => hold'[d][2] = Len(got'[d]) + Len(queue'[d][3]) + 1
    BY <1>1 DEF Order2
  <2>2. ASSUME pc'[d][2] \in Moving  PROVE From(queue'[d][2], Past2(d))
    <3>1. hold[d][1] = Past2(d) + Len(queue[d][2]) + 1 /\ From(queue[d][2], Past2(d))
      BY <1>1, <2>2 DEF Order1, Order2
    <3> QED  BY <1>1, <1>2, <3>1, Appended
  <2> QED  BY <1>5, <2>1, <2>2 DEF Order2
<1>8. Order1(d) => Order1(d)'  BY <1>1, <1>6 DEF Order1, Moving
<1>9. Ordered(d)'  BY <1>1, <1>7, <1>8 DEF Ordered
<1>10. Flow(d)' = Flow(d)  BY <1>1, <1>6 DEF Flow
<1> QED  BY <1>4, <1>9, <1>10

(* quic: a writer that waits is still where it was.                        *)
LEMMA WaitOrder ==
    ASSUME TypeOK, NEW d \in Dirs, WriteWaits(d, 1), Numbered(d), Ordered(d)
    PROVE  Numbered(d)' /\ Ordered(d)' /\ Flow(d)' = Flow(d)
<1>1. /\ sent' = sent /\ got' = got /\ side' = side /\ closed' = closed /\ queue' = queue
      /\ hold' = hold /\ pc[d][1] = "write" /\ pc'[d][1] = "wait" /\ pc'[d][2] = pc[d][2]
  BY DEF WriteWaits, Goto, TypeOK, apps
<1>2. Numbered(d)'  BY <1>1 DEF Numbered
<1>3. Past2(d)' = Past2(d) /\ Past1(d)' = Past1(d)
  BY <1>1 DEF Past2, Past1, Held2, Held1
<1>4. Order2(d) => Order2(d)'  BY <1>1, <1>3 DEF Order2
<1>5. Order1(d) => Order1(d)'  BY <1>1, <1>3 DEF Order1, Moving
<1>6. Ordered(d)'  BY <1>1, <1>4, <1>5 DEF Ordered
<1>7. Flow(d)' = Flow(d)  BY <1>1, <1>3 DEF Flow
<1> QED  BY <1>2, <1>6, <1>7

(* A chunk is lost only behind an end that was closed.                     *)
LEMMA LostOrder ==
    ASSUME TypeOK, NEW d \in Dirs, NEW j \in {1, 2}, WriteLost(d, j), Numbered(d), Ordered(d)
    PROVE  Numbered(d)' /\ Ordered(d)'
<1>1. /\ sent' = sent /\ got' = got /\ side' = side /\ closed' = closed /\ queue' = queue
      /\ pc[d][j] = "write" /\ ReaderClosed(d, j + 1)
      /\ pc' = [pc EXCEPT ![d][j] = Onward(d, j)] /\ hold' = [hold EXCEPT ![d][j] = 0]
  BY DEF WriteLost, Written, Goto, apps
<1>2. pc'[d][2] # "wait" /\ (j = 1 => pc'[d][2] = pc[d][2])
  BY <1>1 DEF Onward, TypeOK, Numbered
<1>3. hold'[d][1] <= Len(sent[d]) /\ hold'[d][2] <= Len(sent[d])
  <2>1. Len(sent[d]) \in Nat /\ 0 <= Len(sent[d])  BY Natural
  <2> QED  BY <1>1, <2>1 DEF Numbered, TypeOK
<1>4. Numbered(d)'  BY <1>1, <1>2, <1>3 DEF Numbered
<1>5. CASE j = 1
  <2>1. Who(d, 2) \in closed'  BY <1>1, <1>5 DEF ReaderClosed
  <2> QED  BY <1>1, <1>4, <2>1 DEF Ordered
<1>6. CASE j = 2
  <2>1. side'[Receiver(d)] = "closed"  BY <1>1, <1>6 DEF ReaderClosed
  <2> QED  BY <1>4, <2>1 DEF Ordered
<1> QED  BY <1>5, <1>6

LEMMA ResetOrder ==
    ASSUME TypeOK, NEW d \in Dirs, NEW h \in {1, 3}, Reset(d, h), Numbered(d), Ordered(d)
    PROVE  Numbered(d)' /\ Ordered(d)'
<1>1. /\ sent' = sent /\ got' = got /\ side' = side /\ closed' = closed /\ pc' = pc /\ hold' = hold
      /\ queue'[d][h] = <<>> /\ \A g \in 1..3 : g # h => queue'[d][g] = queue[d][g]
      /\ ReaderClosed(Other(d), 4 - h)
  <2>1. h \in 1..3  OBVIOUS
  <2> QED  BY <2>1 DEF Reset, Put, TypeOK, apps, copiers
<1>2. Len(sent[d]) \in Nat /\ Len(got[d]) \in Nat /\ Past1(d) \in Nat  BY Natural
<1>3. Numbered(d)'
  <2>1. CASE h = 1
    <3>1. /\ queue'[d][1] = <<>> /\ queue'[d][2] = queue[d][2] /\ queue'[d][3] = queue[d][3]
      BY <1>1, <2>1
    <3> QED  BY <1>1, <1>2, <3>1, Emptied DEF Numbered
  <2>2. CASE h = 3
    <3>1. /\ queue'[d][3] = <<>> /\ queue'[d][2] = queue[d][2] /\ queue'[d][1] = queue[d][1]
      BY <1>1, <2>2
    <3> QED  BY <1>1, <1>2, <3>1, Emptied DEF Numbered
  <2> QED  BY <2>1, <2>2
<1>4. CASE h = 1
  <2>1. side'[Sender(d)] = "closed"
    BY <1>1, <1>4 DEF ReaderClosed, Other, Receiver, Sender, Dirs
  <2>2. queue'[d][1] = <<>> /\ queue'[d][2] = queue[d][2] /\ queue'[d][3] = queue[d][3]
    BY <1>1, <1>4
  <2>3. Past2(d)' = Past2(d) /\ Past1(d)' = Past1(d)
    BY <1>1, <2>2 DEF Past2, Past1, Held2, Held1
  <2>4. Order2(d) => Order2(d)'  BY <1>1, <2>2, <2>3 DEF Order2
  <2>5. Order1(d) => Order1(d)'
    BY <1>1, <1>2, <2>1, <2>2, <2>3, Emptied DEF Order1
  <2>6. Ordered(d)'  BY <1>1, <2>2, <2>4, <2>5 DEF Ordered
  <2> QED  BY <1>3, <2>6
<1>5. CASE h = 3
  <2>1. Who(d, 2) \in closed'
    BY <1>1, <1>5 DEF ReaderClosed, Other, Who, Dirs
  <2>2. From(queue'[d][3], Len(got[d]))  BY <1>1, <1>2, <1>5, Emptied
  <2>3. Ordered(d)'  BY <1>1, <2>1, <2>2 DEF Ordered
  <2> QED  BY <1>3, <2>3
<1> QED  BY <1>4, <1>5

-----------------------------------------------------------------------------
LEMMA OrderStep ==
    ASSUME TypeOK, \A d \in Dirs : Numbered(d) /\ Ordered(d), [Next]_vars
    PROVE  \A d \in Dirs : Numbered(d)' /\ Ordered(d)'
<1> DEFINE Good(e) == Numbered(e)' /\ Ordered(e)'
<1>1. ASSUME NEW e \in Dirs, Same(e), Narrows  PROVE Good(e)
  BY <1>1, Framed
<1>2. ASSUME NEW d \in Dirs, Send(d), NEW e \in Dirs  PROVE Good(e)
  <2>1. CASE e = d  BY <1>2, <2>1, SendOrder
  <2>2. CASE e # d
    <3>1. Same(e) /\ Narrows  BY <1>2, <2>2 DEF Send, Put, TypeOK, copiers, Same, Narrows
    <3> QED  BY <1>1, <3>1
  <2> QED  BY <2>1, <2>2
<1>3. ASSUME NEW d \in Dirs, Get(d), NEW e \in Dirs  PROVE Good(e)
  <2>1. CASE e = d  BY <1>3, <2>1, GetOrder
  <2>2. CASE e # d
    <3>1. Same(e) /\ Narrows  BY <1>3, <2>2 DEF Get, Put, TypeOK, copiers, Same, Narrows
    <3> QED  BY <1>1, <3>1
  <2> QED  BY <2>1, <2>2
<1>4. ASSUME NEW d \in Dirs, NEW h \in {1, 3}, Reset(d, h), NEW e \in Dirs  PROVE Good(e)
  <2>1. CASE e = d  BY <1>4, <2>1, ResetOrder
  <2>2. CASE e # d
    <3>1. Same(e) /\ Narrows
      BY <1>4, <2>2 DEF Reset, Put, TypeOK, apps, copiers, Same, Narrows
    <3> QED  BY <1>1, <3>1
  <2> QED  BY <2>1, <2>2
<1>5. ASSUME NEW e \in Dirs,
             \/ \E d \in Dirs : GetEnd(d)
             \/ \E s \in Sides, to \in {"half", "closed"} : EndSide(s, to)
             \/ Lose \/ UNCHANGED vars
      PROVE  Good(e)
  <2>1. Same(e)
    BY <1>5 DEF GetEnd, EndSide, Lose, vars, apps, copiers, Same
  <2>2. Narrows
    <3>1. CASE \E s \in Sides, to \in {"half", "closed"} : EndSide(s, to)
      BY <3>1 DEF EndSide, TypeOK, Narrows
    <3>2. CASE ~ \E s \in Sides, to \in {"half", "closed"} : EndSide(s, to)
      BY <1>5, <3>2 DEF GetEnd, Lose, vars, apps, Narrows
    <3> QED  BY <3>1, <3>2
  <2> QED  BY <1>1, <2>1, <2>2
<1>6. ASSUME NEW d \in Dirs, NEW j \in {1, 2}, NEW e \in Dirs,
             NEW x \in {"shut", "done"}, Goto(d, j, x),
             sent' = sent, got' = got, side' = side, queue' = queue, closed \subseteq closed',
             hold' = hold \/ hold' = [hold EXCEPT ![d][j] = 0]
      PROVE  Good(e)
  <2>1. Narrows  BY <1>6 DEF Narrows
  <2>2. CASE e = d
    <3>1. pc'[d] = [pc[d] EXCEPT ![j] = x]  BY <1>6 DEF Goto, TypeOK
    <3>2. \A i \in {1, 2} : hold'[d][i] = hold[d][i] \/ (i = j /\ hold'[d][i] = 0)
      BY <1>6 DEF TypeOK
    <3>3. sent'[d] = sent[d] /\ got'[d] = got[d] /\ queue'[d] = queue[d]  BY <1>6
    <3> QED  BY <2>1, <2>2, <3>1, <3>2, <3>3, StopOrder
  <2>3. CASE e # d
    <3>1. Same(e)  BY <1>6, <2>3 DEF Goto, TypeOK, Same
    <3> QED  BY <1>1, <2>1, <3>1
  <2> QED  BY <2>2, <2>3
<1>7. ASSUME NEW d \in Dirs, Expire(d), NEW e \in Dirs  PROVE Good(e)
  <2>1. PICK j \in {1, 2} : Goto(d, j, "shut")  BY <1>7 DEF Expire, Expires
  <2> QED  BY <1>6, <1>7, <2>1 DEF Expire, apps
<1>8. ASSUME NEW d \in Dirs, NEW j \in {1, 2}, Copy(d, j), NEW e \in Dirs  PROVE Good(e)
  <2>1. CASE ReadEnds(d, j)  BY <1>6, <2>1 DEF ReadEnds, apps
  <2>2. CASE WriteFails(d, j)  BY <1>6, <2>2 DEF WriteFails, apps
  <2>3. CASE Shut(d, j)  BY <1>6, <2>3 DEF Shut, Closing, apps
  <2>4. CASE e = d /\ (Read(d, j) \/ Write(d, j) \/ WriteLost(d, j) \/ WriteWaits(d, j))
    <3>1. Read(d, j) => Good(e)  BY <2>4, Read1Order, Read2Order
    <3>2. Write(d, j) => Good(e)  BY <2>4, Write1Order, Write2Order
    <3>3. WriteLost(d, j) => Good(e)  BY <2>4, LostOrder
    <3>4. WriteWaits(d, j) => j = 1  BY DEF WriteWaits
    <3>5. WriteWaits(d, j) => Good(e)  BY <2>4, <3>4, WaitOrder
    <3> QED  BY <2>4, <3>1, <3>2, <3>3, <3>5
  <2>5. CASE e # d /\ (Read(d, j) \/ Write(d, j) \/ WriteLost(d, j) \/ WriteWaits(d, j))
    <3>1. /\ sent' = sent /\ got' = got /\ side' = side /\ closed' = closed
          /\ queue'[e] = queue[e] /\ pc'[e] = pc[e] /\ hold'[e] = hold[e]
      BY <2>5 DEF Read, Write, WriteLost, WriteWaits, Written, Goto, Put, TypeOK, apps
    <3> QED  BY <1>1, <3>1 DEF Same, Narrows
  <2> QED  BY <1>8, <2>1, <2>2, <2>3, <2>4, <2>5 DEF Copy
<1> QED  BY <1>2, <1>3, <1>4, <1>5, <1>7, <1>8 DEF Next, Environment

-----------------------------------------------------------------------------
LEMMA InvInit == Init => IInv
<1> SUFFICES ASSUME Init  PROVE IInv  OBVIOUS
<1>1. TypeOK  BY TypeInit
<1>2. Caused  BY DEF Init, Caused
<1>3. ASSUME NEW d \in Dirs  PROVE Numbered(d) /\ Ordered(d)
  <2>1. /\ sent[d] = <<>> /\ got[d] = <<>> /\ hold[d][1] = 0 /\ hold[d][2] = 0
        /\ queue[d][1] = <<>> /\ queue[d][2] = <<>> /\ queue[d][3] = <<>>
        /\ pc[d][1] = "read" /\ pc[d][2] = "read"
    BY DEF Init
  <2>2. Len(<<>>) = 0 /\ 0 \in Nat /\ From(<<>>, 0) /\ Below(<<>>, 0) /\ 0 + 0 + 0 = 0 /\ 0 <= 0 /\ 0 + 0 = 0
    BY Emptied
  <2>3. Numbered(d)  BY <2>1, <2>2 DEF Numbered
  <2>4. Past2(d) = 0 /\ Past1(d) = 0
    <3>1. Held2(d) = 0 /\ Held1(d) = 0  BY <2>1 DEF Held2, Held1
    <3>2. Past2(d) = 0  BY <2>1, <2>2, <3>1 DEF Past2
    <3> QED  BY <2>1, <2>2, <3>1, <3>2 DEF Past1
  <2>5. Order2(d) /\ Order1(d)  BY <2>1, <2>2, <2>4 DEF Order2, Order1
  <2> QED  BY <2>1, <2>2, <2>3, <2>5 DEF Ordered
<1> QED  BY <1>1, <1>2, <1>3 DEF IInv

LEMMA InvStep == IInv /\ [Next]_vars => IInv'
<1> SUFFICES ASSUME IInv, [Next]_vars  PROVE IInv'  OBVIOUS
<1>1. TypeOK'  BY TypeStep DEF IInv
<1>2. Caused'  BY CausedStep DEF IInv
<1>3. \A d \in Dirs : Numbered(d)' /\ Ordered(d)'  BY OrderStep DEF IInv
<1> QED  BY <1>1, <1>2, <1>3 DEF IInv

(* The inductive invariant of the relay.                                   *)
THEOREM Invariance == Spec => []IInv
  BY InvInit, InvStep, PTL DEF Spec

(* Every variable keeps its type; the chunks a copier holds and a hop      *)
(* keeps are numbers of chunks, whatever the copiers close.                *)
THEOREM TypeCorrect == Spec => []TypeOK
<1>1. IInv => TypeOK  BY DEF IInv
<1> QED  BY <1>1, Invariance, PTL

(* Pipe: a copier ends, and closes both connections, only if the session   *)
(* was lost, a deadline passed or one of the two applications had ended.   *)
THEOREM EndsForReason == Spec => []Caused
<1>1. IInv => Caused  BY DEF IInv
<1> QED  BY <1>1, Invariance, PTL

-----------------------------------------------------------------------------
(* Every step of the relay is a step of the stream, or leaves it alone.    *)
LEMMA StreamStep == IInv /\ [Next]_vars => [Promise!SNext]_(Promise!svars)
<1> SUFFICES ASSUME IInv, [Next]_vars  PROVE [Promise!SNext]_(Promise!svars)
  OBVIOUS
<1> USE DEF Promise!svars
<1>0. TypeOK /\ Caused /\ \A d \in Dirs : Numbered(d) /\ Ordered(d)  BY DEF IInv
<1>a. Promise!Dirs = Dirs /\ Promise!Sides = Sides
  BY DEF Promise!Dirs, Promise!Sides, Dirs, Sides
<1>b. \A d : Promise!Sender(d) = Sender(d) /\ Promise!Receiver(d) = Receiver(d)
  BY DEF Promise!Sender, Promise!Receiver, Sender, Receiver
<1>1. ASSUME NEW d \in Dirs, Send(d)  PROVE Promise!SNext
  <2>1. Promise!SSend(d)  BY <1>1, <1>b DEF Promise!SSend, Send
  <2> QED  BY <1>a, <2>1 DEF Promise!SNext
<1>2. ASSUME NEW d \in Dirs, Get(d)  PROVE Promise!SNext
  <2>1. Head(queue[d][3]) = Len(got[d]) + 1 /\ Len(got[d]) < Len(sent[d])
    BY <1>0, <1>2, GetOrder
  <2>2. sent[d] \in Seq(Nat) /\ Len(got[d]) \in Nat /\ Len(sent[d]) \in Nat  BY <1>0, Natural
  <2>3. sent[d][Len(got[d]) + 1] = Len(got[d]) + 1
    <3>1. Len(got[d]) + 1 \in 1..Len(sent[d])  BY <2>1, <2>2
    <3>2. From(sent[d], 0)  BY <1>0 DEF Numbered
    <3> QED  BY <2>2, <3>1, <3>2 DEF From
  <2>4. Head(queue[d][3]) = sent[d][Len(got[d]) + 1]  BY <2>1, <2>3
  <2>5. got' = [got EXCEPT ![d] = Append(got[d], sent[d][Len(got[d]) + 1])]
    BY <1>2, <2>4 DEF Get
  <2>6. Promise!SGet(d)  BY <1>2, <1>b, <2>1, <2>5 DEF Promise!SGet, Get
  <2> QED  BY <1>a, <2>6 DEF Promise!SNext
<1>3. ASSUME NEW d \in Dirs, GetEnd(d)  PROVE Promise!SNext
  <2>1. closed # {}  BY <1>3 DEF GetEnd, Ended
  <2>2. Reason  BY <1>0, <2>1 DEF Caused
  <2>3. Promise!STell(d)  BY <1>3, <1>a, <2>2 DEF Promise!STell, GetEnd, Reason
  <2> QED  BY <1>a, <2>3 DEF Promise!SNext
<1>4. ASSUME NEW s \in Sides, NEW to \in {"half", "closed"}, EndSide(s, to)  PROVE Promise!SNext
  <2>1. Promise!SEnd(s, to)  BY <1>4 DEF Promise!SEnd, EndSide
  <2> QED  BY <1>a, <2>1 DEF Promise!SNext
<1>5. ASSUME Lose \/ \E d \in Dirs : Expire(d)  PROVE Promise!SNext
  <2>1. Promise!SCut  BY <1>5 DEF Promise!SCut, Lose, Expire, apps
  <2> QED  BY <2>1 DEF Promise!SNext
<1>6. ASSUME \/ \E d \in Dirs, h \in {1, 3} : Reset(d, h)
             \/ \E d \in Dirs, j \in {1, 2} : Copy(d, j)
             \/ UNCHANGED vars
      PROVE  UNCHANGED Promise!svars
  BY <1>6 DEF Reset, Copy, Read, ReadEnds, Write, WriteLost, WriteFails, WriteWaits, Shut, vars, apps
<1> QED  BY <1>1, <1>2, <1>3, <1>4, <1>5, <1>6 DEF Next, Environment

(* Pipe, four times: for any capacity of the hops and any number of        *)
(* chunks, the relay implements the ordered stream of Stream, with the     *)
(* session lost or a deadline passed for its cut.                          *)
THEOREM Implementation == Spec => Implements
<1>1. Init => Promise!SInit
  BY DEF Init, Promise!SInit, Promise!Dirs, Promise!Sides, Dirs, Sides
<1> QED  BY <1>1, Invariance, StreamStep, PTL DEF Spec, Implements, Promise!SSpec
-----------------------------------------------------------------------------
(* Whether the whole answer arrives.  What is on its way in a direction    *)
(* never exceeds what was sent, and falls short of it only when a chunk is *)
(* lost.  Nothing of the answer is lost as long as the program stays open, *)
(* no session is lost, no deadline passed, and no socket was closed with   *)
(* something of the request unread.                                        *)
Stopped(d, j) == pc[d][j] \in {"shut", "done"} \/ last[d][j]

UnheardRequest == side["remote"] = "closed" /\ Len(got["up"]) < Len(sent["up"])
UnreadRequest  == "client" \in closed /\ queue["up"][1] # <<>>

Undisturbed ==
    side["program"] = "open" /\ ~lost /\ ~expired /\ ~UnheardRequest /\ ~UnreadRequest

(* Then the end follows the answer: the remote ends, the server's copier   *)
(* of the answer stops with nothing left to read, then the client's, and   *)
(* only then the two copiers of the request.                               *)
EndFollows ==
    /\ Stopped("down", 1) => side["remote"] # "open" /\ queue["down"][1] = <<>>
    /\ "server" \in closed \/ Stopped("up", 2) => pc["down"][1] = "done"
    /\ Stopped("down", 2) => "server" \in closed /\ queue["down"][2] = <<>>
    /\ "client" \in closed \/ Stopped("up", 1) => pc["down"][2] = "done"
    /\ told["down"] => side["remote"] # "open" /\ Len(got["down"]) = Len(sent["down"])

AnswerInv ==
    /\ \A d \in Dirs : Flow(d) <= Len(sent[d]) /\ From(got[d], 0)
    /\ Undisturbed => Flow("down") = Len(sent["down"]) /\ EndFollows

Loses(d) ==
    \/ \E h \in {1, 3} : Reset(d, h)
    \/ \E j \in {1, 2} : WriteLost(d, j) \/ WriteFails(d, j)

LEMMA Places ==
    /\ Who("down", 1) = "server" /\ Who("down", 2) = "client"
    /\ Who("up", 1) = "client" /\ Who("up", 2) = "server"
    /\ Sender("down") = "remote" /\ Receiver("down") = "program"
    /\ Sender("up") = "program" /\ Receiver("up") = "remote"
    /\ Other("down") = "up" /\ Other("up") = "down"
    /\ "up" \in Dirs /\ "down" \in Dirs /\ "program" \in Sides /\ "remote" \in Sides
BY DEF Who, Sender, Receiver, Other, Dirs, Sides

(* A chunk that is lost makes the flow smaller.                            *)
LEMMA LosesFlow ==
    ASSUME TypeOK, NEW d \in Dirs, Loses(d)
    PROVE  Flow(d)' <= Flow(d) /\ Flow(d)' \in Nat /\ sent' = sent
<1>1. /\ Len(got[d]) \in Nat /\ Len(queue[d][3]) \in Nat /\ Len(queue[d][2]) \in Nat
      /\ Len(queue[d][1]) \in Nat /\ Held1(d) \in {0, 1} /\ Held2(d) \in {0, 1}
  BY Natural
<1>2. ASSUME got' = got, queue'[d][2] = queue[d][2],
             Len(queue'[d][3]) \in {0, Len(queue[d][3])}, Len(queue'[d][1]) \in {0, Len(queue[d][1])},
             Held2(d)' \in {0, Held2(d)}, Held1(d)' \in {0, Held1(d)}
      PROVE  Flow(d)' <= Flow(d) /\ Flow(d)' \in Nat
  <2>1. \A x, y, u, v \in Nat : x <= y /\ u <= v => x + u \in Nat /\ y + v \in Nat /\ x + u <= y + v
    OBVIOUS
  <2>2. Len(queue'[d][3]) \in Nat /\ Len(queue'[d][3]) <= Len(queue[d][3])  BY <1>1, <1>2
  <2>3. Len(queue'[d][1]) \in Nat /\ Len(queue'[d][1]) <= Len(queue[d][1])  BY <1>1, <1>2
  <2>4. Held2(d) \in Nat /\ Held2(d)' \in Nat /\ Held2(d)' <= Held2(d)  BY <1>1, <1>2
  <2>5. Held1(d) \in Nat /\ Held1(d)' \in Nat /\ Held1(d)' <= Held1(d)  BY <1>1, <1>2
  <2>6. Len(got[d]) <= Len(got[d]) /\ Len(queue[d][2]) <= Len(queue[d][2])  BY <1>1
  <2>7. /\ Len(got[d]) + Len(queue'[d][3]) \in Nat /\ Len(got[d]) + Len(queue[d][3]) \in Nat
        /\ Len(got[d]) + Len(queue'[d][3]) <= Len(got[d]) + Len(queue[d][3])
    BY <1>1, <2>1, <2>2, <2>6, Zenon
  <2>8. Past2(d)' \in Nat /\ Past2(d) \in Nat /\ Past2(d)' <= Past2(d)
    <3> DEFINE x == Len(got[d]) + Len(queue'[d][3])  y == Len(got[d]) + Len(queue[d][3])
    <3>1. x \in Nat /\ y \in Nat /\ x <= y  BY <2>7
    <3>2. Past2(d)' = x + Held2(d)' /\ Past2(d) = y + Held2(d)  BY <1>2 DEF Past2
    <3> HIDE DEF x, y
    <3> QED  BY <2>4, <3>1, <3>2
  <2>9. /\ Past2(d)' + Len(queue[d][2]) \in Nat /\ Past2(d) + Len(queue[d][2]) \in Nat
        /\ Past2(d)' + Len(queue[d][2]) <= Past2(d) + Len(queue[d][2])
    BY <1>1, <2>1, <2>6, <2>8, Zenon
  <2>10. Past1(d)' \in Nat /\ Past1(d) \in Nat /\ Past1(d)' <= Past1(d)
    <3>1. Past1(d)' = Past2(d)' + Len(queue[d][2]) + Held1(d)'  BY <1>2 DEF Past1
    <3>2. Past1(d) = Past2(d) + Len(queue[d][2]) + Held1(d)  BY DEF Past1
    <3>3. /\ Past2(d)' + Len(queue[d][2]) + Held1(d)' \in Nat
          /\ Past2(d) + Len(queue[d][2]) + Held1(d) \in Nat
          /\ Past2(d)' + Len(queue[d][2]) + Held1(d)' <= Past2(d) + Len(queue[d][2]) + Held1(d)
      BY <2>5, <2>9
    <3> QED  BY <3>1, <3>2, <3>3, Zenon
  <2> QED  BY <1>1, <2>1, <2>3, <2>10, Zenon DEF Flow
<1>3. ASSUME NEW h \in {1, 3}, Reset(d, h)  PROVE  Flow(d)' <= Flow(d) /\ Flow(d)' \in Nat /\ sent' = sent
  <2>1. h \in 1..3 /\ 2 \in 1..3 /\ 1 \in 1..3 /\ 3 \in 1..3  OBVIOUS
  <2>2. /\ got' = got /\ sent' = sent /\ pc' = pc
        /\ queue'[d][h] = <<>> /\ \A g \in 1..3 : g # h => queue'[d][g] = queue[d][g]
    BY <1>3, <2>1 DEF Reset, Put, TypeOK, apps, copiers
  <2>3. Held1(d)' = Held1(d) /\ Held2(d)' = Held2(d)  BY <2>2 DEF Held1, Held2
  <2>4. /\ Len(queue'[d][3]) \in {0, Len(queue[d][3])} /\ Len(queue'[d][1]) \in {0, Len(queue[d][1])}
        /\ queue'[d][2] = queue[d][2]
    BY <2>1, <2>2, Emptied
  <2> QED  BY <1>2, <2>2, <2>3, <2>4
<1>4. ASSUME NEW j \in {1, 2}, WriteLost(d, j) \/ WriteFails(d, j)
      PROVE  Flow(d)' <= Flow(d) /\ Flow(d)' \in Nat /\ sent' = sent
  <2>1. got' = got /\ sent' = sent /\ queue' = queue  BY <1>4 DEF WriteLost, WriteFails, apps
  <2>2. pc'[d][j] \in {"read", "shut"} /\ \A i \in {1, 2} : i # j => pc'[d][i] = pc[d][i]
    BY <1>4 DEF WriteLost, WriteFails, Written, Onward, Goto, TypeOK
  <2>3. Held1(d)' \in {0, Held1(d)} /\ Held2(d)' \in {0, Held2(d)}
    BY <2>2 DEF Held1, Held2
  <2>4. /\ Len(queue'[d][3]) \in {0, Len(queue[d][3])} /\ Len(queue'[d][1]) \in {0, Len(queue[d][1])}
        /\ queue'[d][2] = queue[d][2]
    BY <2>1
  <2>5. Flow(d)' <= Flow(d) /\ Flow(d)' \in Nat  BY <1>2, <2>1, <2>3, <2>4
  <2> QED  BY <2>1, <2>5
<1> QED  BY <1>3, <1>4 DEF Loses

(* No other step changes the flow but by what it sends.                    *)
LEMMA FlowStep ==
    ASSUME IInv, [Next]_vars, NEW d \in Dirs
    PROVE  \/ Flow(d)' = Flow(d) /\ sent'[d] = sent[d]
           \/ Flow(d)' = Flow(d) + 1 /\ Len(sent'[d]) = Len(sent[d]) + 1
           \/ Loses(d)
<1> DEFINE Even == Flow(d)' = Flow(d) /\ sent'[d] = sent[d]
<1>0. TypeOK /\ \A e \in Dirs : Numbered(e) /\ Ordered(e)  BY DEF IInv
<1>1. Same(d) => Even  BY DEF Same, Flow, Past1, Past2, Held1, Held2
<1>2. ASSUME NEW e \in Dirs, Send(e)
      PROVE  Even \/ (Flow(d)' = Flow(d) + 1 /\ Len(sent'[d]) = Len(sent[d]) + 1)
  <2>1. CASE e = d  BY <1>0, <1>2, <2>1, SendOrder
  <2>2. CASE e # d
    BY <1>0, <1>1, <1>2, <2>2 DEF Send, Put, TypeOK, copiers, Same
  <2> QED  BY <2>1, <2>2
<1>3. ASSUME NEW e \in Dirs, Get(e)  PROVE Even
  <2>1. CASE e = d
    <3>1. sent' = sent  BY <1>3 DEF Get
    <3> QED  BY <1>0, <1>3, <2>1, <3>1, GetOrder
  <2>2. CASE e # d  BY <1>0, <1>1, <1>3, <2>2 DEF Get, Put, TypeOK, copiers, Same
  <2> QED  BY <2>1, <2>2
<1>4. ASSUME NEW e \in Dirs, NEW h \in {1, 3}, Reset(e, h)  PROVE Even \/ Loses(d)
  <2>1. CASE e = d  BY <1>4, <2>1 DEF Loses
  <2>2. CASE e # d  BY <1>0, <1>1, <1>4, <2>2 DEF Reset, Put, TypeOK, apps, copiers, Same
  <2> QED  BY <2>1, <2>2
<1>5. ASSUME \/ \E e \in Dirs : GetEnd(e)
             \/ \E s \in Sides, to \in {"half", "closed"} : EndSide(s, to)
             \/ Lose \/ UNCHANGED vars
      PROVE  Even
  BY <1>1, <1>5 DEF GetEnd, EndSide, Lose, vars, apps, copiers, Same
<1>6. ASSUME NEW e \in Dirs, NEW j \in {1, 2}, NEW x \in {"shut", "done"}, Goto(e, j, x),
             pc[e][j] \in {"read", "shut"}, UNCHANGED <<sent, got, queue>>
      PROVE  Even
  <2>1. pc'[e][j] = x /\ \A f \in Dirs, i \in {1, 2} : f # e \/ i # j => pc'[f][i] = pc[f][i]
    BY <1>0, <1>6 DEF Goto, TypeOK
  <2>2. Held1(d)' = Held1(d) /\ Held2(d)' = Held2(d)  BY <1>6, <2>1 DEF Held1, Held2
  <2> QED  BY <1>6, <2>2 DEF Flow, Past1, Past2
<1>7. ASSUME NEW e \in Dirs, Expire(e)  PROVE Even
  <2>1. PICK j \in {1, 2} : Goto(e, j, "shut") /\ pc[e][j] = "read"
    BY <1>7 DEF Expire, Expires
  <2> QED  BY <1>6, <1>7, <2>1 DEF Expire, apps
<1>8. ASSUME NEW e \in Dirs, NEW j \in {1, 2}, Copy(e, j)  PROVE Even \/ Loses(d)
  <2>1. CASE ReadEnds(e, j)  BY <1>6, <2>1 DEF ReadEnds, apps
  <2>2. CASE Shut(e, j)  BY <1>6, <2>2 DEF Shut, apps
  <2>3. CASE e = d /\ (Read(d, j) \/ Write(d, j) \/ WriteWaits(d, j))
    <3>1. sent' = sent  BY <2>3 DEF Read, Write, WriteWaits, apps
    <3>2. Read(d, j) => Even  BY <1>0, <3>1, Read1Order, Read2Order
    <3>3. Write(d, j) => Even  BY <1>0, <3>1, Write1Order, Write2Order
    <3>4. WriteWaits(d, j) => j = 1  BY DEF WriteWaits
    <3>5. WriteWaits(d, j) => Even  BY <1>0, <3>1, <3>4, WaitOrder
    <3> QED  BY <2>3, <3>2, <3>3, <3>5
  <2>4. CASE e = d /\ (WriteLost(d, j) \/ WriteFails(d, j))  BY <2>4 DEF Loses
  <2>5. CASE e # d /\ (Read(e, j) \/ Write(e, j) \/ WriteLost(e, j) \/ WriteFails(e, j) \/ WriteWaits(e, j))
    <3>1. /\ sent' = sent /\ got' = got
          /\ queue'[d] = queue[d] /\ pc'[d] = pc[d] /\ hold'[d] = hold[d]
      BY <1>0, <2>5 DEF Read, Write, WriteLost, WriteFails, WriteWaits, Written, Goto, Put, TypeOK, apps
    <3> QED  BY <1>1, <3>1 DEF Same
  <2> QED  BY <1>8, <2>1, <2>2, <2>3, <2>4, <2>5 DEF Copy
<1> QED  BY <1>2, <1>3, <1>4, <1>5, <1>7, <1>8 DEF Next, Environment

(* Only Send sends, only Get gets, only EndSide changes a side, and what   *)
(* is lost, expired or closed stays so.                                    *)
LEMMA Steady ==
    ASSUME [Next]_vars
    PROVE  /\ sent' = sent \/ \E d \in Dirs : Send(d)
           /\ got' = got \/ \E d \in Dirs : Get(d)
           /\ side' = side \/ \E s \in Sides, to \in {"half", "closed"} : EndSide(s, to)
           /\ (lost => lost') /\ (expired => expired') /\ closed \subseteq closed'
<1> USE DEF apps
<1>1. ASSUME NEW d \in Dirs, Send(d) \/ Get(d) \/ GetEnd(d) \/ \E h \in {1, 3} : Reset(d, h)
      PROVE  /\ sent' = sent \/ Send(d)
             /\ got' = got \/ Get(d)
             /\ side' = side /\ lost' = lost /\ expired' = expired /\ closed' = closed
  BY <1>1 DEF Send, Get, GetEnd, Reset
<1>2. ASSUME NEW s \in Sides, NEW to \in {"half", "closed"}, EndSide(s, to)
      PROVE  sent' = sent /\ got' = got /\ lost' = lost /\ expired' = expired /\ closed' = closed
  BY <1>2 DEF EndSide
<1>3. ASSUME Lose \/ \E d \in Dirs : Expire(d)
      PROVE  /\ sent' = sent /\ got' = got /\ side' = side /\ closed' = closed
             /\ (lost => lost') /\ (expired => expired')
  BY <1>3 DEF Lose, Expire
<1>4. ASSUME NEW d \in Dirs, NEW j \in {1, 2}, Copy(d, j)
      PROVE  /\ sent' = sent /\ got' = got /\ side' = side
             /\ lost' = lost /\ expired' = expired /\ closed \subseteq closed'
  BY <1>4 DEF Copy, Read, ReadEnds, Write, WriteLost, WriteFails, WriteWaits, Shut, Closing
<1>5. CASE UNCHANGED vars  BY <1>5 DEF vars
<1> QED  BY <1>1, <1>2, <1>3, <1>4, <1>5 DEF Next, Environment

(* The chunks a side got are numbered from one.                            *)
LEMMA GotStep ==
    ASSUME IInv, NEW d \in Dirs, From(got[d], 0), [Next]_vars
    PROVE  From(got'[d], 0)
<1>0. TypeOK /\ Numbered(d) /\ Ordered(d)  BY DEF IInv
<1>1. CASE Get(d)
  <2>1. Head(queue[d][3]) = Len(got[d]) + 1  BY <1>0, <1>1, GetOrder
  <2>2. got'[d] = Append(got[d], Len(got[d]) + 1)  BY <1>0, <1>1, <2>1 DEF Get, TypeOK
  <2>3. Len(got[d]) \in Nat /\ got[d] \in Seq(Nat)  BY <1>0, Natural
  <2>4. Len(got[d]) + 1 \in Nat /\ Len(got[d]) + 1 = 0 + Len(got[d]) + 1 /\ 0 \in Nat  BY <2>3
  <2> QED  BY <2>2, <2>3, <2>4, Appended
<1>2. CASE ~Get(d)
  <2>1. got'[d] = got[d]
    BY <1>0, <1>2, Steady DEF Get, TypeOK
  <2> QED  BY <2>1
<1> QED  BY <1>1, <1>2

-----------------------------------------------------------------------------
(* Once disturbed, always: the program does not open again, what the       *)
(* remote closed without getting is never got, and what the client closed  *)
(* without reading is never read.                                          *)
LEMMA UndisturbedBefore ==
    ASSUME TypeOK, [Next]_vars, Undisturbed'
    PROVE  Undisturbed
<1> USE Places
<1>1. /\ side["program"] = "open" /\ ~lost /\ ~expired
  <2>1. side'["program"] = "open" => side["program"] = "open"
    BY Steady DEF EndSide, TypeOK
  <2>2. (lost => lost') /\ (expired => expired')  BY Steady
  <2> QED  BY <2>1, <2>2 DEF Undisturbed
<1>2. side'["remote"] = side["remote"] \/ side["remote"] # "closed"
  BY Steady DEF EndSide, TypeOK
<1>3. ASSUME UnheardRequest  PROVE FALSE
  <2>1. got'["up"] = got["up"]
    BY <1>3, Steady DEF UnheardRequest, Get, TypeOK
  <2>2. sent'["up"] = sent["up"] \/ Len(sent'["up"]) = Len(sent["up"]) + 1
    <3>1. CASE Send("up")
      <4>1. sent'["up"] = Append(sent["up"], Len(sent["up"]) + 1)  BY <3>1 DEF Send, TypeOK
      <4>2. Len(sent["up"]) \in Nat /\ sent["up"] \in Seq(Nat)  BY Natural
      <4> QED  BY <4>1, <4>2, Appended
    <3>2. CASE ~Send("up")
      BY <3>2, Steady DEF Send, TypeOK
    <3> QED  BY <3>1, <3>2
  <2>3. Len(got["up"]) \in Nat /\ Len(sent["up"]) \in Nat  BY Natural
  <2>4. UnheardRequest'  BY <1>2, <1>3, <2>1, <2>2, <2>3 DEF UnheardRequest
  <2> QED  BY <2>4 DEF Undisturbed
<1>4. ASSUME UnreadRequest  PROVE FALSE
  <2>1. "client" \in closed'
    BY <1>4, Steady DEF UnreadRequest
  <2>2. queue'["up"][1] # <<>>
    <3>1. ASSUME NEW d \in Dirs, Send(d)  PROVE queue'["up"][1] # <<>>
      <4>1. CASE d = "up"
        <5>1. queue'["up"][1] = Append(queue["up"][1], Len(sent["up"]) + 1)
          BY <3>1, <4>1, SMTT(30) DEF Send, Put, TypeOK
        <5>2. queue["up"][1] \in Seq(Nat) /\ Len(sent["up"]) + 1 \in Nat  BY Natural
        <5>3. Len(queue'["up"][1]) = Len(queue["up"][1]) + 1 /\ Len(queue["up"][1]) \in Nat
          BY <5>1, <5>2, Appended
        <5> QED  BY <5>3, Emptied
      <4>2. CASE d # "up"  BY <1>4, <3>1, <4>2 DEF Send, Put, TypeOK, UnreadRequest
      <4> QED  BY <4>1, <4>2
    <3>2. ASSUME NEW d \in Dirs, Get(d)  PROVE queue'["up"][1] # <<>>
      BY <1>4, <3>2 DEF Get, Put, TypeOK, UnreadRequest
    <3>3. ASSUME NEW d \in Dirs, NEW h \in {1, 3}, Reset(d, h)  PROVE queue'["up"][1] # <<>>
      <4>1. ~(d = "up" /\ h = 1)
        BY <1>1, <3>3 DEF Reset, ReaderClosed
      <4> QED  BY <1>4, <3>3, <4>1 DEF Reset, Put, TypeOK, UnreadRequest
    <3>4. ASSUME NEW d \in Dirs, NEW j \in {1, 2}, Read(d, j)  PROVE queue'["up"][1] # <<>>
      <4>1. ~(d = "up" /\ j = 1)  BY <1>4, <3>4 DEF Read, CutOff, UnreadRequest
      <4> QED  BY <1>4, <3>4, <4>1 DEF Read, Put, TypeOK, UnreadRequest
    <3>5. ASSUME NEW d \in Dirs, NEW j \in {1, 2}, Write(d, j)  PROVE queue'["up"][1] # <<>>
      <4>1. j + 1 # 1 /\ j + 1 \in 1..3  OBVIOUS
      <4> QED  BY <1>4, <3>5, <4>1 DEF Write, Put, TypeOK, UnreadRequest
    <3>6. CASE queue' = queue  BY <1>4, <3>6 DEF UnreadRequest
    <3> QED
      BY <3>1, <3>2, <3>3, <3>4, <3>5, <3>6 DEF Next, Environment, GetEnd, EndSide, Lose, Expire, Copy,
         ReadEnds, WriteLost, WriteFails, WriteWaits, Shut, vars
  <2> QED  BY <2>1, <2>2 DEF UnreadRequest, Undisturbed
<1> QED  BY <1>1, <1>3, <1>4 DEF Undisturbed

(* Undisturbed, what the client or the server has closed, or a copier has  *)
(* stopped, says how far the end has come.                                 *)
LEMMA EndFacts ==
    ASSUME IInv, AnswerInv, Undisturbed
    PROVE  /\ "server" \in closed => pc["down"][1] = "done" /\ side["remote"] # "open"
                                     /\ queue["down"][1] = <<>>
           /\ "client" \in closed => pc["down"][2] = "done" /\ "server" \in closed
                                     /\ queue["down"][2] = <<>>
           /\ pc["up"][2] \in {"write", "wait"} => side["remote"] # "closed"
           /\ queue["up"][3] # <<>> => side["remote"] # "closed"
<1> USE Places
<1>1. EndFollows  BY DEF AnswerInv
<1>2. /\ "server" \in closed => pc["down"][1] = "done" /\ side["remote"] # "open"
                                /\ queue["down"][1] = <<>>
      /\ "client" \in closed => pc["down"][2] = "done" /\ "server" \in closed
                                /\ queue["down"][2] = <<>>
  BY <1>1 DEF EndFollows, Stopped
<1>3. ASSUME pc["up"][2] \in {"write", "wait"} \/ queue["up"][3] # <<>>
      PROVE  Len(got["up"]) < Len(sent["up"])
  <2> DEFINE a == Len(got["up"])  b == Len(queue["up"][3])  c == Len(queue["up"][2])
             e == Len(queue["up"][1])  f == Held1("up")  g == Held2("up")  n == Len(sent["up"])
  <2>0. TypeOK /\ Numbered("up")  BY DEF IInv
  <2>1. a \in Nat /\ b \in Nat /\ c \in Nat /\ e \in Nat /\ f \in {0, 1} /\ g \in {0, 1} /\ n \in Nat
    BY <2>0, Natural
  <2>2. g = 1 \/ b # 0
    <3>1. CASE pc["up"][2] \in {"write", "wait"}  BY <2>0, <3>1 DEF Numbered, Held2
    <3>2. CASE queue["up"][3] # <<>>
      <4>1. queue["up"][3] \in Seq(Nat)  BY <2>0, Natural
      <4> QED  BY <3>2, <4>1
    <3> QED  BY <1>3, <3>1, <3>2
  <2>3. a + b + g + c + f + e <= n  BY DEF AnswerInv, Flow, Past1, Past2
  <2> HIDE DEF a, b, c, e, f, g, n
  <2>4. a < n  BY <2>1, <2>2, <2>3
  <2> QED  BY <2>4 DEF a, n
<1> QED  BY <1>2, <1>3 DEF Undisturbed, UnheardRequest

(* Undisturbed, no chunk of the answer is lost.                            *)
LEMMA NothingLost ==
    ASSUME IInv, AnswerInv, Undisturbed
    PROVE  ~Loses("down")
<1> USE Places
<1>1. ASSUME NEW h \in {1, 3}, Reset("down", h)  PROVE FALSE
  <2>1. CASE h = 1
    <3>1. side["remote"] = "closed" /\ queue["up"][3] # <<>>
      BY <1>1, <2>1 DEF Reset, ReaderClosed
    <3> QED  BY <3>1, EndFacts
  <2>2. CASE h = 3
    <3>1. "client" \in closed /\ queue["up"][1] # <<>>
      BY <1>1, <2>2 DEF Reset, ReaderClosed
    <3> QED  BY <3>1 DEF Undisturbed, UnreadRequest
  <2> QED  BY <2>1, <2>2
<1>2. ~WriteLost("down", 1)  BY EndFacts DEF WriteLost, ReaderClosed
<1>3. ~WriteLost("down", 2)  BY DEF WriteLost, ReaderClosed, Undisturbed
<1>4. ~WriteFails("down", 1)  BY EndFacts DEF WriteFails, Undisturbed
<1>5. ~WriteFails("down", 2)
  <2>1. pc["down"][2] # "wait"  BY DEF IInv, Numbered
  <2> QED  BY <2>1, EndFacts DEF WriteFails, ReaderClosed, Undisturbed
<1> QED  BY <1>1, <1>2, <1>3, <1>4, <1>5 DEF Loses

(* When the program may be told the end, everything sent has arrived.      *)
LEMMA EndAtLast ==
    ASSUME IInv, AnswerInv, Undisturbed, GetEnd("down")
    PROVE  Len(got["down"]) = Len(sent["down"]) /\ side["remote"] # "open"
<1> USE Places
<1>0. TypeOK  BY DEF IInv
<1>1. queue["down"][3] = <<>> /\ "client" \in closed  BY DEF GetEnd, Ended
<1>2. /\ pc["down"][1] = "done" /\ pc["down"][2] = "done" /\ side["remote"] # "open"
      /\ queue["down"][1] = <<>> /\ queue["down"][2] = <<>>
  BY <1>1, EndFacts
<1>3. Held1("down") = 0 /\ Held2("down") = 0  BY <1>2 DEF Held1, Held2
<1>4. Len(got["down"]) \in Nat  BY <1>0, Natural
<1>5. Flow("down") = Len(got["down"]) + 0 + 0 + 0 + 0 + 0
  BY <1>1, <1>2, <1>3, Emptied DEF Flow, Past1, Past2
<1>6. Flow("down") = Len(got["down"])  BY <1>4, <1>5
<1> QED  BY <1>2, <1>6 DEF AnswerInv

LEMMA CopierMoves ==
    ASSUME TypeOK, NEW d \in Dirs, NEW j \in {1, 2},
           NEW x, pc' = [pc EXCEPT ![d][j] = x]
    PROVE  /\ pc'[d][j] = x
           /\ \A e \in Dirs, i \in {1, 2} : e # d \/ i # j => pc'[e][i] = pc[e][i]
BY DEF TypeOK

LEMMA LastMoves ==
    ASSUME TypeOK, NEW d \in Dirs, NEW j \in {1, 2},
           NEW x, last' = [last EXCEPT ![d][j] = x]
    PROVE  /\ last'[d][j] = x
           /\ \A e \in Dirs, i \in {1, 2} : e # d \/ i # j => last'[e][i] = last[e][i]
BY DEF TypeOK

(* A copier of the answer, or of the request, takes a step.                *)
LEMMA EndFollowsCopy ==
    ASSUME IInv, AnswerInv, Undisturbed, NEW d \in Dirs, NEW j \in {1, 2}, Copy(d, j)
    PROVE  EndFollows'
<1> USE Places DEF EndFollows, Stopped
<1>0. TypeOK /\ EndFollows /\ pc["down"][2] # "wait"  BY DEF IInv, AnswerInv, Numbered
<1>a. /\ side["program"] = "open" /\ ~lost
      /\ "server" \in closed => pc["down"][1] = "done"
      /\ "client" \in closed => pc["down"][2] = "done" /\ "server" \in closed
  BY EndFacts DEF Undisturbed
<1>b. Dirs = {"up", "down"}  BY DEF Dirs
<1>1. CASE Read(d, j)
  <2>1. PICK with \in BOOLEAN :
          /\ with => Len(queue[d][j]) = 1 /\ Ended(d, j)
          /\ last' = [last EXCEPT ![d][j] = with]
          /\ pc' = [pc EXCEPT ![d][j] = "write"]
    BY <1>1 DEF Read, Goto, ReadOn
  <2>a. /\ pc'[d][j] = "write"
        /\ \A e \in Dirs, i \in {1, 2} : e # d \/ i # j => pc'[e][i] = pc[e][i]
    BY <1>0, <2>1, CopierMoves
  <2>b. /\ last'[d][j] = with
        /\ \A e \in Dirs, i \in {1, 2} : e # d \/ i # j => last'[e][i] = last[e][i]
    BY <1>0, <2>1, LastMoves
  <2>2. /\ pc'[d][j] = "write" /\ last'[d][j] = with
        /\ \A e \in Dirs, i \in {1, 2} : e # d \/ i # j => pc'[e][i] = pc[e][i] /\ last'[e][i] = last[e][i]
    BY <2>a, <2>b
  <2>3. /\ sent' = sent /\ got' = got /\ side' = side /\ told' = told /\ closed' = closed
        /\ pc[d][j] = "read"
    BY <1>1 DEF Read, apps
  <2>4. /\ queue'[d][j] = Tail(queue[d][j]) /\ queue[d][j] # <<>>
        /\ \A e \in Dirs, h \in 1..3 : e # d \/ h # j => queue'[e][h] = queue[e][h]
    <3>1. j \in 1..3  OBVIOUS
    <3> QED  BY <1>0, <1>1, <3>1 DEF Read, Put, TypeOK
  <2>5. with => queue'[d][j] = <<>>
    <3>1. queue[d][j] \in Seq(Nat)
      <4>1. j \in 1..3  OBVIOUS
      <4>2. queue \in [Dirs -> [1..3 -> Seq(Nat)]]  BY <1>0 DEF TypeOK
      <4> QED  BY <4>1, <4>2
    <3>2. with => Len(queue'[d][j]) = 0 /\ queue'[d][j] \in Seq(Nat)  BY <2>1, <2>4, <3>1, Removed
    <3> QED  BY <3>2
  <2>6. CASE d = "down" /\ j = 1
    <3>1. with => side["remote"] # "open"  BY <2>1, <2>6 DEF Ended
    <3>2. queue'["down"][2] = queue["down"][2]  BY <2>4, <2>6
    <3> QED  BY <1>0, <2>2, <2>3, <2>5, <2>6, <3>1, <3>2
  <2>7. CASE d = "down" /\ j = 2
    <3>1. with => "server" \in closed  BY <2>1, <2>7 DEF Ended
    <3>2. queue'["down"][1] = queue["down"][1]  BY <2>4, <2>7
    <3> QED  BY <1>0, <2>2, <2>3, <2>5, <2>7, <3>1, <3>2
  <2>8. CASE d = "up" /\ j = 1
    <3>1. ~with  BY <1>a, <2>1, <2>8 DEF Ended
    <3>2. queue'["down"][1] = queue["down"][1] /\ queue'["down"][2] = queue["down"][2]
      BY <2>4, <2>8
    <3> QED  BY <1>0, <2>2, <2>3, <2>8, <3>1, <3>2
  <2>9. CASE d = "up" /\ j = 2
    <3>1. with => "client" \in closed  BY <2>1, <2>9 DEF Ended
    <3>2. queue'["down"][1] = queue["down"][1] /\ queue'["down"][2] = queue["down"][2]
      BY <2>4, <2>9
    <3> QED  BY <1>0, <1>a, <2>2, <2>3, <2>9, <3>1, <3>2
  <2> QED  BY <1>b, <2>6, <2>7, <2>8, <2>9
<1>2. CASE ReadEnds(d, j)
  <2>1. /\ pc' = [pc EXCEPT ![d][j] = "shut"] /\ pc[d][j] = "read"
        /\ UNCHANGED <<sent, got, side, told, closed, queue, last>>
    BY <1>2 DEF ReadEnds, Goto, apps
  <2>2. /\ pc'[d][j] = "shut"
        /\ \A e \in Dirs, i \in {1, 2} : e # d \/ i # j => pc'[e][i] = pc[e][i]
    BY <1>0, <2>1, CopierMoves
  <2>3. Who(d, j) \in closed \/ (queue[d][j] = <<>> /\ Ended(d, j))
    BY <1>2, <1>a DEF ReadEnds, CutOff, AtEnd
  <2>4. CASE d = "down" /\ j = 1
    <3>1. side["remote"] # "open" /\ queue["down"][1] = <<>>  BY <1>a, <2>1, <2>3, <2>4 DEF Ended
    <3> QED  BY <1>0, <2>1, <2>2, <2>4, <3>1
  <2>5. CASE d = "down" /\ j = 2
    <3>1. "server" \in closed /\ queue["down"][2] = <<>>  BY <1>a, <2>1, <2>3, <2>5 DEF Ended
    <3> QED  BY <1>0, <2>1, <2>2, <2>5, <3>1
  <2>6. CASE d = "up" /\ j = 1
    <3>1. "client" \in closed  BY <1>a, <2>3, <2>6 DEF Ended
    <3> QED  BY <1>0, <1>a, <2>1, <2>2, <2>6, <3>1
  <2>7. CASE d = "up" /\ j = 2
    <3>1. "server" \in closed  BY <1>a, <2>3, <2>7 DEF Ended
    <3> QED  BY <1>0, <1>a, <2>1, <2>2, <2>7, <3>1
  <2> QED  BY <1>b, <2>4, <2>5, <2>6, <2>7
<1>3. CASE Write(d, j) \/ (d = "up" /\ WriteLost(d, j))
  <2>1. /\ pc' = [pc EXCEPT ![d][j] = Onward(d, j)] /\ last' = [last EXCEPT ![d][j] = FALSE]
        /\ pc[d][j] \in {"write", "wait"}
        /\ UNCHANGED <<sent, got, side, told, closed>>
    BY <1>3 DEF Write, WriteLost, Written, Goto, apps
  <2>a. /\ pc'[d][j] = Onward(d, j)
        /\ \A e \in Dirs, i \in {1, 2} : e # d \/ i # j => pc'[e][i] = pc[e][i]
    BY <1>0, <2>1, CopierMoves
  <2>b. /\ ~last'[d][j]
        /\ \A e \in Dirs, i \in {1, 2} : e # d \/ i # j => last'[e][i] = last[e][i]
    <3>1. last' = [last EXCEPT ![d][j] = FALSE]  BY <2>1
    <3> QED  BY <1>0, <3>1 DEF TypeOK
  <2>2. /\ pc'[d][j] = Onward(d, j) /\ ~last'[d][j]
        /\ \A e \in Dirs, i \in {1, 2} : e # d \/ i # j => pc'[e][i] = pc[e][i] /\ last'[e][i] = last[e][i]
    BY <2>a, <2>b
  <2>3. Onward(d, j) = IF last[d][j] THEN "shut" ELSE "read"  BY DEF Onward
  <2>4. \A e \in Dirs, h \in 1..3 : e # d \/ h # j + 1 => queue'[e][h] = queue[e][h]
    <3>1. CASE Write(d, j)
      <4>1. j + 1 \in 1..3  OBVIOUS
      <4> QED  BY <1>0, <3>1, <4>1 DEF Write, Put, TypeOK
    <3>2. CASE WriteLost(d, j)  BY <3>2 DEF WriteLost
    <3> QED  BY <1>3, <3>1, <3>2
  <2>5. CASE d = "down" /\ j = 1
    <3>1. queue'["down"][1] = queue["down"][1]
      <4>1. 1 # 1 + 1 /\ 1 \in 1..3  OBVIOUS
      <4> QED  BY <2>4, <2>5, <4>1
    <3> QED  BY <1>0, <1>a, <2>1, <2>2, <2>3, <2>5, <3>1
  <2>6. CASE d = "down" /\ j = 2
    <3>1. queue'["down"][1] = queue["down"][1] /\ queue'["down"][2] = queue["down"][2]
      <4>1. 1 # 2 + 1 /\ 2 # 2 + 1 /\ 1 \in 1..3 /\ 2 \in 1..3  OBVIOUS
      <4> QED  BY <2>4, <2>6, <4>1
    <3> QED  BY <1>0, <2>1, <2>2, <2>3, <2>6, <3>1
  <2>7. CASE d = "up"
    <3>1. queue'["down"][1] = queue["down"][1] /\ queue'["down"][2] = queue["down"][2]
      <4>1. 1 \in 1..3 /\ 2 \in 1..3  OBVIOUS
      <4> QED  BY <2>4, <2>7, <4>1
    <3> QED  BY <1>0, <2>1, <2>2, <2>3, <2>7, <3>1
  <2> QED  BY <1>b, <2>5, <2>6, <2>7
<1>4. CASE WriteFails(d, j)
  <2>1. d = "up"  BY <1>4, <1>b, NothingLost DEF Loses
  <2>2. /\ pc' = [pc EXCEPT ![d][j] = "shut"] /\ last' = [last EXCEPT ![d][j] = FALSE]
        /\ UNCHANGED <<sent, got, side, told, closed, queue>>
    BY <1>4 DEF WriteFails, Goto, apps
  <2>a. /\ pc'[d][j] = "shut"
        /\ \A e \in Dirs, i \in {1, 2} : e # d \/ i # j => pc'[e][i] = pc[e][i]
    BY <1>0, <2>2, CopierMoves
  <2>b. /\ ~last'[d][j]
        /\ \A e \in Dirs, i \in {1, 2} : e # d \/ i # j => last'[e][i] = last[e][i]
    <3>1. last' = [last EXCEPT ![d][j] = FALSE]  BY <2>2
    <3> QED  BY <1>0, <3>1 DEF TypeOK
  <2>3. /\ pc'[d][j] = "shut" /\ ~last'[d][j]
        /\ \A e \in Dirs, i \in {1, 2} : e # d \/ i # j => pc'[e][i] = pc[e][i] /\ last'[e][i] = last[e][i]
    BY <2>a, <2>b
  <2>4. Who(d, j) \in closed
    <3>1. pc["up"][2] \in {"write", "wait"} => side["remote"] # "closed"  BY EndFacts
    <3> QED  BY <1>4, <1>a, <2>1, <3>1 DEF WriteFails, ReaderClosed
  <2> QED  BY <1>0, <1>a, <2>1, <2>2, <2>3, <2>4
<1>5. CASE WriteWaits(d, j)
  <2>1. /\ pc' = [pc EXCEPT ![d][j] = "wait"] /\ pc[d][j] = "write"
        /\ UNCHANGED <<sent, got, side, told, closed, queue, last>>
    BY <1>5 DEF WriteWaits, Goto, apps
  <2>2. /\ pc'[d][j] = "wait"
        /\ \A e \in Dirs, i \in {1, 2} : e # d \/ i # j => pc'[e][i] = pc[e][i]
    BY <1>0, <2>1, CopierMoves
  <2> QED  BY <1>0, <1>b, <2>1, <2>2
<1>6. CASE Shut(d, j)
  <2>1. /\ pc' = [pc EXCEPT ![d][j] = "done"] /\ pc[d][j] = "shut" /\ closed' = closed \cup {Who(d, j)}
        /\ UNCHANGED <<sent, got, side, told, queue, last>>
    BY <1>6 DEF Shut, Goto, Closing, apps
  <2>2. /\ pc'[d][j] = "done"
        /\ \A e \in Dirs, i \in {1, 2} : e # d \/ i # j => pc'[e][i] = pc[e][i]
    BY <1>0, <2>1, CopierMoves
  <2> QED  BY <1>0, <1>b, <2>1, <2>2
<1>7. ~(d = "down" /\ WriteLost(d, j))  BY NothingLost DEF Loses
<1> QED  BY <1>b, <1>1, <1>2, <1>3, <1>4, <1>5, <1>6, <1>7 DEF Copy

LEMMA AnswerStep ==
    ASSUME IInv, AnswerInv, [Next]_vars
    PROVE  AnswerInv'
<1> USE Places
<1>0. TypeOK  BY DEF IInv
<1>1. ASSUME NEW d \in Dirs  PROVE Flow(d)' <= Len(sent'[d]) /\ From(got'[d], 0)
  <2>1. From(got'[d], 0)  BY GotStep DEF AnswerInv
  <2>2. Flow(d) <= Len(sent[d])  BY DEF AnswerInv
  <2>3. Flow(d) \in Nat /\ Len(sent[d]) \in Nat
    <3>1. Past1(d) \in Nat /\ Len(queue[d][1]) \in Nat /\ Len(sent[d]) \in Nat  BY <1>0, Natural
    <3> QED  BY <3>1 DEF Flow
  <2>4. CASE Loses(d)  BY <1>0, <2>1, <2>2, <2>3, <2>4, LosesFlow
  <2>5. CASE ~Loses(d)  BY <2>1, <2>2, <2>3, <2>5, FlowStep
  <2> QED  BY <2>4, <2>5
<1>2. ASSUME Undisturbed'  PROVE Flow("down")' = Len(sent'["down"]) /\ EndFollows'
  <2>1. Undisturbed  BY <1>0, <1>2, UndisturbedBefore
  <2>2. Flow("down") = Len(sent["down"]) /\ EndFollows  BY <2>1 DEF AnswerInv
  <2>3. ~Loses("down")  BY <2>1, NothingLost
  <2>4. Flow("down")' = Len(sent'["down"])  BY <2>2, <2>3, FlowStep
  <2>5. EndFollows'
    <3> USE DEF EndFollows, Stopped
    <3>1. ASSUME NEW d \in Dirs, Send(d)  PROVE EndFollows'
      <4>1. UNCHANGED <<got, side, told, pc, last, closed>> /\ side[Sender(d)] = "open"
        BY <3>1 DEF Send, copiers
      <4>2. /\ d # "down" => queue'["down"] = queue["down"] /\ sent'["down"] = sent["down"]
            /\ queue'["down"][2] = queue["down"][2]
        <5>1. queue' = [queue EXCEPT ![d][1] = Append(queue[d][1], Len(sent[d]) + 1)]
          BY <3>1 DEF Send, Put
        <5>2. queue \in [Dirs -> [1..3 -> Seq(Nat)]] /\ "down" \in Dirs /\ 2 \in 1..3
          BY <1>0 DEF TypeOK, Dirs
        <5>3. d # "down" => queue'["down"] = queue["down"]  BY <5>1, <5>2
        <5>4. queue'["down"][2] = queue["down"][2]  BY <5>1, <5>2
        <5>5. d # "down" => sent'["down"] = sent["down"]  BY <1>0, <3>1, <5>2 DEF Send, TypeOK
        <5> QED  BY <5>3, <5>4, <5>5
      <4> QED  BY <2>2, <4>1, <4>2
    <3>2. ASSUME NEW d \in Dirs, Get(d)  PROVE EndFollows'
      <4>1. UNCHANGED <<sent, side, told, pc, last, closed>> /\ ~told[d]
        BY <3>2 DEF Get, copiers
      <4>2. /\ d # "down" => got'["down"] = got["down"]
            /\ queue'["down"][1] = queue["down"][1] /\ queue'["down"][2] = queue["down"][2]
        <5>1. queue' = [queue EXCEPT ![d][3] = Tail(queue[d][3])]
          BY <3>2 DEF Get, Put
        <5>2. /\ queue \in [Dirs -> [1..3 -> Seq(Nat)]] /\ "down" \in Dirs
              /\ 1 \in 1..3 /\ 2 \in 1..3 /\ 1 # 3 /\ 2 # 3
          BY <1>0 DEF TypeOK, Dirs
        <5>3. queue'["down"][1] = queue["down"][1] /\ queue'["down"][2] = queue["down"][2]
          BY <5>1, <5>2
        <5>4. d # "down" => got'["down"] = got["down"]  BY <1>0, <3>2, <5>2 DEF Get, TypeOK
        <5> QED  BY <5>3, <5>4
      <4> QED  BY <2>2, <4>1, <4>2
    <3>3. ASSUME NEW d \in Dirs, GetEnd(d)  PROVE EndFollows'
      <4>1. UNCHANGED <<sent, got, side, queue, pc, last, closed>>  BY <3>3 DEF GetEnd, copiers
      <4>2. d # "down" => told'["down"] = told["down"]  BY <1>0, <3>3 DEF GetEnd, TypeOK
      <4>3. d = "down" => Len(got["down"]) = Len(sent["down"]) /\ side["remote"] # "open"
        BY <2>1, <3>3, EndAtLast
      <4> QED  BY <2>2, <4>1, <4>2, <4>3
    <3>4. ASSUME NEW d \in Dirs, NEW h \in {1, 3}, Reset(d, h)  PROVE EndFollows'
      <4>1. d # "down"  BY <2>3, <3>4 DEF Loses
      <4>2. UNCHANGED <<sent, got, side, told, pc, last, closed>>  BY <3>4 DEF Reset, apps, copiers
      <4>3. queue'["down"] = queue["down"]  BY <1>0, <3>4, <4>1 DEF Reset, Put, TypeOK
      <4> QED  BY <2>2, <4>2, <4>3
    <3>5. ASSUME NEW s \in Sides, NEW to \in {"half", "closed"}, EndSide(s, to)  PROVE EndFollows'
      <4>1. UNCHANGED <<sent, got, told, queue, pc, last, closed>>  BY <3>5 DEF EndSide, copiers
      <4>2. side["remote"] # "open" => side'["remote"] # "open"  BY <1>0, <3>5 DEF EndSide, TypeOK
      <4> QED  BY <2>2, <4>1, <4>2
    <3>6. ~Lose /\ \A d \in Dirs : ~Expire(d)  BY <1>2 DEF Lose, Expire, Undisturbed
    <3>7. ASSUME NEW d \in Dirs, NEW j \in {1, 2}, Copy(d, j)  PROVE EndFollows'
      BY <2>1, <3>7, EndFollowsCopy
    <3>8. CASE UNCHANGED vars  BY <2>2, <3>8 DEF vars, apps, copiers
    <3> QED  BY <3>1, <3>2, <3>3, <3>4, <3>5, <3>6, <3>7, <3>8 DEF Next, Environment
  <2> QED  BY <2>4, <2>5
<1> QED  BY <1>1, <1>2 DEF AnswerInv

LEMMA AnswerInit == Init => AnswerInv
<1> SUFFICES ASSUME Init  PROVE AnswerInv  OBVIOUS
<1> USE Places
<1>1. ASSUME NEW d \in Dirs  PROVE Flow(d) = 0 /\ Len(sent[d]) = 0 /\ From(got[d], 0)
  <2>1. /\ sent[d] = <<>> /\ got[d] = <<>>
        /\ queue[d][1] = <<>> /\ queue[d][2] = <<>> /\ queue[d][3] = <<>>
        /\ pc[d][1] = "read" /\ pc[d][2] = "read"
    BY DEF Init
  <2>2. Held1(d) = 0 /\ Held2(d) = 0  BY <2>1 DEF Held1, Held2
  <2>3. Flow(d) = 0 + 0 + 0 + 0 + 0 + 0
    BY <2>1, <2>2, Emptied DEF Flow, Past1, Past2
  <2>4. 0 + 0 + 0 + 0 + 0 + 0 = 0 /\ 0 \in Nat  OBVIOUS
  <2>5. From(<<>>, 0)  BY <2>4, Emptied
  <2> QED  BY <2>1, <2>3, <2>4, <2>5, Emptied
<1>2. EndFollows  BY DEF Init, EndFollows, Stopped
<1>3. 0 <= 0  OBVIOUS
<1> QED  BY <1>1, <1>2, <1>3 DEF AnswerInv

(* Undisturbed or not, what WholeAnswer asks for is what the invariant     *)
(* says: whoever got the whole request left nothing of it on the way.      *)
LEMMA AnswerWhole == IInv /\ AnswerInv => WholeAnswer
<1> SUFFICES ASSUME IInv, AnswerInv,
                    told["down"], side["program"] = "open", got["up"] = sent["up"], ~lost, ~expired
             PROVE  got["down"] = sent["down"]
  BY DEF WholeAnswer
<1> USE Places
<1>0. TypeOK /\ Numbered("down")  BY DEF IInv
<1>1. queue["up"][1] = <<>>
  <2> DEFINE a == Len(got["up"])  b == Len(queue["up"][3])  c == Len(queue["up"][2])
             e == Len(queue["up"][1])  f == Held1("up")  g == Held2("up")
  <2>1. a \in Nat /\ b \in Nat /\ c \in Nat /\ e \in Nat /\ f \in {0, 1} /\ g \in {0, 1}
    BY <1>0, Natural
  <2>2. a + b + g + c + f + e <= a  BY DEF AnswerInv, Flow, Past1, Past2
  <2> HIDE DEF a, b, c, e, f, g
  <2>3. e = 0  BY <2>1, <2>2
  <2>4. queue["up"][1] \in Seq(Nat)  BY <1>0, Natural
  <2> QED  BY <2>3, <2>4 DEF e
<1>2. Len(got["up"]) \in Nat  BY <1>0, Natural
<1>3. Undisturbed  BY <1>1, <1>2 DEF Undisturbed, UnheardRequest, UnreadRequest
<1>4. Len(got["down"]) = Len(sent["down"])  BY <1>3 DEF AnswerInv, EndFollows
<1>5. got["down"] \in Seq(Nat) /\ sent["down"] \in Seq(Nat)  BY <1>0, Natural
<1>6. From(got["down"], 0) /\ From(sent["down"], 0)  BY <1>0 DEF AnswerInv, Numbered
<1> QED  BY <1>4, <1>5, <1>6 DEF From

(* Pipe, four times: if the program is told the end and stays open, and    *)
(* the remote heard the whole request, then, without a lost session or a   *)
(* deadline, the program got the whole answer, for any capacity of the     *)
(* hops and any number of chunks.                                          *)
THEOREM AnswerArrives == Spec => []WholeAnswer
<1>1. Spec => []AnswerInv
  <2>1. AnswerInv /\ IInv /\ [Next]_vars => AnswerInv'  BY AnswerStep
  <2> QED  BY <2>1, AnswerInit, Invariance, PTL DEF Spec
<1> QED  BY <1>1, Invariance, AnswerWhole, PTL
=============================================================================
