------------------------- MODULE SocksRequest_proofs -------------------------
(***************************************************************************)
(* Proofs about SocksRequest: for every length of a name and every number  *)
(* of methods a byte can say, and however the bytes are split on the way.  *)
(***************************************************************************)
EXTENDS SocksRequest, TLAPS

(* A request as a program sends it.                                        *)
Sound ==
    /\ req \in [type : Types, len : Lengths, code : BOOLEAN, early : BOOLEAN]
    /\ ~Named(req) => req.len = 0
    /\ methods \in Methods

(* Nobody reads more than was sent, and no request is sent too often.      *)
Bounded ==
    /\ raw <= ReqLen(req)
    /\ pc \in {"hello", "hellorest", "request", "rest"} => tries = 0
    /\ pc = "route" => tries < MaxTries

(* What the server knows of the request it reads.                          *)
Known ==
    /\ srv = "length" => req.type = "Dm"
    /\ srv \in {"body", "accepted"} => req.type \in {"Dm", "IPv4", "IPv6"}

IInv == TypeOK /\ Sound /\ Bounded /\ Known /\ PortFound

-----------------------------------------------------------------------------
USE DEF MaxTries, BufLen, Scheme, idType, idIP0, idDmLen, idDm0, lenIPv4, lenIPv6, lenDmBase

(* The sizes the two sides compute are the program's, and fit the buffer,  *)
(* but for the byte sent early; the server asks too much for IPv6.         *)
LEMMA Sizes ==
    ASSUME Sound
    PROVE  /\ req.len \in 0 .. 255 /\ methods \in 0 .. 255
           /\ Size(req) \in 5 .. 262 /\ ReqLen(req) = Size(req)
           /\ req.type \in {"Dm", "IPv4"} => ReqEnd(req) = Size(req)
           /\ req.type = "IPv6" => ReqEnd(req) = Size(req) + 4
<1>1. req.len \in 0 .. 255 /\ methods \in 0 .. 255 /\ req.type \in Types
  BY RequestAssumption DEF Sound
<1>2. CASE req.type = "IPv4"
  BY <1>1, <1>2 DEF Sound, Named, Size, ReqLen, ReqEnd
<1>3. CASE req.type = "IPv6"
  BY <1>1, <1>3 DEF Sound, Named, Size, ReqLen, ReqEnd
<1>4. CASE req.type = "Dm"
  BY <1>1, <1>4 DEF Size, ReqLen, ReqEnd
<1>5. CASE req.type = "Change"
  BY <1>1, <1>5 DEF Size, ReqLen, ReqEnd
<1> QED  BY <1>1, <1>2, <1>3, <1>4, <1>5 DEF Types

LEMMA InvInit == Init => IInv
<1> SUFFICES ASSUME Init  PROVE IInv  OBVIOUS
<1>1. Sound  BY DEF Init, Sound
<1>2. TypeOK  BY DEF Init, TypeOK
<1>3. Bounded  BY <1>1, Sizes DEF Init, Bounded
<1>4. Known /\ PortFound  BY DEF Init, Known, PortFound
<1> QED  BY <1>1, <1>2, <1>3, <1>4 DEF IInv

LEMMA InvStep == IInv /\ [Next]_vars => IInv'
<1> SUFFICES ASSUME IInv, [Next]_vars  PROVE IInv'  OBVIOUS
<1>0. Sound /\ TypeOK  BY DEF IInv
<1>a. \A from, to, n \in Int : n \in Pieces(from, to) /\ to <= BufLen /\ from >= 0 => n \in 0 .. BufLen /\ n <= to
  BY DEF Pieces
<1>b. UNCHANGED <<req, methods>> => Sound' /\ ReqLen(req)' = ReqLen(req) /\ Size(req)' = Size(req)
  BY <1>0 DEF Sound, Named, ReqLen, Size
<1> USE DEF IInv, TypeOK, Bounded, Known, PortFound
<1>1. CASE Arrive
  <2>1. Expected \in Int /\ Expected <= BufLen  BY <1>0, Sizes DEF Expected
  <2>2. arrived' \in 0 .. BufLen
    <3>1. PICK n \in Pieces(arrived, Expected) : arrived' = n  BY <1>1 DEF Arrive
    <3>2. n \in Int  BY <2>1, <3>1 DEF Pieces
    <3> QED  BY <1>a, <2>1, <3>1, <3>2
  <2> QED  BY <1>1, <1>b, <2>2 DEF Arrive
<1>2. CASE Hello \/ HelloRest
  BY <1>2, <1>b DEF Hello, HelloRest
<1>3. CASE Request
  <2>1. first' \in 0 .. BufLen  BY <1>3 DEF Request
  <2>2. pc' \in {"panicked", "failed", "rest", "route"}  BY <1>3 DEF Request
  <2> QED  BY <1>3, <1>b, <2>1, <2>2 DEF Request
<1>4. CASE RequestRest
  BY <1>4, <1>b DEF RequestRest
<1>5. CASE Route
  BY <1>0, <1>5, <1>b, Sizes DEF Route
<1>6. CASE Deliver
  <2>1. ReqLen(req) \in Int /\ ReqLen(req) <= BufLen  BY <1>0, Sizes
  <2>2. raw' \in 0 .. BufLen /\ raw' <= ReqLen(req)
    <3>1. PICK n \in Pieces(raw, ReqLen(req)) : raw' = n  BY <1>6 DEF Deliver
    <3>2. n \in Int  BY <2>1, <3>1 DEF Pieces
    <3> QED  BY <1>a, <2>1, <3>1, <3>2
  <2> QED  BY <1>6, <1>b, <2>2 DEF Deliver
<1>7. CASE Head
  <2>1. srv' \in {"length", "body", "refused"}  BY <1>7 DEF Head
  <2>2. (srv' = "length" => req.type = "Dm") /\ (srv' = "body" => req.type \in {"IPv4", "IPv6"})
    BY <1>7 DEF Head
  <2> QED  BY <1>7, <1>b, <2>1, <2>2 DEF Head
<1>8. CASE Length
  BY <1>8, <1>b DEF Length
<1>9. CASE Body
  <2>1. req.type # "IPv6"  BY <1>0, <1>9, Sizes DEF Body
  <2>2. ReqEnd(req) = Size(req) /\ Size(req) \in 5 .. 262  BY <1>0, <1>9, <2>1, Sizes DEF Body
  <2>3. port' = Size(req) - 2 /\ port' \in 0 .. BufLen  BY <1>9, <2>2 DEF Body
  <2> QED  BY <1>9, <1>b, <2>3 DEF Body
<1>10. CASE Confirmed
  BY <1>10, <1>b DEF Confirmed
<1>11. CASE TryAgain
  BY <1>11, <1>b DEF TryAgain, MoreTries
<1>12. CASE UNCHANGED vars
  BY <1>12, <1>b DEF vars
<1> QED  BY <1>1, <1>2, <1>3, <1>4, <1>5, <1>6, <1>7, <1>8, <1>9, <1>10, <1>11, <1>12
         DEF Next, Client, Server

-----------------------------------------------------------------------------
(* The inductive invariant of a request.                                   *)
THEOREM Invariance == Spec => []IInv
  BY InvInit, InvStep, PTL DEF Spec

(* Every variable keeps its type: nothing that is read exceeds the buffer. *)
THEOREM TypeCorrect == Spec => []TypeOK
<1>1. IInv => TypeOK  BY DEF IInv
<1> QED  BY <1>1, Invariance, PTL

(* GetServerRequest: the port is taken from behind the host, for every     *)
(* length of a name and every way to split the bytes.                      *)
THEOREM PortCorrect == Spec => []PortFound
<1>1. IInv => PortFound  BY DEF IInv
<1> QED  BY <1>1, Invariance, PTL
=============================================================================
