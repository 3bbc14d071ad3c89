------------------------------ MODULE SocksRequest ------------------------------
(***************************************************************************)
(* A SOCKS request on its way from a local program to the tunnel's server  *)
(* (prosocks5/socks5.go, and the request loop of clientcontroll).          *)
(*                                                                         *)
(* The program greets, waits for the answer and sends its request; the     *)
(* client reads both with a ReadAtLeast for the fixed part and a ReadFull  *)
(* for what is missing, executes a request for a host c:// itself and      *)
(* passes any other on; the server reads it again, field by field, and     *)
(* confirms.  Bytes are counted, not spelled out: the model keeps of       *)
(* a message its type, the length of its host, and how many bytes of it    *)
(* have arrived, in pieces the network chooses.                            *)
(***************************************************************************)
EXTENDS Integers

CONSTANTS
    Lengths,   \* lengths of the host names in requests
    Methods    \* numbers of authentication methods in greetings

ASSUME RequestAssumption == Lengths \subseteq 0 .. 255 /\ Methods \subseteq 0 .. 255

MaxTries == 3
BufLen   == 263        \* GetLocalRequest's buffer
Scheme   == 4          \* bytes of "c://"

(* Where the fields of a request are, counted from 0. *)
idType  == 3
idIP0   == 4
idDmLen == 4
idDm0   == 5
lenIPv4 == 3 + 1 + 4 + 2
lenIPv6 == 3 + 1 + 16 + 2
lenDmBase == 3 + 1 + 1 + 2

Types == {"IPv4", "IPv6", "Dm", "Change"}

VARIABLES
    req,       \* what the program asks: type, length of the host, whether the host is c://..., and
               \* whether it sends a byte more without waiting for the confirmation
    methods,   \* the methods of its greeting
    pc,        \* the client's goroutine
    arrived,   \* bytes of the program's message that reached the client
    first,     \* bytes GetLocalRequest had when it read the host
    tries,     \* streams the request was sent on
    raw,       \* bytes of the request that reached the server
    srv,       \* the server's handler
    port       \* where the server found the port

vars == <<req, methods, pc, arrived, first, tries, raw, srv, port>>

Named(r) == r.type \in {"Dm", "Change"}

(* Bytes of the request as the program sends it; "Change" has no port.     *)
Size(r) ==
    CASE r.type = "IPv4"   -> 10
      [] r.type = "IPv6"   -> 22
      [] r.type = "Dm"     -> 5 + r.len + 2
      [] r.type = "Change" -> 5 + r.len

(* Bytes GetLocalRequest expects.  (Mutant: without the length byte.)      *)
ReqLenShort(r) == IF r.type = "Dm" THEN r.len + lenDmBase - 1 ELSE Size(r)
ReqLen(r) ==
    CASE r.type = "IPv4"   -> lenIPv4
      [] r.type = "IPv6"   -> lenIPv6
      [] r.type = "Dm"     -> r.len + lenDmBase
      [] r.type = "Change" -> r.len + lenDmBase - 2

(* The end of the host, idDm0+buf[idDmLen], is a byte: it wraps, and a     *)
(* slice that ends before it starts panics.                                *)
HostEnd(r) == (idDm0 + r.len) % 256

(* Bytes GetServerRequest reads.  (Mutant: up to the name's length byte.)  *)
ReqEndShort(r) == IF r.type = "Dm" THEN r.len + idDm0 + 1 ELSE lenIPv4
ReqEnd(r) ==
    CASE r.type = "IPv4" -> lenIPv4
      [] r.type = "IPv6" -> idIP0 + lenIPv6
      [] r.type = "Dm"   -> r.len + lenDmBase

(* The host read so far starts with c://.                                  *)
IsCommand(r, n) == r.code /\ n >= idDm0 + Scheme

(* The loop's condition.                                                   *)
MoreTries == tries < MaxTries

-----------------------------------------------------------------------------
Init ==
    /\ req \in [type : Types, len : Lengths, code : BOOLEAN, early : BOOLEAN]
    /\ ~Named(req) => req.len = 0 /\ ~req.code
    /\ req.code => req.len >= Scheme
    /\ methods \in Methods
    /\ pc = "hello" /\ arrived = 0 /\ first = 0 /\ tries = 0
    /\ raw = 0 /\ srv = "none" /\ port = 0

(* Bound: a message is split before, at and after the ends of its fields.  *)
Pieces(from, to) ==
    {n \in {1, 2, idType + 1, idDmLen, idDmLen + 1, idDm0 + Scheme - 1, idDm0 + Scheme,
            to - 2, to - 1, to} : from < n /\ n <= to}

(* The network delivers some of what the program sent. *)
Expected ==
    IF pc \in {"hello", "hellorest"} THEN methods + 2
    ELSE Size(req) + (IF req.early THEN 1 ELSE 0)

Arrive ==
    /\ pc \in {"hello", "hellorest", "request", "rest"} /\ arrived < Expected
    /\ arrived' \in Pieces(arrived, Expected)
    /\ UNCHANGED <<req, methods, pc, first, tries, raw, srv, port>>

(* Socks5HandShake. *)
Hello ==
    /\ pc = "hello" /\ arrived >= 2
    /\ IF arrived < methods + 2
       THEN pc' = "hellorest" /\ UNCHANGED arrived
       ELSE pc' = "request" /\ arrived' = 0
    /\ UNCHANGED <<req, methods, first, tries, raw, srv, port>>

HelloRest ==
    /\ pc = "hellorest" /\ arrived = methods + 2
    /\ pc' = "request" /\ arrived' = 0
    /\ UNCHANGED <<req, methods, first, tries, raw, srv, port>>

(* GetLocalRequest, whose host is read before the rest has arrived.        *)
Request ==
    /\ pc = "request" /\ arrived >= idDmLen + 1
    /\ LET n == IF arrived < BufLen THEN arrived ELSE BufLen
       IN  /\ first' = n
           /\ pc' = IF Named(req) /\ HostEnd(req) < idDm0 THEN "panicked"
                    ELSE IF n > ReqLen(req) THEN "failed"
                    ELSE IF n < ReqLen(req) THEN "rest"
                    ELSE "route"
    /\ UNCHANGED <<req, methods, arrived, tries, raw, srv, port>>

RequestRest ==
    /\ pc = "rest" /\ arrived >= ReqLen(req)
    /\ pc' = "route"
    /\ UNCHANGED <<req, methods, arrived, first, tries, raw, srv, port>>

(* The request loop: a command is executed here, anything else is written  *)
(* to a new stream.                                                        *)
Route ==
    /\ pc = "route"
    /\ IF IsCommand(req, first)
       THEN pc' = "control" /\ UNCHANGED <<tries, raw, srv>>
       ELSE pc' = "sent" /\ tries' = tries + 1 /\ raw' = 0 /\ srv' = "head"
    /\ UNCHANGED <<req, methods, arrived, first, port>>

Deliver ==
    /\ pc = "sent" /\ raw < ReqLen(req)
    /\ raw' \in Pieces(raw, ReqLen(req))
    /\ UNCHANGED <<req, methods, pc, arrived, first, tries, srv, port>>

(* GetServerRequest. *)
Head ==
    /\ srv = "head" /\ raw >= idType + 1
    /\ srv' = CASE req.type = "Dm" -> "length"
                [] req.type \in {"IPv4", "IPv6"} -> "body"
                [] OTHER -> "refused"
    /\ UNCHANGED <<req, methods, pc, arrived, first, tries, raw, port>>

Length ==
    /\ srv = "length" /\ raw >= idDmLen + 1
    /\ srv' = "body"
    /\ UNCHANGED <<req, methods, pc, arrived, first, tries, raw, port>>

Body ==
    /\ srv = "body" /\ raw >= ReqEnd(req)
    /\ srv' = "accepted" /\ port' = ReqEnd(req) - 2
    /\ UNCHANGED <<req, methods, pc, arrived, first, tries, raw>>

(* The client gets the confirmation.                                       *)
Confirmed ==
    /\ pc = "sent" /\ srv = "accepted"
    /\ pc' = "served"
    /\ UNCHANGED <<req, methods, arrived, first, tries, raw, srv, port>>

(* The server closed the stream, or a minute has passed in which nothing   *)
(* arrived and the server is still reading: the next try, or none.         *)
TryAgain ==
    /\ pc = "sent"
    /\ \/ srv = "refused"
       \/ srv = "body" /\ raw = ReqLen(req) /\ raw < ReqEnd(req)
    /\ pc' = IF MoreTries THEN "route" ELSE "failed"
    /\ srv' = "none"
    /\ UNCHANGED <<req, methods, arrived, first, tries, raw, port>>

Client == Hello \/ HelloRest \/ Request \/ RequestRest \/ Route \/ Confirmed \/ TryAgain
Server == Head \/ Length \/ Body
Next   == Arrive \/ Deliver \/ Client \/ Server

(* What is sent arrives, and both goroutines run.                          *)
Spec == Init /\ [][Next]_vars /\ WF_vars(Arrive) /\ WF_vars(Deliver) /\ WF_vars(Client) /\ WF_vars(Server)

-----------------------------------------------------------------------------
TypeOK ==
    /\ pc \in {"hello", "hellorest", "request", "rest", "route", "sent", "served", "control",
               "failed", "panicked"}
    /\ srv \in {"none", "head", "length", "body", "accepted", "refused"}
    /\ arrived \in 0 .. BufLen /\ first \in 0 .. BufLen /\ raw \in 0 .. BufLen
    /\ tries \in 0 .. MaxTries /\ port \in 0 .. BufLen

(* However the bytes are split on the two ways, the server takes the port  *)
(* from where the program put it, after the host.                          *)
PortFound == srv = "accepted" => port = Size(req) - 2

(* A name of up to 250 bytes or an IPv4 address asked for by a program     *)
(* that waits for its answer is confirmed at the first try, whatever the   *)
(* pieces.                                                                 *)
NamesServed ==
    (req.type \in {"Dm", "IPv4"} /\ ~req.code /\ ~req.early /\ req.len <= 250) ~>
        (pc = "served" /\ tries = 1)

(* Each kind of request that the lengths of socks5.go:438-444 are made for *)
(* - IPv4, IPv6, names of up to 255 bytes - is confirmed once it has       *)
(* arrived.                                                                *)
AllServed == (req.type # "Change" /\ ~req.code /\ ~req.early) ~> pc = "served"
=============================================================================
