--------------------------- MODULE MCSessionPool ---------------------------
(* Instances of SessionPool for TLC. *)
EXTENDS SessionPool

OnlySmux == {"tls"}
SmuxQuic == {"tls", "quic"}

(* Two workers have filled the pool, one after the other: a full list when *)
(* worker 0 came first, half a list when it came second and replaced what  *)
(* worker 1 had appended.  MCSessionPoolFill.cfg explores the filling.     *)
InitFilled ==
    /\ \E ty \in ProxyTypes :
          /\ nowconf = ty
          /\ kind = [s \in Ids |-> IF s \in {1, 2} THEN ty ELSE NoConf]
          /\ conf = [p \in Procs |-> IF p \in Workers THEN ty ELSE NoConf]
    /\ \/ SmuxClients = <<1, 2>>
          /\ state = [s \in Ids |-> IF s \in {1, 2} THEN "open" ELSE "none"]
       \/ SmuxClients = <<2>>
          /\ state = [s \in Ids |-> IF s = 1 THEN "closed" ELSE IF s = 2 THEN "open" ELSE "none"]
    /\ lastUse = -1 /\ lock = Free
    /\ ErrCount = 0 /\ AliveCount = 0 /\ ready = TRUE /\ reported = FALSE
    /\ pc = [p \in Procs |-> IF p \in Workers THEN "idle" ELSE "unborn"]
    /\ no = [p \in Procs |-> IF p \in Workers THEN p ELSE 0]
    /\ new = [p \in Procs |-> Nil] /\ seen = [p \in Procs |-> <<>>] /\ e = [p \in Procs |-> Nil]
    /\ calls = [p \in Procs |-> 0]
    /\ crashed = FALSE /\ changes = 0 /\ raced = FALSE /\ before = [q \in Requests |-> {}]

FilledSpec == InitFilled /\ [][Next]_vars
=============================================================================
