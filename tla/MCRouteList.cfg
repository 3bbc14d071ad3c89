\* Two requests, a sync and the timer; two routes.
SPECIFICATION Spec
CONSTANTS
    r1 = r1
    r2 = r2
    h1 = h1
    h2 = h2
    Requests <- TwoRequests
    Hosts <- TwoHosts
    Sync = Sync
    Timer = Timer
    None = None
SYMMETRY Symmetric
\* requests are bounded
CHECK_DEADLOCK FALSE
INVARIANTS
    LastLogin
    FastestFirst
    LoginServed
    
