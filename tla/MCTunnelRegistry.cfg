\* Two requests over two ports; server goroutines end by themselves up to twice.
SPECIFICATION FairSpec
CONSTANTS
    p1 = p1
    p2 = p2
    Ports <- MCPorts
    MaxRequests = 2
    MaxActive = 2
    MaxErrors = 2
\* requests are bounded, and the process may end or lose its lock
CHECK_DEADLOCK FALSE
INVARIANTS
    LockOwner
    NoDuplicate
    ExactWhenSerial
    GivenStarted
    ListedPortOpen
    OnHasServer
PROPERTIES
    Finishes
    Atomic
