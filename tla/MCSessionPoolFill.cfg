\* Filling a pool of two while two requests use what there is.
SPECIFICATION FairSpec
CONSTANTS
    ClientNum = 2
    Tries = 1
    ErrLimit = 0
    ProxyTypes <- OnlySmux
    MaxRequests = 2
    MaxDials = 3
    MaxChanges = 0
\* requests and dials are bounded, the lock may be lost, the process may panic
CHECK_DEADLOCK FALSE
INVARIANTS
    NoneLost
    HalfFull
PROPERTIES
    Answered
