\* A filled pool of two, a change of type and a request.
SPECIFICATION FilledSpec
CONSTANTS
    ClientNum = 2
    Tries = 1
    ErrLimit = 0
    ProxyTypes <- SmuxQuic
    MaxRequests = 2
    MaxDials = 4
    MaxChanges = 1
\* requests and dials are bounded, the lock may be lost, the process may panic
CHECK_DEADLOCK FALSE
INVARIANTS
    LockHeld
    NilIsLocked
    PanicOnly
    ChangeClosesOld
