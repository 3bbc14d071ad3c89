\* Three requests to switch among two hosts or to change the type.
SPECIFICATION Spec
CONSTANTS
    Nil = Nil
    h1 = h1
    h2 = h2
    r1 = r1
    r2 = r2
    r3 = r3
    Hosts <- TwoHosts
    Posted <- ThreeForms
    Requests <- ThreeRequests
    ErrLimit = 0
SYMMETRY Symmetric
\* requests are bounded, the process may end
CHECK_DEADLOCK FALSE
INVARIANTS
    ClosedTruth
    OneMore
    EndsOnly
