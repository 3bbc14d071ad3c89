\* Is every kind of request the buffers are made for confirmed?
SPECIFICATION Spec
CONSTANTS
    Lengths <- MCLengths
    Methods <- MCMethods
\* one request: it ends
CHECK_DEADLOCK FALSE
PROPERTIES
    AllServed
