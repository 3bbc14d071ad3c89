\* Names of 0 to 255 bytes, greetings of one or two methods.
SPECIFICATION Spec
CONSTANTS
    Lengths <- MCLengths
    Methods <- MCMethods
\* one request: it ends
CHECK_DEADLOCK FALSE
INVARIANTS
    PortFound
PROPERTIES
    NamesServed
