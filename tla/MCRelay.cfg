\* Two chunks, either way, over smux and over quic.
SPECIFICATION FairSpec
CONSTANTS
    Kinds <- Both
    Capacity = 1
    MaxSent = 2
\* a connection ends
CHECK_DEADLOCK FALSE
INVARIANTS
    WholeAnswer
PROPERTIES
    Implements
    Ends
