\* One session and two streams over smux or quic, under fairness.
SPECIFICATION FairSpec
CONSTANTS
    NoSession = NoSession
    s1 = s1
    t1 = t1
    t2 = t2
    Sessions <- OneSession
    Streams <- TwoStreams
    ProxyTypes = {"kcp", "quic"}
\* streams are bounded, and a handler may wait for ever for its request
CHECK_DEADLOCK FALSE
INVARIANTS
    ClosedIsQuiet
    AliveExact
    NoRemoteLeft
    LeftOpen
    ConfirmFirst
PROPERTIES
    Drains
