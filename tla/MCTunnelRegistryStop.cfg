\* Does a deleted tunnel whose clients keep connecting stop listening?
SPECIFICATION BusySpec
CONSTANTS
    p1 = p1
    p2 = p2
    Ports <- MCPorts
    MaxRequests = 2
    MaxActive = 2
    MaxErrors = 0
\* requests are bounded, and the process may end or lose its lock
CHECK_DEADLOCK FALSE
PROPERTIES
    DeletedTunnelStops
