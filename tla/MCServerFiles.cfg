\* Three uploads and two downloads of a name; three lines of a log that two
\* daemons print to and two requests empty.
SPECIFICATION FilesSpec
CONSTANTS
    u1 = u1
    u2 = u2
    u3 = u3
    d1 = d1
    d2 = d2
    l1 = l1
    l2 = l2
    p1 = p1
    p2 = p2
    Uploads <- ThreeUploads
    Downloads <- TwoDownloads
    Clears <- TwoClears
    Daemons <- TwoDaemons
    MaxLines = 3
    NoFile = NoFile
\* requests and lines are bounded
CHECK_DEADLOCK FALSE
CONSTRAINT OneAtATime
INVARIANTS
    DownloadOne
    LogLost
