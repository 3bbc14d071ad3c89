\* Two updates and a deployment, one after the other or overlapping.
SPECIFICATION FairSpec
CONSTANTS
    Boot = Boot
    u1 = u1
    u2 = u2
    d1 = d1
    Updates <- TwoUpdates
    Deployments <- OneDeployment
\* requests are bounded, and the machine may lose its server
CHECK_DEADLOCK FALSE
INVARIANTS
    LostOnly
    OwnBuild
PROPERTIES
    HandsOver
