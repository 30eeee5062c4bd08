SPECIFICATION FairSpec
CONSTANTS
    o1 = o1
    o2 = o2
    o3 = o3
    Observer = {o1, o2}
    Subject = Subject
    Contents <- Digests
    GracePeriod = 3
    MaxInterval = 2
    AliveFor = 3
    DeadAfter = 4
    MaxHeartbeat = 3
    MaxDelay = 0
    MaxInFlight = 1
INVARIANTS
    NoEcho
PROPERTIES
    RelearnedFromLateObserver
    CrashDetected
