SPECIFICATION Spec
CONSTANTS
    o1 = o1
    o2 = o2
    o3 = o3
    Observer = {o1}
    Subject = Subject
    Contents <- AllContents
    GracePeriod = 4
    MaxInterval = 2
    AliveFor = 3
    DeadAfter = 4
    MaxHeartbeat = 6
    MaxDelay = 1
    MaxInFlight = 1
INVARIANTS
    TypeOK
    ListsAgree
    HeardIsLive
