SPECIFICATION FairSpec
CONSTANTS
    n1 = n1
    n2 = n2
    n3 = n3
    k1 = k1
    k2 = k2
    Node = {n1, n2, n3}
    Key = {k1, k2}
    Value = {v1}
    NoValue = NoValue
    GracePeriod = 1
    Cluster <- TwoClusters
    Mortal = {n1}
    WriteLimit <- TwoWrites
    Rooms = {2}
    MaxInFlight = 1
    MaxDelay = 0
INVARIANTS
    TypeOK
    ClusterIsolation
    FaithfulAboveCollection
PROPERTIES
    Converges
