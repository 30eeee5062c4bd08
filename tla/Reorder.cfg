SPECIFICATION Spec
CONSTANTS
    n1 = n1
    n2 = n2
    n3 = n3
    k1 = k1
    k2 = k2
    Node = {n1, n2}
    Key = {k1, k2}
    Value = {v1}
    NoValue = NoValue
    GracePeriod = 1
    Cluster <- OneCluster
    Mortal = {}
    WriteLimit <- FourWrites
    Rooms = {2, 9}
    MaxInFlight = 2
    MaxDelay = 0
SYMMETRY KeySymmetry
INVARIANTS
    AuthenticReplicas
    NoResurrectedKey
    OwnStateIntact
    FaithfulAboveCollection
PROPERTIES
    ReplicasOnlyFreshen
CONSTRAINT FewInFlight
