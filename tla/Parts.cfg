SPECIFICATION Spec
CONSTANTS
    p1 = p1
    p2 = p2
    p3 = p3
    p4 = p4
    Member <- MCMember
    Seed <- MCMember
    DnsHosted <- MCDnsHosted
    Cuts <- MCCuts
    MaxCuts = 1
    content = content
    Key <- MCKey
    Value = {content}
    NoValue = NoValue
    GracePeriod = 1
    Handle = {1, 2}
    Prefix <- MCPrefix
    WideChar = {3}
    Histories <- MCHistories
    NoUpdate = NoUpdate
    MaxPayloads = {300, 32795, 65507, 10000000}
    DigestSizes = {3, 2690, 3000}
    Ids <- MCIds
    KeyValueShapes <- MCShapes
    MaxOps = 4
    Acceptor = {1, 2}
    MaxConnections = 3
    MaxStarts = 2
    MaxMessages = 4
    MaxLinks = 2
    CHANNEL_CAPACITY = 2
    SOFT_LEN_THRESHOLD = 2
    MaxClients = 2
    MaxBlocks = 3
    ShortBlocks = {3}
    BroadcastCapacity = 1
    JoinCapacity = 1
INVARIANTS
    TypesOK
    PromisedLength
    DeltaWithinMtu
    DeltaRoundTrip
    OverrunBounded
    SplitsAreBridged
    ListenersUpToDate
    AcceptorsAwake
    ConnectionsConserved
PROPERTIES
    ToldInOrder
    ContiguousFeed
    ImplementsLossyChannel
    StopReturns
    NewestArrives
    DeafServerEnds
    FailureStopsServer
CHECK_DEADLOCK FALSE
