\* Three nodes that may name each other in every way; two validators to dial.
CONSTANTS
    n1 = n1
    n2 = n2
    n3 = n3
    Addresses <- MCAddresses
    SeedLists <- MCSeedLists
    Graphs <- MCGraphs
    MaxNodes <- MCMaxNodes
    MaxDepth <- MCMaxDepth
    FewPeers = 1
    MaxHops = 1
    NoAddress = none
    Validators = 2
    MaxDefects = 1
    None = None
    Requests <- MCRequests
SPECIFICATION FairSpec
INVARIANTS
    TypeOK
    CrawlComplete
    IsolationHonest
    TopologyTrue
    CleanMeansVouched
    NoFalseAlarm
PROPERTIES
    AuditsEnd
CHECK_DEADLOCK FALSE
