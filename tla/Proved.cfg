SPECIFICATION AllSpec
CONSTANTS
    BioTypes = {"aof_fsync", "lazy_free"}
    Callers = {"main"}
    MaxJobs = 2
    Byte = {0, 1}
    Junk = 2
    MinSize = 2
    MaxSize = 3
    MaxFeed = 4
    MaxOffset = 6
    Hosts = {"a", "b"}
    ApolloScenarios <- Leases
    Scenarios <- Deployments
    BlockScenarios <- Blockings
    a1 = a1
    a2 = a2
    b1 = b1
    b2 = b2
    b3 = b3
    r1 = r1
    r2 = r2
    r3 = r3
INVARIANTS
    FifoExactlyOnce
    PendingZeroMeansDone
    Contents
    PartialResyncExact
    
    
    ModuleClientsSound
PROPERTIES
    IsAWindow
    ImplementsElection
SYMMETRY Symmetry
CHECK_DEADLOCK FALSE
