SPECIFICATION ClusterSpec
CONSTANTS
    Scenarios <- Clusters
    A = A
    B = B
    C = C
    S = S
    T = T
INVARIANTS
    
    ClusterSound
    
    
CHECK_DEADLOCK FALSE
