SPECIFICATION BlockedSpec
INVARIANTS
    BlockedSound
    WaitSound
PROPERTY ServedInOrder
CONSTANTS
    TransactionScenarios = {}
    i1 = i1
    i2 = i2
    i3 = i3
    r1 = r1
    r2 = r2
    r3 = r3
    c1 = c1
    c2 = c2
    c3 = c3
    k1 = k1
    k2 = k2
SYMMETRY ThreeClients
CHECK_DEADLOCK FALSE
