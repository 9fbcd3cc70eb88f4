SPECIFICATION Spec
CONSTANTS
    n1 = n1
    n2 = n2
    k1 = k1
    k2 = k2
    v1 = v1
    vBig = vBig
    Node <- MCNode
    Config <- MCConfig
    Ring <- MCRing
    Key <- MCTwoKeys
    Value = {v1, vBig}
    KeySize <- MCKeySize
    ValueSize <- MCValueSize
    MaxKeySize = 2
    MaxValueSize = 2
    ReplicationFactor = 1
    Thread = {t1, t2}
    Client = {c1, c2}
    Started = {n1, n2}
    Unreliable = FALSE
    Monitoring = {}
    Impatient = FALSE
    MaxCrashes <- MCNoCrash
    MaxQueue = 1
    NotFound = NotFound
    None = None
    Gone = Gone
SYMMETRY MCSymmetry
PROPERTIES
    IsAtomicStore
INVARIANTS
    OnlyReplicasStore
