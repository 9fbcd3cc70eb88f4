SPECIFICATION Spec
CONSTANTS
    n1 = n1
    n2 = n2
    k1 = k1
    k2 = k2
    v1 = v1
    vBig = vBig
    Node <- MCNode
    Config <- MCConfig
    Ring <- MCRing
    Key <- MCOneKey
    Value = {v1}
    KeySize <- MCKeySize
    ValueSize <- MCValueSize
    MaxKeySize = 2
    MaxValueSize = 2
    ReplicationFactor = 2
    Thread = {t1}
    Client = {c1}
    Started = {n2}
    Unreliable = FALSE
    Monitoring = {n2}
    Impatient = TRUE
    MaxCrashes <- MCOneCrash
    MaxQueue = 1
    NotFound = NotFound
    None = None
    Gone = Gone
INVARIANTS
    TypeOK
    OneConnectionOnePlace
    ReplicatedWriteNeverAcked
CHECK_DEADLOCK FALSE
