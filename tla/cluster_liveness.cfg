SPECIFICATION FairSpec
CONSTANTS
    n1 = n1
    n2 = n2
    k1 = k1
    k2 = k2
    v1 = v1
    vBig = vBig
    Node <- MCNode
    Config <- MCConfig
    Ring <- MCRing
    Key <- MCOneKey
    Value = {vBig}
    KeySize <- MCKeySize
    ValueSize <- MCValueSize
    MaxKeySize = 2
    MaxValueSize = 2
    ReplicationFactor = 2
    Thread = {t1}
    Client = {c1, c2}
    Started = {n2}
    Unreliable = TRUE
    Monitoring = {n2}
    Impatient = FALSE
    MaxCrashes <- MCOneCrash
    MaxQueue = 1
    NotFound = NotFound
    None = None
    Gone = Gone
PROPERTIES
    OnlyHeldPoolsBlock
    MonitorConverges
    SlowIsNotSuspected

    
CHECK_DEADLOCK FALSE
