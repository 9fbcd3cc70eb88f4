SPECIFICATION Spec
CONSTANTS
    k1 = k1
    k2 = k2
    kBig = kBig
    v1 = v1
    v2 = v2
    vBig = vBig
    Worker = {w1, w2}
    Key <- MCKey
    Value <- MCValue
    KeySize <- MCKeySize
    ValueSize <- MCValueSize
    MaxKeySize = 2
    MaxValueSize = 2
    NotFound = NotFound
    Garbled = Garbled
    MaxLog = 3
    CrashMidRequest = TRUE
    GracefulStop = TRUE
SYMMETRY MCSymmetry
INVARIANTS
    TypeOK
    RecoveryExact
    AppendOwnsTail
    InterruptedSaveNeverStale
PROPERTIES
    TruncationLosesNothing
