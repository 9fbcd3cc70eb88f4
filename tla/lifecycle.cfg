SPECIFICATION FairSpec
CONSTANTS
    Worker = {w1}
    Conn = {c1, c2}
    NoConn = NoConn
    Signal = {s1, s2}
INVARIANTS
    TypeOK
    DeafMissedSignal
    MonitorOutlived
    ExitServesAll
PROPERTIES
    StopLeadsToSave
    EndsUnlessHeld
