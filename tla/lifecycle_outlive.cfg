SPECIFICATION Spec
CONSTANTS
    Worker = {w1}
    Conn = {c1}
    NoConn = NoConn
    Signal = {s1}
INVARIANTS
    ObjectsOutliveTheLambda
