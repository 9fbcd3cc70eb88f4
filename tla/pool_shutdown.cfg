SPECIFICATION FairSpec
CONSTANTS
    Worker = {w1, w2}
    Task = {t1, t2}
    NoTask = NoTask
PROPERTIES
    ShutdownReturns
