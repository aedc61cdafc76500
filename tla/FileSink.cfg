\* Two threads, calls of one to three bytes against a buffer of two, init()
\* opening the first file meanwhile; threads inside a call are scheduled.
SPECIFICATION FairSpec
CONSTANTS
    t1 = t1
    t2 = t2
    Threads = {t1, t2}
    NoThread = NoThread
    FirstFile = 0
    Cap = 2
    MaxCall = 3
    MaxBytes <- OneLonger
    MaxOpens = 1
INVARIANTS
    TypeOK
    StagingFits
    StreamIntact
    CallsContiguous
    ExitDrains
PROPERTIES
    ImplementsCallLog
    CallsReturn
    ExitCompletes
