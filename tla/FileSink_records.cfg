\* Records of several calls, two threads: are a record's bytes adjacent?
SPECIFICATION Spec
CONSTANTS
    t1 = t1
    t2 = t2
    Threads = {t1, t2}
    NoThread = NoThread
    FirstFile = 1
    Cap = 2
    MaxCall = 1
    MaxBytes <- Even
    MaxOpens = 1
SYMMETRY ThreadSymmetry
INVARIANT
    RecordsContiguous
