\* One producer, a read at any moment: is a line committed atomically?
SPECIFICATION Spec
CONSTANTS
    p1 = p1
    Producers = {p1}
    NoByte = NoByte
    Size = 2
    LineCap = 2
    Word = 8
    MaxCall = 2
    MaxRead = 2
    MaxTotal = 4
INVARIANT ReadsCommitted
