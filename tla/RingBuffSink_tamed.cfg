\* Calls of the consumer between flushes, overwriting flushes alone: what
\* the ring promises of its window.
SPECIFICATION TamedSpec
CONSTANTS
    p1 = p1
    p2 = p2
    Producers = {p1, p2}
    NoByte = NoByte
    Size = 3
    LineCap = 6
    Word = 16
    MaxCall = 4
    MaxRead = 4
    MaxTotal = 9
SYMMETRY ProducerSymmetry
INVARIANTS
    WindowIntact
    ReadsWindow
    AvailableBounded
PROPERTIES
    OnlyOldestLost
    ReadsAdvance
