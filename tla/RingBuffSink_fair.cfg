\* Two producers and a consumer in any order, lines of up to three rings:
\* reservations, where the copies go, and that every call completes whatever
\* the other threads do.
SPECIFICATION FairSpec
CONSTANTS
    p1 = p1
    p2 = p2
    Producers = {p1, p2}
    NoByte = NoByte
    Size = 1
    LineCap = 3
    Word = 8
    MaxCall = 3
    MaxRead = 1
    MaxTotal = 3
INVARIANTS
    TypeOK
    ReservationsDisjoint
    CopiesInPlace
PROPERTIES
    FlushCompletes
    CallCompletes
