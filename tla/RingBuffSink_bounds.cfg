\* One producer, lines of up to one and a half rings: does a copy stay inside?
SPECIFICATION Spec
CONSTANTS
    p1 = p1
    Producers = {p1}
    NoByte = NoByte
    Size = 4
    LineCap = 6
    Word = 16
    MaxCall = 6
    MaxRead = 1
    MaxTotal = 9
INVARIANT CopyInBounds
