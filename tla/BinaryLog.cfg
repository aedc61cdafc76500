\* Every integer of a word and every boundary length of a string in the first
\* record, another record of a mixed program after it, cut at every byte.
SPECIFICATION Spec
CONSTANTS
    MaxWidth = 2
    Chunk = 2
    NoName = ""
    Versions <- OldAndNew
    Staging <- Caps
INVARIANTS
    TypeOK
    DecodesWhatWasLogged
    EveryRecordDecoded
    FormattingEnds
