\* Two files of one or two statements as they may be written, cut once.
SPECIFICATION TextSpec
CONSTANTS
    FileCount = 2
    Workers = {w1}
    NoName <- Unnamed
    Chains <- SomeChains
    StartFiles <- SomeCalls
    MaxCalls = 4
    MaxEdits = 0
    Words <- Names
    MaxId = 99
    Origins <- SomeFiles
    MaxCuts = 1
INVARIANTS
    StatementsFound
    OnlyBracesChange
    FreshIsFixed
    
PROPERTIES
    ImplementsPreproc
    NothingWrittenOnError
