\* Two workers, three files: the scan, and the end of every run.
SPECIFICATION FairSpec
CONSTANTS
    FileCount = 3
    Workers = {w1, w2}
    NoName = ""
    Chains <- TwoChains
    StartFiles <- NoCalls
    MaxCalls = 1
    MaxEdits = 1
INVARIANTS
    ScanComplete
    SlotsUnshared
PROPERTIES
    RunsEnd
