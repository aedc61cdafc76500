\* Two files of up to two calls, edited three times, runs killed anywhere.
SPECIFICATION Spec
CONSTANTS
    FileCount = 2
    Workers = {w1}
    NoName = ""
    Chains <- SomeChains
    StartFiles <- NoCalls
    MaxCalls = 2
    MaxEdits = 3
INVARIANTS
    TypeOK
    SchemaInSync
    IdsDistinct
    IdsStable
    RetiredIdsRest
PROPERTY
    RerunConverges
