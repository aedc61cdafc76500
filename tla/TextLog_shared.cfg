\* Two threads share pair_index_: a line is not what is documented.
SPECIFICATION Spec
CONSTANTS
    Threads = {t1, t2}
    Cap = 40
    Terminal = FALSE
    Assertions = FALSE
    Ids <- NoIds
    Statements <- Short
    MinLevels = {2}
    Mishaps = {}
    MaxStarts = 2
INVARIANTS
    LinesAsDocumented
