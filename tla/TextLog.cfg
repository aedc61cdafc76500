\* Two threads on a terminal, a buffer that holds one line exactly, a statement
\* that fails an assertion, and chains that throw, log in their arguments or lack
\* .write(), while init() puts a new encoder in place.
SPECIFICATION Spec
CONSTANTS
    t1 = t1
    t2 = t2
    Threads = {t1, t2}
    Cap = 10
    Terminal = TRUE
    Assertions = TRUE
    Ids <- ThreeIds
    Statements <- Mixed
    MinLevels = {4}
    Mishaps = {"thrown", "nested", "unwritten", "init"}
    MaxStarts = 3
INVARIANTS
    TypeOK
    OnlyFormsRace
    AloneAsDocumented
SYMMETRY ThreadSymmetry
