SPECIFICATION CatalogueSpec
CONSTANTS
    Run = {r1, r2}
    Admin = {a1}
    Ask = {q1, q2}
    File <- TwoSections
    Launches <- SomeLaunches
    MaxRows = 6
    MaxStarted = 3
    Scale = 2
    NoId = NoId
SYMMETRY Symmetric
CHECK_DEADLOCK FALSE
INVARIANTS CatalogueTypeOK RunCompletes CompleteMeansAll
PROPERTIES NoTwinsWhenAlone SafeModesKeepRows
