SPECIFICATION Spec
CONSTANTS
    NAgents = 2
    MaxParseFailures = 3
    MaxErrors = 3
    MaxStalemate = 3
    Window = 3
    KernelPeriod = 5
    Cap = 3
    KernelOn = FALSE
    FastPathOn = FALSE
    SwarmOn = TRUE
    HiveOn = TRUE
INVARIANTS
    CrossValidated
