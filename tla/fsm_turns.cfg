SPECIFICATION Spec
CONSTANTS
    NAgents = 3
    MaxParseFailures = 3
    MaxErrors = 3
    MaxStalemate = 3
    Window = 3
    KernelPeriod = 2
    Cap = 3
    KernelOn = TRUE
    FastPathOn = FALSE
    SwarmOn = TRUE
    HiveOn = TRUE
INVARIANTS
    EvolutionModeExact
    PanicSafety
    ResultOwned
    CrossValidated
    ErrorsHalt
PROPERTIES
    HaltedUntilReset
