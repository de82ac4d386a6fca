SPECIFICATION SessionSpec
CONSTANTS
    NAgents = 2
    MaxParseFailures = 2
    MaxErrors = 2
    MaxStalemate = 2
    Window = 2
    KernelPeriod = 1
    Cap = 2
    KernelOn = FALSE
    FastPathOn = FALSE
    SwarmOn = TRUE
    HiveOn = FALSE
    Commands = {"evolve"}
    MaxLoop = 3
    MaxDebate = 2
    Checkpoint = 2
    EvolveTrigger = 1
INVARIANTS
    NoEvolutionAtPrompt
