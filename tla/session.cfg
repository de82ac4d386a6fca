SPECIFICATION SessionSpec
CONSTANTS
    NAgents = 2
    MaxParseFailures = 2
    MaxErrors = 2
    MaxStalemate = 2
    Window = 2
    KernelPeriod = 1
    Cap = 2
    KernelOn = FALSE
    FastPathOn = TRUE
    SwarmOn = TRUE
    HiveOn = TRUE
    Commands = {"evolve", "bootstrap", "swarm", "interrupt"}
    MaxLoop = 3
    MaxDebate = 2
    Checkpoint = 2
    EvolveTrigger = 1
INVARIANTS
    PromptAfterTask
    StagnationFromDebates
PROPERTIES DrivenToPrompt
