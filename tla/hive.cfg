CONSTANTS
    MaxItems = 1
    Steps = 2
    MaxAttempts = 4
    MaxRetries = 3
    MaxTurns = 0
    MaxCrashes = 2
    MaxTasks = 3
    Jobs = {j1, j2, j3}
    PoolSize = 2
SPECIFICATION MCSpec
INVARIANTS GuardsKept DurableFirst
PROPERTIES KeptUntilSuccess Answered PromptReturns CancelIsKept
CHECK_DEADLOCK FALSE
