CONSTANTS
    ReadTasks = {r1, r2, r3, w2}
    WriteTasks = {w1, w2}
    NotifyOnCancel = TRUE
    gemini = gemini
    claude = claude
    Callers = {c1, c2}
    Threshold = 3
    Recovery = 2
    Cap = 3
    BreakerCallers = {c1, c2, c3}
    BreakerThreshold = 2
    BreakerRecovery = 2
    MaxBackoff = 5
    BreakerCap = 4
    ProviderThreshold = 2
    ProviderRecovery = 1
    ProviderMaxBackoff = 2
    GlobalThreshold = 2
    GlobalRecovery = 1
    GlobalMaxBackoff = 2
    Threads = {c1}
    CascadeWindow = 1
    CascadeThreshold = 2
    CascadeCap = 2
SPECIFICATION GuardsSpec
INVARIANTS CountersExact NoLostWakeup LevelsMatchCounts CountsKept
PROPERTIES ImplementsAbstract SleepersAreWoken WriterServed
           OpenRunsItsTime OpenIsTested
           ProvidersAreBreakers OpensOnCascadeOnly GlobalIsProbed
