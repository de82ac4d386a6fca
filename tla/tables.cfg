CONSTANTS
    Callers = {c1, c2, c3}
    Writes = {"set", "update", "fresh", "get_or_set", "delete", "clear_expired", "expire_if"}
    Timed = TRUE
    Cap = 3
    Tokens = {root, t1, t2}
    Root = root
    Callbacks = {b1, b2}
    Background = {j1, j2}
    Cancellers = {k1, k2}
    Requests = {q1, q2}
    Requesters = {c1, c2, c3}
    MaxEntries = 1
    Threads = {t1, t2}
    MaxPerSession = 2
    MaxCreated = 3
    Queueable = {t1, t2, t3}
    MaxSize = 2
    Names = {n1, n2, n3}
    Workers = {w1, w2}
    MaxPending = 2
    MaxSubmits = 3
    Steps = {n1, n2, n3}
    Missing = missing
    Retries = 1
    MaxExecutions = 2
    Servers = {s1, s2}
    Home = s1
    Stops = {k1, k2}
    Locks = {l1, l2, l3, l4}
    Offline = {l4}
    NoLock = nobody
    Clerks = {k1, k2}
SYMMETRY Symmetry
SPECIFICATION TablesSpec
INVARIANTS FailsOnConflict CancelsOnceAndAll ErrorsReported ExecutedOnce
           SessionConsistent BlockedUntilComplete RunsOnceWhenReady RunsOnFreshResults EndsVisibly
           ExclusiveWhileLeased
PROPERTIES CountedNotLost CreatedOnce SettledIsFinal
CHECK_DEADLOCK FALSE
