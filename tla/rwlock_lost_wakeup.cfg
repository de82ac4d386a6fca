CONSTANTS
    ReadTasks = {r1, r2}
    WriteTasks = {w1}
    NotifyOnCancel = FALSE
SPECIFICATION Spec
INVARIANT NoLostWakeup
