CONSTANT MaxTasks = 2
SPECIFICATION Spec
INVARIANT FallbackAfterError
CHECK_DEADLOCK FALSE
