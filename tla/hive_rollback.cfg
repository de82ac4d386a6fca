CONSTANTS
    MaxItems = 4
    Steps = 1
    MaxAttempts = 4
    MaxRetries = 3
    MaxTurns = 2
    MaxCrashes = 0
SPECIFICATION Spec
PROPERTIES RollbackForgets
