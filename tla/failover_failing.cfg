CONSTANTS
    gemini = gemini
    claude = claude
    Drivers <- MCDrivers
    Priority <- MCPriority
    Callers = {c1, c2}
    Threshold = 3
    Recovery = 2
    Cap = 3
SPECIFICATION FairSpec
PROPERTY FailingRecovers
