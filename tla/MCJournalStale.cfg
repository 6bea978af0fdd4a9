SPECIFICATION Spec
CONSTANTS
    Clocks <- MCClocks
    Cadence = 1
    Warmup = 1
    StaleAfter = 1
    Opening = 1
    Closing = 5
    Deadline = 5
    None = None
    MaxTime = 5
    MaxRows = 1
    MaxSessions = 2
    MaxProcesses = 2
CHECK_DEADLOCK FALSE
INVARIANT AuditFindsParity
