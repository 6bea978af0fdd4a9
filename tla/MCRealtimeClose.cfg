SPECIFICATION WorkerSpec
CONSTANTS
    vic = vic
    Selections = {1, 2, 3}
    Symbol <- MCSymbol
    DecisionAt <- MCDecisionAt
    Corrupt = {}
    Lifetime = 2
    Notifiers = {}
    Timeout = 1
    Lease = 2
    MaxAttempts <- MCMaxAttempts
    RetryAfters = {}
    Disconnects = {1, 2}
    MaxTime = 4
    Capacity = 2
    MaximumAttempts = 2
    DatabaseFails = FALSE
INVARIANTS ClosePersistsDisconnect
CHECK_DEADLOCK FALSE
