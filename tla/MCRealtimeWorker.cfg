SPECIFICATION FairWorkerSpec
CONSTANTS
    vic = vic
    Selections = {1, 2, 3}
    Symbol <- MCSymbol
    DecisionAt <- MCDecisionAt
    Corrupt = {}
    Lifetime = 1
    Notifiers = {}
    Timeout = 1
    Lease = 2
    MaxAttempts <- MCMaxAttempts
    RetryAfters = {}
    Disconnects = {1, 2}
    MaxTime = 3
    Capacity = 1
    MaximumAttempts = 2
    DatabaseFails = TRUE
INVARIANTS PersistedIsDurable
PROPERTIES WritesInOrder DisconnectPersisted
CHECK_DEADLOCK FALSE
