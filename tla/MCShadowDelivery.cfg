SPECIFICATION FairSpec
CONSTANTS
    vic = vic
    vhm = vhm
    n1 = n1
    n2 = n2
    Selections = {1, 2, 3}
    Symbol <- MCSymbol
    DecisionAt <- MCDecisionAt
    Corrupt = {3}
    Lifetime = 4
    Notifiers = {n1, n2}
    Timeout = 1
    Lease = 2
    MaxAttempts <- MCMaxAttempts
    RetryAfters = {1, 2}
    Disconnects = {1}
    MaxTime = 7
INVARIANTS AtMostOnce HonestStatus SendsHoldTheirLease
PROPERTIES FinalForever RateLimitSilencesAll EveryRecordEnds
CHECK_DEADLOCK FALSE
