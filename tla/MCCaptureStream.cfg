SPECIFICATION Spec
CONSTANTS
    QueueSize = 2
    BatchSize = 2
    SpoolSize = 3
    MaxMessages = 2
    MaxSessions = 2
    MaxCrashes = 1
INVARIANT ManifestsAreComplete
PROPERTY StagedSurvives
CHECK_DEADLOCK FALSE
