SPECIFICATION Spec
CONSTANTS
    None = None
    Runs = 2
    DayOf <- MCDayOf
    MaxRevisions = 1
    MaxKills = 1
    s1 = s1
    s2 = s2
    s3 = s3
    s4 = s4
    Sessions = {s1, s2, s3, s4}
    Starts <- MCStarts
    Clocks = 2
    Selects <- MCSelects
    LiveIndex = {s3, s4}
    Malformed = {s2}
    JobAttempts = 2
    MaxIndexRevisions = 2
    Papers = {p1, p2}
    Days = 2
    MaxVersions = 2
    ArxivAttempts = 5
    ann = ann
    bob = bob
    Archive <- MCArchive
    GithubAttempts = 7
    g1 = g1
    g2 = g2
    l1 = l1
    l2 = l2
    TradeDates = 5
    Targets = {g1, g2}
    Evidence <- MCEvidence
    Configurations <- MCConfigurations
    Gate <- MCGate
    Development = 2
    Purge = 1
    Holdout = 1
    RateQuanta = 10
    MaxReruns = 1
    LateManifests = 1
    c1 = c1
    c2 = c2
    PageCounts <- MCPageCounts
    Configs = {c1, c2}
    SdkOutputs <- MCSdkOutputs
    MaxOutput = 2
    LensLimits <- MCLensLimits
    Clis = {operator}
    MaxRecords = 2
    OcrAttempts = 3
INVARIANTS PaperIsEarned EvidenceIsProven
    RestTablesConsistent ResearchMatrixWhole ChildrenMatchPapers CurrentIsLatest
    DocumentsAreReadable
PROPERTIES PapersMoveForward
CHECK_DEADLOCK FALSE
