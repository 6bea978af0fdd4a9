SPECIFICATION Spec
CONSTANTS
    VIC = VIC
    VHM = VHM
    INDEX = INDEX
    HOSE = HOSE
    None = None
    Symbols <- MCSymbols
    Indices = {INDEX}
    Markets = {HOSE}
    StreamIds = {1, 2}
    BarInterval = 2
    QuoteDepth = 1
    TradeStale = 2
    QuoteStale = 2
    Schedule <- MCSchedule
    Windows <- MCWindows
    Cadence = 2
    Warmup = 1
    DecisionSessions = {"continuous_am"}
    One = 100
    Bps = 100
    ContextPolicy <- MCContext
    BreadthPolicy <- MCBreadth
    Membership <- MCMembership
    Minute = 2
    Short = 2
    Medium = 3
    Long = 4
    PeerLag = 2
    Policy <- MCPolicy
    SymbolRank <- MCRank
    Menus <- MCMenus
    Regimes <- MCRegimes
    BasePrice = 10
    Start = 2
    FirstBatch <- MCFirst
    LastBatch <- MCLast
    MaxSessions = 2
CHECK_DEADLOCK FALSE
INVARIANTS
    SnapshotsArePointInTime
    BarsAreTheirTrades
    SelectionsAreAuthorised
    CooldownHolds
    CertifiedVolumeComplete
