SPECIFICATION FairSpec
CONSTANTS
    vic = vic
    a1 = a1
    a2 = a2
    Workers = {w1, w2}
    Accounts = {x, y}
    Symbols = {vic}
    Arbs = {a1}
    ArbSymbol <- MCArbSymbol
    ArbPriority <- MCArbPriority
    ArbDigest <- MCArbPriority
    ExitFrom <- MCExitFrom
    Quotes <- MCOneQuote
    StartCash <- MCStartCash
    StartPosition <- MCStartPosition
    BuyFeeBps = 15
    SellChargeBps = 25
    FloorPrice = 1
    CeilingPrice = 3
    TickSize = 1
    OrderQuantity = 1
    LotSize = 1
    MaxQuoteAge = 1
    LimitOffset = 0
    TimeInForce = 3
    MaxCycleQuantity = 1
    MaxOrderNotional = 6
    MaxCycles = 2
    MaxDailyLoss <- MCDailyLoss
    CashReserve = 0
    Times = {9}
    MaxIntents = 1
    MaxCrashes = 1

INVARIANT OneBudgetPerDay
PROPERTY OrdersEnd
CHECK_DEADLOCK FALSE
