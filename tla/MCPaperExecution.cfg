SPECIFICATION SessionSpec
CONSTANTS
    vic = vic
    a1 = a1
    a2 = a2
    Symbols = {vic}
    Arbs = {a1, a2}
    ArbSymbol <- MCArbSymbol
    ArbPriority <- MCArbPriority
    ArbDigest <- MCArbDigest
    ExitFrom <- MCExitFrom
    Quotes <- MCQuotes
    StartCash <- MCStartCash
    StartPosition <- MCStartPosition
    BuyFeeBps = 15
    SellChargeBps = 25
    FloorPrice = 1
    CeilingPrice = 3
    TickSize = 1
    OrderQuantity = 2
    LotSize = 1
    MaxQuoteAge = 1
    LimitOffset = 0
    TimeInForce = 3
    MaxCycleQuantity = 2
    MaxOrderNotional = 6
    MaxCycles = 2
    MaxDailyLoss <- MCDailyLoss
    CashReserve = 10000
    Times = {2, 9}
    MaxIntents = 3
INVARIANTS OrdersKeepTheirLives CashReserveHeld
PROPERTIES LiquidityNotReused PriorityRespected
CHECK_DEADLOCK FALSE
