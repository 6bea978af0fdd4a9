SPECIFICATION Spec
CONSTANTS
    Symbols = {vic}
    Arbitrations = {a1, a2}
    StartCash <- MCStartCash
    StartPosition <- MCStartPosition
    BuyFeeBps = 15
    SellChargeBps = 25
    Times = {0, 1}
    Lifetimes = {1}
    Quantities = {1, 2}
    Prices = {1, 2}
    StreamSessions = {1}
    ReceiveSequences = {1, 2}
    Shortfalls = {0, 20000}
    MaxIntents = 3
SYMMETRY Symmetry
INVARIANTS ReservationsMatchOrders LedgerConserved AverageWithinLimit
PROPERTIES TerminalOrdersAreFinal
CHECK_DEADLOCK FALSE
