SPECIFICATION LinkedSpec
CONSTANTS
    Symbols <- TheSymbols
    Programs <- ThePrograms
    Orders <- TheOrders
    Within <- TheWithin
    B = 3
CHECK_DEADLOCK FALSE
INVARIANTS
    TypeOK
    EachRoundReaches
    NothingLeftBehind
    NothingUnneeded
    ProductExact
