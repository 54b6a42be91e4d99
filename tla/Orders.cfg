CONSTANTS
    o1 = o1
    o2 = o2
    o3 = o3
    milk = milk
    bread = bread
    m1 = m1
    m2 = m2
    b1 = b1
    Orders = {o1, o2}
    Items = {milk, bread}
    Lots = {m1, m2, b1}
    ItemOf <- LotItem
    Expiry <- LotExpiry
    Stock <- LotStock
    Initial = {m1, b1}
    Carts <- AllCarts
    Custom = Custom
    AnyLot = AnyLot
    NoOrder = NoOrder
    MaxFaults = 1
    MaxCrashes = 1
    MaxRecoveries = 1
SPECIFICATION LiveSpec
INVARIANTS
    TypeOK
    StockAddsUp
    SucceededIsCommitted
    HeldIsExplained
PROPERTIES
    ImplementsInventory
    OrdersEnd
CHECK_DEADLOCK FALSE
