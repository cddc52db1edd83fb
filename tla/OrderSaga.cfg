\* Orders that compete for the stock of one product, with every failure.
SPECIFICATION GatewaySpec
CONSTANTS
    Orders = {o1, o2}
    Products = {p1}
    Quantities = {1, 2}
    Seed <- TwoEach
    BatchSize = 2
    Faults = {"timeout", "refused", "payment", "ordersRestart", "catalogRestart", "lostRead"}
INVARIANTS
    StockCoversOrders
    StockFollowsOrders
    SoldIsWhatWasHandled
    OneEventPerOrder
    FullViewAgrees
PROPERTIES
    SagasEnd
    EventsAreHandled
CHECK_DEADLOCK FALSE
