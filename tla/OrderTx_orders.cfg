\* Two requests with all three strategies, a worker and a sweeper race over two orders of one product.
SPECIFICATION Spec
CONSTANTS
    Request = {r1, r2}
    Worker = {w1}
    Sweeper = {s1}
    Product = {p1}
    Customer = {alice}
    Calls = {"create", "reserve", "checkout", "cancel"}
    Arms = {"baseline", "reserve-last", "cte"}
    MaxOrders = 2
    MaxQuantity = 1
    BatchSize = 2
    MaxFaults = 1
SYMMETRY Symmetry
INVARIANTS BackstopsNeverFire NoFalseAlarm NoSilentLoss NoLockCycle
PROPERTIES ImplementsOrderBook
CHECK_DEADLOCK FALSE
