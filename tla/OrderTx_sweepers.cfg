\* Two sweepers in two processes, batches that span two products; no symmetry, for liveness.
SPECIFICATION FairSpec
CONSTANTS
    Request = {r1}
    Worker = {}
    Sweeper = {s1, s2}
    Product = {p1, p2}
    Customer = {alice}
    Calls = {"create", "reserve"}
    Arms = {"cte"}
    MaxOrders = 4
    MaxQuantity = 2
    BatchSize = 2
    MaxFaults = 0
PROPERTIES ImplementsOrderBook StockComesBack
CHECK_DEADLOCK FALSE
