\* Three reservations compete for two products of 0 to 2 units: sold out,
\* just enough and spare units all occur; a batch of two splits a backlog of three.
SPECIFICATION Spec
CONSTANTS
    OrderId = {o1, o2, o3}
    Product = {p1, p2}
    Customer = {alice}
    MaxQuantity = 2
    BatchSize = 2
SYMMETRY Symmetry
INVARIANTS TypeOK Accounting NoOversell IntentAgreesWithStatus
PROPERTIES Lifecycle
CHECK_DEADLOCK FALSE
