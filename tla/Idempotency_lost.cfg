\* The answer to a commit is lost: the key is released although its order exists.
SPECIFICATION Spec
CONSTANTS
    Request = {r1, r2}
    Key = {k1}
    Product = {p1, p2}
    NoOrder = NoOrder
    MaxOrders = 2
    MaxFaults = 1
INVARIANTS OneOrderPerKey
