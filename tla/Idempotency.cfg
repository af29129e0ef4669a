\* Requests on two keys and two products, with crashes, failed statements and lost answers.
SPECIFICATION FairSpec
CONSTANTS
    Request = {r1, r2, r3}
    Key = {k1, k2}
    Product = {p1, p2}
    NoOrder = NoOrder
    MaxOrders = 3
    MaxFaults = 2
INVARIANTS OneOrderPerAnsweredKey AnswersAgree
PROPERTIES RecordedForGood ClaimSettled
