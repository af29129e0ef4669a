\* Two workers, one order, every event type, one of them unreadable; two crashes or transient errors.
SPECIFICATION FairSpec
CONSTANTS
    OrderId = {1}
    Product = {p1}
    Customer = {alice}
    MaxQuantity = 1
    BatchSize = 1
    Worker = {w1, w2}
    Types = {"succeeded", "failed", "other"}
    MaxAttempts = 2
    MaxFaults = 2
INVARIANTS StampsAreTrue EffectsHaveCauses
PROPERTIES ProcessedForGood PaymentDecided
CHECK_DEADLOCK FALSE
