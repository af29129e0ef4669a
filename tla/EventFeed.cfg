\* The poller catching up after outages, and the poller beside the webhook.
SPECIFICATION FeedSpec
CONSTANTS
    EventId = {e1, e2, e3}
    InitialLookback = 5
    Interval = 1
    MaxDelay = 1
    Settings <- Covered
    MaxTime = 5
INVARIANTS NothingSteppedOver
PROPERTIES EveryEventRecorded
CHECK_DEADLOCK FALSE
