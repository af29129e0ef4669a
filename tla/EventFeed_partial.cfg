\* An outage, and one poll that ends with an error.
SPECIFICATION FeedSpec
CONSTANTS
    EventId = {e1, e2, e3}
    InitialLookback = 5
    Interval = 1
    MaxDelay = 0
    Settings <- Exposed
    MaxTime = 4
PROPERTIES EveryEventRecorded
CHECK_DEADLOCK FALSE
