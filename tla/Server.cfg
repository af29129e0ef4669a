\* Two connections for a client and the three jobs.
SPECIFICATION FairSpec
CONSTANTS
    Client = {c1}
    MaxConns = 2
    stalePollMultiple = 1
    minPollerGrace = 1
    Null = null
INVARIANTS TypeOK ExitIsOrderly
PROPERTIES NobodyStarves ShutdownEnds FailureShows
CHECK_DEADLOCK FALSE
