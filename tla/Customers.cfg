\* Two requests, two users, two addresses: every arm, with and without the cache.
SPECIFICATION FairSpec
CONSTANTS
    Request = {r1, r2}
    Subject = {alice, bob}
    Email = {e1, e2}
    OldEmail = e1
    Blank = blank
    Null = null
    Deployments <- AllDeployments
    Circulations <- TwoTokens
    MaxCalls = 3
    MaxFaults = 1
INVARIANTS TypeOK OrdersAreTheirCallers LostRaceIsRetried DeadlocksNeedAnUnsettledCaller
PROPERTY SubjectsKeep EveryCallEnds
CHECK_DEADLOCK FALSE
