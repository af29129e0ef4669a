\* Two requests, the first or both of them warm-up; a crash leaves a stray behind.
SPECIFICATION FairSpec
CONSTANTS
    N = 2
    ManySkus = 2
    NumArms = 1
    Flags <- MCFlags
    MaxCommands = 2
    MaxFaults = 2
INVARIANTS ChecksAreFair NoAppLeft ReportsAreReal
PROPERTIES CommandEnds
CHECK_DEADLOCK FALSE
