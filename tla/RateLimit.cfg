\* Two addresses, two callers of whom one is a vendor; refill takes as long as eviction.
SPECIFICATION Spec
CONSTANTS
    Ip = {i1, i2}
    Subject = {alice, bob}
    Vendors = {alice}
    PerIp = 2
    PerSubject = 1
    Burst = 3
    Idle = 2
    MaxListLimit = 3
    Word = 16
    Limits <- AllLimits
    Offsets <- AllOffsets
INVARIANT TypeOK
PROPERTY ImplementsTokenBuckets
SYMMETRY Symmetry
