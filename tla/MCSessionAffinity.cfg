\* Two overlapping requests over three keys that compete for two entries.
SPECIFICATION Spec
CONSTANTS
    Providers = {a, b}
    NoProvider = NoProvider
    Keys = {k, l, m}
    NoKey = NoKey
    Requests = {r1, r2}
    CandidateSets <- AnySet
    MissThreshold = 2
    Capacity = 2
    Timeout = 2
    MaxTime = 4
SYMMETRY Symmetry
INVARIANTS
    TypeOK
    SameFirst
    WithinCapacity
PROPERTIES
    MovesAreEarned
    IdleIsForgotten
    OnlyOldestLost
