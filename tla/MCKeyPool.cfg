\* Two requests over two keys, one of them reset daily.
SPECIFICATION Spec
CONSTANTS
    NKeys = 2
    Daily <- LastDaily
    Switched = {1}
    Requests = {r1, r2}
    Ttl = 2
    Cooldown = 1
    DayLen = 2
    MaxTime = 2
    MaxPasses = 3
SYMMETRY Symmetry
CONSTRAINT Bounded
INVARIANTS
    TypeOK
    MarkedKeyRests
    OneKeyProbe
PROPERTIES
    MarksAdvance
