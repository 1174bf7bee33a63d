\* Two requests, one row, through disabling, probing and manual recovery.
SPECIFICATION FairSpec
CONSTANTS
    NRows = 1
    Requests = {r1, r2}
    Threshold = 2
    Cooldown = 1
    MaxTime = 2
INVARIANTS
    TypeOK
    SingleFlight
PROPERTIES
    CountsRequests
    ServedNeverDisables
    GuardsFreed
