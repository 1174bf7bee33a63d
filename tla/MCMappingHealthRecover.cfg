\* The documented recovery of a disabled row by a probe after its cooldown.
SPECIFICATION Spec
CONSTANTS
    NRows = 1
    Requests = {r1, r2}
    Threshold = 1
    Cooldown = 1
    MaxTime = 1
INVARIANTS
    DisabledRowsProbeable
