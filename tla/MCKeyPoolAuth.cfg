\* The documented rule that only the operator clears authentication marks.
SPECIFICATION Spec
CONSTANTS
    NKeys = 1
    Daily = {}
    Switched = {}
    Requests = {r1, r2}
    Ttl = 2
    Cooldown = 1
    DayLen = 2
    MaxTime = 2
    MaxPasses = 1
PROPERTIES
    AuthMarksManualOnly
