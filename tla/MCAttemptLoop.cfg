\* Both transports, two retries of each source.
SPECIFICATION FairSpec
CONSTANTS
    a = a
    b = b
    c = c
    NoSource = NoSource
    Sources = {a, b, c}
    Modes = {"buffered", "streaming"}
    Plans <- AllPlans
    MaxRetries = 2
    Budget = 3
    Delays = {1, 4}
    Durations = {0, 2}
    MaxLate = 1
    MaxRotations = 2
INVARIANTS
    TypeOK
    PassBudget
    WaitBudget
    FallbackOnce
PROPERTIES
    FallbackSchedulesNothing
    BufferedInOrder
    Ends
CHECK_DEADLOCK FALSE
