\* One session, two requests, candidates that come and go.
SPECIFICATION SelectionSpec
CONSTANTS
    Providers = {1, 2}
    NoProvider = NoProvider
    Weights <- GivenWeights
    Scopes <- OneScope
    CandidateSets <- Changing
    Requests = {r1, r2}
    Removable = {2}
    Keys = {k}
    NoKey = NoKey
    PlainRequests = {r2}
    SessionRounds = 1
    MissThreshold = 2
    Capacity = 1
    Timeout = 0
    MaxTime = 1
PROPERTY TableSpec
