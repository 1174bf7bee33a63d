\* Three sessions, one request at a time, two providers of equal weight.
SPECIFICATION SelectionSpec
CONSTANTS
    Providers = {1, 2}
    NoProvider = NoProvider
    Weights <- EqualWeights
    Scopes <- OneScope
    CandidateSets <- Steady
    Requests = {r1}
    Removable = {}
    Keys = {k, l, m}
    NoKey = NoKey
    PlainRequests = {}
    SessionRounds = 2
    MissThreshold = 2
    Capacity = 3
    Timeout = 0
    MaxTime = 0
INVARIANT SessionsFollowWeights
