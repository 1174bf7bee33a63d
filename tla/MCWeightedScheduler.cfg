\* One scope always finds the same two providers, the other one any that are
\* left of three; the user removes and creates the third.
SPECIFICATION Spec
CONSTANTS
    Providers = {1, 2, 3}
    Weights <- GivenWeights
    Scopes <- TwoScopes
    CandidateSets <- Mixed
    Requests = {r1}
    Removable = {3}
INVARIANTS
    TypeOK
    FairShare
    NoDrift
    NoStarvation
