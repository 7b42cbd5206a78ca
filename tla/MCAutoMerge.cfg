SPECIFICATION MCSpec
CONSTANTS
    None = None
    N = 2
    MaxFaults = 2
    MaxMoves = 2
INVARIANTS
    MergeIsAuthorized
    OutcomeIsTrue
PROPERTIES
    MergeHistoryKept
    MergesResolve
