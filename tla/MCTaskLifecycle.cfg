SPECIFICATION MCSpec
CONSTANTS
    None = None
    Tasks = {"t1", "t2"}
    Commits = {c1}
    Operators = {"op1"}
    MaxRetries = 1
    MaxLog = 4
    MaxFaults = 3
    Concurrency = 2
    Branch <- MCOneBranch
    Deps <- MCChain
INVARIANTS
    WorkIsOwned
    MarkerMeetsNoOutput
    PushedIsAuthorized
    PrerequisitesFirst
PROPERTIES
    HistoryKept
