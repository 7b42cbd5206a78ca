CONSTANTS
    Own = "own"
    Repos = {"own", "other"}
    Limit = 3
    Ceiling = 4
    PlanningCost = 2
    MaxAttempts = 2
    MaxThreads = 2
    MaxNotes = 1
    MaxBacklog = 1
    MaxFaults = 2
SPECIFICATION MCSpec
INVARIANT SessionIsTrue
PROPERTY AdapterPromise
PROPERTY InvocationEnds
CHECK_DEADLOCK FALSE
