SPECIFICATION MCSpec
CONSTANTS
    None = None
    NumRequests = 2
    SeedLimit = 1
    MaxRetries = 1
    MaxCycles = 2
    MaxBatches = 1
    MaxFaults = 1
INVARIANTS
    CyclesAreOwned
    PlansAnswerRequests
PROPERTIES
    PauseIsObeyed
    
