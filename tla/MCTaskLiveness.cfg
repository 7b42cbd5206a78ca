SPECIFICATION FairSpec
CONSTANTS
    None = None
    Tasks = {t1}
    Commits = {c1}
    Operators = {"op1"}
    MaxRetries = 1
    MaxLog = 2
    MaxFaults = 2
    Concurrency = 1
    Branch <- MCBranch
    Deps <- MCNoDeps
PROPERTIES
    
    WorkSettles
