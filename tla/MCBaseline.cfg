SPECIFICATION FairSpec
CONSTANTS
    None = None
    NumChecks = 2
    NumCommands = 2
    MaxFaults = 1
INVARIANTS
    CheckIsTrue
PROPERTIES
    FinishedIsFinal
    ChecksEnd
