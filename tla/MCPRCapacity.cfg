CONSTANTS
    Tasks = {t1, t2}
    Refreshers = {"housekeeping"}
    Limits = {1}
    MaxFaults = 1
SPECIFICATION FairSpec
INVARIANTS
    UnfinishedIsReserved
    
PROPERTIES
    
    CapacityReturns
