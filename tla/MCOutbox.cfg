SPECIFICATION FairSpec
CONSTANTS
    None = None
    Webhooks = {w1}
    Chats = {c1}
    MaxEvents = 2
    MaxPending = 1
    MaxAttempts = 2
    Retain = 1
    MaxFaults = 1
CHECK_DEADLOCK FALSE
INVARIANTS
    QueueIsTrue
PROPERTIES
    
    RowSettles
