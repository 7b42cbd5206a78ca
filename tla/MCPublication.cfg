SPECIFICATION Spec
CONSTANTS
    MaxFaults = 3
    MaxAttempts = 4
    MaxDrift = 3
    MaxPRs = 3
INVARIANT PublicationIsTrue
PROPERTIES PushIsLeased RetriesDeliver
CHECK_DEADLOCK FALSE
