SPECIFICATION MCSpec
CONSTANTS
    MaxEvents = 3
    MaxCopies = 2
    MaxSessions = 3
    MaxFaults = 2
    Channels = 2
    Pages = 2
    MaxPageTries = 2
    Operators = {"ann", "bo"}
    Strangers = {"cy"}
    MaxPending = 1
INVARIANTS ChatIsTrue DigestIsWhole
PROPERTY ChatRecovers
CHECK_DEADLOCK FALSE
