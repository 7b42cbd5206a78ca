SPECIFICATION MCSpec
CONSTANTS
    Sandboxes = {s1, s2}
    MaxLive = 1
    MaxFaults = 3
CHECK_DEADLOCK FALSE
INVARIANTS
    SandboxesAreTrue
    SlotMeansGone
PROPERTIES
    SandboxesEnd
