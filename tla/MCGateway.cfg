SPECIFICATION FairSpec
CONSTANTS
    Sandboxes = {s1}
    PerSandbox = 2
    Hosts = {h1, h2}
    Allowlist = {h1}
    tunnelLimit = 1
    summaryHostLimit = 1
    foldedNameLimit = 1
    perSourceLimit = 2
    MaxFaults = 2
CHECK_DEADLOCK FALSE
INVARIANTS
    ConnectionsAreExact
PROPERTIES
    
    RevokedTunnelsEnd
