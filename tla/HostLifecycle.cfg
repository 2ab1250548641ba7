SPECIFICATION FairSpec
CONSTANTS
    default = default
    edge = edge
    Targets = {default, edge}
    Swept = {default, edge}
    Platforms = {"systemd", "bare", "windows"}
    NoFile = nofile
    Overlap = FALSE
    MaxAgents = 1
    MaxHits <- OnceDefault
INVARIANTS StopsFirst UninstallCleansUp LossesArePaidFor IndInv
PROPERTIES StopIsHeard
CHECK_DEADLOCK FALSE
