SPECIFICATION Spec
CONSTANTS
    default = default
    edge = edge
    Targets = {default, edge}
    Swept = {default, edge}
    Platforms = {"windows"}
    NoFile = nofile
    Overlap = FALSE
    MaxAgents = 1
    MaxHits <- None
PROPERTIES UninstallSparesOthers
CHECK_DEADLOCK FALSE
