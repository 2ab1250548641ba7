SPECIFICATION Spec
CONSTANTS
    c1 = c1
    Configs = {c1}
    NoConfig = none
    Layout <- Chained
    Commanded = {c1}
    RunOnce = FALSE
    Disruptions = {"crash", "delete", "corrupt", "poll", "save", "stat", "fetch", "write", "perms", "cmd", "report"}
    MaxDisruptions = 3
    MaxGen = 2
    MaxRev = 2
INVARIANTS IndInv PassInv NoFalseAlarm
PROPERTIES NeverBackwards ImplementsDeployment PassesEnd VisitsInstall
