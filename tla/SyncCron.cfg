SPECIFICATION FairSpec
CONSTANTS
    c1 = c1
    Configs = {c1}
    NoConfig = none
    Layout <- Pfx
    Commanded = {c1}
    RunOnce = TRUE
    Disruptions = {"crash", "delete", "corrupt", "poll", "save", "stat", "fetch", "write", "perms", "cmd", "report"}
    MaxDisruptions = 3
    MaxGen = 2
    MaxRev = 2
INVARIANTS SyncedIsServed ServerNotMisled ReloadIsCoherent QuietIsCoherent
PROPERTIES Converges
