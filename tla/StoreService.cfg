SPECIFICATION Spec
CONSTANTS
    s1 = s1
    s2 = s2
    g1 = g1
    k1 = k1
    k2 = k2
    Sites = {s1}
    Gateways = {g1}
    Certificates = {k1}
    NoConfig = none
    NoThumb = nothumb
    RunOnce = FALSE
    Disruptions = {"crash", "delete", "poll", "save", "store", "fetch", "import", "site", "ssl", "remove", "rras", "report"}
    MaxDisruptions = 3
    MaxGen <- Renewed
    MaxRev <- Edited
    Offers <- Shared
INVARIANTS IndInv
PROPERTIES PassesEnd VisitsInstall NeverUnbound
