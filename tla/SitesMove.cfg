SPECIFICATION FairSpec
CONSTANTS
    s1 = s1
    s2 = s2
    g1 = g1
    k1 = k1
    k2 = k2
    Sites = {s1, s2}
    Gateways = {}
    Certificates = {k1, k2}
    NoConfig = none
    NoThumb = nothumb
    RunOnce = TRUE
    Disruptions = {"crash", "delete", "poll", "save", "store", "fetch", "import", "site", "ssl", "remove", "rras", "report"}
    MaxDisruptions = 1
    MaxGen <- OneEach
    MaxRev <- TwoEdits
    Offers <- Movable
INVARIANTS SyncedIsBound ServerNotMisled
PROPERTIES SitesConverge
