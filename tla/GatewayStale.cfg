SPECIFICATION FairSpec
CONSTANTS
    s1 = s1
    s2 = s2
    g1 = g1
    k1 = k1
    k2 = k2
    Sites = {s1}
    Gateways = {g1}
    Certificates = {k1}
    NoConfig = none
    NoThumb = nothumb
    RunOnce = TRUE
    Disruptions = {}
    MaxDisruptions = 0
    MaxGen <- IssuedOnce
    MaxRev <- OneEdit
    Offers <- Plain
PROPERTIES ChangedIsBound
