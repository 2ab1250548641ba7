SPECIFICATION FairSpec
CONSTANTS
    c1 = c1
    Configs = {c1}
    NoConfig = none
    Layout <- Chained
    Commanded = {c1}
    RunOnce = TRUE
    Disruptions = {"corrupt"}
    MaxDisruptions = 1
    MaxGen = 1
    MaxRev = 1
PROPERTIES ExpectedIsInPlace
