SPECIFICATION FairSpec
CONSTANTS
    service = service
    cron = cron
    register = register
    install = install
    k1 = k1
    k2 = k2
    NoKey = nokey
    NoName = noname
    NoFile = nofile
    Default = default
    Runs = {service}
    Once = {}
    Services = {service}
    Registers = {register}
    Installs = {install}
    Key <- Keyed
    Name <- OneName
    Prepared = TRUE
    WaitsFor <- Overlap
    MaxRev = 1
    MaxFaults = 2
INVARIANTS TypeOK CredentialsMatch
PROPERTIES ServiceComesUp
CHECK_DEADLOCK FALSE
