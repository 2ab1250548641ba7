SPECIFICATION Spec
CONSTANTS
    service = service
    cron = cron
    register = register
    install = install
    k1 = k1
    k2 = k2
    NoKey = nokey
    NoName = noname
    NoFile = nofile
    Default = default
    Runs = {service, cron}
    Once = {cron}
    Services = {service}
    Registers = {register}
    Installs = {install}
    Key <- Keyless
    Name <- OneName
    Prepared = TRUE
    WaitsFor <- Alone
    MaxRev = 2
    MaxFaults = 3
INVARIANTS IndInv RegistrationsArePaidFor KeySticks NameSticks
PROPERTIES StaysRegistered
