SPECIFICATION FairSpec
CONSTANTS
    apache = apache
    haproxy = haproxy
    list = list
    mount = mount
    iis = iis
    rras = rras
    c1 = c1
    c2 = c2
    k1 = k1
    k2 = k2
    x1 = x1
    x2 = x2
    www = www
    localhost = localhost
    Sources = {apache, haproxy, mount, iis, rras}
    Lists = {list}
    Provider <- OneOfEach
    Contents <- What
    Platforms <- Both
    MountPoint <- Mounts
    Whitelist <- Below
    Qualified = {www}
    MaxBindings = 1
    Modes = {"service", "once"}
    None = none
    MaxEdits = 1
    MaxFaults = 1
INVARIANTS NothingInvented NothingMissed IndInv
PROPERTIES RegisteredIsReported
