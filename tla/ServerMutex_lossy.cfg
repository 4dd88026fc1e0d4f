SPECIFICATION FairSpec
CONSTANTS
    Servers = {a, b, c}
    Hosts = {a, h}
    HostOf <- MCSharedHost
    Nobody = Nobody
    Stale = Stale
    Reliable = FALSE
PROPERTY SomebodyServes
