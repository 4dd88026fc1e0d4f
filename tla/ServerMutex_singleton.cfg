SPECIFICATION Spec
CONSTANTS
    Servers = {a, b}
    Hosts = {a, b}
    HostOf <- MCHostOfItsOwn
    Nobody = Nobody
    Stale = Stale
    Reliable = TRUE
INVARIANT SingleServer
