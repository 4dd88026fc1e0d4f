SPECIFICATION Spec
CONSTANTS
    Servers = {a, b, c, d}
    Hosts = {a, b, h}
    HostOf <- MCSharedHost
    Nobody = Nobody
    Stale = Stale
    Reliable = TRUE
INVARIANTS TypeOK LateComerYields 
PROPERTY ImplementsInstance
