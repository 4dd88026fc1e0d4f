--------------------------- MODULE MCServerMutex ---------------------------
EXTENDS ServerMutex

\* One process per host: Hosts is given the same value as Servers.
MCHostOfItsOwn == [i \in Servers |-> i]

\* A server named in Hosts has a host of its own, the others share one.
MCSharedHost ==
    [i \in Servers |-> IF i \in Hosts THEN i
                      ELSE CHOOSE h \in Hosts : h \notin Servers]
=============================================================================
