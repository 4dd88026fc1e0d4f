SPECIFICATION FairSpec
CONSTANTS
    Speakers = {s1}
    Nobody = Nobody
    SpeakerTimeout = 2
    UnsetFd = 0
    BaseFds = {3, 4, 5, 6}
    PushFd = 6
    MaxFd = 7
    Conns = {c1}
INVARIANTS TypeOK BaseSocketsOpen NoSocketLeak
PROPERTIES ImplementsLife SharedSocketSpared QuietCountsDown SilentSocketCloses
           SilentGoesOffline OfflineReleasesSocket
CHECK_DEADLOCK FALSE
