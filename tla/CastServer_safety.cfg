SPECIFICATION Spec
CONSTANTS
    Speakers = {s1, s2}
    Nobody = Nobody
    SpeakerTimeout = 1
    UnsetFd <- MCMinusOne
    BaseFds = {3, 4, 5, 6}
    PushFd = 6
    MaxFd = 7
    Conns = {}
SYMMETRY SpeakerSymmetry
INVARIANTS TypeOK BaseSocketsOpen NoSocketLeak OnlineHasTimeLeft OneEntryUnset
PROPERTY ImplementsLife
