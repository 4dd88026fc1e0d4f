SPECIFICATION Spec
CONSTANTS
    Speakers = {s1}
    Nobody = Nobody
    SpeakerTimeout = 1
    UnsetFd <- MCMinusOne
    BaseFds = {3, 4, 5, 6}
    PushFd = 6
    MaxFd = 8
    Conns = {c1}
INVARIANT HttpNeverAborts
