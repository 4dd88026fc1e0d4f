SPECIFICATION Spec
CONSTANTS
    MaxChannels = 4
    MaxChunk = 40
    Room = 12
INVARIANTS TypeOK PackageExact AtMostOneStray OnlyFirstFrames
