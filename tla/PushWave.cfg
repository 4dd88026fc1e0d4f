SPECIFICATION FairSpec
CONSTANTS
    Chunk = 3
    MaxFirst = 5
    MaxChunks = 4
INVARIANTS TypeOK AtMostOneShortRead BrokenPipeOnlyByInterrupt HangsWithoutRest
           NoMutualWait
PROPERTIES WindsDown StreamEnds
CHECK_DEADLOCK FALSE
