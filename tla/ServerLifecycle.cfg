SPECIFICATION FairSpec
CONSTANTS
    Signals = {"INT", "QUIT", "TERM"}
    MaxRuns = 3
INVARIANTS TypeOK GoodbyeSaid GoodbyeIsLast PathRemoved OnlyRepeatHangs
           OnlineNeverExits
PROPERTY OneDeinitEnds
CHECK_DEADLOCK FALSE
