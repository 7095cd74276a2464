SPECIFICATION LiveSpec
CONSTANTS
    RbSize = 6
    TmpSize = 2
    FileSize = 8
    Margin = 6
    CounterMod = 2
    MsgSizes = {2, 3}
    Levels = {0, 1, 2}
    SdFaults = {"begin", "open", "preAllocate", "truncate", "write"}
    MaxSends = 3
INVARIANTS TypeOK WritesFit FramesIntact StoppedLogComplete
PROPERTIES RingDrained
CHECK_DEADLOCK FALSE
