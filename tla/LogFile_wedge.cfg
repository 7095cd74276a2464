SPECIFICATION Spec
CONSTANTS
    RbSize = 6
    TmpSize = 2
    FileSize = 11
    Margin = 6
    CounterMod = 4
    MsgSizes = {2, 3}
    Levels = {0}
    SdFaults = {"open"}
    MaxSends = 5
INVARIANTS WritingMeansRecording
CHECK_DEADLOCK FALSE
