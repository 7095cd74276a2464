SPECIFICATION FairSpec
CONSTANTS
  Files = {"a", "e"}
  Blocks <- MCTwoFiles
  ShortLast = TRUE
  MaximumRepeats = 3
  Coalesce = TRUE
  Patient = TRUE
  CardFails = FALSE
  UsbCommands = {"log", "lstop"}
  MaxGets = 2
  MaxPings = 1
  MaxLosses = 1
  MaxFlaps = 1
  MaxUsb = 2
  MaxSplits = 1
  MaxDiskFails = 1
INVARIANT CopyIsPrefix
INVARIANT FinishedIsWhole
INVARIANT CountersAgree
PROPERTY TransferEnds
PROPERTY LossNoticed
CHECK_DEADLOCK FALSE
