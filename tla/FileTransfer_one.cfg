SPECIFICATION Spec
CONSTANTS
  Files = {"a"}
  Blocks <- MCOneFile
  ShortLast = TRUE
  MaximumRepeats = 3
  Coalesce = TRUE
  Patient = FALSE
  CardFails = TRUE
  UsbCommands = {"get"}
  MaxGets = 2
  MaxPings = 1
  MaxLosses = 1
  MaxFlaps = 0
  MaxUsb = 1
  MaxSplits = 1
  MaxDiskFails = 1
INVARIANT TypeOK
PROPERTY ImplementsCopy
CHECK_DEADLOCK FALSE
