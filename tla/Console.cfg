SPECIFICATION FairSpec
CONSTANT MaxTee = 3
INVARIANT NoLostWakeup
PROPERTY Stops
CHECK_DEADLOCK FALSE
