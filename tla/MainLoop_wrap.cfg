SPECIFICATION Spec
CONSTANTS
  ClockMod = 16
  Period <- MCPeriod
  MaxTurn = 2
  InfoSize = 5
  ChunkSize = 2
  MaxLine = 0
  MaxLines = 0
  MaxQueue = 0
  MaxAge = 10
INVARIANT EventsKeepRate
