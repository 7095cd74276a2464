SPECIFICATION FairSpec
CONSTANTS
  ClockMod = 16
  Period <- MCPeriod
  MaxTurn = 2
  InfoSize = 5
  ChunkSize = 2
  MaxLine = 5
  MaxLines = 2
  MaxQueue = 3
  MaxAge = 10
INVARIANT TypeOK
INVARIANT OnTime
INVARIANT LineFits
INVARIANT CommandIsLine
PROPERTY NotEarly
PROPERTY LinesRead
