\* Three calls of the main loop, each with any of seven speeds, at any tick.
SPECIFICATION FairSpec
CONSTANTS
  Full = 8
  FStep = 3
  Inc = 2
  Pwm <- MCPwm
  CalibrationTime = 3
  Wanted <- MCWanted
  NaN = NaN
  MaxCalls = 3
INVARIANTS TypeOK PinsFollow
PROPERTIES Gentle Reaches
