\* Three calibration sessions and two power failures; three samples a stage.
SPECIFICATION FairSpec
CONSTANTS
  StaticCount = 2
  PhaseCount = 2
  MaxSessions = 3
  MaxCrashes = 2
INVARIANTS TypeOK CalibrationPure StopHolds
PROPERTY CalibrationProceeds
