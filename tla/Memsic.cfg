SPECIFICATION FairSpec
CONSTANTS
  RingSize = 2
  Late = {"event"}
  MaxSamples = 7
INVARIANT TypeOK
INVARIANT SamplesWhole
INVARIANT InOrder
INVARIANT Accounted
INVARIANT SetupAlone
INVARIANT NormalWorkMode
PROPERTY SampleArrives
CHECK_DEADLOCK FALSE
