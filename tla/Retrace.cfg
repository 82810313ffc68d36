\* A corner driven forwards and backwards, up to two units a tick; two losses of
\* the link; a unit of drive or of a wrong heading before the estimator misses
\* nothing more; a simulation whose budget may end before the trail does.
SPECIFICATION FairSpec
CONSTANTS
  Spacing = 1
  Lookahead = 2
  Arrival = 0
  Reverse = FALSE
  Stride = 2
  Field <- MCField
  MaxOut = 3
  MaxTotal = 5
  MaxLosses = 2
  MaxMissed = 1
  CalibSteps = 1
  MaxSteps = 4
  StopInterval = 2
  StopSteps = 2
INVARIANTS
  TrailIsEven
  ArrivesNearHome
  ScanReachesAim
  SummaryIsTrue
  HaltsKeepPace
PROPERTIES
  AimNeverRegresses
  SimulationEnds
