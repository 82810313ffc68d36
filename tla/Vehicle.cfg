\* A unit out, turns on the spot before it; one loss of the link; a halt of two
\* periods on the way home; a unit of drive or of a wrong heading before the
\* estimator misses nothing more (a turn on the spot costs nothing of that); an
\* iteration that may overrun by one period, which is not credited.
SPECIFICATION VehicleSpec
SYMMETRY Symmetry
CONSTANTS
  Seqs = {s1, s2}
  NoSeq = NoSeq
  LinkTimeout = 0
  ClearFrames = 1
  ImuThreshold = 2
  ImuOutage = 0
  MaxStep = 2
  MaxMove = 1
  CalibWindow = 1
  CalibExtend = 1
  StopInterval = 2
  StopPeriods = 2
  Spacing = 1
  Lookahead = 1
  Arrival = 0
  Reverse = TRUE
  Stride = 1
  DtClamp = 1
  Field <- MCField
  MaxOut = 1
  MaxTotal = 3
  MaxLosses = 1
  MaxMissed = 1
VIEW Live
INVARIANTS
  TrustHasLimit
PROPERTIES
  ImplementsRetrace
