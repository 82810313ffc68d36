\* Calibration windows of several iterations, failed windows included, with
\* the operator already transmitting.
SPECIFICATION Spec
CONSTANTS
  Seqs = {s1}
  NoSeq = NoSeq
  LinkTimeout = 0
  ClearFrames = 1
  ImuThreshold = 2
  ImuOutage = 1
  MaxStep = 2
  MaxMove = 0
  CalibWindow = 4
  CalibExtend = 3
  StopInterval = 0
  StopPeriods = 0
INVARIANTS
  CalibrationSawSamples
