\* The pose loses its trust during a backtrack, and the IMU recovers.
SPECIFICATION Spec
SYMMETRY Symmetry
CONSTANTS
  Seqs = {s1, s2}
  NoSeq = NoSeq
  LinkTimeout = 1
  ClearFrames = 1
  ImuThreshold = 2
  ImuOutage = 2
  MaxStep = 1
  MaxMove = 0
  CalibWindow = 1
  CalibExtend = 1
  StopInterval = 0
  StopPeriods = 0
INVARIANTS
  AutonomyOnlyOnValidPose
