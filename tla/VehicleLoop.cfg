\* The whole loop, its safety and its way out of every state: no symmetry, but
\* dead values not told apart; an iteration that may overrun by one period, failed
\* calibration windows included; a halt of three periods after every four units,
\* at most one unit travelled per iteration.
SPECIFICATION FairSpec
CONSTANTS
  Seqs = {s1, s2}
  NoSeq = NoSeq
  LinkTimeout = 1
  ClearFrames = 2
  ImuThreshold = 2
  ImuOutage = 1
  MaxStep = 2
  MaxMove = 1
  CalibWindow = 2
  CalibExtend = 1
  StopInterval = 4
  StopPeriods = 3
VIEW Live
INVARIANTS
  NoBacktrackWhileLatched
  RelayNeedsOperator
  PursuitNeedsSensors
  ControllerInBacktrack
PROPERTIES
  ImplementsAuthority
  PersistentLinkGivesManual
  CalibrationFinishes
  LatchClears
  FlappingImuLosesTrust
  HaltsEnd
