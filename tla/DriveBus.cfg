\* A transmit queue with room for one command and a half, jams of up to two
\* periods, an overrun of one.
SPECIFICATION StartSpec
CONSTANTS
  TxCapacity = 3
  VescTimeout = 4
  StatusStale = 2
  GuardTries = 3
  RestartDelay = 7
  MaxJam = 2
  MaxStall = 1
  MaxFaults = 2
INVARIANTS
  ArmsReady
  NoPhantomMotion
  GuardStopsTracks
  TracksRejoin
PROPERTIES
  StillAtRestart
  ComesUp
