\* An E-STOP frame and a drive frame in one drain.
SPECIFICATION Spec
CONSTANTS
  SeqMod = 3
  Seqs = {0, 1, 2}
  NoSeq = NoSeq
  LinkTimeout = 1
  ClearFrames = 2
  MaxStep = 1
  MaxQueue = 2
  MaxLosses = 0
  MaxKept = 1
  MaxFlushed = 0
  MaxSwitches = 1
PROPERTIES
  EstopInBatchLatches
