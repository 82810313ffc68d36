\* The command path: a wrapping number, bursts of up to three frames, two
\* losses, a modem that repeats its last frame and flushes its last two once, and
\* a console restarted.
SPECIFICATION FairSpec
CONSTANTS
  SeqMod = 4
  Seqs = {0, 1, 2, 3}
  NoSeq = NoSeq
  LinkTimeout = 1
  ClearFrames = 2
  MaxStep = 1
  MaxQueue = 3
  MaxLosses = 2
  MaxSwitches = 1
  MaxKept = 2
  MaxFlushed = 2
INVARIANTS
  RefreshIsEarned
PROPERTIES
  InsistingLatches
  SilenceIsNoticed
