\* esc.RawCommand of many channels: transfers of five frames, two lost in a row.
SPECIFICATION Spec
CONSTANTS
  Streams <- MCManyChannels
  Length <- MCRawLength
  TidMod = 3
  Capacity = 5
  Node <- MCRaw
  MaxLost <- MCRawLost
  MaxCrumbs = 2
  MaxSignals = 0
INVARIANTS
  LostFramesAreDropped
