\* Two nodes with esc.Status in three frames, ids that wrap at two, and losses
\* of up to one frame less than a whole round of ids; up to two signals per
\* iteration, at any points of it, and a trail of up to two.
SPECIFICATION Spec
CONSTANTS
  Streams <- MCStreams
  Length <- MCLength
  TidMod = 2
  Capacity = 4
  Node <- MCNode
  MaxLost <- MCMaxLost
  MaxCrumbs = 2
  MaxSignals = 2
INVARIANTS
  WholeTransfers
  CleanTransferArrives
  ReadingsAreTheirs
  FollowsSignals
  ControllerInBacktrack
