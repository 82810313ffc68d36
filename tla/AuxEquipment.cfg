\* One drive and the winch, a queue of two, a timeout of two updates.
SPECIFICATION Spec
CONSTANTS
  EngineDrives = {"vrt"}
  Winches = {"win"}
  Timeout = 2
  Depth = 2
  Presses <- MCPresses
INVARIANTS
  OutputMeansPressed
  FreshPressAfterDisarm
  EngineServesDrives
  SilenceStops
