SPECIFICATION FairSpec
CONSTANTS
  c1 = c1
  Callers = {c1}
  Powers = {16}
  Currents = {}
  DeviceMax = 32
  Frames <- FramesCharging
  Saved <- SavedPaused
  Faults = {"save"}
  MaxTries = 1
PROPERTIES
  PauseReachesCharger
  CommandsReturn
