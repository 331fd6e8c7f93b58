SPECIFICATION Spec
CONSTANTS
  c1 = c1
  Callers = {c1}
  Powers = {16}
  Currents = {60}
  DeviceMax = 32
  Frames <- FramesUnplug
  Saved <- SavedPaused
  Faults = {}
  MaxTries = 1
INVARIANTS
  PauseHolds
PROPERTIES
  KeepsThePromise
