SPECIFICATION Spec
CONSTANTS
  c1 = c1
  c2 = c2
  Callers = {c1, c2}
  Powers = {}
  Currents = {}
  DeviceMax = 32
  Frames <- FramesCharging
  Saved <- SavedPaused
  Faults = {"save", "cancel"}
  MaxTries = 1
SYMMETRY Symmetric
INVARIANTS
  PauseHolds
  OnlyTheLatestWire
