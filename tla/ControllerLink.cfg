SPECIFICATION Spec
CONSTANTS
  c1 = c1
  Callers = {c1}
  Powers = {}
  Currents = {}
  DeviceMax = 32
  Frames <- FramesFault
  Saved <- SavedEnabled
  Faults = {"write", "safety"}
  MaxTries = 1
INVARIANTS
  CommsCauseIsALatch
  StopFallbackIsSilent
PROPERTIES
  FaultLatchIsSticky
