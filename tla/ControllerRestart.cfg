SPECIFICATION Spec
CONSTANTS
  c1 = c1
  Callers = {c1}
  Powers = {}
  Currents = {}
  DeviceMax = 32
  Frames <- FramesPlugged
  Saved <- SavedAny
  Faults = {"save", "crash", "expiry", "maxread"}
  MaxTries = 1
INVARIANTS
  TypeOK
  
PROPERTIES
  KeepsThePromise
