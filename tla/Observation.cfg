SPECIFICATION Spec
CONSTANTS
  r1 = r1
  r2 = r2
  Refreshers = {r1, r2}
  Interval = 1
  Factor = 2
  MaxReadFailures = 2
  Modes = {1, 2}
  Faults = {"read", "setup"}
  MaxBusy = 1
SYMMETRY Symmetric
INVARIANTS
  TypeOK
  ShownIsRecent
  WarningFollowsMode
  PhaseBoxIsKept
PROPERTIES
  KnownModelStays
