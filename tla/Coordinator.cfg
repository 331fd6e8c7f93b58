SPECIFICATION FairSpec
CONSTANTS
  Switches = {"w1"}
  MaxSessions = 2
  MaxReadFailures = 2
  Faults = {"crash", "read"}
  Totals = {0}
  MaxDown = 1
  MaxFails = 1
INVARIANTS
  TypeOK
  CompletesOnce
  RearmHolds
  SessionIsSaved
PROPERTIES
  PublishedCatchesUp
