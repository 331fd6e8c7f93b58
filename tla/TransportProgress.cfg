SPECIFICATION FairSpec
CONSTANTS
  t1 = t1
  t2 = t2
  Tasks = {t1, t2}
  Modulus = 4
  MaxLate = 0
  Faults = {"cancel", "connect", "broken", "close", "orphan"}
INVARIANTS
  NotAppliedIsFinal

  
