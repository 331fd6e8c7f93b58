SPECIFICATION FairSpec
CONSTANTS
  Gaps = {75}
  HwPower = 216
  Live = 220
  Rated = 220
  ResetMinPolls = 3
  ResetMinSeconds = 150
  WindowSeconds = 150
  WindowMinSamples = 3
  AbsMax = 40
  Corrupt = {0, 38}
  Faults = {"crash", "save", "malformed", "clock"}
  MaxEnergy = 32400
  MaxAge = 225
  MaxBad = 1
  MaxResets = 1
INVARIANTS
  TypeOK
  
  TotalIsNeverAhead
  

  
