SPECIFICATION Spec
CONSTANTS
  w1 = w1
  Writers = {w1}
  Intents <- OnOffTwo
  Fields <- NoPoll
  Older <- AnyOlder
  Faults = {"error", "timeout", "older", "malformed"}
  MaxRev = 5
INVARIANTS
  SavedRecordIsRestored
  OlderVersionWins
  
  ReloadIsProtective
