SPECIFICATION Spec
CONSTANTS
  w1 = w1
  Writers = {w1}
  Intents <- Latching
  Fields <- Starts
  Older <- NoOlder
  Faults = {"unreadable", "malformed"}
  MaxRev = 5
INVARIANTS
  SavedPauseSurvives
