SPECIFICATION Spec
CONSTANTS
  t1 = t1
  t2 = t2
  Tasks = {t1, t2}
  Modulus = 8
  MaxLate = 2
  Faults = {"cancel", "refuse", "garble", "drop", "connect", "broken", "close"}
SYMMETRY Symmetric
INVARIANTS
  OwnReply
  LateReplyIsRecognised
  ReadSettlesTheWrite
  WireIsExclusive
  ClosedIsQuiet
PROPERTIES
  ClosingStartsNothing
