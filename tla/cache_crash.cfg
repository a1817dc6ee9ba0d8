\* Can a crash leave no last-known-good payload to restore?
SPECIFICATION Spec
CONSTANTS
  p1 = p1
  p2 = p2
  Payloads <- TwoPayloads
  None = None
  Garbage = Garbage
  CanClear = FALSE
INVARIANTS LastGoodSurvivesCrash
