\* Two payloads; every failure of every file-system call, and crashes.
SPECIFICATION Spec
CONSTANTS
  p1 = p1
  p2 = p2
  Payloads <- TwoPayloads
  None = None
  Garbage = Garbage
  CanClear = TRUE
INVARIANTS PersistedIsOnDisk RunningProcessServesLastGood
PROPERTIES KeepsLastKnownGood
