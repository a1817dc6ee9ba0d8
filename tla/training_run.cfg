\* Every option of the invocations below, failing files, kills, and work on the
\* casebook between runs.
SPECIFICATION Spec
CONSTANTS
  Paths <- SomePaths
  Casebooks = {"c"}
  Files <- SomeFiles
  Invocations <- SomeInvocations
  Scenarios <- SomeScenarios
  None = None
  Garbage = Garbage
  DefaultTicks = 1
  MaxTicks = 3
  ReadableTicks = 2
  MaxTick = 0
  MaxNotes = 5
  MaxRuns = 2
INVARIANTS
  RunWritesInOrder
  ClosedCasesWereVerified
PROPERTIES NothingWrittenBeforeTheEnd
