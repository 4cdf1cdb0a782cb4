SPECIFICATION StreamSpec
CONSTANTS
  None = None
  r1 = r1
  r2 = r2
  Runs <- TwoRuns
  Attempts = 2
  MaxIntents = 2
  RuntimeTimeout = 5
  ReadTimeout = 2
  MaxFaults = 2
INVARIANT WellFormed
INVARIANT FinishedIsComplete
INVARIANT AttemptHasRunner
PROPERTY KeepsLifecycle
PROPERTY StreamEnds
