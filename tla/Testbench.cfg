SPECIFICATION MCFairSpec
CONSTANTS
  NumWorkers = 3
  NumTests = 3
  Suites <- MCSuites
INVARIANTS IInv PassedIsSound VerdictIsRight NoProcessLeft HooksUndo
PROPERTIES StartedOnce Finishes
CHECK_DEADLOCK FALSE
