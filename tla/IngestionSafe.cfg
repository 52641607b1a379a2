SPECIFICATION Spec
CONSTANTS
  Docs = {d1, d2}
  Workers = {w1, w2}
  MaxJobs = 2
  MaxAttempts = 2
  MaxCrashes = 1
  MaxDeletes = 1
  Overrun = FALSE
  FlakyQdrant = TRUE
SYMMETRY Symmetry
INVARIANTS
  TypeOK
  OneWorkerPerJob
  ClaimIsFenced
  QueuedHasJob
  IndexedIsSearchable
  DeleteIsComplete
  AttemptsAreCharged
PROPERTIES
  TerminalIsFinal
  ImplementsLifecycle

