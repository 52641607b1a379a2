SPECIFICATION Spec
CONSTANTS
  Docs = {d1}
  Workers = {w1, w2}
  MaxJobs = 1
  MaxAttempts = 2
  MaxCrashes = 0
  MaxDeletes = 1
  Overrun = FALSE
  FlakyQdrant = FALSE
INVARIANTS
  DeletedHasNoVectors
