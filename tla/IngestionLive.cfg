SPECIFICATION FairSpec
CONSTANTS
  Docs = {d1}
  Workers = {w1, w2}
  MaxJobs = 2
  MaxAttempts = 2
  MaxCrashes = 1
  MaxDeletes = 2
  Overrun = FALSE
  FlakyQdrant = FALSE
INVARIANTS
  NoStaleVectors
PROPERTIES
  QueuedSettles
  DeleteEnds
