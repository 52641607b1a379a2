SPECIFICATION LiveSpec
CONSTANTS
  Turns = {m1, m2, m3}
  Chunks = {k1, k2}
  DailyLimit = 1
  MaxConcurrent = 2
  MaxDays = 2
INVARIANTS
  TypeOK
  DailyLimitHolds
  TraceIsWhole
PROPERTIES
  TurnsEnd
