SPECIFICATION FairSpec
CONSTANTS
  Admins = {a1}
  Workers = {w1, w2}
  Clis = {c1}
  Configs = {hybrid}
  MaxRuns = 2
  MaxCorpus = 0
  MaxEdits = 0
  MaxLosses = 1
  Cases = 1
INVARIANTS
  TypeOK
  MetricsMatchRows
  WorkersDoNotShare
PROPERTIES
  RunsEnd
