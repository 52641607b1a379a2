SPECIFICATION Spec
CONSTANTS
  Admins = {a1}
  Workers = {w1}
  Clis = {c1}
  Configs = {hybrid}
  MaxRuns = 2
  MaxCorpus = 1
  MaxEdits = 2
  MaxLosses = 1
  Cases = 2
SYMMETRY Symmetry

  
PROPERTIES
  NobodyReopens
