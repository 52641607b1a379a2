SPECIFICATION Spec
CONSTANTS
  Editors = {e1, e2}
  CaseIds = {c1, c2}
  Chunks = {k1, k2}
  MaxVersions = 1
  MinCases = 2
  Grades = {"one", "two"}
SYMMETRY Symmetry
INVARIANTS
  GateUnlessDisturbed
PROPERTIES
  PublishedIsClosed
