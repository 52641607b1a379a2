SPECIFICATION Spec
CONSTANTS
  Editors = {e1}
  CaseIds = {c1}
  Chunks = {k1}
  MaxVersions = 1
  MinCases = 1
  Grades = {"zero", "one", "two"}
PROPERTIES
  PublishedIsImmutable
