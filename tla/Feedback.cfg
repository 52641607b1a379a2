SPECIFICATION FSpec
CONSTANTS
  Editors = {e1}
  CaseIds = {c1}
  Chunks = {k1}
  MaxVersions = 1
  MinCases = 1
  Grades = {"two"}
  Submitters = {s1, s2}
  Reviewers = {r1, r2}
  Decisions = {"resolved", "promoted"}
SYMMETRY Symmetry
INVARIANTS
  FeedbackTypeOK
  PromotionIsLogged
  QueueMatchesTrail
PROPERTIES
  PromotedHasEvidence
