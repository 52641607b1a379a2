SPECIFICATION FairSpec
CONSTANTS
  Tabs = {t1, t2}
  Lines <- TabLines
  MaxOps = 4
  MaxTokens = 5
  MaxExpiries = 1
  MaxLosses = 1
INVARIANTS
  OneTokenPerFamily
  SessionEndsForCause
  LogoutEndsSession
  WaitersHaveRefresh
PROPERTIES
  DeadStaysDead
  CallsEnd
CHECK_DEADLOCK FALSE
