SPECIFICATION Spec
CONSTANTS
  Documents <- MCDocuments
  Blank = ""
  Headings = {"SPI"}
  Long = {"long"}
  Weight <- MCWeight
  TargetTokens = 4
  OverlapTokens = 2
  BatchSize = 2
  MaxRetries = 1
  Threads = {t1, t2, t3}
  Keys = {key1}
  MaxEvents = 2
  Window = 2
  MaxTime = 5
  MaxCalls = 6
  ChunkCount = 3
  PerSource = 3
  FusionKeep = 2
  RrfK = 60
  MaxTopK = 2
  Judgeable = {1, 2, 3}
  MaxGrade = 2
  HitK = 1
  RankK = 2
INVARIANTS
  TextIsIndexed
  FusionAgrees
  CitationsAreGrounded
  CountsAgree
  GainsAgree
PROPERTIES
  LimitPerWindow
CHECK_DEADLOCK FALSE
