SPECIFICATION InferFairSpec
CONSTANTS
  Handlers = {h1}
  Main = main
  Watchdog = watchdog
  Pipelines = {p1, p2}
  None = None
  SaveMayFail = FALSE
  RingSize = 1
  NFrames = 1
  MaxInferFailures = 1
INVARIANTS
  StoppedShowsNothing
PROPERTIES
  SamplesFromCurrentPipeline
  JudgmentsKeepComing
