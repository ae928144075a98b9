SPECIFICATION InferSpec
CONSTANTS
  Handlers = {h1}
  Main = main
  Watchdog = watchdog
  Pipelines = {p1, p2}
  None = None
  SaveMayFail = FALSE
  RingSize = 2
  NFrames = 2
  MaxInferFailures = 2
SYMMETRY Symmetry
PROPERTIES
  NoJudgmentAfterStop
