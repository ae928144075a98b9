SPECIFICATION Spec
CONSTANTS
  Handlers = {h1, h2}
  Main = main
  Watchdog = watchdog
  Pipelines = {p1, p2, p3}
  None = None
  SaveMayFail = TRUE
SYMMETRY Symmetry
INVARIANTS
  NoLeakedPipeline
  StopWins
  StartWins
  StoppedNotShownRunning
  UndisturbedSaveAgrees
