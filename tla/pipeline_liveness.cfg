SPECIFICATION FairSpec
CONSTANTS
  Handlers = {h1}
  Main = main
  Watchdog = watchdog
  Pipelines = {p1, p2}
  None = None
  SaveMayFail = FALSE

PROPERTIES
  EventuallyStopped
  EventuallyRunning
  StopNotStarved
