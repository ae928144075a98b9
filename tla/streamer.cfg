SPECIFICATION FairSpec
CONSTANTS
  Cameras = {c1, c2}
  PtzCameras = {c1}
  Slots = {1}
  None = None
  MaxFaults = 1
  MaxRestarts = 1
  Stalls = FALSE
INVARIANTS
  StoppedDetached
  ServesApplied
  SettingsPersisted
PROPERTIES
  StreamReconnects
