SPECIFICATION Spec
CONSTANTS
  Cameras = {c1, c2}
  PtzCameras = {c1, c2}
  Slots = {1}
  None = None
  MaxFaults = 2
  MaxRestarts = 1
  Stalls = FALSE
INVARIANTS
  PresetsOfCamera
