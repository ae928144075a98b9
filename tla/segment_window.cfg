SPECIFICATION Spec
CONSTANTS
  Second = 2
  Pre = 2
  Post = 2
  MaxSpan = 3
  PurgePeriod = 2
  None = None
  MaxStarts = 2
  Horizon = 14
INVARIANTS
  WindowKept
  ClipRecent
CHECK_DEADLOCK FALSE
