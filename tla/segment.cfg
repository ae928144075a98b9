SPECIFICATION FairSpec
CONSTANTS
  Handlers = {h1}
  MaxGen = 4
  IOMayFail = TRUE
INVARIANTS
  OneEncoder
  OldGenerationsStopping
  EncoderNotShownDisabled
  FlagsAgree
PROPERTIES
  EventuallyRecording
  EventuallyDisabled
