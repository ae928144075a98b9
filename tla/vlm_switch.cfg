SPECIFICATION FairSpec
CONSTANTS
  Models = {a, b, c}
  Default = a
  None = None
  MaxInferFailures = 3
INVARIANTS
  OneModelLoaded
  ReadyTruthful
  JudgedByNamedModel
  AnswerToThisJob
  OnlyBackSwitchLost
PROPERTIES
  SwitchEnds
