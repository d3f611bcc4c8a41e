SPECIFICATION FairSpec
CONSTANTS
  N = 2
  WarmupSteps = 2
  PauseSteps = 1
  LoadSteps = 1
  Files = 2
  Droppers = {1}
  MaxDrain = 1
  MaxLate = 1
  MaxInFlight = 1
INVARIANTS
  PipelineInv
  RoundsComplete
  MismatchOnlyInDrain
  FilesArePrefixes
  FinishedMeansWritten
  ValidMeansNoLoadDrop
  ErrorPrecedesReturn
PROPERTY CollectingEnds
CHECK_DEADLOCK FALSE
