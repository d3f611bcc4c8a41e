SPECIFICATION FairSpec
CONSTANTS
  Tx = {t1, t2}
  Outcomes = {"dropped"}
  Millis = {1}
  WarmupSteps = 2
  PauseSteps = 1
  LoadSteps = 2
  NoTx = NoTx
INVARIANTS
  GeneratorInv
  FinishedMeansCounted
  LastDispatchOfItsStep
PROPERTIES
  AnnouncedStepsAreClosed
  TrackerSpec
  StreamSpec
  StartedTestEnds
CHECK_DEADLOCK FALSE
