SPECIFICATION GeneratorSpec
CONSTANTS
  Tx = {t1, t2}
  Outcomes = {"success", "dropped"}
  Millis = {1}
  WarmupSteps = 1
  PauseSteps = 1
  LoadSteps = 2
  NoTx = NoTx
INVARIANT AverageOfWholeTransactions
CHECK_DEADLOCK FALSE
