SPECIFICATION FairSpec
CONSTANTS
  N = 3
  MaxRetries = 1
INVARIANTS
  SessionInv
  StartBarrier
  CommandsAgree
PROPERTIES
  OneDecision
  NobodyLeftBehind
  SessionEnds
CHECK_DEADLOCK FALSE
