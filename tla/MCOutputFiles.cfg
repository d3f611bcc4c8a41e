SPECIFICATION Spec
CONSTANTS
  Runs = {r1, r2}
  User = User
  Inputs <- MCInputs
  MaxEdits = 1
  Tests <- MCTests
SYMMETRY Symmetry
INVARIANT RecordInv
PROPERTY OldResultsKept
CHECK_DEADLOCK FALSE
