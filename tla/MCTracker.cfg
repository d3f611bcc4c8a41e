SPECIFICATION Spec
CONSTANTS
  Tx = {t1, t2, t3}
  Outcomes = {"success", "dropped"}
  Millis = {1, 2}
SYMMETRY Symmetry
INVARIANTS
  IndInv
  CountsConserved
  ServiceTimeConserved
PROPERTY LogSpec
