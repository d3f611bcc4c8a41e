SPECIFICATION TimedSpec
CONSTANTS
  Tx = {t1, t2, t3}
  Users = {u1}
  NoUser = NoUser
  TicksPerMilli = 2
  Tolerance = 1
  Offsets = {0, 3}
  Horizon = 5
  None = None
SYMMETRY Symmetry
INVARIANTS
  TimedInv
  TimesAddUp
  DropsWaited
  UsersDoNotOverlap
CHECK_DEADLOCK FALSE
