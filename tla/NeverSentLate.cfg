SPECIFICATION PoolSpec
CONSTANTS
  Tx = {t1, t2}
  Users = {u1}
  NoUser = NoUser
PROPERTY NeverSentLate
CHECK_DEADLOCK FALSE
