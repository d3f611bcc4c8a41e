SPECIFICATION FairVirtualUserSpec
CONSTANTS
  Tx = {t1, t2, t3}
  Users = {u1}
  NoUser = NoUser
  Scripts <- MCScripts
  Registry <- MCRegistry
  TimeoutMs = 1
INVARIANT VirtualUserInv
 
PROPERTY PoolSpec
PROPERTY SetupEnds
PROPERTY EveryTaskEnds
CHECK_DEADLOCK FALSE
