SPECIFICATION FairSpec
CONSTANTS
  Peer = {p1, p2}
  Worker = {k1, k2}
  Nobody = Nobody
  Idle = 1
  MaxTime = 4
  MaxRestarts = 1
  MaxInvites = 3
CHECK_DEADLOCK FALSE
INVARIANTS
  TypeOK
  SweepsOnlySilent
PROPERTIES
  AbandonedLeave
