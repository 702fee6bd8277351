SPECIFICATION FairSpec
CONSTANTS
  Req = {r1, r2}
  User = {u1}
  Session = {s1, s2}
  IdemKey = {k1}
  NULL = NULL
  NewChats = TRUE
  ResponseEncodes = FALSE
  MaxSlow = 1
  MaxFault = 1
  MaxCrash = 1
INVARIANTS
  TypeOK
  NoLockLeak
PROPERTIES
  ReleaseFreesOnlyOwnLock
  EveryRequestAnswered
  EveryLockReleased
CHECK_DEADLOCK FALSE
