SPECIFICATION Spec
CONSTANTS
  Req = {r1, r2}
  User = {u1}
  Session = {s1}
  IdemKey = {k1}
  NULL = NULL
  NewChats = TRUE
  ResponseEncodes = FALSE
  MaxSlow = 0
  MaxFault = 0
  MaxCrash = 0
INVARIANTS
  StrictMessageOrder
CHECK_DEADLOCK FALSE
