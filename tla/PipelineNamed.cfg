SPECIFICATION Spec
CONSTANTS
  Req = {r1, r2, r3}
  User = {u1, u2}
  Session = {s1}
  IdemKey = {k1}
  NULL = NULL
  NewChats = FALSE
  ResponseEncodes = TRUE
  MaxSlow = 0
  MaxFault = 1
  MaxCrash = 1
SYMMETRY Symmetry
INVARIANTS
  HolderOwnsLock
  MutualExclusion
  SingleExecution
  TurnsBelongToOwner
  StrictMessageOrder
  FollowUpSeesHistory
  UnansweredLeavesNoTurn
  AnsweredTurnPersisted
PROPERTIES
  ImplementsConversationLog
CHECK_DEADLOCK FALSE
