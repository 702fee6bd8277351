SPECIFICATION Spec
CONSTANTS
  User = {u1, u2}
  NULL = NULL
  Window = 2
  MaxTurn = 2
  MaxDelete = 1
  MaxFault = 0
SYMMETRY Symmetry
INVARIANTS
  DeletedSessionIsForgotten
CHECK_DEADLOCK FALSE
