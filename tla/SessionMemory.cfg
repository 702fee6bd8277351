SPECIFICATION Spec
CONSTANTS
  User = {u1, u2}
  NULL = NULL
  Window = 2
  MaxTurn = 4
  MaxDelete = 1
  MaxFault = 1
SYMMETRY Symmetry
INVARIANTS
  TypeOK
  HistoryInOrder
  NoPhantomTurns
  NothingForgotten
  OwnerNeverRefused
  TurnsOfOwner
CHECK_DEADLOCK FALSE
