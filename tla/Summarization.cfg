SPECIFICATION FairSpec
CONSTANTS
  NULL = NULL
  Every = 2
  MaxMessages = 4
  MaxTry = 2
  MaxPoints = 1
  MaxFault = 2
  MaxCrash = 1
  MaxLapse = 1
  MaxTrouble = 3
  Defects = {}
INVARIANTS
  TypeOK
  KeyPointsStoredOnce
  SummaryIsStored
PROPERTIES
  EveryJobEnds
CHECK_DEADLOCK FALSE
