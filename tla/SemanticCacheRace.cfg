SPECIFICATION Spec
CONSTANTS
  Call = {c1, c2}
  Session = {s1, s2}
  Query = {q1, q2}
  NULL = NULL
  MaxSize = 2
  EvictionCount = 1
  EncodeLimit = 0
  EncodeDrop = 1
  MaxOrphans = 1
  MaxFault = 0
SYMMETRY Symmetry
INVARIANTS
  AnswersTheQuestion
