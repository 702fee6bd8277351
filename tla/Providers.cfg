SPECIFICATION Spec
CONSTANTS
  Call = {c1, c2, c3}
  Providers = 3
  Threshold = 2
  MaxRetries = 1
  BaseDelay = 0
  Timeout = 60
  Latencies = {0, 14}
  Budget = 90
SYMMETRY Symmetry
INVARIANTS
  TypeOK
  OpenAfterThreshold
  ServedWhileOneIsUp
PROPERTIES
  NoProviderTwice
CHECK_DEADLOCK FALSE
