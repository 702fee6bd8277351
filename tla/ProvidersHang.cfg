SPECIFICATION Spec
CONSTANTS
  Call = {c1, c2, c3}
  Providers = 2
  Threshold = 2
  MaxRetries = 2
  BaseDelay = 1
  Timeout = 60
  Latencies = {0}
  Budget = 90
SYMMETRY Symmetry
INVARIANTS
  HangingProviderOpensCircuit
CHECK_DEADLOCK FALSE
