SPECIFICATION Spec
CONSTANTS
  Forks <- MainnetForks
  original_version = 1
  window_size = 3
  Votes = {12}
  MaxHeight = 4
INVARIANTS
  IdealIsScheduled
