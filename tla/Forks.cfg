SPECIFICATION Spec
CONSTANTS
  Forks <- ScheduledForks
  original_version = 1
  window_size = 3
  Votes = {1, 2, 3, 4}
  MaxHeight = 6
INVARIANTS
  TypeOK
  CountsMatchWindow
  CurrentIsScheduled
  TableMatchesChain
  RestartKeepsVersion
  AltCheckAgrees
