SPECIFICATION Spec
CONSTANTS
  NoPid = NoPid
  MAX_PROCESSES = 1
  Pid = {c1, c2}
  Foreign = {}
  Stubborn = {}
  ExitCodes = {0}
SYMMETRY Symmetric
INVARIANT FinishedIsListedTerminated
CHECK_DEADLOCK FALSE
