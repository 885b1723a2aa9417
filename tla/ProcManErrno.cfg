SPECIFICATION Spec
CONSTANTS
  NoPid = NoPid
  MAX_PROCESSES = 2
  Pid = {c1, c2}
  Foreign = {}
  Stubborn = {}
  ExitCodes = {0}
SYMMETRY Symmetric
PROPERTY KillOfDeadCleansEntry
CHECK_DEADLOCK FALSE
