SPECIFICATION FairSpec
CONSTANTS
  NoPid = NoPid
  MAX_PROCESSES = 2
  Pid = {c1, c2}
  Foreign = {}
  Stubborn = {c1}
  ExitCodes = {0}

PROPERTIES ImplementsLedger ZombiesCollected ForcedKillReturns ShutdownCompletes
CHECK_DEADLOCK FALSE
