SPECIFICATION FairSpec
CONSTANTS
  NUM_CHILDREN = 3
  MAX_POLLS = 2
  WORKER_INTERVAL = 3
  Other = {4}
  MAX_ZOMBIES = 3
INVARIANTS TypeOK CoveredAfterSetUp WaitedForAll ReportedOnce IntervalKept ScanFindsOld
PROPERTIES ScanAddsZombies LateReaped ProgramEnds StatsComeTrue TermEnds
CHECK_DEADLOCK FALSE
