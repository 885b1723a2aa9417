SPECIFICATION Spec
CONSTANTS
  NUM_CHILDREN = 2
  MAX_POLLS = 2
  WORKER_INTERVAL = 2
  Other = {3}
  MAX_ZOMBIES = 3
INVARIANT NoZombieShown
CHECK_DEADLOCK FALSE
