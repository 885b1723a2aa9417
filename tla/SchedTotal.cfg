SPECIFICATION SpecReport
CONSTANTS
  MAX_PROCESSES = 2
  MAX_TIMELINE_EVENTS = 5
  Arrivals = {0, 1}
  Bursts = {1, 2}
  Garbage = {0}
INVARIANT TotalTimeIsEnd
CHECK_DEADLOCK FALSE
