SPECIFICATION SpecReport
CONSTANTS
  MAX_PROCESSES = 4
  MAX_TIMELINE_EVENTS = 9
  Arrivals = {0, 1, 3}
  Bursts = {0, 1, 2, 4}
  Garbage = {0}
INVARIANTS TypeOK TimelineContiguous EventsBounded EveryoneServed
           NoIdleWhileReady SjfPicksShortest LeastTotal
           ReportTypeOK StcfNeverWorse SkeletonsCompleteNothing
PROPERTIES EveryStepCounts ReportWritten
CHECK_DEADLOCK FALSE
