SPECIFICATION Spec
CONSTANTS
  NoPid = NoPid
  MAX_PROCESSES = 2
  Pid = {c1, c2, c3}
  Foreign = {sh}
  Stubborn = {}
  ExitCodes = {0}
SYMMETRY Symmetric
INVARIANTS ZombieCovered TerminatedTruthful NoLiveChildForgotten
           ShutdownReapsTracked Inv
CHECK_DEADLOCK FALSE
