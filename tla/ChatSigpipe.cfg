SPECIFICATION Spec
CONSTANTS
  Client = {c1, c2}
  Name = {u1, u2}
  LongName = {}
  NoName = NoName
  Garbled = Garbled
  Nobody = Nobody
  MaxFd = 2
  Cap = 2
  MaxSends = 1
  Talker = {c1, c2}
  Leaver = {c1, c2}
SYMMETRY Symmetric
INVARIANT ServerSurvives
CHECK_DEADLOCK FALSE
