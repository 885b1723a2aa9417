SPECIFICATION FairSpec
CONSTANTS
  Client = {c1, c2}
  Name = {u1, u2}
  LongName = {}
  NoName = NoName
  Garbled = Garbled
  Nobody = Nobody
  MaxFd = 2
  Cap = 1
  MaxSends = 2
  Talker = {c1, c2}
  Leaver = {}
PROPERTY ShutdownEnds
CHECK_DEADLOCK FALSE
