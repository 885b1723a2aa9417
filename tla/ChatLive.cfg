SPECIFICATION FairSpec
CONSTANTS
  Client = {c1, c2}
  Name = {u1, u2}
  LongName = {}
  NoName = NoName
  Garbled = Garbled
  Nobody = Nobody
  MaxFd = 2
  Cap = 4
  MaxSends = 1
  Talker = {c1}
  Leaver = {c2}
PROPERTIES ShutdownEnds GoneIsCleaned SaidIsPublished
CHECK_DEADLOCK FALSE
