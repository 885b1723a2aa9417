SPECIFICATION Spec
CONSTANTS
  Client = {c1, c2}
  Name = {u1, u2}
  LongName = {u1}
  NoName = NoName
  Garbled = Garbled
  Nobody = Nobody
  MaxFd = 2
  Cap = 2
  MaxSends = 1
  Talker = {c1}
  Leaver = {c2}
INVARIANTS TypeOK ListSound NoEcho HeardTheLog
PROPERTY ImplementsRoom
CHECK_DEADLOCK FALSE
