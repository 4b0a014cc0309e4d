SPECIFICATION Spec
CONSTANTS
  ini = ini
  res = res
  End = {ini, res}
  Initiator = ini
  Total <- OneWay
  Closers = {ini}
  Patient = TRUE
  OneThread = TRUE
  RcvBuf = 2
  SndBuf = 3
  MinMss = 1
  Mss = 1
  PathMtu = 2
  SeqSpace = 16
  MaxXmit = 2
  GiveUp = 1
  MaxInNet = 2
  DupAcks = 2
  Writes = {0, 9}
  Ending = {}
INVARIANTS ClockIsSet FlushedOnClose
PROPERTY StreamIsOrdered
CHECK_DEADLOCK FALSE
