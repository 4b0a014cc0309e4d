SPECIFICATION FairSpec
CONSTANTS
  ini = ini
  res = res
  End = {ini, res}
  Initiator = ini
  Total <- TwoBytes
  Closers = {}
  Patient = TRUE
  OneThread = TRUE
  RcvBuf = 2
  SndBuf = 3
  MinMss = 1
  Mss = 2
  PathMtu = 1
  SeqSpace = 16
  MaxXmit = 2
  GiveUp = 1
  MaxInNet = 1
  DupAcks = 3
  Writes = {0, 9}
  Ending = {ini}
PROPERTIES EverythingArrives ClosedIsDestroyed
CHECK_DEADLOCK FALSE
