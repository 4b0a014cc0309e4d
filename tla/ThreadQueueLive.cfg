SPECIFICATION FairSpec
CONSTANTS
  t1 = t1
  t2 = t2
  m1 = m1
  m2 = m2
  m3 = m3
  h1 = h1
  h2 = h2
  Nobody = Nobody
  Thread = {t1, t2}
  Client = {c1}
  Msg = {m1, m2, m3}
  Posted = {m1}
  Sent = {m2, m3}
  Handler = {h1}
  Disposal = {}
  Dest <- DestPair
  Of <- OfShared
  Stoppable = {}
PROPERTY EverySendReturns
CHECK_DEADLOCK FALSE
