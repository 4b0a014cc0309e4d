SPECIFICATION Spec
CONSTANTS
  t1 = t1
  t2 = t2
  m1 = m1
  m2 = m2
  m3 = m3
  h1 = h1
  h2 = h2
  Nobody = Nobody
  Thread = {t1, t2}
  Client = {c1}
  Msg = {m1, m2, m3}
  Posted = {m1, m3}
  Sent = {m2, m3}
  Handler = {h1, h2}
  Disposal = {}
  Dest <- DestPair
  Of <- OfPair
  Stoppable = {t1, t2}
INVARIANTS TypeOK NoLostWakeUp SendIsSynchronous
PROPERTY NoDispatchToDestroyed
CHECK_DEADLOCK FALSE
