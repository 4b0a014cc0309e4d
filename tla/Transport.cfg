SPECIFICATION FairSpec
CONSTANTS
  c1 = c1
  c2 = c2
  Channel = {c1, c2}
  Signaling = s
  Workers = {s, w}
  Destroyable = {c1}
  MaxRedirects = 1
  MaxPosted = 1
INVARIANTS ConnectsAll RemoteIsCurrent
PROPERTY GathersInTheEnd
CHECK_DEADLOCK FALSE
