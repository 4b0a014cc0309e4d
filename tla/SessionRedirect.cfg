SPECIFICATION FairSpec
CONSTANTS
  alice = alice
  bob = bob
  carol = carol
  Nobody = Nobody
  Peer = {alice, bob, carol}
  Caller = alice
  Callee = bob
  Target <- ToCarol
  InCallback = {"reject"}
  Channels <- NotCallee
  HangsUp = {alice}
  FaultKinds = {"crash"}
  MaxFaults = 1
PROPERTIES BothEnd HalfOpenEnds
CHECK_DEADLOCK FALSE
