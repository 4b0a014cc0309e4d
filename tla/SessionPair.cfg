SPECIFICATION Spec
CONSTANTS
  alice = alice
  bob = bob
  carol = carol
  Nobody = Nobody
  Peer = {alice, bob}
  Caller = alice
  Callee = bob
  Target <- NoTarget
  InCallback = {"accept", "reject"}
  Channels <- CalleeLater
  HangsUp = {bob}
  FaultKinds = {"bounce","timeout","crash","link","drop"}
  MaxFaults = 1
INVARIANTS AcceptedByRemote RefusalIsFinal AttemptIsTimed
PROPERTIES NeverRevived
CHECK_DEADLOCK FALSE
