SPECIFICATION FairSpec
CONSTANTS
  p1 = p1
  p2 = p2
  AnyAddress = AnyAddress
  Peer = {p1, p2}
  Proto <- TcpThenUdp
  Sends = 3
  MaxInNet = 1
  Cases <- TwoCases
INVARIANTS RightPeer LockIsMutual
PROPERTIES Reconnects BindingIsReclaimed
CHECK_DEADLOCK FALSE
