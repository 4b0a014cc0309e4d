------------------------------ MODULE MCP2PChannel ------------------------------
(* Instances of P2PChannel for TLC.                                            *)
EXTENDS P2PChannel

CONSTANTS p1, p2, r1

FirstOnly == [p \in Port |-> 0]
OneNetwork == [p \in Port |-> "n1"]
SecondPreferred == [x \in Port \cup Remote |-> IF x = p2 THEN 2 ELSE 1]
OldGeneration == [r \in Remote |-> 0]
SecondRefused == {<<p2, r1>>}
=============================================================================
