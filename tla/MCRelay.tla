------------------------------- MODULE MCRelay -------------------------------
(* Instances of Relay for TLC: a server reached over TCP, then one over UDP.   *)
EXTENDS Relay

CONSTANTS p1, p2

TcpThenUdp == <<"tcp", "udp">>

\* Two peers on one server; one peer, both servers and two faults.
TwoCases ==
  {[first |-> 2, peers |-> {p1, p2}, faults |-> 0, kinds |-> {}],
   [first |-> 1, peers |-> {p1}, faults |-> 2, kinds |-> {"loss", "late", "down", "forget"}]}
==============================================================================
