------------------------------ MODULE MCTransport ------------------------------
(* Instances of Transport for TLC: two channels, one thread or two.            *)
EXTENDS Transport

CONSTANTS c1, c2
===============================================================================
