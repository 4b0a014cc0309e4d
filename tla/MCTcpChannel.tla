----------------------------- MODULE MCTcpChannel -----------------------------
(* Instances of TcpChannel for TLC: ini opens the connection to res.           *)
EXTENDS TcpChannel

CONSTANTS ini, res

OneWay  == (ini :> 3) @@ (res :> 0)
TwoBytes == (ini :> 2) @@ (res :> 0)
=============================================================================
