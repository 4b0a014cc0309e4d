--------------------------------- MODULE MCXmpp ---------------------------------
(* Instances of Xmpp for TLC: a client with two tasks that send.                *)
EXTENDS Xmpp, TLC

CONSTANTS client, push, s1, s2

=============================================================================
