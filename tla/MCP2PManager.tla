----------------------------- MODULE MCP2PManager -----------------------------
(* Instances of P2PManager for TLC.                                           *)
EXTENDS P2PManager

Callbacks == [overlap |-> FALSE, sends |-> 2, offers |-> 0, changes |-> 3]
Threads   == [overlap |-> TRUE,  sends |-> 1, offers |-> 1, changes |-> 2]
Repeats   == [overlap |-> TRUE,  sends |-> 2, offers |-> 0, changes |-> 1]

All           == {Callbacks, Threads, Repeats}
CallbacksOnly == {Callbacks}
ThreadsOnly   == {Threads}
===============================================================================
