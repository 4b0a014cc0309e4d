------------------------------ MODULE MCSession ------------------------------
(* Instances of Session for TLC: alice calls bob, who may redirect to carol.   *)
EXTENDS Session, TLC

CONSTANTS alice, bob, carol

NoTarget    == [p \in Peer |-> {}]
ToCarol     == (alice :> {}) @@ (bob :> {carol}) @@ (carol :> {})

\* The callee's channel is there from the start or made by a later call.
CalleeLater == [p \in Peer |-> IF p = Callee THEN {"before", "later"} ELSE {"before", "never"}]

\* A callee that only redirects needs none.
NotCallee   == [p \in Peer |-> IF p = Callee THEN {"never"} ELSE {"before"}]
=============================================================================
