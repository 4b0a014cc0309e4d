---------------------------- MODULE MCThreadQueue ----------------------------
(* Instances of ThreadQueue for TLC: two threads that send and post to each   *)
(* other; m3 is a second message to t1.                                       *)
EXTENDS ThreadQueue, TLC

CONSTANTS t1, t2, m1, m2, m3, h1, h2

DestPair == (m1 :> t1) @@ (m2 :> t2) @@ (m3 :> t1)
OfPair   == (m1 :> h1) @@ (m2 :> h2) @@ (m3 :> h1)
\* One handler for messages to both threads: never destroyed.
OfShared == (m1 :> h1) @@ (m2 :> h1) @@ (m3 :> h1)
============================================================================
