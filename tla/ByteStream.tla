------------------------------ MODULE ByteStream ------------------------------
(* What a stream promises in each direction: the bytes that are read are those *)
(* that were written, each once and in their order.  Byte i is the i-th that   *)
(* an end wrote.                                                               *)
EXTENDS Integers, Sequences

CONSTANTS End,    \* the two ends
          Total   \* Total[p]: how many bytes p has to write
VARIABLES written,  \* written[p]: how many bytes p has written
          got       \* got[p]: the bytes p has read

Peer(p) == CHOOSE q \in End : q # p

Init ==
  /\ written = [p \in End |-> 0]
  /\ got = [p \in End |-> <<>>]

Write(p) ==
  /\ \E n \in written[p] + 1 .. Total[p] : written' = [written EXCEPT ![p] = n]
  /\ UNCHANGED got

Read(p) ==
  /\ \E n \in Len(got[p]) + 1 .. written[Peer(p)] :
       got' = [got EXCEPT ![p] = [i \in 1..n |-> i]]
  /\ UNCHANGED written

Next == \E p \in End : Write(p) \/ Read(p)

Spec == Init /\ [][Next]_<<written, got>>
=============================================================================
