------------------------------ MODULE PseudoTcp ------------------------------
(* One end of a pseudo-TCP connection (pseudotcp.cc): what each call makes of *)
(* its control block t.  Bytes are counted in units; time is the choice of    *)
(* the timers that have expired; the congestion window is a choice as well,   *)
(* and so is writes: how many packets with data the channel takes in a call   *)
(* before TcpWritePacket fails.                                               *)
(* A call yields [t, out, ev]: the control block, the packets it wrote and    *)
(* what it notified.                                                          *)
EXTENDS Integers, SequencesExt

CONSTANTS RcvBuf,    \* kRcvBufSize
          SndBuf,    \* kSndBufSize
          MinMss,    \* m_mss before the MTU is known
          Mss,       \* m_mss for the MTU that was advised
          PathMtu,   \* what the path carries without EMSGSIZE
          SeqSpace,  \* 2^32
          MaxXmit,   \* a segment is transmitted at most so often (15)
          DupAcks,   \* duplicate acknowledgements that start the recovery (3)
          GiveUp     \* doublings that make m_rx_rto fifteen seconds

ASSUME PseudoTcpAssumption ==
  /\ {RcvBuf, SndBuf, MinMss, Mss, PathMtu, MaxXmit, DupAcks} \subseteq Nat \ {0}
  /\ GiveUp \in Nat
  /\ RcvBuf + MinMss <= SndBuf
  /\ MinMss <= Mss
  /\ SeqSpace \in Nat /\ SndBuf + RcvBuf < SeqSpace

\* What is in a buffer where nothing was written.
Junk == -1
\* CTL_CONNECT; data bytes are positive.
Connection == 0

Least(a, b) == IF a <= b THEN a ELSE b
Add(a, b) == (a + b) % SeqSpace
Diff(a, b) == (a - b) % SeqSpace

Listening ==
  [state |-> "LISTEN", shutdown |-> "NONE", mss |-> MinMss,
   sbuf |-> <<>>, slist |-> <<>>, snd_una |-> 0, snd_nxt |-> 0, snd_wnd |-> 1,
   rbuf |-> [i \in 1..RcvBuf |-> Junk], rlen |-> 0, rlist |-> <<>>,
   rcv_nxt |-> 0, rcv_wnd |-> RcvBuf,
   t_ack |-> FALSE, dup_acks |-> 0, recover |-> 0,
   rto_base |-> FALSE, rx_rto |-> 0, heard |-> TRUE,
   readEnable |-> TRUE, writeEnable |-> FALSE]

Quiet(t) == [t |-> t, out |-> <<>>, ev |-> <<>>]
Notify(r, event) == [r EXCEPT !.ev = Append(@, event)]

InFlight(t) == Diff(t.snd_nxt, t.snd_una)

\* As much of data as m_sbuf has room for; it joins the last segment when that
\* is of the same kind and was never transmitted.
Queue(t, data, ctrl) ==
  LET n == Least(Len(data), SndBuf - Len(t.sbuf))
      joins == t.slist # <<>> /\ Last(t.slist).ctrl = ctrl /\ Last(t.slist).xmit = 0
      sseg == [seq |-> Add(t.snd_una, Len(t.sbuf)), len |-> n, ctrl |-> ctrl, xmit |-> 0]
      longer == [t.slist EXCEPT ![Len(t.slist)].len = @ + n]
  IN [t EXCEPT !.sbuf = @ \o SubSeq(data, 1, n),
               !.slist = IF joins THEN longer ELSE Append(@, sseg)]

\* Every packet acknowledges what was received in order.
Packet(r, seq, ctrl, data) ==
  [r EXCEPT !.out = Append(@, [seq |-> seq, ack |-> r.t.rcv_nxt, ctrl |-> ctrl,
                               wnd |-> r.t.rcv_wnd, data |-> data]),
            !.t.t_ack = FALSE]

Closedown(r) == Notify([r EXCEPT !.t.sbuf = <<>>, !.t.state = "CLOSED"], "close")

\* Segment i in two, the first of length n.
Split(slist, i, n) ==
  IF slist[i].len <= n THEN slist
  ELSE LET s == slist[i]
       IN SubSeq(slist, 1, i - 1)
          \o <<[s EXCEPT !.len = n], [s EXCEPT !.seq = Add(@, n), !.len = @ - n]>>
          \o SubSeq(slist, i + 1, Len(slist))

\* PACKET_MAXIMUMS: the sizes to fall back to when a packet of n is too large.
Smaller(n) == {m \in {MinMss, Mss} : m < n /\ m <= PathMtu}

TooOften(t, sseg) ==
  sseg.xmit >= IF t.state = "ESTABLISHED" THEN MaxXmit ELSE 2 * MaxXmit

CanTransmit(t, i) ==
  LET n == Least(t.slist[i].len, t.mss)
  IN ~TooOften(t, t.slist[i]) /\ (n <= PathMtu \/ Smaller(n) # {})

\* transmit's result for segment i: also FALSE when the channel has taken all
\* the writes it takes in this call.
Goes(r, i, writes) == CanTransmit(r.t, i) /\ Len(r.out) < writes

\* Segment i as one packet, cut to the size that goes through.
Transmit(r, i) ==
  LET t == r.t
      sseg == t.slist[i]
      whole == Least(sseg.len, t.mss)
      fits == whole <= PathMtu
      n == IF fits THEN whole ELSE Max(Smaller(whole))
      offset == Diff(sseg.seq, t.snd_una)
      data == [k \in 1..n |-> IF offset + k \in DOMAIN t.sbuf THEN t.sbuf[offset + k] ELSE Junk]
      cut == Split(t.slist, i, n)
      sent == [cut EXCEPT ![i].xmit = @ + 1]
  IN [Packet(r, sseg.seq, sseg.ctrl, data) EXCEPT
        !.t.mss = IF fits THEN @ ELSE n,
        !.t.slist = sent,
        !.t.snd_nxt = IF sseg.xmit = 0 THEN Add(@, n) ELSE @,
        !.t.rto_base = TRUE]

-----------------------------------------------------------------------------
(* attemptSend                                                               *)

\* What may be sent now under a congestion window of cwnd.
Available(t, cwnd) ==
  LET window == Least(t.snd_wnd, cwnd)
      useable == IF InFlight(t) < window THEN window - InFlight(t) ELSE 0
      queued == Least(Len(t.sbuf) - InFlight(t), t.mss)
  IN IF queued <= useable THEN queued
     ELSE IF useable * 4 < window THEN 0   \* RFC 813, silly windows
     ELSE useable

\* With nothing to send, an acknowledgement goes out or is put off.
Acknowledge(r, sflags) ==
  IF sflags = "none" THEN r
  ELSE IF sflags = "immediate" \/ r.t.t_ack THEN Packet(r, r.t.snd_nxt, FALSE, <<>>)
  ELSE [r EXCEPT !.t.t_ack = TRUE]

\* One turn of the loop of attemptSend; s is [r, sflags, done].
SendTurn(s, cwnd, writes) ==
  LET t == s.r.t
      n == Available(t, cwnd)
      i == SelectInSeq(t.slist, LAMBDA sseg : sseg.xmit = 0)
      ready == [s.r EXCEPT !.t.slist = Split(@, i, n)]
  IN IF s.done THEN s
     ELSE IF n = 0 THEN [s EXCEPT !.r = Acknowledge(@, s.sflags), !.done = TRUE]
     ELSE IF t.snd_nxt > t.snd_una /\ n < t.mss THEN [s EXCEPT !.done = TRUE]   \* Nagle
     ELSE IF ~Goes(ready, i, writes) THEN [s EXCEPT !.r = ready, !.done = TRUE]
     ELSE [r |-> Transmit(ready, i), sflags |-> "none", done |-> FALSE]

AttemptSend(r, sflags, cwnd, writes) ==
  LET after[turn \in 0 .. SndBuf + 1] ==
        IF turn = 0 THEN [r |-> r, sflags |-> sflags, done |-> FALSE]
        ELSE SendTurn(after[turn - 1], cwnd, writes)
  IN after[SndBuf + 1].r

\* m_cwnd: congestion control keeps it at least at m_mss.
Congestion(t) == t.mss .. t.mss + SndBuf

-----------------------------------------------------------------------------
(* process                                                                   *)

\* The first segment goes, or the part of it that is acknowledged; free: how much is.
FreeFirst(s) ==
  IF s.free = 0 \/ s.slist = <<>> THEN s
  ELSE IF s.free < Head(s.slist).len
  THEN [slist |-> [s.slist EXCEPT ![1].len = @ - s.free], free |-> 0]
  ELSE [slist |-> Tail(s.slist), free |-> s.free - Head(s.slist).len]

\* What is left of slist once its first n bytes are acknowledged.
Acked(slist, n) ==
  LET after[turn \in 0 .. Len(slist)] ==
        IF turn = 0 THEN [slist |-> slist, free |-> n] ELSE FreeFirst(after[turn - 1])
  IN after[Len(slist)].slist

AdjustMTU(t) == [t EXCEPT !.mss = Mss]
NotifyMTU(t) == IF t.state = "ESTABLISHED" THEN AdjustMTU(t) ELSE t

\* A CONNECT, in each state it may arrive in.
OnConnect(r) ==
  CASE r.t.state = "LISTEN" ->
         [r EXCEPT !.t = Queue([r.t EXCEPT !.state = "SYN_RECEIVED"], <<Connection>>, TRUE)]
    [] r.t.state = "SYN_SENT" ->
         Notify([r EXCEPT !.t = AdjustMTU([r.t EXCEPT !.state = "ESTABLISHED"])], "open")
    [] OTHER -> r

\* m_bWriteEnable: the user was refused and half of what the buffers hold is free.
RoomForMore(r) ==
  IF r.t.writeEnable /\ 2 * Len(r.t.sbuf) < SndBuf + RcvBuf
  THEN Notify([r EXCEPT !.t.writeEnable = FALSE], "write")
  ELSE r

\* seg acknowledges something new: what was acknowledged leaves the buffer; in
\* recovery the next segment goes out again.
ValuableAck(r, seg, writes) ==
  LET n == Diff(seg.ack, r.t.snd_una)
      t1 == [r.t EXCEPT !.snd_wnd = seg.wnd, !.snd_una = seg.ack,
                        !.rto_base = seg.ack # r.t.snd_nxt, !.rx_rto = 0,
                        !.sbuf = SubSeq(@, n + 1, Len(@)),
                        !.slist = Acked(@, n)]
      recovering == t1.dup_acks >= DupAcks /\ t1.snd_una < t1.recover
      r1 == IF recovering THEN Transmit([r EXCEPT !.t = t1], 1)
            ELSE [r EXCEPT !.t = [t1 EXCEPT !.dup_acks = 0]]
      r2 == IF r1.t.state = "SYN_RECEIVED" /\ ~seg.ctrl
            THEN Notify([r1 EXCEPT !.t = AdjustMTU([r1.t EXCEPT !.state = "ESTABLISHED"])], "open")
            ELSE r1
  IN IF recovering /\ ~Goes([r EXCEPT !.t = t1], 1, writes) THEN Closedown([r EXCEPT !.t = t1])
     ELSE RoomForMore(r2)

\* seg acknowledges nothing new: it may open the window, and the DupAcks-th
\* of its kind without data starts the recovery.
DuplicateAck(r, seg, writes) ==
  LET t1 == [r.t EXCEPT !.snd_wnd = seg.wnd]
      dup == Least(t1.dup_acks + 1, DupAcks + 1)
      t2 == [t1 EXCEPT !.dup_acks = dup]
  IN IF seg.data # <<>> THEN [r EXCEPT !.t = t1]
     ELSE IF t1.snd_una = t1.snd_nxt THEN [r EXCEPT !.t = [t1 EXCEPT !.dup_acks = 0]]
     ELSE IF dup # DupAcks THEN [r EXCEPT !.t = t2]
     ELSE IF ~Goes([r EXCEPT !.t = t2], 1, writes) THEN Closedown([r EXCEPT !.t = t2])
     ELSE LET r3 == Transmit([r EXCEPT !.t = t2], 1)
          IN [r3 EXCEPT !.t.recover = r3.t.snd_nxt]

OnAck(r, seg, writes) ==
  IF seg.ack > r.t.snd_una /\ seg.ack <= r.t.snd_nxt THEN ValuableAck(r, seg, writes)
  ELSE IF seg.ack = r.t.snd_una THEN DuplicateAck(r, seg, writes)
  ELSE r

\* The part of seg that is new and that the buffer has room for.
Trimmed(t, seg) ==
  LET old == IF seg.seq < t.rcv_nxt THEN Diff(t.rcv_nxt, seg.seq) ELSE 0
      seq == IF old < Len(seg.data) THEN Add(seg.seq, old) ELSE seg.seq
      data == SubSeq(seg.data, old + 1, Len(seg.data))
      end == Diff(Add(seq, Len(data)), t.rcv_nxt)
      excess == IF end > RcvBuf - t.rlen THEN end - (RcvBuf - t.rlen) ELSE 0
  IN [seq |-> seq, data |-> SubSeq(data, 1, Len(data) - excess)]

\* What was received ahead and is now in order joins it.
Recover(t, rseg) ==
  LET n == Diff(Add(rseg.seq, rseg.len), t.rcv_nxt)
  IN IF Add(rseg.seq, rseg.len) <= t.rcv_nxt THEN t
     ELSE [t EXCEPT !.rlen = @ + n, !.rcv_nxt = Add(@, n), !.rcv_wnd = @ - n]

RecoverFirst(t) ==
  IF t.rlist = <<>> \/ Head(t.rlist).seq > t.rcv_nxt THEN t
  ELSE [Recover(t, Head(t.rlist)) EXCEPT !.rlist = Tail(@)]

Gathered(t) ==
  LET after[turn \in 0 .. Len(t.rlist)] ==
        IF turn = 0 THEN t ELSE RecoverFirst(after[turn - 1])
  IN after[Len(t.rlist)]

\* Mutant: their place is counted from the first byte not read.
StoredShifted(t, seg) ==
  LET offset == Diff(seg.seq, t.rcv_nxt)
  IN [t EXCEPT !.rbuf = [i \in 1..RcvBuf |->
        IF i - offset \in DOMAIN seg.data THEN seg.data[i - offset] ELSE @[i]]]

\* The bytes of seg take their place in m_rbuf.
Stored(t, seg) ==
  LET offset == t.rlen + Diff(seg.seq, t.rcv_nxt)
  IN [t EXCEPT !.rbuf = [i \in 1..RcvBuf |->
        IF i - offset \in DOMAIN seg.data THEN seg.data[i - offset] ELSE @[i]]]

\* What the bytes of seg make of t; [t, new, sflags].
Receive(t, seg, ctrl, sflags) ==
  LET n == Len(seg.data)
      offset == Diff(seg.seq, t.rcv_nxt)
      stored == Stored(t, seg)
      next == Gathered([stored EXCEPT !.rlen = @ + n, !.rcv_nxt = Add(@, n),
                                      !.rcv_wnd = @ - n])
      later == {i \in DOMAIN t.rlist : t.rlist[i].seq >= seg.seq}
      place == IF later = {} THEN Len(t.rlist) + 1 ELSE Min(later)
  IN IF n = 0 THEN [t |-> t, new |-> FALSE, sflags |-> sflags]
     ELSE IF ctrl \/ t.shutdown # "NONE"
     THEN [t |-> IF offset = 0 THEN [t EXCEPT !.rcv_nxt = Add(@, n)] ELSE t,
           new |-> FALSE, sflags |-> sflags]
     ELSE IF offset = 0
     THEN [t |-> next, new |-> TRUE,
           sflags |-> IF next.rcv_nxt = Add(t.rcv_nxt, n) THEN sflags ELSE "immediate"]
     ELSE [t |-> [stored EXCEPT !.rlist = InsertAt(@, place, [seq |-> seg.seq, len |-> n])],
           new |-> FALSE, sflags |-> sflags]

\* Everything that follows the control code and the acknowledgement.
OnData(r, seg, cwnd, writes) ==
  LET sflags == IF seg.seq # r.t.rcv_nxt THEN "immediate"
                ELSE IF seg.data # <<>> THEN "delayed" ELSE "none"
      got == Receive(r.t, Trimmed(r.t, seg), seg.ctrl, sflags)
      r1 == AttemptSend([r EXCEPT !.t = got.t], got.sflags, cwnd, writes)
  IN IF got.new /\ r1.t.readEnable
     THEN Notify([r1 EXCEPT !.t.readEnable = FALSE], "read")
     ELSE r1

NotifyPacket(t, seg, cwnd, writes) ==
  LET r0 == Quiet([t EXCEPT !.heard = TRUE])
      r1 == OnAck(IF seg.ctrl THEN OnConnect(r0) ELSE r0, seg, writes)
  IN IF t.state = "CLOSED" THEN r0
     ELSE IF r1.t.state = "CLOSED" THEN r1
     ELSE OnData(r1, seg, cwnd, writes)

-----------------------------------------------------------------------------
(* The clock and the user                                                    *)

\* m_rto_base + m_rx_rto has passed: the first segment goes out again.
OnRtoExpired(r, writes) ==
  IF ~Goes(r, 1, writes) THEN Closedown(r)
  ELSE [Transmit(r, 1) EXCEPT !.t.rx_rto = Least(@ + 1, GiveUp)]

\* The window is closed: a probe makes the other end repeat what it has, unless
\* it has been silent for fifteen seconds.
ProbeWindow(r) ==
  [Packet(r, Diff(r.t.snd_nxt, 1), FALSE, <<>>) EXCEPT
     !.t.rx_rto = Least(@ + 1, GiveUp), !.t.heard = FALSE]

\* The fifteen seconds: never yet when the last probe was answered and was not
\* that long ago, surely when nothing came for so long.
MayGiveUp(t)  == ~t.heard \/ t.rx_rto = GiveUp
MustGiveUp(t) == ~t.heard /\ t.rx_rto = GiveUp

\* expired: the timers that have; silent: fifteen seconds have passed.
NotifyClock(t, expired, silent, writes) ==
  LET r1 == IF "rto" \in expired THEN OnRtoExpired(Quiet(t), writes) ELSE Quiet(t)
      probes == "probe" \in expired /\ r1.t.snd_wnd = 0
      r2 == IF ~probes THEN r1 ELSE IF silent THEN Closedown(r1) ELSE ProbeWindow(r1)
  IN IF r1.t.state = "CLOSED" \/ r2.t.state = "CLOSED" THEN r2
     ELSE IF "ack" \in expired /\ r2.t.t_ack THEN Packet(r2, r2.t.snd_nxt, FALSE, <<>>)
     ELSE r2

Timers(t) == {x \in {"rto", "probe", "ack"} :
                CASE x = "rto" -> t.rto_base
                  [] x = "probe" -> t.snd_wnd = 0
                  [] x = "ack" -> t.t_ack}

Connect(t, cwnd, writes) ==
  AttemptSend(Quiet(Queue([t EXCEPT !.state = "SYN_SENT"], <<Connection>>, TRUE)), "none", cwnd, writes)

\* Recv: at most n bytes; the window grows when half of it, or a segment, is free.
Recv(t, n, cwnd, writes) ==
  LET read == Least(n, t.rlen)
      t1 == [t EXCEPT !.rlen = @ - read,
                      !.rbuf = [i \in 1..RcvBuf |-> IF i + read <= RcvBuf THEN @[i + read] ELSE Junk]]
      opens == RcvBuf - t1.rlen - t1.rcv_wnd >= Least(RcvBuf \div 2, t1.mss)
      t2 == [t1 EXCEPT !.rcv_wnd = RcvBuf - t1.rlen]
  IN IF t.rlen = 0 THEN Quiet([t EXCEPT !.readEnable = TRUE])
     ELSE IF ~opens THEN Quiet(t1)
     ELSE IF t1.rcv_wnd = 0 THEN AttemptSend(Quiet(t2), "immediate", cwnd, writes)
     ELSE Quiet(t2)

Send(t, data, cwnd, writes) ==
  IF Len(t.sbuf) = SndBuf THEN Quiet([t EXCEPT !.writeEnable = TRUE])
  ELSE AttemptSend(Quiet(Queue(t, data, FALSE)), "none", cwnd, writes)

\* Mutant: what is queued does not keep a closed connection alive.
GetNextClockHasty(t) == t.shutdown = "NONE"

\* clock_check: FALSE when the connection may be destroyed.
GetNextClock(t) ==
  /\ t.shutdown # "FORCEFUL"
  /\ t.shutdown = "GRACEFUL" => t.state = "ESTABLISHED" /\ (t.sbuf # <<>> \/ t.t_ack)

=============================================================================
