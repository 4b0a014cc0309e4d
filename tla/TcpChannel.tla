------------------------------ MODULE TcpChannel ------------------------------
(* PseudoTcpChannel at both ends: the stream its owner has, the pseudo-TCP     *)
(* below it, the messages it posts to the signaling, the worker and the stream *)
(* thread, and a channel that loses and reorders packets.  Every              *)
(* method holds cs_, so it is one step; letting go of cs_ after the object's   *)
(* destruction was posted is a step of its own.                                *)
EXTENDS PseudoTcp

CONSTANTS End,         \* the two ends
          Initiator,   \* session_->initiator()
          Total,       \* Total[p]: bytes p has to write
          Closers,     \* the ends whose owner may close the stream early
          Patient,     \* no timer expires while a packet is under way
          OneThread,   \* one thread plays the three roles, as in gingacc-p2p
          MaxInNet,    \* packets under way to an end
          Ending,      \* the ends whose session may end by itself
          Writes       \* packets the channel takes in a call before a write fails

ASSUME TcpChannelAssumption ==
  /\ Initiator \in End
  /\ \E p \in End : End \ {p, Initiator} = {} /\ p # Initiator
  /\ Total \in [End -> Nat]
  /\ Closers \subseteq End /\ Ending \subseteq End
  /\ {Patient, OneThread} \subseteq BOOLEAN
  /\ MaxInNet \in Nat
  /\ Writes \subseteq Nat /\ Writes # {}

VARIABLES
  tcp,     \* tcp[p]: *tcp_, kept as it was when it is deleted
  chan,    \* chan[p]: the fields of the PseudoTcpChannel
  posted,  \* posted[p]: the messages posted to it
  net,     \* net[p]: the packets under way to p
  app,     \* app[p]: what the owner of the stream knows: it may write, read
  written, got

vars == <<tcp, chan, posted, net, app, written, got>>

Peer(p) == CHOOSE q \in End : q # p

\* The state Connect and GetStream leave.
Init ==
  /\ tcp = [p \in End |-> Listening]
  /\ chan = [p \in End |-> [session |-> TRUE, worker |-> TRUE, alive |-> TRUE,
                            stream |-> TRUE, ready |-> p = Initiator,
                            pendingRead |-> FALSE, locked |-> FALSE, deleted |-> FALSE]]
  /\ posted = [p \in End |-> [clock |-> FALSE, purge |-> FALSE, events |-> <<>>,
                              destroyChannel |-> FALSE, destroy |-> FALSE]]
  /\ net = [p \in End |-> {}]
  /\ app = [p \in End |-> [write |-> FALSE, read |-> FALSE, closed |-> FALSE]]
  /\ written = [p \in End |-> 0]
  /\ got = [p \in End |-> <<>>]

\* TcpWritePacket for each packet; what the network has no room for is lost, as is an
\* acknowledgement whose write fails.
Sent(p, out) ==
  LET full == net[Peer(p)] \cup ToSet(out)
  IN IF Cardinality(full) <= MaxInNet THEN full ELSE net[Peer(p)]

\* Mutant: a stream that was told of data once is never told again.
NotedOnce(s, e) ==
  CASE e = "open"  -> [events |-> Append(s.events, {"open", "read", "write"}), pendingRead |-> TRUE]
    [] e \in {"read", "write"} -> s
    [] e = "close" -> [s EXCEPT !.events = Append(@, {"close"})]

\* OnTcpOpen, OnTcpReadable, OnTcpWriteable, OnTcpClosed: the events posted to
\* the stream's thread for ev; [events, pendingRead].
Noted(s, e) ==
  CASE e = "open"  -> [events |-> Append(s.events, {"open", "read", "write"}), pendingRead |-> TRUE]
    [] e = "read"  -> IF s.pendingRead THEN s
                      ELSE [events |-> Append(s.events, {"read"}), pendingRead |-> TRUE]
    [] e = "write" -> [s EXCEPT !.events = Append(@, {"write"})]
    [] e = "close" -> [s EXCEPT !.events = Append(@, {"close"})]

Events(p, ev) ==
  LET s == [events |-> posted[p].events, pendingRead |-> chan[p].pendingRead]
  IN IF chan[p].stream THEN FoldLeft(Noted, s, ev) ELSE s

\* A call of tcp_ with result r that leaves left of what was under way to p.
Called(p, r, left) ==
  LET s == Events(p, r.ev)
  IN /\ tcp' = [tcp EXCEPT ![p] = r.t]
     /\ net' = [net EXCEPT ![Peer(p)] = Sent(p, r.out), ![p] = left]
     /\ chan' = [chan EXCEPT ![p].pendingRead = s.pendingRead]
     /\ posted' = [posted EXCEPT ![p].events = s.events]

\* A call followed by AdjustClock: either the clock is set, or tcp_ is deleted
\* and the channel no more needed; clock: whether a MSG_WK_CLOCK is under way.
Adjusted(p, r, left, clock) ==
  LET s == Events(p, r.ev)
      runs == GetNextClock(r.t)
  IN /\ tcp' = [tcp EXCEPT ![p] = r.t]
     /\ net' = [net EXCEPT ![Peer(p)] = Sent(p, r.out), ![p] = left]
     /\ chan' = [chan EXCEPT ![p].pendingRead = s.pendingRead,
                             ![p].alive = runs, ![p].ready = @ /\ runs]
     /\ posted' = [posted EXCEPT ![p].events = s.events,
                                 ![p].clock = clock \/ runs,
                                 ![p].destroyChannel = @ \/ (~runs /\ chan[p].session)]

-----------------------------------------------------------------------------
(* The worker thread                                                         *)

\* Mutant: the connection is begun and no clock set.
OnChannelWritableStateUnwatched(p) ==
  /\ chan[p].session /\ chan[p].alive /\ chan[p].ready
  /\ \E cwnd \in Congestion(tcp[p]), writes \in Writes :
       LET r == Connect(tcp[p], cwnd, writes)
       IN /\ tcp' = [tcp EXCEPT ![p] = r.t]
          /\ net' = [net EXCEPT ![Peer(p)] = Sent(p, r.out)]
          /\ chan' = [chan EXCEPT ![p].ready = FALSE]
  /\ UNCHANGED <<posted, app, written, got>>

OnChannelWritableState(p) ==
  /\ chan[p].session /\ chan[p].alive /\ chan[p].ready
  /\ \E cwnd \in Congestion(tcp[p]), writes \in Writes :
       LET r == Connect(tcp[p], cwnd, writes)
           s == Events(p, r.ev)
       IN /\ tcp' = [tcp EXCEPT ![p] = r.t]
          /\ net' = [net EXCEPT ![Peer(p)] = Sent(p, r.out)]
          /\ chan' = [chan EXCEPT ![p].ready = FALSE]
          /\ posted' = [posted EXCEPT ![p].clock = TRUE, ![p].events = s.events]
  /\ UNCHANGED <<app, written, got>>

\* A packet arrives; without a channel or a connection it is dropped.
OnChannelRead(p) ==
  /\ \E seg \in net[p] :
       IF chan[p].session /\ chan[p].alive
       THEN \E cwnd \in Congestion(tcp[p]), writes \in Writes :
              Adjusted(p, NotifyPacket(tcp[p], seg, cwnd, writes), net[p] \ {seg}, posted[p].clock)
       ELSE /\ net' = [net EXCEPT ![p] = @ \ {seg}]
            /\ UNCHANGED <<tcp, chan, posted>>
  /\ UNCHANGED <<app, written, got>>

\* The channel goes over another connection: the MTU is estimated afresh.
OnChannelConnectionChanged(p) ==
  /\ chan[p].session /\ chan[p].alive
  /\ Adjusted(p, Quiet(NotifyMTU(tcp[p])), net[p], posted[p].clock)
  /\ UNCHANGED <<app, written, got>>

\* A packet is lost.
Lose(p) ==
  /\ \E seg \in net[p] : net' = [net EXCEPT ![p] = @ \ {seg}]
  /\ UNCHANGED <<tcp, chan, posted, app, written, got>>

\* MSG_WK_CLOCK
OnClock(p, expired, silent) ==
  /\ posted[p].clock
  /\ IF chan[p].alive /\ tcp[p].state # "CLOSED"
     THEN /\ expired \subseteq Timers(tcp[p])
          /\ Patient /\ expired # {} => \A q \in End : net[q] = {}
          /\ "rto" \in expired => tcp[p].slist # <<>>
          /\ silent => MayGiveUp(tcp[p])
          /\ MustGiveUp(tcp[p]) => silent
          /\ \E writes \in Writes :
               Adjusted(p, NotifyClock(tcp[p], expired, silent, writes), net[p], FALSE)
     ELSE IF chan[p].alive
     THEN Adjusted(p, Quiet(tcp[p]), net[p], FALSE)
     ELSE /\ posted' = [posted EXCEPT ![p].clock = FALSE]
          /\ UNCHANGED <<tcp, chan, net>>
  /\ UNCHANGED <<app, written, got>>

\* CheckDestroy: the object goes when neither the worker thread nor the owner
\* of the stream needs it; worker, stream: as they are now.
DestroyPosted(p, worker, stream) == posted[p].destroy \/ (~worker /\ ~stream)

\* Mutant: the last user does not look whether it was the last.
OnPurgeUnchecked(p) ==
  /\ posted[p].purge
  /\ posted' = [posted EXCEPT ![p].purge = FALSE]
  /\ chan' = [chan EXCEPT ![p].worker = FALSE]
  /\ UNCHANGED <<tcp, net, app, written, got>>

\* MSG_WK_PURGE
OnPurge(p) ==
  /\ posted[p].purge
  /\ posted' = [posted EXCEPT ![p].purge = FALSE,
                              ![p].destroy = DestroyPosted(p, FALSE, chan[p].stream)]
  /\ chan' = [chan EXCEPT ![p].worker = FALSE,
                          ![p].locked = DestroyPosted(p, FALSE, chan[p].stream)]
  /\ UNCHANGED <<tcp, net, app, written, got>>

-----------------------------------------------------------------------------
(* The stream thread                                                         *)

\* MSG_ST_EVENT
OnStreamEvent(p) ==
  /\ posted[p].events # <<>>
  /\ LET event == Head(posted[p].events)
     IN /\ chan' = [chan EXCEPT ![p].pendingRead = @ /\ "read" \notin event]
        /\ app' = [app EXCEPT ![p].read = @ \/ "read" \in event,
                              ![p].write = (@ \/ "write" \in event) /\ "close" \notin event,
                              ![p].closed = @ \/ "close" \in event]
  /\ posted' = [posted EXCEPT ![p].events = Tail(@)]
  /\ UNCHANGED <<tcp, net, written, got>>

\* The owner reads n bytes at most, until nothing is there.  As PseudoTcp tells
\* only once, a success is followed by another event.
Read(p) ==
  /\ chan[p].stream /\ app[p].read
  /\ \E n \in 1..RcvBuf, cwnd \in Congestion(tcp[p]), writes \in Writes :
       LET r == Recv(tcp[p], n, cwnd, writes)
           works == chan[p].alive /\ tcp[p].state = "ESTABLISHED" /\ tcp[p].rlen > 0
           read == SubSeq(tcp[p].rbuf, 1, Least(n, tcp[p].rlen))
       IN IF works
          THEN /\ Called(p, [r EXCEPT !.ev = Append(@, "read")], net[p])
               /\ got' = [got EXCEPT ![p] = @ \o read]
               /\ UNCHANGED app
          ELSE /\ app' = [app EXCEPT ![p].read = FALSE]
               /\ tcp' = IF chan[p].alive /\ tcp[p].state = "ESTABLISHED"
                         THEN [tcp EXCEPT ![p] = r.t] ELSE tcp
               /\ UNCHANGED <<got, net, chan, posted>>
  /\ UNCHANGED <<written>>

\* The owner writes up to n more bytes, or is told to wait.
Write(p) ==
  /\ chan[p].stream /\ app[p].write /\ written[p] < Total[p]
  /\ \E n \in 1..(Total[p] - written[p]), cwnd \in Congestion(tcp[p]), writes \in Writes :
       LET data == [i \in 1..n |-> written[p] + i]
           room == SndBuf - Len(tcp[p].sbuf)
           works == chan[p].alive /\ tcp[p].state = "ESTABLISHED"
       IN IF works
          THEN /\ Called(p, Send(tcp[p], data, cwnd, writes), net[p])
               /\ written' = [written EXCEPT ![p] = @ + Least(n, room)]
               /\ app' = [app EXCEPT ![p].write = room > 0]
          ELSE /\ app' = [app EXCEPT ![p].write = FALSE]
               /\ UNCHANGED <<tcp, chan, posted, net, written>>
  /\ UNCHANGED <<got>>

\* The owner closes the stream: when it has written all, is told that the
\* connection is closed, or gives up early.
Close(p) ==
  /\ chan[p].stream
  /\ app[p].closed \/ p \in Closers \/ (written[p] = Total[p] /\ Len(got[p]) = Total[Peer(p)])
  /\ LET t == [tcp[p] EXCEPT !.shutdown = "GRACEFUL"]
         runs == GetNextClock(t)
     IN IF chan[p].alive
        THEN /\ tcp' = [tcp EXCEPT ![p] = t]
             /\ chan' = [chan EXCEPT ![p].stream = FALSE, ![p].alive = runs,
                                     ![p].ready = @ /\ runs]
             /\ posted' = [posted EXCEPT ![p].events = <<>>, ![p].clock = @ \/ runs,
                             ![p].destroyChannel = @ \/ (~runs /\ chan[p].session)]
        ELSE /\ chan' = [chan EXCEPT ![p].stream = FALSE,
                                     ![p].locked = DestroyPosted(p, chan[p].worker, FALSE)]
             /\ posted' = [posted EXCEPT ![p].events = <<>>,
                             ![p].destroy = DestroyPosted(p, chan[p].worker, FALSE)]
             /\ UNCHANGED tcp
  /\ UNCHANGED <<net, app, written, got>>

-----------------------------------------------------------------------------
(* The signaling thread                                                      *)

\* The channel is destroyed: nothing more comes from it, and the purge is the
\* worker thread's last message.
OnChannelDestroyed(p) ==
  /\ chan' = [chan EXCEPT ![p].session = FALSE, ![p].alive = FALSE, ![p].ready = FALSE]
  /\ posted' = [posted EXCEPT
       ![p].destroyChannel = FALSE, ![p].clock = FALSE, ![p].purge = TRUE,
       ![p].events = IF chan[p].stream /\ (~chan[p].alive \/ tcp[p].state # "CLOSED")
                     THEN Append(@, {"close"}) ELSE @]
  /\ tcp' = [tcp EXCEPT ![p].shutdown = IF chan[p].alive THEN "FORCEFUL" ELSE @]
  /\ UNCHANGED <<net, app, written, got>>

\* MSG_SI_DESTROYCHANNEL
DestroyChannel(p) == posted[p].destroyChannel /\ OnChannelDestroyed(p)

SessionEnds(p) == chan[p].session /\ p \in Ending /\ OnChannelDestroyed(p)

\* MSG_SI_DESTROY
Destroy(p) ==
  /\ posted[p].destroy /\ (OneThread => ~chan[p].locked)
  /\ posted' = [posted EXCEPT ![p].destroy = FALSE]
  /\ chan' = [chan EXCEPT ![p].deleted = TRUE]
  /\ UNCHANGED <<tcp, net, app, written, got>>

\* The method that posted the destruction lets go of cs_.
Unlock(p) ==
  /\ chan[p].locked
  /\ chan' = [chan EXCEPT ![p].locked = FALSE]
  /\ UNCHANGED <<tcp, posted, net, app, written, got>>

-----------------------------------------------------------------------------

Next ==
  \E p \in End :
    \/ OnChannelWritableState(p) \/ OnChannelRead(p) \/ OnChannelConnectionChanged(p) \/ Lose(p)
    \/ \E expired \in SUBSET {"rto", "probe", "ack"}, silent \in BOOLEAN :
         OnClock(p, expired, silent)
    \/ OnPurge(p) \/ OnStreamEvent(p) \/ Read(p) \/ Write(p) \/ Close(p)
    \/ SessionEnds(p) \/ DestroyChannel(p) \/ Destroy(p) \/ Unlock(p)

Spec == Init /\ [][Next]_vars

\* Each thread runs: the worker takes packets, clocks and the purge, the stream
\* thread events, and its owner reads what he is told of and writes what he has
\* to, the signaling thread what ends the channel.
WorkerRuns(p) ==
  \/ OnChannelWritableState(p) \/ OnChannelRead(p) \/ OnPurge(p)
  \/ OnClock(p, Timers(tcp[p]), MustGiveUp(tcp[p]))
StreamRuns(p) == OnStreamEvent(p) \/ Read(p) \/ Write(p)
SignalingRuns(p) == DestroyChannel(p) \/ Destroy(p) \/ Unlock(p)

\* When they have something to do: ENABLED of the above, said in few words.
WorkerHas(p) ==
  \/ chan[p].session /\ chan[p].alive /\ chan[p].ready
  \/ net[p] # {} \/ posted[p].purge
  \/ /\ posted[p].clock /\ chan[p].alive /\ tcp[p].state # "CLOSED"
     /\ Timers(tcp[p]) # {} /\ (tcp[p].rto_base => tcp[p].slist # <<>>)
     /\ \A q \in End : net[q] = {}
StreamHas(p) ==
  \/ posted[p].events # <<>>
  \/ chan[p].stream /\ (app[p].read \/ (app[p].write /\ written[p] < Total[p]))
SignalingHas(p) == posted[p].destroyChannel \/ posted[p].destroy \/ chan[p].locked

Fairness ==
  \A p \in End :
    /\ []<>~WorkerHas(p) \/ []<><<WorkerRuns(p)>>_vars
    /\ []<>~StreamHas(p) \/ []<><<StreamRuns(p)>>_vars
    /\ []<>~SignalingHas(p) \/ []<><<SignalingRuns(p)>>_vars

FairSpec == Spec /\ Fairness

-----------------------------------------------------------------------------
(* Properties                                                                *)

Segments(t) ==
  \A i \in DOMAIN t.slist :
    /\ t.slist[i].len > 0
    /\ t.slist[i].xmit \in 0 .. 2 * MaxXmit
    /\ i = 1 => t.slist[i].seq = t.snd_una
    /\ i > 1 => t.slist[i].seq = Add(t.slist[i - 1].seq, t.slist[i - 1].len)

\* The fields of the control blocks keep their ranges: segments follow each
\* other from snd_una without a gap, and windows are never negative.
TypeOK ==
  \A p \in End :
    /\ tcp[p].state \in {"LISTEN", "SYN_SENT", "SYN_RECEIVED", "ESTABLISHED", "CLOSED"}
    /\ tcp[p].shutdown \in {"NONE", "GRACEFUL", "FORCEFUL"}
    /\ Len(tcp[p].sbuf) <= SndBuf
    /\ tcp[p].rlen \in 0..RcvBuf
    /\ tcp[p].rcv_wnd \in 0 .. RcvBuf - tcp[p].rlen
    /\ tcp[p].state # "CLOSED" =>
         Segments(tcp[p]) /\ InFlight(tcp[p]) <= Len(tcp[p].sbuf)
    /\ net[p] \subseteq [seq : 0 .. SeqSpace - 1, ack : 0 .. SeqSpace - 1, ctrl : BOOLEAN,
                         wnd : 0..RcvBuf, data : Seq(-1..Total[Peer(p)])]

\* The stream its owners see (pseudotcp.cc's whole purpose): what is read is
\* what the other end wrote, in order, without a gap, a repetition or junk,
\* under loss, repetition and reordering.
Stream == INSTANCE ByteStream WITH written <- written, got <- got
StreamIsOrdered == Stream!Spec

\* A sender never has more under way than the receiver has room for, so that
\* nothing is cut off a segment when it arrives (a segment acknowledged in part
\* would be repeated from a wrong place: Acked leaves its seq alone).
NoOverrun ==
  \A p \in End :
    LET ahead == tcp[p].snd_nxt - tcp[Peer(p)].rcv_nxt
    IN tcp[Peer(p)].shutdown = "NONE" => ahead <= RcvBuf - tcp[Peer(p)].rlen

\* While a connection is not over and has begun, its clock is set: nothing else
\* repeats what was lost, asks for a closed window or sends what Nagle's rule
\* held back (Read and Write do not reach their AdjustClock).
ClockIsSet ==
  \A p \in End : chan[p].alive /\ tcp[p].state # "LISTEN" => posted[p].clock

\* A stream its owner closed in peace had delivered everything when its
\* connection was destroyed, unless the other end had ceased to listen.
FlushedOnClose ==
  \A p \in End :
    LET t == tcp[p] q == tcp[Peer(p)]
    IN ~chan[p].alive /\ t.state = "ESTABLISHED" /\ t.shutdown = "GRACEFUL"
         => q.shutdown # "NONE" \/ Len(got[Peer(p)]) + q.rlen >= written[p]

\* pseudotcpchannel.cc:446, "The message queue is empty, so it is safe to
\* destroy ourselves": nothing is posted to a destroyed channel, nobody uses it.
QuietWhenDestroyed ==
  \A p \in End :
    chan[p].deleted =>
      /\ ~chan[p].worker /\ ~chan[p].stream /\ ~chan[p].alive /\ ~chan[p].locked
      /\ posted[p] = [clock |-> FALSE, purge |-> FALSE, events |-> <<>>,
                      destroyChannel |-> FALSE, destroy |-> FALSE]

Over == \E p \in End : tcp[p].state = "CLOSED" \/ ~chan[p].alive

\* What attemptSend leaves when its write fails (WR_FAIL; pseudotcp.cc:1033,
\* "TODO: consider closing socket") and nothing is under way: data is queued, the
\* window is open, and no timer runs that would send it.
Stalled(p) ==
  /\ chan[p].alive /\ tcp[p].state # "CLOSED"
  /\ tcp[p].sbuf # <<>> /\ InFlight(tcp[p]) = 0 /\ ~tcp[p].rto_base
  /\ tcp[p].snd_wnd > 0

\* What is written is read in the end, unless the connection is given up or a
\* failed write has stalled it: a failure while something is under way, of an
\* acknowledgement, a probe or a window update is made good.
EverythingArrives ==
  \A p \in End : []<>(Len(got[Peer(p)]) = written[p] \/ Over \/ Stalled(p))

\* A channel whose stream was closed is destroyed in the end, but for a
\* connection that a failed write has stalled.
ClosedIsDestroyed ==
  \A p \in End : []<>(chan[p].stream \/ chan[p].deleted \/ Stalled(p))

\* Not so: each of these two without the stalled connection, which no timer
\* wakes; a closed one of them is kept for ever.
EvenStalledArrives ==
  \A p \in End : []<>(Len(got[Peer(p)]) = written[p] \/ Over)
EvenStalledIsDestroyed == \A p \in End : []<>(chan[p].stream \/ chan[p].deleted)

\* Not so: an end that answers every probe of its window is given up when the
\* window stays closed for so long that probes are fifteen seconds apart.
OnlySilentIsGivenUp ==
  [][\A p \in End : tcp[p].state = "ESTABLISHED" /\ tcp'[p].state = "CLOSED"
                    /\ tcp[p].slist = <<>> => ~tcp[p].heard]_vars

=============================================================================
