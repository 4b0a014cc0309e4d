-------------------------- MODULE TcpChannel_proofs --------------------------
(* Theorems about PseudoTcpChannel and the PseudoTcp below it.  First, what an *)
(* end keeps of its channel and what is posted to it is related whatever the   *)
(* pseudo-TCP makes of its control block: these proofs never look into it.     *)
(* Then the stream: what the two control blocks and the packets under way have *)
(* to do with each other, kept by every call of pseudotcp.cc.                  *)
EXTENDS TcpChannel, SequenceTheorems, WellFoundedInduction, TLAPS

\* What one end has; what an event queue or pendingRead holds is left open.
Chans(S) ==
  [session : BOOLEAN, worker : BOOLEAN, alive : BOOLEAN, stream : BOOLEAN,
   ready : BOOLEAN, pendingRead : S, locked : BOOLEAN, deleted : BOOLEAN]
Posts(S) ==
  [clock : BOOLEAN, purge : BOOLEAN, events : S, destroyChannel : BOOLEAN,
   destroy : BOOLEAN]

IsChan(c) == c \in Chans({c.pendingRead})
IsPosted(m) == m \in Posts({m.events})

\* A begun connection that is alive has a clock; t: the state of the control
\* block, c: the channel, m: what is posted to it.
Watched(t, c, m) == c.alive /\ t # "LISTEN" => m.clock

\* Who needs the channel: the worker thread as long as a session or a purge is
\* there, the stream's thread as long as the stream is; the last of them posts
\* the destruction.
Needed(c, m) ==
  /\ ~c.session => ~c.alive /\ ~c.ready /\ ~m.clock /\ ~m.destroyChannel
  /\ m.purge => ~c.session /\ c.worker
  /\ ~c.worker => ~c.session
  /\ ~c.stream => m.events = <<>>
  /\ m.destroy => ~c.worker /\ ~c.stream
  /\ c.deleted => ~c.worker /\ ~c.stream /\ ~m.destroy
  /\ OneThread /\ c.deleted => ~c.locked

EndInv(t, c, m) == IsChan(c) /\ IsPosted(m) /\ Watched(t, c, m) /\ Needed(c, m)

ChannelInv ==
  /\ DOMAIN tcp = End /\ DOMAIN chan = End /\ DOMAIN posted = End
  /\ \A p \in End : EndInv(tcp[p].state, chan[p], posted[p])

-----------------------------------------------------------------------------
(* What a call changes at the end it is made on                              *)

\* A step of end p changes nothing of what another end has.
Local(p) ==
  /\ DOMAIN tcp' = End /\ DOMAIN chan' = End /\ DOMAIN posted' = End
  /\ \A q \in End \ {p} : tcp'[q] = tcp[q] /\ chan'[q] = chan[q] /\ posted'[q] = posted[q]

\* Without a stream nothing is noted for it: Events leaves its queue alone.
LEMMA NothingNoted ==
  ASSUME NEW p, NEW ev, ~chan[p].stream
  PROVE  Events(p, ev).events = posted[p].events
BY DEF Events

\* A step that is local to p keeps the invariant if it keeps it at p.
LEMMA LocalStep ==
  ASSUME NEW p \in End, ChannelInv, Local(p),
         EndInv(tcp'[p].state, chan'[p], posted'[p])
  PROVE  ChannelInv'
<1>1. DOMAIN tcp' = End /\ DOMAIN chan' = End /\ DOMAIN posted' = End
  BY DEF Local
<1>2. ASSUME NEW q \in End PROVE EndInv(tcp'[q].state, chan'[q], posted'[q])
  <2>1. CASE q = p
    BY <2>1
  <2>2. CASE q # p
    <3>1. tcp'[q] = tcp[q] /\ chan'[q] = chan[q] /\ posted'[q] = posted[q]
      BY <2>2 DEF Local
    <3>2. EndInv(tcp[q].state, chan[q], posted[q])
      BY DEF ChannelInv
    <3> QED BY <3>1, <3>2
  <2> QED BY <2>1, <2>2
<1> QED BY <1>1, <1>2 DEF ChannelInv

\* The invariant of end p, unfolded.
LEMMA AtEnd ==
  ASSUME NEW p \in End, ChannelInv
  PROVE  /\ DOMAIN tcp = End /\ DOMAIN chan = End /\ DOMAIN posted = End
         /\ IsChan(chan[p]) /\ IsPosted(posted[p])
         /\ Watched(tcp[p].state, chan[p], posted[p]) /\ Needed(chan[p], posted[p])
BY DEF ChannelInv, EndInv

\* The fields of a channel after a step that sets its pendingRead.
LEMMA ChanNoted ==
  ASSUME NEW c, IsChan(c), NEW x
  PROVE  LET d == [c EXCEPT !.pendingRead = x]
         IN /\ IsChan(d) /\ d.session = c.session /\ d.worker = c.worker
            /\ d.alive = c.alive /\ d.stream = c.stream /\ d.ready = c.ready
            /\ d.locked = c.locked /\ d.deleted = c.deleted
BY DEF IsChan, Chans

\* What is posted after a step that posts events alone.
LEMMA EventsPosted ==
  ASSUME NEW m, IsPosted(m), NEW x
  PROVE  LET d == [m EXCEPT !.events = x]
         IN /\ IsPosted(d) /\ d.clock = m.clock /\ d.purge = m.purge /\ d.events = x
            /\ d.destroyChannel = m.destroyChannel /\ d.destroy = m.destroy
BY DEF IsPosted, Posts

\* Read and Write are made on an established connection, which has its clock;
\* whatever they make of its control block, the clock stays.
LEMMA CalledKeeps ==
  ASSUME NEW p \in End, ChannelInv, NEW r, NEW left, Called(p, r, left),
         tcp[p].state = "ESTABLISHED"
  PROVE  ChannelInv'
<1> DEFINE s == Events(p, r.ev)
           c == [chan[p] EXCEPT !.pendingRead = s.pendingRead]
           m == [posted[p] EXCEPT !.events = s.events]
<1>1. /\ DOMAIN tcp = End /\ DOMAIN chan = End /\ DOMAIN posted = End
      /\ IsChan(chan[p]) /\ IsPosted(posted[p])
      /\ Watched(tcp[p].state, chan[p], posted[p]) /\ Needed(chan[p], posted[p])
  BY AtEnd
<1>2. Local(p) /\ tcp'[p] = r.t /\ chan'[p] = c /\ posted'[p] = m
  BY <1>1 DEF Called, Local
<1>3. /\ IsChan(c) /\ c.session = chan[p].session /\ c.worker = chan[p].worker
      /\ c.alive = chan[p].alive /\ c.stream = chan[p].stream /\ c.ready = chan[p].ready
      /\ c.locked = chan[p].locked /\ c.deleted = chan[p].deleted
  BY <1>1, ChanNoted
<1>4. /\ IsPosted(m) /\ m.clock = posted[p].clock /\ m.purge = posted[p].purge
      /\ m.events = s.events
      /\ m.destroyChannel = posted[p].destroyChannel /\ m.destroy = posted[p].destroy
  BY <1>1, EventsPosted
<1>5. ~chan[p].stream => s.events = posted[p].events
  BY NothingNoted
<1> HIDE DEF s, c, m
<1>6. Watched(r.t.state, c, m)
  BY <1>1, <1>3, <1>4 DEF Watched
<1>7. Needed(c, m)
  BY <1>1, <1>3, <1>4, <1>5 DEF Needed
<1> QED BY <1>2, <1>3, <1>4, <1>6, <1>7, LocalStep DEF EndInv

\* A call with AdjustClock, on a connection that is alive: it is deleted if its
\* clock does not run, and then the channel is told to go.
LEMMA AdjustedKeeps ==
  ASSUME NEW p \in End, ChannelInv, NEW r, NEW left, NEW clock \in BOOLEAN,
         chan[p].alive, Adjusted(p, r, left, clock)
  PROVE  ChannelInv'
<1> DEFINE s == Events(p, r.ev)
           runs == GetNextClock(r.t)
           c == [chan[p] EXCEPT !.pendingRead = s.pendingRead, !.alive = runs,
                                !.ready = @ /\ runs]
           m == [posted[p] EXCEPT !.events = s.events, !.clock = clock \/ runs,
                   !.destroyChannel = @ \/ (~runs /\ chan[p].session)]
<1>1. /\ DOMAIN tcp = End /\ DOMAIN chan = End /\ DOMAIN posted = End
      /\ IsChan(chan[p]) /\ IsPosted(posted[p])
      /\ Watched(tcp[p].state, chan[p], posted[p]) /\ Needed(chan[p], posted[p])
  BY AtEnd
<1>2. Local(p) /\ tcp'[p] = r.t /\ chan'[p] = c /\ posted'[p] = m
  BY <1>1 DEF Adjusted, Local
<1>3. runs \in BOOLEAN
  BY DEF GetNextClock
<1>4. ~chan[p].stream => s.events = posted[p].events
  BY NothingNoted
<1> HIDE DEF s, runs
<1>5. /\ IsChan(c) /\ c.session = chan[p].session /\ c.worker = chan[p].worker
      /\ c.alive = runs /\ c.stream = chan[p].stream /\ c.ready = (chan[p].ready /\ runs)
      /\ c.locked = chan[p].locked /\ c.deleted = chan[p].deleted
  BY <1>1, <1>3 DEF IsChan, Chans
<1>6. /\ IsPosted(m) /\ m.clock = (clock \/ runs) /\ m.purge = posted[p].purge
      /\ m.events = s.events /\ m.destroy = posted[p].destroy
      /\ m.destroyChannel = (posted[p].destroyChannel \/ (~runs /\ chan[p].session))
  BY <1>1, <1>3 DEF IsPosted, Posts, IsChan, Chans
<1> HIDE DEF c, m
<1>7. Watched(r.t.state, c, m)
  BY <1>5, <1>6 DEF Watched
<1>8. chan[p].session
  BY <1>1 DEF Needed
<1>9. Needed(c, m)
  BY <1>1, <1>4, <1>5, <1>6, <1>8 DEF Needed
<1> QED BY <1>2, <1>5, <1>6, <1>7, <1>9, LocalStep DEF EndInv

\* The channel is destroyed: what was posted to the worker thread is purged.
LEMMA DestroyedKeeps ==
  ASSUME NEW p \in End, ChannelInv, chan[p].session, OnChannelDestroyed(p)
  PROVE  ChannelInv'
<1> DEFINE events == IF chan[p].stream /\ (~chan[p].alive \/ tcp[p].state # "CLOSED")
                     THEN Append(posted[p].events, {"close"}) ELSE posted[p].events
           c == [chan[p] EXCEPT !.session = FALSE, !.alive = FALSE, !.ready = FALSE]
           m == [posted[p] EXCEPT !.destroyChannel = FALSE, !.clock = FALSE,
                                  !.purge = TRUE, !.events = events]
<1>1. /\ DOMAIN tcp = End /\ DOMAIN chan = End /\ DOMAIN posted = End
      /\ IsChan(chan[p]) /\ IsPosted(posted[p]) /\ Needed(chan[p], posted[p])
  BY AtEnd
<1>2. Local(p) /\ chan'[p] = c /\ posted'[p] = m
  BY <1>1 DEF OnChannelDestroyed, Local, IsPosted, Posts
<1>3. ~chan[p].stream => events = posted[p].events
  OBVIOUS
<1> HIDE DEF events
<1>4. /\ IsChan(c) /\ ~c.session /\ c.worker = chan[p].worker /\ ~c.alive
      /\ c.stream = chan[p].stream /\ ~c.ready
      /\ c.locked = chan[p].locked /\ c.deleted = chan[p].deleted
  BY <1>1 DEF IsChan, Chans
<1>5. /\ IsPosted(m) /\ ~m.clock /\ m.purge /\ m.events = events
      /\ ~m.destroyChannel /\ m.destroy = posted[p].destroy
  BY <1>1 DEF IsPosted, Posts
<1> HIDE DEF c, m
<1>6. Watched(tcp'[p].state, c, m)
  BY <1>4 DEF Watched
<1>7. Needed(c, m)
  BY <1>1, <1>3, <1>4, <1>5 DEF Needed
<1> QED BY <1>2, <1>4, <1>5, <1>6, <1>7, LocalStep DEF EndInv

\* The purge is the worker thread's last message.
LEMMA PurgeKeeps ==
  ASSUME NEW p \in End, ChannelInv, OnPurge(p)
  PROVE  ChannelInv'
<1> DEFINE goes == DestroyPosted(p, FALSE, chan[p].stream)
           c == [chan[p] EXCEPT !.worker = FALSE, !.locked = goes]
           m == [posted[p] EXCEPT !.purge = FALSE, !.destroy = goes]
<1>1. /\ DOMAIN tcp = End /\ DOMAIN chan = End /\ DOMAIN posted = End
      /\ IsChan(chan[p]) /\ IsPosted(posted[p])
      /\ Watched(tcp[p].state, chan[p], posted[p]) /\ Needed(chan[p], posted[p])
  BY AtEnd
<1>2. Local(p) /\ tcp'[p] = tcp[p] /\ chan'[p] = c /\ posted'[p] = m /\ posted[p].purge
  BY <1>1 DEF OnPurge, Local
<1>3. goes \in BOOLEAN /\ (goes <=> posted[p].destroy \/ ~chan[p].stream)
  BY <1>1 DEF DestroyPosted, IsPosted, Posts
<1> HIDE DEF goes
<1>4. /\ IsChan(c) /\ c.session = chan[p].session /\ ~c.worker /\ c.alive = chan[p].alive
      /\ c.stream = chan[p].stream /\ c.ready = chan[p].ready
      /\ c.locked = goes /\ c.deleted = chan[p].deleted
  BY <1>1, <1>3 DEF IsChan, Chans
<1>5. /\ IsPosted(m) /\ m.clock = posted[p].clock /\ ~m.purge /\ m.events = posted[p].events
      /\ m.destroyChannel = posted[p].destroyChannel /\ m.destroy = goes
  BY <1>1, <1>3 DEF IsPosted, Posts
<1> HIDE DEF c, m
<1>6. Watched(tcp[p].state, c, m)
  BY <1>1, <1>4, <1>5 DEF Watched
<1>7. Needed(c, m)
  BY <1>1, <1>2, <1>3, <1>4, <1>5 DEF Needed
<1> QED BY <1>2, <1>4, <1>5, <1>6, <1>7, LocalStep DEF EndInv

\* The owner closes the stream: a connection that is alive goes on if it has
\* something to deliver; otherwise the channel may have lost its last user.
LEMMA CloseKeeps ==
  ASSUME NEW p \in End, ChannelInv, Close(p)
  PROVE  ChannelInv'
<1>1. /\ DOMAIN tcp = End /\ DOMAIN chan = End /\ DOMAIN posted = End
      /\ IsChan(chan[p]) /\ IsPosted(posted[p])
      /\ Watched(tcp[p].state, chan[p], posted[p]) /\ Needed(chan[p], posted[p])
  BY AtEnd
<1>2. chan[p].stream
  BY DEF Close
<1>3. CASE chan[p].alive
  <2> DEFINE t == [tcp[p] EXCEPT !.shutdown = "GRACEFUL"]
             runs == GetNextClock(t)
             c == [chan[p] EXCEPT !.stream = FALSE, !.alive = runs, !.ready = @ /\ runs]
             m == [posted[p] EXCEPT !.events = <<>>, !.clock = @ \/ runs,
                     !.destroyChannel = @ \/ (~runs /\ chan[p].session)]
  <2>1. Local(p) /\ tcp'[p] = t /\ chan'[p] = c /\ posted'[p] = m
    BY <1>1, <1>3 DEF Close, Local
  <2>2. runs \in BOOLEAN
    BY DEF GetNextClock
  <2> HIDE DEF runs
  <2>3. /\ IsChan(c) /\ c.session = chan[p].session /\ c.worker = chan[p].worker
        /\ c.alive = runs /\ ~c.stream /\ c.ready = (chan[p].ready /\ runs)
        /\ c.locked = chan[p].locked /\ c.deleted = chan[p].deleted
    BY <1>1, <2>2 DEF IsChan, Chans
  <2>4. /\ IsPosted(m) /\ m.clock = (posted[p].clock \/ runs) /\ m.purge = posted[p].purge
        /\ m.events = <<>> /\ m.destroy = posted[p].destroy
        /\ m.destroyChannel = (posted[p].destroyChannel \/ (~runs /\ chan[p].session))
    BY <1>1, <2>2 DEF IsPosted, Posts, IsChan, Chans
  <2> HIDE DEF t, c, m
  <2>5. Watched(t.state, c, m)
    BY <2>3, <2>4 DEF Watched
  <2>6. chan[p].session
    BY <1>1, <1>3 DEF Needed
  <2>7. Needed(c, m)
    BY <1>1, <2>3, <2>4, <2>6 DEF Needed
  <2> QED BY <2>1, <2>3, <2>4, <2>5, <2>7, LocalStep DEF EndInv
<1>4. CASE ~chan[p].alive
  <2> DEFINE goes == DestroyPosted(p, chan[p].worker, FALSE)
             c == [chan[p] EXCEPT !.stream = FALSE, !.locked = goes]
             m == [posted[p] EXCEPT !.events = <<>>, !.destroy = goes]
  <2>1. Local(p) /\ tcp'[p] = tcp[p] /\ chan'[p] = c /\ posted'[p] = m
    BY <1>1, <1>4 DEF Close, Local
  <2>2. goes \in BOOLEAN /\ (goes <=> posted[p].destroy \/ ~chan[p].worker)
    BY <1>1 DEF DestroyPosted, IsPosted, Posts
  <2> HIDE DEF goes
  <2>3. /\ IsChan(c) /\ c.session = chan[p].session /\ c.worker = chan[p].worker
        /\ ~c.alive /\ ~c.stream /\ c.ready = chan[p].ready
        /\ c.locked = goes /\ c.deleted = chan[p].deleted
    BY <1>1, <1>4, <2>2 DEF IsChan, Chans
  <2>4. /\ IsPosted(m) /\ m.clock = posted[p].clock /\ m.purge = posted[p].purge
        /\ m.events = <<>> /\ m.destroy = goes
        /\ m.destroyChannel = posted[p].destroyChannel
    BY <1>1, <2>2 DEF IsPosted, Posts
  <2> HIDE DEF c, m
  <2>5. Watched(tcp[p].state, c, m)
    BY <2>3 DEF Watched
  <2>6. Needed(c, m)
    BY <1>1, <1>2, <2>2, <2>3, <2>4 DEF Needed
  <2> QED BY <2>1, <2>3, <2>4, <2>5, <2>6, LocalStep DEF EndInv
<1> QED BY <1>3, <1>4

\* The channel is writable: the connection begins, and its clock with it.
LEMMA WritableKeeps ==
  ASSUME NEW p \in End, ChannelInv, OnChannelWritableState(p)
  PROVE  ChannelInv'
<1>1. /\ DOMAIN tcp = End /\ DOMAIN chan = End /\ DOMAIN posted = End
      /\ IsChan(chan[p]) /\ IsPosted(posted[p]) /\ Needed(chan[p], posted[p])
  BY AtEnd
<1>2. chan[p].session /\ chan[p].alive
  BY DEF OnChannelWritableState
<1>3. PICK cwnd \in Congestion(tcp[p]), writes \in Writes :
        /\ tcp' = [tcp EXCEPT ![p] = Connect(tcp[p], cwnd, writes).t]
        /\ chan' = [chan EXCEPT ![p].ready = FALSE]
        /\ posted' = [posted EXCEPT ![p].clock = TRUE,
                        ![p].events = Events(p, Connect(tcp[p], cwnd, writes).ev).events]
  BY DEF OnChannelWritableState
<1> DEFINE events == Events(p, Connect(tcp[p], cwnd, writes).ev).events
           c == [chan[p] EXCEPT !.ready = FALSE]
           m == [posted[p] EXCEPT !.clock = TRUE, !.events = events]
<1>4. Local(p) /\ chan'[p] = c /\ posted'[p] = m
  BY <1>1, <1>3 DEF Local
<1>5. ~chan[p].stream => events = posted[p].events
  BY NothingNoted
<1> HIDE DEF events
<1>6. /\ IsChan(c) /\ c.session = chan[p].session /\ c.worker = chan[p].worker
      /\ c.alive = chan[p].alive /\ c.stream = chan[p].stream /\ ~c.ready
      /\ c.locked = chan[p].locked /\ c.deleted = chan[p].deleted
  BY <1>1 DEF IsChan, Chans
<1>7. /\ IsPosted(m) /\ m.clock /\ m.purge = posted[p].purge /\ m.events = events
      /\ m.destroyChannel = posted[p].destroyChannel /\ m.destroy = posted[p].destroy
  BY <1>1 DEF IsPosted, Posts
<1> HIDE DEF c, m
<1>8. Watched(tcp'[p].state, c, m)
  BY <1>7 DEF Watched
<1>9. Needed(c, m)
  BY <1>1, <1>2, <1>5, <1>6, <1>7 DEF Needed
<1> QED BY <1>4, <1>6, <1>7, <1>8, <1>9, LocalStep DEF EndInv

\* An event is taken from the stream's queue.
LEMMA StreamEventKeeps ==
  ASSUME NEW p \in End, ChannelInv, OnStreamEvent(p)
  PROVE  ChannelInv'
<1> DEFINE pending == chan[p].pendingRead /\ "read" \notin Head(posted[p].events)
           c == [chan[p] EXCEPT !.pendingRead = pending]
           m == [posted[p] EXCEPT !.events = Tail(@)]
<1>1. /\ DOMAIN tcp = End /\ DOMAIN chan = End /\ DOMAIN posted = End
      /\ IsChan(chan[p]) /\ IsPosted(posted[p])
      /\ Watched(tcp[p].state, chan[p], posted[p]) /\ Needed(chan[p], posted[p])
  BY AtEnd
<1>2. Local(p) /\ tcp'[p] = tcp[p] /\ chan'[p] = c /\ posted'[p] = m
  BY <1>1 DEF OnStreamEvent, Local
<1>3. chan[p].stream
  BY <1>1 DEF OnStreamEvent, Needed
<1> HIDE DEF pending
<1>4. /\ IsChan(c) /\ c.session = chan[p].session /\ c.worker = chan[p].worker
      /\ c.alive = chan[p].alive /\ c.stream = chan[p].stream /\ c.ready = chan[p].ready
      /\ c.locked = chan[p].locked /\ c.deleted = chan[p].deleted
  BY <1>1, ChanNoted
<1>5. /\ IsPosted(m) /\ m.clock = posted[p].clock /\ m.purge = posted[p].purge
      /\ m.destroyChannel = posted[p].destroyChannel /\ m.destroy = posted[p].destroy
  BY <1>1, EventsPosted
<1> HIDE DEF c, m
<1>6. Watched(tcp[p].state, c, m)
  BY <1>1, <1>4, <1>5 DEF Watched
<1>7. Needed(c, m)
  BY <1>1, <1>3, <1>4, <1>5 DEF Needed
<1> QED BY <1>2, <1>4, <1>5, <1>6, <1>7, LocalStep DEF EndInv

\* The owner reads; what changes a control block without a clock of its own
\* happens on an established connection alone.
LEMMA ReadKeeps ==
  ASSUME NEW p \in End, ChannelInv, Read(p)
  PROVE  ChannelInv'
<1>1. /\ DOMAIN tcp = End /\ DOMAIN chan = End /\ DOMAIN posted = End
      /\ EndInv(tcp[p].state, chan[p], posted[p])
  BY DEF ChannelInv
<1>2. PICK n \in 1..RcvBuf, cwnd \in Congestion(tcp[p]), writes \in Writes :
        LET r == Recv(tcp[p], n, cwnd, writes)
            works == chan[p].alive /\ tcp[p].state = "ESTABLISHED" /\ tcp[p].rlen > 0
        IN IF works
           THEN Called(p, [r EXCEPT !.ev = Append(@, "read")], net[p])
           ELSE /\ tcp' = IF chan[p].alive /\ tcp[p].state = "ESTABLISHED"
                          THEN [tcp EXCEPT ![p] = r.t] ELSE tcp
                /\ UNCHANGED <<chan, posted>>
  BY DEF Read
<1> DEFINE r == Recv(tcp[p], n, cwnd, writes)
           works == chan[p].alive /\ tcp[p].state = "ESTABLISHED" /\ tcp[p].rlen > 0
<1>3. CASE works
  <2>1. Called(p, [r EXCEPT !.ev = Append(@, "read")], net[p])
    BY <1>2, <1>3
  <2>2. tcp[p].state = "ESTABLISHED"
    BY <1>3
  <2> HIDE DEF r
  <2> QED BY <2>1, <2>2, CalledKeeps
<1>4. CASE ~works
  <2>1. UNCHANGED <<chan, posted>>
    BY <1>2, <1>4
  <2>2. CASE chan[p].alive /\ tcp[p].state = "ESTABLISHED"
    <3>1. tcp' = [tcp EXCEPT ![p] = r.t]
      BY <1>2, <1>4, <2>2
    <3> HIDE DEF r
    <3>2. Local(p) /\ tcp'[p] = r.t
      BY <1>1, <2>1, <3>1 DEF Local
    <3>3. EndInv(r.t.state, chan[p], posted[p])
      BY <1>1, <2>2 DEF EndInv, Watched
    <3> QED BY <2>1, <3>2, <3>3, LocalStep
  <2>3. CASE ~(chan[p].alive /\ tcp[p].state = "ESTABLISHED")
    <3>1. UNCHANGED <<tcp, chan, posted>>
      BY <1>2, <1>4, <2>1, <2>3
    <3> QED BY <3>1 DEF ChannelInv
  <2> QED BY <2>2, <2>3
<1> QED BY <1>3, <1>4

\* The owner writes, or is told to wait.
LEMMA WriteKeeps ==
  ASSUME NEW p \in End, ChannelInv, Write(p)
  PROVE  ChannelInv'
<1>1. PICK n \in 1..(Total[p] - written[p]), cwnd \in Congestion(tcp[p]), writes \in Writes :
        IF chan[p].alive /\ tcp[p].state = "ESTABLISHED"
        THEN Called(p, Send(tcp[p], [i \in 1..n |-> written[p] + i], cwnd, writes), net[p])
        ELSE UNCHANGED <<tcp, chan, posted>>
  BY DEF Write
<1> DEFINE r == Send(tcp[p], [i \in 1..n |-> written[p] + i], cwnd, writes)
<1>2. CASE chan[p].alive /\ tcp[p].state = "ESTABLISHED"
  <2>1. Called(p, r, net[p])
    BY <1>1, <1>2
  <2> HIDE DEF r
  <2> QED BY <1>2, <2>1, CalledKeeps
<1>3. CASE ~(chan[p].alive /\ tcp[p].state = "ESTABLISHED")
  <2>1. UNCHANGED <<tcp, chan, posted>>
    BY <1>1, <1>3
  <2> QED BY <2>1 DEF ChannelInv
<1> QED BY <1>2, <1>3

\* A packet reaches a connection that is alive, or is dropped.
LEMMA PacketKeeps ==
  ASSUME NEW p \in End, ChannelInv, OnChannelRead(p)
  PROVE  ChannelInv'
<1>1. IsPosted(posted[p])
  BY AtEnd
<1>2. PICK seg \in net[p] :
        IF chan[p].session /\ chan[p].alive
        THEN \E cwnd \in Congestion(tcp[p]), writes \in Writes :
               Adjusted(p, NotifyPacket(tcp[p], seg, cwnd, writes), net[p] \ {seg}, posted[p].clock)
        ELSE UNCHANGED <<tcp, chan, posted>>
  BY DEF OnChannelRead
<1>3. CASE chan[p].session /\ chan[p].alive
  <2>1. PICK cwnd \in Congestion(tcp[p]), writes \in Writes :
          Adjusted(p, NotifyPacket(tcp[p], seg, cwnd, writes), net[p] \ {seg}, posted[p].clock)
    BY <1>2, <1>3
  <2>2. posted[p].clock \in BOOLEAN
    BY <1>1 DEF IsPosted, Posts
  <2> QED BY <1>3, <2>1, <2>2, AdjustedKeeps
<1>4. CASE ~(chan[p].session /\ chan[p].alive)
  <2>1. UNCHANGED <<tcp, chan, posted>>
    BY <1>2, <1>4
  <2> QED BY <2>1 DEF ChannelInv
<1> QED BY <1>3, <1>4

\* The channel's connection changes: a call with AdjustClock like the others.
LEMMA ChangedKeeps ==
  ASSUME NEW p \in End, ChannelInv, OnChannelConnectionChanged(p)
  PROVE  ChannelInv'
<1>1. posted[p].clock \in BOOLEAN
  BY AtEnd DEF IsPosted, Posts
<1>2. chan[p].alive /\ Adjusted(p, Quiet(NotifyMTU(tcp[p])), net[p], posted[p].clock)
  BY DEF OnChannelConnectionChanged
<1> QED BY <1>1, <1>2, AdjustedKeeps

\* The clock runs out; one that finds no connection is not set again.
LEMMA ClockKeeps ==
  ASSUME NEW p \in End, NEW expired, NEW silent, ChannelInv, OnClock(p, expired, silent)
  PROVE  ChannelInv'
<1>1. /\ DOMAIN tcp = End /\ DOMAIN chan = End /\ DOMAIN posted = End
      /\ IsChan(chan[p]) /\ IsPosted(posted[p]) /\ Needed(chan[p], posted[p])
  BY AtEnd
<1>2. CASE chan[p].alive
  <2>1. CASE tcp[p].state # "CLOSED"
    <3>1. PICK writes \in Writes :
            Adjusted(p, NotifyClock(tcp[p], expired, silent, writes), net[p], FALSE)
      BY <1>2, <2>1 DEF OnClock
    <3> QED BY <1>2, <3>1, AdjustedKeeps
  <2>2. CASE tcp[p].state = "CLOSED"
    <3>1. Adjusted(p, Quiet(tcp[p]), net[p], FALSE)
      BY <1>2, <2>2 DEF OnClock
    <3> QED BY <1>2, <3>1, AdjustedKeeps
  <2> QED BY <2>1, <2>2
<1>3. CASE ~chan[p].alive
  <2> DEFINE m == [posted[p] EXCEPT !.clock = FALSE]
  <2>1. Local(p) /\ tcp' = tcp /\ chan' = chan /\ posted'[p] = m
    BY <1>1, <1>3 DEF OnClock, Local
  <2>2. /\ IsPosted(m) /\ ~m.clock /\ m.purge = posted[p].purge
        /\ m.events = posted[p].events
        /\ m.destroyChannel = posted[p].destroyChannel /\ m.destroy = posted[p].destroy
    BY <1>1 DEF IsPosted, Posts
  <2> HIDE DEF m
  <2>3. Watched(tcp[p].state, chan[p], m) /\ Needed(chan[p], m)
    BY <1>1, <1>3, <2>2 DEF Watched, Needed
  <2> QED BY <1>1, <2>1, <2>2, <2>3, LocalStep DEF EndInv
<1> QED BY <1>2, <1>3

\* The object is destroyed when it is not locked, if one thread does it all.
LEMMA DestroyKeeps ==
  ASSUME NEW p \in End, ChannelInv, Destroy(p)
  PROVE  ChannelInv'
<1> DEFINE c == [chan[p] EXCEPT !.deleted = TRUE]
           m == [posted[p] EXCEPT !.destroy = FALSE]
<1>1. /\ DOMAIN tcp = End /\ DOMAIN chan = End /\ DOMAIN posted = End
      /\ IsChan(chan[p]) /\ IsPosted(posted[p])
      /\ Watched(tcp[p].state, chan[p], posted[p]) /\ Needed(chan[p], posted[p])
  BY AtEnd
<1>2. /\ Local(p) /\ tcp'[p] = tcp[p] /\ chan'[p] = c /\ posted'[p] = m
      /\ posted[p].destroy /\ (OneThread => ~chan[p].locked)
  BY <1>1 DEF Destroy, Local
<1>3. /\ IsChan(c) /\ c.session = chan[p].session /\ c.worker = chan[p].worker
      /\ c.alive = chan[p].alive /\ c.stream = chan[p].stream /\ c.ready = chan[p].ready
      /\ c.locked = chan[p].locked /\ c.deleted
  BY <1>1 DEF IsChan, Chans
<1>4. /\ IsPosted(m) /\ m.clock = posted[p].clock /\ m.purge = posted[p].purge
      /\ m.events = posted[p].events
      /\ m.destroyChannel = posted[p].destroyChannel /\ ~m.destroy
  BY <1>1 DEF IsPosted, Posts
<1> HIDE DEF c, m
<1>5. Watched(tcp[p].state, c, m)
  BY <1>1, <1>3, <1>4 DEF Watched
<1>6. Needed(c, m)
  BY <1>1, <1>2, <1>3, <1>4 DEF Needed
<1> QED BY <1>2, <1>3, <1>4, <1>5, <1>6, LocalStep DEF EndInv

\* The lock is let go of.
LEMMA UnlockKeeps ==
  ASSUME NEW p \in End, ChannelInv, Unlock(p)
  PROVE  ChannelInv'
<1> DEFINE c == [chan[p] EXCEPT !.locked = FALSE]
<1>1. /\ DOMAIN tcp = End /\ DOMAIN chan = End /\ DOMAIN posted = End
      /\ IsChan(chan[p]) /\ IsPosted(posted[p])
      /\ Watched(tcp[p].state, chan[p], posted[p]) /\ Needed(chan[p], posted[p])
  BY AtEnd
<1>2. Local(p) /\ tcp'[p] = tcp[p] /\ chan'[p] = c /\ posted'[p] = posted[p]
  BY <1>1 DEF Unlock, Local
<1>3. /\ IsChan(c) /\ c.session = chan[p].session /\ c.worker = chan[p].worker
      /\ c.alive = chan[p].alive /\ c.stream = chan[p].stream /\ c.ready = chan[p].ready
      /\ ~c.locked /\ c.deleted = chan[p].deleted
  BY <1>1 DEF IsChan, Chans
<1> HIDE DEF c
<1>4. Watched(tcp[p].state, c, posted[p])
  BY <1>1, <1>3 DEF Watched
<1>5. Needed(c, posted[p])
  BY <1>1, <1>3 DEF Needed
<1> QED BY <1>1, <1>2, <1>3, <1>4, <1>5, LocalStep DEF EndInv

-----------------------------------------------------------------------------
(* The invariant and what follows                                            *)

\* ChannelInv is inductive.
THEOREM ChannelInvariant == Spec => []ChannelInv
<1>1. Init => ChannelInv
  <2> SUFFICES ASSUME Init PROVE ChannelInv
    OBVIOUS
  <2>1. DOMAIN tcp = End /\ DOMAIN chan = End /\ DOMAIN posted = End
    BY DEF Init
  <2>2. ASSUME NEW p \in End PROVE EndInv(tcp[p].state, chan[p], posted[p])
    <3>1. tcp[p].state = "LISTEN"
      BY DEF Init, Listening
    <3>2. /\ chan[p] = [session |-> TRUE, worker |-> TRUE, alive |-> TRUE,
                        stream |-> TRUE, ready |-> p = Initiator,
                        pendingRead |-> FALSE, locked |-> FALSE, deleted |-> FALSE]
          /\ posted[p] = [clock |-> FALSE, purge |-> FALSE, events |-> <<>>,
                          destroyChannel |-> FALSE, destroy |-> FALSE]
      BY DEF Init
    <3>3. IsChan(chan[p]) /\ IsPosted(posted[p])
      BY <3>2 DEF IsChan, Chans, IsPosted, Posts
    <3>4. Watched(tcp[p].state, chan[p], posted[p]) /\ Needed(chan[p], posted[p])
      BY <3>1, <3>2 DEF Watched, Needed
    <3> QED BY <3>3, <3>4 DEF EndInv
  <2> QED BY <2>1, <2>2 DEF ChannelInv
<1>2. ChannelInv /\ [Next]_vars => ChannelInv'
  <2> SUFFICES ASSUME ChannelInv, [Next]_vars PROVE ChannelInv'
    OBVIOUS
  <2>1. CASE UNCHANGED vars
    BY <2>1 DEF vars, ChannelInv
  <2>2. ASSUME NEW p \in End, Lose(p) PROVE ChannelInv'
    BY <2>2 DEF Lose, ChannelInv
  <2>3. ASSUME NEW p \in End, DestroyChannel(p) PROVE ChannelInv'
    <3>1. IsPosted(posted[p]) /\ IsChan(chan[p]) /\ Needed(chan[p], posted[p])
      BY AtEnd
    <3>2. chan[p].session
      BY <2>3, <3>1 DEF DestroyChannel, Needed
    <3> QED BY <2>3, <3>2, DestroyedKeeps DEF DestroyChannel
  <2>4. ASSUME NEW p \in End, SessionEnds(p) PROVE ChannelInv'
    BY <2>4, DestroyedKeeps DEF SessionEnds
  <2> QED BY <2>1, <2>2, <2>3, <2>4, WritableKeeps, PacketKeeps, ChangedKeeps, ClockKeeps,
             PurgeKeeps,
             StreamEventKeeps, ReadKeeps, WriteKeeps, CloseKeeps, DestroyKeeps, UnlockKeeps
          DEF Next
<1> QED BY <1>1, <1>2, PTL DEF Spec

\* A connection that has begun and is not destroyed always has its clock: no
\* order of packets, timers, reads, writes and closes leaves it without.
THEOREM ClockIsAlwaysSet == Spec => []ClockIsSet
<1>1. ChannelInv => ClockIsSet
  BY DEF ChannelInv, EndInv, Watched, ClockIsSet
<1> QED BY <1>1, ChannelInvariant, PTL

\* pseudotcpchannel.cc:446: when one thread plays the three roles, as in
\* gingacc-p2p, nothing is posted to a destroyed channel and nobody uses it.
THEOREM DestroyedIsQuiet == OneThread => (Spec => []QuietWhenDestroyed)
<1> SUFFICES ASSUME OneThread PROVE Spec => []QuietWhenDestroyed
  OBVIOUS
<1>1. ChannelInv => QuietWhenDestroyed
  <2> SUFFICES ASSUME ChannelInv, NEW p \in End, chan[p].deleted
               PROVE  /\ ~chan[p].worker /\ ~chan[p].stream /\ ~chan[p].alive
                      /\ ~chan[p].locked
                      /\ posted[p] = [clock |-> FALSE, purge |-> FALSE, events |-> <<>>,
                                      destroyChannel |-> FALSE, destroy |-> FALSE]
    BY DEF QuietWhenDestroyed
  <2>1. IsPosted(posted[p]) /\ Needed(chan[p], posted[p])
    BY AtEnd
  <2>2. /\ ~chan[p].worker /\ ~chan[p].stream /\ ~chan[p].alive /\ ~chan[p].locked
        /\ ~posted[p].clock /\ ~posted[p].purge /\ posted[p].events = <<>>
        /\ ~posted[p].destroyChannel /\ ~posted[p].destroy
    BY <2>1 DEF Needed
  <2> QED BY <2>1, <2>2 DEF IsPosted, Posts
<1> QED BY <1>1, ChannelInvariant, PTL

-----------------------------------------------------------------------------
(* Numbers and loops                                                          *)

\* Below SeqSpace nothing wraps.
LEMMA NoWrap ==
  ASSUME NEW a \in Nat, a < SeqSpace
  PROVE  a % SeqSpace = a
BY PseudoTcpAssumption

\* A remainder is a sequence number.
LEMMA SeqNumber ==
  ASSUME NEW a \in Int
  PROVE  a % SeqSpace \in 0 .. SeqSpace - 1
BY PseudoTcpAssumption

\* A set of numbers has a least one.
LEMMA LeastOf ==
  ASSUME NEW S \in SUBSET Nat, S # {}
  PROVE  \E m \in S : \A n \in S : m <= n
<1>1. PICK m \in S : \A n \in S : <<n, m>> \notin OpToRel(<, Nat)
  BY WFMin, NatLessThanWellFounded
<1>2. \A n \in S : m <= n
  <2> SUFFICES ASSUME NEW n \in S, n < m PROVE FALSE
    OBVIOUS
  <2>1. <<n, m>> \in OpToRel(<, Nat)
    BY DEF OpToRel
  <2> QED BY <1>1, <2>1
<1> QED BY <1>2

\* What turn F makes of a, again and again.
Loop(f, S, F, a, n) ==
  /\ f \in [0 .. n -> S] /\ f[0] = a
  /\ \A k \in 1 .. n : f[k] = F[f[k - 1]]

\* It may go on.
LEMMA LoopExists ==
  ASSUME NEW S, NEW F \in [S -> S], NEW a \in S, NEW n \in Nat
  PROVE  \E f : Loop(f, S, F, a, n)
<1> DEFINE Runs(f, m) == Loop(f, S, F, a, m)
           T == {m \in 0 .. n : ~\E f : Runs(f, m)}
<1>1. SUFFICES ASSUME T # {} PROVE FALSE
  OBVIOUS
<1>2. T \in SUBSET Nat
  OBVIOUS
<1> HIDE DEF T
<1>3. PICK m \in T : \A k \in T : m <= k
  BY <1>1, <1>2, LeastOf
<1> USE DEF T
<1>4. m \in 0 .. n /\ ~\E f : Runs(f, m)
  BY <1>3
<1>5. m # 0
  <2>1. Runs([k \in 0 .. 0 |-> a], 0)
    BY DEF Loop
  <2> QED BY <1>4, <2>1
<1>6. m - 1 \in 0 .. n /\ m - 1 \notin T
  <2>1. m - 1 \in 0 .. n /\ ~(m <= m - 1)
    BY <1>4, <1>5
  <2> HIDE DEF T
  <2> QED BY <1>3, <2>1
<1>7. PICK f : Runs(f, m - 1)
  BY <1>6
<1> DEFINE g == [k \in 0 .. m |-> IF k = m THEN F[f[m - 1]] ELSE f[k]]
<1>8. Runs(g, m)
  <2>1. m \in Nat \ {0}
    BY <1>4, <1>5
  <2>2. f \in [0 .. m - 1 -> S] /\ f[0] = a /\ \A k \in 1 .. m - 1 : f[k] = F[f[k - 1]]
    BY <1>7 DEF Loop
  <2>3. \A k \in 0 .. m - 1 : g[k] = f[k] /\ f[k] \in S
    BY <2>1, <2>2
  <2>4. g[m] = F[f[m - 1]] /\ g[m] \in S
    BY <2>1, <2>2
  <2>5. g \in [0 .. m -> S]
    <3>1. \A k \in 0 .. m : k = m \/ k \in 0 .. m - 1
      BY <2>1
    <3> QED BY <2>3, <2>4, <3>1
  <2>6. ASSUME NEW k \in 1 .. m PROVE g[k] = F[g[k - 1]]
    <3>1. CASE k = m
      <4>1. m - 1 \in 0 .. m - 1
        BY <2>1
      <4> HIDE DEF g
      <4> QED BY <2>3, <2>4, <3>1, <4>1
    <3>2. CASE k # m
      <4>1. k \in 1 .. m - 1 /\ k \in 0 .. m - 1 /\ k - 1 \in 0 .. m - 1
        BY <2>1, <3>2
      <4> HIDE DEF g
      <4> QED BY <2>2, <2>3, <4>1
    <3> QED BY <3>1, <3>2
  <2>7. g[0] = a
    BY <2>1, <2>2
  <2> HIDE DEF g
  <2> QED BY <2>5, <2>6, <2>7 DEF Loop
<1> QED BY <1>4, <1>8

\* What holds of the pairs of a loop's turns and what they come to.
LEMMA LoopKeeps ==
  ASSUME NEW P, NEW n \in Nat, NEW f, <<0, f[0]>> \in P,
         \A k \in 1 .. n : <<k - 1, f[k - 1]>> \in P => <<k, f[k]>> \in P
  PROVE  <<n, f[n]>> \in P
<1> DEFINE T == {m \in 0 .. n : <<m, f[m]>> \notin P}
<1>1. SUFFICES ASSUME T # {} PROVE FALSE
  OBVIOUS
<1>2. T \in SUBSET Nat
  OBVIOUS
<1> HIDE DEF T
<1>3. PICK m \in T : \A k \in T : m <= k
  BY <1>1, <1>2, LeastOf
<1> USE DEF T
<1>4. m \in 0 .. n /\ <<m, f[m]>> \notin P
  BY <1>3
<1>5. m \in 1 .. n /\ m - 1 \in 0 .. n
  BY <1>4
<1>6. m - 1 \notin T
  <2>1. ~(m <= m - 1)
    BY <1>4
  <2> HIDE DEF T
  <2> QED BY <1>3, <2>1
<1> QED BY <1>4, <1>5, <1>6

\* What keeps what SendTurn is given keeps what attemptSend is given.
LEMMA AttemptSendEnds ==
  ASSUME NEW r, NEW sflags, NEW cwnd, NEW writes, NEW S,
         [r |-> r, sflags |-> sflags, done |-> FALSE] \in S,
         \A s \in S : SendTurn(s, cwnd, writes) \in S
  PROVE  \E s \in S : AttemptSend(r, sflags, cwnd, writes) = s.r
<1> DEFINE a == [r |-> r, sflags |-> sflags, done |-> FALSE]
           n == SndBuf + 1
           F == [s \in S |-> SendTurn(s, cwnd, writes)]
           Runs(f) == f = [turn \in 0 .. n |-> IF turn = 0 THEN a ELSE SendTurn(f[turn - 1], cwnd, writes)]
           after == CHOOSE f : Runs(f)
<1>1. AttemptSend(r, sflags, cwnd, writes) = after[n].r
  BY DEF AttemptSend
<1>2. n \in Nat /\ F \in [S -> S] /\ a \in S
  BY PseudoTcpAssumption
<1> HIDE DEF a, n
<1>3. PICK f : Loop(f, S, F, a, n)
  <2> HIDE DEF F
  <2> QED BY <1>2, LoopExists
<1>4. Runs(f)
  <2>1. ASSUME NEW k \in 0 .. n
        PROVE  f[k] = IF k = 0 THEN a ELSE SendTurn(f[k - 1], cwnd, writes)
    <3>1. CASE k = 0
      BY <1>3, <3>1 DEF Loop
    <3>2. CASE k # 0
      <4>1. k \in 1 .. n /\ k - 1 \in 0 .. n
        BY <1>2, <3>2
      <4> QED BY <1>3, <3>2, <4>1 DEF Loop
    <3> QED BY <3>1, <3>2
  <2>2. f = [k \in 0 .. n |-> f[k]]
    BY <1>3 DEF Loop
  <2> QED BY <2>1, <2>2
<1>5. Runs(after)
  BY <1>4
<1>6. \A k \in 0 .. n : after[k] = IF k = 0 THEN a ELSE SendTurn(after[k - 1], cwnd, writes)
  BY <1>5
<1> HIDE DEF after
<1>7. <<n, after[n]>> \in (0 .. n) \X S
  <2> DEFINE P == (0 .. n) \X S
  <2>1. <<0, after[0]>> \in P
    BY <1>2, <1>6
  <2>2. ASSUME NEW k \in 1 .. n, <<k - 1, after[k - 1]>> \in P PROVE <<k, after[k]>> \in P
    <3>1. k \in 0 .. n /\ k # 0
      BY <1>2
    <3> QED BY <1>6, <2>2, <3>1
  <2> HIDE DEF P
  <2>3. <<n, after[n]>> \in P
    BY <1>2, <2>1, <2>2, LoopKeeps
  <2> QED BY <2>3 DEF P
<1> QED BY <1>1, <1>7

-----------------------------------------------------------------------------
(* Segments                                                                   *)

\* An SSegment of m_slist.
Segment == [seq : Nat, len : Nat, ctrl : BOOLEAN, xmit : Nat]

\* A segment of what is between u and e: those below n, and no others, were
\* transmitted, and only the one of the CONNECT is a control segment.
Piece(x, u, n, e) ==
  /\ x.len > 0 /\ x.seq >= u /\ x.seq + x.len <= e
  /\ x.xmit > 0 <=> x.seq < n
  /\ x.seq < n => x.seq + x.len <= n
  /\ x.ctrl <=> x.seq = 0
  /\ x.ctrl => x.len = 1

\* l cuts what is between u and e into segments, each ending where the next begins.
Chain(l, u, n, e) ==
  /\ l = <<>> => u = e
  /\ l # <<>> => l[1].seq = u
  /\ \A i \in 1 .. Len(l) : Piece(l[i], u, n, e)
  /\ \A i \in 1 .. Len(l) : l[i].seq + l[i].len = IF i = Len(l) THEN e ELSE l[i + 1].seq
  /\ \A i, j \in 1 .. Len(l) : i < j => l[i].seq + l[i].len <= l[j].seq

\* A segment begins at s.
Starts(l, s) == \E i \in 1 .. Len(l) : l[i].seq = s

\* One of the segments.
LEMMA ChainAt ==
  ASSUME NEW l \in Seq(Segment), NEW u, NEW n, NEW e, Chain(l, u, n, e),
         NEW i \in 1 .. Len(l)
  PROVE  /\ Len(l) \in Nat /\ l # <<>> /\ 1 \in 1 .. Len(l) /\ Len(l) \in 1 .. Len(l)
         /\ l[i] \in Segment
         /\ l[i].seq \in Nat /\ l[i].len \in Nat /\ l[i].ctrl \in BOOLEAN /\ l[i].xmit \in Nat
         /\ Piece(l[i], u, n, e)
         /\ l[i].seq + l[i].len = IF i = Len(l) THEN e ELSE l[i + 1].seq
         /\ l[1].seq = u
         /\ i # Len(l) => i + 1 \in 1 .. Len(l)
<1>1. Len(l) \in Nat /\ l[i] \in Segment
  BY LenProperties, ElementOfSeq
<1>2. l # <<>> /\ 1 \in 1 .. Len(l) /\ Len(l) \in 1 .. Len(l)
  BY <1>1, EmptySeq
<1>3. l[i].seq \in Nat /\ l[i].len \in Nat /\ l[i].ctrl \in BOOLEAN /\ l[i].xmit \in Nat
  BY <1>1 DEF Segment
<1>4. i # Len(l) => i + 1 \in 1 .. Len(l)
  BY <1>1
<1>5. /\ Piece(l[i], u, n, e) /\ l[1].seq = u
      /\ l[i].seq + l[i].len = IF i = Len(l) THEN e ELSE l[i + 1].seq
  BY <1>2 DEF Chain
<1> QED BY <1>1, <1>2, <1>3, <1>4, <1>5

\* Where they begin and end.
LEMMA ChainEnds ==
  ASSUME NEW l \in Seq(Segment), NEW u \in Nat, NEW n, NEW e \in Nat, Chain(l, u, n, e)
  PROVE  u <= e /\ (l = <<>> <=> u = e)
<1>1. CASE l = <<>>
  BY <1>1 DEF Chain
<1>2. CASE l # <<>>
  <2>1. 1 \in 1 .. Len(l)
    BY <1>2, EmptySeq, LenProperties
  <2>2. Piece(l[1], u, n, e) /\ l[1].seq \in Nat /\ l[1].len \in Nat
    BY <2>1, ChainAt
  <2> QED BY <1>2, <2>2 DEF Piece
<1> QED BY <1>1, <1>2

\* The same segments in a list whose k-th is changed: their places are.
LEMMA StartsKept ==
  ASSUME NEW l, NEW m, Len(m) = Len(l), \A i \in 1 .. Len(l) : m[i].seq = l[i].seq
  PROVE  \A s : Starts(l, s) <=> Starts(m, s)
BY DEF Starts

\* Some more at the end.
Appended(l, e, k, ctrl) == Append(l, [seq |-> e, len |-> k, ctrl |-> ctrl, xmit |-> 0])

\* A segment of its own at the end of the list.
LEMMA ChainAppend ==
  ASSUME NEW l \in Seq(Segment), NEW u \in Nat, NEW n \in Nat, NEW e \in Nat,
         Chain(l, u, n, e), n <= e, NEW k \in Nat \ {0}, NEW ctrl \in BOOLEAN,
         ctrl <=> e = 0, ctrl => k = 1
  PROVE  LET m == Appended(l, e, k, ctrl)
         IN /\ m \in Seq(Segment) /\ Chain(m, u, n, e + k)
            /\ \A s : Starts(l, s) => Starts(m, s)
            /\ Starts(m, e)
<1> DEFINE x == [seq |-> e, len |-> k, ctrl |-> ctrl, xmit |-> 0]
           m == Append(l, x)
<1>1. x \in Segment /\ x.seq = e /\ x.len = k /\ x.ctrl = ctrl /\ x.xmit = 0
  BY DEF Segment
<1> HIDE DEF x
<1>2. /\ m \in Seq(Segment) /\ m # <<>> /\ Len(m) = Len(l) + 1 /\ Len(l) \in Nat
      /\ \A i \in 1 .. Len(l) : m[i] = l[i]
      /\ m[Len(l) + 1] = x
  BY <1>1, AppendProperties, LenProperties
<1>4. \A i \in 1 .. Len(m) : i \in 1 .. Len(l) \/ i = Len(l) + 1
  BY <1>2
<1> HIDE DEF m
<1>5. l = <<>> => Len(l) = 0
  BY EmptySeq
<1>6. (\A s : Starts(l, s) => Starts(m, s)) /\ Starts(m, e)
  BY <1>1, <1>2 DEF Starts
<1>7. u <= e
  BY ChainEnds
<1>8. m[1].seq = u
  <2>1. CASE l = <<>>
    BY <1>1, <1>2, <1>5, <2>1 DEF Chain
  <2>2. CASE l # <<>>
    <3>1. 1 \in 1 .. Len(l)
      BY <1>2, <2>2, EmptySeq
    <3> QED BY <1>2, <2>2, <3>1 DEF Chain
  <2> QED BY <2>1, <2>2
<1>9. ASSUME NEW i \in 1 .. Len(m)
      PROVE  /\ Piece(m[i], u, n, e + k)
             /\ m[i].seq + m[i].len = IF i = Len(m) THEN e + k ELSE m[i + 1].seq
  <2>1. CASE i = Len(l) + 1
    <3>1. m[i] = x /\ i = Len(m)
      BY <1>2, <2>1
    <3>2. Piece(x, u, n, e + k)
      BY <1>1, <1>7 DEF Piece
    <3> QED BY <1>1, <3>1, <3>2
  <2>2. CASE i \in 1 .. Len(l)
    <3>1. m[i] = l[i] /\ i # Len(m)
      BY <1>2, <2>2
    <3>2. /\ Piece(l[i], u, n, e) /\ l[i].seq \in Nat /\ l[i].len \in Nat
          /\ l[i].seq + l[i].len = IF i = Len(l) THEN e ELSE l[i + 1].seq
          /\ i # Len(l) => i + 1 \in 1 .. Len(l)
      BY <2>2, ChainAt
    <3>3. Piece(l[i], u, n, e + k)
      BY <3>2 DEF Piece
    <3>4. m[i].seq + m[i].len = m[i + 1].seq
      <4>1. CASE i = Len(l)
        BY <1>1, <1>2, <3>1, <3>2, <4>1
      <4>2. CASE i # Len(l)
        BY <1>2, <3>1, <3>2, <4>2
      <4> QED BY <4>1, <4>2
    <3> QED BY <3>1, <3>3, <3>4
  <2> QED BY <1>4, <2>1, <2>2
<1>10. ASSUME NEW i \in 1 .. Len(m), NEW j \in 1 .. Len(m), i < j
       PROVE  m[i].seq + m[i].len <= m[j].seq
  <2>1. i \in 1 .. Len(l) /\ m[i] = l[i]
    BY <1>2, <1>10
  <2>2. CASE j = Len(l) + 1
    <3>1. Piece(l[i], u, n, e)
      BY <2>1, ChainAt
    <3> QED BY <1>1, <1>2, <2>1, <2>2, <3>1 DEF Piece
  <2>3. CASE j \in 1 .. Len(l)
    BY <1>2, <1>10, <2>1, <2>3 DEF Chain
  <2> QED BY <1>4, <2>2, <2>3
<1>11. Chain(m, u, n, e + k)
  BY <1>2, <1>8, <1>9, <1>10 DEF Chain
<1> QED BY <1>2, <1>6, <1>11 DEF m, x, Appended

\* Some more in the last one, which was not transmitted.
Lengthened(l, k) == [l EXCEPT ![Len(l)].len = @ + k]

\* The last segment, never sent, made longer.
LEMMA ChainLonger ==
  ASSUME NEW l \in Seq(Segment), NEW u \in Nat, NEW n \in Nat, NEW e \in Nat,
         Chain(l, u, n, e), NEW k \in Nat,
         l # <<>>, l[Len(l)].xmit = 0, ~l[Len(l)].ctrl
  PROVE  LET m == Lengthened(l, k)
         IN /\ m \in Seq(Segment) /\ Chain(m, u, n, e + k)
            /\ \A s : Starts(l, s) => Starts(m, s)
<1> DEFINE z == Len(l)
           x == [l[z] EXCEPT !.len = l[z].len + k]
           m == [l EXCEPT ![z] = x]
<1>1. z \in 1 .. z /\ z \in Nat
  BY EmptySeq, LenProperties
<1>2. /\ l[z] \in Segment /\ l[z].seq \in Nat /\ l[z].len \in Nat
      /\ Piece(l[z], u, n, e) /\ l[z].seq + l[z].len = e /\ l[1].seq = u
  <2> HIDE DEF x
  <2> QED BY <1>1, ChainAt
<1>3. /\ x \in Segment /\ x.seq = l[z].seq /\ x.len = l[z].len + k /\ x.ctrl = l[z].ctrl
      /\ x.xmit = l[z].xmit
  <2> DEFINE y == l[z]
             w == l[z].len + k
  <2>1. y \in Segment /\ w \in Nat
    BY <1>2
  <2> HIDE DEF y, w
  <2>2. LET v == [y EXCEPT !.len = w]
        IN v \in Segment /\ v.seq = y.seq /\ v.len = w /\ v.ctrl = y.ctrl
           /\ v.xmit = y.xmit
    BY <2>1 DEF Segment
  <2> QED BY <2>2 DEF y, w
<1> HIDE DEF x
<1>4. m \in Seq(Segment) /\ Len(m) = z /\ \A i \in 1 .. z : m[i] = IF i = z THEN x ELSE l[i]
  BY <1>1, <1>3, ExceptSeq
<1> HIDE DEF m
<1>5. m # <<>> /\ m[1].seq = u
  BY <1>1, <1>2, <1>3, <1>4, EmptySeq
<1>6. Piece(x, u, n, e + k)
  BY <1>2, <1>3 DEF Piece
<1>7. \A i \in 1 .. z : m[i].seq = l[i].seq
  BY <1>3, <1>4
<1>8. ASSUME NEW i \in 1 .. z
      PROVE  /\ Piece(m[i], u, n, e + k)
             /\ m[i].seq + m[i].len = IF i = z THEN e + k ELSE m[i + 1].seq
  <2>1. CASE i = z
    <3>1. m[i] = x /\ x.seq + x.len = e + k
      BY <1>1, <1>2, <1>3, <1>4, <2>1
    <3> QED BY <1>6, <2>1, <3>1
  <2>2. CASE i # z
    <3>1. /\ Piece(l[i], u, n, e) /\ l[i].seq \in Nat /\ l[i].len \in Nat
          /\ l[i].seq + l[i].len = l[i + 1].seq /\ i + 1 \in 1 .. z
      BY <2>2, ChainAt
    <3>2. Piece(l[i], u, n, e + k)
      BY <3>1 DEF Piece
    <3>3. m[i] = l[i]
      BY <1>4, <2>2
    <3> QED BY <1>7, <2>2, <3>1, <3>2, <3>3
  <2> QED BY <2>1, <2>2
<1>9. ASSUME NEW i \in 1 .. z, NEW j \in 1 .. z, i < j
      PROVE  m[i].seq + m[i].len <= m[j].seq
  <2>1. m[i] = l[i] /\ m[j].seq = l[j].seq
    BY <1>1, <1>4, <1>7, <1>9
  <2> QED BY <1>9, <2>1 DEF Chain
<1>11. Chain(m, u, n, e + k)
  BY <1>4, <1>5, <1>8, <1>9 DEF Chain
<1>12. \A s : Starts(l, s) => Starts(m, s)
  BY <1>4, <1>7, StartsKept
<1> QED BY <1>4, <1>11, <1>12 DEF m, x, Lengthened

\* The fields of a segment.
LEMMA SegmentNumbers ==
  ASSUME NEW x \in Segment
  PROVE  /\ x.seq \in Nat /\ x.len \in Nat /\ x.xmit \in Nat /\ x.ctrl \in BOOLEAN
         /\ x.seq + x.len \in Nat
BY DEF Segment

\* Two in the place of the i-th.
TwoIn(l, i, a, b) == SubSeq(l, 1, i - 1) \o <<a, b>> \o SubSeq(l, i + 1, Len(l))

\* What is before the i-th is as it was.
SameUpTo(m, l, i) == \A j \in 1 .. Len(l) : j < i => m[j] = l[j]

\* Two segments in the place of one.
LEMMA TwoForOne ==
  ASSUME NEW l \in Seq(Segment), NEW i \in 1 .. Len(l), NEW a \in Segment, NEW b \in Segment
  PROVE  /\ TwoIn(l, i, a, b) \in Seq(Segment) /\ Len(TwoIn(l, i, a, b)) = Len(l) + 1
         /\ TwoIn(l, i, a, b)[i] = a /\ TwoIn(l, i, a, b)[i + 1] = b
         /\ SameUpTo(TwoIn(l, i, a, b), l, i)
         /\ \A j \in i + 2 .. Len(l) + 1 : TwoIn(l, i, a, b)[j] = l[j - 1]
<1> DEFINE z == Len(l)
           c == SubSeq(l, 1, i - 1)
           d == <<a, b>>
           f == SubSeq(l, i + 1, z)
           cd == c \o d
           m == cd \o f
<1>1. z \in Nat /\ i \in 1 .. z
  BY LenProperties
<1>2. c \in Seq(Segment) /\ Len(c) = i - 1 /\ \A j \in 1 .. i - 1 : c[j] = l[j]
  BY <1>1, SubSeqProperties
<1>3. f \in Seq(Segment) /\ Len(f) = z - i /\ \A j \in 1 .. z - i : f[j] = l[j + i]
  BY <1>1, SubSeqProperties
<1>4. d \in Seq(Segment) /\ Len(d) = 2 /\ d[1] = a /\ d[2] = b
  OBVIOUS
<1> HIDE DEF c, d, f
<1>5. /\ cd \in Seq(Segment) /\ Len(cd) = i + 1
      /\ \A j \in 1 .. i + 1 : cd[j] = IF j <= i - 1 THEN c[j] ELSE d[j - (i - 1)]
  <2>1. /\ cd \in Seq(Segment) /\ Len(cd) = Len(c) + Len(d)
        /\ \A j \in 1 .. Len(c) + Len(d) : cd[j] = IF j <= Len(c) THEN c[j] ELSE d[j - Len(c)]
    BY <1>2, <1>4, ConcatProperties
  <2>2. Len(c) + Len(d) = i + 1
    BY <1>1, <1>2, <1>4
  <2> HIDE DEF cd
  <2> QED BY <1>2, <2>1, <2>2
<1> HIDE DEF cd
<1>6. /\ m \in Seq(Segment) /\ Len(m) = z + 1
      /\ \A j \in 1 .. z + 1 : m[j] = IF j <= i + 1 THEN cd[j] ELSE f[j - (i + 1)]
  <2>1. /\ m \in Seq(Segment) /\ Len(m) = Len(cd) + Len(f)
        /\ \A j \in 1 .. Len(cd) + Len(f) : m[j] = IF j <= Len(cd) THEN cd[j] ELSE f[j - Len(cd)]
    BY <1>3, <1>5, ConcatProperties
  <2>2. Len(cd) + Len(f) = z + 1
    BY <1>1, <1>3, <1>5
  <2> HIDE DEF m
  <2> QED BY <1>5, <2>1, <2>2
<1> HIDE DEF m
<1>7. m[i] = a /\ m[i + 1] = b
  BY <1>1, <1>4, <1>5, <1>6
<1>8. ASSUME NEW j \in 1 .. z, j < i PROVE m[j] = l[j]
  <2>1. j \in 1 .. i + 1 /\ j \in 1 .. z + 1 /\ j <= i + 1 /\ j <= i - 1 /\ j \in 1 .. i - 1
    BY <1>1, <1>8
  <2> QED BY <1>2, <1>5, <1>6, <2>1
<1>9. ASSUME NEW j \in i + 2 .. z + 1 PROVE m[j] = l[j - 1]
  <2>1. m[j] = f[j - (i + 1)]
    BY <1>1, <1>6
  <2>2. j - (i + 1) \in 1 .. z - i /\ j - (i + 1) + i = j - 1
    BY <1>1
  <2> QED BY <1>3, <2>1, <2>2
<1>10. m = TwoIn(l, i, a, b)
  BY DEF m, cd, c, d, f, TwoIn
<1>11. SameUpTo(m, l, i)
  BY <1>8 DEF SameUpTo
<1> QED BY <1>6, <1>7, <1>9, <1>10, <1>11

\* A segment in two.
LEMMA ChainSplit ==
  ASSUME NEW l \in Seq(Segment), NEW u \in Nat, NEW n \in Nat, NEW e \in Nat,
         Chain(l, u, n, e), e < SeqSpace, NEW i \in 1 .. Len(l), NEW k \in Nat \ {0}
  PROVE  LET m == Split(l, i, k)
         IN /\ m \in Seq(Segment) /\ Chain(m, u, n, e)
            /\ \A s : Starts(l, s) => Starts(m, s)
            /\ i \in 1 .. Len(m)
            /\ m[i].seq = l[i].seq /\ m[i].ctrl = l[i].ctrl /\ m[i].xmit = l[i].xmit
            /\ m[i].len = Least(l[i].len, k)
<1> DEFINE z == Len(l)
           y == l[i]
           m == Split(l, i, k)
<1>1. /\ z \in Nat /\ y \in Segment /\ y.seq \in Nat /\ y.len \in Nat
      /\ Piece(y, u, n, e) /\ l[1].seq = u
      /\ y.seq + y.len = IF i = z THEN e ELSE l[i + 1].seq
      /\ 1 \in 1 .. z /\ i \in 1 .. z
  BY ChainAt
<1>2. CASE y.len <= k
  <2>1. m = l
    BY <1>2 DEF Split
  <2>2. y.len = Least(y.len, k)
    BY <1>2 DEF Least
  <2> QED BY <1>1, <2>1, <2>2
<1>3. CASE ~(y.len <= k)
  <2> DEFINE s == y.seq + k
             r == y.len - k
             a == [y EXCEPT !.len = k]
             b == [y EXCEPT !.seq = s, !.len = r]
             c == SubSeq(l, 1, i - 1) \o <<a, b>> \o SubSeq(l, i + 1, z)
  <2>1. s \in Nat /\ r \in Nat \ {0} /\ k < y.len /\ s < SeqSpace
    <3> DEFINE ys == y.seq
               yl == y.len
    <3>1. ys + yl <= e /\ SeqSpace \in Nat /\ ys \in Nat /\ yl \in Nat /\ ~(yl <= k)
      BY <1>1, <1>3, PseudoTcpAssumption DEF Piece
    <3> HIDE DEF ys, yl
    <3>2. ys + k \in Nat /\ yl - k \in Nat \ {0} /\ k < yl /\ ys + k < SeqSpace
      BY <3>1
    <3> QED BY <3>2 DEF ys, yl
  <2>2. Add(y.seq, k) = s
    BY <2>1, NoWrap DEF Add
  <2>3. m = c
    BY <1>3, <2>2 DEF Split
  <2> HIDE DEF s, r
  <2>4. /\ a \in Segment /\ a.seq = y.seq /\ a.len = k /\ a.ctrl = y.ctrl /\ a.xmit = y.xmit
        /\ b \in Segment /\ b.seq = s /\ b.len = r /\ b.ctrl = y.ctrl /\ b.xmit = y.xmit
    <3> HIDE DEF y
    <3> QED BY <1>1, <2>1 DEF Segment
  <2> HIDE DEF a, b
  <2>5. /\ c \in Seq(Segment) /\ Len(c) = z + 1
        /\ c[i] = a /\ c[i + 1] = b
        /\ \A j \in 1 .. z : j < i => c[j] = l[j]
        /\ \A j \in i + 2 .. z + 1 : c[j] = l[j - 1]
    <3> HIDE DEF y
    <3>1. c = TwoIn(l, i, a, b)
      BY DEF TwoIn
    <3>2. a \in Segment /\ b \in Segment
      BY <2>4
    <3> HIDE DEF c, z
    <3>3. z = Len(l)
      BY DEF z
    <3>4. /\ TwoIn(l, i, a, b) \in Seq(Segment) /\ Len(TwoIn(l, i, a, b)) = Len(l) + 1
          /\ TwoIn(l, i, a, b)[i] = a /\ TwoIn(l, i, a, b)[i + 1] = b
      BY <3>2, TwoForOne
    <3>5. \A j \in 1 .. Len(l) : j < i => TwoIn(l, i, a, b)[j] = l[j]
      <4>1. SameUpTo(TwoIn(l, i, a, b), l, i)
        BY <3>2, TwoForOne
      <4> QED BY <4>1 DEF SameUpTo
    <3>6. \A j \in i + 2 .. Len(l) + 1 : TwoIn(l, i, a, b)[j] = l[j - 1]
      BY <3>2, TwoForOne
    <3> QED BY <3>1, <3>3, <3>4, <3>5, <3>6
  <2> HIDE DEF c, y, m
  <2>6. y.seq + k = s /\ s + r = y.seq + y.len
    BY <1>1 DEF s, r
  <2>7. Piece(a, u, n, e) /\ Piece(b, u, n, e)
    BY <1>1, <2>1, <2>4, <2>6 DEF Piece
  <2>8. c # <<>> /\ c[1].seq = u
    <3>1. c # <<>>
      BY <1>1, <2>5, EmptySeq
    <3>2. CASE i = 1
      BY <1>1, <2>4, <2>5, <3>2 DEF y
    <3>3. CASE i # 1
      BY <1>1, <2>5, <3>3
    <3> QED BY <3>1, <3>2, <3>3
  <2>9. ASSUME NEW j \in 1 .. z + 1
        PROVE  \/ j \in 1 .. i - 1 /\ j \in 1 .. z
               \/ j = i
               \/ j = i + 1
               \/ j \in i + 2 .. z + 1 /\ j - 1 \in 1 .. z
    <3>1. z \in Nat /\ i \in 1 .. z
      BY <1>1
    <3> HIDE DEF z
    <3>2. j \in Nat /\ 1 <= j /\ j <= z + 1 /\ i \in Nat /\ 1 <= i /\ i <= z
      BY <2>9, <3>1
    <3>3. CASE j < i
      BY <3>1, <3>2, <3>3
    <3>4. CASE j > i + 1
      BY <3>1, <3>2, <3>4
    <3> QED BY <3>2, <3>3, <3>4
  <2>10. ASSUME NEW j \in 1 .. z + 1
         PROVE  /\ Piece(c[j], u, n, e)
                /\ c[j].seq + c[j].len = IF j = z + 1 THEN e ELSE c[j + 1].seq
    <3>1. CASE j \in 1 .. i - 1 /\ j \in 1 .. z
      <4>1. /\ Piece(l[j], u, n, e) /\ l[j].seq + l[j].len = l[j + 1].seq
        <5>1. j # z
          BY <1>1, <3>1
        <5> QED BY <3>1, <5>1, ChainAt
      <4>2. c[j] = l[j] /\ j # z + 1
        BY <1>1, <2>5, <3>1
      <4>3. c[j + 1].seq = l[j + 1].seq
        <5>1. CASE j + 1 = i
          BY <2>4, <2>5, <5>1 DEF y
        <5>2. CASE j + 1 # i
          <6>1. j + 1 \in 1 .. z /\ j + 1 < i
            BY <1>1, <3>1, <5>2
          <6> QED BY <2>5, <6>1
        <5> QED BY <5>1, <5>2
      <4> QED BY <4>1, <4>2, <4>3
    <3>2. CASE j = i
      BY <1>1, <2>4, <2>5, <2>6, <2>7, <3>2
    <3>3. CASE j = i + 1
      <4>1. CASE i = z
        BY <1>1, <2>4, <2>5, <2>6, <2>7, <3>3, <4>1
      <4>2. CASE i # z
        <5>1. i + 2 \in i + 2 .. z + 1 /\ j + 1 = i + 2 /\ j # z + 1 /\ (i + 2) - 1 = i + 1
          BY <1>1, <3>3, <4>2
        <5>2. c[j + 1] = l[i + 1]
          BY <2>5, <5>1
        <5> QED BY <1>1, <2>4, <2>5, <2>6, <2>7, <3>3, <4>2, <5>1, <5>2
      <4> QED BY <4>1, <4>2
    <3>4. CASE j \in i + 2 .. z + 1 /\ j - 1 \in 1 .. z
      <4>1. /\ Piece(l[j - 1], u, n, e)
            /\ l[j - 1].seq + l[j - 1].len = IF j - 1 = z THEN e ELSE l[(j - 1) + 1].seq
        BY <3>4, ChainAt
      <4>2. c[j] = l[j - 1]
        BY <2>5, <3>4
      <4>3. CASE j = z + 1
        BY <1>1, <4>1, <4>2, <4>3
      <4>4. CASE j # z + 1
        <5>1. j + 1 \in i + 2 .. z + 1 /\ (j + 1) - 1 = j /\ (j - 1) + 1 = j /\ j - 1 # z
          BY <1>1, <3>4, <4>4
        <5>2. c[j + 1] = l[j]
          BY <2>5, <5>1
        <5> QED BY <4>1, <4>2, <4>4, <5>1, <5>2
      <4> QED BY <4>3, <4>4
    <3> QED BY <2>9, <3>1, <3>2, <3>3, <3>4
  <2>11. ASSUME NEW j \in 1 .. z + 1, NEW h \in 1 .. z + 1, j < h
         PROVE  c[j].seq + c[j].len <= c[h].seq
    <3> DEFINE J == IF j <= i THEN j ELSE j - 1
               H == IF h <= i THEN h ELSE h - 1
    <3>1. J \in 1 .. z /\ H \in 1 .. z
      BY <1>1, <2>11
    <3>2. /\ l[J] \in Segment /\ l[J].seq \in Nat /\ l[J].len \in Nat
          /\ l[H] \in Segment /\ l[H].seq \in Nat /\ l[H].len \in Nat
      <4> HIDE DEF J, H
      <4> QED BY <3>1, ChainAt
    <3>3. CASE j = i /\ h = i + 1
      BY <1>1, <2>4, <2>5, <2>6, <3>3
    <3>4. CASE ~(j = i /\ h = i + 1)
      <4>1. J < H
        BY <1>1, <2>11, <3>4
      <4>2. l[J].seq + l[J].len <= l[H].seq
        <5> HIDE DEF J, H
        <5> QED BY <3>1, <4>1 DEF Chain
      <4>3. c[j].seq + c[j].len <= l[J].seq + l[J].len
        <5>1. CASE j = i
          BY <1>1, <2>1, <2>4, <2>5, <5>1 DEF y
        <5>2. CASE j = i + 1
          <6>1. J = i
            BY <1>1, <5>2
          <6>2. c[j].seq + c[j].len = y.seq + y.len
            BY <2>4, <2>5, <2>6, <5>2
          <6> HIDE DEF J
          <6> QED BY <3>2, <6>1, <6>2 DEF y
        <5>3. CASE j # i /\ j # i + 1
          <6>1. CASE j < i
            <7>1. j \in 1 .. z /\ J = j
              BY <1>1, <2>11, <6>1
            <7>2. c[j] = l[j]
              BY <2>5, <6>1, <7>1
            <7> HIDE DEF J
            <7> QED BY <3>2, <7>1, <7>2
          <6>2. CASE j > i + 1
            <7>1. j \in i + 2 .. z + 1 /\ J = j - 1
              BY <1>1, <2>11, <6>2
            <7>2. c[j] = l[j - 1]
              BY <2>5, <7>1
            <7> HIDE DEF J
            <7> QED BY <3>2, <7>1, <7>2
          <6> QED BY <1>1, <5>3, <6>1, <6>2
        <5> QED BY <5>1, <5>2, <5>3
      <4>4. c[h].seq >= l[H].seq
        <5>1. CASE h = i
          BY <1>1, <2>1, <2>4, <2>5, <5>1 DEF y
        <5>2. CASE h = i + 1
          BY <1>1, <2>1, <2>4, <2>5, <2>6, <5>2 DEF y
        <5>3. CASE h # i /\ h # i + 1
          <6>1. CASE h < i
            <7>1. h \in 1 .. z /\ H = h
              BY <1>1, <2>11, <6>1
            <7>2. c[h] = l[h]
              BY <2>5, <6>1, <7>1
            <7> HIDE DEF H
            <7> QED BY <3>2, <7>1, <7>2
          <6>2. CASE h > i + 1
            <7>1. h \in i + 2 .. z + 1 /\ H = h - 1
              BY <1>1, <2>11, <6>2
            <7>2. c[h] = l[h - 1]
              BY <2>5, <7>1
            <7> HIDE DEF H
            <7> QED BY <3>2, <7>1, <7>2
          <6> QED BY <1>1, <5>3, <6>1, <6>2
        <5> QED BY <5>1, <5>2, <5>3
      <4> DEFINE A == c[j].seq + c[j].len
                 B == l[J].seq + l[J].len
                 C == l[H].seq
                 D == c[h].seq
      <4>6. A \in Nat /\ B \in Nat /\ C \in Nat /\ D \in Nat
        <5> HIDE DEF J, H
        <5>1. c[j] \in Segment /\ c[h] \in Segment
          BY <2>5, ElementOfSeq
        <5>2. A \in Nat /\ D \in Nat
          BY <5>1, SegmentNumbers
        <5>3. l[J] \in Segment /\ l[H] \in Segment
          BY <3>2
        <5>4. B \in Nat /\ C \in Nat
          BY <5>3, SegmentNumbers
        <5> QED BY <5>2, <5>4
      <4>7. A <= B /\ B <= C /\ D >= C
        BY <4>2, <4>3, <4>4
      <4> HIDE DEF A, B, C, D
      <4>8. A <= D
        BY <4>6, <4>7
      <4> QED BY <4>8 DEF A, D
    <3> QED BY <3>3, <3>4
  <2>12. Chain(c, u, n, e)
    BY <2>5, <2>8, <2>10, <2>11 DEF Chain
  <2>13. ASSUME NEW q, Starts(l, q) PROVE Starts(c, q)
    <3>1. PICK j \in 1 .. z : l[j].seq = q
      BY <2>13 DEF Starts
    <3>2. CASE j < i
      <4>1. c[j] = l[j] /\ j \in 1 .. z + 1
        BY <1>1, <2>5, <3>2
      <4> QED BY <2>5, <3>1, <4>1 DEF Starts
    <3>3. CASE j = i
      <4>1. c[j].seq = q /\ j \in 1 .. z + 1
        BY <1>1, <2>4, <2>5, <3>1, <3>3 DEF y
      <4> QED BY <2>5, <4>1 DEF Starts
    <3>4. CASE j > i
      <4>1. j + 1 \in i + 2 .. z + 1 /\ (j + 1) - 1 = j /\ j + 1 \in 1 .. z + 1
        BY <1>1, <3>4
      <4>2. c[j + 1] = l[j]
        BY <2>5, <4>1
      <4> QED BY <2>5, <3>1, <4>1, <4>2 DEF Starts
    <3> QED BY <1>1, <3>2, <3>3, <3>4
  <2>14. k = Least(y.len, k) /\ i \in 1 .. z + 1
    BY <1>1, <1>3, <2>1 DEF Least
  <2> QED BY <2>3, <2>4, <2>5, <2>12, <2>13, <2>14 DEF y, m
<1> QED BY <1>2, <1>3

\* A segment is transmitted: again, or the first that was not.
Once(l, i) == [l EXCEPT ![i].xmit = @ + 1]

\* A segment is sent, the first that was not or one that was.
LEMMA ChainSent ==
  ASSUME NEW l \in Seq(Segment), NEW u \in Nat, NEW n \in Nat, NEW e \in Nat,
         Chain(l, u, n, e), n <= e, NEW i \in 1 .. Len(l), NEW v \in Nat,
         l[i].xmit = 0 => l[i].seq = n,
         v = IF l[i].xmit = 0 THEN n + l[i].len ELSE n
  PROVE  LET m == Once(l, i)
         IN /\ m \in Seq(Segment) /\ Chain(m, u, v, e)
            /\ \A s : Starts(l, s) => Starts(m, s)
            /\ l[i].seq + l[i].len <= v /\ u < v /\ v <= e
            /\ l[i].seq + l[i].len = v \/ Starts(m, l[i].seq + l[i].len)
<1> DEFINE z == Len(l)
           y == l[i]
           k == y.xmit + 1
           x == [y EXCEPT !.xmit = k]
           m == [l EXCEPT ![i] = x]
<1>1. /\ z \in Nat /\ y \in Segment /\ y.seq \in Nat /\ y.len \in Nat /\ y.xmit \in Nat
      /\ Piece(y, u, n, e) /\ l[1].seq = u
      /\ y.seq + y.len = IF i = z THEN e ELSE l[i + 1].seq
      /\ 1 \in 1 .. z /\ i \in 1 .. z
      /\ i # z => i + 1 \in 1 .. z
  BY ChainAt
<1>0. y.seq \in Nat /\ y.len \in Nat
  BY <1>1
<1>2. k \in Nat /\ k > 0
  <2> HIDE DEF y
  <2> QED BY <1>1
<1>3. /\ x \in Segment /\ x.seq = y.seq /\ x.len = y.len /\ x.ctrl = y.ctrl /\ x.xmit = k
  <2> HIDE DEF y, k
  <2> QED BY <1>1, <1>2 DEF Segment
<1>4. m = Once(l, i)
  BY DEF m, x, k, y, Once
<1>5. m \in Seq(Segment) /\ Len(m) = z /\ \A j \in 1 .. z : m[j] = IF j = i THEN x ELSE l[j]
  <2> HIDE DEF x
  <2> QED BY <1>1, <1>3, ExceptSeq
<1> HIDE DEF m, x, k
<1>6. /\ y.len > 0 /\ u <= y.seq /\ y.seq + y.len <= v /\ v <= e /\ n <= v /\ y.seq < v
      /\ y.seq + y.len <= e
  <2>1. /\ y.len > 0 /\ y.seq >= u /\ y.seq + y.len <= e
        /\ y.xmit > 0 <=> y.seq < n
        /\ y.seq < n => y.seq + y.len <= n
        /\ y.xmit = 0 => y.seq = n
        /\ v = IF y.xmit = 0 THEN n + y.len ELSE n
    BY <1>1 DEF Piece
  <2> HIDE DEF y
  <2> QED BY <1>1, <2>1
<1>7. Piece(x, u, v, e)
  <2> HIDE DEF y
  <2>1. /\ y.seq >= u /\ y.seq + y.len <= e /\ y.ctrl <=> y.seq = 0
        /\ y.ctrl => y.len = 1
    BY <1>1 DEF Piece
  <2>2. /\ x.len > 0 /\ x.seq >= u /\ x.seq + x.len <= e
        /\ x.xmit > 0 /\ x.seq < v /\ x.seq + x.len <= v
    BY <1>2, <1>3, <1>6, <2>1
  <2>3. /\ x.ctrl <=> x.seq = 0
        /\ x.ctrl => x.len = 1
    BY <1>1, <1>3 DEF Piece
  <2> QED BY <2>2, <2>3 DEF Piece
<1>8. \A j \in 1 .. z : m[j].seq = l[j].seq /\ m[j].len = l[j].len
  BY <1>3, <1>5
<1>9. ASSUME NEW j \in 1 .. z, j # i PROVE Piece(l[j], u, v, e)
  <2>1. /\ Piece(l[j], u, n, e) /\ l[j] \in Segment
        /\ l[j].seq \in Nat /\ l[j].len \in Nat /\ l[j].xmit \in Nat
    BY ChainAt
  <2>2. CASE y.xmit > 0
    <3>1. v = n
      BY <1>1, <2>2
    <3> QED BY <2>1, <3>1
  <2>3. CASE ~(y.xmit > 0)
    <3>1. y.seq = n /\ v = n + y.len
      BY <1>1, <2>3
    <3>2. CASE j < i
      <4>1. l[j].seq + l[j].len <= y.seq
        BY <3>2 DEF Chain
      <4>2. l[j].seq < n /\ l[j].seq + l[j].len <= v /\ l[j].seq < v
        <5>1. l[j].len > 0
          BY <2>1 DEF Piece
        <5> HIDE DEF y
        <5> QED BY <1>6, <2>1, <3>1, <4>1, <5>1
      <4> QED BY <2>1, <4>2 DEF Piece
    <3>3. CASE i < j
      <4>1. y.seq + y.len <= l[j].seq
        BY <3>3 DEF Chain
      <4>2. ~(l[j].seq < n) /\ ~(l[j].seq < v)
        <5> HIDE DEF y
        <5> QED BY <1>0, <2>1, <3>1, <4>1
      <4> QED BY <2>1, <4>2 DEF Piece
    <3> QED BY <1>1, <1>9, <3>2, <3>3
  <2> QED BY <2>2, <2>3
<1>10. ASSUME NEW j \in 1 .. z
       PROVE  /\ Piece(m[j], u, v, e)
              /\ m[j].seq + m[j].len = IF j = z THEN e ELSE m[j + 1].seq
  <2>1. m[j].seq + m[j].len = IF j = z THEN e ELSE l[j + 1].seq
    BY <1>8, ChainAt
  <2>2. j # z => m[j + 1].seq = l[j + 1].seq
    <3>1. j # z => j + 1 \in 1 .. z
      BY <1>1
    <3> QED BY <1>8, <3>1
  <2>3. Piece(m[j], u, v, e)
    BY <1>5, <1>7, <1>9
  <2> QED BY <2>1, <2>2, <2>3
<1>11. \A j, h \in 1 .. z : j < h => m[j].seq + m[j].len <= m[h].seq
  BY <1>8 DEF Chain
<1>12. m # <<>> /\ m[1].seq = u
  BY <1>1, <1>5, <1>8, EmptySeq
<1>13. Chain(m, u, v, e)
  BY <1>5, <1>10, <1>11, <1>12 DEF Chain
<1>14. \A s : Starts(l, s) => Starts(m, s)
  BY <1>5, <1>8 DEF Starts
<1>15. y.seq + y.len = v \/ Starts(m, y.seq + y.len)
  <2>1. CASE i = z
    <3>1. y.seq + y.len = e
      BY <1>1, <2>1
    <3> HIDE DEF y
    <3> QED BY <1>1, <1>6, <3>1
  <2>2. CASE i # z
    <3>1. i + 1 \in 1 .. z /\ y.seq + y.len = l[i + 1].seq
      BY <1>1, <2>2
    <3> QED BY <1>5, <1>8, <3>1 DEF Starts
  <2> QED BY <2>1, <2>2
<1>16. u < v
  <2> HIDE DEF y
  <2> QED BY <1>1, <1>6
<1> QED BY <1>4, <1>5, <1>6, <1>13, <1>14, <1>15, <1>16

\* The first that was not transmitted begins where what was transmitted ends.
LEMMA FirstUnsent ==
  ASSUME NEW l \in Seq(Segment), NEW u \in Nat, NEW n \in Nat, NEW e \in Nat,
         Chain(l, u, n, e), u <= n, n < e
  PROVE  LET i == SelectInSeq(l, LAMBDA x : x.xmit = 0)
         IN i \in 1 .. Len(l) /\ l[i].xmit = 0 /\ l[i].seq = n
<1> DEFINE z == Len(l)
           I == {i \in 1 .. z : l[i].xmit = 0}
<1>1. z \in Nat /\ l # <<>>
  <2>1. u < e
    OBVIOUS
  <2>2. l # <<>>
    BY <2>1, ChainEnds
  <2> QED BY <2>2, LenProperties
<1>2. z \in 1 .. z /\ 1 \in 1 .. z
  BY <1>1, EmptySeq
<1>3. z \in I
  <2>1. /\ Piece(l[z], u, n, e) /\ l[z].seq \in Nat /\ l[z].len \in Nat /\ l[z].xmit \in Nat
        /\ l[z].seq + l[z].len = e
    <3> HIDE DEF z
    <3> QED BY <1>2, ChainAt DEF z
  <2> QED BY <1>2, <2>1 DEF Piece
<1>4. \E m \in I : \A k \in I : m <= k
  <2>1. I \in SUBSET Nat /\ I # {}
    BY <1>3
  <2> HIDE DEF I
  <2> QED BY <2>1, LeastOf
<1> DEFINE i == Min(I)
<1>5. i \in I /\ \A k \in I : i <= k
  <2> HIDE DEF I
  <2> QED BY <1>4 DEF Min
<1>6. SelectInSeq(l, LAMBDA x : x.xmit = 0) = i
  BY <1>3 DEF SelectInSeq
<1> HIDE DEF i
<1>7. i \in 1 .. z /\ l[i].xmit = 0
  BY <1>5
<1>8. Piece(l[i], u, n, e) /\ l[i].seq \in Nat /\ l[i].len \in Nat /\ l[1].seq = u
  BY <1>7, ChainAt
<1>9. l[i].seq >= n
  BY <1>7, <1>8 DEF Piece
<1>10. l[i].seq = n
  <2>1. CASE i = 1
    BY <1>8, <1>9, <2>1
  <2>2. CASE i # 1
    <3>1. i - 1 \in 1 .. z /\ i - 1 \in Nat /\ i - 1 # z /\ (i - 1) + 1 = i /\ ~(i <= i - 1)
      BY <1>1, <1>7, <2>2
    <3>2. i - 1 \notin I
      <4> HIDE DEF I
      <4> QED BY <1>5, <3>1
    <3>3. /\ Piece(l[i - 1], u, n, e)
          /\ l[i - 1].seq \in Nat /\ l[i - 1].len \in Nat /\ l[i - 1].xmit \in Nat
          /\ l[i - 1].seq + l[i - 1].len = l[i].seq
      <4> DEFINE h == i - 1
      <4>1. h \in 1 .. z /\ h # z /\ h + 1 = i
        BY <3>1
      <4> HIDE DEF h
      <4>2. /\ Piece(l[h], u, n, e)
            /\ l[h].seq \in Nat /\ l[h].len \in Nat /\ l[h].xmit \in Nat
            /\ l[h].seq + l[h].len = l[i].seq
        BY <4>1, ChainAt
      <4> QED BY <4>2 DEF h
    <3>4. l[i - 1].xmit > 0
      BY <3>1, <3>2, <3>3
    <3>5. l[i].seq <= n
      BY <3>3, <3>4 DEF Piece
    <3> QED BY <1>8, <1>9, <3>5
  <2> QED BY <2>1, <2>2
<1> QED BY <1>6, <1>7, <1>10

\* All but the first.
LEMMA ChainTail ==
  ASSUME NEW l \in Seq(Segment), NEW u \in Nat, NEW n \in Nat, NEW e \in Nat,
         Chain(l, u, n, e), l # <<>>
  PROVE  /\ Tail(l) \in Seq(Segment) /\ Len(Tail(l)) = Len(l) - 1
         /\ Head(l) = l[1] /\ l[1] \in Segment /\ l[1].len \in Nat \ {0} /\ l[1].seq = u
         /\ u + l[1].len <= e
         /\ u < n => u + l[1].len <= n /\ l[1].xmit > 0
         /\ Chain(Tail(l), u + l[1].len, n, e)
         /\ \A s : Starts(l, s) => s = u \/ Starts(Tail(l), s)
<1> DEFINE m == Tail(l)
           z == Len(l)
           y == l[1]
           v == u + y.len
<1>1. z \in Nat /\ z # 0
  BY EmptySeq, LenProperties
<1>2. m \in Seq(Segment) /\ Len(m) = z - 1 /\ \A i \in 1 .. z - 1 : m[i] = l[i + 1]
  <2>1. /\ m \in Seq(Segment) /\ Len(m) = z - 1
        /\ \A i \in 1 .. Len(m) : m[i] = l[i + 1]
    BY HeadTailProperties
  <2> HIDE DEF m
  <2> QED BY <2>1
<1>3. 1 \in 1 .. z /\ z \in 1 .. z
  BY <1>1
<1>4. /\ y \in Segment /\ y.seq \in Nat /\ y.len \in Nat /\ y.xmit \in Nat
      /\ Piece(y, u, n, e) /\ y.seq = u
      /\ y.seq + y.len = IF 1 = z THEN e ELSE l[2].seq
  <2>1. \A i \in 1 .. z : l[i].seq + l[i].len = IF i = z THEN e ELSE l[i + 1].seq
    BY DEF Chain
  <2>2. y.seq + y.len = IF 1 = z THEN e ELSE l[2].seq
    <3>1. PICK i \in 1 .. z : i = 1
      BY <1>3
    <3>2. i + 1 = 2
      BY <3>1
    <3> QED BY <2>1, <3>1, <3>2
  <2>3. /\ y \in Segment /\ y.seq \in Nat /\ y.len \in Nat /\ y.xmit \in Nat
        /\ Piece(y, u, n, e) /\ y.seq = u
    BY <1>3, ChainAt
  <2> QED BY <2>2, <2>3
<1>5. /\ y.len > 0 /\ v <= e /\ v \in Nat
      /\ u < n => v <= n /\ y.xmit > 0
  BY <1>4 DEF Piece
<1>6. Head(l) = y
  OBVIOUS
<1> HIDE DEF m
<1>7. ASSUME NEW i \in 1 .. z - 1 PROVE i + 1 \in 1 .. z /\ i \in 1 .. z /\ 1 < i + 1
  BY <1>1
<1>8. ASSUME NEW i \in 1 .. z - 1
      PROVE  /\ Piece(m[i], v, n, e)
             /\ m[i].seq + m[i].len = IF i = z - 1 THEN e ELSE m[i + 1].seq
  <2>1. i + 1 \in 1 .. z /\ 1 < i + 1 /\ m[i] = l[i + 1]
    BY <1>2, <1>7
  <2> DEFINE h == i + 1
  <2>2. h \in 1 .. z /\ 1 < h /\ m[i] = l[h]
    BY <2>1
  <2> HIDE DEF h
  <2>3. /\ Piece(l[h], u, n, e) /\ l[h].seq \in Nat /\ l[h].len \in Nat
        /\ l[h].seq + l[h].len = IF h = z THEN e ELSE l[h + 1].seq
    BY <2>2, ChainAt
  <2>4. l[1].seq + l[1].len <= l[h].seq
    BY <1>3, <2>2 DEF Chain
  <2>5. v <= l[h].seq
    BY <1>4, <2>4
  <2>6. Piece(l[h], v, n, e)
    <3> HIDE DEF v
    <3> QED BY <1>5, <2>3, <2>5 DEF Piece
  <2>7. CASE i = z - 1
    BY <1>1, <2>2, <2>3, <2>6, <2>7 DEF h
  <2>8. CASE i # z - 1
    <3>1. i + 1 \in 1 .. z - 1 /\ h # z
      BY <1>1, <2>8 DEF h
    <3>2. m[i + 1] = l[h + 1]
      BY <1>2, <3>1 DEF h
    <3> QED BY <2>2, <2>3, <2>6, <2>8, <3>1, <3>2
  <2> QED BY <2>7, <2>8
<1>9. ASSUME NEW i \in 1 .. z - 1, NEW j \in 1 .. z - 1, i < j
      PROVE  m[i].seq + m[i].len <= m[j].seq
  <2>1. i + 1 \in 1 .. z /\ j + 1 \in 1 .. z /\ i + 1 < j + 1
    BY <1>7, <1>9
  <2>2. l[i + 1].seq + l[i + 1].len <= l[j + 1].seq
    BY <2>1 DEF Chain
  <2> QED BY <1>2, <2>2
<1>10. m # <<>> => m[1].seq = v
  <2>1. SUFFICES ASSUME m # <<>> PROVE m[1].seq = v
    OBVIOUS
  <2>2. z - 1 # 0
    BY <1>2, <2>1, EmptySeq
  <2>3. 1 \in 1 .. z - 1 /\ 1 # z
    <3> HIDE DEF z
    <3> QED BY <1>1, <2>2
  <2>4. m[1] = l[1 + 1]
    BY <1>2, <2>3
  <2> QED BY <1>4, <2>3, <2>4
<1>11. m = <<>> => v = e
  <2>1. SUFFICES ASSUME m = <<>> PROVE v = e
    OBVIOUS
  <2>2. z = 1
    BY <1>1, <1>2, <2>1, EmptySeq
  <2> QED BY <1>4, <2>2
<1>12. Chain(m, v, n, e)
  BY <1>2, <1>8, <1>9, <1>10, <1>11 DEF Chain
<1>13. ASSUME NEW s, Starts(l, s) PROVE s = u \/ Starts(m, s)
  <2>1. PICK i \in 1 .. z : l[i].seq = s
    BY <1>13 DEF Starts
  <2>2. CASE i = 1
    BY <1>4, <2>1, <2>2
  <2>3. CASE i # 1
    <3>1. i - 1 \in 1 .. z - 1 /\ (i - 1) + 1 = i
      BY <1>1, <2>3
    <3>2. m[i - 1] = l[i]
      BY <1>2, <3>1
    <3> QED BY <1>2, <2>1, <3>1, <3>2 DEF Starts
  <2> QED BY <2>2, <2>3
<1> QED BY <1>2, <1>4, <1>5, <1>6, <1>12, <1>13 DEF m

-----------------------------------------------------------------------------
(* What is acknowledged leaves the segments                                   *)

\* What is left of m_slist and of what is acknowledged.
Rest == [slist : Seq(Segment), free : Nat]

\* After k turns s.free is left to free below a, where a segment begins.
Freed(k, s, l, a, n, e) ==
  /\ s.free <= a /\ Chain(s.slist, a - s.free, n, e)
  /\ a = n \/ s.free = 0 \/ Starts(s.slist, a)
  /\ \A x \in Nat : x > a /\ Starts(l, x) => Starts(s.slist, x)
  /\ s.free = 0 \/ Len(s.slist) <= Len(l) - k

\* FreeFirst yields such a rest.
LEMMA FreeFirstType ==
  ASSUME NEW s \in Rest
  PROVE  FreeFirst(s) \in Rest
<1>1. s.slist \in Seq(Segment) /\ s.free \in Nat
  BY DEF Rest
<1>2. CASE s.free = 0 \/ s.slist = <<>>
  BY <1>2 DEF FreeFirst
<1>3. CASE ~(s.free = 0 \/ s.slist = <<>>)
  <2> DEFINE l == s.slist
             y == l[1]
  <2>1. /\ Len(l) \in Nat /\ Len(l) # 0 /\ Head(l) = y /\ y \in Segment
        /\ Tail(l) \in Seq(Segment)
    <3>1. Len(l) \in Nat /\ Len(l) # 0
      BY <1>1, <1>3, EmptySeq, LenProperties
    <3>2. Head(l) \in Segment /\ Tail(l) \in Seq(Segment) /\ Head(l) = y
      BY <1>1, <1>3, HeadTailProperties
    <3> QED BY <3>1, <3>2
  <2>2. y.len \in Nat
    BY <2>1, SegmentNumbers
  <2>3. CASE s.free < y.len
    <3> DEFINE z == y.len - s.free
               x == [y EXCEPT !.len = z]
               m == [l EXCEPT ![1] = x]
    <3>1. z \in Nat
      <4> HIDE DEF y
      <4> QED BY <1>1, <2>2, <2>3
    <3>2. x \in Segment
      <4> HIDE DEF z, y
      <4> QED BY <2>1, <3>1 DEF Segment
    <3>3. m \in Seq(Segment)
      <4>1. 1 \in 1 .. Len(l)
        BY <2>1
      <4> HIDE DEF x
      <4> QED BY <1>1, <3>2, <4>1, ExceptSeq
    <3>4. FreeFirst(s) = [slist |-> m, free |-> 0]
      BY <1>3, <2>1, <2>3 DEF FreeFirst
    <3> HIDE DEF m
    <3> QED BY <3>3, <3>4 DEF Rest
  <2>4. CASE ~(s.free < y.len)
    <3>1. FreeFirst(s) = [slist |-> Tail(l), free |-> s.free - y.len]
      BY <1>3, <2>1, <2>4 DEF FreeFirst
    <3>2. s.free - y.len \in Nat
      <4> HIDE DEF y
      <4> QED BY <1>1, <2>2, <2>4
    <3> HIDE DEF l, y
    <3> QED BY <2>1, <3>1, <3>2 DEF Rest
  <2> QED BY <2>3, <2>4
<1> QED BY <1>2, <1>3

\* A turn of the loop that frees the segments.
LEMMA FreeFirstKeeps ==
  ASSUME NEW l \in Seq(Segment), NEW a \in Nat, NEW n \in Nat, NEW e \in Nat, a <= n, n <= e,
         NEW k \in 1 .. Len(l), NEW s \in Rest, Freed(k - 1, s, l, a, n, e)
  PROVE  Freed(k, FreeFirst(s), l, a, n, e)
<1> DEFINE m == s.slist
           f == s.free
           u == a - f
<1>1. m \in Seq(Segment) /\ f \in Nat /\ Len(l) \in Nat /\ Len(m) \in Nat
  <2>1. m \in Seq(Segment) /\ f \in Nat
    BY DEF Rest
  <2> HIDE DEF m, f
  <2> QED BY <2>1, LenProperties
<1>2. /\ f <= a /\ Chain(m, u, n, e)
      /\ a = n \/ f = 0 \/ Starts(m, a)
      /\ \A x \in Nat : x > a /\ Starts(l, x) => Starts(m, x)
      /\ f = 0 \/ Len(m) <= Len(l) - (k - 1)
  BY DEF Freed
<1>3. u \in Nat /\ u + f = a
  <2> HIDE DEF f
  <2> QED BY <1>1, <1>2
<1>4. CASE f = 0 \/ m = <<>>
  <2>1. FreeFirst(s) = s
    BY <1>4 DEF FreeFirst
  <2>2. f = 0 \/ Len(m) <= Len(l) - k
    <3>1. m = <<>> => Len(m) = 0
      BY EmptySeq
    <3> HIDE DEF m, f
    <3> QED BY <1>1, <1>4, <3>1
  <2> QED BY <1>2, <2>1, <2>2 DEF Freed
<1>5. CASE ~(f = 0 \/ m = <<>>)
  <2> HIDE DEF m, f, u
  <2> DEFINE y == m[1]
             v == u + y.len
             t == Tail(m)
             g == f - y.len
  <2>1. /\ t \in Seq(Segment) /\ Len(t) = Len(m) - 1
        /\ Head(m) = y /\ y \in Segment /\ y.len \in Nat \ {0} /\ y.seq = u
        /\ v <= e
        /\ u < n => v <= n
        /\ Chain(t, v, n, e)
        /\ \A x : Starts(m, x) => x = u \/ Starts(t, x)
    BY <1>1, <1>2, <1>3, <1>5, ChainTail
  <2>2. u < a
    BY <1>1, <1>3, <1>5
  <2>3. v <= a
    <3>1. CASE a = n
      BY <2>1, <2>2, <3>1
    <3>2. CASE Starts(m, a)
      <4>1. PICK i \in 1 .. Len(m) : m[i].seq = a
        BY <3>2 DEF Starts
      <4>2. i # 1
        BY <1>3, <2>1, <2>2, <4>1
      <4>3. 1 \in 1 .. Len(m) /\ 1 < i
        BY <1>1, <4>2
      <4>4. m[1].seq + m[1].len <= m[i].seq
        BY <1>2, <4>3 DEF Chain
      <4> QED BY <2>1, <4>1, <4>4
    <3> QED BY <1>2, <1>5, <3>1, <3>2
  <2>4. g \in Nat /\ ~(f < y.len) /\ a - g = v /\ g <= a
    <3> DEFINE z == y.len
    <3>1. z \in Nat /\ u + z <= a
      BY <2>1, <2>3
    <3> HIDE DEF z
    <3>2. z <= f
      BY <1>1, <1>3, <3>1
    <3>3. f - z \in Nat /\ ~(f < z) /\ a - (f - z) = u + z /\ f - z <= a
      BY <1>1, <1>3, <3>1, <3>2
    <3> QED BY <3>3 DEF z
  <2>5. FreeFirst(s) = [slist |-> t, free |-> g]
    BY <1>5, <2>1, <2>4 DEF FreeFirst, m, f
  <2> HIDE DEF t, g
  <2>6. a = n \/ g = 0 \/ Starts(t, a)
    BY <1>2, <1>3, <1>5, <2>1, <2>2
  <2>7. ASSUME NEW x \in Nat, x > a, Starts(l, x) PROVE Starts(t, x)
    <3>1. Starts(m, x) /\ x # u
      BY <1>2, <1>3, <2>2, <2>7
    <3> QED BY <2>1, <3>1
  <2>8. Len(t) <= Len(l) - k
    BY <1>1, <1>2, <1>5, <2>1
  <2>9. Chain(t, a - g, n, e)
    BY <2>1, <2>4
  <2>10. FreeFirst(s).slist = t /\ FreeFirst(s).free = g
    BY <2>5
  <2> QED BY <2>4, <2>6, <2>7, <2>8, <2>9, <2>10 DEF Freed
<1> QED BY <1>4, <1>5

\* What is acknowledged up to where a segment begins leaves the others.
LEMMA ChainFree ==
  ASSUME NEW l \in Seq(Segment), NEW u \in Nat, NEW n \in Nat, NEW e \in Nat,
         Chain(l, u, n, e), n <= e, NEW a \in Nat, u <= a, a <= n,
         a = n \/ a = u \/ Starts(l, a)
  PROVE  /\ Acked(l, a - u) \in Seq(Segment)
         /\ Chain(Acked(l, a - u), a, n, e)
         /\ \A x \in Nat : x > a /\ Starts(l, x) => Starts(Acked(l, a - u), x)
<1> DEFINE z == Len(l)
           s0 == [slist |-> l, free |-> a - u]
           F == [s \in Rest |-> FreeFirst(s)]
           Runs(f) == f = [turn \in 0 .. z |-> IF turn = 0 THEN s0 ELSE FreeFirst(f[turn - 1])]
           after == CHOOSE f : Runs(f)
<1>1. Acked(l, a - u) = after[z].slist
  BY DEF Acked
<1>2. z \in Nat /\ F \in [Rest -> Rest] /\ s0 \in Rest /\ s0.slist = l /\ s0.free = a - u
  <2>1. z \in Nat
    BY LenProperties
  <2>2. F \in [Rest -> Rest]
    BY FreeFirstType
  <2>3. a - u \in Nat
    OBVIOUS
  <2> QED BY <2>1, <2>2, <2>3 DEF Rest
<1>3. Freed(0, s0, l, a, n, e)
  <2>1. a - (a - u) = u /\ a - u <= a
    OBVIOUS
  <2>2. a = u => a - u = 0
    OBVIOUS
  <2>3. Len(l) <= Len(l) - 0
    BY <1>2
  <2> HIDE DEF s0
  <2> QED BY <1>2, <2>1, <2>2, <2>3 DEF Freed
<1> HIDE DEF s0
<1>4. PICK f : Loop(f, Rest, F, s0, z)
  <2> HIDE DEF F, z
  <2> QED BY <1>2, LoopExists
<1>5. Runs(f)
  <2>1. ASSUME NEW k \in 0 .. z
        PROVE  f[k] = IF k = 0 THEN s0 ELSE FreeFirst(f[k - 1])
    <3>1. CASE k = 0
      BY <1>4, <3>1 DEF Loop
    <3>2. CASE k # 0
      <4>1. k \in 1 .. z /\ k - 1 \in 0 .. z
        BY <1>2, <3>2
      <4> QED BY <1>4, <3>2, <4>1 DEF Loop
    <3> QED BY <3>1, <3>2
  <2>2. f = [k \in 0 .. z |-> f[k]]
    BY <1>4 DEF Loop
  <2> QED BY <2>1, <2>2
<1>6. Runs(after)
  BY <1>5
<1>7. \A k \in 0 .. z : after[k] = IF k = 0 THEN s0 ELSE FreeFirst(after[k - 1])
  BY <1>6
<1> HIDE DEF after
<1> DEFINE P == {q \in (0 .. z) \X Rest : Freed(q[1], q[2], l, a, n, e)}
<1>8. <<z, after[z]>> \in P
  <2>1. <<0, after[0]>> \in P
    BY <1>2, <1>3, <1>7
  <2>2. ASSUME NEW k \in 1 .. z, <<k - 1, after[k - 1]>> \in P PROVE <<k, after[k]>> \in P
    <3>1. k \in 0 .. z /\ k # 0
      BY <1>2
    <3>2. after[k - 1] \in Rest /\ Freed(k - 1, after[k - 1], l, a, n, e)
      BY <2>2
    <3>3. FreeFirst(after[k - 1]) \in Rest /\ Freed(k, FreeFirst(after[k - 1]), l, a, n, e)
      BY <3>2, FreeFirstType, FreeFirstKeeps
    <3>4. after[k] = FreeFirst(after[k - 1])
      BY <1>7, <3>1
    <3> QED BY <3>1, <3>3, <3>4
  <2> HIDE DEF P, z
  <2> QED BY <1>2, <2>1, <2>2, LoopKeeps
<1>9. after[z] \in Rest /\ Freed(z, after[z], l, a, n, e)
  BY <1>8
<1> DEFINE m == after[z].slist
           g == after[z].free
<1>10. m \in Seq(Segment) /\ g \in Nat /\ Len(m) \in Nat
  <2>1. m \in Seq(Segment) /\ g \in Nat
    BY <1>9 DEF Rest
  <2> HIDE DEF m
  <2> QED BY <2>1, LenProperties
<1>11. /\ g <= a /\ Chain(m, a - g, n, e)
       /\ \A x \in Nat : x > a /\ Starts(l, x) => Starts(m, x)
       /\ g = 0 \/ Len(m) <= z - z
  BY <1>9 DEF Freed
<1> HIDE DEF m, g
<1>12. g = 0
  <2>1. SUFFICES ASSUME g # 0 PROVE FALSE
    OBVIOUS
  <2>2. m = <<>>
    BY <1>2, <1>10, <1>11, <2>1, EmptySeq
  <2>3. a - g = e
    BY <1>11, <2>2 DEF Chain
  <2> QED BY <1>10, <2>1, <2>3
<1>13. Chain(m, a, n, e)
  <2>1. a - g = a
    BY <1>12
  <2> QED BY <1>11, <2>1
<1> QED BY <1>1, <1>10, <1>11, <1>13 DEF m

-----------------------------------------------------------------------------
(* What an end has                                                            *)

\* An RSegment of m_rlist.
Ahead == [seq : Nat, len : Nat]

\* The fields of a PseudoTcp.
ControlBlock ==
  [state : {"LISTEN", "SYN_SENT", "SYN_RECEIVED", "ESTABLISHED", "CLOSED"},
   shutdown : {"NONE", "GRACEFUL", "FORCEFUL"}, mss : Nat \ {0},
   sbuf : Seq(Int), slist : Seq(Segment), snd_una : Nat, snd_nxt : Nat, snd_wnd : Nat,
   rbuf : [1..RcvBuf -> Int], rlen : Nat, rlist : Seq(Ahead), rcv_nxt : Nat, rcv_wnd : Nat,
   t_ack : BOOLEAN, dup_acks : Nat, recover : Nat, rto_base : BOOLEAN, rx_rto : Nat,
   heard : BOOLEAN, readEnable : BOOLEAN, writeEnable : BOOLEAN]

\* A packet on its way.
Datagram == [seq : Nat, ack : Nat, ctrl : BOOLEAN, wnd : Nat, data : Seq(Int)]

\* What a call yields.
Result == [t : ControlBlock, out : Seq(Datagram), ev : Seq({"open", "read", "write", "close"})]

\* What t has of the two directions.
SameSend(t, v) ==
  /\ v.state = t.state /\ v.sbuf = t.sbuf /\ v.slist = t.slist /\ v.snd_una = t.snd_una
  /\ v.snd_nxt = t.snd_nxt /\ v.snd_wnd = t.snd_wnd /\ v.recover = t.recover
  /\ v.rto_base = t.rto_base
\* What it receives stays.
SameReceive(t, v) ==
  /\ v.shutdown = t.shutdown /\ v.rbuf = t.rbuf /\ v.rlen = t.rlen /\ v.rlist = t.rlist
  /\ v.rcv_nxt = t.rcv_nxt /\ v.rcv_wnd = t.rcv_wnd

\* A segment that t sends ends at s, or ended there.
Bound(t, s) == s <= t.snd_una \/ s = t.snd_nxt \/ Starts(t.slist, s)

\* Where what t has room for ends.
Edge(t) == t.rcv_nxt + t.rcv_wnd

\* Byte 0 is the CONNECT, byte i the i-th that was written: w were.
Numbered(t, w) == IF t.state = "LISTEN" THEN 0 ELSE w + 1

\* t keeps the bytes from snd_una up to e, cut into segments.
Sending(t, e) ==
  /\ t.snd_una + Len(t.sbuf) = e /\ Len(t.sbuf) <= SndBuf
  /\ \A k \in 1 .. Len(t.sbuf) : t.sbuf[k] = t.snd_una + k - 1
  /\ Chain(t.slist, t.snd_una, t.snd_nxt, e)
  /\ t.rto_base => t.snd_una < t.snd_nxt

\* t sends w bytes to o: nothing is acknowledged that o does not have, nothing is
\* transmitted that o has no room for.
Snd(t, w, o) ==
  /\ w \in Nat /\ w + 1 < SeqSpace
  /\ t.snd_una <= t.snd_nxt /\ t.snd_nxt <= Numbered(t, w) /\ t.recover <= t.snd_nxt
  /\ t.snd_una <= o.rcv_nxt /\ t.snd_nxt <= Edge(o) /\ t.snd_una + t.snd_wnd <= Edge(o)
  /\ t.state = "LISTEN" => w = 0
  /\ t.state # "CLOSED" => Sending(t, Numbered(t, w))
  /\ w > 0 \/ t.state = "ESTABLISHED" => o.rcv_nxt >= 1

\* What is received ahead is there, each byte in its place.
Kept(t, g, o) ==
  /\ Len(g) + t.rlen = IF t.rcv_nxt = 0 THEN 0 ELSE t.rcv_nxt - 1
  /\ t.rcv_nxt = 0 => t.rlist = <<>>
  /\ \A k \in 1 .. t.rlen : t.rbuf[k] = Len(g) + k
  /\ \A i \in 1 .. Len(t.rlist) :
       LET s == t.rlist[i].seq
           e == t.rlist[i].seq + t.rlist[i].len
       IN /\ e <= o.snd_nxt /\ Bound(o, e)
          /\ \A k \in 1 .. RcvBuf : Len(g) + k >= s /\ Len(g) + k < e => t.rbuf[k] = Len(g) + k

\* t receives what o sends; g was read.
Rcv(t, g, o) ==
  /\ t.rlen + t.rcv_wnd <= RcvBuf
  /\ t.rcv_nxt <= o.snd_nxt /\ Bound(o, t.rcv_nxt)
  /\ g \in Seq(Int) /\ \A i \in 1 .. Len(g) : g[i] = i
  /\ t.shutdown = "NONE" => Kept(t, g, o)

\* m is a packet that t may have sent to o: it acknowledges up to the end of a segment,
\* and its data are a whole segment or more.
Out(t, m, o) ==
  /\ m.ack <= t.rcv_nxt /\ Bound(o, m.ack) /\ m.ack + m.wnd <= Edge(t)
  /\ m.ctrl => t.state # "LISTEN" /\ m.data # <<>>
  /\ m.data # <<>> =>
       /\ m.seq + Len(m.data) <= t.snd_nxt /\ Bound(t, m.seq + Len(m.data))
       /\ \A k \in 1 .. Len(m.data) : m.data[k] = m.seq + k - 1
       /\ m.ctrl <=> m.seq = 0
       /\ m.ctrl => Len(m.data) = 1

\* What never goes back at one end.
Later(t, v) ==
  /\ t.rcv_nxt <= v.rcv_nxt /\ Edge(t) <= Edge(v) /\ t.snd_nxt <= v.snd_nxt
  /\ v.state = "LISTEN" => t.state = "LISTEN"
  /\ \A s \in Nat : s <= t.snd_nxt /\ Bound(t, s) => Bound(v, s)

\* All of the above of one end in the middle of a call that began with t.
Fine(r, t, w, g, o) ==
  /\ r \in Result /\ Snd(r.t, w, o) /\ Rcv(r.t, g, o) /\ Later(t, r.t)
  /\ \A i \in 1 .. Len(r.out) : Out(r.t, r.out[i], o)

-----------------------------------------------------------------------------

\* The fields of a control block, each with its range.
LEMMA BlockFields ==
  ASSUME NEW t \in ControlBlock
  PROVE  /\ t.state \in {"LISTEN", "SYN_SENT", "SYN_RECEIVED", "ESTABLISHED", "CLOSED"}
         /\ t.shutdown \in {"NONE", "GRACEFUL", "FORCEFUL"} /\ t.mss \in Nat /\ t.mss > 0
         /\ t.sbuf \in Seq(Int) /\ Len(t.sbuf) \in Nat
         /\ t.slist \in Seq(Segment) /\ Len(t.slist) \in Nat
         /\ t.snd_una \in Nat /\ t.snd_nxt \in Nat /\ t.snd_wnd \in Nat
         /\ t.rbuf \in [1..RcvBuf -> Int] /\ t.rlen \in Nat
         /\ t.rlist \in Seq(Ahead) /\ Len(t.rlist) \in Nat
         /\ t.rcv_nxt \in Nat /\ t.rcv_wnd \in Nat /\ Edge(t) \in Nat
         /\ t.t_ack \in BOOLEAN /\ t.dup_acks \in Nat /\ t.recover \in Nat
         /\ t.rto_base \in BOOLEAN /\ t.rx_rto \in Nat
         /\ t.heard \in BOOLEAN /\ t.readEnable \in BOOLEAN /\ t.writeEnable \in BOOLEAN
<1>1. /\ t.state \in {"LISTEN", "SYN_SENT", "SYN_RECEIVED", "ESTABLISHED", "CLOSED"}
      /\ t.shutdown \in {"NONE", "GRACEFUL", "FORCEFUL"} /\ t.mss \in Nat /\ t.mss > 0
      /\ t.sbuf \in Seq(Int) /\ t.slist \in Seq(Segment)
      /\ t.snd_una \in Nat /\ t.snd_nxt \in Nat /\ t.snd_wnd \in Nat
      /\ t.rbuf \in [1..RcvBuf -> Int] /\ t.rlen \in Nat /\ t.rlist \in Seq(Ahead)
      /\ t.rcv_nxt \in Nat /\ t.rcv_wnd \in Nat
      /\ t.t_ack \in BOOLEAN /\ t.dup_acks \in Nat /\ t.recover \in Nat
      /\ t.rto_base \in BOOLEAN /\ t.rx_rto \in Nat
      /\ t.heard \in BOOLEAN /\ t.readEnable \in BOOLEAN /\ t.writeEnable \in BOOLEAN
  BY DEF ControlBlock
<1>2. Len(t.sbuf) \in Nat /\ Len(t.slist) \in Nat /\ Len(t.rlist) \in Nat
  BY <1>1, LenProperties
<1>3. Edge(t) \in Nat
  BY <1>1 DEF Edge
<1> QED BY <1>1, <1>2, <1>3

\* The fields of a packet, each with its range.
LEMMA DatagramFields ==
  ASSUME NEW m \in Datagram
  PROVE  /\ m.seq \in Nat /\ m.ack \in Nat /\ m.ctrl \in BOOLEAN /\ m.wnd \in Nat
         /\ m.data \in Seq(Int) /\ Len(m.data) \in Nat
<1>1. /\ m.seq \in Nat /\ m.ack \in Nat /\ m.ctrl \in BOOLEAN /\ m.wnd \in Nat
      /\ m.data \in Seq(Int)
  BY DEF Datagram
<1> QED BY <1>1, LenProperties

\* The fields of what a call yields.
LEMMA ResultFields ==
  ASSUME NEW r \in Result
  PROVE  /\ r.t \in ControlBlock /\ r.out \in Seq(Datagram)
         /\ r.ev \in Seq({"open", "read", "write", "close"})
         /\ r = [t |-> r.t, out |-> r.out, ev |-> r.ev]
BY DEF Result

\* What a step of o leaves of the direction from t to o.
LEMMA SndLater ==
  ASSUME NEW t \in ControlBlock, NEW w, NEW o \in ControlBlock, NEW v \in ControlBlock,
         Snd(t, w, o), Later(o, v)
  PROVE  Snd(t, w, v)
<1>1. /\ o.rcv_nxt \in Nat /\ v.rcv_nxt \in Nat /\ Edge(o) \in Nat /\ Edge(v) \in Nat
      /\ t.snd_una \in Nat /\ t.snd_nxt \in Nat /\ t.snd_wnd \in Nat
  BY BlockFields
<1>2. o.rcv_nxt <= v.rcv_nxt /\ Edge(o) <= Edge(v)
  BY DEF Later
<1>3. /\ t.snd_una <= v.rcv_nxt /\ t.snd_nxt <= Edge(v) /\ t.snd_una + t.snd_wnd <= Edge(v)
      /\ w > 0 \/ t.state = "ESTABLISHED" => v.rcv_nxt >= 1
  BY <1>1, <1>2 DEF Snd
<1> QED BY <1>3 DEF Snd

\* What an end has received holds when its peer goes on.
LEMMA RcvLater ==
  ASSUME NEW t \in ControlBlock, NEW g, NEW o \in ControlBlock, NEW v \in ControlBlock,
         Rcv(t, g, o), Later(o, v)
  PROVE  Rcv(t, g, v)
<1>1. /\ t.rcv_nxt \in Nat /\ o.snd_nxt \in Nat /\ v.snd_nxt \in Nat
      /\ t.rlist \in Seq(Ahead) /\ Len(t.rlist) \in Nat
  BY BlockFields
<1>2. /\ o.snd_nxt <= v.snd_nxt
      /\ \A s \in Nat : s <= o.snd_nxt /\ Bound(o, s) => Bound(v, s)
  BY DEF Later
<1>3. t.rcv_nxt <= v.snd_nxt /\ Bound(v, t.rcv_nxt)
  BY <1>1, <1>2 DEF Rcv
<1>4. ASSUME t.shutdown = "NONE" PROVE Kept(t, g, v)
  <2>1. Kept(t, g, o)
    BY <1>4 DEF Rcv
  <2>2. ASSUME NEW i \in 1 .. Len(t.rlist)
        PROVE  /\ t.rlist[i].seq + t.rlist[i].len <= v.snd_nxt
               /\ Bound(v, t.rlist[i].seq + t.rlist[i].len)
    <3> DEFINE e == t.rlist[i].seq + t.rlist[i].len
    <3>1. e <= o.snd_nxt /\ Bound(o, e)
      BY <2>1 DEF Kept
    <3>2. e \in Nat
      <4>1. t.rlist[i] \in Ahead
        BY <1>1, ElementOfSeq
      <4> QED BY <4>1 DEF Ahead
    <3> HIDE DEF e
    <3>3. e <= v.snd_nxt /\ Bound(v, e)
      BY <1>1, <1>2, <3>1, <3>2
    <3> QED BY <3>3 DEF e
  <2> QED BY <2>1, <2>2 DEF Kept
<1> QED BY <1>3, <1>4 DEF Rcv

\* A packet on its way, while the one or the other end goes on.
LEMMA OutLater ==
  ASSUME NEW t \in ControlBlock, NEW m \in Datagram, NEW o \in ControlBlock,
         NEW v \in ControlBlock, Out(t, m, o), Later(t, v)
  PROVE  Out(v, m, o)
<1>1. /\ t.rcv_nxt \in Nat /\ v.rcv_nxt \in Nat /\ Edge(t) \in Nat /\ Edge(v) \in Nat
      /\ t.snd_nxt \in Nat /\ v.snd_nxt \in Nat
      /\ m.ack \in Nat /\ m.wnd \in Nat /\ m.seq \in Nat /\ Len(m.data) \in Nat
  BY BlockFields, DatagramFields
<1>2. /\ t.rcv_nxt <= v.rcv_nxt /\ Edge(t) <= Edge(v) /\ t.snd_nxt <= v.snd_nxt
      /\ v.state = "LISTEN" => t.state = "LISTEN"
      /\ \A s \in Nat : s <= t.snd_nxt /\ Bound(t, s) => Bound(v, s)
  BY DEF Later
<1>3. m.ack <= v.rcv_nxt /\ Bound(o, m.ack) /\ m.ack + m.wnd <= Edge(v)
  BY <1>1, <1>2 DEF Out
<1>4. m.ctrl => v.state # "LISTEN" /\ m.data # <<>>
  BY <1>2 DEF Out
<1>5. ASSUME m.data # <<>>
      PROVE  m.seq + Len(m.data) <= v.snd_nxt /\ Bound(v, m.seq + Len(m.data))
  <2>1. m.seq + Len(m.data) <= t.snd_nxt /\ Bound(t, m.seq + Len(m.data))
    BY <1>5 DEF Out
  <2>2. m.seq + Len(m.data) \in Nat
    BY <1>1
  <2> QED BY <1>1, <1>2, <2>1, <2>2
<1> QED BY <1>3, <1>4, <1>5 DEF Out

\* So does what it has sent, when its peer goes on.
LEMMA OutLaterPeer ==
  ASSUME NEW t \in ControlBlock, NEW m \in Datagram, NEW o \in ControlBlock,
         NEW v \in ControlBlock, NEW g, Out(t, m, o), Rcv(t, g, o), Later(o, v)
  PROVE  Out(t, m, v)
<1>1. m.ack \in Nat /\ t.rcv_nxt \in Nat /\ o.snd_nxt \in Nat
  BY BlockFields, DatagramFields
<1>2. m.ack <= o.snd_nxt /\ Bound(o, m.ack)
  BY <1>1 DEF Out, Rcv
<1>3. Bound(v, m.ack)
  BY <1>1, <1>2 DEF Later
<1> QED BY <1>3 DEF Out

\* To be later is transitive.
LEMMA LaterTrans ==
  ASSUME NEW t \in ControlBlock, NEW u \in ControlBlock, NEW v \in ControlBlock,
         Later(t, u), Later(u, v)
  PROVE  Later(t, v)
<1>1. /\ t.rcv_nxt \in Nat /\ u.rcv_nxt \in Nat /\ v.rcv_nxt \in Nat
      /\ t.snd_nxt \in Nat /\ u.snd_nxt \in Nat /\ v.snd_nxt \in Nat
      /\ Edge(t) \in Nat /\ Edge(u) \in Nat /\ Edge(v) \in Nat
  BY BlockFields
<1>2. /\ t.rcv_nxt <= u.rcv_nxt /\ Edge(t) <= Edge(u) /\ t.snd_nxt <= u.snd_nxt
      /\ u.state = "LISTEN" => t.state = "LISTEN"
      /\ \A s \in Nat : s <= t.snd_nxt /\ Bound(t, s) => Bound(u, s)
  BY DEF Later
<1>3. /\ u.rcv_nxt <= v.rcv_nxt /\ Edge(u) <= Edge(v) /\ u.snd_nxt <= v.snd_nxt
      /\ v.state = "LISTEN" => u.state = "LISTEN"
      /\ \A s \in Nat : s <= u.snd_nxt /\ Bound(u, s) => Bound(v, s)
  BY DEF Later
<1>4. t.rcv_nxt <= v.rcv_nxt /\ Edge(t) <= Edge(v) /\ t.snd_nxt <= v.snd_nxt
  BY <1>1, <1>2, <1>3
<1>5. ASSUME NEW s \in Nat, s <= t.snd_nxt, Bound(t, s) PROVE Bound(v, s)
  <2>1. Bound(u, s) /\ s <= u.snd_nxt
    BY <1>1, <1>2, <1>5
  <2> QED BY <1>3, <2>1
<1> QED BY <1>2, <1>3, <1>4, <1>5 DEF Later

\* To be later includes that nothing happened.
LEMMA LaterSelf ==
  ASSUME NEW t \in ControlBlock
  PROVE  Later(t, t)
<1>1. t.rcv_nxt \in Nat /\ t.snd_nxt \in Nat /\ Edge(t) \in Nat
  BY BlockFields
<1> QED BY <1>1 DEF Later

\* What only concerns the one direction leaves the other.
LEMMA SendSame ==
  ASSUME NEW t, NEW v, SameSend(t, v), NEW w, NEW o, Snd(t, w, o)
  PROVE  Snd(v, w, o)
BY DEF SameSend, Snd, Sending, Numbered

\* What an end receives, when only what it sends has changed.
LEMMA ReceiveSame ==
  ASSUME NEW t, NEW v, SameReceive(t, v), NEW g, NEW o, Rcv(t, g, o)
  PROVE  Rcv(v, g, o)
BY DEF SameReceive, Rcv, Kept

\* When neither has changed, nothing happened.
LEMMA LaterSame ==
  ASSUME NEW t \in ControlBlock, NEW v \in ControlBlock, SameSend(t, v), SameReceive(t, v)
  PROVE  Later(t, v)
<1>1. t.rcv_nxt \in Nat /\ t.snd_nxt \in Nat /\ Edge(t) \in Nat
  BY BlockFields
<1>2. Edge(t) = Edge(v)
  BY DEF Edge, SameReceive
<1> QED BY <1>1, <1>2 DEF Later, SameSend, SameReceive, Bound

-----------------------------------------------------------------------------
(* Packets and events                                                         *)

\* A call moves on, silently or with a packet.
LEMMA FineMoves ==
  ASSUME NEW r, NEW t \in ControlBlock, NEW w, NEW g, NEW o \in ControlBlock,
         Fine(r, t, w, g, o), NEW q \in Result, Snd(q.t, w, o), Rcv(q.t, g, o),
         Later(r.t, q.t),
         \/ q.out = r.out
         \/ \E m \in Datagram : q.out = Append(r.out, m) /\ Out(q.t, m, o)
  PROVE  Fine(q, t, w, g, o)
<1>1. r \in Result /\ Later(t, r.t) /\ \A i \in 1 .. Len(r.out) : Out(r.t, r.out[i], o)
  BY DEF Fine
<1>2. /\ r.t \in ControlBlock /\ q.t \in ControlBlock /\ r.out \in Seq(Datagram)
      /\ Len(r.out) \in Nat
  BY <1>1, ResultFields, LenProperties
<1>3. Later(t, q.t)
  BY <1>1, <1>2, LaterTrans
<1>4. ASSUME NEW i \in 1 .. Len(r.out) PROVE Out(q.t, r.out[i], o)
  <2>1. r.out[i] \in Datagram /\ Out(r.t, r.out[i], o)
    BY <1>1, <1>2, ElementOfSeq
  <2> QED BY <1>2, <2>1, OutLater
<1>5. ASSUME NEW i \in 1 .. Len(q.out) PROVE Out(q.t, q.out[i], o)
  <2>1. CASE q.out = r.out
    BY <1>4, <2>1
  <2>2. ASSUME NEW m \in Datagram, q.out = Append(r.out, m), Out(q.t, m, o)
        PROVE  Out(q.t, q.out[i], o)
    <3>1. /\ Len(q.out) = Len(r.out) + 1 /\ q.out[Len(r.out) + 1] = m
          /\ \A j \in 1 .. Len(r.out) : q.out[j] = r.out[j]
      BY <1>2, <2>2, AppendProperties
    <3>2. i \in 1 .. Len(r.out) \/ i = Len(r.out) + 1
      BY <1>2, <3>1
    <3> QED BY <1>4, <2>2, <3>1, <3>2
  <2> QED BY <2>1, <2>2
<1> QED BY <1>3, <1>5 DEF Fine

\* A call goes on without touching the streams, with one packet more at most.
LEMMA FineSame ==
  ASSUME NEW r, NEW t \in ControlBlock, NEW w, NEW g, NEW o \in ControlBlock,
         Fine(r, t, w, g, o), NEW q \in Result, SameSend(r.t, q.t), SameReceive(r.t, q.t),
         \/ q.out = r.out
         \/ \E m \in Datagram : q.out = Append(r.out, m) /\ Out(q.t, m, o)
  PROVE  Fine(q, t, w, g, o)
<1>1. r \in Result /\ Snd(r.t, w, o) /\ Rcv(r.t, g, o)
  BY DEF Fine
<1>2. r.t \in ControlBlock /\ q.t \in ControlBlock
  BY <1>1, ResultFields
<1>3. Snd(q.t, w, o) /\ Rcv(q.t, g, o)
  BY <1>1, SendSame, ReceiveSame
<1>4. Later(r.t, q.t)
  BY <1>2, LaterSame
<1> QED BY <1>3, <1>4, FineMoves

\* A call that does nothing.
LEMMA QuietFine ==
  ASSUME NEW t \in ControlBlock, NEW w, NEW g, NEW o \in ControlBlock,
         Snd(t, w, o), Rcv(t, g, o)
  PROVE  Quiet(t) \in Result /\ Quiet(t).t = t /\ Quiet(t).out = <<>>
         /\ Fine(Quiet(t), t, w, g, o)
<1>1. /\ Quiet(t) \in Result /\ Quiet(t).t = t /\ Quiet(t).out = <<>>
  BY DEF Quiet, Result
<1>2. Later(t, t)
  BY LaterSelf
<1>3. Len(<<>>) = 0
  BY EmptySeq
<1> QED BY <1>1, <1>2, <1>3 DEF Fine

\* A notification is only that.
LEMMA NotifyIs ==
  ASSUME NEW r \in Result, NEW e \in {"open", "read", "write", "close"}
  PROVE  Notify(r, e) \in Result /\ Notify(r, e).t = r.t /\ Notify(r, e).out = r.out
<1>1. r.ev \in Seq({"open", "read", "write", "close"})
  BY ResultFields
<1> DEFINE q == Append(r.ev, e)
<1>2. q \in Seq({"open", "read", "write", "close"})
  BY <1>1, AppendProperties
<1>3. Notify(r, e) = [r EXCEPT !.ev = q]
  BY DEF Notify
<1> HIDE DEF q
<1> QED BY <1>2, <1>3 DEF Result

\* A notification leaves a call as good as it was.
LEMMA NotifyFine ==
  ASSUME NEW r, NEW t \in ControlBlock, NEW w, NEW g, NEW o \in ControlBlock,
         Fine(r, t, w, g, o), NEW e \in {"open", "read", "write", "close"}
  PROVE  Fine(Notify(r, e), t, w, g, o)
<1>1. r \in Result
  BY DEF Fine
<1>2. Notify(r, e) \in Result /\ Notify(r, e).t = r.t /\ Notify(r, e).out = r.out
  BY <1>1, NotifyIs
<1> QED BY <1>2 DEF Fine

\* out is old and a packet of t.
Wrote(old, out, t, seq, ctrl, data) ==
  \E m \in Datagram :
    /\ out = Append(old, m)
    /\ m.seq = seq /\ m.ack = t.rcv_nxt /\ m.ctrl = ctrl
    /\ m.wnd = t.rcv_wnd /\ m.data = data

\* What Packet makes of r.
PacketOf(r, p, seq, ctrl, data) ==
  /\ p \in Result /\ SameSend(r.t, p.t) /\ SameReceive(r.t, p.t)
  /\ p.t.mss = r.t.mss /\ p.t.readEnable = r.t.readEnable
  /\ Wrote(r.out, p.out, r.t, seq, ctrl, data)

\* What writing a packet changes.
LEMMA PacketIs ==
  ASSUME NEW r \in Result, NEW seq \in Nat, NEW ctrl \in BOOLEAN, NEW data \in Seq(Int)
  PROVE  PacketOf(r, Packet(r, seq, ctrl, data), seq, ctrl, data)
<1> DEFINE m == [seq |-> seq, ack |-> r.t.rcv_nxt, ctrl |-> ctrl, wnd |-> r.t.rcv_wnd,
                 data |-> data]
           v == [r.t EXCEPT !.t_ack = FALSE]
           out == Append(r.out, m)
           p == Packet(r, seq, ctrl, data)
<1>1. /\ r.t \in ControlBlock /\ r.out \in Seq(Datagram)
      /\ r.ev \in Seq({"open", "read", "write", "close"})
      /\ r = [t |-> r.t, out |-> r.out, ev |-> r.ev]
  BY ResultFields
<1>2. r.t.rcv_nxt \in Nat /\ r.t.rcv_wnd \in Nat
  BY <1>1, BlockFields
<1>3. /\ m \in Datagram
      /\ m.seq = seq /\ m.ack = r.t.rcv_nxt /\ m.ctrl = ctrl /\ m.wnd = r.t.rcv_wnd
      /\ m.data = data
  BY <1>2 DEF Datagram
<1>4. p = [r EXCEPT !.out = out, !.t.t_ack = FALSE]
  BY DEF Packet
<1>5. /\ v \in ControlBlock /\ SameSend(r.t, v) /\ SameReceive(r.t, v) /\ v.mss = r.t.mss
      /\ v.readEnable = r.t.readEnable /\ v.t_ack = FALSE
  BY <1>1 DEF ControlBlock, SameSend, SameReceive
<1> HIDE DEF m, p
<1>6. out \in Seq(Datagram)
  BY <1>1, <1>3, AppendProperties
<1> HIDE DEF out
<1>7. p \in Result /\ p.t = v /\ p.out = out
  <2>1. p.t = v /\ p.out = out /\ p.ev = r.ev
    BY <1>4 DEF Result
  <2>2. p = [r EXCEPT !.out = out, !.t = v]
    BY <1>4
  <2> HIDE DEF v
  <2> QED BY <1>5, <1>6, <2>2 DEF Result
<1> HIDE DEF v
<1>8. p.out = Append(r.out, m)
  BY <1>7 DEF out
<1>9. Wrote(r.out, p.out, r.t, seq, ctrl, data)
  BY <1>3, <1>8 DEF Wrote
<1>10. PacketOf(r, p, seq, ctrl, data)
  BY <1>5, <1>7, <1>9 DEF PacketOf
<1> QED BY <1>10 DEF p

\* A packet without data.
LEMMA PacketFine ==
  ASSUME NEW r, NEW t \in ControlBlock, NEW w, NEW g, NEW o \in ControlBlock,
         Fine(r, t, w, g, o), NEW seq \in Nat
  PROVE  Fine(Packet(r, seq, FALSE, <<>>), t, w, g, o)
<1> DEFINE p == Packet(r, seq, FALSE, <<>>)
<1>1. r \in Result /\ Rcv(r.t, g, o)
  BY DEF Fine
<1>2. <<>> \in Seq(Int) /\ FALSE \in BOOLEAN
  OBVIOUS
<1>3. PICK m \in Datagram :
        /\ p \in Result /\ p.out = Append(r.out, m)
        /\ m.ack = r.t.rcv_nxt /\ m.ctrl = FALSE /\ m.wnd = r.t.rcv_wnd /\ m.data = <<>>
        /\ SameSend(r.t, p.t) /\ SameReceive(r.t, p.t)
  <2> DEFINE c == FALSE
             d == <<>>
  <2>1. c \in BOOLEAN /\ d \in Seq(Int)
    BY <1>2
  <2> HIDE DEF c, d
  <2> DEFINE q == Packet(r, seq, c, d)
  <2>2. PacketOf(r, q, seq, c, d)
    BY <1>1, <2>1, PacketIs
  <2>3. q = p
    BY DEF c, d
  <2> HIDE DEF p, q
  <2> QED BY <2>2, <2>3 DEF c, d, PacketOf, Wrote
<1> HIDE DEF p
<1>4. Out(p.t, m, o)
  <2>1. p.t.rcv_nxt = r.t.rcv_nxt /\ Edge(p.t) = Edge(r.t) /\ m.ack + m.wnd = Edge(r.t)
    BY <1>3 DEF SameReceive, Edge
  <2>2. r.t.rcv_nxt \in Nat /\ Edge(r.t) \in Nat
    BY <1>1, ResultFields, BlockFields
  <2>3. Bound(o, m.ack)
    BY <1>1, <1>3 DEF Rcv
  <2> QED BY <1>3, <2>1, <2>2, <2>3 DEF Out
<1>5. Fine(p, t, w, g, o)
  BY <1>3, <1>4, FineSame
<1> QED BY <1>5 DEF p

-----------------------------------------------------------------------------
(* Transmitting                                                               *)

\* The lesser of two numbers is one of them.
LEMMA LeastIs ==
  ASSUME NEW a \in Int, NEW b \in Int
  PROVE  /\ Least(a, b) \in Int /\ Least(a, b) <= a /\ Least(a, b) <= b
         /\ Least(a, b) = a \/ Least(a, b) = b
BY DEF Least

\* A smaller packet is smaller, and not empty.
LEMMA SmallerIs ==
  ASSUME NEW n \in Nat, Smaller(n) # {}
  PROVE  Max(Smaller(n)) \in Nat \ {0} /\ Max(Smaller(n)) < n
<1>1. MinMss \in Nat \ {0} /\ Mss \in Nat \ {0}
  BY PseudoTcpAssumption
<1>2. \E x \in Smaller(n) : \A y \in Smaller(n) : x >= y
  <2>1. Smaller(n) \subseteq {MinMss, Mss}
    BY DEF Smaller
  <2>2. CASE Mss \in Smaller(n) /\ (MinMss \in Smaller(n) => Mss >= MinMss)
    BY <1>1, <2>1, <2>2
  <2>3. CASE ~(Mss \in Smaller(n) /\ (MinMss \in Smaller(n) => Mss >= MinMss))
    <3>1. MinMss \in Smaller(n) /\ (Mss \in Smaller(n) => MinMss >= Mss)
      BY <1>1, <2>1, <2>3
    <3> QED BY <1>1, <2>1, <3>1
  <2> QED BY <2>2, <2>3
<1>3. Max(Smaller(n)) \in Smaller(n)
  BY <1>2 DEF Max
<1> QED BY <1>1, <1>3 DEF Smaller

\* How much of a segment of length len a packet takes when at most mss fit.
Whole(t, i) == Least(t.slist[i].len, t.mss)
\* How much of segment i goes through.
Fits(t, i) == IF Whole(t, i) <= PathMtu THEN Whole(t, i) ELSE Max(Smaller(Whole(t, i)))

\* Something of it goes, and no more than it has.
LEMMA FitsIs ==
  ASSUME NEW t \in ControlBlock, NEW i \in 1 .. Len(t.slist), t.slist[i].len > 0,
         CanTransmit(t, i)
  PROVE  /\ Whole(t, i) \in Nat \ {0} /\ Whole(t, i) <= t.slist[i].len /\ Whole(t, i) <= t.mss
         /\ Fits(t, i) \in Nat \ {0} /\ Fits(t, i) <= Whole(t, i)
<1> DEFINE y == t.slist[i]
           len == y.len
           mss == t.mss
           n == Least(len, mss)
<1>1. mss \in Nat /\ mss > 0
  BY BlockFields
<1>2. len \in Nat /\ len > 0
  <2>1. t.slist \in Seq(Segment)
    BY BlockFields
  <2>2. y \in Segment
    BY <2>1, ElementOfSeq
  <2> QED BY <2>2, SegmentNumbers
<1>3. n <= PathMtu \/ Smaller(n) # {}
  BY DEF CanTransmit
<1>4. Whole(t, i) = n /\ Fits(t, i) = IF n <= PathMtu THEN n ELSE Max(Smaller(n))
  BY DEF Whole, Fits
<1> HIDE DEF len, mss
<1>5. n \in Nat \ {0} /\ n <= len /\ n <= mss
  BY <1>1, <1>2 DEF Least
<1> HIDE DEF n
<1>6. Fits(t, i) \in Nat \ {0} /\ Fits(t, i) <= n
  <2>1. CASE n <= PathMtu
    BY <1>4, <1>5, <2>1
  <2>2. CASE ~(n <= PathMtu)
    <3>1. Max(Smaller(n)) \in Nat \ {0} /\ Max(Smaller(n)) < n
      BY <1>3, <1>5, <2>2, SmallerIs
    <3> QED BY <1>4, <1>5, <2>2, <3>1
  <2> QED BY <2>1, <2>2
<1> QED BY <1>4, <1>5, <1>6 DEF len, mss

\* The data of a packet that begins at s.
Data(t, s, n) ==
  LET offset == Diff(s, t.snd_una)
  IN [k \in 1..n |-> IF offset + k \in DOMAIN t.sbuf THEN t.sbuf[offset + k] ELSE Junk]

\* What a packet takes of m_sbuf is what its number says.
LEMMA DataIs ==
  ASSUME NEW t \in ControlBlock, NEW e \in Nat, e < SeqSpace, Sending(t, e),
         NEW s \in Nat, t.snd_una <= s, NEW n \in Nat, s + n <= e
  PROVE  /\ Data(t, s, n) \in Seq(Int) /\ Len(Data(t, s, n)) = n
         /\ \A k \in 1 .. n : Data(t, s, n)[k] = s + k - 1
<1> DEFINE b == t.sbuf
           u == t.snd_una
           z == Len(b)
           d == Data(t, s, n)
<1>1. b \in Seq(Int) /\ u \in Nat /\ z \in Nat
  BY BlockFields
<1>2. u + z = e /\ \A k \in 1 .. z : b[k] = u + k - 1
  BY DEF Sending
<1>3. DOMAIN b = 1 .. z
  BY <1>1
<1>x. u <= s
  OBVIOUS
<1>4. Diff(s, u) = s - u
  <2>1. s - u \in Nat /\ s - u < SeqSpace
    <3> HIDE DEF u, z
    <3>1. SeqSpace \in Nat
      BY PseudoTcpAssumption
    <3> QED BY <1>1, <1>2, <1>x, <3>1
  <2> QED BY <2>1, NoWrap DEF Diff
<1>5. ASSUME NEW k \in 1 .. n PROVE s - u + k \in 1 .. z /\ b[s - u + k] = s + k - 1
  <2> HIDE DEF u, z, b
  <2>1. s - u + k \in 1 .. z /\ u + (s - u + k) - 1 = s + k - 1
    BY <1>1, <1>2, <1>x
  <2> QED BY <1>2, <2>1
<1>6. d = [k \in 1..n |-> IF s - u + k \in 1 .. z THEN b[s - u + k] ELSE Junk]
  BY <1>3, <1>4 DEF Data
<1>7. ASSUME NEW k \in 1 .. n PROVE d[k] = s + k - 1 /\ d[k] \in Int
  BY <1>5, <1>6
<1>8. d \in [1..n -> Int]
  BY <1>6, <1>7
<1> HIDE DEF d
<1>9. d \in Seq(Int) /\ Len(d) = n
  BY <1>8
<1> QED BY <1>7, <1>9 DEF d

\* The packet of a segment.
LEMMA SegmentPacketIs ==
  ASSUME NEW r \in Result, NEW i \in 1 .. Len(r.t.slist), NEW data \in Seq(Int)
  PROVE  LET y == r.t.slist[i]
         IN /\ y.seq \in Nat /\ y.ctrl \in BOOLEAN
            /\ PacketOf(r, Packet(r, y.seq, y.ctrl, data), y.seq, y.ctrl, data)
<1> DEFINE y == r.t.slist[i]
           seq == y.seq
           ctrl == y.ctrl
<1>1. r.t.slist \in Seq(Segment)
  BY ResultFields, BlockFields
<1>2. seq \in Nat /\ ctrl \in BOOLEAN
  <2>1. y \in Segment
    BY <1>1, ElementOfSeq
  <2> QED BY <2>1, SegmentNumbers
<1> HIDE DEF seq, ctrl
<1>3. PacketOf(r, Packet(r, seq, ctrl, data), seq, ctrl, data)
  BY <1>2, PacketIs
<1> QED BY <1>2, <1>3 DEF seq, ctrl

\* The control block after a transmission is one.
LEMMA SentBlockIs ==
  ASSUME NEW b \in ControlBlock, NEW mss \in Nat \ {0}, NEW sent \in Seq(Segment),
         NEW v \in Nat, NEW on \in BOOLEAN
  PROVE  [b EXCEPT !.mss = mss, !.slist = sent, !.snd_nxt = v, !.rto_base = on] \in ControlBlock
BY DEF ControlBlock

\* What Transmit makes of r, given what the parts of it come to.
LEMMA TransmitIs ==
  ASSUME NEW r \in Result, NEW i \in 1 .. Len(r.t.slist), NEW n \in Nat \ {0},
         n = Fits(r.t, i), NEW sent \in Seq(Segment), NEW v \in Nat, NEW data \in Seq(Int),
         sent = Once(Split(r.t.slist, i, n), i),
         v = IF r.t.slist[i].xmit = 0 THEN Add(r.t.snd_nxt, n) ELSE r.t.snd_nxt,
         data = Data(r.t, r.t.slist[i].seq, n)
  PROVE  LET q == Transmit(r, i)
             t == r.t
         IN /\ q \in Result /\ SameReceive(t, q.t)
            /\ q.t.state = t.state /\ q.t.sbuf = t.sbuf /\ q.t.slist = sent
            /\ q.t.snd_una = t.snd_una /\ q.t.snd_nxt = v /\ q.t.snd_wnd = t.snd_wnd
            /\ q.t.recover = t.recover /\ q.t.rto_base /\ q.t.readEnable = t.readEnable
            /\ Wrote(r.out, q.out, t, t.slist[i].seq, t.slist[i].ctrl, data)
<1> DEFINE t == r.t
           y == t.slist[i]
           seq == y.seq
           ctrl == y.ctrl
           p == Packet(r, seq, ctrl, data)
           mss == IF Whole(t, i) <= PathMtu THEN t.mss ELSE n
           q == Transmit(r, i)
<1>1. t \in ControlBlock
  BY ResultFields
<1>2. seq \in Nat /\ ctrl \in BOOLEAN /\ t.mss \in Nat /\ t.mss > 0
  <2>1. t.slist \in Seq(Segment) /\ t.mss \in Nat /\ t.mss > 0
    BY <1>1, BlockFields
  <2>2. y \in Segment
    BY <2>1, ElementOfSeq
  <2> QED BY <2>1, <2>2, SegmentNumbers
<1>3. mss \in Nat \ {0}
  BY <1>2
<1>x. PacketOf(r, p, seq, ctrl, data)
  BY SegmentPacketIs
<1> HIDE DEF p, mss, seq, ctrl
<1>4. /\ p \in Result /\ SameSend(t, p.t) /\ SameReceive(t, p.t)
      /\ p.t.mss = t.mss /\ p.t.readEnable = t.readEnable
      /\ Wrote(r.out, p.out, t, seq, ctrl, data)
  BY <1>x DEF PacketOf
<1>5. q = [p EXCEPT !.t.mss = mss, !.t.slist = sent, !.t.snd_nxt = v, !.t.rto_base = TRUE]
  <2>1. p.t.mss = t.mss /\ p.t.snd_nxt = t.snd_nxt
    BY <1>4 DEF SameSend
  <2>2. q = [p EXCEPT !.t.mss = IF Whole(t, i) <= PathMtu THEN @ ELSE n, !.t.slist = sent,
               !.t.snd_nxt = IF y.xmit = 0 THEN Add(@, n) ELSE @, !.t.rto_base = TRUE]
    BY DEF Transmit, p, seq, ctrl, Whole, Fits, Data, Once
  <2>3. p.t \in ControlBlock
    BY <1>4, ResultFields
  <2> QED BY <2>1, <2>2 DEF mss
<1> HIDE DEF q
<1> DEFINE x == [p.t EXCEPT !.mss = mss, !.slist = sent, !.snd_nxt = v, !.rto_base = TRUE]
<1>6. /\ x \in ControlBlock
      /\ x.mss = mss /\ x.slist = sent /\ x.snd_nxt = v /\ x.rto_base = TRUE
      /\ x.state = p.t.state /\ x.sbuf = p.t.sbuf /\ x.snd_una = p.t.snd_una
      /\ x.snd_wnd = p.t.snd_wnd /\ x.recover = p.t.recover
      /\ x.readEnable = p.t.readEnable /\ SameReceive(p.t, x)
  <2> DEFINE b == p.t
  <2>1. b \in ControlBlock
    BY <1>4, ResultFields
  <2> HIDE DEF b
  <2> DEFINE on == TRUE
             z == [b EXCEPT !.mss = mss, !.slist = sent, !.snd_nxt = v, !.rto_base = on]
  <2>2. on \in BOOLEAN
    OBVIOUS
  <2> HIDE DEF on
  <2>x. z \in ControlBlock
    BY <1>3, <2>1, <2>2, SentBlockIs
  <2>3. /\ z.mss = mss /\ z.slist = sent /\ z.snd_nxt = v /\ z.rto_base = on
        /\ z.state = b.state /\ z.sbuf = b.sbuf /\ z.snd_una = b.snd_una
        /\ z.snd_wnd = b.snd_wnd /\ z.recover = b.recover
        /\ z.readEnable = b.readEnable /\ SameReceive(b, z)
    BY <2>1 DEF ControlBlock, SameReceive
  <2>4. z = x
    BY DEF b, on
  <2> HIDE DEF x, z
  <2> QED BY <2>x, <2>3, <2>4 DEF b, on
<1>7. q \in Result /\ q.t = x /\ q.out = p.out
  <2>1. q.t = x /\ q.out = p.out
    BY <1>4, <1>5 DEF Result
  <2>2. q = [p EXCEPT !.t = x]
    BY <1>5
  <2> HIDE DEF x
  <2> QED BY <1>4, <1>6, <2>1, <2>2 DEF Result
<1> HIDE DEF x
<1>8. /\ SameReceive(t, q.t)
      /\ q.t.state = t.state /\ q.t.sbuf = t.sbuf /\ q.t.slist = sent
      /\ q.t.snd_una = t.snd_una /\ q.t.snd_nxt = v /\ q.t.snd_wnd = t.snd_wnd
      /\ q.t.recover = t.recover /\ q.t.rto_base /\ q.t.readEnable = t.readEnable
  BY <1>4, <1>6, <1>7 DEF SameSend, SameReceive
<1> QED BY <1>4, <1>7, <1>8 DEF q, seq, ctrl

\* What Transmit makes of slist and of snd_nxt.
SentList(t, i) == Once(Split(t.slist, i, Fits(t, i)), i)
\* snd_nxt after segment i was sent.
SentUpTo(t, i) ==
  IF t.slist[i].xmit = 0 THEN Add(t.snd_nxt, Fits(t, i)) ELSE t.snd_nxt

\* The segments after a transmission are a chain still, up to the new snd_nxt.
LEMMA SentChain ==
  ASSUME NEW t \in ControlBlock, NEW e \in Nat, e < SeqSpace, Sending(t, e),
         t.snd_nxt <= e, NEW i \in 1 .. Len(t.slist), CanTransmit(t, i),
         t.slist[i].xmit = 0 => t.slist[i].seq = t.snd_nxt
  PROVE  LET y == t.slist[i]
             n == Fits(t, i)
             v == SentUpTo(t, i)
         IN /\ n \in Nat \ {0} /\ n <= Whole(t, i) /\ v \in Nat
            /\ SentList(t, i) \in Seq(Segment)
            /\ Chain(SentList(t, i), t.snd_una, v, e)
            /\ \A s : Starts(t.slist, s) => Starts(SentList(t, i), s)
            /\ y.seq \in Nat /\ t.snd_una <= y.seq /\ y.seq + n <= v
            /\ t.snd_una < v /\ v <= e /\ t.snd_nxt <= v
            /\ y.seq + n = v \/ Starts(SentList(t, i), y.seq + n)
            /\ v = IF y.xmit = 0 THEN t.snd_nxt + n ELSE t.snd_nxt
            /\ y.ctrl \in BOOLEAN /\ (y.ctrl <=> y.seq = 0) /\ (y.ctrl => n = 1)
<1> DEFINE l == t.slist
           u == t.snd_una
           nxt == t.snd_nxt
           n == Fits(t, i)
           m == Split(l, i, n)
           sent == SentList(t, i)
           v == SentUpTo(t, i)
           y == l[i]
<1>1. /\ l \in Seq(Segment) /\ u \in Nat /\ nxt \in Nat /\ nxt <= e
      /\ i \in 1 .. Len(l) /\ (l[i].xmit = 0 => l[i].seq = nxt)
  BY BlockFields
<1>2. Chain(l, u, nxt, e)
  BY DEF Sending
<1>3. v = IF l[i].xmit = 0 THEN Add(nxt, n) ELSE nxt
  BY DEF SentUpTo
<1>4. sent = Once(m, i)
  BY DEF SentList
<1>5. /\ l[i] \in Segment /\ Piece(l[i], u, nxt, e)
      /\ l[i].seq \in Nat /\ l[i].len \in Nat /\ l[i].ctrl \in BOOLEAN /\ l[i].xmit \in Nat
  BY <1>1, <1>2, ChainAt
<1>6. /\ l[i].len > 0 /\ l[i].seq >= u /\ l[i].seq + l[i].len <= e
      /\ (l[i].ctrl <=> l[i].seq = 0) /\ (l[i].ctrl => l[i].len = 1)
  BY <1>5 DEF Piece
<1>7. n \in Nat \ {0} /\ n <= Whole(t, i) /\ Whole(t, i) <= l[i].len /\ Whole(t, i) \in Nat
  BY <1>6, FitsIs
<1> HIDE DEF n, l, u, nxt, v, sent
<1>8. n <= l[i].len
  BY <1>5, <1>7
<1>9. /\ m \in Seq(Segment) /\ Chain(m, u, nxt, e)
      /\ \A s : Starts(l, s) => Starts(m, s)
      /\ i \in 1 .. Len(m)
      /\ m[i].seq = l[i].seq /\ m[i].ctrl = l[i].ctrl /\ m[i].xmit = l[i].xmit
      /\ m[i].len = n
  <2>1. /\ m \in Seq(Segment) /\ Chain(m, u, nxt, e)
        /\ \A s : Starts(l, s) => Starts(m, s)
        /\ i \in 1 .. Len(m)
        /\ m[i].seq = l[i].seq /\ m[i].ctrl = l[i].ctrl /\ m[i].xmit = l[i].xmit
        /\ m[i].len = Least(l[i].len, n)
    BY <1>1, <1>2, <1>7, ChainSplit
  <2>2. Least(l[i].len, n) = n
    BY <1>5, <1>7, <1>8 DEF Least
  <2> QED BY <2>1, <2>2
<1> HIDE DEF m
<1>10. l[i].xmit = 0 => Add(nxt, n) = nxt + n
  <2>1. CASE l[i].xmit = 0
    <3>1. nxt + n \in Nat /\ nxt + n < SeqSpace
      <4>1. SeqSpace \in Nat
        BY PseudoTcpAssumption
      <4> QED BY <1>1, <1>5, <1>6, <1>7, <1>8, <2>1, <4>1
    <3> QED BY <3>1, NoWrap DEF Add
  <2> QED BY <2>1
<1>11. v = (IF l[i].xmit = 0 THEN nxt + n ELSE nxt) /\ v \in Nat /\ nxt <= v
  BY <1>1, <1>3, <1>7, <1>10
<1>12. v = IF m[i].xmit = 0 THEN nxt + m[i].len ELSE nxt
  BY <1>9, <1>11
<1>13. m[i].xmit = 0 => m[i].seq = nxt
  BY <1>1, <1>9
<1>14. /\ sent \in Seq(Segment) /\ Chain(sent, u, v, e)
       /\ \A s : Starts(m, s) => Starts(sent, s)
       /\ m[i].seq + m[i].len <= v /\ u < v /\ v <= e
       /\ m[i].seq + m[i].len = v \/ Starts(sent, m[i].seq + m[i].len)
  <2> DEFINE z == Once(m, i)
  <2>x. /\ m \in Seq(Segment) /\ u \in Nat /\ nxt \in Nat /\ Chain(m, u, nxt, e) /\ nxt <= e
        /\ i \in 1 .. Len(m) /\ v \in Nat /\ (m[i].xmit = 0 => m[i].seq = nxt)
        /\ v = IF m[i].xmit = 0 THEN nxt + m[i].len ELSE nxt
    BY <1>1, <1>9, <1>11, <1>12, <1>13
  <2>1. /\ z \in Seq(Segment) /\ Chain(z, u, v, e)
        /\ \A s : Starts(m, s) => Starts(z, s)
        /\ m[i].seq + m[i].len <= v /\ u < v /\ v <= e
        /\ m[i].seq + m[i].len = v \/ Starts(z, m[i].seq + m[i].len)
    BY <2>x, ChainSent
  <2>2. z = sent
    BY <1>4
  <2> HIDE DEF z
  <2> QED BY <2>1, <2>2
<1>15. /\ l[i].seq + n <= v /\ (l[i].seq + n = v \/ Starts(sent, l[i].seq + n))
       /\ \A s : Starts(l, s) => Starts(sent, s)
  BY <1>9, <1>14
<1>16. l[i].ctrl => n = 1
  BY <1>5, <1>6, <1>7, <1>8
<1>17. n <= Whole(t, i) /\ u <= l[i].seq
  BY <1>1, <1>5, <1>6, <1>7
<1> QED BY <1>5, <1>6, <1>7, <1>11, <1>14, <1>15, <1>16, <1>17 DEF n, l, u, nxt, v, sent

\* What Transmit makes of r when it can.
Transmitted(r, q, i, data) ==
  /\ q \in Result /\ SameReceive(r.t, q.t)
  /\ q.t.state = r.t.state /\ q.t.sbuf = r.t.sbuf /\ q.t.slist = SentList(r.t, i)
  /\ q.t.snd_una = r.t.snd_una /\ q.t.snd_nxt = SentUpTo(r.t, i)
  /\ q.t.snd_wnd = r.t.snd_wnd /\ q.t.recover = r.t.recover /\ q.t.readEnable = r.t.readEnable
  /\ Wrote(r.out, q.out, r.t, r.t.slist[i].seq, r.t.slist[i].ctrl, data)

\* What transmit changes, field by field.
LEMMA TransmittedIs ==
  ASSUME NEW r \in Result, NEW i \in 1 .. Len(r.t.slist), Fits(r.t, i) \in Nat \ {0},
         SentList(r.t, i) \in Seq(Segment), SentUpTo(r.t, i) \in Nat,
         Data(r.t, r.t.slist[i].seq, Fits(r.t, i)) \in Seq(Int)
  PROVE  Transmitted(r, Transmit(r, i), i, Data(r.t, r.t.slist[i].seq, Fits(r.t, i)))
<1> DEFINE n == Fits(r.t, i)
           sent == SentList(r.t, i)
           v == SentUpTo(r.t, i)
           data == Data(r.t, r.t.slist[i].seq, n)
           q == Transmit(r, i)
<1>1. /\ n \in Nat \ {0} /\ n = Fits(r.t, i)
      /\ sent \in Seq(Segment) /\ v \in Nat /\ data \in Seq(Int)
  OBVIOUS
<1>2. /\ sent = Once(Split(r.t.slist, i, n), i)
      /\ v = IF r.t.slist[i].xmit = 0 THEN Add(r.t.snd_nxt, n) ELSE r.t.snd_nxt
      /\ data = Data(r.t, r.t.slist[i].seq, n)
  BY DEF SentList, SentUpTo
<1> HIDE DEF n, sent, v, data
<1>3. /\ q \in Result /\ SameReceive(r.t, q.t)
      /\ q.t.state = r.t.state /\ q.t.sbuf = r.t.sbuf /\ q.t.slist = sent
      /\ q.t.snd_una = r.t.snd_una /\ q.t.snd_nxt = v /\ q.t.snd_wnd = r.t.snd_wnd
      /\ q.t.recover = r.t.recover /\ q.t.readEnable = r.t.readEnable
      /\ Wrote(r.out, q.out, r.t, r.t.slist[i].seq, r.t.slist[i].ctrl, data)
  BY <1>1, <1>2, TransmitIs
<1> HIDE DEF q
<1>4. Transmitted(r, q, i, data)
  BY <1>3 DEF Transmitted, sent, v
<1> QED BY <1>4 DEF q, data, n

\* A transmission goes on with the state and what is received.
OnlySends(r, q) == q.t.state = r.t.state /\ SameReceive(r.t, q.t)

\* A packet with a segment is as it should be.
LEMMA OutSegment ==
  ASSUME NEW t \in ControlBlock, NEW g, NEW o \in ControlBlock, Rcv(t, g, o),
         t.state # "LISTEN", NEW m \in Datagram,
         m.ack = t.rcv_nxt, m.wnd = t.rcv_wnd, m.data # <<>>,
         m.seq + Len(m.data) <= t.snd_nxt, Bound(t, m.seq + Len(m.data)),
         \A k \in 1 .. Len(m.data) : m.data[k] = m.seq + k - 1,
         m.ctrl <=> m.seq = 0, m.ctrl => Len(m.data) = 1
  PROVE  Out(t, m, o)
<1>1. t.rcv_nxt \in Nat /\ Edge(t) \in Nat /\ t.rcv_wnd \in Nat
  BY BlockFields
<1>2. m.ack <= t.rcv_nxt /\ m.ack + m.wnd <= Edge(t)
  BY <1>1 DEF Edge
<1>3. Bound(o, m.ack)
  BY DEF Rcv
<1> QED BY <1>2, <1>3 DEF Out

\* The segment may go: once it is a new one it is the next, and fits the window.
MayGo(t, i, o) ==
  t.slist[i].xmit = 0 => t.slist[i].seq = t.snd_nxt /\ t.snd_nxt + Whole(t, i) <= Edge(o)

\* What is sent after a transmission.
LEMMA TransmitSnd ==
  ASSUME NEW t \in ControlBlock, NEW w, NEW o \in ControlBlock, Snd(t, w, o),
         t.state # "CLOSED", NEW i \in 1 .. Len(t.slist), CanTransmit(t, i),
         MayGo(t, i, o)
  PROVE  LET e == Numbered(t, w)
             y == t.slist[i]
             n == Fits(t, i)
             v == SentUpTo(t, i)
         IN /\ e \in Nat /\ e < SeqSpace /\ Sending(t, e) /\ t.snd_nxt <= e
            /\ n \in Nat \ {0} /\ v \in Nat
            /\ SentList(t, i) \in Seq(Segment)
            /\ Chain(SentList(t, i), t.snd_una, v, e)
            /\ \A s : Starts(t.slist, s) => Starts(SentList(t, i), s)
            /\ y.seq \in Nat /\ t.snd_una <= y.seq /\ y.seq + n <= v
            /\ t.snd_una < v /\ v <= e /\ t.snd_nxt <= v /\ v <= Edge(o)
            /\ y.seq + n = v \/ Starts(SentList(t, i), y.seq + n)
            /\ t.snd_nxt = v \/ Starts(SentList(t, i), t.snd_nxt)
            /\ y.ctrl \in BOOLEAN /\ (y.ctrl <=> y.seq = 0) /\ (y.ctrl => n = 1)
            /\ t.state # "LISTEN"
<1> DEFINE e == Numbered(t, w)
           y == t.slist[i]
           n == Fits(t, i)
           v == SentUpTo(t, i)
           nxt == t.snd_nxt
           u == t.snd_una
           l == SentList(t, i)
<1>1. /\ w \in Nat /\ w + 1 < SeqSpace /\ nxt <= e /\ Sending(t, e) /\ nxt <= Edge(o)
  BY DEF Snd
<1>2. /\ nxt \in Nat /\ u \in Nat /\ Edge(o) \in Nat /\ SeqSpace \in Nat
  BY BlockFields, PseudoTcpAssumption
<1>3. e \in Nat /\ e < SeqSpace
  BY <1>1, <1>2 DEF Numbered
<1> HIDE DEF e
<1>4. y.xmit = 0 => y.seq = nxt /\ nxt + Whole(t, i) <= Edge(o)
  BY DEF MayGo
<1>5. /\ n \in Nat \ {0} /\ n <= Whole(t, i) /\ v \in Nat
      /\ l \in Seq(Segment)
      /\ Chain(l, u, v, e)
      /\ \A s : Starts(t.slist, s) => Starts(l, s)
      /\ y.seq \in Nat /\ u <= y.seq /\ y.seq + n <= v
      /\ u < v /\ v <= e /\ nxt <= v
      /\ y.seq + n = v \/ Starts(l, y.seq + n)
      /\ v = IF y.xmit = 0 THEN nxt + n ELSE nxt
      /\ y.ctrl \in BOOLEAN /\ (y.ctrl <=> y.seq = 0) /\ (y.ctrl => n = 1)
  BY <1>1, <1>3, <1>4, SentChain
<1>6. Whole(t, i) \in Nat
  <2>1. y \in Segment
    BY BlockFields, ElementOfSeq
  <2>2. y.len \in Nat /\ t.mss \in Nat
    BY <2>1, SegmentNumbers, BlockFields
  <2> QED BY <2>2 DEF Whole, Least
<1>7. v <= Edge(o)
  <2> HIDE DEF y, n, v, nxt
  <2> QED BY <1>1, <1>2, <1>4, <1>5, <1>6
<1>8. nxt = v \/ Starts(l, nxt)
  <2>1. CASE y.xmit = 0
    <3>1. Starts(t.slist, nxt)
      BY <1>4, <2>1 DEF Starts
    <3> QED BY <1>5, <3>1
  <2>2. CASE y.xmit # 0
    BY <1>5, <2>2
  <2> QED BY <2>1, <2>2
<1>9. t.state # "LISTEN"
  <2>1. e # 0
    <3> HIDE DEF v, u
    <3> QED BY <1>2, <1>3, <1>5
  <2> QED BY <2>1 DEF e, Numbered
<1> QED BY <1>1, <1>3, <1>5, <1>7, <1>8, <1>9 DEF e

\* A transmission leaves a call as good as it was.
LEMMA TransmitFine ==
  ASSUME NEW r, NEW t \in ControlBlock, NEW w, NEW g, NEW o \in ControlBlock,
         Fine(r, t, w, g, o), r.t.state # "CLOSED",
         NEW i \in 1 .. Len(r.t.slist), CanTransmit(r.t, i), MayGo(r.t, i, o)
  PROVE  LET q == Transmit(r, i)
         IN /\ Fine(q, t, w, g, o) /\ OnlySends(r, q)
            /\ q.t.snd_una = r.t.snd_una /\ r.t.snd_una < q.t.snd_nxt
            /\ r.t.slist[i].xmit # 0 => q.t.snd_nxt = r.t.snd_nxt
<1> DEFINE a == r.t
           e == Numbered(a, w)
           y == a.slist[i]
           n == Fits(a, i)
           v == SentUpTo(a, i)
           l == SentList(a, i)
           seq == y.seq
           data == Data(a, seq, n)
           q == Transmit(r, i)
<1>1. r \in Result /\ a \in ControlBlock /\ Snd(a, w, o) /\ Rcv(a, g, o)
  BY ResultFields DEF Fine
<1>2. /\ e \in Nat /\ e < SeqSpace /\ Sending(a, e) /\ a.snd_nxt <= e
      /\ n \in Nat \ {0} /\ v \in Nat
      /\ l \in Seq(Segment)
      /\ Chain(l, a.snd_una, v, e)
      /\ \A s : Starts(a.slist, s) => Starts(l, s)
      /\ seq \in Nat /\ a.snd_una <= seq /\ seq + n <= v
      /\ a.snd_una < v /\ v <= e /\ a.snd_nxt <= v /\ v <= Edge(o)
      /\ seq + n = v \/ Starts(l, seq + n)
      /\ a.snd_nxt = v \/ Starts(l, a.snd_nxt)
      /\ y.ctrl \in BOOLEAN /\ (y.ctrl <=> seq = 0) /\ (y.ctrl => n = 1)
      /\ a.state # "LISTEN"
  BY <1>1, TransmitSnd
<1>3. /\ data \in Seq(Int) /\ Len(data) = n
      /\ \A k \in 1 .. n : data[k] = seq + k - 1
  <2>1. seq + n <= e
    <3> HIDE DEF seq, n, v, e
    <3> QED BY <1>2
  <2> HIDE DEF seq, n, e
  <2> QED BY <1>1, <1>2, <2>1, DataIs
<1>4. Transmitted(r, q, i, data)
  BY <1>1, <1>2, <1>3, TransmittedIs
<1> HIDE DEF q, data, e, n, v, l, seq
<1>5. /\ q \in Result /\ SameReceive(a, q.t)
      /\ q.t.state = a.state /\ q.t.sbuf = a.sbuf /\ q.t.slist = l
      /\ q.t.snd_una = a.snd_una /\ q.t.snd_nxt = v
      /\ q.t.snd_wnd = a.snd_wnd /\ q.t.recover = a.recover
      /\ Wrote(r.out, q.out, a, seq, y.ctrl, data)
  BY <1>4 DEF Transmitted, l, v, seq
<1>6. q.t \in ControlBlock /\ q.t.rcv_nxt = a.rcv_nxt /\ Edge(q.t) = Edge(a)
  BY <1>5, ResultFields DEF SameReceive, Edge
<1>7. /\ a.recover \in Nat /\ a.snd_nxt \in Nat /\ a.snd_una \in Nat /\ Edge(a) \in Nat
      /\ a.rcv_nxt \in Nat
  BY <1>1, BlockFields
<1>8. Snd(q.t, w, o)
  <2>1. /\ w \in Nat /\ w + 1 < SeqSpace
        /\ a.recover <= a.snd_nxt
        /\ a.snd_una <= o.rcv_nxt /\ a.snd_una + a.snd_wnd <= Edge(o)
        /\ w > 0 \/ a.state = "ESTABLISHED" => o.rcv_nxt >= 1
    BY <1>1 DEF Snd
  <2>2. Numbered(q.t, w) = e
    BY <1>5 DEF Numbered, e
  <2>3. Sending(q.t, e)
    BY <1>2, <1>5 DEF Sending
  <2>4. a.recover <= v
    BY <1>2, <1>7, <2>1
  <2>5. a.snd_una <= v
    BY <1>2, <1>7
  <2> QED BY <1>2, <1>5, <2>1, <2>2, <2>3, <2>4, <2>5 DEF Snd
<1>9. Rcv(q.t, g, o)
  BY <1>1, <1>5, ReceiveSame
<1>10. Later(a, q.t)
  <2>1. ASSUME NEW s \in Nat, s <= a.snd_nxt, Bound(a, s) PROVE Bound(q.t, s)
    <3>1. s <= a.snd_una \/ s = a.snd_nxt \/ Starts(a.slist, s)
      BY <2>1 DEF Bound
    <3>2. s <= q.t.snd_una \/ s = q.t.snd_nxt \/ Starts(q.t.slist, s)
      BY <1>2, <1>5, <3>1
    <3> QED BY <3>2 DEF Bound
  <2> QED BY <1>2, <1>5, <1>6, <1>7, <2>1 DEF Later
<1>11. PICK m \in Datagram :
         /\ q.out = Append(r.out, m)
         /\ m.seq = seq /\ m.ack = a.rcv_nxt /\ m.ctrl = y.ctrl
         /\ m.wnd = a.rcv_wnd /\ m.data = data
  BY <1>5 DEF Wrote
<1>12. Out(q.t, m, o)
  <2>1. m.ack = q.t.rcv_nxt /\ m.wnd = q.t.rcv_wnd
    BY <1>5, <1>11 DEF SameReceive
  <2>2. m.data # <<>>
    BY <1>2, <1>3, <1>11, EmptySeq
  <2>3. m.seq + Len(m.data) <= q.t.snd_nxt /\ Bound(q.t, m.seq + Len(m.data))
    BY <1>2, <1>3, <1>5, <1>11 DEF Bound
  <2>4. \A k \in 1 .. Len(m.data) : m.data[k] = m.seq + k - 1
    BY <1>3, <1>11
  <2>5. (m.ctrl <=> m.seq = 0) /\ (m.ctrl => Len(m.data) = 1)
    BY <1>2, <1>3, <1>11
  <2> QED BY <1>2, <1>5, <1>6, <1>9, <2>1, <2>2, <2>3, <2>4, <2>5, OutSegment
<1>13. Fine(q, t, w, g, o)
  BY <1>5, <1>8, <1>9, <1>10, <1>11, <1>12, FineMoves
<1>14. OnlySends(r, q) /\ q.t.snd_una = a.snd_una /\ a.snd_una < q.t.snd_nxt
  BY <1>2, <1>5 DEF OnlySends
<1>15. r.t.slist[i].xmit # 0 => q.t.snd_nxt = r.t.snd_nxt
  BY <1>5 DEF v, SentUpTo
<1> QED BY <1>13, <1>14, <1>15 DEF q

-----------------------------------------------------------------------------
(* attemptSend                                                                *)

\* r with another control block.
With(r, v) == [r EXCEPT !.t = v]

\* A control block put in the place of another.
LEMMA WithIs ==
  ASSUME NEW r \in Result, NEW v \in ControlBlock
  PROVE  With(r, v) \in Result /\ With(r, v).t = v /\ With(r, v).out = r.out
BY DEF With, Result

\* A control block of which the two directions are left alone.
LEMMA WithFine ==
  ASSUME NEW r, NEW t \in ControlBlock, NEW w, NEW g, NEW o \in ControlBlock,
         Fine(r, t, w, g, o), NEW v \in ControlBlock, SameSend(r.t, v), SameReceive(r.t, v)
  PROVE  Fine(With(r, v), t, w, g, o) /\ OnlySends(r, With(r, v))
<1>1. r \in Result
  BY DEF Fine
<1>2. With(r, v) \in Result /\ With(r, v).t = v /\ With(r, v).out = r.out
  BY <1>1, WithIs
<1>3. Fine(With(r, v), t, w, g, o)
  BY <1>2, FineSame
<1> QED BY <1>2, <1>3 DEF OnlySends, SameSend

\* What attemptSend counts as available is there and has room at the peer.
LEMMA AvailableIs ==
  ASSUME NEW t \in ControlBlock, NEW w, NEW o \in ControlBlock, Snd(t, w, o),
         t.state # "CLOSED", NEW cwnd \in Nat
  PROVE  LET n == Available(t, cwnd)
             e == Numbered(t, w)
         IN /\ n \in Nat /\ n <= t.mss /\ t.snd_nxt + n <= e
            /\ n > 0 => t.snd_nxt + n <= Edge(o)
            /\ e \in Nat /\ e < SeqSpace /\ Sending(t, e)
<1> DEFINE e == Numbered(t, w)
           nxt == t.snd_nxt
           u == t.snd_una
           z == Len(t.sbuf)
           wnd == t.snd_wnd
           mss == t.mss
           edge == Edge(o)
           f == InFlight(t)
           window == Least(wnd, cwnd)
           useable == IF f < window THEN window - f ELSE 0
           queued == Least(z - f, mss)
           n == Available(t, cwnd)
<1>1. /\ w \in Nat /\ w + 1 < SeqSpace /\ u <= nxt /\ nxt <= e /\ Sending(t, e)
      /\ u + wnd <= edge
  BY DEF Snd
<1>2. /\ nxt \in Nat /\ u \in Nat /\ z \in Nat /\ wnd \in Nat /\ mss \in Nat /\ mss > 0
      /\ edge \in Nat /\ SeqSpace \in Nat
  BY BlockFields, PseudoTcpAssumption
<1>3. u + z = e
  BY <1>1 DEF Sending
<1>4. e \in Nat /\ e < SeqSpace
  BY <1>1, <1>2 DEF Numbered
<1>5. f = Diff(nxt, u)
  BY DEF InFlight
<1>6. n = IF queued <= useable THEN queued ELSE IF useable * 4 < window THEN 0 ELSE useable
  BY DEF Available
<1> HIDE DEF nxt, u, z, wnd, mss, edge, e, f, n
<1>7. f = nxt - u /\ f \in Nat
  <2>1. nxt - u \in Nat /\ nxt - u < SeqSpace
    BY <1>1, <1>2, <1>4
  <2> QED BY <1>5, <2>1, NoWrap DEF Diff
<1>8. window \in Nat /\ window <= wnd
  BY <1>2 DEF Least
<1>9. queued \in Nat /\ queued <= mss /\ queued <= z - f
  <2>1. z - f \in Nat
    BY <1>1, <1>2, <1>3, <1>4, <1>7
  <2> QED BY <1>2, <2>1 DEF Least
<1> HIDE DEF window, queued
<1>10. useable \in Nat /\ (useable > 0 => useable = window - f)
  BY <1>7, <1>8
<1> HIDE DEF useable
<1>11. n \in Nat /\ n <= queued /\ n <= useable
  <2>1. CASE queued <= useable
    BY <1>6, <1>9, <1>10, <2>1
  <2>2. CASE ~(queued <= useable)
    BY <1>6, <1>9, <1>10, <2>2
  <2> QED BY <2>1, <2>2
<1>12. n <= mss /\ nxt + n <= e
  BY <1>1, <1>2, <1>3, <1>4, <1>7, <1>9, <1>11
<1>13. n > 0 => nxt + n <= edge
  BY <1>1, <1>2, <1>7, <1>8, <1>10, <1>11
<1> QED BY <1>1, <1>4, <1>11, <1>12, <1>13 DEF nxt, mss, edge, e, n

\* The segment that goes next is cut to the size that may go.
Ready(r, i, n) == [r EXCEPT !.t.slist = Split(@, i, n)]

\* What cutting a segment to be sent changes.
LEMMA ReadyBlock ==
  ASSUME NEW r \in Result, NEW i, NEW n, NEW l \in Seq(Segment), l = Split(r.t.slist, i, n)
  PROVE  LET q == Ready(r, i, n)
         IN /\ q \in Result /\ SameReceive(r.t, q.t) /\ q.out = r.out
            /\ q.t.state = r.t.state /\ q.t.sbuf = r.t.sbuf /\ q.t.slist = l
            /\ q.t.snd_una = r.t.snd_una /\ q.t.snd_nxt = r.t.snd_nxt
            /\ q.t.snd_wnd = r.t.snd_wnd /\ q.t.recover = r.t.recover
            /\ q.t.rto_base = r.t.rto_base /\ q.t.mss = r.t.mss
<1> DEFINE t == r.t
           v == [t EXCEPT !.slist = l]
           q == Ready(r, i, n)
<1>1. t \in ControlBlock
  BY ResultFields
<1>2. q = With(r, v)
  BY DEF Ready, With
<1> HIDE DEF t
<1>3. /\ v \in ControlBlock /\ SameReceive(t, v)
      /\ v.state = t.state /\ v.sbuf = t.sbuf /\ v.slist = l
      /\ v.snd_una = t.snd_una /\ v.snd_nxt = t.snd_nxt
      /\ v.snd_wnd = t.snd_wnd /\ v.recover = t.recover
      /\ v.rto_base = t.rto_base /\ v.mss = t.mss
  BY <1>1 DEF ControlBlock, SameReceive
<1> HIDE DEF v, q
<1>4. q \in Result /\ q.t = v /\ q.out = r.out
  BY <1>2, <1>3, WithIs
<1> QED BY <1>3, <1>4 DEF t, q

\* It touches no stream, and the segment is as short as asked.
LEMMA ReadyFine ==
  ASSUME NEW r, NEW t \in ControlBlock, NEW w, NEW g, NEW o \in ControlBlock,
         Fine(r, t, w, g, o), r.t.state # "CLOSED",
         NEW i \in 1 .. Len(r.t.slist), NEW n \in Nat \ {0}
  PROVE  LET q == Ready(r, i, n)
         IN /\ Fine(q, t, w, g, o) /\ OnlySends(r, q)
            /\ q.t.snd_nxt = r.t.snd_nxt /\ q.t.mss = r.t.mss
            /\ i \in 1 .. Len(q.t.slist)
            /\ q.t.slist[i].seq = r.t.slist[i].seq /\ q.t.slist[i].xmit = r.t.slist[i].xmit
            /\ q.t.slist[i].len \in Nat /\ q.t.slist[i].len <= n
<1> DEFINE a == r.t
           e == Numbered(a, w)
           l == Split(a.slist, i, n)
           q == Ready(r, i, n)
<1>1. r \in Result /\ a \in ControlBlock /\ Snd(a, w, o) /\ Rcv(a, g, o)
  BY ResultFields DEF Fine
<1>2. /\ a.slist \in Seq(Segment) /\ a.snd_una \in Nat /\ a.snd_nxt \in Nat
      /\ a.rcv_nxt \in Nat /\ Edge(a) \in Nat /\ SeqSpace \in Nat
  BY <1>1, BlockFields, PseudoTcpAssumption
<1>3. e \in Nat /\ e < SeqSpace /\ Sending(a, e)
  BY <1>1, <1>2 DEF Snd, Numbered
<1>4. Chain(a.slist, a.snd_una, a.snd_nxt, e)
  BY <1>3 DEF Sending
<1>x. i \in 1 .. Len(a.slist) /\ n \in Nat \ {0}
  OBVIOUS
<1> HIDE DEF e
<1>5. /\ l \in Seq(Segment) /\ Chain(l, a.snd_una, a.snd_nxt, e)
      /\ \A s : Starts(a.slist, s) => Starts(l, s)
      /\ i \in 1 .. Len(l)
      /\ l[i].seq = a.slist[i].seq /\ l[i].xmit = a.slist[i].xmit
      /\ l[i].len = Least(a.slist[i].len, n)
  <2> DEFINE b == a.slist
             u == a.snd_una
             x == a.snd_nxt
  <2>1. /\ b \in Seq(Segment) /\ u \in Nat /\ x \in Nat /\ Chain(b, u, x, e)
        /\ i \in 1 .. Len(b)
    BY <1>2, <1>4, <1>x
  <2> HIDE DEF b, u, x
  <2>2. LET m == Split(b, i, n)
        IN /\ m \in Seq(Segment) /\ Chain(m, u, x, e)
           /\ \A s : Starts(b, s) => Starts(m, s)
           /\ i \in 1 .. Len(m)
           /\ m[i].seq = b[i].seq /\ m[i].xmit = b[i].xmit
           /\ m[i].len = Least(b[i].len, n)
    BY <1>3, <1>x, <2>1, ChainSplit
  <2> QED BY <2>2 DEF b, u, x
<1> HIDE DEF l
<1>6. /\ q \in Result /\ SameReceive(a, q.t) /\ q.out = r.out
      /\ q.t.state = a.state /\ q.t.sbuf = a.sbuf /\ q.t.slist = l
      /\ q.t.snd_una = a.snd_una /\ q.t.snd_nxt = a.snd_nxt
      /\ q.t.snd_wnd = a.snd_wnd /\ q.t.recover = a.recover
      /\ q.t.rto_base = a.rto_base /\ q.t.mss = a.mss
  BY <1>1, <1>5, ReadyBlock DEF l
<1> HIDE DEF q
<1>7. Snd(q.t, w, o)
  <2>1. Numbered(q.t, w) = e
    BY <1>6 DEF Numbered, e
  <2>2. Sending(q.t, e)
    BY <1>3, <1>5, <1>6 DEF Sending
  <2> QED BY <1>1, <1>6, <2>1, <2>2 DEF Snd, e
<1>8. Rcv(q.t, g, o)
  BY <1>1, <1>6, ReceiveSame
<1>9. Later(a, q.t)
  <2>1. ASSUME NEW s \in Nat, Bound(a, s) PROVE Bound(q.t, s)
    BY <1>5, <1>6, <2>1 DEF Bound
  <2>2. q.t.rcv_nxt = a.rcv_nxt /\ Edge(q.t) = Edge(a)
    BY <1>6 DEF SameReceive, Edge
  <2> QED BY <1>2, <1>6, <2>1, <2>2 DEF Later
<1>10. Fine(q, t, w, g, o)
  BY <1>6, <1>7, <1>8, <1>9, FineMoves
<1>11. l[i].len \in Nat /\ l[i].len <= n
  <2>1. a.slist[i] \in Segment
    BY <1>2, ElementOfSeq
  <2> QED BY <1>5, <2>1, SegmentNumbers DEF Least
<1> QED BY <1>5, <1>6, <1>10, <1>11 DEF OnlySends, q

\* To do nothing but send is transitive.
LEMMA OnlySendsTrans ==
  ASSUME NEW r, NEW p, NEW q, OnlySends(r, p), OnlySends(p, q)
  PROVE  OnlySends(r, q)
BY DEF OnlySends, SameReceive

\* A packet without data.
LEMMA PacketOnlySends ==
  ASSUME NEW r, NEW t \in ControlBlock, NEW w, NEW g, NEW o \in ControlBlock,
         Fine(r, t, w, g, o), NEW seq \in Nat
  PROVE  LET q == Packet(r, seq, FALSE, <<>>)
         IN Fine(q, t, w, g, o) /\ OnlySends(r, q)
<1> DEFINE c == FALSE
           d == <<>>
           q == Packet(r, seq, c, d)
<1>1. Fine(Packet(r, seq, FALSE, <<>>), t, w, g, o)
  BY PacketFine
<1>2. r \in Result /\ c \in BOOLEAN /\ d \in Seq(Int)
  BY DEF Fine
<1>3. q = Packet(r, seq, FALSE, <<>>)
  OBVIOUS
<1> HIDE DEF c, d
<1>4. PacketOf(r, q, seq, c, d)
  BY <1>2, PacketIs
<1> HIDE DEF q
<1>5. OnlySends(r, q)
  BY <1>4 DEF PacketOf, OnlySends, SameSend
<1> QED BY <1>1, <1>3, <1>5

\* The acknowledgement at the end of attemptSend.
LEMMA AcknowledgeFine ==
  ASSUME NEW r, NEW t \in ControlBlock, NEW w, NEW g, NEW o \in ControlBlock,
         Fine(r, t, w, g, o), NEW sflags
  PROVE  Fine(Acknowledge(r, sflags), t, w, g, o) /\ OnlySends(r, Acknowledge(r, sflags))
<1>1. r \in Result /\ r.t \in ControlBlock /\ r.t.snd_nxt \in Nat
  BY ResultFields, BlockFields DEF Fine
<1>2. CASE sflags = "none"
  BY <1>2 DEF Acknowledge, OnlySends, SameReceive
<1>3. CASE sflags # "none" /\ (sflags = "immediate" \/ r.t.t_ack)
  <2>1. Acknowledge(r, sflags) = Packet(r, r.t.snd_nxt, FALSE, <<>>)
    BY <1>3 DEF Acknowledge
  <2> DEFINE q == Packet(r, r.t.snd_nxt, FALSE, <<>>)
  <2>2. Fine(q, t, w, g, o) /\ OnlySends(r, q)
    BY <1>1, PacketOnlySends
  <2> QED BY <2>1, <2>2
<1>4. CASE sflags # "none" /\ ~(sflags = "immediate" \/ r.t.t_ack)
  <2> DEFINE on == TRUE
             a == r.t
             v == [a EXCEPT !.t_ack = on]
  <2>1. Acknowledge(r, sflags) = With(r, v)
    BY <1>4 DEF Acknowledge, With
  <2>2. on \in BOOLEAN /\ a \in ControlBlock
    BY <1>1
  <2> HIDE DEF on, a
  <2>3. v \in ControlBlock
    BY <2>2 DEF ControlBlock
  <2>4. SameSend(a, v) /\ SameReceive(a, v)
    BY <2>2 DEF ControlBlock, SameSend, SameReceive
  <2> HIDE DEF v
  <2>5. Fine(With(r, v), t, w, g, o) /\ OnlySends(r, With(r, v))
    BY <2>3, <2>4, WithFine DEF a
  <2> QED BY <2>1, <2>5
<1> QED BY <1>2, <1>3, <1>4

\* Where a turn of the loop of attemptSend leaves off.
Turns(r, t, w, g, o) ==
  {s \in [r : Result, sflags : {"none", "delayed", "immediate"}, done : BOOLEAN] :
     Fine(s.r, t, w, g, o) /\ OnlySends(r, s.r)}

\* A state of the loop of attemptSend.
LEMMA TurnsIs ==
  ASSUME NEW r, NEW t, NEW w, NEW g, NEW o, NEW q, Fine(q, t, w, g, o), OnlySends(r, q),
         NEW sflags \in {"none", "delayed", "immediate"}, NEW done \in BOOLEAN
  PROVE  [r |-> q, sflags |-> sflags, done |-> done] \in Turns(r, t, w, g, o)
BY DEF Turns, Fine

\* A turn of it.
LEMMA SendTurnFine ==
  ASSUME NEW r, NEW t \in ControlBlock, NEW w, NEW g, NEW o \in ControlBlock,
         r.t.state # "CLOSED", NEW cwnd \in Nat, NEW writes, NEW s \in Turns(r, t, w, g, o)
  PROVE  SendTurn(s, cwnd, writes) \in Turns(r, t, w, g, o)
<1> DEFINE p == s.r
           a == p.t
           f == s.sflags
           n == Available(a, cwnd)
           i == SelectInSeq(a.slist, LAMBDA sseg : sseg.xmit = 0)
           e == Numbered(a, w)
           ready == Ready(p, i, n)
           Stays(x) == x \in Turns(r, t, w, g, o)
           As(q, flags, done) == [r |-> q, sflags |-> flags, done |-> done]
<1>1. /\ s = As(p, f, s.done) /\ f \in {"none", "delayed", "immediate"}
      /\ Fine(p, t, w, g, o) /\ OnlySends(r, p)
  BY DEF Turns
<1>2. p \in Result /\ a \in ControlBlock /\ a.state # "CLOSED" /\ Snd(a, w, o)
  BY <1>1, ResultFields DEF Fine, OnlySends
<1>3. /\ n \in Nat /\ n <= a.mss /\ a.snd_nxt + n <= e
      /\ n > 0 => a.snd_nxt + n <= Edge(o)
      /\ e \in Nat /\ e < SeqSpace /\ Sending(a, e)
  BY <1>2, AvailableIs
<1>4. SendTurn(s, cwnd, writes) =
        IF s.done THEN s
        ELSE IF n = 0 THEN [s EXCEPT !.r = Acknowledge(@, s.sflags), !.done = TRUE]
        ELSE IF a.snd_nxt > a.snd_una /\ n < a.mss THEN [s EXCEPT !.done = TRUE]
        ELSE IF ~Goes(ready, i, writes) THEN [s EXCEPT !.r = ready, !.done = TRUE]
        ELSE As(Transmit(ready, i), "none", FALSE)
  BY DEF SendTurn, Ready
<1>5. CASE s.done
  BY <1>4, <1>5
<1>6. CASE ~s.done /\ n = 0
  <2>1. SendTurn(s, cwnd, writes) = [s EXCEPT !.r = Acknowledge(@, s.sflags), !.done = TRUE]
    BY <1>4, <1>6
  <2>2. SendTurn(s, cwnd, writes) = As(Acknowledge(p, f), f, TRUE)
    BY <1>1, <2>1
  <2>3. Fine(Acknowledge(p, f), t, w, g, o) /\ OnlySends(p, Acknowledge(p, f))
    BY <1>1, AcknowledgeFine
  <2>4. OnlySends(r, Acknowledge(p, f))
    BY <1>1, <2>3, OnlySendsTrans
  <2> QED BY <1>1, <2>2, <2>3, <2>4, TurnsIs
<1>7. CASE ~s.done /\ n # 0 /\ a.snd_nxt > a.snd_una /\ n < a.mss
  <2>1. SendTurn(s, cwnd, writes) = As(p, f, TRUE)
    BY <1>1, <1>4, <1>7
  <2> QED BY <1>1, <2>1, TurnsIs
<1>8. CASE ~s.done /\ n # 0 /\ ~(a.snd_nxt > a.snd_una /\ n < a.mss)
  <2> DEFINE l == a.slist
             u == a.snd_una
             x == a.snd_nxt
             edge == Edge(o)
  <2>1. /\ l \in Seq(Segment) /\ u \in Nat /\ x \in Nat /\ edge \in Nat /\ a.mss \in Nat
    BY <1>2, BlockFields
  <2>2. Chain(l, u, x, e) /\ u <= x
    BY <1>2, <1>3 DEF Sending, Snd
  <2>3. x < e /\ x + n <= edge /\ n \in Nat \ {0}
    <3>1. n > 0 /\ x + n <= edge /\ x + n <= e
      BY <1>3, <1>8
    <3> HIDE DEF x, e, n
    <3> QED BY <1>3, <2>1, <3>1
  <2>4. i \in 1 .. Len(l) /\ l[i].xmit = 0 /\ l[i].seq = x
    <3> HIDE DEF l, u, x, e
    <3> QED BY <1>3, <2>1, <2>2, <2>3, FirstUnsent DEF l
  <2> HIDE DEF i, n
  <2>5. /\ Fine(ready, t, w, g, o) /\ OnlySends(p, ready)
        /\ ready.t.snd_nxt = x /\ ready.t.mss = a.mss
        /\ i \in 1 .. Len(ready.t.slist)
        /\ ready.t.slist[i].seq = x /\ ready.t.slist[i].xmit = 0
        /\ ready.t.slist[i].len \in Nat /\ ready.t.slist[i].len <= n
    BY <1>1, <1>2, <2>3, <2>4, ReadyFine
  <2> HIDE DEF ready
  <2>6. OnlySends(r, ready)
    BY <1>1, <2>5, OnlySendsTrans
  <2>7. CASE ~Goes(ready, i, writes)
    <3>1. SendTurn(s, cwnd, writes) = [s EXCEPT !.r = ready, !.done = TRUE]
      BY <1>4, <1>8, <2>7
    <3>2. SendTurn(s, cwnd, writes) = As(ready, f, TRUE)
      BY <1>1, <3>1
    <3> QED BY <1>1, <2>5, <2>6, <3>2, TurnsIs
  <2>8. CASE Goes(ready, i, writes)
    <3> DEFINE q == Transmit(ready, i)
    <3>1. SendTurn(s, cwnd, writes) = As(q, "none", FALSE)
      BY <1>4, <1>8, <2>8
    <3>2. MayGo(ready.t, i, o)
      <4> DEFINE len == ready.t.slist[i].len
                 mss == a.mss
                 whole == Whole(ready.t, i)
      <4>1. len \in Nat /\ len <= n /\ mss \in Nat /\ whole = Least(len, mss)
        BY <2>1, <2>5 DEF Whole
      <4> HIDE DEF len, mss, whole, x, edge
      <4>2. x + whole <= edge
        BY <2>1, <2>3, <4>1 DEF Least
      <4> QED BY <2>5, <4>2 DEF MayGo, whole, edge
    <3>3. ready.t.state # "CLOSED"
      BY <1>2, <2>5 DEF OnlySends
    <3>4. Fine(q, t, w, g, o) /\ OnlySends(ready, q)
      BY <2>5, <2>8, <3>2, <3>3, TransmitFine DEF Goes
    <3> HIDE DEF q
    <3>5. OnlySends(r, q)
      BY <2>6, <3>4, OnlySendsTrans
    <3> QED BY <3>1, <3>4, <3>5, TurnsIs
  <2> QED BY <2>7, <2>8
<1> QED BY <1>5, <1>6, <1>7, <1>8

\* attemptSend as a whole, for however many turns.
LEMMA AttemptSendFine ==
  ASSUME NEW r, NEW t \in ControlBlock, NEW w, NEW g, NEW o \in ControlBlock,
         Fine(r, t, w, g, o), r.t.state # "CLOSED",
         NEW sflags \in {"none", "delayed", "immediate"}, NEW cwnd \in Nat, NEW writes
  PROVE  LET q == AttemptSend(r, sflags, cwnd, writes)
         IN Fine(q, t, w, g, o) /\ OnlySends(r, q)
<1> DEFINE S == Turns(r, t, w, g, o)
<1>1. [r |-> r, sflags |-> sflags, done |-> FALSE] \in S
  BY TurnsIs DEF OnlySends, SameReceive
<1>2. \A s \in S : SendTurn(s, cwnd, writes) \in S
  BY SendTurnFine
<1> HIDE DEF S
<1>3. PICK s \in S : AttemptSend(r, sflags, cwnd, writes) = s.r
  BY <1>1, <1>2, AttemptSendEnds
<1> QED BY <1>3 DEF S, Turns

-----------------------------------------------------------------------------
(* queue                                                                      *)

\* How much of data m_sbuf has room for.
Taken(t, data) == Least(Len(data), SndBuf - Len(t.sbuf))

\* What Queue makes of a control block, given its buffer and its list.
Requeued(t, st, b, l) == [t EXCEPT !.state = st, !.sbuf = b, !.slist = l]

\* The fields of it.
QueuedIn(t, q, st, b, l) ==
  /\ q \in ControlBlock /\ SameReceive(t, q)
  /\ q.state = st /\ q.sbuf = b /\ q.slist = l
  /\ q.snd_una = t.snd_una /\ q.snd_nxt = t.snd_nxt
  /\ q.snd_wnd = t.snd_wnd /\ q.recover = t.recover /\ q.rto_base = t.rto_base

\* Queue touches these fields alone.
LEMMA QueueBlock ==
  ASSUME NEW t \in ControlBlock, NEW st \in {"SYN_SENT", "SYN_RECEIVED", "ESTABLISHED"},
         NEW b \in Seq(Int), NEW l \in Seq(Segment)
  PROVE  QueuedIn(t, Requeued(t, st, b, l), st, b, l)
<1> DEFINE q == Requeued(t, st, b, l)
<1>1. /\ q \in ControlBlock /\ SameReceive(t, q)
      /\ q.state = st /\ q.sbuf = b /\ q.slist = l
      /\ q.snd_una = t.snd_una /\ q.snd_nxt = t.snd_nxt
      /\ q.snd_wnd = t.snd_wnd /\ q.recover = t.recover /\ q.rto_base = t.rto_base
  BY DEF ControlBlock, SameReceive, Requeued
<1> HIDE DEF q
<1>2. QueuedIn(t, q, st, b, l)
  BY <1>1 DEF QueuedIn
<1> QED BY <1>2 DEF q

\* k more bytes, in the last segment or in one of their own.
Queued(l, e, k, ctrl) ==
  IF l # <<>> /\ Last(l).ctrl = ctrl /\ Last(l).xmit = 0
  THEN Lengthened(l, k) ELSE Appended(l, e, k, ctrl)

\* The list after Queue, whether the last segment was joined or not.
LEMMA SListQueued ==
  ASSUME NEW l \in Seq(Segment), NEW u \in Nat, NEW n \in Nat, NEW e \in Nat,
         Chain(l, u, n, e), n <= e, NEW k \in Nat \ {0}, NEW ctrl \in BOOLEAN,
         ctrl <=> e = 0, ctrl => k = 1
  PROVE  LET m == Queued(l, e, k, ctrl)
         IN /\ m \in Seq(Segment) /\ Chain(m, u, n, e + k)
            /\ \A s : Starts(l, s) => Starts(m, s)
<1> DEFINE m == Queued(l, e, k, ctrl)
           joins == l # <<>> /\ Last(l).ctrl = ctrl /\ Last(l).xmit = 0
<1>1. CASE joins
  <2>1. u <= e /\ (l = <<>> <=> u = e)
    BY ChainEnds
  <2>2. e # 0
    BY <1>1, <2>1
  <2>3. Last(l) = l[Len(l)]
    BY DEF Last
  <2>4. ctrl = FALSE
    BY <2>2
  <2>5. l[Len(l)].xmit = 0 /\ ~l[Len(l)].ctrl /\ l # <<>>
    BY <1>1, <2>3, <2>4
  <2>6. m = Lengthened(l, k)
    BY <1>1 DEF Queued
  <2> HIDE DEF m
  <2>7. LET z == Lengthened(l, k)
        IN /\ z \in Seq(Segment) /\ Chain(z, u, n, e + k)
           /\ \A s : Starts(l, s) => Starts(z, s)
    BY <2>5, ChainLonger
  <2> QED BY <2>6, <2>7 DEF m
<1>2. CASE ~joins
  <2>1. m = Appended(l, e, k, ctrl)
    BY <1>2 DEF Queued
  <2> HIDE DEF m
  <2>2. LET z == Appended(l, e, k, ctrl)
        IN /\ z \in Seq(Segment) /\ Chain(z, u, n, e + k)
           /\ \A s : Starts(l, s) => Starts(z, s)
    BY ChainAppend
  <2> QED BY <2>1, <2>2 DEF m
<1> QED BY <1>1, <1>2

\* t in another state.
Entered(t, st) == [t EXCEPT !.state = st]

\* What Queue makes of data: the buffer longer by what it has taken, and the list.
QueuedAs(t, q, st, data, e) ==
  LET k == Taken(t, data)
  IN /\ q \in ControlBlock /\ SameReceive(t, q)
     /\ q.state = st /\ q.sbuf = t.sbuf \o SubSeq(data, 1, k)
     /\ q.slist \in Seq(Segment) /\ Chain(q.slist, t.snd_una, t.snd_nxt, e + k)
     /\ \A s : Starts(t.slist, s) => Starts(q.slist, s)
     /\ q.snd_una = t.snd_una /\ q.snd_nxt = t.snd_nxt
     /\ q.snd_wnd = t.snd_wnd /\ q.recover = t.recover /\ q.rto_base = t.rto_base

\* What Queue does to what can be sent.
LEMMA QueueIs ==
  ASSUME NEW t \in ControlBlock, NEW st \in {"SYN_SENT", "SYN_RECEIVED", "ESTABLISHED"},
         NEW data \in Seq(Int), NEW ctrl \in BOOLEAN,
         NEW e \in Nat, e < SeqSpace, Sending(t, e), t.snd_nxt <= e,
         Taken(t, data) \in Nat \ {0}, ctrl <=> e = 0, ctrl => Taken(t, data) = 1
  PROVE  QueuedAs(t, Queue(Entered(t, st), data, ctrl), st, data, e)
<1> DEFINE k == Taken(t, data)
           a == Entered(t, st)
           u == t.snd_una
           l == t.slist
           joins == l # <<>> /\ Last(l).ctrl = ctrl /\ Last(l).xmit = 0
           m == Queued(l, e, k, ctrl)
           b == t.sbuf \o SubSeq(data, 1, k)
           q == Queue(a, data, ctrl)
<1>1. /\ t.sbuf \in Seq(Int) /\ l \in Seq(Segment) /\ u \in Nat /\ t.snd_nxt \in Nat
      /\ Len(t.sbuf) \in Nat
  BY BlockFields
<1>2. u + Len(t.sbuf) = e /\ Chain(l, u, t.snd_nxt, e)
  BY DEF Sending
<1>3. Add(u, Len(t.sbuf)) = e
  BY <1>2, NoWrap DEF Add
<1>4. a.sbuf = t.sbuf /\ a.slist = l /\ a.snd_una = u
  BY DEF ControlBlock, Entered
<1>5. q = [a EXCEPT !.sbuf = b, !.slist = m]
  <2>1. Least(Len(data), SndBuf - Len(a.sbuf)) = k
    BY <1>4 DEF Taken
  <2> HIDE DEF a, k
  <2>2. q = [a EXCEPT !.sbuf = a.sbuf \o SubSeq(data, 1, k),
                      !.slist = IF joins THEN [a.slist EXCEPT ![Len(a.slist)].len = @ + k]
                                ELSE Append(a.slist, [seq |-> e, len |-> k, ctrl |-> ctrl, xmit |-> 0])]
    BY <1>3, <1>4, <2>1 DEF Queue
  <2>3. q = [a EXCEPT !.sbuf = b, !.slist = IF joins THEN Lengthened(l, k) ELSE Appended(l, e, k, ctrl)]
    BY <1>4, <2>2 DEF Lengthened, Appended
  <2> QED BY <2>3 DEF Queued
<1>6. q = Requeued(t, st, b, m)
  BY <1>5 DEF Requeued, Entered
<1>7. k \in Nat \ {0} /\ (ctrl => k = 1)
  OBVIOUS
<1> HIDE DEF q, k
<1>8. /\ m \in Seq(Segment) /\ Chain(m, u, t.snd_nxt, e + k)
      /\ \A s : Starts(l, s) => Starts(m, s)
  <2> DEFINE n == t.snd_nxt
  <2>1. /\ n \in Nat /\ n <= e /\ Chain(l, u, n, e)
    BY <1>1, <1>2
  <2> HIDE DEF l, u, n
  <2>3. /\ m \in Seq(Segment) /\ Chain(m, u, n, e + k)
        /\ \A s : Starts(l, s) => Starts(m, s)
    BY <1>1, <1>7, <2>1, SListQueued
  <2> QED BY <2>3 DEF n
<1>9. b \in Seq(Int)
  <2> DEFINE x == SubSeq(data, 1, k)
  <2>1. k <= Len(data)
    <3>1. SndBuf \in Nat /\ Len(data) \in Nat
      BY PseudoTcpAssumption, LenProperties
    <3> QED BY <1>1, <3>1 DEF k, Taken, Least
  <2>2. x \in Seq(Int)
    <3>1. Len(data) \in Nat /\ 1 \in 1 .. Len(data) + 1 /\ k \in 0 .. Len(data)
      BY <1>7, <2>1, LenProperties
    <3> QED BY <3>1, SubSeqProperties
  <2>3. b = t.sbuf \o x
    OBVIOUS
  <2> HIDE DEF x, b
  <2> QED BY <1>1, <2>2, <2>3, ConcatProperties
<1> HIDE DEF m, b
<1>10. /\ q \in ControlBlock /\ SameReceive(t, q)
       /\ q.state = st /\ q.sbuf = b /\ q.slist = m
       /\ q.snd_una = t.snd_una /\ q.snd_nxt = t.snd_nxt
       /\ q.snd_wnd = t.snd_wnd /\ q.recover = t.recover /\ q.rto_base = t.rto_base
  <2>1. QueuedIn(t, Requeued(t, st, b, m), st, b, m)
    BY <1>8, <1>9, QueueBlock
  <2>2. QueuedIn(t, q, st, b, m)
    BY <1>6, <2>1
  <2> QED BY <2>2 DEF QueuedIn
<1>11. QueuedAs(t, q, st, data, e)
  BY <1>8, <1>10 DEF b, k, QueuedAs
<1> QED BY <1>11 DEF q

\* What is queued goes on from w, up to v.
GoesOn(t, w, st, data, ctrl, v, o) ==
  /\ t.state # "CLOSED" /\ Taken(t, data) \in Nat \ {0}
  /\ ctrl <=> Numbered(t, w) = 0
  /\ ctrl => Taken(t, data) = 1
  /\ v + 1 = Numbered(t, w) + Taken(t, data) /\ v + 1 < SeqSpace
  /\ \A k \in 1 .. Len(data) : data[k] = Numbered(t, w) + k - 1
  /\ v > 0 \/ st = "ESTABLISHED" => o.rcv_nxt >= 1

\* The stream is longer by what was queued, and nothing else has changed.
LEMMA QueueSnd ==
  ASSUME NEW t \in ControlBlock, NEW w, NEW g, NEW o \in ControlBlock,
         Snd(t, w, o), Rcv(t, g, o),
         NEW st \in {"SYN_SENT", "SYN_RECEIVED", "ESTABLISHED"},
         NEW data \in Seq(Int), NEW ctrl \in BOOLEAN, NEW v \in Nat,
         GoesOn(t, w, st, data, ctrl, v, o)
  PROVE  LET q == Queue(Entered(t, st), data, ctrl)
         IN /\ q \in ControlBlock /\ q.state = st /\ SameReceive(t, q)
            /\ Snd(q, v, o) /\ Rcv(q, g, o) /\ Later(t, q)
            /\ q.snd_una = t.snd_una /\ q.snd_nxt = t.snd_nxt
<1> /\ t.state # "CLOSED" /\ Taken(t, data) \in Nat \ {0}
    /\ (ctrl <=> Numbered(t, w) = 0) /\ (ctrl => Taken(t, data) = 1)
    /\ v + 1 = Numbered(t, w) + Taken(t, data) /\ v + 1 < SeqSpace
    /\ (v > 0 \/ st = "ESTABLISHED" => o.rcv_nxt >= 1)
  BY DEF GoesOn
<1> \A k \in 1 .. Len(data) : data[k] = Numbered(t, w) + k - 1
  BY DEF GoesOn
<1> DEFINE q == Queue(Entered(t, st), data, ctrl)
           e == Numbered(t, w)
           n == Taken(t, data)
           b == t.sbuf
           x == SubSeq(data, 1, n)
           u == t.snd_una
           z == Len(b)
           end == e + n
<1>1. /\ b \in Seq(Int) /\ u \in Nat /\ z \in Nat /\ t.snd_nxt \in Nat /\ t.rcv_nxt \in Nat
      /\ Edge(t) \in Nat /\ SndBuf \in Nat /\ Len(data) \in Nat /\ SeqSpace \in Nat
  BY BlockFields, PseudoTcpAssumption, LenProperties
<1>2. /\ w \in Nat /\ t.snd_nxt <= e /\ Sending(t, e) /\ w + 1 < SeqSpace
  BY DEF Snd
<1>3. e \in Nat /\ e < SeqSpace
  BY <1>1, <1>2 DEF Numbered
<1>4. /\ u + z = e /\ z <= SndBuf
      /\ \A k \in 1 .. z : b[k] = u + k - 1
      /\ t.rto_base => u < t.snd_nxt
  BY <1>2 DEF Sending
<1>5. /\ n \in Nat \ {0} /\ (ctrl <=> e = 0) /\ (ctrl => n = 1)
      /\ v + 1 = end /\ end < SeqSpace
      /\ \A k \in 1 .. Len(data) : data[k] = e + k - 1
  OBVIOUS
<1>6. n <= Len(data) /\ n <= SndBuf - z
  <2> HIDE DEF z
  <2>1. n = Least(Len(data), SndBuf - z)
    BY DEF Taken, z
  <2> QED BY <1>1, <2>1 DEF Least
<1>x. QueuedAs(t, q, st, data, e)
  <2>1. Taken(t, data) \in Nat \ {0} /\ (ctrl <=> e = 0) /\ (ctrl => Taken(t, data) = 1)
    OBVIOUS
  <2> HIDE DEF e
  <2> QED BY <1>2, <1>3, <2>1, QueueIs
<1> HIDE DEF e, n
<1>7. /\ q \in ControlBlock /\ SameReceive(t, q)
      /\ q.state = st /\ q.sbuf = b \o x
      /\ q.slist \in Seq(Segment) /\ Chain(q.slist, u, t.snd_nxt, end)
      /\ \A s : Starts(t.slist, s) => Starts(q.slist, s)
      /\ q.snd_una = u /\ q.snd_nxt = t.snd_nxt
      /\ q.snd_wnd = t.snd_wnd /\ q.recover = t.recover /\ q.rto_base = t.rto_base
  BY <1>x DEF QueuedAs, n
<1> HIDE DEF q
<1>8. /\ x \in Seq(Int) /\ Len(x) = n
      /\ \A k \in 1 .. n : x[k] = e + k - 1
  <2>1. 1 \in Int /\ n \in Int /\ 1 <= n
    BY <1>5
  <2>2. \A k \in 1 .. n : k \in 1 .. Len(data)
    BY <1>1, <1>5, <1>6
  <2>3. \A k \in 1 .. n : data[k] \in Int
    BY <2>2, ElementOfSeq
  <2>4. /\ SubSeq(data, 1, n) \in Seq(Int)
        /\ Len(SubSeq(data, 1, n)) = IF 1 <= n THEN n - 1 + 1 ELSE 0
        /\ \A k \in 1 .. n - 1 + 1 : SubSeq(data, 1, n)[k] = data[1 + k - 1]
    BY <2>1, <2>3, SubSeqProperties
  <2> HIDE DEF x
  <2>5. Len(x) = n /\ \A k \in 1 .. n : x[k] = data[k]
    <3>1. n - 1 + 1 = n /\ \A k \in 1 .. n : 1 + k - 1 = k
      BY <1>5
    <3> QED BY <2>1, <2>4, <3>1 DEF x
  <2> QED BY <1>5, <2>2, <2>4, <2>5 DEF x
<1> HIDE DEF x
<1>9. /\ Len(q.sbuf) = z + n
      /\ \A k \in 1 .. Len(q.sbuf) : q.sbuf[k] = u + k - 1
  <2>1. /\ Len(b \o x) = Len(b) + Len(x)
        /\ \A i \in 1 .. Len(b) + Len(x) :
             (b \o x)[i] = IF i <= Len(b) THEN b[i] ELSE x[i - Len(b)]
    BY <1>1, <1>8, ConcatProperties
  <2>2. ASSUME NEW k \in 1 .. z + n PROVE (b \o x)[k] = u + k - 1
    <3>1. CASE k <= z
      BY <1>1, <1>4, <1>5, <1>8, <2>1, <2>2, <3>1
    <3>2. CASE ~(k <= z)
      <4>1. k - z \in 1 .. n
        <5> HIDE DEF z
        <5> QED BY <1>1, <1>5, <2>2, <3>2
      <4>2. (b \o x)[k] = x[k - z]
        BY <1>8, <2>1, <2>2, <3>2
      <4>3. x[k - z] = e + (k - z) - 1
        <5> HIDE DEF z
        <5> QED BY <1>8, <4>1
      <4> HIDE DEF z, u
      <4> QED BY <1>1, <1>3, <1>4, <2>2, <4>2, <4>3
    <3> QED BY <3>1, <3>2
  <2> QED BY <1>7, <1>8, <2>1, <2>2
<1>10. Numbered(q, v) = end
  BY <1>5, <1>7 DEF Numbered
<1>11. Sending(q, end)
  <2>1. q.snd_una + Len(q.sbuf) = end /\ Len(q.sbuf) <= SndBuf
    <3> HIDE DEF z, u
    <3> QED BY <1>1, <1>3, <1>4, <1>5, <1>6, <1>7, <1>9
  <2>2. q.rto_base => q.snd_una < q.snd_nxt
    BY <1>4, <1>7
  <2>3. \A k \in 1 .. Len(q.sbuf) : q.sbuf[k] = q.snd_una + k - 1
    BY <1>7, <1>9
  <2>4. Chain(q.slist, q.snd_una, q.snd_nxt, end)
    BY <1>7
  <2> QED BY <2>1, <2>2, <2>3, <2>4 DEF Sending
<1>12. Snd(q, v, o)
  <2>1. /\ t.snd_una <= t.snd_nxt /\ t.recover <= t.snd_nxt
        /\ t.snd_una <= o.rcv_nxt /\ t.snd_nxt <= Edge(o) /\ t.snd_una + t.snd_wnd <= Edge(o)
    BY DEF Snd
  <2>2. t.snd_nxt <= end
    BY <1>1, <1>2, <1>3, <1>5
  <2>3. q.state # "LISTEN" /\ v \in Nat /\ v + 1 < SeqSpace
    BY <1>5, <1>7
  <2>4. v > 0 \/ q.state = "ESTABLISHED" => o.rcv_nxt >= 1
    BY <1>7
  <2> HIDE DEF end
  <2> QED BY <1>7, <1>10, <1>11, <2>1, <2>2, <2>3, <2>4 DEF Snd
<1>13. Rcv(q, g, o)
  BY <1>7, ReceiveSame
<1>14. Later(t, q)
  <2>1. ASSUME NEW s \in Nat, Bound(t, s) PROVE Bound(q, s)
    BY <1>7, <2>1 DEF Bound
  <2>2. q.rcv_nxt = t.rcv_nxt /\ Edge(q) = Edge(t)
    BY <1>7 DEF SameReceive, Edge
  <2> QED BY <1>1, <1>7, <2>1, <2>2 DEF Later
<1> QED BY <1>7, <1>12, <1>13, <1>14 DEF q

-----------------------------------------------------------------------------
(* Another state                                                              *)

\* A call that may end or complete the connection, and transmits nothing new.
Ends(r, q) ==
  /\ SameReceive(r.t, q.t) /\ q.t.snd_nxt = r.t.snd_nxt
  /\ \/ q.t.state \in {r.t.state, "CLOSED"}
     \/ r.t.state = "SYN_RECEIVED" /\ q.t.state = "ESTABLISHED"

\* To end nothing but the connection is transitive.
LEMMA EndsTrans ==
  ASSUME NEW r, NEW p, NEW q, Ends(r, p), Ends(p, q), p.t.state # "CLOSED"
  PROVE  Ends(r, q)
BY DEF Ends, SameReceive

\* closedown leaves a call as good as it was.
LEMMA ClosedFine ==
  ASSUME NEW r, NEW t \in ControlBlock, NEW w, NEW g, NEW o \in ControlBlock,
         Fine(r, t, w, g, o)
  PROVE  LET q == Closedown(r)
         IN Fine(q, t, w, g, o) /\ Ends(r, q) /\ q.t.state = "CLOSED"
<1> DEFINE a == r.t
           v == [a EXCEPT !.sbuf = <<>>, !.state = "CLOSED"]
           p == With(r, v)
           q == Closedown(r)
<1>1. r \in Result /\ a \in ControlBlock /\ Snd(a, w, o) /\ Rcv(a, g, o)
  BY ResultFields DEF Fine
<1>2. q = Notify(p, "close")
  BY DEF Closedown, With
<1>3. v \in ControlBlock
  <2> DEFINE st == "CLOSED"
             b == <<>>
  <2>1. st \in {"LISTEN", "SYN_SENT", "SYN_RECEIVED", "ESTABLISHED", "CLOSED"} /\ b \in Seq(Int)
    OBVIOUS
  <2> HIDE DEF st, b, a
  <2>2. [a EXCEPT !.sbuf = b, !.state = st] \in ControlBlock
    BY <1>1, <2>1 DEF ControlBlock
  <2> QED BY <2>2 DEF st, b
<1>4. /\ v.state = "CLOSED" /\ v.slist = a.slist /\ v.snd_una = a.snd_una
      /\ v.snd_nxt = a.snd_nxt /\ v.snd_wnd = a.snd_wnd /\ v.recover = a.recover
      /\ SameReceive(a, v)
  <2> HIDE DEF a
  <2> QED BY <1>1 DEF ControlBlock, SameReceive
<1> HIDE DEF v
<1>5. /\ a.snd_nxt \in Nat /\ a.rcv_nxt \in Nat /\ Edge(a) \in Nat
  BY <1>1, BlockFields
<1>6. Snd(v, w, o)
  <2>1. w \in Nat /\ a.snd_nxt <= Numbered(a, w)
    BY <1>1 DEF Snd
  <2>2. v.snd_nxt <= Numbered(v, w)
    BY <1>4, <1>5, <2>1 DEF Numbered
  <2> QED BY <1>1, <1>4, <2>2 DEF Snd
<1>7. Rcv(v, g, o)
  BY <1>1, <1>4, ReceiveSame
<1>8. Later(a, v)
  <2>1. \A s \in Nat : s <= a.snd_nxt /\ Bound(a, s) => Bound(v, s)
    BY <1>4 DEF Bound
  <2>2. v.rcv_nxt = a.rcv_nxt /\ Edge(v) = Edge(a)
    BY <1>4 DEF SameReceive, Edge
  <2> QED BY <1>4, <1>5, <2>1, <2>2 DEF Later
<1>9. p \in Result /\ p.t = v /\ p.out = r.out
  BY <1>1, <1>3, WithIs
<1> HIDE DEF p
<1>10. Fine(p, t, w, g, o)
  BY <1>6, <1>7, <1>8, <1>9, FineMoves
<1>11. Fine(Notify(p, "close"), t, w, g, o) /\ Notify(p, "close").t = p.t
  BY <1>9, <1>10, NotifyFine, NotifyIs
<1>12. Ends(r, q) /\ q.t.state = "CLOSED"
  BY <1>2, <1>4, <1>9, <1>11 DEF Ends
<1> QED BY <1>2, <1>11, <1>12

\* The connection is established.
LEMMA EstablishedFine ==
  ASSUME NEW r, NEW t \in ControlBlock, NEW w, NEW g, NEW o \in ControlBlock,
         Fine(r, t, w, g, o), r.t.state \in {"SYN_SENT", "SYN_RECEIVED"}, o.rcv_nxt >= 1
  PROVE  LET q == Notify([r EXCEPT !.t = AdjustMTU([r.t EXCEPT !.state = "ESTABLISHED"])], "open")
         IN /\ Fine(q, t, w, g, o) /\ SameReceive(r.t, q.t) /\ q.t.state = "ESTABLISHED"
            /\ q.t.snd_una = r.t.snd_una /\ q.t.snd_nxt = r.t.snd_nxt
<1> DEFINE a == r.t
           v == AdjustMTU([a EXCEPT !.state = "ESTABLISHED"])
           p == With(r, v)
           q == Notify([r EXCEPT !.t = v], "open")
<1>1. r \in Result /\ a \in ControlBlock /\ Snd(a, w, o) /\ Rcv(a, g, o)
  BY ResultFields DEF Fine
<1>2. q = Notify(p, "open")
  BY DEF With
<1>3. v \in ControlBlock
  <2> DEFINE st == "ESTABLISHED"
  <2>1. st \in {"LISTEN", "SYN_SENT", "SYN_RECEIVED", "ESTABLISHED", "CLOSED"}
        /\ Mss \in Nat \ {0}
    BY PseudoTcpAssumption
  <2> HIDE DEF st, a
  <2>2. [a EXCEPT !.state = st, !.mss = Mss] \in ControlBlock
    BY <1>1, <2>1 DEF ControlBlock
  <2> QED BY <2>2 DEF st, AdjustMTU
<1>4. /\ v.state = "ESTABLISHED" /\ v.slist = a.slist /\ v.snd_una = a.snd_una
      /\ v.snd_nxt = a.snd_nxt /\ v.snd_wnd = a.snd_wnd /\ v.recover = a.recover
      /\ v.sbuf = a.sbuf /\ v.rto_base = a.rto_base /\ SameReceive(a, v)
  <2> HIDE DEF a
  <2> QED BY <1>1 DEF ControlBlock, SameReceive, AdjustMTU
<1> HIDE DEF v
<1>5. /\ a.snd_nxt \in Nat /\ a.rcv_nxt \in Nat /\ Edge(a) \in Nat
      /\ a.state # "LISTEN" /\ a.state # "CLOSED"
  BY <1>1, BlockFields
<1>6. Snd(v, w, o)
  <2>1. Numbered(v, w) = Numbered(a, w)
    BY <1>4, <1>5 DEF Numbered
  <2>2. Sending(v, Numbered(a, w))
    BY <1>1, <1>4, <1>5 DEF Snd, Sending
  <2> QED BY <1>1, <1>4, <2>1, <2>2 DEF Snd
<1>7. Rcv(v, g, o)
  BY <1>1, <1>4, ReceiveSame
<1>8. Later(a, v)
  <2>1. \A s \in Nat : s <= a.snd_nxt /\ Bound(a, s) => Bound(v, s)
    BY <1>4 DEF Bound
  <2>2. v.rcv_nxt = a.rcv_nxt /\ Edge(v) = Edge(a)
    BY <1>4 DEF SameReceive, Edge
  <2> QED BY <1>4, <1>5, <2>1, <2>2 DEF Later
<1>9. p \in Result /\ p.t = v /\ p.out = r.out
  BY <1>1, <1>3, WithIs
<1> HIDE DEF p
<1>10. Fine(p, t, w, g, o)
  BY <1>6, <1>7, <1>8, <1>9, FineMoves
<1>11. Fine(Notify(p, "open"), t, w, g, o) /\ Notify(p, "open").t = p.t
  BY <1>9, <1>10, NotifyFine, NotifyIs
<1> HIDE DEF q
<1>12. /\ Fine(q, t, w, g, o) /\ SameReceive(a, q.t) /\ q.t.state = "ESTABLISHED"
       /\ q.t.snd_una = a.snd_una /\ q.t.snd_nxt = a.snd_nxt
  BY <1>2, <1>4, <1>9, <1>11
<1> QED BY <1>12 DEF q, v

\* The owner is told that there is room.
LEMMA RoomForMoreFine ==
  ASSUME NEW r, NEW t \in ControlBlock, NEW w, NEW g, NEW o \in ControlBlock,
         Fine(r, t, w, g, o)
  PROVE  LET q == RoomForMore(r)
         IN Fine(q, t, w, g, o) /\ Ends(r, q) /\ q.t.state = r.t.state
<1> DEFINE q == RoomForMore(r)
           room == r.t.writeEnable /\ 2 * Len(r.t.sbuf) < SndBuf + RcvBuf
<1>1. CASE ~room
  BY <1>1 DEF RoomForMore, Ends, SameReceive
<1>2. CASE room
  <2> DEFINE off == FALSE
             a == r.t
             v == [a EXCEPT !.writeEnable = off]
             p == With(r, v)
  <2>1. q = Notify(p, "write")
    BY <1>2 DEF RoomForMore, With
  <2>2. r \in Result /\ a \in ControlBlock /\ off \in BOOLEAN
    BY ResultFields DEF Fine
  <2> HIDE DEF a, off
  <2>3. v \in ControlBlock
    BY <2>2 DEF ControlBlock
  <2>4. SameSend(a, v) /\ SameReceive(a, v)
    BY <2>2 DEF ControlBlock, SameSend, SameReceive
  <2> HIDE DEF v
  <2>5. Fine(p, t, w, g, o) /\ p.t = v /\ p \in Result
    BY <2>2, <2>3, <2>4, WithFine, WithIs DEF a
  <2> HIDE DEF p
  <2>6. Fine(Notify(p, "write"), t, w, g, o) /\ Notify(p, "write").t = p.t
    BY <2>5, NotifyFine, NotifyIs
  <2>7. Ends(r, q) /\ q.t.state = a.state
    BY <2>1, <2>4, <2>5, <2>6 DEF Ends, SameSend, a
  <2> QED BY <2>1, <2>6, <2>7 DEF a
<1> QED BY <1>1, <1>2

-----------------------------------------------------------------------------
(* Acknowledgements                                                           *)

\* While something is under way, the first segment was transmitted.
LEMMA FirstSent ==
  ASSUME NEW t \in ControlBlock, NEW w, NEW o \in ControlBlock, Snd(t, w, o),
         t.state # "CLOSED", t.snd_una < t.snd_nxt
  PROVE  1 \in 1 .. Len(t.slist) /\ t.slist[1].xmit # 0 /\ MayGo(t, 1, o)
<1> DEFINE l == t.slist
           u == t.snd_una
           n == t.snd_nxt
           e == Numbered(t, w)
<1>1. l \in Seq(Segment) /\ u \in Nat /\ n \in Nat
  BY BlockFields
<1>2. n <= e /\ Chain(l, u, n, e) /\ w \in Nat /\ u < n
  BY DEF Snd, Sending
<1>3. e \in Nat
  BY <1>2 DEF Numbered
<1> HIDE DEF l, u, n, e
<1>4. l # <<>>
  BY <1>1, <1>2, <1>3, ChainEnds
<1>5. 1 \in 1 .. Len(l)
  BY <1>1, <1>4, EmptySeq, LenProperties
<1>6. l[1].xmit \in Nat /\ Piece(l[1], u, n, e) /\ l[1].seq = u
  BY <1>1, <1>2, <1>5, ChainAt
<1>7. l[1].xmit # 0
  BY <1>1, <1>2, <1>6 DEF Piece
<1> QED BY <1>5, <1>7 DEF MayGo, l

\* What ack, with the window it opens, makes of the sender.
Acknowledged(t, ack, wnd) ==
  [t EXCEPT !.snd_wnd = wnd, !.snd_una = ack, !.rto_base = ack # t.snd_nxt, !.rx_rto = 0,
            !.sbuf = SubSeq(@, Diff(ack, t.snd_una) + 1, Len(@)),
            !.slist = Acked(@, Diff(ack, t.snd_una))]

\* The fields of a control block after an acknowledgement.
AckedIn(t, v, ack, wnd, b, l, on) ==
  /\ v \in ControlBlock /\ SameReceive(t, v)
  /\ v.state = t.state /\ v.sbuf = b /\ v.slist = l
  /\ v.snd_una = ack /\ v.snd_nxt = t.snd_nxt
  /\ v.snd_wnd = wnd /\ v.recover = t.recover /\ v.rto_base = on

\* That control block.
AckBlock(t, ack, wnd, b, l, on) ==
  [t EXCEPT !.snd_wnd = wnd, !.snd_una = ack, !.rto_base = on, !.rx_rto = 0,
            !.sbuf = b, !.slist = l]

\* An acknowledgement touches these fields alone.
LEMMA AckedBlock ==
  ASSUME NEW t \in ControlBlock, NEW ack \in Nat, NEW wnd \in Nat, NEW b \in Seq(Int),
         NEW l \in Seq(Segment), NEW on \in BOOLEAN
  PROVE  AckedIn(t, AckBlock(t, ack, wnd, b, l, on), ack, wnd, b, l, on)
<1> DEFINE v == AckBlock(t, ack, wnd, b, l, on)
<1>1. v \in ControlBlock
  BY DEF ControlBlock, AckBlock
<1>2. /\ SameReceive(t, v)
      /\ v.state = t.state /\ v.sbuf = b /\ v.slist = l
      /\ v.snd_una = ack /\ v.snd_nxt = t.snd_nxt
      /\ v.snd_wnd = wnd /\ v.recover = t.recover /\ v.rto_base = on
  BY DEF ControlBlock, SameReceive, AckBlock
<1> HIDE DEF v
<1>3. AckedIn(t, v, ack, wnd, b, l, on)
  BY <1>1, <1>2 DEF AckedIn
<1> QED BY <1>3 DEF v

\* b holds the bytes from u up to e.
Buffered(b, u, e) ==
  u + Len(b) = e /\ Len(b) <= SndBuf /\ \A k \in 1 .. Len(b) : b[k] = u + k - 1

\* What ack leaves of the buffer.
LEMMA RestOfBuffer ==
  ASSUME NEW b \in Seq(Int), NEW u \in Nat, NEW e \in Nat, Buffered(b, u, e),
         NEW a \in Nat, u <= a, a <= e
  PROVE  LET m == SubSeq(b, a - u + 1, Len(b))
         IN m \in Seq(Int) /\ Buffered(m, a, e)
<1> DEFINE z == Len(b)
           h == a - u + 1
           m == SubSeq(b, h, z)
<1>1. z \in Nat /\ SndBuf \in Nat
  BY LenProperties, PseudoTcpAssumption
<1>2. u + z = e /\ z <= SndBuf /\ \A k \in 1 .. z : b[k] = u + k - 1
  BY DEF Buffered
<1>3. \A k \in 1 .. z : b[k] \in Int
  BY ElementOfSeq
<1> HIDE DEF z
<1>4. h \in Int /\ z \in Int /\ h >= 1 /\ h <= z + 1
  BY <1>1, <1>2
<1>5. \A k \in h .. z : b[k] \in Int
  BY <1>3, <1>4
<1> HIDE DEF h
<1>6. /\ m \in Seq(Int) /\ Len(m) = IF h <= z THEN z - h + 1 ELSE 0
      /\ \A k \in 1 .. z - h + 1 : m[k] = b[h + k - 1]
  BY <1>4, <1>5, SubSeqProperties
<1> HIDE DEF m
<1>7. Len(m) = z - h + 1
  BY <1>4, <1>6
<1>8. a + Len(m) = e /\ Len(m) <= SndBuf
  BY <1>1, <1>2, <1>7 DEF h
<1>9. ASSUME NEW k \in 1 .. Len(m) PROVE m[k] = a + k - 1
  <2>1. h + k - 1 \in 1 .. z /\ m[k] = b[h + k - 1]
    BY <1>4, <1>6, <1>7
  <2> DEFINE j == h + k - 1
  <2>2. u + j - 1 = a + k - 1
    BY <1>7 DEF h
  <2> HIDE DEF j
  <2> QED BY <1>2, <2>1, <2>2 DEF j
<1>10. Buffered(m, a, e)
  BY <1>8, <1>9 DEF Buffered
<1> QED BY <1>6, <1>10 DEF m, h, z

\* What is sent after an acknowledgement of what was under way.
LEMMA AcknowledgedSnd ==
  ASSUME NEW t \in ControlBlock, NEW w, NEW o \in ControlBlock, Snd(t, w, o),
         t.state # "CLOSED", NEW ack \in Nat, NEW wnd \in Nat,
         t.snd_una < ack, ack <= t.snd_nxt, Bound(t, ack), ack <= o.rcv_nxt,
         ack + wnd <= Edge(o)
  PROVE  LET v == Acknowledged(t, ack, wnd)
         IN /\ v \in ControlBlock /\ Snd(v, w, o) /\ SameReceive(t, v) /\ Later(t, v)
            /\ v.state = t.state /\ v.snd_nxt = t.snd_nxt /\ v.snd_una = ack
            /\ v.recover = t.recover
<1> DEFINE l == t.slist
           u == t.snd_una
           n == t.snd_nxt
           b == t.sbuf
           e == Numbered(t, w)
           d == ack - u
           m == SubSeq(b, d + 1, Len(b))
           k == Acked(l, d)
           on == ack # n
           v == Acknowledged(t, ack, wnd)
<1>1. /\ l \in Seq(Segment) /\ u \in Nat /\ n \in Nat /\ b \in Seq(Int) /\ SeqSpace \in Nat
      /\ t.recover \in Nat /\ t.rcv_nxt \in Nat /\ Edge(t) \in Nat
  BY BlockFields, PseudoTcpAssumption
<1>2. n <= e /\ w \in Nat /\ w + 1 < SeqSpace /\ u < ack /\ ack <= n
  BY DEF Snd
<1>3. /\ Chain(l, u, n, e) /\ u + Len(b) = e /\ Len(b) <= SndBuf
      /\ \A j \in 1 .. Len(b) : b[j] = u + j - 1
  BY DEF Snd, Sending
<1>4. e \in Nat /\ e < SeqSpace
  BY <1>1, <1>2 DEF Numbered
<1>5. ack = n \/ ack = u \/ Starts(l, ack)
  BY <1>1, <1>2 DEF Bound
<1>6. Diff(ack, u) = d
  <2>1. ack - u \in Nat /\ ack - u < SeqSpace
    <3> HIDE DEF u, n, e
    <3> QED BY <1>1, <1>2, <1>4
  <2> QED BY <2>1, NoWrap DEF Diff
<1>7. v = AckBlock(t, ack, wnd, m, k, on)
  BY <1>6 DEF Acknowledged, AckBlock
<1>x. on \in BOOLEAN
  OBVIOUS
<1> HIDE DEF l, u, n, b, e, v, on
<1>8. /\ k \in Seq(Segment) /\ Chain(k, ack, n, e)
      /\ \A x \in Nat : x > ack /\ Starts(l, x) => Starts(k, x)
  BY <1>1, <1>2, <1>3, <1>4, <1>5, ChainFree
<1>9. /\ m \in Seq(Int) /\ ack + Len(m) = e /\ Len(m) <= SndBuf
      /\ \A j \in 1 .. Len(m) : m[j] = ack + j - 1
  <2>1. Buffered(b, u, e) /\ u <= ack /\ ack <= e
    BY <1>1, <1>2, <1>3, <1>4 DEF Buffered
  <2>2. m \in Seq(Int) /\ Buffered(m, ack, e)
    BY <1>1, <1>4, <2>1, RestOfBuffer
  <2> QED BY <2>2 DEF Buffered
<1> HIDE DEF m, k
<1>10. AckedIn(t, v, ack, wnd, m, k, on)
  BY <1>7, <1>8, <1>9, <1>x, AckedBlock
<1>11. /\ v \in ControlBlock /\ SameReceive(t, v)
       /\ v.state = t.state /\ v.sbuf = m /\ v.slist = k
       /\ v.snd_una = ack /\ v.snd_nxt = n
       /\ v.snd_wnd = wnd /\ v.recover = t.recover /\ v.rto_base = on
  BY <1>10 DEF AckedIn, n
<1>12. Snd(v, w, o)
  <2>1. Numbered(v, w) = e
    BY <1>11 DEF Numbered, e
  <2>2. on => ack < n
    BY <1>1, <1>2 DEF on
  <2>3. Sending(v, e)
    BY <1>8, <1>9, <1>11, <2>2 DEF Sending
  <2>4. /\ t.recover <= n /\ n <= Edge(o) /\ (t.state = "LISTEN" => w = 0)
        /\ w > 0 \/ t.state = "ESTABLISHED" => o.rcv_nxt >= 1
    BY DEF Snd, n
  <2> QED BY <1>2, <1>11, <2>1, <2>3, <2>4 DEF Snd
<1>13. Later(t, v)
  <2>1. ASSUME NEW s \in Nat, Bound(t, s) PROVE Bound(v, s)
    <3>1. s <= u \/ s = n \/ Starts(l, s)
      BY <2>1 DEF Bound, u, n, l
    <3>2. s <= ack \/ s = n \/ Starts(k, s)
      BY <1>1, <1>2, <1>8, <3>1
    <3> QED BY <1>11, <3>2 DEF Bound
  <2>2. v.rcv_nxt = t.rcv_nxt /\ Edge(v) = Edge(t)
    BY <1>11 DEF SameReceive, Edge
  <2> QED BY <1>1, <1>11, <2>1, <2>2 DEF Later, n
<1> QED BY <1>11, <1>12, <1>13 DEF v, n

\* A call that moves on to a later control block.
LEMMA WithMoves ==
  ASSUME NEW r, NEW t \in ControlBlock, NEW w, NEW g, NEW o \in ControlBlock,
         Fine(r, t, w, g, o), NEW v \in ControlBlock, Snd(v, w, o), Rcv(v, g, o),
         Later(r.t, v)
  PROVE  Fine(With(r, v), t, w, g, o)
<1>1. r \in Result
  BY DEF Fine
<1>2. With(r, v) \in Result /\ With(r, v).t = v /\ With(r, v).out = r.out
  BY <1>1, WithIs
<1> QED BY <1>2, FineMoves

\* The first segment once more.
LEMMA AgainFine ==
  ASSUME NEW r, NEW t \in ControlBlock, NEW w, NEW g, NEW o \in ControlBlock,
         Fine(r, t, w, g, o), r.t.state # "CLOSED", r.t.snd_una < r.t.snd_nxt,
         CanTransmit(r.t, 1)
  PROVE  LET q == Transmit(r, 1)
         IN /\ Fine(q, t, w, g, o) /\ Ends(r, q) /\ q.t.state = r.t.state
            /\ q.t.snd_una = r.t.snd_una
<1> DEFINE q == Transmit(r, 1)
<1>1. r.t \in ControlBlock /\ Snd(r.t, w, o)
  BY ResultFields DEF Fine
<1>2. 1 \in 1 .. Len(r.t.slist) /\ r.t.slist[1].xmit # 0 /\ MayGo(r.t, 1, o)
  BY <1>1, FirstSent
<1>3. /\ Fine(q, t, w, g, o) /\ OnlySends(r, q)
      /\ q.t.snd_una = r.t.snd_una
      /\ r.t.slist[1].xmit # 0 => q.t.snd_nxt = r.t.snd_nxt
  BY <1>2, TransmitFine
<1> HIDE DEF q
<1>4. Ends(r, q) /\ q.t.state = r.t.state
  BY <1>2, <1>3 DEF Ends, OnlySends
<1> QED BY <1>3, <1>4 DEF q

\* No duplicate acknowledgements.
NoDups(t) == [t EXCEPT !.dup_acks = 0]

\* Their count touches no stream.
LEMMA NoDupsIs ==
  ASSUME NEW t \in ControlBlock
  PROVE  NoDups(t) \in ControlBlock /\ SameSend(t, NoDups(t)) /\ SameReceive(t, NoDups(t))
<1>1. NoDups(t) \in ControlBlock
  BY DEF ControlBlock, NoDups
<1>2. SameSend(t, NoDups(t)) /\ SameReceive(t, NoDups(t))
  BY DEF ControlBlock, SameSend, SameReceive, NoDups
<1> QED BY <1>1, <1>2

\* An acknowledgement of something new.
LEMMA ValuableAckFine ==
  ASSUME NEW r, NEW t \in ControlBlock, NEW w, NEW g, NEW o \in ControlBlock,
         Fine(r, t, w, g, o), r.t.state # "CLOSED",
         NEW seg \in Datagram, Out(o, seg, r.t), NEW writes,
         seg.ack > r.t.snd_una, seg.ack <= r.t.snd_nxt
  PROVE  LET q == ValuableAck(r, seg, writes)
         IN Fine(q, t, w, g, o) /\ Ends(r, q)
<1> DEFINE a == r.t
           t1 == Acknowledged(a, seg.ack, seg.wnd)
           p == With(r, t1)
           recovering == t1.dup_acks >= DupAcks /\ t1.snd_una < t1.recover
           r1 == IF recovering THEN Transmit(p, 1) ELSE With(r, NoDups(t1))
           opens == r1.t.state = "SYN_RECEIVED" /\ ~seg.ctrl
           r2 == IF opens
                 THEN Notify([r1 EXCEPT !.t = AdjustMTU([r1.t EXCEPT !.state = "ESTABLISHED"])], "open")
                 ELSE r1
           q == ValuableAck(r, seg, writes)
<1>1. r \in Result /\ a \in ControlBlock /\ Snd(a, w, o) /\ Rcv(a, g, o)
  BY ResultFields DEF Fine
<1>2. /\ seg.ack \in Nat /\ seg.wnd \in Nat /\ a.snd_una \in Nat /\ o.rcv_nxt \in Nat
      /\ seg.ack <= o.rcv_nxt /\ Bound(a, seg.ack) /\ seg.ack + seg.wnd <= Edge(o)
  BY <1>1, DatagramFields, BlockFields DEF Out
<1>3. a.snd_una < seg.ack /\ o.rcv_nxt >= 1
  BY <1>2
<1>4. q = IF recovering /\ ~Goes(p, 1, writes) THEN Closedown(p) ELSE RoomForMore(r2)
  BY DEF ValuableAck, Acknowledged, With, NoDups
<1>5. /\ t1 \in ControlBlock /\ Snd(t1, w, o) /\ SameReceive(a, t1) /\ Later(a, t1)
      /\ t1.state = a.state /\ t1.snd_nxt = a.snd_nxt /\ t1.snd_una = seg.ack
      /\ t1.recover = a.recover
  BY <1>1, <1>2, <1>3, AcknowledgedSnd
<1> HIDE DEF t1
<1>6. Rcv(t1, g, o)
  BY <1>1, <1>5, ReceiveSame
<1>7. Fine(p, t, w, g, o) /\ p.t = t1 /\ p \in Result
  BY <1>1, <1>5, <1>6, WithMoves, WithIs
<1>8. p.t.state = a.state /\ p.t.state # "CLOSED" /\ Ends(r, p)
  BY <1>5, <1>7 DEF Ends
<1> HIDE DEF q, p
<1>9. CASE recovering /\ ~Goes(p, 1, writes)
  <2>1. q = Closedown(p)
    BY <1>4, <1>9
  <2>2. Fine(Closedown(p), t, w, g, o) /\ Ends(p, Closedown(p))
    BY <1>7, ClosedFine
  <2>3. Ends(r, Closedown(p))
    BY <1>8, <2>2, EndsTrans
  <2> QED BY <2>1, <2>2, <2>3 DEF q
<1>10. CASE ~(recovering /\ ~Goes(p, 1, writes))
  <2>1. q = RoomForMore(r2)
    BY <1>4, <1>10
  <2>2. Fine(r1, t, w, g, o) /\ Ends(p, r1) /\ r1.t.state = p.t.state
    <3>1. CASE recovering
      <4>1. t1.snd_una < t1.snd_nxt
        <5>1. t1.recover <= t1.snd_nxt /\ t1.snd_una < t1.recover
          BY <1>5, <3>1 DEF Snd
        <5>2. t1.recover \in Nat /\ t1.snd_nxt \in Nat /\ t1.snd_una \in Nat
          BY <1>5, BlockFields
        <5> QED BY <5>1, <5>2
      <4>2. CanTransmit(t1, 1)
        BY <1>7, <1>10, <3>1 DEF Goes
      <4>3. r1 = Transmit(p, 1)
        BY <3>1
      <4>4. p.t.snd_una < p.t.snd_nxt /\ CanTransmit(p.t, 1)
        BY <1>7, <4>1, <4>2
      <4>5. Fine(Transmit(p, 1), t, w, g, o) /\ Ends(p, Transmit(p, 1))
            /\ Transmit(p, 1).t.state = p.t.state
        BY <1>7, <1>8, <4>4, AgainFine
      <4> QED BY <4>3, <4>5
    <3>2. CASE ~recovering
      <4>1. r1 = With(p, NoDups(t1))
        BY <3>2 DEF With, p
      <4>2. NoDups(t1) \in ControlBlock /\ SameSend(t1, NoDups(t1)) /\ SameReceive(t1, NoDups(t1))
        BY <1>5, NoDupsIs
      <4> DEFINE v == NoDups(t1)
                 x == With(p, v)
      <4> HIDE DEF v
      <4>3. Fine(x, t, w, g, o) /\ x.t = v
        BY <1>7, <4>2, WithFine, WithIs DEF v
      <4>4. Ends(p, x) /\ x.t.state = p.t.state
        BY <1>7, <4>2, <4>3 DEF Ends, SameSend, v
      <4> HIDE DEF x
      <4> QED BY <4>1, <4>3, <4>4 DEF x, v
    <3> QED BY <3>1, <3>2
  <2> HIDE DEF r1, recovering
  <2>3. Ends(r, r1) /\ r1.t.state # "CLOSED"
    BY <1>8, <2>2, EndsTrans
  <2>4. Fine(r2, t, w, g, o) /\ Ends(r1, r2) /\ r2.t.state # "CLOSED"
    <3>1. CASE opens
      <4> DEFINE x == Notify([r1 EXCEPT !.t = AdjustMTU([r1.t EXCEPT !.state = "ESTABLISHED"])], "open")
      <4>1. r2 = x
        BY <3>1
      <4>2. /\ Fine(x, t, w, g, o) /\ SameReceive(r1.t, x.t) /\ x.t.state = "ESTABLISHED"
            /\ x.t.snd_nxt = r1.t.snd_nxt
        BY <1>3, <2>2, <3>1, EstablishedFine
      <4> HIDE DEF x
      <4> QED BY <3>1, <4>1, <4>2 DEF Ends
    <3>2. CASE ~opens
      BY <2>2, <2>3, <3>2 DEF Ends, SameReceive
    <3> QED BY <3>1, <3>2
  <2> HIDE DEF r2
  <2>5. Fine(RoomForMore(r2), t, w, g, o) /\ Ends(r2, RoomForMore(r2))
    BY <2>4, RoomForMoreFine
  <2>6. Ends(r, RoomForMore(r2))
    BY <2>3, <2>4, <2>5, EndsTrans
  <2> QED BY <2>1, <2>5, <2>6 DEF q
<1> QED BY <1>9, <1>10

\* As many duplicate acknowledgements.
Dup(t, d) == [t EXCEPT !.dup_acks = d]

\* Their count touches no stream.
LEMMA DupIs ==
  ASSUME NEW t \in ControlBlock, NEW d \in Nat
  PROVE  Dup(t, d) \in ControlBlock /\ SameSend(t, Dup(t, d)) /\ SameReceive(t, Dup(t, d))
<1>1. Dup(t, d) \in ControlBlock
  BY DEF ControlBlock, Dup
<1>2. SameSend(t, Dup(t, d)) /\ SameReceive(t, Dup(t, d))
  BY DEF ControlBlock, SameSend, SameReceive, Dup
<1> QED BY <1>1, <1>2

\* The window is as it was told.
Opened(t, wnd) == [t EXCEPT !.snd_wnd = wnd]

\* A window the peer has told of.
LEMMA OpenedSnd ==
  ASSUME NEW t \in ControlBlock, NEW w, NEW o, Snd(t, w, o), NEW wnd \in Nat,
         t.snd_una + wnd <= Edge(o)
  PROVE  LET v == Opened(t, wnd)
         IN /\ v \in ControlBlock /\ Snd(v, w, o) /\ SameReceive(t, v) /\ Later(t, v)
            /\ v.state = t.state /\ v.snd_nxt = t.snd_nxt /\ v.snd_una = t.snd_una
<1> DEFINE v == Opened(t, wnd)
<1>1. v \in ControlBlock
  BY DEF ControlBlock, Opened
<1>2. /\ SameReceive(t, v) /\ v.state = t.state /\ v.sbuf = t.sbuf /\ v.slist = t.slist
      /\ v.snd_una = t.snd_una /\ v.snd_nxt = t.snd_nxt /\ v.snd_wnd = wnd
      /\ v.recover = t.recover /\ v.rto_base = t.rto_base
  BY DEF ControlBlock, SameReceive, Opened
<1> HIDE DEF v
<1>3. Snd(v, w, o)
  <2>1. Numbered(v, w) = Numbered(t, w)
    BY <1>2 DEF Numbered
  <2>2. Sending(t, Numbered(t, w)) => Sending(v, Numbered(t, w))
    BY <1>2 DEF Sending
  <2> QED BY <1>2, <2>1, <2>2 DEF Snd
<1>4. Later(t, v)
  <2>1. \A s \in Nat : s <= t.snd_nxt /\ Bound(t, s) => Bound(v, s)
    BY <1>2 DEF Bound
  <2>2. v.rcv_nxt = t.rcv_nxt /\ Edge(v) = Edge(t)
    BY <1>2 DEF SameReceive, Edge
  <2>3. t.snd_nxt \in Nat /\ t.rcv_nxt \in Nat /\ Edge(t) \in Nat
    BY BlockFields
  <2> QED BY <1>2, <2>1, <2>2, <2>3 DEF Later
<1> QED BY <1>1, <1>2, <1>3, <1>4 DEF v

\* The recovery lasts until all that is under way is acknowledged.
Recovering(t) == [t EXCEPT !.recover = t.snd_nxt]

\* What the recovery remembers touches no stream.
LEMMA RecoveringSnd ==
  ASSUME NEW t \in ControlBlock, NEW w, NEW o, Snd(t, w, o)
  PROVE  LET v == Recovering(t)
         IN /\ v \in ControlBlock /\ Snd(v, w, o) /\ SameReceive(t, v) /\ Later(t, v)
            /\ v.state = t.state /\ v.snd_nxt = t.snd_nxt
<1> DEFINE v == Recovering(t)
           n == t.snd_nxt
<1>0. n \in Nat /\ t.rcv_nxt \in Nat /\ Edge(t) \in Nat
  BY BlockFields
<1>x. v = [t EXCEPT !.recover = n]
  BY DEF Recovering
<1> HIDE DEF v, n
<1>1. v \in ControlBlock
  BY <1>0, <1>x DEF ControlBlock
<1>2. /\ SameReceive(t, v) /\ v.state = t.state /\ v.sbuf = t.sbuf /\ v.slist = t.slist
      /\ v.snd_una = t.snd_una /\ v.snd_nxt = t.snd_nxt /\ v.snd_wnd = t.snd_wnd
      /\ v.recover = n /\ v.rto_base = t.rto_base
  BY <1>x DEF ControlBlock, SameReceive
<1>3. Snd(v, w, o)
  <2>1. Numbered(v, w) = Numbered(t, w)
    BY <1>2 DEF Numbered
  <2>2. Sending(t, Numbered(t, w)) => Sending(v, Numbered(t, w))
    BY <1>2 DEF Sending
  <2> QED BY <1>0, <1>2, <2>1, <2>2 DEF Snd, n
<1>4. Later(t, v)
  <2>1. \A s \in Nat : s <= t.snd_nxt /\ Bound(t, s) => Bound(v, s)
    BY <1>2 DEF Bound
  <2>2. v.rcv_nxt = t.rcv_nxt /\ Edge(v) = Edge(t)
    BY <1>2 DEF SameReceive, Edge
  <2> QED BY <1>0, <1>2, <2>1, <2>2 DEF Later, n
<1> QED BY <1>1, <1>2, <1>3, <1>4 DEF v

\* A duplicate acknowledgement, and the fast retransmission.
LEMMA DuplicateAckFine ==
  ASSUME NEW r, NEW t \in ControlBlock, NEW w, NEW g, NEW o \in ControlBlock,
         Fine(r, t, w, g, o), r.t.state # "CLOSED",
         NEW seg \in Datagram, Out(o, seg, r.t), NEW writes,
         seg.ack = r.t.snd_una
  PROVE  LET q == DuplicateAck(r, seg, writes)
         IN Fine(q, t, w, g, o) /\ Ends(r, q)
<1> DEFINE a == r.t
           t1 == Opened(a, seg.wnd)
           dup == Least(t1.dup_acks + 1, DupAcks + 1)
           t2 == Dup(t1, dup)
           p == With(r, t1)
           q == DuplicateAck(r, seg, writes)
           Good(x) == Fine(x, t, w, g, o) /\ Ends(r, x)
<1>1. r \in Result /\ a \in ControlBlock /\ Snd(a, w, o) /\ Rcv(a, g, o)
  BY ResultFields DEF Fine
<1>2. seg.wnd \in Nat /\ a.snd_una + seg.wnd <= Edge(o)
  BY DatagramFields DEF Out
<1>3. q = IF seg.data # <<>> THEN p
          ELSE IF t1.snd_una = t1.snd_nxt THEN With(p, Dup(t1, 0))
          ELSE IF dup # DupAcks THEN With(p, t2)
          ELSE IF ~Goes(With(p, t2), 1, writes) THEN Closedown(With(p, t2))
          ELSE With(Transmit(With(p, t2), 1), Recovering(Transmit(With(p, t2), 1).t))
  <2>1. With(p, Dup(t1, 0)) = With(r, Dup(t1, 0)) /\ With(p, t2) = With(r, t2)
    BY DEF With
  <2> DEFINE x == With(r, t2)
             y == Transmit(x, 1)
  <2>2. q = IF seg.data # <<>> THEN With(r, t1)
            ELSE IF t1.snd_una = t1.snd_nxt THEN With(r, Dup(t1, 0))
            ELSE IF dup # DupAcks THEN x
            ELSE IF ~Goes(x, 1, writes) THEN Closedown(x)
            ELSE [y EXCEPT !.t.recover = y.t.snd_nxt]
    BY DEF DuplicateAck, Opened, Dup, With
  <2>3. [y EXCEPT !.t.recover = y.t.snd_nxt] = With(y, Recovering(y.t))
    BY DEF With, Recovering
  <2> HIDE DEF t1, t2, dup, p, x, y, q
  <2>4. q = IF seg.data # <<>> THEN With(r, t1)
            ELSE IF t1.snd_una = t1.snd_nxt THEN With(r, Dup(t1, 0))
            ELSE IF dup # DupAcks THEN x
            ELSE IF ~Goes(x, 1, writes) THEN Closedown(x)
            ELSE With(y, Recovering(y.t))
    BY <2>2, <2>3
  <2> QED BY <2>1, <2>4 DEF x, y, p
<1>4. /\ t1 \in ControlBlock /\ Snd(t1, w, o) /\ SameReceive(a, t1) /\ Later(a, t1)
      /\ t1.state = a.state /\ t1.snd_nxt = a.snd_nxt /\ t1.snd_una = a.snd_una
  BY <1>1, <1>2, OpenedSnd
<1> HIDE DEF t1
<1>5. dup \in Nat /\ 0 \in Nat
  <2>1. t1.dup_acks \in Nat /\ DupAcks \in Nat
    BY <1>4, BlockFields, PseudoTcpAssumption
  <2> QED BY <2>1 DEF Least
<1>6. Rcv(t1, g, o)
  BY <1>1, <1>4, ReceiveSame
<1>7. Fine(p, t, w, g, o) /\ p.t = t1 /\ p \in Result
  BY <1>1, <1>4, <1>6, WithMoves, WithIs
<1>8. p.t.state # "CLOSED" /\ Ends(r, p)
  BY <1>4, <1>7 DEF Ends
<1> HIDE DEF q, p, dup
<1>9. ASSUME NEW d \in Nat
      PROVE  LET x == With(p, Dup(t1, d))
             IN Good(x) /\ x.t = Dup(t1, d) /\ x.t.state = a.state
                /\ x.t.snd_una = t1.snd_una /\ x.t.snd_nxt = t1.snd_nxt
  <2> DEFINE v == Dup(t1, d)
             x == With(p, v)
  <2>1. v \in ControlBlock /\ SameSend(t1, v) /\ SameReceive(t1, v)
    BY <1>4, <1>9, DupIs
  <2> HIDE DEF v
  <2>2. Fine(x, t, w, g, o) /\ x.t = v
    BY <1>7, <2>1, WithFine, WithIs
  <2> HIDE DEF x
  <2>3. Ends(p, x) /\ x.t.state = t1.state
        /\ x.t.snd_una = t1.snd_una /\ x.t.snd_nxt = t1.snd_nxt
    BY <1>7, <2>1, <2>2 DEF Ends, SameSend
  <2>4. Ends(r, x)
    BY <1>8, <2>3, EndsTrans
  <2> QED BY <1>4, <2>2, <2>3, <2>4 DEF x, v
<1>10. CASE seg.data # <<>>
  BY <1>3, <1>7, <1>8, <1>10 DEF q
<1>11. CASE seg.data = <<>> /\ t1.snd_una = t1.snd_nxt
  <2>1. q = With(p, Dup(t1, 0))
    BY <1>3, <1>11
  <2> QED BY <1>5, <1>9, <2>1 DEF q
<1>12. CASE seg.data = <<>> /\ t1.snd_una # t1.snd_nxt
  <2> DEFINE b == With(p, t2)
  <2>1. /\ Good(b) /\ b.t = t2 /\ b.t.state = a.state
        /\ b.t.snd_una = t1.snd_una /\ b.t.snd_nxt = t1.snd_nxt
    BY <1>5, <1>9
  <2>2. b.t.state # "CLOSED"
    BY <2>1
  <2>3. q = IF dup # DupAcks THEN b
            ELSE IF ~Goes(b, 1, writes) THEN Closedown(b)
            ELSE With(Transmit(b, 1), Recovering(Transmit(b, 1).t))
    BY <1>3, <1>12, <2>1
  <2> HIDE DEF b, t2
  <2>4. CASE dup # DupAcks
    BY <2>1, <2>3, <2>4 DEF q
  <2>5. CASE dup = DupAcks /\ ~Goes(b, 1, writes)
    <3>1. q = Closedown(b)
      BY <2>3, <2>5
    <3>2. Fine(Closedown(b), t, w, g, o) /\ Ends(b, Closedown(b))
      BY <2>1, ClosedFine
    <3>3. Ends(r, Closedown(b))
      BY <2>1, <2>2, <3>2, EndsTrans
    <3> QED BY <3>1, <3>2, <3>3 DEF q
  <2>6. CASE dup = DupAcks /\ Goes(b, 1, writes)
    <3> DEFINE c == Transmit(b, 1)
               d == With(c, Recovering(c.t))
    <3>1. q = d
      BY <2>3, <2>6
    <3>2. b.t.snd_una < b.t.snd_nxt
      <4>1. t1.snd_una <= t1.snd_nxt /\ t1.snd_una \in Nat /\ t1.snd_nxt \in Nat
        BY <1>4, BlockFields DEF Snd
      <4> QED BY <1>12, <2>1, <4>1
    <3>3. Fine(c, t, w, g, o) /\ Ends(b, c) /\ c.t.state = b.t.state
      BY <2>1, <2>2, <2>6, <3>2, AgainFine DEF Goes
    <3> HIDE DEF c
    <3>4. c \in Result /\ c.t \in ControlBlock /\ Snd(c.t, w, o) /\ Rcv(c.t, g, o)
      BY <3>3, ResultFields DEF Fine
    <3> DEFINE v == Recovering(c.t)
    <3>5. /\ v \in ControlBlock /\ Snd(v, w, o) /\ SameReceive(c.t, v) /\ Later(c.t, v)
          /\ v.state = c.t.state /\ v.snd_nxt = c.t.snd_nxt
      BY <3>4, RecoveringSnd
    <3> HIDE DEF v
    <3>6. Rcv(v, g, o)
      BY <3>4, <3>5, ReceiveSame
    <3>7. Fine(With(c, v), t, w, g, o) /\ With(c, v).t = v
      BY <3>3, <3>4, <3>5, <3>6, WithMoves, WithIs
    <3>8. Ends(c, With(c, v))
      BY <3>5, <3>7 DEF Ends
    <3>9. Ends(r, With(c, v))
      <4>1. Ends(r, c) /\ c.t.state # "CLOSED"
        BY <2>1, <2>2, <3>3, EndsTrans
      <4> QED BY <3>8, <4>1, EndsTrans
    <3> QED BY <3>1, <3>7, <3>9 DEF q, v
  <2> QED BY <2>4, <2>5, <2>6
<1> QED BY <1>10, <1>11, <1>12

\* Any acknowledgement.
LEMMA OnAckFine ==
  ASSUME NEW r, NEW t \in ControlBlock, NEW w, NEW g, NEW o \in ControlBlock,
         Fine(r, t, w, g, o), r.t.state # "CLOSED",
         NEW seg \in Datagram, Out(o, seg, r.t), NEW writes
  PROVE  LET q == OnAck(r, seg, writes)
         IN Fine(q, t, w, g, o) /\ Ends(r, q)
<1> DEFINE q == OnAck(r, seg, writes)
           valuable == seg.ack > r.t.snd_una /\ seg.ack <= r.t.snd_nxt
<1>1. q = IF valuable THEN ValuableAck(r, seg, writes)
          ELSE IF seg.ack = r.t.snd_una THEN DuplicateAck(r, seg, writes) ELSE r
  BY DEF OnAck
<1>2. CASE valuable
  <2>1. q = ValuableAck(r, seg, writes)
    BY <1>1, <1>2
  <2>2. Fine(ValuableAck(r, seg, writes), t, w, g, o) /\ Ends(r, ValuableAck(r, seg, writes))
    BY <1>2, ValuableAckFine
  <2> QED BY <2>1, <2>2
<1>3. CASE ~valuable /\ seg.ack = r.t.snd_una
  <2>1. q = DuplicateAck(r, seg, writes)
    BY <1>1, <1>3
  <2>2. Fine(DuplicateAck(r, seg, writes), t, w, g, o) /\ Ends(r, DuplicateAck(r, seg, writes))
    BY <1>3, DuplicateAckFine
  <2> QED BY <2>1, <2>2
<1>4. CASE ~valuable /\ seg.ack # r.t.snd_una
  <2>1. q = r
    BY <1>1, <1>4
  <2>2. Ends(r, r)
    BY DEF Ends, SameReceive
  <2> QED BY <2>1, <2>2
<1> QED BY <1>2, <1>3, <1>4

-----------------------------------------------------------------------------
(* A CONNECT                                                                  *)

\* The state that the CONNECT of the other end leaves.
Connected(st) ==
  IF st = "LISTEN" THEN "SYN_RECEIVED" ELSE IF st = "SYN_SENT" THEN "ESTABLISHED" ELSE st

\* The first byte to send.
Opening == <<Connection>>

\* The first segment of a connection is its control message.
LEMMA ListeningQueue ==
  ASSUME NEW t \in ControlBlock, NEW w, NEW g, NEW o \in ControlBlock,
         Snd(t, w, o), Rcv(t, g, o), t.state = "LISTEN",
         NEW st \in {"SYN_SENT", "SYN_RECEIVED"}
  PROVE  LET q == Queue(Entered(t, st), Opening, TRUE)
         IN /\ q \in ControlBlock /\ q.state = st /\ SameReceive(t, q)
            /\ Snd(q, w, o) /\ Rcv(q, g, o) /\ Later(t, q)
            /\ q.snd_nxt = t.snd_nxt
<1> DEFINE ctrl == TRUE
           st2 == st
           q == Queue(Entered(t, st), Opening, ctrl)
<1>1. w = 0 /\ Numbered(t, w) = 0 /\ Sending(t, 0)
  BY DEF Snd, Numbered
<1>2. Opening \in Seq(Int) /\ Len(Opening) = 1 /\ Opening[1] = 0
  BY DEF Opening, Connection
<1>3. Taken(t, Opening) = 1
  <2>1. t.snd_una + Len(t.sbuf) = 0
    BY <1>1 DEF Sending
  <2>2. Len(t.sbuf) = 0
    BY <2>1, BlockFields
  <2>3. SndBuf \in Nat \ {0}
    BY PseudoTcpAssumption
  <2> QED BY <1>2, <2>2, <2>3 DEF Taken, Least
<1>4. 1 < SeqSpace
  <2>1. SndBuf \in Nat \ {0} /\ RcvBuf \in Nat \ {0} /\ SeqSpace \in Nat /\ SndBuf + RcvBuf < SeqSpace
    BY PseudoTcpAssumption
  <2> QED BY <2>1
<1>5. \A k \in 1 .. Len(Opening) : Opening[k] = Numbered(t, w) + k - 1
  BY <1>1, <1>2
<1> DEFINE v == w
<1>6. /\ v \in Nat /\ v + 1 = Numbered(t, w) + Taken(t, Opening) /\ v + 1 < SeqSpace
      /\ Taken(t, Opening) \in Nat \ {0}
      /\ ~(v > 0 \/ st = "ESTABLISHED")
  BY <1>1, <1>3, <1>4
<1>7. ctrl \in BOOLEAN /\ (ctrl <=> Numbered(t, w) = 0) /\ (ctrl => Taken(t, Opening) = 1)
  BY <1>1, <1>3
<1>8. st \in {"SYN_SENT", "SYN_RECEIVED", "ESTABLISHED"} /\ t.state # "CLOSED"
  OBVIOUS
<1>9. q = Queue(Entered(t, st), Opening, TRUE)
  OBVIOUS
<1> HIDE DEF ctrl, v
<1>10. /\ q \in ControlBlock /\ q.state = st /\ SameReceive(t, q)
       /\ Snd(q, v, o) /\ Rcv(q, g, o) /\ Later(t, q)
       /\ q.snd_una = t.snd_una /\ q.snd_nxt = t.snd_nxt
  <2>1. GoesOn(t, w, st, Opening, ctrl, v, o)
    BY <1>5, <1>6, <1>7, <1>8 DEF GoesOn
  <2> QED BY <1>2, <1>6, <1>7, <1>8, <2>1, QueueSnd
<1> HIDE DEF q
<1> QED BY <1>9, <1>10 DEF v

\* The control message of the peer.
LEMMA OnConnectFine ==
  ASSUME NEW r, NEW t \in ControlBlock, NEW w, NEW g, NEW o \in ControlBlock,
         Fine(r, t, w, g, o), r.t.state = "SYN_SENT" => o.rcv_nxt >= 1
  PROVE  LET q == OnConnect(r)
         IN /\ Fine(q, t, w, g, o) /\ SameReceive(r.t, q.t)
            /\ q.t.snd_nxt = r.t.snd_nxt /\ q.t.state = Connected(r.t.state)
<1> DEFINE a == r.t
           q == OnConnect(r)
<1>1. r \in Result /\ a \in ControlBlock /\ Snd(a, w, o) /\ Rcv(a, g, o)
  BY ResultFields DEF Fine
<1>2. CASE a.state = "LISTEN"
  <2> DEFINE st == "SYN_RECEIVED"
             v == Queue(Entered(a, st), Opening, TRUE)
             p == With(r, v)
  <2>1. q = p
    BY <1>2 DEF OnConnect, Entered, Opening, With
  <2>2. st \in {"SYN_SENT", "SYN_RECEIVED"}
    OBVIOUS
  <2> HIDE DEF st, q
  <2>3. /\ v \in ControlBlock /\ v.state = st /\ SameReceive(a, v)
        /\ Snd(v, w, o) /\ Rcv(v, g, o) /\ Later(a, v)
        /\ v.snd_nxt = a.snd_nxt
    BY <1>1, <1>2, <2>2, ListeningQueue
  <2> HIDE DEF v
  <2>4. Fine(p, t, w, g, o) /\ p.t = v
    BY <1>1, <2>3, WithMoves, WithIs
  <2> HIDE DEF p
  <2>5. /\ Fine(q, t, w, g, o) /\ SameReceive(a, q.t)
        /\ q.t.snd_nxt = a.snd_nxt /\ q.t.state = "SYN_RECEIVED"
    BY <2>1, <2>3, <2>4 DEF st
  <2> QED BY <1>2, <2>5 DEF q, Connected
<1>3. CASE a.state = "SYN_SENT"
  <2> DEFINE x == Notify([r EXCEPT !.t = AdjustMTU([r.t EXCEPT !.state = "ESTABLISHED"])], "open")
  <2>1. q = x
    BY <1>3 DEF OnConnect
  <2>2. /\ Fine(x, t, w, g, o) /\ SameReceive(a, x.t) /\ x.t.state = "ESTABLISHED"
        /\ x.t.snd_nxt = a.snd_nxt
    BY <1>3, EstablishedFine
  <2> HIDE DEF x
  <2> QED BY <1>3, <2>1, <2>2 DEF Connected
<1>4. CASE a.state # "LISTEN" /\ a.state # "SYN_SENT"
  <2>1. q = r
    BY <1>4 DEF OnConnect
  <2> QED BY <1>4, <2>1 DEF Connected, SameReceive
<1> QED BY <1>2, <1>3, <1>4

-----------------------------------------------------------------------------
(* What was received ahead                                                    *)

\* Only what is received is another.
Received(t, v, g, o) ==
  /\ v \in ControlBlock /\ SameSend(t, v) /\ v.shutdown = t.shutdown
  /\ Rcv(v, g, o) /\ Later(t, v) /\ v.rcv_nxt >= 1

\* n more bytes are in order.
Advanced(t, n) ==
  [t EXCEPT !.rlen = @ + n, !.rcv_nxt = @ + n, !.rcv_wnd = @ - n]

\* The bytes from a up to e are in m_rbuf, of which g was read.
Holds(t, g, a, e) ==
  \A k \in 1 .. RcvBuf : Len(g) + k >= a /\ Len(g) + k < e => t.rbuf[k] = Len(g) + k

\* The fields of a control block after n bytes were received in order.
AdvancedIn(t, q, n) ==
  /\ q \in ControlBlock /\ SameSend(t, q) /\ q.shutdown = t.shutdown
  /\ q.rbuf = t.rbuf /\ q.rlist = t.rlist
  /\ q.rlen = t.rlen + n /\ q.rcv_nxt = t.rcv_nxt + n /\ q.rcv_wnd = t.rcv_wnd - n

\* They are the only ones.
LEMMA AdvancedBlock ==
  ASSUME NEW t \in ControlBlock, NEW n \in Nat, n <= t.rcv_wnd
  PROVE  AdvancedIn(t, Advanced(t, n), n)
<1> DEFINE a == t.rlen + n
           b == t.rcv_nxt + n
           c == t.rcv_wnd - n
           q == [t EXCEPT !.rlen = a, !.rcv_nxt = b, !.rcv_wnd = c]
<1>1. a \in Nat /\ b \in Nat /\ c \in Nat
  BY BlockFields
<1>2. Advanced(t, n) = q
  BY DEF Advanced
<1> HIDE DEF a, b, c
<1>3. q \in ControlBlock
  BY <1>1 DEF ControlBlock
<1>4. q.rlen = a /\ q.rcv_nxt = b /\ q.rcv_wnd = c
  BY DEF ControlBlock
<1>5. /\ SameSend(t, q) /\ q.shutdown = t.shutdown
      /\ q.rbuf = t.rbuf /\ q.rlist = t.rlist
  BY DEF ControlBlock, SameSend
<1> HIDE DEF q
<1> QED BY <1>2, <1>3, <1>4, <1>5 DEF AdvancedIn, a, b, c

\* Bytes that are in their place join those received in order.
LEMMA AdvancedRcv ==
  ASSUME NEW t \in ControlBlock, NEW g, NEW o \in ControlBlock, NEW w,
         Rcv(t, g, o), Snd(o, w, t), t.shutdown = "NONE", t.rcv_nxt >= 1,
         NEW n \in Nat, t.rcv_nxt + n <= o.snd_nxt, Bound(o, t.rcv_nxt + n),
         Holds(t, g, t.rcv_nxt, t.rcv_nxt + n)
  PROVE  Received(t, Advanced(t, n), g, o)
<1> DEFINE q == Advanced(t, n)
<1>1. /\ t.rlen \in Nat /\ t.rcv_nxt \in Nat /\ t.rcv_wnd \in Nat /\ o.snd_nxt \in Nat
      /\ RcvBuf \in Nat /\ t.rlen + t.rcv_wnd <= RcvBuf
      /\ Len(g) \in Nat /\ g \in Seq(Int)
  <2>1. g \in Seq(Int) /\ t.rlen + t.rcv_wnd <= RcvBuf
    BY DEF Rcv
  <2> QED BY <2>1, BlockFields, PseudoTcpAssumption, LenProperties
<1>2. n <= t.rcv_wnd
  <2>1. o.snd_nxt <= t.rcv_nxt + t.rcv_wnd
    BY DEF Snd, Edge
  <2> QED BY <1>1, <2>1
<1>3. AdvancedIn(t, q, n)
  BY <1>2, AdvancedBlock
<1> HIDE DEF q
<1>4. /\ q \in ControlBlock /\ SameSend(t, q) /\ q.shutdown = "NONE"
      /\ q.rbuf = t.rbuf /\ q.rlist = t.rlist
      /\ q.rlen = t.rlen + n /\ q.rcv_nxt = t.rcv_nxt + n /\ q.rcv_wnd = t.rcv_wnd - n
  BY <1>3 DEF AdvancedIn
<1>5. Kept(t, g, o)
  BY DEF Rcv
<1>6. Kept(q, g, o)
  <2>0. /\ Len(g) + t.rlen = IF t.rcv_nxt = 0 THEN 0 ELSE t.rcv_nxt - 1
        /\ \A k \in 1 .. t.rlen : t.rbuf[k] = Len(g) + k
    BY <1>5 DEF Kept
  <2>1. Len(g) + t.rlen = t.rcv_nxt - 1 /\ \A k \in 1 .. t.rlen : t.rbuf[k] = Len(g) + k
    <3>1. t.rcv_nxt # 0
      BY <1>1
    <3> QED BY <2>0, <3>1
  <2>2. Len(g) + q.rlen = q.rcv_nxt - 1 /\ q.rcv_nxt # 0
    <3>1. q.rlen = t.rlen + n /\ q.rcv_nxt = t.rcv_nxt + n /\ n \in Nat
      BY <1>4
    <3>2. q.rcv_nxt # 0
      BY <1>1, <3>1
    <3>3. Len(g) + t.rlen = t.rcv_nxt - 1
      BY <2>1
    <3>4. Len(g) + (t.rlen + n) = (t.rcv_nxt + n) - 1
      <4> DEFINE a == Len(g)
                 b == t.rlen
                 c == t.rcv_nxt
      <4>1. a \in Nat /\ b \in Nat /\ c \in Nat /\ a + b = c - 1
        BY <1>1, <3>3
      <4> HIDE DEF a, b, c
      <4>2. a + (b + n) = (c + n) - 1
        BY <4>1
      <4> QED BY <4>2 DEF a, b, c
    <3> QED BY <3>1, <3>2, <3>4
  <2>3. ASSUME NEW k \in 1 .. q.rlen PROVE q.rbuf[k] = Len(g) + k
    <3>1. CASE k <= t.rlen
      <4>1. k \in 1 .. t.rlen
        BY <1>1, <1>4, <3>1
      <4> QED BY <1>4, <2>1, <4>1
    <3>2. CASE k > t.rlen
      <4>1. k \in Nat /\ k <= t.rlen + n /\ Len(g) + t.rlen = t.rcv_nxt - 1
        BY <1>1, <1>4, <2>1
      <4>2. k \in 1 .. RcvBuf
        BY <1>1, <1>2, <3>2, <4>1
      <4>3. Len(g) + k >= t.rcv_nxt /\ Len(g) + k < t.rcv_nxt + n
        BY <1>1, <3>2, <4>1
      <4> QED BY <1>4, <4>2, <4>3 DEF Holds
    <3>3. k \in Nat
      BY <1>1, <1>4
    <3> QED BY <1>1, <3>1, <3>2, <3>3
  <2> HIDE DEF Bound
  <2> QED BY <1>4, <1>5, <2>2, <2>3 DEF Kept
<1>7. Rcv(q, g, o)
  <2>1. q.rlen + q.rcv_wnd <= RcvBuf /\ q.rcv_nxt <= o.snd_nxt /\ Bound(o, q.rcv_nxt)
    BY <1>1, <1>4
  <2> QED BY <1>6, <2>1 DEF Rcv
<1>8. Later(t, q)
  <2>1. Edge(q) = Edge(t) /\ t.rcv_nxt <= q.rcv_nxt /\ Edge(t) \in Nat
    BY <1>1, <1>4 DEF Edge
  <2>2. t.snd_nxt \in Nat
    BY BlockFields
  <2> QED BY <1>4, <2>1, <2>2 DEF Later, SameSend, Bound
<1>9. q.rcv_nxt >= 1
  BY <1>1, <1>4
<1> QED BY <1>4, <1>7, <1>8, <1>9 DEF Received, q

\* To receive is transitive.
LEMMA ReceivedTrans ==
  ASSUME NEW t \in ControlBlock, NEW u, NEW v, NEW g, NEW o \in ControlBlock,
         Received(t, u, g, o), Received(u, v, g, o)
  PROVE  Received(t, v, g, o)
<1>1. /\ u \in ControlBlock /\ v \in ControlBlock /\ Later(t, u) /\ Later(u, v)
  BY DEF Received
<1>2. Later(t, v)
  BY <1>1, LaterTrans
<1> QED BY <1>2 DEF Received, SameSend

\* To receive includes nothing.
LEMMA ReceivedSelf ==
  ASSUME NEW t \in ControlBlock, NEW g, NEW o, Rcv(t, g, o), t.rcv_nxt >= 1
  PROVE  Received(t, t, g, o)
BY LaterSelf DEF Received, SameSend

\* What was received ahead, as a list.
Listed(t, l) == [t EXCEPT !.rlist = l]

\* The fields of a control block with another m_rlist.
ListedIn(t, q, l) ==
  /\ q \in ControlBlock /\ SameSend(t, q) /\ q.shutdown = t.shutdown
  /\ q.rbuf = t.rbuf /\ q.rlist = l
  /\ q.rlen = t.rlen /\ q.rcv_nxt = t.rcv_nxt /\ q.rcv_wnd = t.rcv_wnd

\* They are the only ones.
LEMMA ListedBlock ==
  ASSUME NEW t \in ControlBlock, NEW l \in Seq(Ahead)
  PROVE  ListedIn(t, Listed(t, l), l)
<1> DEFINE q == Listed(t, l)
<1>1. q \in ControlBlock
  BY DEF ControlBlock, Listed
<1>2. q.rlist = l
  BY DEF ControlBlock, Listed
<1>3. /\ SameSend(t, q) /\ q.shutdown = t.shutdown /\ q.rbuf = t.rbuf
      /\ q.rlen = t.rlen /\ q.rcv_nxt = t.rcv_nxt /\ q.rcv_wnd = t.rcv_wnd
  BY DEF ControlBlock, Listed, SameSend
<1> HIDE DEF q
<1> QED BY <1>1, <1>2, <1>3 DEF ListedIn, q

\* x is kept in its place, and was sent.
Placed(t, g, o, x) ==
  /\ x.seq + x.len <= o.snd_nxt /\ Bound(o, x.seq + x.len)
  /\ Holds(t, g, x.seq, x.seq + x.len)

\* A list of what was listed or is in its place.
LEMMA ListedRcv ==
  ASSUME NEW t \in ControlBlock, NEW g, NEW o \in ControlBlock,
         Rcv(t, g, o), t.rcv_nxt >= 1, t.shutdown = "NONE",
         NEW l \in Seq(Ahead),
         \A j \in 1 .. Len(l) :
           \/ Placed(t, g, o, l[j])
           \/ \E i \in 1 .. Len(t.rlist) : l[j] = t.rlist[i]
  PROVE  Received(t, Listed(t, l), g, o)
<1> DEFINE q == Listed(t, l)
<1>1. ListedIn(t, q, l)
  BY ListedBlock
<1> HIDE DEF q
<1>2. /\ q \in ControlBlock /\ SameSend(t, q) /\ q.shutdown = t.shutdown
      /\ q.rbuf = t.rbuf /\ q.rlist = l
      /\ q.rlen = t.rlen /\ q.rcv_nxt = t.rcv_nxt /\ q.rcv_wnd = t.rcv_wnd
  BY <1>1 DEF ListedIn
<1>3. Kept(t, g, o) /\ t.rcv_nxt # 0
  BY BlockFields DEF Rcv
<1>4. \A j \in 1 .. Len(l) : Placed(t, g, o, l[j])
  BY <1>3 DEF Kept, Placed, Holds
<1>5. Kept(q, g, o)
  BY <1>2, <1>3, <1>4 DEF Kept, Placed, Holds
<1>6. Rcv(q, g, o)
  BY <1>2, <1>5 DEF Rcv
<1>7. Later(t, q)
  BY <1>2, BlockFields DEF Later, SameSend, Bound, Edge
<1> QED BY <1>2, <1>6, <1>7 DEF Received, q

\* Recover: what was received ahead and is now in order.
LEMMA RecoverFirstIs ==
  ASSUME NEW t \in ControlBlock, NEW g, NEW o \in ControlBlock, NEW w,
         Rcv(t, g, o), Snd(o, w, t), t.shutdown = "NONE", t.rcv_nxt >= 1
  PROVE  Received(t, RecoverFirst(t), g, o)
<1>1. /\ t.rlist \in Seq(Ahead) /\ t.rcv_nxt \in Nat /\ o.snd_nxt \in Nat
      /\ o.snd_nxt < SeqSpace /\ Kept(t, g, o) /\ t.rcv_nxt # 0
  <2>1. o.snd_nxt <= Numbered(o, w) /\ w \in Nat /\ w + 1 < SeqSpace
    BY DEF Snd
  <2>2. Numbered(o, w) <= w + 1 /\ Numbered(o, w) \in Nat
    BY <2>1 DEF Numbered
  <2>3. SeqSpace \in Nat
    BY PseudoTcpAssumption
  <2>4. t.rlist \in Seq(Ahead) /\ t.rcv_nxt \in Nat /\ o.snd_nxt \in Nat
    BY BlockFields
  <2> QED BY <2>1, <2>2, <2>3, <2>4 DEF Rcv
<1>2. CASE t.rlist = <<>> \/ Head(t.rlist).seq > t.rcv_nxt
  <2>1. RecoverFirst(t) = t
    BY <1>2 DEF RecoverFirst
  <2> QED BY <2>1, ReceivedSelf
<1>3. CASE ~(t.rlist = <<>> \/ Head(t.rlist).seq > t.rcv_nxt)
  <2> DEFINE x == Head(t.rlist)
             u == Recover(t, x)
             e == x.seq + x.len
             n == e - t.rcv_nxt
  <2>1. RecoverFirst(t) = Listed(u, Tail(u.rlist))
    BY <1>3 DEF RecoverFirst, Listed
  <2>2. x = t.rlist[1] /\ 1 \in 1 .. Len(t.rlist) /\ x \in Ahead
    BY <1>1, <1>3, HeadTailProperties, EmptySeq, ElementOfSeq, LenProperties
  <2>3. x.seq \in Nat /\ x.len \in Nat
    BY <2>2 DEF Ahead
  <2>4. e <= o.snd_nxt /\ Bound(o, e) /\ Holds(t, g, x.seq, e)
    BY <1>1, <2>2 DEF Kept, Holds
  <2>5. Add(x.seq, x.len) = e /\ e \in Nat
    <3>0. e \in Nat /\ SeqSpace \in Nat
      BY <2>3, PseudoTcpAssumption
    <3>1. e \in Nat /\ e < SeqSpace
      <4> HIDE DEF e
      <4> QED BY <1>1, <2>4, <3>0
    <3> QED BY <3>1, NoWrap DEF Add
  <2>6. x.seq <= t.rcv_nxt
    BY <1>1, <1>3, <2>3
  <2> HIDE DEF x
  <2>7. Received(t, u, g, o) /\ u.rlist = t.rlist /\ u.shutdown = t.shutdown
    <3>1. CASE e <= t.rcv_nxt
      <4>1. u = t
        BY <2>5, <3>1 DEF Recover
      <4> QED BY <4>1, ReceivedSelf
    <3>2. CASE ~(e <= t.rcv_nxt)
      <4>1. n \in Nat /\ t.rcv_nxt + n = e
        BY <1>1, <2>5, <3>2
      <4>2. Diff(e, t.rcv_nxt) = n
        <5>1. n < SeqSpace
          BY <1>1, <2>4, <2>5, <4>1, PseudoTcpAssumption
        <5> QED BY <4>1, <5>1, NoWrap DEF Diff
      <4>3. Add(t.rcv_nxt, n) = e
        BY <2>5, <1>1, <2>4, <4>1, NoWrap, PseudoTcpAssumption DEF Add
      <4>4. u = Advanced(t, n)
        BY <2>5, <3>2, <4>1, <4>2, <4>3 DEF Recover, Advanced
      <4>5. Holds(t, g, t.rcv_nxt, e)
        <5> SUFFICES ASSUME NEW k \in 1 .. RcvBuf, Len(g) + k >= t.rcv_nxt, Len(g) + k < e
                     PROVE  t.rbuf[k] = Len(g) + k
          BY DEF Holds
        <5>1. Len(g) \in Nat /\ k \in Nat
          <6>1. g \in Seq(Int) /\ RcvBuf \in Nat
            BY PseudoTcpAssumption DEF Rcv
          <6> QED BY <6>1, LenProperties
        <5>2. Len(g) + k >= x.seq
          BY <1>1, <2>3, <2>6, <5>1
        <5> QED BY <2>4, <5>2 DEF Holds
      <4> HIDE DEF n, u, e
      <4>6. t.rcv_nxt + n <= o.snd_nxt /\ Bound(o, t.rcv_nxt + n) /\ Holds(t, g, t.rcv_nxt, t.rcv_nxt + n)
        BY <2>4, <4>1, <4>5
      <4>7. Received(t, Advanced(t, n), g, o)
        BY <1>1, <4>1, <4>6, AdvancedRcv
      <4>8. n <= t.rcv_wnd
        <5>1. o.snd_nxt <= t.rcv_nxt + t.rcv_wnd /\ t.rcv_wnd \in Nat
          BY BlockFields DEF Snd, Edge
        <5> QED BY <1>1, <4>1, <4>6, <5>1
      <4>9. AdvancedIn(t, Advanced(t, n), n)
        BY <4>1, <4>8, AdvancedBlock
      <4> QED BY <4>4, <4>7, <4>9 DEF AdvancedIn
    <3> QED BY <3>1, <3>2
  <2> HIDE DEF u
  <2>8. u \in ControlBlock /\ Rcv(u, g, o) /\ u.rcv_nxt >= 1 /\ u.shutdown = "NONE"
    BY <2>7 DEF Received
  <2> DEFINE l == Tail(u.rlist)
  <2>9. l \in Seq(Ahead) /\ \A j \in 1 .. Len(l) : \E i \in 1 .. Len(u.rlist) : l[j] = u.rlist[i]
    <3>1. u.rlist \in Seq(Ahead) /\ u.rlist # <<>>
      BY <1>1, <1>3, <2>7
    <3>2. /\ l \in Seq(Ahead) /\ Len(l) = Len(u.rlist) - 1 /\ Len(u.rlist) \in Nat
          /\ \A j \in 1 .. Len(l) : l[j] = u.rlist[j + 1]
      BY <3>1, HeadTailProperties, LenProperties
    <3>3. ASSUME NEW j \in 1 .. Len(l) PROVE j + 1 \in 1 .. Len(u.rlist)
      BY <3>2
    <3> QED BY <3>2, <3>3
  <2> HIDE DEF l
  <2>10. Received(u, Listed(u, l), g, o)
    BY <2>8, <2>9, ListedRcv
  <2>11. Received(t, Listed(u, l), g, o)
    BY <2>7, <2>10, ReceivedTrans
  <2> QED BY <2>1, <2>11 DEF l
<1> QED BY <1>2, <1>3

\* What was received ahead joins what was received in order, as far as it follows.
LEMMA GatheredIs ==
  ASSUME NEW t \in ControlBlock, NEW g, NEW o \in ControlBlock, NEW w,
         Rcv(t, g, o), Snd(o, w, t), t.shutdown = "NONE", t.rcv_nxt >= 1
  PROVE  Received(t, Gathered(t), g, o)
<1> DEFINE n == Len(t.rlist)
           S == {v \in ControlBlock : Received(t, v, g, o)}
           F == [v \in S |-> RecoverFirst(v)]
           Runs(f) == f = [turn \in 0 .. n |-> IF turn = 0 THEN t ELSE RecoverFirst(f[turn - 1])]
           after == CHOOSE f : Runs(f)
<1>1. Gathered(t) = after[n]
  BY DEF Gathered
<1>2. n \in Nat /\ t \in S
  BY BlockFields, ReceivedSelf
<1>3. ASSUME NEW v \in S PROVE RecoverFirst(v) \in S
  <2>1. v \in ControlBlock /\ Received(t, v, g, o)
    OBVIOUS
  <2> HIDE DEF S
  <2>2. Rcv(v, g, o) /\ v.shutdown = "NONE" /\ v.rcv_nxt >= 1 /\ Later(t, v)
    BY <2>1 DEF Received
  <2>3. Snd(o, w, v)
    BY <2>1, <2>2, SndLater
  <2>4. Received(v, RecoverFirst(v), g, o)
    BY <2>1, <2>2, <2>3, RecoverFirstIs
  <2>5. Received(t, RecoverFirst(v), g, o)
    BY <2>1, <2>4, ReceivedTrans
  <2>6. RecoverFirst(v) \in ControlBlock
    BY <2>4 DEF Received
  <2> QED BY <2>5, <2>6 DEF S
<1> HIDE DEF n
<1>4. F \in [S -> S]
  <2> HIDE DEF S
  <2> QED BY <1>3
<1>5. PICK f : Loop(f, S, F, t, n)
  <2> HIDE DEF F, S
  <2> QED BY <1>2, <1>4, LoopExists
<1> HIDE DEF S
<1>6. Runs(f)
  <2>1. ASSUME NEW k \in 0 .. n
        PROVE  f[k] = IF k = 0 THEN t ELSE RecoverFirst(f[k - 1])
    <3>1. CASE k = 0
      BY <1>5, <3>1 DEF Loop
    <3>2. CASE k # 0
      <4>1. k \in 1 .. n /\ k - 1 \in 0 .. n
        BY <1>2, <3>2
      <4> QED BY <1>5, <3>2, <4>1 DEF Loop
    <3> QED BY <3>1, <3>2
  <2>2. f = [k \in 0 .. n |-> f[k]]
    BY <1>5 DEF Loop
  <2> QED BY <2>1, <2>2
<1>7. Runs(after)
  BY <1>6
<1>8. \A k \in 0 .. n : after[k] = IF k = 0 THEN t ELSE RecoverFirst(after[k - 1])
  BY <1>7
<1> HIDE DEF after
<1>9. <<n, after[n]>> \in (0 .. n) \X S
  <2> DEFINE P == (0 .. n) \X S
  <2>1. <<0, after[0]>> \in P
    BY <1>2, <1>8
  <2>2. ASSUME NEW k \in 1 .. n, <<k - 1, after[k - 1]>> \in P PROVE <<k, after[k]>> \in P
    <3>1. k \in 0 .. n /\ k # 0
      BY <1>2
    <3>2. after[k - 1] \in S
      BY <2>2
    <3>3. after[k] = RecoverFirst(after[k - 1])
      BY <1>8, <3>1
    <3>4. after[k] \in S
      BY <1>3, <3>2, <3>3
    <3> QED BY <3>1, <3>4
  <2> HIDE DEF P
  <2>3. <<n, after[n]>> \in P
    BY <1>2, <2>1, <2>2, LoopKeeps
  <2> QED BY <2>3 DEF P
<1>10. after[n] \in S
  BY <1>9
<1> QED BY <1>1, <1>10 DEF S, n

-----------------------------------------------------------------------------
(* What a packet brings                                                       *)

\* m is new data that o sent, and t has room for it.
Fresh(m, t, o) ==
  /\ m.seq \in Nat /\ m.data \in Seq(Int)
  /\ m.data # <<>> =>
       /\ m.seq >= t.rcv_nxt
       /\ m.seq + Len(m.data) <= o.snd_nxt /\ Bound(o, m.seq + Len(m.data))
       /\ \A k \in 1 .. Len(m.data) : m.data[k] = m.seq + k - 1

\* What is sent, stays below SeqSpace and in the other's window.
LEMMA SentInRange ==
  ASSUME NEW t \in ControlBlock, NEW o \in ControlBlock, NEW w, Snd(o, w, t)
  PROVE  /\ o.snd_nxt \in Nat /\ t.rcv_nxt \in Nat /\ t.rcv_wnd \in Nat /\ t.rlen \in Nat
         /\ o.snd_nxt < SeqSpace /\ SeqSpace \in Nat
         /\ o.snd_nxt <= t.rcv_nxt + t.rcv_wnd
         /\ o.snd_nxt >= 2 => t.rcv_nxt >= 1
<1>1. /\ o.snd_nxt \in Nat /\ t.rcv_nxt \in Nat /\ t.rcv_wnd \in Nat /\ t.rlen \in Nat
      /\ SeqSpace \in Nat
  BY BlockFields, PseudoTcpAssumption
<1>2. /\ w \in Nat /\ w + 1 < SeqSpace /\ o.snd_nxt <= Numbered(o, w)
      /\ o.snd_nxt <= t.rcv_nxt + t.rcv_wnd /\ (w > 0 => t.rcv_nxt >= 1)
  BY DEF Snd, Edge
<1>3. Numbered(o, w) \in Nat /\ Numbered(o, w) <= w + 1
  BY <1>2 DEF Numbered
<1> QED BY <1>1, <1>2, <1>3

\* What is left of a segment: what was received is cut from its front; from its end nothing.
LEMMA TrimmedIs ==
  ASSUME NEW t \in ControlBlock, NEW g, NEW o \in ControlBlock, NEW w, Snd(o, w, t),
         Rcv(t, g, o), NEW seg \in Datagram, Out(o, seg, t)
  PROVE  LET m == Trimmed(t, seg)
         IN /\ Fresh(m, t, o)
            /\ m.data # <<>> => (seg.ctrl => Len(m.data) = 1 /\ m.seq = 0)
                                /\ (~seg.ctrl => m.seq >= 1)
            /\ m.data = <<>> => (seg.ctrl => t.rcv_nxt >= 1)
<1> DEFINE old == IF seg.seq < t.rcv_nxt THEN Diff(t.rcv_nxt, seg.seq) ELSE 0
           seq == IF old < Len(seg.data) THEN Add(seg.seq, old) ELSE seg.seq
           data == SubSeq(seg.data, old + 1, Len(seg.data))
           end == Diff(Add(seq, Len(data)), t.rcv_nxt)
           excess == IF end > RcvBuf - t.rlen THEN end - (RcvBuf - t.rlen) ELSE 0
           part == SubSeq(data, 1, Len(data) - excess)
           m == Trimmed(t, seg)
<1>1. m = [seq |-> seq, data |-> part]
  BY DEF Trimmed
<1> HIDE DEF m, seq, part
<1>2. m.seq = seq /\ m.data = part
  BY <1>1
<1> USE DEF seq, part
<1>3. /\ o.snd_nxt \in Nat /\ t.rcv_nxt \in Nat /\ t.rcv_wnd \in Nat /\ t.rlen \in Nat
      /\ o.snd_nxt < SeqSpace /\ SeqSpace \in Nat
      /\ o.snd_nxt <= t.rcv_nxt + t.rcv_wnd
  BY SentInRange
<1>4. /\ seg.seq \in Nat /\ seg.data \in Seq(Int) /\ Len(seg.data) \in Nat /\ seg.ctrl \in BOOLEAN
  BY DatagramFields
<1>5. RcvBuf \in Nat /\ t.rlen + t.rcv_wnd <= RcvBuf /\ t.rcv_nxt <= o.snd_nxt
  BY PseudoTcpAssumption DEF Rcv
<1>6. old \in Nat /\ (seg.seq < t.rcv_nxt => old = t.rcv_nxt - seg.seq)
  <2>1. CASE seg.seq < t.rcv_nxt
    <3> DEFINE d == t.rcv_nxt - seg.seq
    <3>1. d \in Nat /\ d < SeqSpace
      BY <1>3, <1>4, <1>5, <2>1
    <3>2. Diff(t.rcv_nxt, seg.seq) = d
      BY <3>1, NoWrap DEF Diff
    <3> QED BY <2>1, <3>1, <3>2
  <2>2. CASE ~(seg.seq < t.rcv_nxt)
    BY <2>2
  <2> QED BY <2>1, <2>2
<1>7. seg.seq >= t.rcv_nxt => old = 0
  BY <1>3, <1>4
<1> HIDE DEF old
<1>8. CASE ~(old < Len(seg.data))
  <2>1. data = <<>>
    BY <1>4, <1>6, <1>8, SubSeqProperties
  <2>2. seq = seg.seq
    BY <1>8
  <2> HIDE DEF data, seq
  <2>3. end \in Nat /\ Len(data) = 0
    <3>1. Len(data) = 0
      BY <2>1
    <3>2. Add(seq, Len(data)) \in Nat
      <4>1. seq + Len(data) \in Int
        BY <1>4, <2>2, <3>1
      <4> QED BY <4>1, SeqNumber DEF Add
    <3>3. Add(seq, Len(data)) - t.rcv_nxt \in Int
      BY <1>3, <3>2
    <3> QED BY <3>1, <3>3, SeqNumber DEF Diff
  <2> HIDE DEF end
  <2>4. excess \in Nat
    BY <1>3, <1>5, <2>3
  <2> HIDE DEF excess
  <2>5. part = <<>>
    <3>1. Len(data) - excess <= 0 /\ Len(data) - excess \in Int
      <4> DEFINE a == Len(data)
      <4>1. a = 0
        BY <2>3
      <4> HIDE DEF a
      <4>2. a - excess <= 0 /\ a - excess \in Int
        BY <2>4, <4>1
      <4> QED BY <4>2 DEF a
    <3>2. Len(data) - excess < 1
      BY <3>1
    <3> QED BY <3>1, <3>2, SubSeqEmpty
  <2> HIDE DEF part, m
  <2>6. Fresh(m, t, o) /\ m.data = <<>>
    BY <1>2, <1>4, <2>2, <2>5 DEF Fresh
  <2>7. seg.ctrl => t.rcv_nxt >= 1
    <3> HAVE seg.ctrl
    <3>1. Len(seg.data) = 1 /\ seg.seq = 0
      BY DEF Out
    <3>2. old # 0
      BY <1>8, <3>1
    <3> QED BY <1>3, <1>4, <1>7, <3>1, <3>2
  <2> QED BY <2>6, <2>7 DEF m
<1>9. CASE old < Len(seg.data)
  <2> DEFINE s == seg.seq + old
             e == seg.seq + Len(seg.data)
  <2>1. /\ e <= o.snd_nxt /\ Bound(o, e) /\ seg.data # <<>>
        /\ \A k \in 1 .. Len(seg.data) : seg.data[k] = seg.seq + k - 1
        /\ seg.ctrl <=> seg.seq = 0
        /\ seg.ctrl => Len(seg.data) = 1
    <3>1. seg.data # <<>>
      BY <1>4, <1>6, <1>9, EmptySeq
    <3> QED BY <3>1 DEF Out
  <2>2. seq = s /\ s \in Nat /\ s >= t.rcv_nxt /\ s < e
    <3>1. s \in Nat /\ s < e /\ e \in Nat
      BY <1>4, <1>6, <1>9
    <3>2. s < SeqSpace
      BY <1>3, <2>1, <3>1
    <3>3. Add(seg.seq, old) = s
      BY <3>1, <3>2, NoWrap DEF Add
    <3>4. s >= t.rcv_nxt
      <4>1. CASE seg.seq < t.rcv_nxt
        BY <1>3, <1>4, <1>6, <4>1
      <4>2. CASE ~(seg.seq < t.rcv_nxt)
        BY <1>3, <1>4, <1>6, <4>2
      <4> QED BY <4>1, <4>2
    <3> QED BY <1>9, <3>1, <3>3, <3>4
  <2> DEFINE n == Len(seg.data) - old
  <2>3. /\ data \in Seq(Int) /\ Len(data) = n /\ n \in Nat \ {0}
        /\ \A k \in 1 .. n : data[k] = seg.data[old + k]
    <3>1. \A k \in old + 1 .. Len(seg.data) : seg.data[k] \in Int
      BY <1>4, <1>6, ElementOfSeq
    <3>2. n \in Nat \ {0} /\ old + 1 \in Int /\ Len(seg.data) \in Int
      BY <1>4, <1>6, <1>9
    <3>3. data \in Seq(Int)
      BY <3>1, <3>2, <1>4, SubSeqProperties
    <3>4. Len(data) = n
      BY <1>4, <1>6, <1>9, SubSeqProperties
    <3>5. \A k \in 1 .. n : data[k] = seg.data[old + k]
      BY <1>4, <1>6, <1>9, <3>2, SubSeqProperties
    <3> QED BY <3>2, <3>3, <3>4, <3>5
  <2>4. s + n = e
    BY <1>4, <1>6
  <2> HIDE DEF data
  <2>5. \A k \in 1 .. n : data[k] = s + k - 1
    <3> SUFFICES ASSUME NEW k \in 1 .. n PROVE data[k] = s + k - 1
      OBVIOUS
    <3>1. old + k \in 1 .. Len(seg.data) /\ k \in Nat
      BY <1>4, <1>6
    <3> DEFINE h == old + k
               q == seg.seq
    <3>2. h \in 1 .. Len(seg.data) /\ data[k] = seg.data[h] /\ q \in Nat /\ old \in Nat
      BY <1>4, <1>6, <2>3, <3>1
    <3>3. s + k - 1 = q + h - 1
      <4>1. s = q + old
        OBVIOUS
      <4> HIDE DEF s, q
      <4> QED BY <3>1, <3>2, <4>1
    <3> HIDE DEF h
    <3>4. seg.data[h] = q + h - 1
      BY <2>1, <3>2
    <3> QED BY <3>2, <3>3, <3>4
  <2>6. e \in Nat /\ e < SeqSpace /\ e >= t.rcv_nxt
    <3>1. e \in Nat
      BY <1>4
    <3> HIDE DEF e, s
    <3> QED BY <1>3, <2>1, <2>2, <3>1
  <2> HIDE DEF s, e, n, seq
  <2>7. end = e - t.rcv_nxt
    <3>1. Add(seq, Len(data)) = e
      BY <2>2, <2>3, <2>4, <2>6, NoWrap DEF Add
    <3>2. e - t.rcv_nxt \in Nat /\ e - t.rcv_nxt < SeqSpace
      BY <1>3, <2>6
    <3> QED BY <3>1, <3>2, NoWrap DEF Diff
  <2> HIDE DEF end
  <2>8. excess = 0
    BY <1>3, <1>5, <2>1, <2>6, <2>7
  <2> HIDE DEF excess
  <2>9. part = data
    <3>1. Len(data) - excess = n
      BY <2>3, <2>8
    <3>2. part = SubSeq(data, 1, Len(data))
      BY <2>3, <3>1
    <3>3. SubSeq(data, 1, Len(data)) = data
      <4>1. Len(data) \in Nat /\ data \in Seq(Int)
        BY <2>3, LenProperties
      <4> QED BY <4>1, SubSeqFull
    <3> QED BY <3>2, <3>3
  <2> HIDE DEF part
  <2>10. Fresh(m, t, o)
    <3>1. m.seq = s /\ m.data = data
      BY <1>2, <2>2, <2>9
    <3> HIDE DEF m
    <3>2. m.seq + Len(m.data) = e
      BY <2>3, <2>4, <3>1
    <3> QED BY <2>1, <2>2, <2>3, <2>5, <3>1, <3>2 DEF Fresh
  <2>11. seg.ctrl => Len(data) = 1 /\ s = 0
    <3> HAVE seg.ctrl
    <3>1. Len(seg.data) = 1 /\ seg.seq = 0
      BY <2>1
    <3>2. old = 0
      BY <1>6, <1>9, <3>1
    <3> QED BY <2>3, <3>1, <3>2 DEF s, n
  <2>12. ~seg.ctrl => s >= 1
    <3> HAVE ~seg.ctrl
    <3>1. seg.seq # 0
      BY <2>1
    <3> QED BY <1>4, <1>6, <3>1 DEF s
  <2> HIDE DEF m
  <2>13. data # <<>>
    BY <2>3, EmptySeq DEF n
  <2> QED BY <1>2, <2>2, <2>9, <2>10, <2>11, <2>12, <2>13 DEF m
<1> QED BY <1>4, <1>6, <1>8, <1>9

\* What Stored does: the segment is in its place.
StoredAs(t, q, m, g, o) ==
  /\ Received(t, q, g, o) /\ q.rlist = t.rlist /\ q.rcv_nxt = t.rcv_nxt
  /\ Holds(q, g, m.seq, m.seq + Len(m.data))

\* The bytes of m in their place; what was there is what should be.
LEMMA StoredIs ==
  ASSUME NEW t \in ControlBlock, NEW g, NEW o \in ControlBlock, NEW w,
         Snd(o, w, t), Rcv(t, g, o), t.shutdown = "NONE", t.rcv_nxt >= 1,
         NEW m, Fresh(m, t, o), m.data # <<>>
  PROVE  StoredAs(t, Stored(t, m), m, g, o)
<1> DEFINE d == m.seq - t.rcv_nxt
           f == t.rlen + d
           n == Len(m.data)
           buf == [i \in 1 .. RcvBuf |->
                     IF i - f \in DOMAIN m.data THEN m.data[i - f] ELSE t.rbuf[i]]
           q == [t EXCEPT !.rbuf = buf]
<1>1. /\ o.snd_nxt \in Nat /\ t.rcv_nxt \in Nat /\ t.rcv_wnd \in Nat /\ t.rlen \in Nat
      /\ o.snd_nxt < SeqSpace /\ SeqSpace \in Nat
      /\ o.snd_nxt <= t.rcv_nxt + t.rcv_wnd
  BY SentInRange
<1>2. /\ m.seq \in Nat /\ m.data \in Seq(Int) /\ n \in Nat /\ m.seq >= t.rcv_nxt
      /\ m.seq + n <= o.snd_nxt /\ DOMAIN m.data = 1 .. n
      /\ \A k \in 1 .. n : m.data[k] = m.seq + k - 1
  <2>1. m.data \in Seq(Int)
    BY DEF Fresh
  <2>2. n \in Nat /\ DOMAIN m.data = 1 .. n
    BY <2>1, LenProperties
  <2> QED BY <2>1, <2>2 DEF Fresh
<1>3. g \in Seq(Int) /\ Len(g) \in Nat /\ Len(g) + t.rlen = t.rcv_nxt - 1 /\ Kept(t, g, o)
      /\ t.rlen + t.rcv_wnd <= RcvBuf /\ RcvBuf \in Nat
  <2>1. g \in Seq(Int) /\ Kept(t, g, o) /\ t.rlen + t.rcv_wnd <= RcvBuf
    BY DEF Rcv
  <2>2. Len(g) + t.rlen = IF t.rcv_nxt = 0 THEN 0 ELSE t.rcv_nxt - 1
    BY <2>1 DEF Kept
  <2>3. t.rcv_nxt # 0
    BY <1>1
  <2> QED BY <2>1, <2>2, <2>3, LenProperties, PseudoTcpAssumption
<1>4. Stored(t, m) = q
  <2>1. d \in Nat /\ d < SeqSpace
    BY <1>1, <1>2
  <2>2. Diff(m.seq, t.rcv_nxt) = d
    BY <2>1, NoWrap DEF Diff
  <2> QED BY <2>2 DEF Stored
<1> DEFINE a == m.seq
           c == t.rcv_nxt
           lg == Len(g)
           rl == t.rlen
<1>5. ASSUME NEW i \in 1 .. RcvBuf, i - f \in 1 .. n
      PROVE  m.data[i - f] = lg + i /\ lg + i >= a /\ lg + i < a + n
  <2>1. m.data[i - f] = a + (i - f) - 1
    BY <1>2, <1>5
  <2>2. a \in Nat /\ c \in Nat /\ lg \in Nat /\ rl \in Nat /\ n \in Nat /\ lg + rl = c - 1 /\ i \in Nat
        /\ f = rl + (a - c) /\ i - f >= 1 /\ i - f <= n
    BY <1>1, <1>2, <1>3, <1>5
  <2> HIDE DEF a, c, lg, rl, f, n
  <2>3. a + (i - f) - 1 = lg + i /\ lg + i >= a /\ lg + i < a + n
    BY <2>2
  <2> QED BY <2>1, <2>3
<1>6. ASSUME NEW i \in 1 .. RcvBuf, lg + i >= a, lg + i < a + n
      PROVE  i - f \in 1 .. n
  <2>1. a \in Nat /\ c \in Nat /\ lg \in Nat /\ rl \in Nat /\ n \in Nat /\ lg + rl = c - 1 /\ i \in Nat
        /\ f = rl + (a - c)
    BY <1>1, <1>2, <1>3
  <2> HIDE DEF a, c, lg, rl, f, n
  <2> QED BY <1>6, <2>1
<1>7. buf \in [1 .. RcvBuf -> Int]
  <2>1. \A i \in 1 .. RcvBuf : t.rbuf[i] \in Int
    BY BlockFields
  <2>2. \A k \in DOMAIN m.data : m.data[k] \in Int
    BY <1>2, ElementOfSeq
  <2> HIDE DEF f
  <2> QED BY <2>1, <2>2
<1>8. \A i \in 1 .. RcvBuf : \/ buf[i] = lg + i
                             \/ buf[i] = t.rbuf[i] /\ ~(lg + i >= a /\ lg + i < a + n)
  <2> SUFFICES ASSUME NEW i \in 1 .. RcvBuf
               PROVE  \/ buf[i] = lg + i
                      \/ buf[i] = t.rbuf[i] /\ ~(lg + i >= a /\ lg + i < a + n)
    OBVIOUS
  <2>1. CASE i - f \in 1 .. n
    <3>1. buf[i] = m.data[i - f]
      <4> HIDE DEF f, n
      <4> QED BY <1>2, <2>1
    <3>2. m.data[i - f] = lg + i
      BY <1>5, <2>1
    <3> HIDE DEF buf
    <3> QED BY <3>1, <3>2
  <2>2. CASE i - f \notin 1 .. n
    <3>1. buf[i] = t.rbuf[i]
      <4> HIDE DEF f, n
      <4> QED BY <1>2, <2>2
    <3>2. ~(lg + i >= a /\ lg + i < a + n)
      BY <1>6, <2>2
    <3> HIDE DEF buf, lg, a, n
    <3> QED BY <3>1, <3>2
  <2> QED BY <2>1, <2>2
<1> HIDE DEF buf
<1>9. q \in ControlBlock
  BY <1>7 DEF ControlBlock
<1>10. q.rbuf = buf
  BY DEF ControlBlock
<1>11. /\ SameSend(t, q) /\ q.shutdown = t.shutdown /\ q.rlist = t.rlist
       /\ q.rlen = t.rlen /\ q.rcv_nxt = t.rcv_nxt /\ q.rcv_wnd = t.rcv_wnd
  BY DEF ControlBlock, SameSend
<1> HIDE DEF q
<1>12. \A i \in 1 .. RcvBuf : \/ q.rbuf[i] = Len(g) + i
                              \/ q.rbuf[i] = t.rbuf[i] /\ ~(Len(g) + i >= m.seq /\ Len(g) + i < m.seq + Len(m.data))
  BY <1>8, <1>10
<1>13. Holds(q, g, m.seq, m.seq + Len(m.data))
  BY <1>12 DEF Holds
<1> HIDE DEF d, f, n, a, c, lg, rl
<1>14. Kept(q, g, o)
  <2>1. ASSUME NEW k \in 1 .. t.rlen PROVE q.rbuf[k] = Len(g) + k
    <3>1. k \in 1 .. RcvBuf
      BY <1>1, <1>3
    <3>2. t.rbuf[k] = Len(g) + k
      BY <1>3 DEF Kept
    <3> QED BY <1>12, <3>1, <3>2
  <2>2. ASSUME NEW i \in 1 .. Len(t.rlist)
        PROVE  Placed(q, g, o, t.rlist[i])
    <3>1. Placed(t, g, o, t.rlist[i])
      BY <1>3 DEF Kept, Placed, Holds
    <3> QED BY <1>12, <3>1 DEF Placed, Holds
  <2>3. /\ Len(g) + q.rlen = IF q.rcv_nxt = 0 THEN 0 ELSE q.rcv_nxt - 1
        /\ q.rcv_nxt = 0 => q.rlist = <<>>
    BY <1>3, <1>11 DEF Kept
  <2>4. \A k \in 1 .. q.rlen : q.rbuf[k] = Len(g) + k
    BY <1>11, <2>1
  <2>5. \A i \in 1 .. Len(q.rlist) : Placed(q, g, o, q.rlist[i])
    BY <1>11, <2>2
  <2> QED BY <2>3, <2>4, <2>5 DEF Kept, Placed, Holds
<1>15. Rcv(q, g, o)
  BY <1>11, <1>14 DEF Rcv
<1>16. Later(t, q)
  BY <1>11, BlockFields DEF Later, SameSend, Bound, Edge
<1>17. Received(t, q, g, o)
  BY <1>9, <1>11, <1>15, <1>16 DEF Received
<1> QED BY <1>4, <1>11, <1>13, <1>17 DEF StoredAs

\* x takes its place in the list.
LEMMA InsertIs ==
  ASSUME NEW l \in Seq(Ahead), NEW i \in 1 .. Len(l) + 1, NEW x \in Ahead
  PROVE  LET r == InsertAt(l, i, x)
         IN /\ r \in Seq(Ahead)
            /\ \A j \in 1 .. Len(r) : r[j] = x \/ \E k \in 1 .. Len(l) : r[j] = l[k]
<1> DEFINE a == SubSeq(l, 1, i - 1)
           b == <<x>>
           c == SubSeq(l, i, Len(l))
           S == {y \in Ahead : y = x \/ \E k \in 1 .. Len(l) : y = l[k]}
           r == InsertAt(l, i, x)
<1>1. r = a \o b \o c
  BY DEF InsertAt
<1>2. Len(l) \in Nat /\ i \in Nat /\ \A k \in 1 .. Len(l) : l[k] \in S
  <2>1. Len(l) \in Nat /\ \A k \in 1 .. Len(l) : l[k] \in Ahead
    BY LenProperties, ElementOfSeq
  <2> QED BY <2>1
<1>3. x \in S
  OBVIOUS
<1> HIDE DEF S
<1>4. a \in Seq(S)
  <2>1. i - 1 \in Int /\ \A k \in 1 .. i - 1 : l[k] \in S
    BY <1>2
  <2> QED BY <2>1, SubSeqProperties
<1>5. c \in Seq(S)
  <2>1. i \in Int /\ Len(l) \in Int /\ \A k \in i .. Len(l) : l[k] \in S
    BY <1>2
  <2> QED BY <2>1, SubSeqProperties
<1>6. b \in Seq(S)
  BY <1>3
<1> HIDE DEF a, b, c
<1>7. r \in Seq(S)
  <2>1. a \o b \in Seq(S)
    BY <1>4, <1>6, ConcatProperties
  <2> QED BY <1>1, <1>5, <2>1, ConcatProperties
<1> HIDE DEF r
<1>8. \A j \in 1 .. Len(r) : r[j] \in S
  BY <1>7, ElementOfSeq
<1>9. S \subseteq Ahead
  BY DEF S
<1>10. r \in Seq(Ahead)
  BY <1>7, <1>9, SeqMonotonic
<1> QED BY <1>8, <1>10 DEF r, S

\* The flags of attemptSend.
SendFlags == {"none", "delayed", "immediate"}

\* Only what is received is another.
Taking(t, v, g, o) ==
  /\ v \in ControlBlock /\ SameSend(t, v) /\ v.shutdown = t.shutdown
  /\ Rcv(v, g, o) /\ Later(t, v)

\* Bytes that are not kept: the CONNECT, or what comes after a close.
Told(t, e) == [t EXCEPT !.rcv_nxt = e]

\* What a closed end is told of, it counts as received and drops.
LEMMA ToldIs ==
  ASSUME NEW t \in ControlBlock, NEW g, NEW o \in ControlBlock, Rcv(t, g, o),
         NEW e \in Nat, e >= t.rcv_nxt, e <= o.snd_nxt, Bound(o, e),
         t.shutdown = "NONE" => t.rcv_nxt = 0 /\ e = 1
  PROVE  Taking(t, Told(t, e), g, o) /\ Told(t, e).rcv_nxt = e
<1> DEFINE q == Told(t, e)
<1>1. q \in ControlBlock
  BY DEF Told, ControlBlock
<1>2. q.rcv_nxt = e
  BY DEF Told, ControlBlock
<1>3. /\ SameSend(t, q) /\ q.shutdown = t.shutdown /\ q.rbuf = t.rbuf
      /\ q.rlen = t.rlen /\ q.rlist = t.rlist /\ q.rcv_wnd = t.rcv_wnd
  BY DEF Told, ControlBlock, SameSend
<1> HIDE DEF q
<1>4. Later(t, q)
  <2>1. t.rcv_nxt \in Nat /\ t.rcv_wnd \in Nat /\ t.snd_nxt \in Nat
    BY BlockFields
  <2>2. Edge(t) <= Edge(q)
    BY <1>2, <1>3, <2>1 DEF Edge
  <2> QED BY <1>2, <1>3, <2>1, <2>2 DEF Later, SameSend, Bound
<1>5. q.shutdown = "NONE" => Kept(q, g, o)
  <2> HAVE q.shutdown = "NONE"
  <2>1. Kept(t, g, o) /\ t.rcv_nxt = 0 /\ e = 1
    BY <1>3 DEF Rcv
  <2>2. Len(g) + t.rlen = 0 /\ t.rlist = <<>>
    BY <2>1 DEF Kept
  <2>3. Len(g) + q.rlen = IF q.rcv_nxt = 0 THEN 0 ELSE q.rcv_nxt - 1
    BY <1>2, <1>3, <2>1, <2>2
  <2>4. Len(q.rlist) = 0
    BY <1>3, <2>2
  <2>5. \A k \in 1 .. q.rlen : q.rbuf[k] = Len(g) + k
    BY <1>3, <2>1 DEF Kept
  <2> QED BY <1>3, <2>2, <2>3, <2>4, <2>5 DEF Kept
<1>6. Rcv(q, g, o)
  BY <1>2, <1>3, <1>5 DEF Rcv
<1> QED BY <1>1, <1>2, <1>3, <1>4, <1>6 DEF Taking, q

\* What x, the outcome of Receive, makes of t.
Receives(t, x, g, o) ==
  /\ Taking(t, x.t, g, o) /\ x.new \in BOOLEAN /\ x.sflags \in SendFlags

\* What receiving yields.
Outcome(t, new, sflags) == [t |-> t, new |-> new, sflags |-> sflags]

\* Its control block is one that received.
LEMMA OutcomeIs ==
  ASSUME NEW t, NEW v, NEW g, NEW o, Taking(t, v, g, o), NEW new \in BOOLEAN,
         NEW sflags \in SendFlags
  PROVE  Receives(t, Outcome(v, new, sflags), g, o) /\ Outcome(v, new, sflags).t = v
BY DEF Outcome, Receives

\* To take in includes nothing.
LEMMA TakingSelf ==
  ASSUME NEW t \in ControlBlock, NEW g, NEW o, Rcv(t, g, o)
  PROVE  Taking(t, t, g, o)
BY LaterSelf DEF Taking, SameSend

\* What is received is taken in.
LEMMA ReceivedTaking ==
  ASSUME NEW t, NEW v, NEW g, NEW o, Received(t, v, g, o)
  PROVE  Taking(t, v, g, o)
BY DEF Received, Taking

\* New data that is in order.
LEMMA InOrderIs ==
  ASSUME NEW t \in ControlBlock, NEW g, NEW o \in ControlBlock, NEW w,
         Snd(o, w, t), Rcv(t, g, o), t.shutdown = "NONE", t.rcv_nxt >= 1,
         NEW m, Fresh(m, t, o), m.data # <<>>, m.seq = t.rcv_nxt
  PROVE  Received(t, Gathered(Advanced(Stored(t, m), Len(m.data))), g, o)
<1> DEFINE s == Stored(t, m)
           n == Len(m.data)
           v == Advanced(s, n)
<1>1. StoredAs(t, s, m, g, o)
  BY StoredIs
<1> HIDE DEF s
<1>2. Received(t, s, g, o) /\ s.rcv_nxt = t.rcv_nxt /\ Holds(s, g, s.rcv_nxt, s.rcv_nxt + n)
  BY <1>1 DEF StoredAs
<1>3. s \in ControlBlock /\ Rcv(s, g, o) /\ s.shutdown = "NONE" /\ s.rcv_nxt >= 1 /\ Later(t, s)
  BY <1>2 DEF Received
<1>4. Snd(o, w, s)
  BY <1>3, SndLater
<1>5. n \in Nat /\ s.rcv_nxt + n <= o.snd_nxt /\ Bound(o, s.rcv_nxt + n)
  <2>1. m.data \in Seq(Int)
    BY DEF Fresh
  <2> QED BY <1>2, <2>1, LenProperties DEF Fresh
<1> HIDE DEF n
<1>6. Received(s, v, g, o)
  BY <1>2, <1>3, <1>4, <1>5, AdvancedRcv
<1> HIDE DEF v
<1>7. v \in ControlBlock /\ Rcv(v, g, o) /\ v.shutdown = "NONE" /\ v.rcv_nxt >= 1 /\ Later(s, v)
  BY <1>3, <1>6 DEF Received
<1>8. Snd(o, w, v)
  BY <1>3, <1>4, <1>7, SndLater
<1>9. Received(v, Gathered(v), g, o)
  BY <1>7, <1>8, GatheredIs
<1>10. Received(t, v, g, o)
  BY <1>2, <1>6, ReceivedTrans
<1>11. Received(t, Gathered(v), g, o)
  BY <1>9, <1>10, ReceivedTrans
<1> QED BY <1>11 DEF v, s, n

\* Data ahead of what is in order.
LEMMA AheadIs ==
  ASSUME NEW t \in ControlBlock, NEW g, NEW o \in ControlBlock, NEW w,
         Snd(o, w, t), Rcv(t, g, o), t.shutdown = "NONE", t.rcv_nxt >= 1,
         NEW m, Fresh(m, t, o), m.data # <<>>,
         NEW i \in 1 .. Len(t.rlist) + 1, NEW x \in Ahead,
         x.seq = m.seq, x.len = Len(m.data)
  PROVE  Received(t, Listed(Stored(t, m), InsertAt(Stored(t, m).rlist, i, x)), g, o)
<1> DEFINE s == Stored(t, m)
           l == InsertAt(s.rlist, i, x)
<1>1. StoredAs(t, s, m, g, o)
  BY StoredIs
<1> HIDE DEF s
<1>2. Received(t, s, g, o) /\ s.rlist = t.rlist /\ Holds(s, g, m.seq, m.seq + Len(m.data))
  BY <1>1 DEF StoredAs
<1>3. s \in ControlBlock /\ Rcv(s, g, o) /\ s.shutdown = "NONE" /\ s.rcv_nxt >= 1
  BY <1>2 DEF Received
<1>4. s.rlist \in Seq(Ahead) /\ i \in 1 .. Len(s.rlist) + 1
  BY <1>2, <1>3, BlockFields
<1>5. /\ l \in Seq(Ahead)
      /\ \A j \in 1 .. Len(l) : l[j] = x \/ \E k \in 1 .. Len(s.rlist) : l[j] = s.rlist[k]
  BY <1>4, InsertIs
<1> HIDE DEF l
<1>6. Placed(s, g, o, x)
  BY <1>2 DEF Placed, Fresh
<1>7. \A j \in 1 .. Len(l) : \/ Placed(s, g, o, l[j])
                             \/ \E k \in 1 .. Len(s.rlist) : l[j] = s.rlist[k]
  BY <1>5, <1>6
<1>8. Received(s, Listed(s, l), g, o)
  BY <1>3, <1>5, <1>7, ListedRcv
<1>9. Received(t, Listed(s, l), g, o)
  BY <1>2, <1>8, ReceivedTrans
<1> QED BY <1>9 DEF s, l

\* A segment is received, put ahead, dropped or counted only.
LEMMA ReceiveIs ==
  ASSUME NEW t \in ControlBlock, NEW g, NEW o \in ControlBlock, NEW w,
         Snd(o, w, t), Rcv(t, g, o), NEW m, Fresh(m, t, o), NEW ctrl \in BOOLEAN,
         m.data # <<>> => /\ ctrl => Len(m.data) = 1 /\ m.seq = 0
                          /\ ~ctrl => m.seq >= 1,
         NEW sflags \in SendFlags
  PROVE  LET x == Receive(t, m, ctrl, sflags)
         IN /\ Receives(t, x, g, o)
            /\ ctrl /\ m.data # <<>> => x.t.rcv_nxt >= 1
<1> DEFINE x == Receive(t, m, ctrl, sflags)
           n == Len(m.data)
           offset == Diff(m.seq, t.rcv_nxt)
           stored == Stored(t, m)
           next == Gathered([stored EXCEPT !.rlen = @ + n, !.rcv_nxt = Add(@, n),
                                           !.rcv_wnd = @ - n])
           later == {i \in DOMAIN t.rlist : t.rlist[i].seq >= m.seq}
           place == IF later = {} THEN Len(t.rlist) + 1 ELSE Min(later)
           entry == [seq |-> m.seq, len |-> n]
           told == Told(t, Add(t.rcv_nxt, n))
           flags == IF next.rcv_nxt = Add(t.rcv_nxt, n) THEN sflags ELSE "immediate"
           listed == Listed(stored, InsertAt(stored.rlist, place, entry))
           no == FALSE
           yes == TRUE
<1>1. x = IF n = 0 THEN Outcome(t, no, sflags)
          ELSE IF ctrl \/ t.shutdown # "NONE"
          THEN Outcome(IF offset = 0 THEN told ELSE t, no, sflags)
          ELSE IF offset = 0 THEN Outcome(next, yes, flags)
          ELSE Outcome(listed, no, sflags)
  BY DEF Receive, Outcome, Told, Listed
<1>2. /\ o.snd_nxt \in Nat /\ t.rcv_nxt \in Nat /\ t.rcv_wnd \in Nat
      /\ o.snd_nxt < SeqSpace /\ SeqSpace \in Nat
      /\ o.snd_nxt >= 2 => t.rcv_nxt >= 1
  BY SentInRange
<1>3. m.data \in Seq(Int) /\ n \in Nat /\ m.seq \in Nat /\ (n = 0 <=> m.data = <<>>)
  <2>1. m.data \in Seq(Int) /\ m.seq \in Nat
    BY DEF Fresh
  <2> QED BY <2>1, LenProperties, EmptySeq
<1>4. no \in BOOLEAN /\ yes \in BOOLEAN
  OBVIOUS
<1>5. Taking(t, t, g, o)
  BY TakingSelf
<1> HIDE DEF no, yes, x
<1>6. CASE n = 0
  <2>1. x = Outcome(t, no, sflags)
    BY <1>1, <1>6
  <2> QED BY <1>3, <1>4, <1>5, <1>6, <2>1, OutcomeIs DEF x
<1>7. CASE n # 0
  <2>1. m.data # <<>> /\ n >= 1
    BY <1>3, <1>7
  <2> DEFINE e == m.seq + n
  <2>2. e \in Nat /\ e <= o.snd_nxt /\ Bound(o, e) /\ m.seq >= t.rcv_nxt
    BY <1>3, <2>1 DEF Fresh
  <2>3. offset = m.seq - t.rcv_nxt /\ (offset = 0 => m.seq = t.rcv_nxt /\ Add(t.rcv_nxt, n) = e)
    <3>1. m.seq - t.rcv_nxt \in Nat /\ m.seq - t.rcv_nxt < SeqSpace
      BY <1>2, <1>3, <2>2
    <3>2. offset = m.seq - t.rcv_nxt
      BY <3>1, NoWrap DEF Diff
    <3>3. e % SeqSpace = e
      BY <1>2, <2>2, NoWrap
    <3> HIDE DEF offset
    <3> QED BY <1>2, <1>3, <3>2, <3>3 DEF Add
  <2> HIDE DEF offset, e
  <2>4. CASE ctrl \/ t.shutdown # "NONE"
    <3>1. CASE offset = 0
      <4>1. x = Outcome(told, no, sflags) /\ told = Told(t, e)
        BY <1>1, <1>7, <2>3, <2>4, <3>1
      <4>2. t.shutdown = "NONE" => t.rcv_nxt = 0 /\ e = 1
        <5> HAVE t.shutdown = "NONE"
        <5>1. n = 1 /\ m.seq = 0
          BY <2>1, <2>4
        <5> HIDE DEF n
        <5> QED BY <2>3, <3>1, <5>1 DEF e
      <4>3. e >= t.rcv_nxt
        BY <1>2, <1>3, <2>2 DEF e
      <4>4. Taking(t, Told(t, e), g, o) /\ Told(t, e).rcv_nxt = e
        BY <2>2, <4>2, <4>3, ToldIs
      <4> HIDE DEF told
      <4>5. Receives(t, x, g, o) /\ x.t.rcv_nxt = e
        BY <1>4, <4>1, <4>4, OutcomeIs
      <4>6. e >= 1
        BY <1>3, <2>1 DEF e
      <4> QED BY <4>5, <4>6 DEF x
    <3>2. CASE offset # 0
      <4>1. x = Outcome(t, no, sflags)
        BY <1>1, <1>7, <2>4, <3>2
      <4>2. ~ctrl
        BY <1>2, <2>1, <2>2, <2>3, <3>2
      <4> QED BY <1>4, <1>5, <4>1, <4>2, OutcomeIs DEF x
    <3> QED BY <3>1, <3>2
  <2>5. CASE ~ctrl /\ t.shutdown = "NONE"
    <3>1. t.rcv_nxt >= 1
      <4>1. m.seq >= 1 /\ e = m.seq + n
        BY <2>1, <2>5 DEF e
      <4>2. o.snd_nxt >= 2
        BY <1>2, <1>3, <2>1, <2>2, <4>1
      <4> QED BY <1>2, <4>2
    <3>2. CASE offset = 0
      <4>1. x = Outcome(next, yes, flags)
        BY <1>1, <1>7, <2>5, <3>2
      <4>2. StoredAs(t, stored, m, g, o)
        BY <2>1, <2>5, <3>1, StoredIs
      <4> HIDE DEF stored
      <4>3. stored \in ControlBlock /\ stored.rcv_nxt = t.rcv_nxt
        BY <4>2 DEF StoredAs, Received
      <4>4. Add(stored.rcv_nxt, n) = stored.rcv_nxt + n
        BY <2>3, <3>2, <4>3 DEF e
      <4>5. next = Gathered(Advanced(stored, n))
        BY <4>4 DEF Advanced
      <4>6. Received(t, Gathered(Advanced(stored, n)), g, o)
        BY <2>1, <2>3, <2>5, <3>1, <3>2, InOrderIs DEF stored
      <4>7. Taking(t, next, g, o)
        BY <4>5, <4>6, ReceivedTaking
      <4>8. flags \in SendFlags
        BY DEF SendFlags
      <4> HIDE DEF next, flags
      <4> QED BY <1>4, <2>5, <4>1, <4>7, <4>8, OutcomeIs DEF x
    <3>3. CASE offset # 0
      <4>1. x = Outcome(listed, no, sflags)
        BY <1>1, <1>7, <2>5, <3>3
      <4>2. t.rlist \in Seq(Ahead) /\ Len(t.rlist) \in Nat /\ DOMAIN t.rlist = 1 .. Len(t.rlist)
        BY BlockFields, LenProperties
      <4>3. place \in 1 .. Len(t.rlist) + 1
        <5>0. place = IF later = {} THEN Len(t.rlist) + 1 ELSE Min(later)
          OBVIOUS
        <5> HIDE DEF place
        <5>1. CASE later = {}
          <6> HIDE DEF later
          <6> QED BY <4>2, <5>0, <5>1
        <5>2. CASE later # {}
          <6>1. later \in SUBSET Nat /\ later \subseteq 1 .. Len(t.rlist)
            BY <4>2
          <6>2. \E i \in later : \A j \in later : i <= j
            <7> HIDE DEF later
            <7> QED BY <5>2, <6>1, LeastOf
          <6>3. Min(later) \in later
            <7> HIDE DEF later
            <7> QED BY <6>2 DEF Min
          <6> HIDE DEF later
          <6> QED BY <4>2, <5>0, <5>2, <6>1, <6>3
        <5> QED BY <5>1, <5>2
      <4>4. entry \in Ahead /\ entry.seq = m.seq /\ entry.len = n
        BY <1>3 DEF Ahead
      <4> HIDE DEF place, entry
      <4>5. Received(t, listed, g, o)
        BY <2>1, <2>5, <3>1, <4>3, <4>4, AheadIs
      <4>6. Taking(t, listed, g, o)
        BY <4>5, ReceivedTaking
      <4> HIDE DEF listed
      <4> QED BY <1>4, <2>5, <4>1, <4>6, OutcomeIs DEF x
    <3> QED BY <3>2, <3>3
  <2> QED BY <2>4, <2>5
<1> QED BY <1>6, <1>7

-----------------------------------------------------------------------------
(* What a call makes of an end                                                *)

\* read is told once.
Told1(r) == [r EXCEPT !.t.readEnable = FALSE]

\* The owner is told of data, or is not.
LEMMA Told1Is ==
  ASSUME NEW r, NEW t \in ControlBlock, NEW w, NEW g, NEW o \in ControlBlock,
         Fine(r, t, w, g, o)
  PROVE  Fine(Told1(r), t, w, g, o) /\ SameSend(r.t, Told1(r).t) /\ SameReceive(r.t, Told1(r).t)
<1> DEFINE no == FALSE
           v == [r.t EXCEPT !.readEnable = no]
<1>1. r \in Result /\ r.t \in ControlBlock /\ no \in BOOLEAN
  BY ResultFields DEF Fine
<1>2. Told1(r) = With(r, v)
  BY DEF Told1, With
<1> HIDE DEF no
<1>3. v \in ControlBlock
  BY <1>1 DEF ControlBlock
<1>4. SameSend(r.t, v) /\ SameReceive(r.t, v)
  BY <1>1 DEF ControlBlock, SameSend, SameReceive
<1> HIDE DEF v
<1> QED BY <1>1, <1>2, <1>3, <1>4, WithFine, WithIs

\* The data of a packet.
LEMMA OnDataFine ==
  ASSUME NEW r, NEW t \in ControlBlock, NEW w, NEW g, NEW o \in ControlBlock, NEW z,
         Fine(r, t, w, g, o), r.t.state # "CLOSED", Snd(o, z, r.t),
         NEW seg \in Datagram, Out(o, seg, r.t), NEW cwnd \in Nat, NEW writes
  PROVE  LET q == OnData(r, seg, cwnd, writes)
         IN /\ Fine(q, t, w, g, o) /\ q.t.state = r.t.state /\ q.t.shutdown = r.t.shutdown
            /\ seg.ctrl => q.t.rcv_nxt >= 1
<1> DEFINE a == r.t
           sflags == IF seg.seq # a.rcv_nxt THEN "immediate"
                     ELSE IF seg.data # <<>> THEN "delayed" ELSE "none"
           m == Trimmed(a, seg)
           x == Receive(a, m, seg.ctrl, sflags)
           b == With(r, x.t)
           c == AttemptSend(b, x.sflags, cwnd, writes)
           q == OnData(r, seg, cwnd, writes)
<1>1. q = IF x.new /\ c.t.readEnable THEN Notify(Told1(c), "read") ELSE c
  BY DEF OnData, With, Told1
<1>2. r \in Result /\ a \in ControlBlock /\ Snd(a, w, o) /\ Rcv(a, g, o)
  BY ResultFields DEF Fine
<1>3. /\ Fresh(m, a, o)
      /\ m.data # <<>> => (seg.ctrl => Len(m.data) = 1 /\ m.seq = 0) /\ (~seg.ctrl => m.seq >= 1)
      /\ m.data = <<>> => (seg.ctrl => a.rcv_nxt >= 1)
  BY <1>2, TrimmedIs
<1>4. sflags \in SendFlags /\ seg.ctrl \in BOOLEAN
  BY DatagramFields DEF SendFlags
<1> HIDE DEF m, sflags, q
<1>5. Receives(a, x, g, o) /\ (seg.ctrl /\ m.data # <<>> => x.t.rcv_nxt >= 1)
  BY <1>2, <1>3, <1>4, ReceiveIs
<1> HIDE DEF x
<1>6. /\ x.t \in ControlBlock /\ SameSend(a, x.t) /\ x.t.shutdown = a.shutdown
      /\ Rcv(x.t, g, o) /\ Later(a, x.t) /\ x.sflags \in SendFlags
  BY <1>5 DEF Receives, Taking
<1>7. seg.ctrl => x.t.rcv_nxt >= 1
  <2>1. a.rcv_nxt \in Nat /\ x.t.rcv_nxt \in Nat /\ a.rcv_nxt <= x.t.rcv_nxt
    BY <1>2, <1>6, BlockFields DEF Later
  <2> QED BY <1>3, <1>5, <2>1
<1>8. Snd(x.t, w, o)
  BY <1>2, <1>6, SendSame
<1>9. Fine(b, t, w, g, o) /\ b.t = x.t
  BY <1>2, <1>6, <1>8, WithMoves, WithIs
<1> HIDE DEF b
<1>10. b.t.state = a.state /\ b.t.state # "CLOSED"
  BY <1>6, <1>9 DEF SameSend
<1>11. Fine(c, t, w, g, o) /\ OnlySends(b, c)
  BY <1>6, <1>9, <1>10, AttemptSendFine DEF SendFlags
<1> HIDE DEF c
<1>12. /\ c.t.state = a.state /\ c.t.shutdown = a.shutdown /\ c.t.rcv_nxt = x.t.rcv_nxt
  BY <1>6, <1>9, <1>10, <1>11 DEF OnlySends, SameReceive
<1>13. Fine(q, t, w, g, o) /\ q.t.state = c.t.state /\ SameReceive(c.t, q.t)
       /\ q.t.snd_nxt = c.t.snd_nxt
  <2>1. CASE x.new /\ c.t.readEnable
    <3> DEFINE d == Told1(c)
    <3>1. Fine(d, t, w, g, o) /\ SameSend(c.t, d.t) /\ SameReceive(c.t, d.t)
      BY <1>11, Told1Is
    <3> HIDE DEF d
    <3>2. d \in Result
      BY <3>1 DEF Fine
    <3>3. "read" \in {"open", "read", "write", "close"}
      OBVIOUS
    <3>4. Fine(Notify(d, "read"), t, w, g, o) /\ Notify(d, "read").t = d.t
      BY <3>1, <3>2, <3>3, NotifyFine, NotifyIs
    <3>5. q = Notify(d, "read")
      BY <1>1, <2>1 DEF d
    <3> QED BY <3>1, <3>4, <3>5 DEF SameSend
  <2>2. CASE ~(x.new /\ c.t.readEnable)
    <3>1. q = c
      BY <1>1, <2>2
    <3> QED BY <1>11, <3>1 DEF SameReceive
  <2> QED BY <2>1, <2>2
<1>14. q.t.state = a.state /\ q.t.shutdown = a.shutdown /\ (seg.ctrl => q.t.rcv_nxt >= 1)
  BY <1>7, <1>12, <1>13 DEF SameReceive
<1> QED BY <1>13, <1>14 DEF q

\* Who has been connected, or has transmitted, has received the CONNECT.
Heard(t) ==
  t.state \in {"SYN_RECEIVED", "ESTABLISHED"} \/ t.snd_nxt > 0 => t.rcv_nxt >= 1

\* How a state may change without a call of Connect.
Answers(t, v) ==
  /\ v.shutdown = t.shutdown
  /\ v.state = "SYN_SENT" => t.state = "SYN_SENT"
  /\ v.state = "SYN_RECEIVED" => t.state \in {"LISTEN", "SYN_RECEIVED"}
  /\ Heard(t) /\ t.state # "SYN_SENT" => Heard(v)

\* A call that ends nothing but the connection opens none.
LEMMA EndsAnswers ==
  ASSUME NEW r, NEW q, Ends(r, q)
  PROVE  Answers(r.t, q.t)
BY DEF Ends, Answers, Heard, SameReceive

\* The peer was heard.
Hearing(t) == [t EXCEPT !.heard = TRUE]

\* That touches no stream.
LEMMA HearingIs ==
  ASSUME NEW t \in ControlBlock
  PROVE  /\ Hearing(t) \in ControlBlock /\ SameSend(t, Hearing(t)) /\ SameReceive(t, Hearing(t))
<1> DEFINE on == TRUE
<1>1. on \in BOOLEAN /\ Hearing(t) = [t EXCEPT !.heard = on]
  BY DEF Hearing
<1> HIDE DEF on
<1>2. Hearing(t) \in ControlBlock
  BY <1>1 DEF ControlBlock
<1>3. SameSend(t, Hearing(t)) /\ SameReceive(t, Hearing(t))
  BY <1>1 DEF ControlBlock, SameSend, SameReceive
<1> QED BY <1>2, <1>3

\* process as a whole.
LEMMA NotifyPacketFine ==
  ASSUME NEW t \in ControlBlock, NEW w, NEW g, NEW o \in ControlBlock, NEW z, NEW h,
         Snd(t, w, o), Rcv(t, g, o), Snd(o, z, t), Rcv(o, h, t),
         NEW seg \in Datagram, Out(o, seg, t), NEW cwnd \in Nat, NEW writes,
         t.state = "SYN_SENT" /\ seg.ctrl => o.rcv_nxt >= 1
  PROVE  LET q == NotifyPacket(t, seg, cwnd, writes)
         IN Fine(q, t, w, g, o) /\ Answers(t, q.t)
<1> DEFINE v == Hearing(t)
           r0 == Quiet(v)
           c == IF seg.ctrl THEN OnConnect(r0) ELSE r0
           r1 == OnAck(c, seg, writes)
           d == OnData(r1, seg, cwnd, writes)
           q == NotifyPacket(t, seg, cwnd, writes)
<1>1. q = IF t.state = "CLOSED" THEN r0 ELSE IF r1.t.state = "CLOSED" THEN r1 ELSE d
  BY DEF NotifyPacket, Hearing
<1>2. v \in ControlBlock /\ SameSend(t, v) /\ SameReceive(t, v)
  BY HearingIs
<1> HIDE DEF v, q
<1>3. Snd(v, w, o) /\ Rcv(v, g, o) /\ Later(t, v)
  BY <1>2, SendSame, ReceiveSame, LaterSame
<1>4. Fine(r0, t, w, g, o) /\ r0.t = v
  <2>1. r0 \in Result /\ r0.t = v /\ r0.out = <<>>
    BY <1>2, <1>3, QuietFine
  <2> HIDE DEF r0
  <2>2. Len(r0.out) = 0
    BY <2>1
  <2> QED BY <1>3, <2>1, <2>2 DEF Fine
<1> HIDE DEF r0
<1>5. r0.t.state = t.state /\ r0.t.snd_nxt = t.snd_nxt /\ SameReceive(t, r0.t)
  BY <1>2, <1>4 DEF SameSend
<1>6. CASE t.state = "CLOSED"
  <2>1. q = r0
    BY <1>1, <1>6
  <2>2. Answers(t, r0.t)
    BY <1>5 DEF Answers, Heard, SameReceive
  <2> QED BY <1>4, <2>1, <2>2 DEF q
<1>7. CASE t.state # "CLOSED"
  <2>1. /\ Fine(c, t, w, g, o) /\ SameReceive(r0.t, c.t) /\ c.t.snd_nxt = t.snd_nxt
        /\ c.t.state = IF seg.ctrl THEN Connected(t.state) ELSE t.state
    <3>1. CASE seg.ctrl
      <4>1. r0.t.state = "SYN_SENT" => o.rcv_nxt >= 1
        BY <1>5, <3>1
      <4> DEFINE y == OnConnect(r0)
      <4>2. /\ Fine(y, t, w, g, o) /\ SameReceive(r0.t, y.t)
            /\ y.t.snd_nxt = r0.t.snd_nxt /\ y.t.state = Connected(r0.t.state)
        BY <1>4, <4>1, OnConnectFine
      <4>3. c = y
        BY <3>1
      <4> HIDE DEF y, c
      <4> QED BY <1>5, <3>1, <4>2, <4>3
    <3>2. CASE ~seg.ctrl
      <4>1. c = r0
        BY <3>2
      <4> HIDE DEF c
      <4> QED BY <1>4, <1>5, <3>2, <4>1 DEF SameReceive
    <3> QED BY <3>1, <3>2
  <2> HIDE DEF c
  <2>2. c.t.state # "CLOSED" /\ SameReceive(t, c.t)
    BY <1>5, <1>7, <2>1 DEF Connected, SameReceive
  <2>3. c \in Result /\ c.t \in ControlBlock /\ Later(t, c.t)
    BY <2>1, ResultFields DEF Fine
  <2>4. Out(o, seg, c.t)
    BY <2>3, OutLaterPeer
  <2>5. Fine(r1, t, w, g, o) /\ Ends(c, r1)
    BY <2>1, <2>2, <2>4, OnAckFine
  <2> HIDE DEF r1
  <2>6. r1 \in Result /\ r1.t \in ControlBlock /\ Later(t, r1.t)
    BY <2>5, ResultFields DEF Fine
  <2>7. SameReceive(t, r1.t) /\ r1.t.snd_nxt = t.snd_nxt
    BY <2>1, <2>2, <2>5 DEF Ends, SameReceive
  <2>8. CASE r1.t.state = "CLOSED"
    <3>1. q = r1
      BY <1>1, <1>7, <2>8
    <3>2. Answers(t, r1.t)
      BY <2>7, <2>8 DEF Answers, Heard, SameReceive
    <3> QED BY <2>5, <3>1, <3>2 DEF q
  <2>9. CASE r1.t.state # "CLOSED"
    <3>1. q = d
      BY <1>1, <1>7, <2>9
    <3>2. Out(o, seg, r1.t) /\ Snd(o, z, r1.t)
      BY <2>6, OutLaterPeer, SndLater
    <3>3. /\ Fine(d, t, w, g, o) /\ d.t.state = r1.t.state /\ d.t.shutdown = r1.t.shutdown
          /\ seg.ctrl => d.t.rcv_nxt >= 1
      BY <2>5, <2>9, <3>2, OnDataFine
    <3> HIDE DEF d
    <3>4. \/ d.t.state = c.t.state
          \/ c.t.state = "SYN_RECEIVED" /\ d.t.state = "ESTABLISHED"
      BY <2>5, <2>9, <3>3 DEF Ends
    <3>5. d \in Result /\ d.t \in ControlBlock /\ Later(t, d.t) /\ Snd(d.t, w, o)
      BY <3>3, ResultFields DEF Fine
    <3>6. /\ t.rcv_nxt \in Nat /\ d.t.rcv_nxt \in Nat /\ t.rcv_nxt <= d.t.rcv_nxt
          /\ d.t.snd_nxt \in Nat
      BY <3>5, BlockFields DEF Later
    <3>7. d.t.state = "LISTEN" => d.t.snd_nxt = 0
      <4> HAVE d.t.state = "LISTEN"
      <4>1. d.t.snd_nxt <= 0
        BY <3>5 DEF Snd, Numbered
      <4> QED BY <3>6, <4>1
    <3>8. ASSUME Heard(t), t.state # "SYN_SENT" PROVE Heard(d.t)
      <4>1. CASE seg.ctrl
        BY <3>3, <4>1 DEF Heard
      <4>2. CASE ~seg.ctrl /\ t.state = "LISTEN"
        <5>1. d.t.state = "LISTEN"
          BY <2>1, <3>4, <4>2
        <5> QED BY <3>7, <5>1 DEF Heard
      <4>3. CASE ~seg.ctrl /\ t.state # "LISTEN"
        <5>1. t.state \in {"SYN_RECEIVED", "ESTABLISHED"}
          BY <1>7, <3>8, <4>3, BlockFields
        <5>2. d.t.rcv_nxt >= 1
          <6>1. t.rcv_nxt >= 1
            BY <3>8, <5>1 DEF Heard
          <6> QED BY <3>6, <6>1
        <5> QED BY <5>2 DEF Heard
      <4> QED BY <4>1, <4>2, <4>3
    <3>9. d.t.shutdown = t.shutdown
      BY <2>7, <3>3 DEF SameReceive
    <3>10. /\ d.t.state = "SYN_SENT" => t.state = "SYN_SENT"
           /\ d.t.state = "SYN_RECEIVED" => t.state \in {"LISTEN", "SYN_RECEIVED"}
      BY <2>1, <3>4 DEF Connected
    <3>11. Answers(t, d.t)
      BY <3>8, <3>9, <3>10 DEF Answers
    <3> QED BY <3>1, <3>3, <3>11 DEF q
  <2> QED BY <2>8, <2>9
<1> QED BY <1>6, <1>7

-----------------------------------------------------------------------------
(* The clock                                                                  *)

\* What only concerns the timers.
Timed(t, n, heard) == [t EXCEPT !.rx_rto = n, !.heard = heard]

\* The timers touch no stream.
LEMMA TimedIs ==
  ASSUME NEW t \in ControlBlock, NEW n \in Nat, NEW heard \in BOOLEAN
  PROVE  /\ Timed(t, n, heard) \in ControlBlock /\ SameSend(t, Timed(t, n, heard))
         /\ SameReceive(t, Timed(t, n, heard))
<1>1. Timed(t, n, heard) \in ControlBlock
  BY DEF ControlBlock, Timed
<1>2. SameSend(t, Timed(t, n, heard)) /\ SameReceive(t, Timed(t, n, heard))
  BY DEF ControlBlock, Timed, SameSend, SameReceive
<1> QED BY <1>1, <1>2

\* A call that sets them.
LEMMA TimedFine ==
  ASSUME NEW r, NEW t \in ControlBlock, NEW w, NEW g, NEW o \in ControlBlock,
         Fine(r, t, w, g, o), NEW n \in Nat, NEW heard \in BOOLEAN
  PROVE  LET q == With(r, Timed(r.t, n, heard))
         IN Fine(q, t, w, g, o) /\ Ends(r, q) /\ q.t.state = r.t.state
<1> DEFINE v == Timed(r.t, n, heard)
           q == With(r, v)
<1>1. r \in Result /\ r.t \in ControlBlock
  BY ResultFields DEF Fine
<1>2. v \in ControlBlock /\ SameSend(r.t, v) /\ SameReceive(r.t, v)
  BY <1>1, TimedIs
<1> HIDE DEF v
<1>3. Fine(q, t, w, g, o) /\ q.t = v
  BY <1>1, <1>2, WithFine, WithIs
<1> HIDE DEF q
<1> QED BY <1>2, <1>3 DEF Ends, SameSend, q, v

\* The retransmission after a timeout.
LEMMA OnRtoExpiredFine ==
  ASSUME NEW r, NEW t \in ControlBlock, NEW w, NEW g, NEW o \in ControlBlock,
         Fine(r, t, w, g, o), r.t.state # "CLOSED", r.t.rto_base, NEW writes
  PROVE  LET q == OnRtoExpired(r, writes)
         IN Fine(q, t, w, g, o) /\ Ends(r, q)
<1> DEFINE p == Transmit(r, 1)
           n == Least(p.t.rx_rto + 1, GiveUp)
           q == OnRtoExpired(r, writes)
<1>1. r.t.snd_una < r.t.snd_nxt
  BY DEF Fine, Snd, Sending
<1>2. CASE ~Goes(r, 1, writes)
  <2>1. q = Closedown(r)
    BY <1>2 DEF OnRtoExpired
  <2>2. Fine(Closedown(r), t, w, g, o) /\ Ends(r, Closedown(r))
    BY ClosedFine
  <2> QED BY <2>1, <2>2
<1>3. CASE Goes(r, 1, writes)
  <2>1. Fine(p, t, w, g, o) /\ Ends(r, p) /\ p.t.state = r.t.state
    BY <1>1, <1>3, AgainFine DEF Goes
  <2>2. q = [p EXCEPT !.t.rx_rto = n]
    BY <1>3 DEF OnRtoExpired
  <2> HIDE DEF p, q
  <2>3. p \in Result /\ p.t \in ControlBlock
    BY <2>1, ResultFields DEF Fine
  <2>4. p.t.rx_rto \in Nat /\ p.t.heard \in BOOLEAN
    BY <2>3, BlockFields
  <2>5. n \in Nat
    BY <2>4, PseudoTcpAssumption DEF Least
  <2> HIDE DEF n
  <2>6. [p.t EXCEPT !.rx_rto = n] = Timed(p.t, n, p.t.heard)
    BY <2>3 DEF Timed, ControlBlock
  <2>7. [p EXCEPT !.t.rx_rto = n] = With(p, [p.t EXCEPT !.rx_rto = n])
    BY DEF With
  <2>8. q = With(p, Timed(p.t, n, p.t.heard))
    BY <2>2, <2>6, <2>7
  <2> DEFINE x == With(p, Timed(p.t, n, p.t.heard))
  <2>9. Fine(x, t, w, g, o) /\ Ends(p, x)
    BY <2>1, <2>4, <2>5, TimedFine
  <2> HIDE DEF x
  <2>10. Ends(r, x)
    BY <2>1, <2>9, EndsTrans
  <2> QED BY <2>8, <2>9, <2>10 DEF q, x
<1> QED BY <1>2, <1>3

\* The probe of a closed window.
LEMMA ProbeWindowFine ==
  ASSUME NEW r, NEW t \in ControlBlock, NEW w, NEW g, NEW o \in ControlBlock,
         Fine(r, t, w, g, o)
  PROVE  LET q == ProbeWindow(r)
         IN Fine(q, t, w, g, o) /\ Ends(r, q) /\ q.t.state = r.t.state
<1> DEFINE s == Diff(r.t.snd_nxt, 1)
           p == Packet(r, s, FALSE, <<>>)
           n == Least(p.t.rx_rto + 1, GiveUp)
           no == FALSE
           q == ProbeWindow(r)
<1>1. q = [p EXCEPT !.t.rx_rto = n, !.t.heard = no]
  BY DEF ProbeWindow
<1>2. r \in Result /\ r.t \in ControlBlock
  BY ResultFields DEF Fine
<1>3. s \in Nat
  <2>1. r.t.snd_nxt - 1 \in Int
    BY <1>2, BlockFields
  <2> QED BY <2>1, SeqNumber DEF Diff
<1>4. no \in BOOLEAN
  OBVIOUS
<1> HIDE DEF s, no, q
<1>5. Fine(p, t, w, g, o)
  BY <1>3, PacketFine
<1>6. PacketOf(r, p, s, FALSE, <<>>)
  BY <1>2, <1>3, EmptySeq, PacketIs
<1> HIDE DEF p
<1>7. Ends(r, p) /\ p.t.state = r.t.state
  BY <1>6 DEF PacketOf, Ends, SameSend
<1>8. p \in Result /\ p.t \in ControlBlock
  BY <1>5, ResultFields DEF Fine
<1>9. n \in Nat
  <2>1. p.t.rx_rto \in Nat
    BY <1>8, BlockFields
  <2> QED BY <2>1, PseudoTcpAssumption DEF Least
<1> HIDE DEF n
<1>10. q = With(p, Timed(p.t, n, no))
  BY <1>1, <1>8 DEF With, Timed, Result
<1> DEFINE x == With(p, Timed(p.t, n, no))
<1>11. Fine(x, t, w, g, o) /\ Ends(p, x) /\ x.t.state = p.t.state
  BY <1>4, <1>5, <1>9, TimedFine
<1> HIDE DEF x
<1>12. Ends(r, x)
  BY <1>7, <1>11 DEF Ends, SameReceive
<1> QED BY <1>7, <1>10, <1>11, <1>12 DEF q, x

\* A packet without data opens no connection.
LEMMA PacketEnds ==
  ASSUME NEW r, NEW t \in ControlBlock, NEW w, NEW g, NEW o \in ControlBlock,
         Fine(r, t, w, g, o), NEW seq \in Nat
  PROVE  LET q == Packet(r, seq, FALSE, <<>>)
         IN Fine(q, t, w, g, o) /\ Ends(r, q) /\ q.t.state = r.t.state
<1> DEFINE q == Packet(r, seq, FALSE, <<>>)
<1>1. Fine(q, t, w, g, o)
  BY PacketFine
<1>2. r \in Result
  BY DEF Fine
<1>3. PacketOf(r, q, seq, FALSE, <<>>)
  BY <1>2, EmptySeq, PacketIs
<1> HIDE DEF q
<1> QED BY <1>1, <1>3 DEF PacketOf, Ends, SameSend, q

\* notifyClock as a whole.
LEMMA NotifyClockFine ==
  ASSUME NEW t \in ControlBlock, NEW w, NEW g, NEW o \in ControlBlock,
         Snd(t, w, o), Rcv(t, g, o), t.state # "CLOSED",
         NEW expired \in SUBSET Timers(t), NEW silent, NEW writes
  PROVE  LET q == NotifyClock(t, expired, silent, writes)
         IN Fine(q, t, w, g, o) /\ Answers(t, q.t)
<1> DEFINE r0 == Quiet(t)
           r1 == IF "rto" \in expired THEN OnRtoExpired(r0, writes) ELSE r0
           probes == "probe" \in expired /\ r1.t.snd_wnd = 0
           r2 == IF ~probes THEN r1 ELSE IF silent THEN Closedown(r1) ELSE ProbeWindow(r1)
           d == Packet(r2, r2.t.snd_nxt, FALSE, <<>>)
           over == r1.t.state = "CLOSED" \/ r2.t.state = "CLOSED"
           last == "ack" \in expired /\ r2.t.t_ack
           q == NotifyClock(t, expired, silent, writes)
           Good(x) == Fine(x, t, w, g, o) /\ Answers(t, x.t)
<1>1. q = IF over THEN r2 ELSE IF last THEN d ELSE r2
  BY DEF NotifyClock
<1>2. Fine(r0, t, w, g, o) /\ r0.t = t
  BY QuietFine
<1>3. "rto" \in expired => t.rto_base
  BY DEF Timers
<1> HIDE DEF r0
<1>4. Ends(r0, r0)
  BY DEF Ends, SameReceive
<1>5. Fine(r1, t, w, g, o) /\ Ends(r0, r1)
  <2>1. CASE "rto" \in expired
    <3>1. Fine(OnRtoExpired(r0, writes), t, w, g, o) /\ Ends(r0, OnRtoExpired(r0, writes))
      BY <1>2, <1>3, <2>1, OnRtoExpiredFine
    <3> QED BY <2>1, <3>1
  <2>2. CASE "rto" \notin expired
    BY <1>2, <1>4, <2>2
  <2> QED BY <2>1, <2>2
<1> HIDE DEF r1
<1>6. Fine(r2, t, w, g, o) /\ (r1.t.state # "CLOSED" \/ ~probes => Ends(r0, r2))
      /\ (probes /\ silent => Ends(r1, r2) /\ r2.t.state = "CLOSED")
      /\ (probes /\ ~silent => Ends(r1, r2) /\ r2.t.state = r1.t.state)
  <2>1. CASE ~probes
    BY <1>5, <2>1
  <2>2. CASE probes /\ silent
    <3>1. r2 = Closedown(r1)
      BY <2>2
    <3>2. Fine(Closedown(r1), t, w, g, o) /\ Ends(r1, Closedown(r1)) /\ Closedown(r1).t.state = "CLOSED"
      BY <1>5, ClosedFine
    <3> HIDE DEF r2, probes
    <3> QED BY <1>5, <2>2, <3>1, <3>2, EndsTrans
  <2>3. CASE probes /\ ~silent
    <3>1. r2 = ProbeWindow(r1)
      BY <2>3
    <3>2. Fine(ProbeWindow(r1), t, w, g, o) /\ Ends(r1, ProbeWindow(r1))
          /\ ProbeWindow(r1).t.state = r1.t.state
      BY <1>5, ProbeWindowFine
    <3> HIDE DEF r2, probes
    <3> QED BY <1>5, <2>3, <3>1, <3>2, EndsTrans
  <2> QED BY <2>1, <2>2, <2>3
<1>7. Ends(r0, r2)
  <2>1. CASE r1.t.state # "CLOSED" \/ ~probes
    BY <1>6, <2>1
  <2>2. CASE ~(r1.t.state # "CLOSED" \/ ~probes)
    <3>1. Ends(r1, r2) /\ r2.t.state = "CLOSED"
      BY <1>6, <2>2
    <3> QED BY <1>5, <3>1 DEF Ends, SameReceive
  <2> QED BY <2>1, <2>2
<1> HIDE DEF r2
<1>8. Good(r2)
  BY <1>2, <1>6, <1>7, EndsAnswers
<1>9. Good(d)
  <2>1. r2.t.snd_nxt \in Nat
    BY <1>6, ResultFields, BlockFields DEF Fine
  <2>2. Fine(d, t, w, g, o) /\ Ends(r2, d) /\ d.t.state = r2.t.state
    BY <1>6, <2>1, PacketEnds
  <2> HIDE DEF d
  <2>3. Ends(r0, d)
    BY <1>7, <2>2 DEF Ends, SameReceive
  <2> QED BY <1>2, <2>2, <2>3, EndsAnswers
<1> HIDE DEF d, q
<1>10. q = r2 \/ q = d
  BY <1>1
<1> QED BY <1>8, <1>9, <1>10 DEF q

-----------------------------------------------------------------------------
(* The user                                                                   *)

\* A call that only moves on to a later control block.
LEMMA QuietLater ==
  ASSUME NEW t \in ControlBlock, NEW v \in ControlBlock, NEW w, NEW g, NEW o \in ControlBlock,
         Snd(v, w, o), Rcv(v, g, o), Later(t, v)
  PROVE  Fine(Quiet(v), t, w, g, o) /\ Quiet(v).t = v
<1> DEFINE r == Quiet(v)
<1>1. r \in Result /\ r.t = v /\ r.out = <<>>
  BY QuietFine
<1> HIDE DEF r
<1>2. Len(r.out) = 0
  BY <1>1
<1>3. Fine(r, t, w, g, o)
  BY <1>1, <1>2 DEF Fine
<1> QED BY <1>1, <1>3 DEF r

\* Connect as a whole.
LEMMA ConnectFine ==
  ASSUME NEW t \in ControlBlock, NEW w, NEW g, NEW o \in ControlBlock,
         Snd(t, w, o), Rcv(t, g, o), t.state = "LISTEN", NEW cwnd \in Nat, NEW writes
  PROVE  LET q == Connect(t, cwnd, writes)
         IN Fine(q, t, w, g, o) /\ q.t.state = "SYN_SENT" /\ q.t.shutdown = t.shutdown
<1> DEFINE st == "SYN_SENT"
           v == Queue(Entered(t, st), Opening, TRUE)
           r == Quiet(v)
           flags == "none"
           q == AttemptSend(r, flags, cwnd, writes)
<1>1. Connect(t, cwnd, writes) = q
  BY DEF Connect, Entered, Opening
<1>2. st \in {"SYN_SENT", "SYN_RECEIVED"} /\ st # "CLOSED"
  OBVIOUS
<1>3. flags \in {"none", "delayed", "immediate"}
  OBVIOUS
<1> HIDE DEF flags
<1>4. /\ v \in ControlBlock /\ v.state = st /\ SameReceive(t, v)
      /\ Snd(v, w, o) /\ Rcv(v, g, o) /\ Later(t, v)
  <2> HIDE DEF st
  <2> QED BY <1>2, ListeningQueue
<1> HIDE DEF v
<1>5. Fine(r, t, w, g, o) /\ r.t = v
  BY <1>4, QuietLater
<1> HIDE DEF r
<1>6. Fine(q, t, w, g, o) /\ OnlySends(r, q)
  BY <1>2, <1>3, <1>4, <1>5, AttemptSendFine
<1> HIDE DEF q
<1>7. q.t.state = "SYN_SENT" /\ q.t.shutdown = t.shutdown
  BY <1>4, <1>5, <1>6 DEF OnlySends, SameReceive
<1> QED BY <1>1, <1>6, <1>7

\* The first k bytes go.
Read1(t, k) ==
  [t EXCEPT !.rlen = @ - k,
            !.rbuf = [i \in 1..RcvBuf |-> IF i + k <= RcvBuf THEN @[i + k] ELSE Junk]]

\* The fields of a control block after k bytes were read.
ReadIn(t, v, k) ==
  /\ v \in ControlBlock /\ SameSend(t, v) /\ v.shutdown = t.shutdown
  /\ v.rlen = t.rlen - k /\ v.rlist = t.rlist /\ v.rcv_nxt = t.rcv_nxt /\ v.rcv_wnd = t.rcv_wnd
  /\ v.mss = t.mss
  /\ \A i \in 1 .. RcvBuf : i + k <= RcvBuf => v.rbuf[i] = t.rbuf[i + k]

\* They are the only ones.
LEMMA Read1Block ==
  ASSUME NEW t \in ControlBlock, NEW k \in 1 .. t.rlen
  PROVE  ReadIn(t, Read1(t, k), k)
<1> DEFINE n == t.rlen - k
           buf == [i \in 1..RcvBuf |-> IF i + k <= RcvBuf THEN t.rbuf[i + k] ELSE Junk]
           v == [t EXCEPT !.rlen = n, !.rbuf = buf]
<1>1. Read1(t, k) = v
  BY DEF Read1
<1>2. n \in Nat
  BY BlockFields
<1>3. buf \in [1 .. RcvBuf -> Int]
  <2>1. ASSUME NEW i \in 1 .. RcvBuf PROVE (IF i + k <= RcvBuf THEN t.rbuf[i + k] ELSE Junk) \in Int
    <3>1. CASE i + k <= RcvBuf
      <4>1. i + k \in 1 .. RcvBuf
        BY <3>1, PseudoTcpAssumption
      <4>2. t.rbuf \in [1 .. RcvBuf -> Int]
        BY BlockFields
      <4> QED BY <3>1, <4>1, <4>2
    <3>2. CASE ~(i + k <= RcvBuf)
      BY <3>2 DEF Junk
    <3> QED BY <3>1, <3>2
  <2> QED BY <2>1
<1>4. \A i \in 1 .. RcvBuf : i + k <= RcvBuf => buf[i] = t.rbuf[i + k]
  OBVIOUS
<1> HIDE DEF n, buf
<1>5. v \in ControlBlock
  BY <1>2, <1>3 DEF ControlBlock
<1>6. v.rlen = n /\ v.rbuf = buf
  BY DEF ControlBlock
<1>7. /\ SameSend(t, v) /\ v.shutdown = t.shutdown /\ v.rlist = t.rlist
      /\ v.rcv_nxt = t.rcv_nxt /\ v.rcv_wnd = t.rcv_wnd /\ v.mss = t.mss
  BY DEF ControlBlock, SameSend
<1> HIDE DEF v
<1> QED BY <1>1, <1>4, <1>5, <1>6, <1>7 DEF ReadIn, n

\* What was read, and what then there is to read.
LEMMA Read1Rcv ==
  ASSUME NEW t \in ControlBlock, NEW g, NEW o \in ControlBlock, NEW z,
         Rcv(t, g, o), Snd(o, z, t), t.shutdown = "NONE", NEW k \in 1 .. t.rlen
  PROVE  Taking(t, Read1(t, k), g \o SubSeq(t.rbuf, 1, k), o)
<1> DEFINE v == Read1(t, k)
           b == SubSeq(t.rbuf, 1, k)
           h == g \o b
           lg == Len(g)
           rl == t.rlen
           rn == t.rcv_nxt
           rw == t.rcv_wnd
<1>1. ReadIn(t, v, k)
  BY Read1Block
<1> HIDE DEF v
<1>2. /\ v \in ControlBlock /\ SameSend(t, v) /\ v.shutdown = t.shutdown
      /\ v.rlen = t.rlen - k /\ v.rlist = t.rlist /\ v.rcv_nxt = t.rcv_nxt /\ v.rcv_wnd = t.rcv_wnd
      /\ \A i \in 1 .. RcvBuf : i + k <= RcvBuf => v.rbuf[i] = t.rbuf[i + k]
  BY <1>1 DEF ReadIn
<1>3. /\ o.snd_nxt \in Nat /\ rn \in Nat /\ rw \in Nat /\ rl \in Nat /\ o.snd_nxt <= rn + rw
  BY SentInRange
<1>4. g \in Seq(Int) /\ lg \in Nat /\ Kept(t, g, o) /\ rl + rw <= RcvBuf /\ RcvBuf \in Nat
      /\ \A i \in 1 .. lg : g[i] = i
  <2>1. g \in Seq(Int) /\ Kept(t, g, o) /\ t.rlen + t.rcv_wnd <= RcvBuf /\ \A i \in 1 .. Len(g) : g[i] = i
    BY DEF Rcv
  <2> QED BY <2>1, LenProperties, PseudoTcpAssumption
<1>5. k \in Nat /\ k >= 1 /\ k <= rl
  BY <1>3
<1>6. rn # 0 /\ lg + rl = rn - 1
  <2>1. lg + rl = IF rn = 0 THEN 0 ELSE rn - 1
    BY <1>4 DEF Kept
  <2> HIDE DEF lg, rl, rn
  <2>2. lg + rl # 0
    BY <1>3, <1>4, <1>5
  <2> QED BY <2>1, <2>2
<1>7. \A i \in 1 .. rl : t.rbuf[i] = lg + i
  BY <1>4 DEF Kept
<1>8. b \in Seq(Int) /\ Len(b) = k /\ \A i \in 1 .. k : b[i] = lg + i
  <2>1. \A i \in 1 .. k : t.rbuf[i] \in Int
    <3>1. t.rbuf \in [1 .. RcvBuf -> Int]
      BY BlockFields
    <3>2. \A i \in 1 .. k : i \in 1 .. RcvBuf
      BY <1>3, <1>4, <1>5
    <3> QED BY <3>1, <3>2
  <2>2. b \in Seq(Int) /\ Len(b) = IF 1 <= k THEN k - 1 + 1 ELSE 0
    BY <1>5, <2>1, SubSeqProperties
  <2>3. \A i \in 1 .. k : b[i] = t.rbuf[i]
    <3>1. \A i \in 1 .. k - 1 + 1 : b[i] = t.rbuf[1 + i - 1]
      BY <1>5, <2>1, SubSeqProperties
    <3> HIDE DEF b
    <3>2. ASSUME NEW i \in 1 .. k PROVE i \in 1 .. k - 1 + 1 /\ 1 + i - 1 = i
      BY <1>5
    <3> QED BY <3>1, <3>2
  <2>4. \A i \in 1 .. k : i \in 1 .. rl
    BY <1>3, <1>5
  <2> HIDE DEF b
  <2> QED BY <1>5, <1>7, <2>2, <2>3, <2>4
<1> HIDE DEF b
<1>9. h \in Seq(Int) /\ Len(h) = lg + k /\ \A i \in 1 .. Len(h) : h[i] = i
  <2>1. h \in Seq(Int) /\ Len(h) = lg + k
    BY <1>4, <1>8, ConcatProperties
  <2>2. \A i \in 1 .. Len(g) + Len(b) : h[i] = IF i <= Len(g) THEN g[i] ELSE b[i - Len(g)]
    BY <1>4, <1>8, ConcatProperties
  <2> HIDE DEF h
  <2>3. ASSUME NEW i \in 1 .. Len(h) PROVE h[i] = i
    <3>1. i \in 1 .. Len(g) + Len(b) /\ i \in Nat
      BY <1>4, <1>5, <1>8, <2>1
    <3>2. CASE i <= Len(g)
      <4>1. i \in 1 .. lg
        BY <1>4, <3>1, <3>2
      <4> QED BY <1>4, <2>2, <3>1, <3>2, <4>1
    <3>3. CASE ~(i <= Len(g))
      <4>1. i - lg \in 1 .. k /\ lg + (i - lg) = i
        BY <1>4, <1>5, <1>8, <3>1, <3>3
      <4>2. h[i] = b[i - lg]
        BY <2>2, <3>1, <3>3
      <4> QED BY <1>8, <4>1, <4>2
    <3> QED BY <3>2, <3>3
  <2> QED BY <2>1, <2>3
<1> HIDE DEF h
<1>10. ASSUME NEW i \in 1 .. RcvBuf, i + k <= RcvBuf, t.rbuf[i + k] = lg + (i + k)
       PROVE  v.rbuf[i] = Len(h) + i
  <2>1. v.rbuf[i] = lg + (i + k)
    BY <1>2, <1>10
  <2>2. lg + (i + k) = (lg + k) + i
    <3> HIDE DEF lg
    <3> QED BY <1>4, <1>5
  <2> QED BY <1>9, <2>1, <2>2
<1>11. \A i \in 1 .. v.rlen : v.rbuf[i] = Len(h) + i
  <2> SUFFICES ASSUME NEW i \in 1 .. v.rlen PROVE v.rbuf[i] = Len(h) + i
    OBVIOUS
  <2>1. i \in Nat /\ i >= 1 /\ i <= rl - k
    BY <1>2, <1>3, <1>5
  <2>2. i \in 1 .. RcvBuf /\ i + k <= RcvBuf /\ i + k \in 1 .. rl
    <3> HIDE DEF rl, rw
    <3> QED BY <1>3, <1>4, <1>5, <2>1
  <2> QED BY <1>7, <1>10, <2>2
<1>12. ASSUME NEW j \in 1 .. Len(t.rlist)
       PROVE  Placed(v, h, o, t.rlist[j])
  <2> DEFINE a == t.rlist[j].seq
             e == t.rlist[j].seq + t.rlist[j].len
  <2>1. e <= o.snd_nxt /\ Bound(o, e) /\ Holds(t, g, a, e)
    BY <1>4 DEF Kept, Holds
  <2>2. a \in Nat /\ e \in Nat
    <3>1. t.rlist[j] \in Ahead
      BY BlockFields, ElementOfSeq
    <3>2. t.rlist[j].seq \in Nat /\ t.rlist[j].len \in Nat
      BY <3>1 DEF Ahead
    <3> QED BY <3>2
  <2> HIDE DEF a, e
  <2>3. ASSUME NEW i \in 1 .. RcvBuf, Len(h) + i >= a, Len(h) + i < e
        PROVE  v.rbuf[i] = Len(h) + i
    <3>1. i \in Nat /\ i >= 1
      BY <1>4
    <3>2. lg + (i + k) >= a /\ lg + (i + k) < e /\ i + k \in 1 .. RcvBuf
      <4> HIDE DEF lg, rl, rn, rw
      <4>1. (lg + k) + i >= a /\ (lg + k) + i < e
        BY <1>9, <2>3
      <4>2. lg + (i + k) = (lg + k) + i
        BY <1>4, <1>5, <3>1
      <4>3. i + k <= rl + rw
        BY <1>3, <1>4, <1>5, <1>6, <2>1, <2>2, <3>1, <4>1
      <4> QED BY <1>3, <1>4, <1>5, <3>1, <4>1, <4>2, <4>3
    <3>3. t.rbuf[i + k] = lg + (i + k)
      BY <2>1, <3>2 DEF Holds
    <3>4. i + k <= RcvBuf
      BY <1>4, <1>5, <3>1, <3>2
    <3> QED BY <1>10, <3>3, <3>4
  <2> QED BY <2>1, <2>3 DEF Placed, Holds, a, e
<1>13. Len(h) + v.rlen = IF v.rcv_nxt = 0 THEN 0 ELSE v.rcv_nxt - 1
  <2>1. Len(h) = lg + k /\ v.rlen = rl - k /\ v.rcv_nxt = rn
    BY <1>2, <1>9
  <2> HIDE DEF lg, rl, rn
  <2> QED BY <1>3, <1>4, <1>5, <1>6, <2>1
<1>14. Kept(v, h, o)
  <2>1. \A j \in 1 .. Len(v.rlist) : Placed(v, h, o, v.rlist[j])
    BY <1>2, <1>12
  <2>2. v.rcv_nxt # 0
    BY <1>2, <1>6
  <2> QED BY <1>11, <1>13, <2>1, <2>2 DEF Kept, Placed, Holds
<1>15. Rcv(v, h, o)
  <2>1. v.rlen + v.rcv_wnd <= RcvBuf
    BY <1>2, <1>3, <1>4, <1>5
  <2>2. v.rcv_nxt <= o.snd_nxt /\ Bound(o, v.rcv_nxt)
    BY <1>2 DEF Rcv
  <2> QED BY <1>9, <1>14, <2>1, <2>2 DEF Rcv
<1>16. Later(t, v)
  BY <1>2, BlockFields DEF Later, SameSend, Bound, Edge
<1> QED BY <1>2, <1>15, <1>16 DEF Taking, v, h, b

\* All that is free is told to be.
Widened(t) == [t EXCEPT !.rcv_wnd = RcvBuf - t.rlen]

\* The window is opened to all that is free.
LEMMA WidenedIs ==
  ASSUME NEW t \in ControlBlock, NEW g, NEW o \in ControlBlock, Rcv(t, g, o)
  PROVE  Taking(t, Widened(t), g, o)
<1> DEFINE n == RcvBuf - t.rlen
           v == [t EXCEPT !.rcv_wnd = n]
<1>1. /\ t.rlen \in Nat /\ t.rcv_nxt \in Nat /\ t.rcv_wnd \in Nat /\ t.snd_nxt \in Nat
      /\ RcvBuf \in Nat /\ t.rlen + t.rcv_wnd <= RcvBuf
  BY BlockFields, PseudoTcpAssumption DEF Rcv
<1>2. Widened(t) = v
  BY DEF Widened
<1>3. n \in Nat /\ t.rcv_wnd <= n /\ t.rlen + n <= RcvBuf
  BY <1>1
<1> HIDE DEF n
<1>4. v \in ControlBlock
  BY <1>3 DEF ControlBlock
<1>5. v.rcv_wnd = n
  BY DEF ControlBlock
<1>6. /\ SameSend(t, v) /\ v.shutdown = t.shutdown /\ v.rlen = t.rlen /\ v.rbuf = t.rbuf
      /\ v.rlist = t.rlist /\ v.rcv_nxt = t.rcv_nxt
  BY DEF ControlBlock, SameSend
<1> HIDE DEF v
<1>7. Later(t, v)
  <2>1. Edge(t) <= Edge(v)
    BY <1>1, <1>3, <1>5, <1>6 DEF Edge
  <2>2. t.rcv_nxt <= v.rcv_nxt
    BY <1>1, <1>6
  <2> QED BY <1>1, <1>6, <2>1, <2>2 DEF Later, SameSend, Bound
<1>8. Rcv(v, g, o)
  BY <1>3, <1>5, <1>6 DEF Rcv, Kept
<1> QED BY <1>2, <1>4, <1>6, <1>7, <1>8 DEF Taking

\* To take in is transitive.
LEMMA TakingTrans ==
  ASSUME NEW t \in ControlBlock, NEW u, NEW v, NEW g, NEW h, NEW o \in ControlBlock,
         Taking(t, u, g, o), Taking(u, v, h, o)
  PROVE  Taking(t, v, h, o)
<1>1. u \in ControlBlock /\ v \in ControlBlock /\ Later(t, u) /\ Later(u, v)
  BY DEF Taking
<1>2. Later(t, v)
  BY <1>1, LaterTrans
<1> QED BY <1>2 DEF Taking, SameSend

\* A call that only takes in.
LEMMA TakingFine ==
  ASSUME NEW t \in ControlBlock, NEW v, NEW w, NEW g, NEW o \in ControlBlock,
         Snd(t, w, o), Taking(t, v, g, o)
  PROVE  /\ Fine(Quiet(v), t, w, g, o) /\ Quiet(v).t = v
         /\ v.state = t.state /\ v.shutdown = t.shutdown
<1>1. /\ v \in ControlBlock /\ Rcv(v, g, o) /\ Later(t, v) /\ SameSend(t, v)
      /\ v.state = t.state /\ v.shutdown = t.shutdown
  BY DEF Taking, SameSend
<1>2. Snd(v, w, o)
  BY <1>1, SendSame
<1> QED BY <1>1, <1>2, QuietLater

\* A call of the user, which leaves the state.
Serves(q, t, w, g, o) ==
  Fine(q, t, w, g, o) /\ q.t.state = t.state /\ q.t.shutdown = t.shutdown

\* Recv as a whole: what it copies is the continuation of what was read.
LEMMA RecvFine ==
  ASSUME NEW t \in ControlBlock, NEW w, NEW g, NEW o \in ControlBlock, NEW z,
         Snd(t, w, o), Rcv(t, g, o), Snd(o, z, t), t.shutdown = "NONE",
         t.state # "CLOSED", t.rlen > 0, NEW n \in Nat \ {0}, NEW cwnd \in Nat, NEW writes
  PROVE  Serves(Recv(t, n, cwnd, writes), t, w, g \o SubSeq(t.rbuf, 1, Least(n, t.rlen)), o)
<1> DEFINE k == Least(n, t.rlen)
           h == g \o SubSeq(t.rbuf, 1, k)
           t1 == Read1(t, k)
           t2 == Widened(t1)
           opens == RcvBuf - t1.rlen - t1.rcv_wnd >= Least(RcvBuf \div 2, t1.mss)
           flags == "immediate"
           q == Recv(t, n, cwnd, writes)
<1>1. k \in 1 .. t.rlen
  <2>1. t.rlen \in Nat
    BY BlockFields
  <2> QED BY <2>1 DEF Least
<1>2. q = IF ~opens THEN Quiet(t1)
          ELSE IF t1.rcv_wnd = 0 THEN AttemptSend(Quiet(t2), flags, cwnd, writes)
          ELSE Quiet(t2)
  <2>1. t.rlen # 0
    BY BlockFields
  <2> QED BY <2>1 DEF Recv, Read1, Widened
<1>3. flags \in {"none", "delayed", "immediate"}
  OBVIOUS
<1> HIDE DEF k, flags, q
<1>4. Taking(t, t1, h, o)
  BY <1>1, Read1Rcv
<1> HIDE DEF h, t1
<1>5. Taking(t, t2, h, o)
  <2>1. t1 \in ControlBlock /\ Rcv(t1, h, o)
    BY <1>4 DEF Taking
  <2>2. Taking(t1, t2, h, o)
    BY <2>1, WidenedIs
  <2> QED BY <1>4, <2>2, TakingTrans
<1> HIDE DEF t2, opens
<1>6. Serves(Quiet(t1), t, w, h, o)
  <2>1. Fine(Quiet(t1), t, w, h, o) /\ Quiet(t1).t = t1 /\ t1.state = t.state /\ t1.shutdown = t.shutdown
    BY <1>4, TakingFine
  <2> DEFINE p == Quiet(t1)
  <2>2. Fine(p, t, w, h, o) /\ p.t = t1
    BY <2>1
  <2> HIDE DEF p
  <2>3. Serves(p, t, w, h, o)
    BY <2>1, <2>2 DEF Serves
  <2> QED BY <2>3 DEF p
<1>7. Fine(Quiet(t2), t, w, h, o) /\ Quiet(t2).t = t2 /\ t2.state = t.state /\ t2.shutdown = t.shutdown
  BY <1>5, TakingFine
<1> DEFINE r == Quiet(t2)
           x == AttemptSend(r, flags, cwnd, writes)
<1>8. Serves(r, t, w, h, o)
  BY <1>7 DEF Serves
<1> HIDE DEF r
<1>9. Serves(x, t, w, h, o)
  <2>1. Fine(r, t, w, h, o) /\ r.t = t2
    BY <1>7 DEF r
  <2>2. r.t.state # "CLOSED"
    BY <1>7, <2>1
  <2>3. Fine(x, t, w, h, o) /\ OnlySends(r, x)
    BY <1>3, <2>1, <2>2, AttemptSendFine
  <2> HIDE DEF x
  <2> QED BY <1>7, <2>1, <2>3 DEF Serves, OnlySends, SameReceive
<1>10. q = Quiet(t1) \/ q = x \/ q = r
  BY <1>2 DEF r
<1> HIDE DEF x
<1>11. Serves(q, t, w, h, o)
  BY <1>6, <1>8, <1>9, <1>10
<1> QED BY <1>11 DEF q, h, k

\* What the user is told once more.
Enabled1(t, readEnable, writeEnable) ==
  [t EXCEPT !.readEnable = readEnable, !.writeEnable = writeEnable]

\* What the owner is to be told of touches no stream.
LEMMA Enabled1Serves ==
  ASSUME NEW t \in ControlBlock, NEW w, NEW g, NEW o \in ControlBlock,
         Snd(t, w, o), Rcv(t, g, o), NEW x \in BOOLEAN, NEW y \in BOOLEAN
  PROVE  Serves(Quiet(Enabled1(t, x, y)), t, w, g, o)
<1> DEFINE v == Enabled1(t, x, y)
<1>1. v \in ControlBlock
  BY DEF Enabled1, ControlBlock
<1>2. SameSend(t, v) /\ SameReceive(t, v)
  BY DEF Enabled1, ControlBlock, SameSend, SameReceive
<1> HIDE DEF v
<1>3. Snd(v, w, o) /\ Rcv(v, g, o) /\ Later(t, v)
  BY <1>1, <1>2, SendSame, ReceiveSame, LaterSame
<1>4. Fine(Quiet(v), t, w, g, o) /\ Quiet(v).t = v
  BY <1>1, <1>3, QuietLater
<1> QED BY <1>2, <1>4 DEF Serves, SameSend, SameReceive, v

\* Recv when nothing is there.
LEMMA RecvNone ==
  ASSUME NEW t \in ControlBlock, NEW w, NEW g, NEW o \in ControlBlock,
         Snd(t, w, o), Rcv(t, g, o), t.rlen = 0, NEW n, NEW cwnd, NEW writes
  PROVE  Serves(Recv(t, n, cwnd, writes), t, w, g, o)
<1> DEFINE on == TRUE
           y == t.writeEnable
<1>1. Recv(t, n, cwnd, writes) = Quiet([t EXCEPT !.readEnable = on])
  BY DEF Recv
<1>2. on \in BOOLEAN /\ y \in BOOLEAN
  BY BlockFields
<1> HIDE DEF on
<1>3. [t EXCEPT !.readEnable = on] = Enabled1(t, on, y)
  BY DEF Enabled1, ControlBlock
<1>4. Recv(t, n, cwnd, writes) = Quiet(Enabled1(t, on, y))
  BY <1>1, <1>3
<1> HIDE DEF y
<1> QED BY <1>2, <1>4, Enabled1Serves

\* Send as a whole: the stream is longer by what m_sbuf has taken.
LEMMA SendFine ==
  ASSUME NEW t \in ControlBlock, NEW w, NEW g, NEW o \in ControlBlock,
         Snd(t, w, o), Rcv(t, g, o), t.state = "ESTABLISHED",
         NEW n \in Nat \ {0}, NEW cwnd \in Nat, NEW writes,
         w + Least(n, SndBuf - Len(t.sbuf)) + 1 < SeqSpace
  PROVE  Serves(Send(t, [i \in 1 .. n |-> w + i], cwnd, writes), t,
                w + Least(n, SndBuf - Len(t.sbuf)), g, o)
<1> DEFINE room == SndBuf - Len(t.sbuf)
           data == [i \in 1 .. n |-> w + i]
           k == Least(n, room)
           q == Send(t, data, cwnd, writes)
<1>1. /\ w \in Nat /\ Len(t.sbuf) \in Nat /\ SndBuf \in Nat /\ Len(t.sbuf) <= SndBuf
      /\ o.rcv_nxt >= 1 /\ Numbered(t, w) = w + 1 /\ SeqSpace \in Nat
  <2>1. /\ w \in Nat /\ Len(t.sbuf) <= SndBuf /\ o.rcv_nxt >= 1
    BY DEF Snd, Sending
  <2>2. Numbered(t, w) = w + 1
    BY DEF Numbered
  <2> QED BY <2>1, <2>2, BlockFields, PseudoTcpAssumption
<1>2. data \in Seq(Int) /\ Len(data) = n /\ \A i \in 1 .. n : data[i] = w + i
  <2>1. data \in [1 .. n -> Int]
    BY <1>1
  <2>2. data \in Seq(Int)
    BY <2>1, SeqDef
  <2>3. Len(data) = n
    BY <2>2, LenProperties
  <2> QED BY <2>2, <2>3
<1> HIDE DEF data
<1>3. CASE Len(t.sbuf) = SndBuf
  <2> DEFINE on == TRUE
             y == t.readEnable
  <2>1. q = Quiet([t EXCEPT !.writeEnable = on])
    BY <1>3 DEF Send
  <2>2. on \in BOOLEAN /\ y \in BOOLEAN
    BY BlockFields
  <2> HIDE DEF on, q
  <2>3. [t EXCEPT !.writeEnable = on] = Enabled1(t, y, on)
    BY DEF Enabled1, ControlBlock
  <2>4. q = Quiet(Enabled1(t, y, on))
    BY <2>1, <2>3
  <2> HIDE DEF y
  <2>5. Serves(q, t, w, g, o)
    BY <2>2, <2>4, Enabled1Serves
  <2>6. w + k = w
    BY <1>1, <1>3 DEF Least
  <2> QED BY <2>5, <2>6 DEF q, data
<1>4. CASE Len(t.sbuf) # SndBuf
  <2> DEFINE st == t.state
             ctrl == FALSE
             v == w + k
             b == Queue(Entered(t, st), data, ctrl)
             r == Quiet(b)
             flags == "none"
             x == AttemptSend(r, flags, cwnd, writes)
  <2>1. q = x
    <3>1. Entered(t, st) = t
      BY DEF Entered, ControlBlock
    <3>2. q = AttemptSend(Quiet(Queue(t, data, FALSE)), "none", cwnd, writes)
      BY <1>4 DEF Send
    <3> QED BY <3>1, <3>2
  <2>2. k \in Nat \ {0} /\ Taken(t, data) = k
    <3>1. room \in Nat \ {0}
      BY <1>1, <1>4
    <3> QED BY <1>2, <3>1 DEF Least, Taken
  <2>3. v \in Nat /\ v + 1 = Numbered(t, w) + Taken(t, data) /\ v + 1 < SeqSpace
    <3>1. w + k + 1 < SeqSpace
      OBVIOUS
    <3> HIDE DEF k
    <3> QED BY <1>1, <2>2, <3>1
  <2>4. \A i \in 1 .. Len(data) : data[i] = Numbered(t, w) + i - 1
    BY <1>1, <1>2
  <2>5. ctrl \in BOOLEAN /\ (ctrl <=> Numbered(t, w) = 0) /\ (ctrl => Taken(t, data) = 1)
    BY <1>1
  <2>6. st \in {"SYN_SENT", "SYN_RECEIVED", "ESTABLISHED"} /\ t.state # "CLOSED"
    OBVIOUS
  <2>7. flags \in {"none", "delayed", "immediate"}
    OBVIOUS
  <2>8. Taken(t, data) \in Nat \ {0} /\ (v > 0 \/ st = "ESTABLISHED" => o.rcv_nxt >= 1)
    BY <1>1, <2>2
  <2>9. st = t.state
    OBVIOUS
  <2> HIDE DEF st, ctrl, v, flags, q, k
  <2>10. /\ b \in ControlBlock /\ b.state = st /\ SameReceive(t, b)
         /\ Snd(b, v, o) /\ Rcv(b, g, o) /\ Later(t, b)
    <3>1. GoesOn(t, w, st, data, ctrl, v, o)
      BY <2>3, <2>4, <2>5, <2>6, <2>8 DEF GoesOn
    <3> QED BY <1>2, <2>3, <2>5, <2>6, <3>1, QueueSnd
  <2> HIDE DEF b
  <2>11. Fine(r, t, v, g, o) /\ r.t = b
    BY <2>10, QuietLater
  <2> HIDE DEF r
  <2>12. r.t.state # "CLOSED"
    BY <2>6, <2>9, <2>10, <2>11
  <2>13. Fine(x, t, v, g, o) /\ OnlySends(r, x)
    BY <2>7, <2>11, <2>12, AttemptSendFine
  <2> HIDE DEF x
  <2>14. Serves(x, t, v, g, o)
    BY <2>9, <2>10, <2>11, <2>13 DEF Serves, OnlySends, SameReceive
  <2> QED BY <2>1, <2>14 DEF q, v, k, data
<1> QED BY <1>3, <1>4

-----------------------------------------------------------------------------
(* The two ends and what is under way between them                           *)

\* An end that was not called since Connect: no timer of it runs.
Idle(t) == t.state = "LISTEN" /\ t.snd_wnd = 1 /\ ~t.t_ack /\ ~t.rto_base

\* What end p, with control block t, stands in to its peer, with o; n: what is
\* under way to the peer.
Linked(t, w, g, n, o) ==
  /\ Snd(t, w, o) /\ Rcv(t, g, o)
  /\ n \subseteq Datagram /\ \A m \in n : Out(t, m, o)

\* What an end does that opens, or does not open, the connection; c: the channel.
Role(p, t, c) ==
  /\ c.alive /\ t.shutdown # "NONE" => ~c.stream
  /\ c.ready => p = Initiator /\ t.state = "LISTEN"
  /\ IF p = Initiator THEN t.state # "SYN_RECEIVED" ELSE t.state # "SYN_SENT" /\ Heard(t)
  /\ ~c.alive /\ t.state = "ESTABLISHED" /\ t.shutdown = "GRACEFUL" => t.sbuf = <<>>

\* Nobody has opened the connection.
Unbegun == \A p \in End : net[p] = {} /\ Idle(tcp[p])

\* The two control blocks and what is under way belong together.
StreamInv ==
  /\ tcp \in [End -> ControlBlock] /\ DOMAIN net = End
  /\ written \in [End -> Nat] /\ got \in [End -> Seq(Int)]
  /\ \A p \in End :
       /\ Linked(tcp[p], written[p], got[p], net[Peer(p)], tcp[Peer(p)])
       /\ Role(p, tcp[p], chan[p])
       /\ written[p] <= Total[p]
  /\ tcp[Initiator].state = "LISTEN" => Unbegun

\* A call at p with result r, after which p has written w and read g.
Moves(p, r, w, g) ==
  /\ Fine(r, tcp[p], w, g, tcp[Peer(p)])
  /\ tcp' = [tcp EXCEPT ![p] = r.t]
  /\ DOMAIN net' = End
  /\ net'[Peer(p)] \subseteq net[Peer(p)] \cup ToSet(r.out) /\ net'[p] \subseteq net[p]
  /\ written' = [written EXCEPT ![p] = w] /\ got' = [got EXCEPT ![p] = g]

\* Such a call as a step of the channel.
Steps(p, r, w, g) ==
  /\ Moves(p, r, w, g)
  /\ Role(p, r.t, chan'[p]) /\ w <= Total[p]
  /\ \A q \in End \ {p} : chan'[q] = chan[q]
  /\ Unbegun => (p = Initiator /\ r.t.state = "SYN_SENT") \/ (r.out = <<>> /\ Idle(r.t))

\* There are two ends.
LEMMA TwoEnds ==
  ASSUME NEW p \in End
  PROVE  /\ Peer(p) \in End /\ Peer(p) # p /\ Peer(Peer(p)) = p
         /\ \A q \in End : q = p \/ q = Peer(p)
<1>1. PICK e \in End : End \ {e, Initiator} = {} /\ e # Initiator
  BY TcpChannelAssumption
<1>2. Initiator \in End
  BY TcpChannelAssumption
<1>3. ASSUME NEW q \in End
      PROVE  Peer(q) \in End /\ Peer(q) # q
  <2>1. \E x \in End : x # q
    BY <1>1, <1>2
  <2> QED BY <2>1 DEF Peer
<1>4. Peer(p) \in End /\ Peer(p) # p
  BY <1>3
<1>5. Peer(Peer(p)) \in End /\ Peer(Peer(p)) # Peer(p)
  BY <1>3, <1>4
<1>6. \A q \in End : q = e \/ q = Initiator
  BY <1>1
<1> HIDE DEF Peer
<1> QED BY <1>1, <1>2, <1>4, <1>5, <1>6

\* What p has after its own step.
LEMMA LinkedHere ==
  ASSUME NEW t \in ControlBlock, NEW o \in ControlBlock, NEW w, NEW g, NEW n,
         Linked(t, w, g, n, o),
         NEW r, NEW x, NEW h, Fine(r, t, x, h, o), NEW k, k \subseteq n \cup ToSet(r.out)
  PROVE  Linked(r.t, x, h, k, o)
<1>1. /\ n \subseteq Datagram /\ \A m \in n : Out(t, m, o)
      /\ Snd(t, w, o) /\ Rcv(t, g, o)
  BY DEF Linked
<1>2. /\ r \in Result /\ Snd(r.t, x, o) /\ Rcv(r.t, h, o) /\ Later(t, r.t)
      /\ \A i \in 1 .. Len(r.out) : Out(r.t, r.out[i], o)
  BY DEF Fine
<1>3. r.t \in ControlBlock /\ r.out \in Seq(Datagram)
  BY <1>2 DEF Result
<1>4. ASSUME NEW m \in ToSet(r.out)
      PROVE  m \in Datagram /\ Out(r.t, m, o)
  <2>1. PICK i \in DOMAIN r.out : m = r.out[i]
    BY DEF ToSet
  <2>2. i \in 1 .. Len(r.out) /\ r.out[i] \in Datagram
    BY <1>3, ElementOfSeq, LenProperties
  <2> QED BY <1>2, <2>1, <2>2
<1>5. ASSUME NEW m \in n
      PROVE  m \in Datagram /\ Out(r.t, m, o)
  <2>1. m \in Datagram /\ Out(t, m, o)
    BY <1>1
  <2> QED BY <1>2, <1>3, <2>1, OutLater
<1>6. \A m \in k : m \in Datagram /\ Out(r.t, m, o)
  BY <1>4, <1>5
<1> QED BY <1>2, <1>6 DEF Linked

\* What its peer has after it.
LEMMA LinkedThere ==
  ASSUME NEW t \in ControlBlock, NEW o \in ControlBlock, NEW w, NEW g, NEW n,
         Linked(t, w, g, n, o),
         NEW v \in ControlBlock, Later(o, v), NEW k, k \subseteq n
  PROVE  Linked(t, w, g, k, v)
<1>1. /\ n \subseteq Datagram /\ \A m \in n : Out(t, m, o)
      /\ Snd(t, w, o) /\ Rcv(t, g, o)
  BY DEF Linked
<1>2. Snd(t, w, v) /\ Rcv(t, g, v)
  BY <1>1, SndLater, RcvLater
<1>3. ASSUME NEW m \in k
      PROVE  m \in Datagram /\ Out(t, m, v)
  <2>1. m \in Datagram /\ Out(t, m, o)
    BY <1>1
  <2> QED BY <1>1, <2>1, OutLaterPeer
<1> QED BY <1>2, <1>3 DEF Linked

\* A step keeps the invariant.
LEMMA StepKeeps ==
  ASSUME StreamInv, NEW p \in End, NEW r, NEW w, NEW g, Steps(p, r, w, g)
  PROVE  StreamInv'
<1> DEFINE q == Peer(p)
<1>1. /\ q \in End /\ q # p /\ Peer(q) = p /\ \A e \in End : e = p \/ e = q
  BY TwoEnds
<1>2. /\ Fine(r, tcp[p], w, g, tcp[q])
      /\ tcp' = [tcp EXCEPT ![p] = r.t]
      /\ DOMAIN net' = End
      /\ net'[q] \subseteq net[q] \cup ToSet(r.out) /\ net'[p] \subseteq net[p]
      /\ written' = [written EXCEPT ![p] = w] /\ got' = [got EXCEPT ![p] = g]
  BY DEF Steps, Moves
<1>3. /\ tcp \in [End -> ControlBlock] /\ DOMAIN net = End
      /\ written \in [End -> Nat] /\ got \in [End -> Seq(Int)]
      /\ tcp[p] \in ControlBlock /\ tcp[q] \in ControlBlock
  BY <1>1 DEF StreamInv
<1>4. /\ Linked(tcp[p], written[p], got[p], net[q], tcp[q])
      /\ Linked(tcp[q], written[q], got[q], net[p], tcp[p])
      /\ Role(q, tcp[q], chan[q]) /\ written[q] <= Total[q]
  BY <1>1 DEF StreamInv
<1>5. r.t \in ControlBlock /\ Later(tcp[p], r.t)
  BY <1>2 DEF Fine, Result
<1>6. /\ tcp'[p] = r.t /\ tcp'[q] = tcp[q] /\ written'[p] = w /\ written'[q] = written[q]
      /\ got'[p] = g /\ got'[q] = got[q]
  BY <1>1, <1>2, <1>3
<1>7. /\ tcp' \in [End -> ControlBlock]
      /\ written' \in [End -> Nat] /\ got' \in [End -> Seq(Int)]
  <2>1. w \in Nat /\ g \in Seq(Int)
    BY <1>2 DEF Fine, Snd, Rcv
  <2> QED BY <1>2, <1>3, <1>5, <2>1
<1> HIDE DEF q
<1>8. Linked(tcp'[p], written'[p], got'[p], net'[q], tcp'[q])
  <2>1. Fine(r, tcp[p], w, g, tcp[q]) /\ net'[q] \subseteq net[q] \cup ToSet(r.out)
    BY <1>2
  <2> DEFINE k == net'[q]
  <2> HIDE DEF k
  <2>2. k \subseteq net[q] \cup ToSet(r.out)
    BY <2>1 DEF k
  <2>3. Linked(r.t, w, g, k, tcp[q])
    BY <1>3, <1>4, <2>1, <2>2, LinkedHere
  <2> QED BY <1>6, <2>3 DEF k
<1>9. Linked(tcp'[q], written'[q], got'[q], net'[p], tcp'[p])
  BY <1>2, <1>3, <1>4, <1>5, <1>6, LinkedThere
<1>10. Role(p, tcp'[p], chan'[p]) /\ written'[p] <= Total[p]
  BY <1>6 DEF Steps
<1>11. Role(q, tcp'[q], chan'[q]) /\ written'[q] <= Total[q]
  <2>1. chan'[q] = chan[q]
    BY <1>1 DEF Steps
  <2> QED BY <1>4, <1>6, <2>1
<1>12. ASSUME tcp'[Initiator].state = "LISTEN" PROVE Unbegun'
  <2>1. Initiator = p \/ Initiator = q
    BY <1>1, TcpChannelAssumption
  <2>2. tcp[Initiator].state = "LISTEN"
    BY <1>5, <1>6, <1>12, <2>1 DEF Later
  <2>3. Unbegun
    BY <2>2 DEF StreamInv
  <2>4. r.out = <<>> /\ Idle(r.t)
    <3>1. (p = Initiator /\ r.t.state = "SYN_SENT") \/ (r.out = <<>> /\ Idle(r.t))
      BY <2>3 DEF Steps
    <3> QED BY <1>6, <1>12, <3>1
  <2>5. net'[q] = {} /\ net'[p] = {}
    <3>1. net[p] = {} /\ net[q] = {}
      BY <1>1, <2>3 DEF Unbegun
    <3>2. ToSet(r.out) = {}
      BY <2>4 DEF ToSet
    <3> QED BY <1>2, <3>1, <3>2
  <2>6. Idle(tcp'[p]) /\ Idle(tcp'[q])
    BY <1>1, <1>6, <2>3, <2>4 DEF Unbegun
  <2> QED BY <1>1, <2>5, <2>6 DEF Unbegun
<1>13. ASSUME NEW e \in End
       PROVE  /\ Linked(tcp'[e], written'[e], got'[e], net'[Peer(e)], tcp'[Peer(e)])
              /\ Role(e, tcp'[e], chan'[e]) /\ written'[e] <= Total[e]
  <2>1. CASE e = p
    BY <1>8, <1>10, <2>1 DEF q
  <2>2. CASE e = q
    BY <1>1, <1>9, <1>11, <2>2
  <2> QED BY <1>1, <2>1, <2>2
<1> QED BY <1>2, <1>7, <1>12, <1>13 DEF StreamInv

-----------------------------------------------------------------------------
(* Each action keeps it                                                      *)

\* Nothing of a channel changes that Role looks at, but that a stream is closed
\* or a channel that was ready is not.
Alike(c, d) ==
  /\ d.alive = c.alive /\ (d.ready => c.ready) /\ (d.stream => c.stream)

\* A step that calls no tcp_ and adds nothing to what is under way.
LEMMA NoCallKeeps ==
  ASSUME StreamInv, tcp' = tcp, written' = written, got' = got, DOMAIN net' = End,
         \A e \in End : net'[e] \subseteq net[e] /\ Alike(chan[e], chan'[e])
  PROVE  StreamInv'
<1>1. ASSUME NEW e \in End
      PROVE  /\ Linked(tcp[e], written[e], got[e], net'[Peer(e)], tcp[Peer(e)])
             /\ Role(e, tcp[e], chan'[e]) /\ written[e] <= Total[e]
  <2>1. /\ Linked(tcp[e], written[e], got[e], net[Peer(e)], tcp[Peer(e)])
        /\ Role(e, tcp[e], chan[e]) /\ written[e] <= Total[e]
    BY DEF StreamInv
  <2>2. net'[Peer(e)] \subseteq net[Peer(e)]
    BY TwoEnds
  <2>3. Linked(tcp[e], written[e], got[e], net'[Peer(e)], tcp[Peer(e)])
    BY <2>1, <2>2 DEF Linked
  <2>4. Role(e, tcp[e], chan'[e])
    BY <2>1 DEF Role, Alike
  <2> QED BY <2>1, <2>3, <2>4
<1>2. tcp'[Initiator].state = "LISTEN" => Unbegun'
  <2> SUFFICES ASSUME tcp[Initiator].state = "LISTEN" PROVE Unbegun'
    OBVIOUS
  <2>1. Unbegun
    BY DEF StreamInv
  <2> QED BY <2>1 DEF Unbegun
<1> QED BY <1>1, <1>2 DEF StreamInv

\* What StreamInv says of one end.
LEMMA StreamAtEnd ==
  ASSUME StreamInv, NEW p \in End
  PROVE  /\ Peer(p) \in End /\ Peer(p) # p
         /\ tcp[p] \in ControlBlock /\ tcp[Peer(p)] \in ControlBlock
         /\ Snd(tcp[p], written[p], tcp[Peer(p)]) /\ Rcv(tcp[p], got[p], tcp[Peer(p)])
         /\ Snd(tcp[Peer(p)], written[Peer(p)], tcp[p])
         /\ Rcv(tcp[Peer(p)], got[Peer(p)], tcp[p])
         /\ net[p] \subseteq Datagram /\ \A m \in net[p] : Out(tcp[Peer(p)], m, tcp[p])
         /\ Role(p, tcp[p], chan[p]) /\ Role(Peer(p), tcp[Peer(p)], chan[Peer(p)])
         /\ written[p] \in Nat /\ written[p] <= Total[p]
         /\ Congestion(tcp[p]) \subseteq Nat
<1>1. Peer(p) \in End /\ Peer(p) # p /\ Peer(Peer(p)) = p
  BY TwoEnds
<1>2. tcp[p] \in ControlBlock /\ tcp[Peer(p)] \in ControlBlock
  BY <1>1 DEF StreamInv
<1>3. /\ Linked(tcp[p], written[p], got[p], net[Peer(p)], tcp[Peer(p)])
      /\ Linked(tcp[Peer(p)], written[Peer(p)], got[Peer(p)], net[p], tcp[p])
      /\ Role(p, tcp[p], chan[p]) /\ Role(Peer(p), tcp[Peer(p)], chan[Peer(p)])
      /\ written[p] <= Total[p]
  BY <1>1 DEF StreamInv
<1>4. written[p] \in Nat
  BY <1>3 DEF Linked, Snd
<1>5. Congestion(tcp[p]) \subseteq Nat
  BY <1>2, BlockFields, PseudoTcpAssumption DEF Congestion
<1> QED BY <1>1, <1>2, <1>3, <1>4, <1>5 DEF Linked

\* What is sent joins what is under way, or is lost.
LEMMA SentIn ==
  ASSUME NEW p, NEW out
  PROVE  Sent(p, out) \subseteq net[Peer(p)] \cup ToSet(out)
BY DEF Sent

\* A call writes to net what Moves allows.
LEMMA NetWritten ==
  ASSUME StreamInv, NEW p \in End, NEW out, NEW left, left \subseteq net[p],
         net' = [net EXCEPT ![Peer(p)] = Sent(p, out), ![p] = left]
  PROVE  /\ DOMAIN net' = End /\ net'[p] \subseteq net[p]
         /\ net'[Peer(p)] \subseteq net[Peer(p)] \cup ToSet(out)
<1>1. Peer(p) \in End /\ Peer(p) # p
  BY TwoEnds
<1>2. DOMAIN net = End
  BY DEF StreamInv
<1>3. net'[p] = left /\ net'[Peer(p)] = Sent(p, out) /\ DOMAIN net' = End
  BY <1>1, <1>2
<1> QED BY <1>3, SentIn

\* A call followed by AdjustClock.
LEMMA AdjustedStream ==
  ASSUME StreamInv, ChannelInv, NEW p \in End, NEW r, NEW left, NEW clock,
         chan[p].alive, Adjusted(p, r, left, clock), left \subseteq net[p],
         written' = written, got' = got,
         Fine(r, tcp[p], written[p], got[p], tcp[Peer(p)]), Answers(tcp[p], r.t),
         Unbegun => r.out = <<>> /\ Idle(r.t)
  PROVE  StreamInv'
<1> DEFINE runs == GetNextClock(r.t)
           pending == Events(p, r.ev).pendingRead
           c == [chan[p] EXCEPT !.pendingRead = pending, !.alive = runs, !.ready = @ /\ runs]
<1>1. IsChan(chan[p]) /\ DOMAIN chan = End
  BY AtEnd
<1>2. /\ tcp' = [tcp EXCEPT ![p] = r.t] /\ chan'[p] = c
      /\ \A q \in End \ {p} : chan'[q] = chan[q]
      /\ net' = [net EXCEPT ![Peer(p)] = Sent(p, r.out), ![p] = left]
  BY <1>1 DEF Adjusted
<1>3. runs \in BOOLEAN
  BY DEF GetNextClock
<1>4. /\ DOMAIN net' = End /\ net'[p] \subseteq net[p]
      /\ net'[Peer(p)] \subseteq net[Peer(p)] \cup ToSet(r.out)
  BY <1>2, NetWritten
<1> HIDE DEF pending, runs
<1>5. c.alive = runs /\ c.stream = chan[p].stream /\ (c.ready => chan[p].ready)
  BY <1>1, <1>3 DEF IsChan, Chans
<1> HIDE DEF c
<1>6. Role(p, tcp[p], chan[p])
  BY StreamAtEnd
<1>7. tcp[p].state = "LISTEN" /\ p = Initiator => Idle(r.t)
  BY DEF StreamInv
<1>8. Role(p, r.t, c)
  <2>1. c.alive /\ r.t.shutdown # "NONE" => ~c.stream
    BY <1>5, <1>6 DEF Role, Answers
  <2>2. c.ready => p = Initiator /\ r.t.state = "LISTEN"
    BY <1>5, <1>6, <1>7 DEF Role, Idle
  <2>3. IF p = Initiator THEN r.t.state # "SYN_RECEIVED" ELSE r.t.state # "SYN_SENT" /\ Heard(r.t)
    BY <1>6, <1>7 DEF Role, Idle, Answers
  <2>4. ~c.alive /\ r.t.state = "ESTABLISHED" /\ r.t.shutdown = "GRACEFUL" => r.t.sbuf = <<>>
    BY <1>5 DEF GetNextClock, runs
  <2> QED BY <2>1, <2>2, <2>3, <2>4 DEF Role
<1>9. Moves(p, r, written[p], got[p])
  <2>1. written' = [written EXCEPT ![p] = written[p]] /\ got' = [got EXCEPT ![p] = got[p]]
    BY DEF StreamInv
  <2> QED BY <1>2, <1>4, <2>1 DEF Moves
<1>10. Steps(p, r, written[p], got[p])
  BY <1>2, <1>8, <1>9, StreamAtEnd DEF Steps
<1> QED BY <1>10, StepKeeps

\* A packet that arrives: the one that opens the connection at its initiator was
\* sent by an end that has heard of it.
LEMMA PacketStream ==
  ASSUME StreamInv, ChannelInv, NEW p \in End, OnChannelRead(p)
  PROVE  StreamInv'
<1>1. PICK seg \in net[p] :
        IF chan[p].session /\ chan[p].alive
        THEN \E cwnd \in Congestion(tcp[p]), writes \in Writes :
               Adjusted(p, NotifyPacket(tcp[p], seg, cwnd, writes), net[p] \ {seg}, posted[p].clock)
        ELSE /\ net' = [net EXCEPT ![p] = @ \ {seg}]
             /\ UNCHANGED <<tcp, chan, posted>>
  BY DEF OnChannelRead
<1>2. written' = written /\ got' = got
  BY DEF OnChannelRead
<1>3. CASE chan[p].session /\ chan[p].alive
  <2> DEFINE o == tcp[Peer(p)]
  <2>1. PICK cwnd \in Congestion(tcp[p]), writes \in Writes :
          Adjusted(p, NotifyPacket(tcp[p], seg, cwnd, writes), net[p] \ {seg}, posted[p].clock)
    BY <1>1, <1>3
  <2>2. /\ tcp[p] \in ControlBlock /\ o \in ControlBlock
        /\ Snd(tcp[p], written[p], o) /\ Rcv(tcp[p], got[p], o)
        /\ Snd(o, written[Peer(p)], tcp[p]) /\ Rcv(o, got[Peer(p)], tcp[p])
        /\ seg \in Datagram /\ Out(o, seg, tcp[p]) /\ cwnd \in Nat
        /\ Role(p, tcp[p], chan[p]) /\ Role(Peer(p), o, chan[Peer(p)]) /\ Peer(p) # p
    BY <2>1, StreamAtEnd
  <2>3. ASSUME tcp[p].state = "SYN_SENT", seg.ctrl
        PROVE  o.rcv_nxt >= 1
    <3>1. p = Initiator /\ Peer(p) # Initiator
      BY <2>2, <2>3 DEF Role
    <3>2. Heard(o)
      BY <2>2, <3>1 DEF Role
    <3>3. o.snd_nxt >= 1 /\ o.snd_nxt \in Nat
      <4>1. seg.data # <<>> /\ seg.seq + Len(seg.data) <= o.snd_nxt /\ Len(seg.data) = 1
            /\ seg.seq = 0
        BY <2>2, <2>3 DEF Out
      <4>2. o.snd_nxt \in Nat
        BY <2>2, BlockFields
      <4> QED BY <4>1, <4>2
    <3> QED BY <3>2, <3>3 DEF Heard
  <2>4. ~Unbegun
    BY DEF Unbegun
  <2> DEFINE q == NotifyPacket(tcp[p], seg, cwnd, writes)
             left == net[p] \ {seg}
  <2>5. Fine(q, tcp[p], written[p], got[p], o) /\ Answers(tcp[p], q.t)
    <3> HIDE DEF o
    <3> QED BY <2>2, <2>3, NotifyPacketFine
  <2>6. Adjusted(p, q, left, posted[p].clock) /\ left \subseteq net[p]
    BY <2>1
  <2> HIDE DEF q, left
  <2> QED BY <1>2, <1>3, <2>4, <2>5, <2>6, AdjustedStream
<1>4. CASE ~(chan[p].session /\ chan[p].alive)
  <2>1. net' = [net EXCEPT ![p] = @ \ {seg}] /\ tcp' = tcp /\ chan' = chan
    BY <1>1, <1>4
  <2>2. DOMAIN net = End
    BY DEF StreamInv
  <2>3. DOMAIN net' = End /\ \A e \in End : net'[e] \subseteq net[e] /\ Alike(chan[e], chan'[e])
    BY <2>1, <2>2 DEF Alike
  <2> QED BY <1>2, <2>1, <2>3, NoCallKeeps
<1> QED BY <1>3, <1>4

\* No timer of an end that was not called runs.
LEMMA IdleClock ==
  ASSUME NEW t \in ControlBlock, Idle(t), NEW expired \in SUBSET Timers(t), NEW silent,
         NEW writes
  PROVE  NotifyClock(t, expired, silent, writes) = Quiet(t)
<1>1. expired = {}
  <2>1. ASSUME NEW x \in Timers(t) PROVE FALSE
    <3>1. /\ x \in {"rto", "probe", "ack"}
          /\ CASE x = "rto" -> t.rto_base [] x = "probe" -> t.snd_wnd = 0
               [] x = "ack" -> t.t_ack
      BY <2>1 DEF Timers
    <3>2. CASE x = "rto"
      BY <3>1, <3>2 DEF Idle
    <3>3. CASE x = "probe"
      BY <3>1, <3>3 DEF Idle
    <3>4. CASE x = "ack"
      BY <3>1, <3>4 DEF Idle
    <3> QED BY <3>1, <3>2, <3>3, <3>4
  <2> QED BY <2>1
<1>2. Quiet(t).t = t /\ t.state # "CLOSED"
  BY DEF Quiet, Idle
<1> QED BY <1>1, <1>2 DEF NotifyClock

\* An MTU touches no stream.
LEMMA NotifyMTUIs ==
  ASSUME NEW t \in ControlBlock
  PROVE  /\ NotifyMTU(t) \in ControlBlock /\ SameSend(t, NotifyMTU(t))
         /\ SameReceive(t, NotifyMTU(t))
         /\ t.state = "LISTEN" => NotifyMTU(t) = t
<1> DEFINE v == [t EXCEPT !.mss = Mss]
<1>1. Mss \in Nat \ {0}
  BY PseudoTcpAssumption
<1>2. v \in ControlBlock
  BY <1>1 DEF ControlBlock
<1>3. SameSend(t, v) /\ SameReceive(t, v)
  BY DEF ControlBlock, SameSend, SameReceive
<1>4. SameSend(t, t) /\ SameReceive(t, t)
  BY DEF SameSend, SameReceive
<1>5. NotifyMTU(t) = IF t.state = "ESTABLISHED" THEN v ELSE t
  BY DEF NotifyMTU, AdjustMTU
<1> HIDE DEF v
<1> QED BY <1>2, <1>3, <1>4, <1>5

\* The channel's connection changes.
LEMMA ChangedStream ==
  ASSUME StreamInv, ChannelInv, NEW p \in End, OnChannelConnectionChanged(p)
  PROVE  StreamInv'
<1> DEFINE v == NotifyMTU(tcp[p])
           q == Quiet(v)
           left == net[p]
           clock == posted[p].clock
<1>1. /\ tcp[p] \in ControlBlock /\ tcp[Peer(p)] \in ControlBlock
      /\ Snd(tcp[p], written[p], tcp[Peer(p)]) /\ Rcv(tcp[p], got[p], tcp[Peer(p)])
  BY StreamAtEnd
<1>2. /\ chan[p].alive /\ Adjusted(p, q, left, clock) /\ left \subseteq net[p]
      /\ written' = written /\ got' = got
  BY DEF OnChannelConnectionChanged
<1>3. /\ v \in ControlBlock /\ SameSend(tcp[p], v) /\ SameReceive(tcp[p], v)
      /\ tcp[p].state = "LISTEN" => v = tcp[p]
  BY <1>1, NotifyMTUIs
<1> HIDE DEF v
<1>4. q = With(Quiet(tcp[p]), v)
  BY DEF Quiet, With
<1>5. Fine(Quiet(tcp[p]), tcp[p], written[p], got[p], tcp[Peer(p)]) /\ Quiet(tcp[p]).t = tcp[p]
  BY <1>1, QuietFine
<1>6. Fine(q, tcp[p], written[p], got[p], tcp[Peer(p)])
  BY <1>1, <1>3, <1>4, <1>5, WithFine
<1>7. q.t = v /\ q.out = <<>>
  BY DEF Quiet
<1> HIDE DEF q, left, clock
<1>8. Answers(tcp[p], q.t)
  BY <1>3, <1>7 DEF Answers, Heard, SameSend, SameReceive
<1>9. Unbegun => q.out = <<>> /\ Idle(q.t)
  BY <1>3, <1>7 DEF Unbegun, Idle
<1> QED BY <1>2, <1>6, <1>8, <1>9, AdjustedStream

\* The clock runs out.
LEMMA ClockStream ==
  ASSUME StreamInv, ChannelInv, NEW p \in End, NEW expired, NEW silent,
         OnClock(p, expired, silent)
  PROVE  StreamInv'
<1>1. written' = written /\ got' = got
  BY DEF OnClock
<1>2. /\ tcp[p] \in ControlBlock /\ tcp[Peer(p)] \in ControlBlock
      /\ Snd(tcp[p], written[p], tcp[Peer(p)]) /\ Rcv(tcp[p], got[p], tcp[Peer(p)])
  BY StreamAtEnd
<1>3. CASE chan[p].alive /\ tcp[p].state # "CLOSED"
  <2>0. PICK writes \in Writes :
          Adjusted(p, NotifyClock(tcp[p], expired, silent, writes), net[p], FALSE)
    BY <1>3 DEF OnClock
  <2> DEFINE q == NotifyClock(tcp[p], expired, silent, writes)
             left == net[p]
             clock == FALSE
  <2>1. Adjusted(p, q, left, clock) /\ expired \in SUBSET Timers(tcp[p])
    BY <1>3, <2>0 DEF OnClock
  <2>2. Fine(q, tcp[p], written[p], got[p], tcp[Peer(p)]) /\ Answers(tcp[p], q.t)
    BY <1>2, <1>3, <2>1, NotifyClockFine
  <2>3. Unbegun => q.out = <<>> /\ Idle(q.t)
    <3> SUFFICES ASSUME Unbegun PROVE q.out = <<>> /\ Idle(q.t)
      OBVIOUS
    <3>1. Idle(tcp[p])
      BY DEF Unbegun
    <3>2. q = Quiet(tcp[p])
      BY <1>2, <2>1, <3>1, IdleClock
    <3> QED BY <3>1, <3>2 DEF Quiet
  <2>4. left \subseteq net[p]
    OBVIOUS
  <2> HIDE DEF q, left, clock
  <2> QED BY <1>1, <1>3, <2>1, <2>2, <2>3, <2>4, AdjustedStream
<1>4. CASE chan[p].alive /\ tcp[p].state = "CLOSED"
  <2> DEFINE q == Quiet(tcp[p])
             left == net[p]
             clock == FALSE
  <2>1. Adjusted(p, q, left, clock) /\ left \subseteq net[p]
    BY <1>4 DEF OnClock
  <2>2. /\ q.t = tcp[p] /\ q.out = <<>>
        /\ Fine(q, tcp[p], written[p], got[p], tcp[Peer(p)])
    BY <1>2, QuietFine
  <2> HIDE DEF q, left, clock
  <2>3. Answers(tcp[p], q.t)
    BY <2>2 DEF Answers
  <2>4. Unbegun => q.out = <<>> /\ Idle(q.t)
    BY <2>2 DEF Unbegun
  <2> QED BY <1>1, <1>4, <2>1, <2>2, <2>3, <2>4, AdjustedStream
<1>5. CASE ~chan[p].alive
  <2>1. tcp' = tcp /\ chan' = chan /\ net' = net
    BY <1>5 DEF OnClock
  <2>2. DOMAIN net' = End /\ \A e \in End : net'[e] \subseteq net[e] /\ Alike(chan[e], chan'[e])
    BY <2>1 DEF Alike, StreamInv
  <2> QED BY <1>1, <2>1, <2>2, NoCallKeeps
<1> QED BY <1>3, <1>4, <1>5

\* An established end that has heard of its peer still has after a call.
LEMMA LaterHeard ==
  ASSUME NEW t \in ControlBlock, NEW p, NEW c, Role(p, t, c), p # Initiator,
         t.state = "ESTABLISHED", NEW r, NEW w, NEW g, NEW o, Fine(r, t, w, g, o)
  PROVE  Heard(r.t)
<1>1. r.t \in ControlBlock /\ t.rcv_nxt <= r.t.rcv_nxt
  BY DEF Fine, Result, Later
<1>2. t.rcv_nxt >= 1
  BY DEF Role, Heard
<1>3. t.rcv_nxt \in Nat /\ r.t.rcv_nxt \in Nat
  BY <1>1, BlockFields
<1> QED BY <1>1, <1>2, <1>3 DEF Heard

\* A call the owner of an established stream makes.
LEMMA CalledStream ==
  ASSUME StreamInv, ChannelInv, NEW p \in End, NEW r, NEW w, NEW g,
         chan[p].alive, tcp[p].state = "ESTABLISHED", Called(p, r, net[p]),
         Serves(r, tcp[p], w, g, tcp[Peer(p)]), w <= Total[p],
         written' = [written EXCEPT ![p] = w], got' = [got EXCEPT ![p] = g]
  PROVE  StreamInv' /\ Steps(p, r, w, g)
<1> DEFINE pending == Events(p, r.ev).pendingRead
           c == [chan[p] EXCEPT !.pendingRead = pending]
           left == net[p]
<1>1. IsChan(chan[p]) /\ DOMAIN chan = End
  BY AtEnd
<1>2. /\ tcp' = [tcp EXCEPT ![p] = r.t] /\ chan'[p] = c
      /\ \A q \in End \ {p} : chan'[q] = chan[q]
      /\ net' = [net EXCEPT ![Peer(p)] = Sent(p, r.out), ![p] = left]
  BY <1>1 DEF Called
<1>3. left \subseteq net[p]
  OBVIOUS
<1> HIDE DEF pending, left
<1>4. /\ DOMAIN net' = End /\ net'[p] \subseteq net[p]
      /\ net'[Peer(p)] \subseteq net[Peer(p)] \cup ToSet(r.out)
  BY <1>2, <1>3, NetWritten
<1>5. c.alive = chan[p].alive /\ c.stream = chan[p].stream /\ c.ready = chan[p].ready
  BY <1>1, ChanNoted
<1> HIDE DEF c
<1>6. Role(p, tcp[p], chan[p])
  BY StreamAtEnd
<1>7. /\ Fine(r, tcp[p], w, g, tcp[Peer(p)])
      /\ r.t.state = "ESTABLISHED" /\ r.t.shutdown = tcp[p].shutdown
  BY DEF Serves
<1>8. Peer(p) \in End /\ tcp[p] \in ControlBlock /\ tcp[Peer(p)] \in ControlBlock
  BY StreamAtEnd
<1>9. p # Initiator => Heard(r.t)
  BY <1>6, <1>7, <1>8, LaterHeard
<1>10. Role(p, r.t, chan'[p])
  BY <1>2, <1>5, <1>6, <1>7, <1>9 DEF Role
<1>11. ~Unbegun
  BY DEF Unbegun, Idle
<1>12. Moves(p, r, w, g)
  BY <1>2, <1>4, <1>7 DEF Moves
<1> QED BY <1>2, <1>10, <1>11, <1>12, StepKeeps DEF Steps

\* Another event after what a call notified does not touch what it did.
LEMMA Renotified ==
  ASSUME NEW r, NEW t, NEW w, NEW g, NEW o, Serves(r, t, w, g, o)
  PROVE  Serves([r EXCEPT !.ev = Append(@, "read")], t, w, g, o)
<1> DEFINE ev == Append(r.ev, "read")
           q == [r EXCEPT !.ev = ev]
<1>1. r \in Result /\ r.ev \in Seq({"open", "read", "write", "close"})
  BY DEF Serves, Fine, Result
<1>2. ev \in Seq({"open", "read", "write", "close"})
  BY <1>1, AppendProperties
<1> HIDE DEF ev
<1>3. q \in Result /\ q.t = r.t /\ q.out = r.out
  BY <1>1, <1>2 DEF Result
<1>4. q = [r EXCEPT !.ev = Append(@, "read")]
  BY DEF ev
<1> HIDE DEF q
<1>5. Serves(q, t, w, g, o)
  BY <1>3 DEF Serves, Fine
<1> QED BY <1>4, <1>5

\* What a read does: r, the result of Recv, read, the bytes it copied.
ReadStep(p, r, read) ==
  IF chan[p].alive /\ tcp[p].state = "ESTABLISHED" /\ tcp[p].rlen > 0
  THEN /\ Called(p, [r EXCEPT !.ev = Append(@, "read")], net[p])
       /\ got' = [got EXCEPT ![p] = @ \o read]
  ELSE /\ tcp' = IF chan[p].alive /\ tcp[p].state = "ESTABLISHED"
                 THEN [tcp EXCEPT ![p] = r.t] ELSE tcp
       /\ UNCHANGED <<got, net, chan, posted>>

\* The owner reads.
LEMMA ReadStream ==
  ASSUME StreamInv, ChannelInv, NEW p \in End, Read(p)
  PROVE  /\ StreamInv' /\ written' = written
         /\ got' = got \/ \E r, g : /\ Steps(p, r, written[p], g) /\ r.t.shutdown = "NONE"
                                       /\ Len(g) > Len(got[p])
<1>1. PICK n \in 1..RcvBuf, cwnd \in Congestion(tcp[p]), writes \in Writes :
        ReadStep(p, Recv(tcp[p], n, cwnd, writes), SubSeq(tcp[p].rbuf, 1, Least(n, tcp[p].rlen)))
  BY DEF Read, ReadStep
<1> DEFINE t == tcp[p]
           o == tcp[Peer(p)]
           w == written[p]
           z == written[Peer(p)]
           r == Recv(t, n, cwnd, writes)
           k == Least(n, t.rlen)
           read == SubSeq(t.rbuf, 1, k)
           g == got[p] \o read
<1>2. /\ t \in ControlBlock /\ o \in ControlBlock /\ Snd(t, w, o) /\ Rcv(t, got[p], o)
      /\ Snd(o, z, t) /\ w <= Total[p] /\ cwnd \in Nat /\ Role(p, t, chan[p])
  BY StreamAtEnd
<1>3. chan[p].stream /\ written' = written /\ n \in Nat \ {0}
  <2>1. chan[p].stream /\ written' = written
    BY DEF Read
  <2>2. RcvBuf \in Nat
    BY PseudoTcpAssumption
  <2>3. n \in Nat \ {0}
    BY <2>2
  <2> QED BY <2>1, <2>3
<1>4. written' = [written EXCEPT ![p] = w]
  BY <1>3 DEF StreamInv
<1>5. CASE chan[p].alive /\ t.state = "ESTABLISHED" /\ t.rlen > 0
  <2>1. t.shutdown = "NONE" /\ t.state # "CLOSED"
    BY <1>2, <1>3, <1>5 DEF Role
  <2>2. Serves(r, t, w, g, o)
    <3> HIDE DEF t, o, w, z
    <3> QED BY <1>2, <1>3, <1>5, <2>1, RecvFine
  <2> DEFINE q == [r EXCEPT !.ev = Append(@, "read")]
  <2>3. Called(p, q, net[p]) /\ got' = [got EXCEPT ![p] = g]
    BY <1>1, <1>5 DEF ReadStep
  <2>4. tcp[p].state = "ESTABLISHED" /\ chan[p].alive
    BY <1>5
  <2>5. Len(g) > Len(got[p])
    <3>1. Rcv(r.t, g, o) /\ got[p] \in Seq(Int)
      BY <2>2, <1>2 DEF Serves, Fine, Rcv
    <3>2. t.rlen \in Nat /\ t.rlen <= RcvBuf /\ RcvBuf \in Nat /\ t.rbuf \in [1..RcvBuf -> Int]
      <4> HIDE DEF t, o
      <4>1. t.rlen + t.rcv_wnd <= RcvBuf
        BY <1>2 DEF Rcv
      <4>2. t.rlen \in Nat /\ t.rcv_wnd \in Nat /\ t.rbuf \in [1..RcvBuf -> Int]
        BY <1>2, BlockFields
      <4>3. RcvBuf \in Nat
        BY PseudoTcpAssumption
      <4> QED BY <4>1, <4>2, <4>3
    <3>3. k \in 1 .. RcvBuf
      <4> HIDE DEF t
      <4> QED BY <1>3, <1>5, <3>2 DEF Least
    <3>4. Len(read) = k /\ read \in Seq(Int)
      <4> DEFINE b == t.rbuf
      <4>1. b \in Seq(Int) /\ Len(b) = RcvBuf
        <5>1. b \in Seq(Int)
          BY <3>2, SeqDef
        <5> QED BY <3>2, <5>1, LenProperties
      <4> HIDE DEF b, k
      <4>2. \A i \in 1 .. k : b[i] \in Int
        BY <3>2, <3>3, <4>1, ElementOfSeq
      <4> QED BY <3>2, <3>3, <4>1, SubSeqProperties DEF b
    <3> HIDE DEF read, k
    <3>5. Len(g) = Len(got[p]) + Len(read) /\ Len(got[p]) \in Nat
      BY <3>1, <3>4, ConcatProperties, LenProperties
    <3> QED BY <3>3, <3>4, <3>5
  <2> HIDE DEF q, g, r
  <2>6. Serves(q, t, w, g, o)
    BY <2>2, Renotified DEF q
  <2>7. StreamInv' /\ Steps(p, q, w, g)
    <3> HIDE DEF w
    <3>1. Serves(q, tcp[p], w, g, tcp[Peer(p)])
      BY <2>6
    <3> QED BY <1>2, <1>4, <2>3, <2>4, <3>1, CalledStream
  <2>8. q.t.shutdown = "NONE"
    BY <2>1, <2>6 DEF Serves
  <2> QED BY <1>3, <2>5, <2>7, <2>8
<1>6. CASE ~(chan[p].alive /\ t.state = "ESTABLISHED" /\ t.rlen > 0)
  <2>1. /\ got' = got /\ net' = net /\ chan' = chan
        /\ tcp' = IF chan[p].alive /\ t.state = "ESTABLISHED"
                  THEN [tcp EXCEPT ![p] = r.t] ELSE tcp
    BY <1>1, <1>6 DEF ReadStep
  <2>2. CASE chan[p].alive /\ t.state = "ESTABLISHED"
    <3>1. t.rlen = 0
      BY <1>2, <1>6, <2>2, BlockFields
    <3>2. Serves(r, t, w, got[p], o)
      <4> HIDE DEF t, o, w
      <4> QED BY <1>2, <3>1, RecvNone
    <3> HIDE DEF r
    <3>3. Moves(p, r, w, got[p])
      <4>1. /\ Fine(r, t, w, got[p], o) /\ tcp' = [tcp EXCEPT ![p] = r.t]
        BY <2>1, <2>2, <3>2 DEF Serves
      <4>2. got' = [got EXCEPT ![p] = got[p]] /\ DOMAIN net = End
        BY <2>1 DEF StreamInv
      <4> QED BY <1>4, <2>1, <4>1, <4>2 DEF Moves
    <3>4. Role(p, r.t, chan[p])
      <4>1. r.t.state = "ESTABLISHED" /\ r.t.shutdown = t.shutdown
        BY <2>2, <3>2 DEF Serves
      <4>2. Fine(r, t, w, got[p], o)
        BY <3>2 DEF Serves
      <4>3. p # Initiator => Heard(r.t)
        BY <1>2, <2>2, <4>2, LaterHeard
      <4> QED BY <1>2, <2>2, <4>1, <4>3 DEF Role
    <3>5. ~Unbegun
      BY <2>2 DEF Unbegun, Idle
    <3>6. Steps(p, r, w, got[p])
      BY <1>2, <2>1, <3>3, <3>4, <3>5 DEF Steps
    <3> QED BY <1>3, <2>1, <3>6, StepKeeps
  <2>3. CASE ~(chan[p].alive /\ t.state = "ESTABLISHED")
    <3>1. tcp' = tcp
      BY <2>1, <2>3
    <3>2. DOMAIN net' = End /\ \A e \in End : net'[e] \subseteq net[e] /\ Alike(chan[e], chan'[e])
      BY <2>1 DEF Alike, StreamInv
    <3> QED BY <1>3, <2>1, <3>1, <3>2, NoCallKeeps
  <2> QED BY <2>2, <2>3
<1> QED BY <1>5, <1>6

\* The connection never writes so much that a sequence number comes again: the
\* code compares them as they are.
NothingWraps == \A p \in End : Total[p] + 1 < SeqSpace

\* What a write does: r, the result of Send, k, how much of it m_sbuf has taken.
WriteStep(p, r, k) ==
  IF chan[p].alive /\ tcp[p].state = "ESTABLISHED"
  THEN Called(p, r, net[p]) /\ written' = [written EXCEPT ![p] = @ + k]
  ELSE UNCHANGED <<tcp, chan, posted, net, written>>

\* The owner writes.
LEMMA WriteStream ==
  ASSUME NothingWraps, StreamInv, ChannelInv, NEW p \in End, Write(p)
  PROVE  /\ StreamInv' /\ got' = got
         /\ written' = written
            \/ \E w \in written[p] + 1 .. Total[p] : written' = [written EXCEPT ![p] = w]
<1> DEFINE t == tcp[p]
           o == tcp[Peer(p)]
           w == written[p]
           room == SndBuf - Len(t.sbuf)
<1>1. PICK n \in 1..(Total[p] - w), cwnd \in Congestion(t), writes \in Writes :
        WriteStep(p, Send(t, [i \in 1..n |-> w + i], cwnd, writes), Least(n, room))
  BY DEF Write, WriteStep
<1> DEFINE r == Send(t, [i \in 1 .. n |-> w + i], cwnd, writes)
           k == Least(n, room)
           v == w + k
<1>2. /\ t \in ControlBlock /\ o \in ControlBlock /\ Snd(t, w, o) /\ Rcv(t, got[p], o)
      /\ w \in Nat /\ w <= Total[p] /\ cwnd \in Nat /\ Role(p, t, chan[p])
  BY StreamAtEnd
<1>3. got' = got
  BY DEF Write
<1>4. got' = [got EXCEPT ![p] = got[p]]
  BY <1>3 DEF StreamInv
<1>5. Total[p] \in Nat /\ SeqSpace \in Nat /\ SndBuf \in Nat
  BY TcpChannelAssumption, PseudoTcpAssumption
<1>6. n \in Nat \ {0} /\ w + n <= Total[p]
  <2> HIDE DEF w
  <2> QED BY <1>1, <1>2, <1>5
<1>7. CASE chan[p].alive /\ t.state = "ESTABLISHED"
  <2>1. Called(p, r, net[p]) /\ written' = [written EXCEPT ![p] = v]
    BY <1>1, <1>7 DEF WriteStep
  <2>2. k \in Nat /\ k <= n
    <3>1. Len(t.sbuf) \in Nat /\ Len(t.sbuf) <= SndBuf
      <4> HIDE DEF t
      <4> QED BY <1>2, <1>7, BlockFields DEF Snd, Sending
    <3>2. room \in Nat
      BY <1>5, <3>1
    <3> HIDE DEF room
    <3> QED BY <1>6, <3>2 DEF Least
  <2>3. v \in Nat /\ v <= Total[p] /\ v + 1 < SeqSpace /\ v >= w
    <3>1. Total[p] + 1 < SeqSpace
      BY DEF NothingWraps
    <3> HIDE DEF k, w
    <3> QED BY <1>2, <1>5, <1>6, <2>2, <3>1
  <2>4. Serves(r, t, v, got[p], o)
    <3>1. w + Least(n, SndBuf - Len(t.sbuf)) + 1 < SeqSpace
      BY <2>3
    <3> HIDE DEF t, o, w
    <3> QED BY <1>2, <1>6, <1>7, <3>1, SendFine
  <2>5. v = w => written' = written
    BY <2>1 DEF StreamInv
  <2>6. v # w => v \in w + 1 .. Total[p]
    <3> HIDE DEF k, w
    <3> QED BY <1>2, <1>5, <2>2, <2>3
  <2>7. tcp[p].state = "ESTABLISHED" /\ chan[p].alive /\ Serves(r, tcp[p], v, got[p], tcp[Peer(p)])
    BY <1>7, <2>4
  <2> HIDE DEF v, r
  <2>8. StreamInv'
    BY <1>4, <2>1, <2>3, <2>7, CalledStream
  <2> QED BY <1>3, <2>1, <2>5, <2>6, <2>8
<1>8. CASE ~(chan[p].alive /\ t.state = "ESTABLISHED")
  <2>1. tcp' = tcp /\ chan' = chan /\ net' = net /\ written' = written
    BY <1>1, <1>8 DEF WriteStep
  <2>2. DOMAIN net' = End /\ \A e \in End : net'[e] \subseteq net[e] /\ Alike(chan[e], chan'[e])
    BY <2>1 DEF Alike, StreamInv
  <2> QED BY <1>3, <2>1, <2>2, NoCallKeeps
<1> QED BY <1>7, <1>8

\* The channel is writable: the initiator opens the connection.
LEMMA WritableStream ==
  ASSUME StreamInv, ChannelInv, NEW p \in End, OnChannelWritableState(p)
  PROVE  StreamInv'
<1> DEFINE t == tcp[p]
           o == tcp[Peer(p)]
<1>1. PICK cwnd \in Congestion(t), writes \in Writes :
        /\ tcp' = [tcp EXCEPT ![p] = Connect(t, cwnd, writes).t]
        /\ net' = [net EXCEPT ![Peer(p)] = Sent(p, Connect(t, cwnd, writes).out)]
        /\ chan' = [chan EXCEPT ![p].ready = FALSE]
  BY DEF OnChannelWritableState
<1>2. chan[p].alive /\ chan[p].ready /\ written' = written /\ got' = got
  BY DEF OnChannelWritableState
<1>3. /\ t \in ControlBlock /\ o \in ControlBlock /\ Snd(t, written[p], o)
      /\ Rcv(t, got[p], o) /\ cwnd \in Nat /\ Role(p, t, chan[p]) /\ written[p] <= Total[p]
      /\ Peer(p) # p
  BY StreamAtEnd
<1>4. p = Initiator /\ t.state = "LISTEN"
  BY <1>2, <1>3 DEF Role
<1> DEFINE r == Connect(t, cwnd, writes)
           left == net[p]
<1>5. /\ Fine(r, t, written[p], got[p], o) /\ r.t.state = "SYN_SENT"
      /\ r.t.shutdown = t.shutdown
  <2> HIDE DEF t, o
  <2> QED BY <1>3, <1>4, ConnectFine
<1>6. net' = [net EXCEPT ![Peer(p)] = Sent(p, r.out), ![p] = left] /\ left \subseteq net[p]
  BY <1>1, <1>3 DEF StreamInv
<1>7. tcp' = [tcp EXCEPT ![p] = r.t]
  BY <1>1
<1> HIDE DEF r, left
<1>8. /\ DOMAIN net' = End /\ net'[p] \subseteq net[p]
      /\ net'[Peer(p)] \subseteq net[Peer(p)] \cup ToSet(r.out)
  BY <1>6, NetWritten
<1>9. Moves(p, r, written[p], got[p])
  <2>1. written' = [written EXCEPT ![p] = written[p]] /\ got' = [got EXCEPT ![p] = got[p]]
    BY <1>2 DEF StreamInv
  <2> QED BY <1>5, <1>7, <1>8, <2>1 DEF Moves
<1>10. /\ chan'[p].alive = chan[p].alive /\ chan'[p].stream = chan[p].stream /\ ~chan'[p].ready
       /\ \A q \in End \ {p} : chan'[q] = chan[q]
  BY <1>1, AtEnd DEF IsChan, Chans
<1>11. Role(p, r.t, chan'[p])
  BY <1>2, <1>3, <1>4, <1>5, <1>10 DEF Role
<1>12. Steps(p, r, written[p], got[p])
  BY <1>3, <1>4, <1>5, <1>9, <1>10, <1>11 DEF Steps
<1> QED BY <1>12, StepKeeps

\* tcp_ is told to shut down.
Shut(t, how) == [t EXCEPT !.shutdown = how]

\* A connection that is shut down receives no more; what it has sent stays.
LEMMA ShutFine ==
  ASSUME NEW t \in ControlBlock, NEW how \in {"GRACEFUL", "FORCEFUL"},
         NEW w, NEW g, NEW o \in ControlBlock, Snd(t, w, o), Rcv(t, g, o)
  PROVE  /\ Fine(Quiet(Shut(t, how)), t, w, g, o)
         /\ Quiet(Shut(t, how)).t = Shut(t, how) /\ Quiet(Shut(t, how)).out = <<>>
         /\ Shut(t, how).shutdown = how /\ SameSend(t, Shut(t, how))
         /\ Shut(t, how).rcv_nxt = t.rcv_nxt /\ (Idle(t) => Idle(Shut(t, how)))
<1> DEFINE v == Shut(t, how)
<1>1. v \in ControlBlock
  BY DEF Shut, ControlBlock
<1>2. /\ v.shutdown = how /\ SameSend(t, v) /\ v.rcv_nxt = t.rcv_nxt /\ v.rcv_wnd = t.rcv_wnd
      /\ v.rlen = t.rlen /\ v.t_ack = t.t_ack
  BY DEF Shut, ControlBlock, SameSend
<1> HIDE DEF v
<1>3. Snd(v, w, o)
  BY <1>2, SendSame
<1>4. Rcv(v, g, o)
  BY <1>2 DEF Rcv
<1>5. Later(t, v)
  BY <1>1, <1>2, BlockFields DEF Later, Edge, SameSend, Bound
<1>6. Fine(Quiet(v), t, w, g, o) /\ Quiet(v).t = v
  BY <1>1, <1>3, <1>4, <1>5, QuietLater
<1>7. Quiet(v).out = <<>>
  BY DEF Quiet
<1>8. Idle(t) => Idle(v)
  BY <1>2 DEF Idle, SameSend
<1> QED BY <1>2, <1>6, <1>7, <1>8 DEF v

\* A step that shuts tcp_ down and leaves the channel as Role wants it.
LEMMA ShutStream ==
  ASSUME StreamInv, NEW p \in End, NEW how \in {"GRACEFUL", "FORCEFUL"},
         tcp' = [tcp EXCEPT ![p] = Shut(tcp[p], how)],
         net' = net, written' = written, got' = got,
         \A q \in End \ {p} : chan'[q] = chan[q],
         chan'[p].alive => ~chan'[p].stream, chan'[p].ready => chan[p].ready,
         how = "GRACEFUL" => chan'[p].alive = GetNextClock(Shut(tcp[p], how))
  PROVE  StreamInv'
<1> DEFINE t == tcp[p]
           o == tcp[Peer(p)]
           v == Shut(t, how)
           r == Quiet(v)
<1>1. /\ t \in ControlBlock /\ o \in ControlBlock /\ Snd(t, written[p], o)
      /\ Rcv(t, got[p], o) /\ Role(p, t, chan[p]) /\ written[p] <= Total[p]
  BY StreamAtEnd
<1>2. /\ Fine(r, t, written[p], got[p], o) /\ r.t = v /\ r.out = <<>>
      /\ v.shutdown = how /\ SameSend(t, v) /\ v.rcv_nxt = t.rcv_nxt /\ (Idle(t) => Idle(v))
  <2> HIDE DEF t, o
  <2> QED BY <1>1, ShutFine
<1>3. how = "GRACEFUL" => chan'[p].alive = GetNextClock(v)
  OBVIOUS
<1>4. tcp' = [tcp EXCEPT ![p] = r.t]
  BY <1>2
<1> HIDE DEF v, r
<1>5. Role(p, v, chan'[p])
  <2>1. chan'[p].alive /\ v.shutdown # "NONE" => ~chan'[p].stream
    OBVIOUS
  <2>2. chan'[p].ready => p = Initiator /\ v.state = "LISTEN"
    BY <1>1, <1>2 DEF Role, SameSend
  <2>3. IF p = Initiator THEN v.state # "SYN_RECEIVED" ELSE v.state # "SYN_SENT" /\ Heard(v)
    BY <1>1, <1>2 DEF Role, SameSend, Heard
  <2>4. ~chan'[p].alive /\ v.state = "ESTABLISHED" /\ v.shutdown = "GRACEFUL" => v.sbuf = <<>>
    BY <1>2, <1>3 DEF GetNextClock
  <2> QED BY <2>1, <2>2, <2>3, <2>4 DEF Role
<1>6. Moves(p, r, written[p], got[p])
  <2>1. /\ written' = [written EXCEPT ![p] = written[p]] /\ got' = [got EXCEPT ![p] = got[p]]
        /\ DOMAIN net' = End
    BY DEF StreamInv
  <2> QED BY <1>2, <1>4, <2>1 DEF Moves
<1>7. Unbegun => Idle(v)
  BY <1>2 DEF Unbegun
<1>8. Steps(p, r, written[p], got[p])
  BY <1>1, <1>2, <1>5, <1>6, <1>7 DEF Steps
<1> QED BY <1>8, StepKeeps

\* The owner closes the stream.
LEMMA CloseStream ==
  ASSUME StreamInv, ChannelInv, NEW p \in End, Close(p)
  PROVE  StreamInv'
<1>1. IsChan(chan[p]) /\ DOMAIN chan = End
  BY AtEnd
<1>2. net' = net /\ written' = written /\ got' = got
  BY DEF Close
<1>3. CASE chan[p].alive
  <2> DEFINE how == "GRACEFUL"
             runs == GetNextClock(Shut(tcp[p], how))
  <2>1. /\ tcp' = [tcp EXCEPT ![p] = Shut(tcp[p], how)]
        /\ chan' = [chan EXCEPT ![p].stream = FALSE, ![p].alive = runs, ![p].ready = @ /\ runs]
    BY <1>3 DEF Close, Shut
  <2>2. runs \in BOOLEAN
    BY DEF GetNextClock
  <2> HIDE DEF runs
  <2>3. /\ chan'[p].alive = runs /\ ~chan'[p].stream /\ (chan'[p].ready => chan[p].ready)
        /\ \A q \in End \ {p} : chan'[q] = chan[q]
    BY <1>1, <2>1, <2>2 DEF IsChan, Chans
  <2>4. how \in {"GRACEFUL", "FORCEFUL"} /\ chan'[p].alive = GetNextClock(Shut(tcp[p], how))
    BY <2>3 DEF runs
  <2> HIDE DEF how
  <2> QED BY <1>2, <2>1, <2>3, <2>4, ShutStream
<1>4. CASE ~chan[p].alive
  <2> DEFINE locked == DestroyPosted(p, chan[p].worker, FALSE)
  <2>1. /\ tcp' = tcp
        /\ chan' = [chan EXCEPT ![p].stream = FALSE, ![p].locked = locked]
    BY <1>4 DEF Close
  <2> HIDE DEF locked
  <2>2. ASSUME NEW e \in End PROVE Alike(chan[e], chan'[e])
    <3>1. CASE e = p
      BY <1>1, <2>1, <3>1 DEF IsChan, Chans, Alike
    <3>2. CASE e # p
      BY <1>1, <2>1, <3>2 DEF Alike
    <3> QED BY <3>1, <3>2
  <2>3. DOMAIN net' = End /\ \A e \in End : net'[e] \subseteq net[e] /\ Alike(chan[e], chan'[e])
    BY <1>2, <2>2 DEF StreamInv
  <2> QED BY <1>2, <2>1, <2>3, NoCallKeeps
<1> QED BY <1>3, <1>4

\* The channel is destroyed.
LEMMA DestroyedStream ==
  ASSUME StreamInv, ChannelInv, NEW p \in End, OnChannelDestroyed(p)
  PROVE  StreamInv'
<1>1. IsChan(chan[p]) /\ DOMAIN chan = End
  BY AtEnd
<1>2. /\ chan' = [chan EXCEPT ![p].session = FALSE, ![p].alive = FALSE, ![p].ready = FALSE]
      /\ net' = net /\ written' = written /\ got' = got
      /\ tcp' = [tcp EXCEPT ![p].shutdown = IF chan[p].alive THEN "FORCEFUL" ELSE @]
  BY DEF OnChannelDestroyed
<1>3. /\ ~chan'[p].alive /\ ~chan'[p].ready /\ chan'[p].stream = chan[p].stream
      /\ \A q \in End \ {p} : chan'[q] = chan[q]
  BY <1>1, <1>2 DEF IsChan, Chans
<1>4. CASE chan[p].alive
  <2> DEFINE how == "FORCEFUL"
  <2>1. tcp' = [tcp EXCEPT ![p] = Shut(tcp[p], how)]
    BY <1>2, <1>4 DEF Shut
  <2>2. how \in {"GRACEFUL", "FORCEFUL"} /\ how # "GRACEFUL"
    OBVIOUS
  <2> HIDE DEF how
  <2> QED BY <1>2, <1>3, <2>1, <2>2, ShutStream
<1>5. CASE ~chan[p].alive
  <2>1. tcp' = tcp
    BY <1>2, <1>5 DEF StreamInv, ControlBlock
  <2>2. ASSUME NEW e \in End PROVE Alike(chan[e], chan'[e])
    <3>1. CASE e = p
      BY <1>1, <1>2, <1>5, <3>1 DEF IsChan, Chans, Alike
    <3>2. CASE e # p
      BY <1>3, <3>2 DEF Alike
    <3> QED BY <3>1, <3>2
  <2>3. DOMAIN net' = End /\ \A e \in End : net'[e] \subseteq net[e] /\ Alike(chan[e], chan'[e])
    BY <1>2, <2>2 DEF StreamInv
  <2> QED BY <1>2, <2>1, <2>3, NoCallKeeps
<1> QED BY <1>4, <1>5

\* What begins nothing: packets that are lost, events, purges, destruction.
LEMMA RestStream ==
  ASSUME StreamInv, ChannelInv, NEW p \in End,
         Lose(p) \/ OnPurge(p) \/ OnStreamEvent(p) \/ Destroy(p) \/ Unlock(p)
  PROVE  StreamInv' /\ written' = written /\ got' = got
<1>1. IsChan(chan[p]) /\ DOMAIN chan = End /\ DOMAIN net = End
  BY AtEnd DEF StreamInv
<1>2. tcp' = tcp /\ written' = written /\ got' = got
  BY DEF Lose, OnPurge, OnStreamEvent, Destroy, Unlock
<1>3. DOMAIN net' = End /\ \A e \in End : net'[e] \subseteq net[e]
  <2>1. CASE Lose(p)
    <3>1. PICK seg \in net[p] : net' = [net EXCEPT ![p] = @ \ {seg}]
      BY <2>1 DEF Lose
    <3> QED BY <1>1, <3>1
  <2>2. CASE OnPurge(p) \/ OnStreamEvent(p) \/ Destroy(p) \/ Unlock(p)
    <3>1. net' = net
      BY <2>2 DEF OnPurge, OnStreamEvent, Destroy, Unlock
    <3> QED BY <1>1, <3>1
  <2> QED BY <2>1, <2>2
<1>4. ASSUME NEW e \in End PROVE Alike(chan[e], chan'[e])
  <2>1. CASE Lose(p)
    BY <2>1 DEF Lose, Alike
  <2>2. CASE OnPurge(p)
    <3> DEFINE goes == DestroyPosted(p, FALSE, chan[p].stream)
    <3>1. chan' = [chan EXCEPT ![p].worker = FALSE, ![p].locked = goes]
      BY <2>2 DEF OnPurge
    <3> HIDE DEF goes
    <3> QED BY <1>1, <3>1 DEF IsChan, Chans, Alike
  <2>3. CASE OnStreamEvent(p)
    <3> DEFINE pending == chan[p].pendingRead /\ "read" \notin Head(posted[p].events)
    <3>1. chan' = [chan EXCEPT ![p].pendingRead = pending]
      BY <2>3 DEF OnStreamEvent
    <3> HIDE DEF pending
    <3> QED BY <1>1, <3>1 DEF IsChan, Chans, Alike
  <2>4. CASE Destroy(p)
    <3>1. chan' = [chan EXCEPT ![p].deleted = TRUE]
      BY <2>4 DEF Destroy
    <3> QED BY <1>1, <3>1 DEF IsChan, Chans, Alike
  <2>5. CASE Unlock(p)
    <3>1. chan' = [chan EXCEPT ![p].locked = FALSE]
      BY <2>5 DEF Unlock
    <3> QED BY <1>1, <3>1 DEF IsChan, Chans, Alike
  <2> QED BY <2>1, <2>2, <2>3, <2>4, <2>5
<1>5. \A e \in End : net'[e] \subseteq net[e] /\ Alike(chan[e], chan'[e])
  BY <1>3, <1>4
<1> QED BY <1>2, <1>3, <1>5, NoCallKeeps

\* An end that listens stands well with another that does.
LEMMA ListeningLinked ==
  /\ Listening \in ControlBlock
  /\ Linked(Listening, 0, <<>>, {}, Listening)
  /\ Idle(Listening)
<1> DEFINE t == Listening
           rbuf == [i \in 1..RcvBuf |-> Junk]
<1>1. /\ RcvBuf \in Nat \ {0} /\ SndBuf \in Nat \ {0} /\ MinMss \in Nat \ {0} /\ SeqSpace \in Nat
      /\ SndBuf + RcvBuf < SeqSpace
  BY PseudoTcpAssumption
<1>2. rbuf \in [1..RcvBuf -> Int]
  BY DEF Junk
<1> HIDE DEF rbuf
<1>3. t = [state |-> "LISTEN", shutdown |-> "NONE", mss |-> MinMss,
           sbuf |-> <<>>, slist |-> <<>>, snd_una |-> 0, snd_nxt |-> 0, snd_wnd |-> 1,
           rbuf |-> rbuf, rlen |-> 0, rlist |-> <<>>,
           rcv_nxt |-> 0, rcv_wnd |-> RcvBuf,
           t_ack |-> FALSE, dup_acks |-> 0, recover |-> 0,
           rto_base |-> FALSE, rx_rto |-> 0, heard |-> TRUE,
           readEnable |-> TRUE, writeEnable |-> FALSE]
  BY DEF Listening, rbuf
<1> HIDE DEF t
<1>4. t \in ControlBlock
  BY <1>1, <1>2, <1>3 DEF ControlBlock
<1>5. /\ t.state = "LISTEN" /\ t.shutdown = "NONE" /\ t.sbuf = <<>> /\ t.slist = <<>>
      /\ t.snd_una = 0 /\ t.snd_nxt = 0 /\ t.snd_wnd = 1 /\ t.rlen = 0 /\ t.rlist = <<>>
      /\ t.rcv_nxt = 0 /\ t.rcv_wnd = RcvBuf /\ ~t.t_ack /\ t.recover = 0 /\ ~t.rto_base
  BY <1>3
<1>6. Numbered(t, 0) = 0 /\ Edge(t) = RcvBuf
  BY <1>1, <1>5 DEF Numbered, Edge
<1>7. Sending(t, 0)
  BY <1>1, <1>5 DEF Sending, Chain
<1>8. Snd(t, 0, t)
  BY <1>1, <1>5, <1>6, <1>7 DEF Snd
<1>9. Rcv(t, <<>>, t)
  BY <1>1, <1>5 DEF Rcv, Kept, Bound
<1>10. Linked(t, 0, <<>>, {}, t) /\ Idle(t)
  BY <1>5, <1>8, <1>9 DEF Linked, Idle
<1> QED BY <1>4, <1>10 DEF t

\* StreamInv is inductive.
LEMMA StreamBegins ==
  ASSUME Init
  PROVE  StreamInv
<1>1. /\ tcp = [p \in End |-> Listening] /\ net = [p \in End |-> {}]
      /\ written = [p \in End |-> 0] /\ got = [p \in End |-> <<>>]
  BY DEF Init
<1>2. tcp \in [End -> ControlBlock] /\ written \in [End -> Nat] /\ got \in [End -> Seq(Int)]
      /\ DOMAIN net = End
  BY <1>1, ListeningLinked
<1>3. ASSUME NEW p \in End
      PROVE  /\ Linked(tcp[p], written[p], got[p], net[Peer(p)], tcp[Peer(p)])
             /\ Role(p, tcp[p], chan[p]) /\ written[p] <= Total[p]
  <2>1. Peer(p) \in End
    BY TwoEnds
  <2>2. /\ tcp[p] = Listening /\ tcp[Peer(p)] = Listening /\ net[Peer(p)] = {}
        /\ written[p] = 0 /\ got[p] = <<>>
    BY <1>1, <2>1
  <2>3. /\ Listening.state = "LISTEN" /\ Listening.shutdown = "NONE" /\ Listening.snd_nxt = 0
    BY DEF Listening
  <2>4. chan[p].alive /\ (chan[p].ready => p = Initiator)
    BY DEF Init
  <2>5. Role(p, tcp[p], chan[p])
    <3>1. Heard(Listening)
      BY <2>3 DEF Heard
    <3> QED BY <2>2, <2>3, <2>4, <3>1 DEF Role
  <2>6. 0 <= Total[p]
    BY TcpChannelAssumption
  <2> QED BY <2>2, <2>5, <2>6, ListeningLinked
<1>4. Unbegun
  BY <1>1, ListeningLinked DEF Unbegun
<1> QED BY <1>2, <1>3, <1>4 DEF StreamInv

\* What a step makes of the stream: one end writes or reads, or neither does.
LEMMA StreamNext ==
  ASSUME NothingWraps, StreamInv, ChannelInv, Next
  PROVE  /\ StreamInv'
         /\ \/ written' = written /\ got' = got
            \/ \E p \in End :
                 \/ /\ got' = got
                    /\ \E w \in written[p] + 1 .. Total[p] : written' = [written EXCEPT ![p] = w]
                 \/ /\ written' = written
                    /\ \E r, g : /\ Steps(p, r, written[p], g) /\ r.t.shutdown = "NONE"
                                   /\ Len(g) > Len(got[p])
<1>1. PICK p \in End :
        \/ OnChannelWritableState(p) \/ OnChannelRead(p) \/ OnChannelConnectionChanged(p)
        \/ Lose(p)
        \/ \E expired \in SUBSET {"rto", "probe", "ack"}, silent \in BOOLEAN :
             OnClock(p, expired, silent)
        \/ OnPurge(p) \/ OnStreamEvent(p) \/ Read(p) \/ Write(p) \/ Close(p)
        \/ SessionEnds(p) \/ DestroyChannel(p) \/ Destroy(p) \/ Unlock(p)
  BY DEF Next
<1>2. CASE OnChannelWritableState(p)
  BY <1>2, WritableStream DEF OnChannelWritableState
<1>3. CASE OnChannelRead(p)
  BY <1>3, PacketStream DEF OnChannelRead
<1>4. CASE \E expired \in SUBSET {"rto", "probe", "ack"}, silent \in BOOLEAN :
             OnClock(p, expired, silent)
  BY <1>4, ClockStream DEF OnClock
<1>10. CASE OnChannelConnectionChanged(p)
  BY <1>10, ChangedStream DEF OnChannelConnectionChanged
<1>5. CASE Lose(p) \/ OnPurge(p) \/ OnStreamEvent(p) \/ Destroy(p) \/ Unlock(p)
  BY <1>5, RestStream
<1>6. CASE Read(p)
  BY <1>6, ReadStream
<1>7. CASE Write(p)
  BY <1>7, WriteStream
<1>8. CASE Close(p)
  BY <1>8, CloseStream DEF Close
<1>9. CASE SessionEnds(p) \/ DestroyChannel(p)
  <2>1. OnChannelDestroyed(p)
    BY <1>9 DEF SessionEnds, DestroyChannel
  <2> QED BY <2>1, DestroyedStream DEF OnChannelDestroyed
<1> QED BY <1>1, <1>2, <1>3, <1>4, <1>5, <1>6, <1>7, <1>8, <1>9, <1>10

\* StreamInv is inductive: every call keeps what the two control blocks and what
\* is under way between them have to do with each other.
THEOREM StreamInvariant == ASSUME NothingWraps PROVE Spec => []StreamInv
<1>1. Init => StreamInv
  BY StreamBegins
<1>2. StreamInv /\ ChannelInv /\ [Next]_vars => StreamInv'
  <2> SUFFICES ASSUME StreamInv, ChannelInv, [Next]_vars PROVE StreamInv'
    OBVIOUS
  <2>1. CASE UNCHANGED vars
    BY <2>1 DEF vars, StreamInv, Unbegun
  <2>2. CASE Next
    BY <2>2, StreamNext
  <2> QED BY <2>1, <2>2
<1> QED BY <1>1, <1>2, ChannelInvariant, PTL DEF Spec

-----------------------------------------------------------------------------
(* What follows                                                              *)

\* What was read is the numbers from 1; a reader is not ahead of the writer.
LEMMA ReadBehind ==
  ASSUME NEW t \in ControlBlock, NEW o \in ControlBlock, NEW g, NEW z,
         Rcv(t, g, o), Snd(o, z, t), t.shutdown = "NONE"
  PROVE  Len(g) \in Nat /\ g = [i \in 1 .. Len(g) |-> i] /\ Len(g) + t.rlen <= z
<1>1. g \in Seq(Int) /\ (\A i \in 1 .. Len(g) : g[i] = i) /\ Kept(t, g, o)
      /\ t.rcv_nxt <= o.snd_nxt
  BY DEF Rcv
<1>2. Len(g) \in Nat /\ DOMAIN g = 1 .. Len(g)
  BY <1>1, LenProperties
<1>3. g = [i \in 1 .. Len(g) |-> i]
  <2>1. g = [i \in DOMAIN g |-> g[i]]
    BY <1>1, SeqDef
  <2> DEFINE n == Len(g)
  <2>2. DOMAIN g = 1 .. n /\ \A i \in 1 .. n : g[i] = i
    BY <1>1, <1>2
  <2> HIDE DEF n
  <2>3. g = [i \in 1 .. n |-> i]
    BY <2>1, <2>2
  <2> QED BY <2>3 DEF n
<1>4. Len(g) + t.rlen = IF t.rcv_nxt = 0 THEN 0 ELSE t.rcv_nxt - 1
  BY <1>1 DEF Kept
<1>5. o.snd_nxt <= z + 1 /\ z \in Nat
  <2>1. z \in Nat /\ o.snd_nxt <= Numbered(o, z) /\ o.snd_nxt \in Nat
    BY BlockFields DEF Snd
  <2>2. Numbered(o, z) = 0 \/ Numbered(o, z) = z + 1
    BY DEF Numbered
  <2> QED BY <2>1, <2>2
<1>6. t.rcv_nxt \in Nat /\ o.snd_nxt \in Nat
  BY BlockFields
<1> QED BY <1>1, <1>2, <1>3, <1>4, <1>5, <1>6

\* PseudoTcp's whole purpose: what is read at an end is what the other end has
\* written, in order, without a gap, a repetition or junk, whatever is lost,
\* repeated or reordered under way.
THEOREM StreamOrdered == ASSUME NothingWraps PROVE Spec => StreamIsOrdered
<1>1. Init => Stream!Init
  BY DEF Init, Stream!Init
<1>2. StreamInv /\ ChannelInv /\ [Next]_vars => [Stream!Next]_<<written, got>>
  <2> SUFFICES ASSUME StreamInv, ChannelInv, Next, <<written, got>>' # <<written, got>>
               PROVE  Stream!Next
    BY DEF vars
  <2>1. StreamInv'
    BY StreamNext
  <2>2. PICK p \in End :
          \/ /\ got' = got
             /\ \E w \in written[p] + 1 .. Total[p] : written' = [written EXCEPT ![p] = w]
          \/ /\ written' = written
             /\ \E r, g : /\ Steps(p, r, written[p], g) /\ r.t.shutdown = "NONE"
                              /\ Len(g) > Len(got[p])
    BY StreamNext
  <2>3. CASE got' = got
             /\ \E w \in written[p] + 1 .. Total[p] : written' = [written EXCEPT ![p] = w]
    BY <2>3 DEF Stream!Next, Stream!Write
  <2>4. CASE written' = written
             /\ \E r, g : /\ Steps(p, r, written[p], g) /\ r.t.shutdown = "NONE"
                              /\ Len(g) > Len(got[p])
    <3>1. PICK r, g : /\ Steps(p, r, written[p], g) /\ r.t.shutdown = "NONE"
                      /\ Len(g) > Len(got[p])
      BY <2>4
    <3> DEFINE o == tcp[Peer(p)]
               z == written[Peer(p)]
               n == Len(g)
    <3>2. /\ tcp[p] \in ControlBlock /\ o \in ControlBlock /\ Snd(o, z, tcp[p])
          /\ Fine(r, tcp[p], written[p], g, o) /\ got' = [got EXCEPT ![p] = g]
      BY <3>1, StreamAtEnd DEF Steps, Moves
    <3>3. got \in [End -> Seq(Int)]
      BY DEF StreamInv
    <3> HIDE DEF o, z
    <3>4. r.t \in ControlBlock /\ Rcv(r.t, g, o) /\ Later(tcp[p], r.t)
      BY <3>2 DEF Fine, Result
    <3>5. Snd(o, z, r.t)
      BY <3>2, <3>4, SndLater
    <3>6. n \in Nat /\ g = [i \in 1 .. n |-> i] /\ n + r.t.rlen <= z
      BY <3>1, <3>2, <3>4, <3>5, ReadBehind
    <3>7. r.t.rlen \in Nat /\ z \in Nat /\ Len(got[p]) \in Nat
      BY <3>3, <3>4, <3>5, BlockFields, LenProperties DEF Snd
    <3>8. n > Len(got[p])
      BY <3>1
    <3> HIDE DEF n
    <3>9. n \in Len(got[p]) + 1 .. z
      BY <3>6, <3>7, <3>8
    <3>10. Stream!Peer(p) = Peer(p)
      BY DEF Peer, Stream!Peer
    <3>11. got' = [got EXCEPT ![p] = [i \in 1..n |-> i]]
      BY <3>2, <3>6
    <3>12. n \in Len(got[p]) + 1 .. written[Stream!Peer(p)]
      BY <3>9, <3>10 DEF z
    <3>13. Stream!Read(p)
      BY <2>4, <3>11, <3>12 DEF Stream!Read
    <3> QED BY <3>13 DEF Stream!Next
  <2> QED BY <2>2, <2>3, <2>4
<1> QED BY <1>1, <1>2, StreamInvariant, ChannelInvariant, PTL DEF Spec, StreamIsOrdered, Stream!Spec

\* A stream its owner closed in peace had delivered everything when its
\* connection was destroyed, unless the other end had ceased to listen: an empty
\* m_sbuf means that the peer has what was sent.
THEOREM ClosedIsFlushed == ASSUME NothingWraps PROVE Spec => []FlushedOnClose
<1>1. StreamInv => FlushedOnClose
  <2> SUFFICES ASSUME StreamInv, NEW p \in End, ~chan[p].alive,
                      tcp[p].state = "ESTABLISHED", tcp[p].shutdown = "GRACEFUL",
                      tcp[Peer(p)].shutdown = "NONE"
               PROVE  Len(got[Peer(p)]) + tcp[Peer(p)].rlen >= written[p]
    BY BlockFields, StreamAtEnd DEF FlushedOnClose
  <2> DEFINE t == tcp[p]
             o == tcp[Peer(p)]
             w == written[p]
             g == got[Peer(p)]
  <2>1. /\ t \in ControlBlock /\ o \in ControlBlock /\ Snd(t, w, o) /\ Rcv(o, g, t)
        /\ Role(p, t, chan[p]) /\ w \in Nat
    BY StreamAtEnd
  <2>2. t.sbuf = <<>> /\ t.state = "ESTABLISHED" /\ o.shutdown = "NONE"
    BY <2>1 DEF Role
  <2> HIDE DEF t, o, w, g
  <2>3. t.snd_una + Len(t.sbuf) = w + 1 /\ t.snd_una <= o.rcv_nxt /\ o.rcv_nxt >= 1
    BY <2>1, <2>2 DEF Snd, Sending, Numbered
  <2>4. Len(t.sbuf) = 0 /\ t.snd_una \in Nat /\ o.rcv_nxt \in Nat
    BY <2>1, <2>2, BlockFields
  <2>5. Len(g) + o.rlen = IF o.rcv_nxt = 0 THEN 0 ELSE o.rcv_nxt - 1
    BY <2>1, <2>2 DEF Rcv, Kept
  <2>6. Len(g) + o.rlen >= w
    BY <2>1, <2>3, <2>4, <2>5
  <2> QED BY <2>6 DEF o, w, g
<1> QED BY <1>1, StreamInvariant, PTL

\* A sender never has more under way than the receiver has room for: what
\* arrives is never cut, so that every segment is acknowledged as it was sent.
THEOREM NothingOverruns == ASSUME NothingWraps PROVE Spec => []NoOverrun
<1>1. StreamInv => NoOverrun
  <2> SUFFICES ASSUME StreamInv, NEW p \in End
               PROVE  tcp[p].snd_nxt - tcp[Peer(p)].rcv_nxt <= RcvBuf - tcp[Peer(p)].rlen
    BY DEF NoOverrun
  <2> DEFINE t == tcp[p]
             o == tcp[Peer(p)]
  <2>1. /\ t \in ControlBlock /\ o \in ControlBlock
        /\ Snd(t, written[p], o) /\ Rcv(o, got[Peer(p)], t)
    BY StreamAtEnd
  <2> HIDE DEF t, o
  <2>2. t.snd_nxt <= o.rcv_nxt + o.rcv_wnd /\ o.rlen + o.rcv_wnd <= RcvBuf
    BY <2>1 DEF Snd, Edge, Rcv
  <2>3. /\ t.snd_nxt \in Nat /\ o.rcv_nxt \in Nat /\ o.rcv_wnd \in Nat /\ o.rlen \in Nat
        /\ RcvBuf \in Nat
    BY <2>1, BlockFields, PseudoTcpAssumption
  <2>4. t.snd_nxt - o.rcv_nxt <= RcvBuf - o.rlen
    BY <2>2, <2>3
  <2> QED BY <2>4 DEF t, o
<1> QED BY <1>1, StreamInvariant, PTL

=============================================================================
