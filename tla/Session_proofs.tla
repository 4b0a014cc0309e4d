---------------------------- MODULE Session_proofs ----------------------------
(* Theorems about the signalling of a session.  What a turn of a peer makes of *)
(* its session, of what it has sent and of its open tasks is an entry, and the *)
(* operators of Session map entries to entries; a lemma says for each of them  *)
(* what it preserves.  The invariant relates each peer's session to what it    *)
(* has under way, and the peers to each other.                                *)
EXTENDS Session, SequenceTheorems, TLAPS

Entry == [s : SessionRecord, out : [Peer -> Seq(Stanza)], open : SUBSET (Signals \X Peer)]

Answers == {"accept", "reject", "redirect"}

\* The answers and the offers among the stanzas of a queue.
Said(s) == {m \in Range(s) : m.type \in Answers \cup {"initiate"}}

Has(s, k) == \E m \in Said(s) : m.type = k

\* b may not follow a: an offer is answered once, a refusal is the last word,
\* and a peer is asked once.
Wrong(a, b) ==
  \/ a \in {"reject", "redirect"} /\ b \in Answers \cup {"terminate"}
  \/ a = "accept" /\ b \in Answers
  \/ a = "initiate" /\ b = "initiate"

Ordered(s) == \A i, j \in 1..Len(s) : i < j => ~Wrong(s[i].type, s[j].type)

\* What a transport that connects is given up by.
Timed(s) ==
  s.impl /\ s.requested /\ ~s.writable /\ s.error = "NONE"
    => s.timer \/ \E i \in 1..Len(s.posted) : s.posted[i] = "connecting"

\* A peer in this state, that has sent this, was made an offer it has answered
\* or is about to answer.
Answering(state, out) ==
  state = "RECEIVEDINITIATE" \/ \E k \in Answers : Has(out[Caller], k)

\* The peer went on with what it was offered, or it is gone.
WentOn(state) == state \notin {"none", "INIT", "RECEIVEDINITIATE", "SENTREJECT", "SENTREDIRECT"}

\* A peer that refused says no more.
Silent == {"SENTREJECT", "SENTREDIRECT"} \cup Terminated \cup {"gone", "crashed"}

\* What p has, for a peer p that is offered the session.
CalleeOk(p, state, remote, out) ==
  /\ state \notin Ended => remote = Caller
  /\ state \notin {"INIT", "SENTINITIATE", "RECEIVEDACCEPT", "RECEIVEDREJECT"}
  /\ Ordered(out[Caller])
  /\ ~Has(out[Caller], "initiate")
  /\ \A k \in Answers : Has(out[Caller], k) => state \notin {"none", "RECEIVEDINITIATE"}
  /\ Has(out[Caller], "accept") => WentOn(state)
  /\ Has(out[Caller], "reject") \/ Has(out[Caller], "redirect") => state \in Silent
  /\ \A m \in Said(out[Caller]) : m.type = "redirect" => m.arg \in Target[p]
  /\ \A q \in Peer \ {Caller} : Said(out[q]) = {}

\* What the initiator has.
CallerOk(state, remote, out) ==
  /\ state \notin Ended => remote \in Peer \ {Caller}
  /\ state \notin {"RECEIVEDINITIATE", "SENTACCEPT", "SENTREJECT", "SENTREDIRECT"}
  /\ \A q \in Peer : Ordered(out[q]) /\ \A k \in Answers : ~Has(out[q], k)
  /\ Said(out[Caller]) = {}

\* Who the initiator talks to, or talked to when it ended.
Current(p) ==
  \/ session[Caller].state \in {"gone", "crashed"}
  \/ Alive(Caller) /\ session[Caller].remote = p

CalleeInv(p) ==
  /\ CalleeOk(p, session[p].state, session[p].remote, net[p])
  /\ Answering(session[p].state, net[p]) \/ Has(net[Caller][p], "initiate") => Current(p)
  /\ Answering(session[p].state, net[p]) => ~Has(net[Caller][p], "initiate")

CallerInv ==
  /\ CallerOk(session[Caller].state, session[Caller].remote, net[Caller])
  /\ session[Caller].state \in {"RECEIVEDACCEPT", "INPROGRESS"} =>
       /\ WentOn(session[session[Caller].remote].state)
       /\ ~Has(net[Caller][session[Caller].remote], "initiate")

SessionInv == TypeOK /\ CallerInv /\ \A p \in Peer \ {Caller} : CalleeInv(p)

\* Each attempt to connect is watched, unless it is one a redirect carries on.
TimedInv == \A p \in Peer : p # Caller \/ (\A q \in Peer : Target[q] = {}) => Timed(session[p])

-----------------------------------------------------------------------------
(* Queues of stanzas                                                         *)

\* A stanza is added to what a queue holds.
LEMMA RangeOfAppend ==
  ASSUME NEW S, NEW s \in Seq(S), NEW m \in S
  PROVE  Range(Append(s, m)) = Range(s) \cup {m}
<1>1. DOMAIN Append(s, m) = 1..(Len(s) + 1) /\ DOMAIN s = 1..Len(s)
  OBVIOUS
<1>2. \A i \in 1..Len(s) : Append(s, m)[i] = s[i]
  OBVIOUS
<1>3. Append(s, m)[Len(s) + 1] = m
  OBVIOUS
<1>4. 1..(Len(s) + 1) = 1..Len(s) \cup {Len(s) + 1}
  OBVIOUS
<1> QED BY <1>1, <1>2, <1>3, <1>4 DEF Range

\* What is left of a queue was in it.
LEMMA RangeOfTail ==
  ASSUME NEW S, NEW s \in Seq(S), s # <<>>
  PROVE  Range(Tail(s)) \subseteq Range(s)
BY DEF Range

\* Only an answer or an offer counts among what is said.
LEMMA SaidAppend ==
  ASSUME NEW s \in Seq(Stanza), NEW m \in Stanza
  PROVE  Said(Append(s, m)) = Said(s) \cup (IF m.type \in Answers \cup {"initiate"} THEN {m} ELSE {})
BY RangeOfAppend DEF Said

\* A stanza that may follow all that is there keeps a queue in order.
LEMMA OrderedAppend ==
  ASSUME NEW s \in Seq(Stanza), Ordered(s), NEW m \in Stanza,
         \A x \in Range(s) : ~Wrong(x.type, m.type)
  PROVE  Ordered(Append(s, m))
<1> SUFFICES ASSUME NEW i \in 1..Len(Append(s, m)), NEW j \in 1..Len(Append(s, m)), i < j
             PROVE  ~Wrong(Append(s, m)[i].type, Append(s, m)[j].type)
  BY DEF Ordered
<1>1. i \in 1..Len(s) /\ Append(s, m)[i] = s[i]
  OBVIOUS
<1>2. CASE j \in 1..Len(s)
  BY <1>1, <1>2 DEF Ordered
<1>3. CASE j = Len(s) + 1
  <2>1. s[i] \in Range(s) /\ Append(s, m)[j] = m
    BY <1>1, <1>3 DEF Range
  <2> QED BY <1>1, <2>1
<1> QED BY <1>2, <1>3

\* A queue stays in order when its head is taken.
LEMMA OrderedTail ==
  ASSUME NEW s \in Seq(Stanza), Ordered(s), s # <<>>
  PROVE  /\ Ordered(Tail(s)) /\ Said(Tail(s)) \subseteq Said(s)
         /\ \A k \in Answers \cup {"initiate"} : Wrong(Head(s).type, k) => ~Has(Tail(s), k)
<1>1. ASSUME NEW i \in 1..Len(Tail(s)) PROVE i + 1 \in 1..Len(s) /\ Tail(s)[i] = s[i + 1]
  OBVIOUS
<1>2. Ordered(Tail(s))
  BY <1>1 DEF Ordered
<1>3. Said(Tail(s)) \subseteq Said(s)
  BY RangeOfTail DEF Said
<1>4. ASSUME NEW k \in Answers \cup {"initiate"}, Wrong(Head(s).type, k), Has(Tail(s), k)
      PROVE  FALSE
  <2>1. PICK i \in 1..Len(Tail(s)) : Tail(s)[i].type = k
    BY <1>4 DEF Has, Said, Range
  <2>2. i + 1 \in 1..Len(s) /\ s[i + 1].type = k /\ 1 \in 1..Len(s) /\ 1 < i + 1
    BY <1>1, <2>1
  <2>3. Head(s) = s[1]
    OBVIOUS
  <2> QED BY <1>4, <2>2, <2>3 DEF Ordered
<1> QED BY <1>2, <1>3, <1>4

-----------------------------------------------------------------------------
(* What a step of a turn leaves alone                                        *)

\* b says what a says, in an order that is as good.
SameWords(a, b) == Said(b) = Said(a) /\ (Ordered(a) => Ordered(b))

\* r follows e in a turn: it is in the same state, talks to the same peer, and
\* has said nothing that matters.
Chat(e, r) ==
  /\ r \in Entry
  /\ r.s.state = e.s.state /\ r.s.remote = e.s.remote
  /\ \A q \in Peer : SameWords(e.out[q], r.out[q])

\* The same, and the watch over a transport that connects is kept.
Kept(e, r) == Chat(e, r) /\ (Timed(e.s) => Timed(r.s))

\* What two steps one after the other leave unsaid, both together do.
LEMMA ChatTrans ==
  ASSUME NEW a, NEW b, NEW c, Chat(a, b), Chat(b, c)
  PROVE  Chat(a, c)
BY DEF Chat, SameWords

\* The same with the watch over the connection.
LEMMA KeptTrans ==
  ASSUME NEW a, NEW b, NEW c, Kept(a, b), Kept(b, c)
  PROVE  Kept(a, c)
BY ChatTrans DEF Kept

\* A step that touches the session alone.
LEMMA ChatSession ==
  ASSUME NEW e \in Entry, NEW r \in Entry, r.out = e.out,
         r.s.state = e.s.state, r.s.remote = e.s.remote
  PROVE  Chat(e, r)
BY DEF Chat, SameWords

\* A message is posted.
LEMMA PostKept ==
  ASSUME NEW e \in Entry, NEW msg \in {"state", "error", "connecting"}
  PROVE  /\ Kept(e, Post(e, msg))
         /\ Post(e, msg).out = e.out /\ Post(e, msg).open = e.open
         /\ Post(e, msg).s.requested = e.s.requested
         /\ msg = "connecting" => Timed(Post(e, msg).s)
<1> DEFINE posted == Append(e.s.posted, msg)
           r == Post(e, msg)
<1>1. e.s \in SessionRecord /\ e.s.posted \in Seq({"state", "error", "connecting"})
  BY DEF Entry, SessionRecord
<1>2. posted \in Seq({"state", "error", "connecting"})
  BY <1>1
<1>3. r = [e EXCEPT !.s.posted = posted]
  BY DEF Post
<1>4. \A i \in 1..Len(e.s.posted) : i \in 1..Len(posted) /\ posted[i] = e.s.posted[i]
  BY <1>1
<1>5. Len(posted) \in 1..Len(posted) /\ posted[Len(posted)] = msg
  BY <1>1
<1> HIDE DEF posted
<1>6. r \in Entry
  <2>1. [e.s EXCEPT !.posted = posted] \in SessionRecord
    BY <1>1, <1>2 DEF SessionRecord
  <2>2. r = [e EXCEPT !.s = [e.s EXCEPT !.posted = posted]]
    BY <1>3
  <2> QED BY <2>1, <2>2 DEF Entry
<1>7. /\ r.out = e.out /\ r.open = e.open /\ r.s.posted = posted
      /\ r.s.state = e.s.state /\ r.s.remote = e.s.remote /\ r.s.impl = e.s.impl
      /\ r.s.requested = e.s.requested /\ r.s.writable = e.s.writable
      /\ r.s.error = e.s.error /\ r.s.timer = e.s.timer
  BY <1>3 DEF Entry, SessionRecord
<1> HIDE DEF r
<1>8. Chat(e, r)
  BY <1>6, <1>7, ChatSession
<1>9. Timed(e.s) => Timed(r.s)
  BY <1>4, <1>7 DEF Timed
<1>10. msg = "connecting" => Timed(r.s)
  BY <1>5, <1>7 DEF Timed
<1> QED BY <1>7, <1>8, <1>9, <1>10 DEF Kept, r

\* The session of an entry is replaced.
LEMMA WithSession ==
  ASSUME NEW e \in Entry, NEW x \in SessionRecord
  PROVE  LET r == [e EXCEPT !.s = x]
         IN r \in Entry /\ r.s = x /\ r.out = e.out /\ r.open = e.open
BY DEF Entry

\* What the records of an entry are made of.
LEMMA EntryTyped ==
  ASSUME NEW e \in Entry
  PROVE  /\ e.s \in SessionRecord /\ e.out \in [Peer -> Seq(Stanza)]
         /\ \A q \in Peer : e.out[q] \in Seq(Stanza)
         /\ e.open \in SUBSET (Signals \X Peer)
         /\ e.s.transport \in BOOLEAN /\ e.s.held \in BOOLEAN /\ e.s.timer \in BOOLEAN
         /\ e.s.impl \in BOOLEAN /\ e.s.requested \in BOOLEAN /\ e.s.writable \in BOOLEAN
         /\ e.s.heard \in BOOLEAN /\ e.s.gathered \in BOOLEAN
BY DEF Entry, SessionRecord

\* A flag of a session is set, and the transport it has is not watched less.
LEMMA FlagKept ==
  ASSUME NEW e \in Entry, NEW x \in SessionRecord,
         x.state = e.s.state, x.remote = e.s.remote
  PROVE  LET r == [e EXCEPT !.s = x]
         IN /\ Chat(e, r) /\ r.s = x /\ r.out = e.out /\ r.open = e.open
            /\ (Timed(e.s) => Timed(x)) => Kept(e, r)
<1> DEFINE r == [e EXCEPT !.s = x]
<1>1. r \in Entry /\ r.s = x /\ r.out = e.out /\ r.open = e.open
  BY WithSession
<1> HIDE DEF r
<1>2. Chat(e, r)
  BY <1>1, ChatSession
<1>3. (Timed(e.s) => Timed(x)) => Kept(e, r)
  BY <1>1, <1>2 DEF Kept
<1> QED BY <1>1, <1>2, <1>3 DEF r

\* The transport's implementation is created; it connects if that was asked for.
LEMMA CreateImplKept ==
  ASSUME NEW e \in Entry
  PROVE  Kept(e, CreateImpl(e)) /\ CreateImpl(e).out = e.out
<1> DEFINE x == [e.s EXCEPT !.impl = TRUE]
           r == [e EXCEPT !.s = x]
<1>1. x \in SessionRecord /\ x.state = e.s.state /\ x.remote = e.s.remote
      /\ x.requested = e.s.requested
  BY EntryTyped DEF SessionRecord
<1>2. CreateImpl(e) = IF r.s.requested THEN Post(r, "connecting") ELSE r
  BY DEF CreateImpl
<1> HIDE DEF x
<1>3. Chat(e, r) /\ r.s = x /\ r.out = e.out
  BY <1>1, FlagKept
<1> HIDE DEF r
<1>4. CASE ~x.requested
  <2>1. Timed(x)
    BY <1>4 DEF Timed
  <2> QED BY <1>2, <1>3, <1>4, <2>1 DEF Kept
<1>5. CASE x.requested
  <2>1. r \in Entry /\ CreateImpl(e) = Post(r, "connecting")
    BY <1>2, <1>3, <1>5 DEF Chat
  <2>2. Kept(r, Post(r, "connecting")) /\ Post(r, "connecting").out = r.out
        /\ Timed(Post(r, "connecting").s)
    BY <2>1, PostKept
  <2> QED BY <1>3, <2>1, <2>2, ChatTrans DEF Kept
<1> QED BY <1>4, <1>5

\* The channels are asked to connect.
LEMMA ConnectKept ==
  ASSUME NEW e \in Entry
  PROVE  Kept(e, ConnectChannels(e)) /\ ConnectChannels(e).out = e.out
<1> DEFINE x == [e.s EXCEPT !.requested = TRUE]
           r == [e EXCEPT !.s = x]
<1>1. x \in SessionRecord /\ x.state = e.s.state /\ x.remote = e.s.remote /\ x.impl = e.s.impl
  BY EntryTyped DEF SessionRecord
<1>2. ConnectChannels(e) = IF e.s.requested THEN e
                           ELSE IF e.s.impl THEN Post(r, "connecting") ELSE r
  BY DEF ConnectChannels
<1> HIDE DEF x
<1>3. Chat(e, r) /\ r.s = x /\ r.out = e.out
  BY <1>1, FlagKept
<1> HIDE DEF r
<1>4. CASE e.s.requested
  <2>1. Kept(e, e)
    BY ChatSession DEF Kept
  <2> QED BY <1>2, <1>4, <2>1
<1>5. CASE ~e.s.requested /\ ~e.s.impl
  <2>1. Timed(x)
    BY <1>1, <1>5 DEF Timed
  <2> QED BY <1>2, <1>3, <1>5, <2>1 DEF Kept
<1>6. CASE ~e.s.requested /\ e.s.impl
  <2>1. r \in Entry /\ ConnectChannels(e) = Post(r, "connecting")
    BY <1>2, <1>3, <1>6 DEF Chat
  <2>2. Kept(r, Post(r, "connecting")) /\ Post(r, "connecting").out = r.out
        /\ Timed(Post(r, "connecting").s)
    BY <2>1, PostKept
  <2> QED BY <1>3, <2>1, <2>2, ChatTrans DEF Kept
<1> QED BY <1>4, <1>5, <1>6

\* The timer is started or cleared as the transport is writable.
LEMMA WatchKept ==
  ASSUME NEW e \in Entry
  PROVE  Kept(e, WatchWritable(e)) /\ Timed(WatchWritable(e).s) /\ WatchWritable(e).out = e.out
<1> DEFINE x == [e.s EXCEPT !.timer = e.s.impl /\ ~e.s.writable]
<1>1. /\ x \in SessionRecord /\ x.state = e.s.state /\ x.remote = e.s.remote
      /\ x.impl = e.s.impl /\ x.writable = e.s.writable
      /\ x.timer = (e.s.impl /\ ~e.s.writable)
  BY EntryTyped DEF SessionRecord
<1>2. WatchWritable(e) = [e EXCEPT !.s = x]
  BY DEF WatchWritable
<1> HIDE DEF x
<1>3. Timed(x)
  BY <1>1 DEF Timed
<1> QED BY <1>1, <1>2, <1>3, FlagKept

\* Channels that are reset do not connect.
LEMMA ResetKept ==
  ASSUME NEW e \in Entry
  PROVE  Kept(e, ResetChannels(e)) /\ ResetChannels(e).out = e.out
<1> DEFINE x == [e.s EXCEPT !.requested = FALSE, !.gathered = FALSE, !.heard = FALSE,
                            !.writable = FALSE]
           r == [e EXCEPT !.s = x]
<1>1. x \in SessionRecord /\ x.state = e.s.state /\ x.remote = e.s.remote /\ ~x.requested
  BY EntryTyped DEF SessionRecord
<1>2. ResetChannels(e) = IF e.s.writable THEN WatchWritable(r) ELSE r
  <2> DEFINE z == [e EXCEPT !.s.requested = FALSE, !.s.gathered = FALSE, !.s.heard = FALSE,
                            !.s.writable = FALSE]
  <2>1. ResetChannels(e) = IF e.s.writable THEN WatchWritable(z) ELSE z
    BY DEF ResetChannels
  <2>2. z = r
    OBVIOUS
  <2> HIDE DEF z, r
  <2> QED BY <2>1, <2>2
<1> HIDE DEF x
<1>3. Timed(x)
  BY <1>1 DEF Timed
<1>4. Kept(e, r) /\ r.out = e.out /\ r \in Entry
  <2>1. Kept(e, r) /\ r.out = e.out
    BY <1>1, <1>3, FlagKept
  <2> HIDE DEF r
  <2> QED BY <2>1 DEF Kept, Chat
<1> HIDE DEF r
<1>5. Kept(r, WatchWritable(r)) /\ WatchWritable(r).out = r.out
  BY <1>4, WatchKept
<1>6. Kept(e, WatchWritable(r))
  BY <1>4, <1>5, ChatTrans DEF Kept
<1> QED BY <1>2, <1>4, <1>5, <1>6

\* The client's channel is created, with its implementation when it is time.
LEMMA CreateChannelKept ==
  ASSUME NEW e \in Entry
  PROVE  Kept(e, CreateChannel(e))
<1> DEFINE x == [e.s EXCEPT !.channel = TRUE]
           r == [e EXCEPT !.s = x]
<1>1. /\ x \in SessionRecord /\ x.state = e.s.state /\ x.remote = e.s.remote
      /\ x.impl = e.s.impl /\ x.requested = e.s.requested /\ x.writable = e.s.writable
      /\ x.error = e.s.error /\ x.timer = e.s.timer /\ x.posted = e.s.posted
  BY EntryTyped DEF SessionRecord
<1>2. CreateChannel(e) = IF r.s.transport \/ r.s.state = "SENTINITIATE" THEN CreateImpl(r) ELSE r
  BY DEF CreateChannel
<1> HIDE DEF x
<1>3. Timed(e.s) => Timed(x)
  BY <1>1 DEF Timed
<1>4. Kept(e, r)
  BY <1>1, <1>3, FlagKept
<1> HIDE DEF r
<1>5. r \in Entry
  BY <1>4 DEF Kept, Chat
<1> QED BY <1>2, <1>4, <1>5, CreateImplKept, KeptTrans

\* A transport is chosen: its channels are created and connect.
LEMMA SetTransportKept ==
  ASSUME NEW e \in Entry
  PROVE  Kept(e, SetTransport(e)) /\ SetTransport(e).out = e.out
<1> DEFINE x == [e.s EXCEPT !.transport = TRUE]
           r == [e EXCEPT !.s = x]
           i == IF r.s.channel /\ ~r.s.impl THEN CreateImpl(r) ELSE r
<1>1. /\ x \in SessionRecord /\ x.state = e.s.state /\ x.remote = e.s.remote
      /\ x.impl = e.s.impl /\ x.requested = e.s.requested /\ x.writable = e.s.writable
      /\ x.error = e.s.error /\ x.timer = e.s.timer /\ x.posted = e.s.posted
  BY EntryTyped DEF SessionRecord
<1>2. SetTransport(e) = ConnectChannels(i)
  BY DEF SetTransport
<1> HIDE DEF x
<1>3. Timed(e.s) => Timed(x)
  BY <1>1 DEF Timed
<1>4. Kept(e, r) /\ r.out = e.out
  BY <1>1, <1>3, FlagKept
<1> HIDE DEF r
<1>5. r \in Entry /\ Kept(r, r)
  BY <1>4, ChatSession DEF Kept, Chat
<1>6. Kept(r, i) /\ i.out = r.out
  BY <1>5, CreateImplKept
<1>7. i \in Entry
  BY <1>6 DEF Kept, Chat
<1> HIDE DEF i
<1>8. Kept(i, ConnectChannels(i)) /\ ConnectChannels(i).out = i.out
  BY <1>7, ConnectKept
<1> QED BY <1>2, <1>4, <1>6, <1>8, KeptTrans

\* An error is posted, and ends the watch.
LEMMA ErrorKept ==
  ASSUME NEW e \in Entry, NEW error \in {"TIME", "RESPONSE"}
  PROVE  Kept(e, SetError(e, error)) /\ Timed(SetError(e, error).s)
<1> DEFINE x == [e.s EXCEPT !.error = error]
           r == [e EXCEPT !.s = x]
<1>1. x \in SessionRecord /\ x.state = e.s.state /\ x.remote = e.s.remote /\ x.error # "NONE"
  BY EntryTyped DEF SessionRecord
<1>2. SetError(e, error) = IF e.s.error = error THEN e ELSE Post(r, "error")
  BY DEF SetError
<1> HIDE DEF x
<1>3. Timed(x)
  BY <1>1 DEF Timed
<1>4. Kept(e, r) /\ Timed(r.s) /\ r \in Entry
  BY <1>1, <1>3, FlagKept DEF Kept, Chat
<1> HIDE DEF r
<1>5. CASE e.s.error = error
  <2>1. Timed(e.s) /\ Kept(e, e)
    BY <1>5, ChatSession DEF Timed, Kept
  <2> QED BY <1>2, <1>5, <2>1
<1>6. CASE e.s.error # error
  <2>1. Kept(r, Post(r, "error"))
    BY <1>4, PostKept
  <2> QED BY <1>2, <1>4, <1>6, <2>1, KeptTrans DEF Kept
<1> QED BY <1>5, <1>6

-----------------------------------------------------------------------------
(* What is sent                                                              *)

\* A stanza goes to the peer the session talks to.
LEMMA SendEffect ==
  ASSUME NEW e \in Entry, e.s.remote \in Peer, NEW type \in Requests,
         NEW arg \in {"", "offer"} \cup Peer
  PROVE  LET r == Send(e, type, arg)
             m == [type |-> type, arg |-> arg]
         IN /\ m \in Stanza /\ r \in Entry /\ r.s = e.s
            /\ r.out = [e.out EXCEPT ![e.s.remote] = Append(@, m)]
<1> DEFINE m == [type |-> type, arg |-> arg]
           to == e.s.remote
           out == [e.out EXCEPT ![to] = Append(@, m)]
           awaited == IF type \in Signals THEN e.open \cup {<<type, to>>} ELSE e.open
<1>1. m \in Stanza
  BY DEF Stanza, Requests
<1> HIDE DEF m
<1>2. out \in [Peer -> Seq(Stanza)]
  <2>1. e.out \in [Peer -> Seq(Stanza)] /\ e.out[to] \in Seq(Stanza)
    BY EntryTyped
  <2>2. Append(e.out[to], m) \in Seq(Stanza)
    BY <1>1, <2>1, AppendProperties
  <2> QED BY <2>1, <2>2
<1>3. awaited \in SUBSET (Signals \X Peer)
  <2>1. e.open \in SUBSET (Signals \X Peer)
    BY EntryTyped
  <2>2. CASE type \in Signals
    <3>1. <<type, to>> \in Signals \X Peer
      BY <2>2
    <3> QED BY <2>1, <2>2, <3>1
  <2>3. CASE type \notin Signals
    BY <2>1, <2>3
  <2> QED BY <2>2, <2>3
<1>4. Send(e, type, arg) = [e EXCEPT !.out = out, !.open = awaited]
  BY DEF Send, m
<1> HIDE DEF out, awaited
<1>5. /\ [e EXCEPT !.out = out, !.open = awaited] \in Entry
      /\ [e EXCEPT !.out = out, !.open = awaited].s = e.s
      /\ [e EXCEPT !.out = out, !.open = awaited].out = out
  BY <1>2, <1>3 DEF Entry
<1> QED BY <1>1, <1>4, <1>5 DEF out, m

\* What the transports tell each other says nothing of the session.
LEMMA SendKept ==
  ASSUME NEW e \in Entry, e.s.remote \in Peer, NEW arg \in {"", "offer"} \cup Peer,
         NEW type \in {"transport-accept", "transport-info", "candidates"}
  PROVE  Kept(e, Send(e, type, arg))
<1> DEFINE r == Send(e, type, arg)
           m == [type |-> type, arg |-> arg]
<1>1. type \in Requests
  BY DEF Requests, Signals
<1>2. m \in Stanza /\ r \in Entry /\ r.s = e.s
      /\ r.out = [e.out EXCEPT ![e.s.remote] = Append(@, m)]
  BY <1>1, SendEffect
<1> HIDE DEF r
<1>3. m.type \notin Answers \cup {"initiate"} /\ \A k : ~Wrong(k, m.type)
  BY DEF Answers, Wrong
<1> HIDE DEF m
<1>4. ASSUME NEW q \in Peer PROVE SameWords(e.out[q], r.out[q])
  <2>1. e.out[q] \in Seq(Stanza) /\ e.out \in [Peer -> Seq(Stanza)]
    BY EntryTyped
  <2>2. CASE q = e.s.remote
    <3>1. r.out[q] = Append(e.out[q], m)
      BY <1>2, <2>1, <2>2
    <3>2. Said(Append(e.out[q], m)) = Said(e.out[q])
      <4>1. Said(Append(e.out[q], m)) = Said(e.out[q]) \cup
              (IF m.type \in Answers \cup {"initiate"} THEN {m} ELSE {})
        BY <1>2, <2>1, SaidAppend
      <4> QED BY <1>3, <4>1
    <3>3. Ordered(e.out[q]) => Ordered(Append(e.out[q], m))
      BY <1>2, <1>3, <2>1, OrderedAppend
    <3> QED BY <3>1, <3>2, <3>3 DEF SameWords
  <2>3. CASE q # e.s.remote
    BY <1>2, <2>1, <2>3 DEF SameWords
  <2> QED BY <2>2, <2>3
<1>5. Kept(e, r)
  BY <1>2, <1>4 DEF Kept, Chat
<1> QED BY <1>5 DEF r

\* Candidates are sent, and kept for an old client until it has chosen.
LEMMA CandidatesKept ==
  ASSUME NEW e \in Entry, e.s.remote \in Peer
  PROVE  Kept(e, OnTransportSendMessage(e))
<1> DEFINE x == [e.s EXCEPT !.held = @ \/ ~e.s.transport]
           r == [e EXCEPT !.s = x]
<1>1. /\ x \in SessionRecord /\ x.state = e.s.state /\ x.remote = e.s.remote
      /\ x.impl = e.s.impl /\ x.requested = e.s.requested /\ x.writable = e.s.writable
      /\ x.error = e.s.error /\ x.timer = e.s.timer /\ x.posted = e.s.posted
  BY EntryTyped DEF SessionRecord
<1>2. OnTransportSendMessage(e) = IF e.s.compat THEN Send(e, "candidates", "")
                                  ELSE Send(r, "transport-info", "")
  BY DEF OnTransportSendMessage
<1> HIDE DEF x
<1>3. Timed(e.s) => Timed(x)
  BY <1>1 DEF Timed
<1>4. Kept(e, r) /\ r.s = x
  BY <1>1, <1>3, FlagKept
<1> HIDE DEF r
<1>5. r \in Entry /\ r.s.remote \in Peer
  BY <1>1, <1>4 DEF Kept, Chat
<1>6. Kept(r, Send(r, "transport-info", "")) /\ Kept(e, Send(e, "candidates", ""))
  BY <1>5, SendKept
<1> QED BY <1>2, <1>4, <1>6, KeptTrans

\* The other end has chosen its transport.
LEMMA TransportAcceptedKept ==
  ASSUME NEW e \in Entry, e.s.remote \in Peer
  PROVE  Kept(e, TransportAccepted(e))
<1> DEFINE a == SetTransport(e)
           b == IF a.s.compat /\ a.s.held THEN OnTransportSendMessage(a) ELSE a
           x == [b.s EXCEPT !.held = FALSE]
           r == [b EXCEPT !.s = x]
<1>1. TransportAccepted(e) = r
  BY DEF TransportAccepted
<1>2. Kept(e, a)
  BY SetTransportKept
<1> HIDE DEF a
<1>3. a \in Entry /\ a.s.remote \in Peer
  BY <1>2 DEF Kept, Chat
<1>4. Kept(a, a) /\ Kept(a, OnTransportSendMessage(a))
  BY <1>3, CandidatesKept, ChatSession DEF Kept
<1>5. Kept(a, b)
  BY <1>4
<1> HIDE DEF b
<1>6. b \in Entry
  BY <1>5 DEF Kept, Chat
<1>7. /\ x \in SessionRecord /\ x.state = b.s.state /\ x.remote = b.s.remote
      /\ x.impl = b.s.impl /\ x.requested = b.s.requested /\ x.writable = b.s.writable
      /\ x.error = b.s.error /\ x.timer = b.s.timer /\ x.posted = b.s.posted
  BY <1>6, EntryTyped DEF SessionRecord
<1> HIDE DEF x
<1>8. Timed(b.s) => Timed(x)
  BY <1>7 DEF Timed
<1>9. Kept(b, r)
  BY <1>6, <1>7, <1>8, FlagKept
<1> QED BY <1>1, <1>2, <1>5, <1>9, KeptTrans

\* A request failed, or was given up.
LEMMA FailedSendKept ==
  ASSUME NEW e \in Entry, NEW task
  PROVE  Kept(e, FailedSend(e, task))
<1> DEFINE c == [e EXCEPT !.open = @ \ {task}]
<1>1. c \in Entry /\ c.s = e.s /\ c.out = e.out
  BY DEF Entry
<1>2. FailedSend(e, task) = IF c.s.state \notin Ended /\ c.s.remote = task[2]
                            THEN SetError(c, "RESPONSE") ELSE c
  BY DEF FailedSend
<1> HIDE DEF c
<1>3. Kept(e, c)
  BY <1>1, ChatSession DEF Kept
<1>4. Kept(c, SetError(c, "RESPONSE"))
  BY <1>1, ErrorKept
<1> QED BY <1>2, <1>3, <1>4, KeptTrans

-----------------------------------------------------------------------------
(* Changes of state                                                          *)

TerminateStanza == [type |-> "terminate", arg |-> ""]

\* A turn that is to bring e to a state gets it there, or the client ends the
\* session inside: then the remote is told, unless it was refused.
Moved(e, r, state) ==
  /\ r \in Entry /\ r.s.remote = e.s.remote /\ (Timed(e.s) => Timed(r.s))
  /\ r.s.requested = e.s.requested
  /\ \/ r.s.state = state /\ r.out = e.out
     \/ /\ r.s.state = "SENTTERMINATE" /\ state \notin Terminated
        /\ \/ r.out = e.out
           \/ /\ state \notin Refused
              /\ r.out = [e.out EXCEPT ![e.s.remote] = Append(@, TerminateStanza)]

\* The state is set, with nothing else.
LEMMA StateKept ==
  ASSUME NEW e \in Entry, NEW state \in States
  PROVE  LET r == [e EXCEPT !.s.state = state]
         IN /\ r \in Entry /\ r.out = e.out /\ r.open = e.open
            /\ r.s.state = state /\ r.s.remote = e.s.remote
            /\ r.s.requested = e.s.requested
            /\ (Timed(e.s) => Timed(r.s))
<1> DEFINE x == [e.s EXCEPT !.state = state]
           r == [e EXCEPT !.s = x]
<1>1. /\ x \in SessionRecord /\ x.state = state /\ x.remote = e.s.remote
      /\ x.impl = e.s.impl /\ x.requested = e.s.requested /\ x.writable = e.s.writable
      /\ x.error = e.s.error /\ x.timer = e.s.timer /\ x.posted = e.s.posted
  BY EntryTyped DEF SessionRecord
<1>2. [e EXCEPT !.s.state = state] = r
  OBVIOUS
<1> HIDE DEF x
<1>3. r \in Entry /\ r.s = x /\ r.out = e.out /\ r.open = e.open
  BY <1>1, WithSession
<1> HIDE DEF r
<1>4. Timed(e.s) => Timed(x)
  BY <1>1 DEF Timed
<1> QED BY <1>1, <1>2, <1>3, <1>4

\* SetState when the client does nothing inside.
LEMMA EnterMoved ==
  ASSUME NEW e \in Entry, NEW state \in States
  PROVE  Moved(e, Enter(e, state), state)
<1> DEFINE c == [e EXCEPT !.s.state = state]
<1>1. Enter(e, state) = IF e.s.state = state THEN e ELSE Post(c, "state")
  BY DEF Enter
<1>2. /\ c \in Entry /\ c.out = e.out /\ c.s.state = state /\ c.s.remote = e.s.remote
      /\ c.s.requested = e.s.requested /\ (Timed(e.s) => Timed(c.s))
  BY StateKept
<1> HIDE DEF c
<1>3. Kept(c, Post(c, "state")) /\ Post(c, "state").out = c.out
      /\ Post(c, "state").s.requested = c.s.requested
  BY <1>2, PostKept
<1>4. CASE e.s.state = state
  BY <1>1, <1>4 DEF Moved
<1>5. CASE e.s.state # state
  BY <1>1, <1>2, <1>3, <1>5 DEF Moved, Kept, Chat
<1> QED BY <1>4, <1>5

\* The session is ended, and the remote told unless it was refused.
LEMMA TerminateMoved ==
  ASSUME NEW e \in Entry, e.s.remote \in Peer
  PROVE  /\ Moved(e, Terminate(e), e.s.state)
         /\ Terminate(e).s.state \in Terminated
<1>1. CASE e.s.state \in Terminated
  <2>1. Terminate(e) = e
    BY <1>1 DEF Terminate
  <2> QED BY <1>1, <2>1 DEF Moved
<1>2. CASE e.s.state \notin Terminated
  <2> DEFINE c == IF e.s.state \in Refused THEN e ELSE Send(e, "terminate", "")
  <2>1. Terminate(e) = Enter(c, "SENTTERMINATE")
    BY <1>2 DEF Terminate
  <2>2. /\ c \in Entry /\ c.s = e.s
        /\ \/ c.out = e.out
           \/ /\ e.s.state \notin Refused
              /\ c.out = [e.out EXCEPT ![e.s.remote] = Append(@, TerminateStanza)]
    <3>1. "terminate" \in Requests
      BY DEF Requests, Signals
    <3>2. /\ Send(e, "terminate", "") \in Entry /\ Send(e, "terminate", "").s = e.s
          /\ Send(e, "terminate", "").out = [e.out EXCEPT ![e.s.remote] = Append(@, TerminateStanza)]
      BY <3>1, SendEffect DEF TerminateStanza
    <3> QED BY <3>2
  <2> HIDE DEF c
  <2>3. Moved(c, Enter(c, "SENTTERMINATE"), "SENTTERMINATE")
    BY <2>2, EnterMoved DEF States
  <2>4. /\ Terminate(e) \in Entry /\ Terminate(e).s.remote = e.s.remote
        /\ Terminate(e).s.state = "SENTTERMINATE" /\ Terminate(e).out = c.out
        /\ Terminate(e).s.requested = e.s.requested
        /\ (Timed(e.s) => Timed(Terminate(e).s))
    BY <2>1, <2>2, <2>3 DEF Moved, Terminated
  <2>5. \/ c.out = e.out
        \/ /\ e.s.state \notin Refused
           /\ c.out = [e.out EXCEPT ![e.s.remote] = Append(@, TerminateStanza)]
    BY <2>2
  <2> QED BY <1>2, <2>4, <2>5 DEF Moved, Terminated
<1> QED BY <1>1, <1>2

\* A state is set; the client may terminate inside SignalState.
LEMMA SetStateMoved ==
  ASSUME NEW e \in Entry, e.s.remote \in Peer, NEW state \in States \ Terminated,
         NEW r \in SetState(e, state)
  PROVE  Moved(e, r, state)
<1> DEFINE c == [e EXCEPT !.s.state = state]
<1>1. \/ e.s.state = state /\ r = e
      \/ r = Post(c, "state")
      \/ r = Post(Terminate(c), "state")
  BY DEF SetState
<1>2. /\ c \in Entry /\ c.out = e.out /\ c.s.state = state /\ c.s.remote = e.s.remote
      /\ c.s.requested = e.s.requested /\ (Timed(e.s) => Timed(c.s))
  BY StateKept
<1> HIDE DEF c
<1>3. CASE e.s.state = state /\ r = e
  BY <1>3 DEF Moved
<1>4. CASE r = Post(c, "state")
  <2>1. Kept(c, r) /\ r.out = c.out /\ r.s.requested = c.s.requested
    BY <1>2, <1>4, PostKept
  <2> QED BY <1>2, <2>1 DEF Moved, Kept, Chat
<1>5. CASE r = Post(Terminate(c), "state")
  <2> DEFINE d == Terminate(c)
  <2>1. Moved(c, d, state) /\ d.s.state \in Terminated
    BY <1>2, TerminateMoved
  <2> HIDE DEF d
  <2>2. d \in Entry
    BY <2>1 DEF Moved
  <2>3. Kept(d, r) /\ r.out = d.out /\ r.s.requested = d.s.requested
    BY <1>5, <2>2, PostKept DEF d
  <2>4. /\ r \in Entry /\ r.s.state = d.s.state /\ r.s.remote = d.s.remote
        /\ (Timed(d.s) => Timed(r.s))
    BY <2>3 DEF Kept, Chat
  <2> QED BY <1>2, <2>1, <2>3, <2>4 DEF Moved
<1> QED BY <1>1, <1>3, <1>4, <1>5

-----------------------------------------------------------------------------
(* What a peer has, when less is under way or its state changes              *)

\* b holds nothing that matters and is not in a, in an order that is as good.
Less(a, b) == Said(b) \subseteq Said(a) /\ (Ordered(a) => Ordered(b))

\* A queue whose head is taken.
LEMMA TailLess ==
  ASSUME NEW s \in Seq(Stanza), s # <<>>
  PROVE  Less(s, Tail(s)) /\ Tail(s) \in Seq(Stanza)
<1>1. Tail(s) \in Seq(Stanza)
  OBVIOUS
<1>2. Said(Tail(s)) \subseteq Said(s)
  BY RangeOfTail DEF Said
<1> QED BY <1>1, <1>2, OrderedTail DEF Less

\* A queue to which an error is added.
LEMMA ErrorLess ==
  ASSUME NEW s \in Seq(Stanza), NEW type \in Requests
  PROVE  LET b == Append(s, [type |-> "error", arg |-> type])
         IN Less(s, b) /\ b \in Seq(Stanza)
<1> DEFINE m == [type |-> "error", arg |-> type]
<1>1. m \in Stanza /\ m.type \notin Answers \cup {"initiate"} /\ \A k : ~Wrong(k, m.type)
  BY DEF Stanza, Answers, Wrong
<1> HIDE DEF m
<1>2. Said(Append(s, m)) = Said(s) \cup (IF m.type \in Answers \cup {"initiate"} THEN {m} ELSE {})
  BY <1>1, SaidAppend
<1>3. Said(Append(s, m)) = Said(s)
  BY <1>1, <1>2
<1>4. Ordered(s) => Ordered(Append(s, m))
  BY <1>1, OrderedAppend
<1>5. Append(s, m) \in Seq(Stanza)
  BY <1>1, AppendProperties
<1> QED BY <1>3, <1>4, <1>5 DEF Less, m

\* To have no more under way is transitive.
LEMMA LessTrans ==
  ASSUME NEW a, NEW b, NEW c, Less(a, b), Less(b, c)
  PROVE  Less(a, c)
BY DEF Less

\* With less under way a callee is as well off.
LEMMA CalleeLess ==
  ASSUME NEW p, NEW state, NEW remote, NEW a, NEW b,
         CalleeOk(p, state, remote, a), \A q \in Peer : Less(a[q], b[q])
  PROVE  /\ CalleeOk(p, state, remote, b)
         /\ Answering(state, b) => Answering(state, a)
<1>1. Less(a[Caller], b[Caller])
  BY SessionAssumption
<1>2. \A k : Has(b[Caller], k) => Has(a[Caller], k)
  BY <1>1 DEF Less, Has
<1>3. Ordered(b[Caller])
  BY <1>1 DEF Less, CalleeOk
<1>4. \A m \in Said(b[Caller]) : m.type = "redirect" => m.arg \in Target[p]
  BY <1>1 DEF Less, CalleeOk
<1>5. \A q \in Peer \ {Caller} : Said(b[q]) = {}
  BY DEF Less, CalleeOk
<1> QED BY <1>2, <1>3, <1>4, <1>5 DEF CalleeOk, Answering

\* So is the initiator.
LEMMA CallerLess ==
  ASSUME NEW state, NEW remote, NEW a, NEW b,
         CallerOk(state, remote, a), \A q \in Peer : Less(a[q], b[q])
  PROVE  CallerOk(state, remote, b)
<1>1. ASSUME NEW q \in Peer PROVE Ordered(b[q]) /\ \A k \in Answers : ~Has(b[q], k)
  <2>1. Less(a[q], b[q]) /\ Ordered(a[q]) /\ \A k \in Answers : ~Has(a[q], k)
    BY DEF CallerOk
  <2> QED BY <2>1 DEF Less, Has
<1>2. Said(b[Caller]) = {}
  BY SessionAssumption DEF Less, CallerOk
<1> QED BY <1>1, <1>2 DEF CallerOk

\* A terminate is not among what is said, and may follow all but a refusal.
LEMMA TerminateSaid ==
  ASSUME NEW s \in Seq(Stanza), ~Has(s, "reject"), ~Has(s, "redirect")
  PROVE  Less(s, Append(s, TerminateStanza)) /\ Append(s, TerminateStanza) \in Seq(Stanza)
<1>1. TerminateStanza \in Stanza /\ TerminateStanza.type = "terminate"
  BY DEF TerminateStanza, Stanza, Requests, Signals
<1>2. Said(Append(s, TerminateStanza)) = Said(s)
  <2>1. Said(Append(s, TerminateStanza)) = Said(s) \cup
          (IF TerminateStanza.type \in Answers \cup {"initiate"} THEN {TerminateStanza} ELSE {})
    BY <1>1, SaidAppend
  <2> QED BY <1>1, <2>1 DEF Answers
<1>3. \A x \in Range(s) : ~Wrong(x.type, "terminate")
  <2> SUFFICES ASSUME NEW x \in Range(s), x.type \in {"reject", "redirect"} PROVE FALSE
    BY DEF Wrong, Answers
  <2> QED BY DEF Has, Said, Answers
<1>4. Ordered(s) => Ordered(Append(s, TerminateStanza))
  BY <1>1, <1>3, OrderedAppend
<1>5. Append(s, TerminateStanza) \in Seq(Stanza)
  BY <1>1, AppendProperties
<1> QED BY <1>2, <1>4, <1>5 DEF Less

\* A callee that moves to a state it may be in, with what it has sent, is well
\* off wherever the turn ends.
LEMMA CalleeMoved ==
  ASSUME NEW p \in Peer \ {Caller}, NEW e \in Entry, e.s.remote = Caller,
         NEW state \in States, CalleeOk(p, state, Caller, e.out),
         NEW r, Moved(e, r, state)
  PROVE  /\ CalleeOk(p, r.s.state, r.s.remote, r.out)
         /\ Answering(r.s.state, r.out) => Answering(state, e.out)
         /\ r.s.state \in {state, "SENTTERMINATE"}
<1>1. CASE r.s.state = state /\ r.out = e.out
  BY <1>1 DEF Moved
<1>2. CASE r.s.state = "SENTTERMINATE" /\ state \notin Terminated
  <2>1. r.s.remote = Caller
    BY DEF Moved
  <2>2. CASE r.out = e.out
    <3>1. CalleeOk(p, r.s.state, Caller, e.out)
      BY <1>2 DEF CalleeOk, WentOn, Silent, Terminated, Ended
    <3>2. Answering("SENTTERMINATE", e.out) => Answering(state, e.out)
      BY DEF Answering
    <3> QED BY <1>2, <2>1, <2>2, <3>1, <3>2
  <2>3. CASE state \notin Refused
             /\ r.out = [e.out EXCEPT ![e.s.remote] = Append(@, TerminateStanza)]
    <3>1. state \notin Silent
      BY <1>2, <2>3 DEF Silent, Refused, States, Terminated
    <3>2. ~Has(e.out[Caller], "reject") /\ ~Has(e.out[Caller], "redirect")
      BY <3>1 DEF CalleeOk
    <3>3. e.out \in [Peer -> Seq(Stanza)]
      BY EntryTyped
    <3>4. Less(e.out[Caller], Append(e.out[Caller], TerminateStanza))
      BY <3>2, <3>3, SessionAssumption, TerminateSaid
    <3>5. ASSUME NEW q \in Peer PROVE Less(e.out[q], r.out[q])
      <4>1. CASE q = Caller
        BY <2>3, <3>3, <3>4, <4>1
      <4>2. CASE q # Caller
        <5>1. r.out[q] = e.out[q]
          BY <2>3, <3>3, <4>2
        <5> QED BY <5>1 DEF Less
      <4> QED BY <4>1, <4>2
    <3>6. CalleeOk(p, "SENTTERMINATE", Caller, e.out)
      BY <1>2 DEF CalleeOk, WentOn, Silent, Terminated, Ended
    <3>7. /\ CalleeOk(p, "SENTTERMINATE", Caller, r.out)
          /\ Answering("SENTTERMINATE", r.out) => Answering("SENTTERMINATE", e.out)
      BY <3>5, <3>6, CalleeLess
    <3>8. Answering("SENTTERMINATE", e.out) => Answering(state, e.out)
      BY DEF Answering
    <3> QED BY <1>2, <2>1, <3>7, <3>8
  <2> QED BY <1>2, <2>2, <2>3 DEF Moved
<1> QED BY <1>1, <1>2 DEF Moved

\* The same for the initiator, which has not refused anything.
LEMMA CallerMoved ==
  ASSUME NEW e \in Entry, e.s.remote \in Peer \ {Caller}, NEW state \in States,
         CallerOk(state, e.s.remote, e.out), NEW r, Moved(e, r, state)
  PROVE  /\ CallerOk(r.s.state, r.s.remote, r.out)
         /\ \A q \in Peer : Less(e.out[q], r.out[q])
         /\ r.s.state \in {state, "SENTTERMINATE"}
<1>1. r.s.remote = e.s.remote /\ r.s.state \in {state, "SENTTERMINATE"}
  BY DEF Moved
<1>2. CallerOk(r.s.state, r.s.remote, e.out)
  BY <1>1 DEF CallerOk
<1>3. ASSUME NEW q \in Peer PROVE Less(e.out[q], r.out[q])
  <2>1. CASE r.out = e.out
    BY <2>1 DEF Less
  <2>2. CASE r.out = [e.out EXCEPT ![e.s.remote] = Append(@, TerminateStanza)]
    <3>1. e.out \in [Peer -> Seq(Stanza)]
      BY EntryTyped
    <3>2. ~Has(e.out[q], "reject") /\ ~Has(e.out[q], "redirect")
      BY DEF CallerOk, Answers
    <3>3. Less(e.out[q], Append(e.out[q], TerminateStanza))
      BY <3>1, <3>2, TerminateSaid
    <3>4. r.out[q] = e.out[q] \/ r.out[q] = Append(e.out[q], TerminateStanza)
      BY <2>2, <3>1
    <3> QED BY <3>3, <3>4 DEF Less
  <2> QED BY <2>1, <2>2 DEF Moved
<1> QED BY <1>1, <1>2, <1>3, CallerLess

-----------------------------------------------------------------------------
(* The answer of a callee                                                    *)

\* What a turn of a callee may make of an entry.
CalleeTurn(p, e, r) ==
  /\ r \in Entry /\ (Timed(e.s) => Timed(r.s))
  /\ r.s.remote = e.s.remote
  /\ CalleeOk(p, r.s.state, r.s.remote, r.out)
  /\ Answering(r.s.state, r.out) => Answering(e.s.state, e.out)

\* Two parts of a callee's turn are a turn.
LEMMA CalleeTurnTrans ==
  ASSUME NEW p, NEW a, NEW b, NEW c, CalleeTurn(p, a, b), CalleeTurn(p, b, c)
  PROVE  CalleeTurn(p, a, c)
BY DEF CalleeTurn

\* A turn that changes no state.
LEMMA CalleeKept ==
  ASSUME NEW p, NEW e, CalleeOk(p, e.s.state, e.s.remote, e.out), NEW r, Kept(e, r)
  PROVE  CalleeTurn(p, e, r)
<1>1. /\ r \in Entry /\ (Timed(e.s) => Timed(r.s))
      /\ r.s.state = e.s.state /\ r.s.remote = e.s.remote
      /\ \A q \in Peer : Less(e.out[q], r.out[q])
  BY DEF Kept, Chat, SameWords, Less
<1>2. /\ CalleeOk(p, e.s.state, e.s.remote, r.out)
      /\ Answering(e.s.state, r.out) => Answering(e.s.state, e.out)
  BY <1>1, CalleeLess
<1> QED BY <1>1, <1>2 DEF CalleeTurn

\* An answer is the first thing said to the initiator.
LEMMA AnswerSaid ==
  ASSUME NEW p \in Peer \ {Caller}, NEW e \in Entry, e.s.remote = Caller,
         e.s.state = "RECEIVEDINITIATE", CalleeOk(p, e.s.state, Caller, e.out),
         NEW type \in Answers, NEW arg \in {"", "offer"} \cup Peer,
         type = "redirect" => arg \in Target[p],
         NEW state, \/ type = "accept" /\ state = "SENTACCEPT"
                    \/ type = "reject" /\ state = "SENTREJECT"
                    \/ type = "redirect" /\ state = "SENTREDIRECT"
  PROVE  /\ Send(e, type, arg) \in Entry /\ Send(e, type, arg).s = e.s
         /\ CalleeOk(p, state, Caller, Send(e, type, arg).out)
<1> DEFINE r == Send(e, type, arg)
           m == [type |-> type, arg |-> arg]
           a == e.out[Caller]
<1>1. type \in Requests /\ Caller \in Peer
  BY SessionAssumption DEF Answers, Requests, Signals
<1>2. m \in Stanza /\ r \in Entry /\ r.s = e.s /\ r.out = [e.out EXCEPT ![Caller] = Append(@, m)]
  BY <1>1, SendEffect
<1>3. e.out \in [Peer -> Seq(Stanza)] /\ a \in Seq(Stanza)
  BY <1>1, EntryTyped
<1>4. m.type = type /\ m.arg = arg
  OBVIOUS
<1> HIDE DEF r, m
<1>5. r.out[Caller] = Append(a, m) /\ \A q \in Peer \ {Caller} : r.out[q] = e.out[q]
  BY <1>1, <1>2, <1>3
<1>6. Said(a) = {}
  <2> SUFFICES ASSUME NEW x \in Said(a) PROVE FALSE
    OBVIOUS
  <2>1. x.type \in Answers \cup {"initiate"} /\ Has(a, x.type)
    BY DEF Said, Has
  <2> QED BY <2>1 DEF CalleeOk
<1> HIDE DEF a
<1>7. Said(Append(a, m)) = Said(a) \cup (IF m.type \in Answers \cup {"initiate"} THEN {m} ELSE {})
  BY <1>2, <1>3, SaidAppend
<1>8. Said(Append(a, m)) = {m}
  BY <1>4, <1>6, <1>7
<1>9. \A k : Has(Append(a, m), k) <=> k = type
  BY <1>4, <1>8 DEF Has
<1>10. Ordered(Append(a, m))
  <2>1. ASSUME NEW x \in Range(a) PROVE ~Wrong(x.type, m.type)
    <3>1. x.type \notin Answers
      BY <1>6 DEF Said
    <3> QED BY <1>4, <3>1 DEF Wrong, Answers
  <2>2. Ordered(a)
    BY DEF CalleeOk, a
  <2> QED BY <1>2, <1>3, <2>1, <2>2, OrderedAppend
<1>11. \A q \in Peer \ {Caller} : Said(r.out[q]) = {}
  BY <1>5 DEF CalleeOk
<1>12. state \in {"SENTACCEPT", "SENTREJECT", "SENTREDIRECT"} /\ type # "initiate"
       /\ (type = "accept" => state = "SENTACCEPT")
       /\ (type # "accept" => state \in Silent)
  BY DEF Silent, Answers
<1>13. CalleeOk(p, state, Caller, r.out)
  BY <1>4, <1>5, <1>8, <1>9, <1>10, <1>11, <1>12 DEF CalleeOk, WentOn, Answers
<1> QED BY <1>2, <1>13 DEF r

\* The states the answers lead to.
LEMMA AnswerTurn ==
  ASSUME NEW p \in Peer \ {Caller}, NEW e \in Entry, e.s.remote = Caller,
         e.s.state = "RECEIVEDINITIATE", CalleeOk(p, e.s.state, Caller, e.out),
         NEW type \in Answers, NEW arg \in {"", "offer"} \cup Peer,
         type = "redirect" => arg \in Target[p],
         NEW state, \/ type = "accept" /\ state = "SENTACCEPT"
                    \/ type = "reject" /\ state = "SENTREJECT"
                    \/ type = "redirect" /\ state = "SENTREDIRECT",
         NEW r \in SetState(Send(e, type, arg), state)
  PROVE  CalleeTurn(p, e, r) /\ r.s.state \in {state, "SENTTERMINATE"}
<1> DEFINE c == Send(e, type, arg)
<1>1. c \in Entry /\ c.s = e.s /\ CalleeOk(p, state, Caller, c.out)
  BY AnswerSaid
<1> HIDE DEF c
<1>2. state \in States \ Terminated
  BY DEF States, Terminated
<1>3. Caller \in Peer
  BY SessionAssumption
<1>4. Moved(c, r, state)
  BY <1>1, <1>2, <1>3, SetStateMoved DEF c
<1>5. /\ CalleeOk(p, r.s.state, r.s.remote, r.out)
      /\ r.s.state \in {state, "SENTTERMINATE"}
  BY <1>1, <1>2, <1>4, CalleeMoved
<1>6. r \in Entry /\ r.s.remote = c.s.remote /\ (Timed(c.s) => Timed(r.s))
  BY <1>4 DEF Moved
<1>7. Answering(e.s.state, e.out)
  BY DEF Answering
<1> QED BY <1>1, <1>5, <1>6, <1>7 DEF CalleeTurn

\* The user accepts: at once, or as soon as the transport is chosen.
LEMMA AcceptTurn ==
  ASSUME NEW p \in Peer \ {Caller}, NEW e \in Entry, e.s.remote = Caller,
         CalleeOk(p, e.s.state, Caller, e.out), NEW r \in Accept(e)
  PROVE  /\ CalleeTurn(p, e, r)
         /\ \/ r.s.state = e.s.state
            \/ e.s.state = "RECEIVEDINITIATE" /\ r.s.state \in {"SENTACCEPT", "SENTTERMINATE"}
<1> DEFINE x == [e.s EXCEPT !.described = TRUE]
           d == [e EXCEPT !.s = x]
<1>1. Kept(e, e)
  BY ChatSession DEF Kept
<1>2. CASE e.s.state # "RECEIVEDINITIATE"
  <2>1. r = e
    BY <1>2 DEF Accept
  <2> QED BY <1>1, <2>1, CalleeKept
<1>3. CASE e.s.state = "RECEIVEDINITIATE"
  <2>1. r \in (IF d.s.transport THEN SetState(Send(d, "accept", ""), "SENTACCEPT") ELSE {d})
    BY <1>3 DEF Accept
  <2>2. /\ x \in SessionRecord /\ x.state = e.s.state /\ x.remote = e.s.remote
        /\ x.impl = e.s.impl /\ x.requested = e.s.requested /\ x.writable = e.s.writable
        /\ x.error = e.s.error /\ x.timer = e.s.timer /\ x.posted = e.s.posted
    BY EntryTyped DEF SessionRecord
  <2> HIDE DEF x
  <2>3. Timed(e.s) => Timed(x)
    BY <2>2 DEF Timed
  <2>4. Kept(e, d) /\ d.s = x /\ d.out = e.out
    BY <2>2, <2>3, FlagKept
  <2> HIDE DEF d
  <2>5. CalleeTurn(p, e, d) /\ d \in Entry
    BY <2>4, CalleeKept DEF Kept, Chat
  <2>6. CASE r = d
    BY <2>2, <2>4, <2>5, <2>6
  <2>7. CASE r \in SetState(Send(d, "accept", ""), "SENTACCEPT")
    <3>1. CalleeTurn(p, d, r) /\ r.s.state \in {"SENTACCEPT", "SENTTERMINATE"}
      <4>1. /\ d \in Entry /\ d.s.remote = Caller /\ d.s.state = "RECEIVEDINITIATE"
            /\ CalleeOk(p, d.s.state, Caller, d.out)
        BY <1>3, <2>2, <2>4, <2>5
      <4>2. "accept" \in Answers
        BY DEF Answers
      <4> QED BY <2>7, <4>1, <4>2, AnswerTurn
    <3> QED BY <1>3, <2>5, <3>1, CalleeTurnTrans
  <2> QED BY <2>1, <2>6, <2>7
<1> QED BY <1>2, <1>3

\* The user rejects or redirects.
LEMMA RefuseTurn ==
  ASSUME NEW p \in Peer \ {Caller}, NEW e \in Entry, e.s.remote = Caller,
         CalleeOk(p, e.s.state, Caller, e.out),
         NEW r, \/ r \in Reject(e) \/ \E target \in Target[p] : r \in Redirect(e, target)
  PROVE  /\ CalleeTurn(p, e, r)
         /\ \/ r.s.state = e.s.state
            \/ /\ e.s.state = "RECEIVEDINITIATE"
               /\ r.s.state \in {"SENTREJECT", "SENTREDIRECT", "SENTTERMINATE"}
<1>1. Kept(e, e)
  BY ChatSession DEF Kept
<1>2. CASE e.s.state # "RECEIVEDINITIATE"
  <2>1. r = e
    BY <1>2 DEF Reject, Redirect
  <2> QED BY <1>1, <2>1, CalleeKept
<1>3. CASE e.s.state = "RECEIVEDINITIATE"
  <2>1. CASE r \in Reject(e)
    <3>1. r \in SetState(Send(e, "reject", ""), "SENTREJECT")
      BY <1>3, <2>1 DEF Reject
    <3>2. CalleeTurn(p, e, r) /\ r.s.state \in {"SENTREJECT", "SENTTERMINATE"}
      BY <1>3, <3>1, AnswerTurn DEF Answers
    <3> QED BY <1>3, <3>2
  <2>2. ASSUME NEW target \in Target[p], r \in Redirect(e, target)
        PROVE  CalleeTurn(p, e, r) /\ r.s.state \in {"SENTREDIRECT", "SENTTERMINATE"}
    <3>1. r \in SetState(Send(e, "redirect", target), "SENTREDIRECT")
      BY <1>3, <2>2 DEF Redirect
    <3>2. target \in Peer
      BY SessionAssumption
    <3> QED BY <1>3, <3>1, <3>2, AnswerTurn DEF Answers
  <2> QED BY <1>3, <2>1, <2>2
<1> QED BY <1>2, <1>3

\* The session is ended.
LEMMA TerminateTurn ==
  ASSUME NEW p \in Peer \ {Caller}, NEW e \in Entry, e.s.remote = Caller,
         e.s.state \notin Ended, CalleeOk(p, e.s.state, Caller, e.out)
  PROVE  CalleeTurn(p, e, Terminate(e)) /\ Terminate(e).s.state \in Terminated
<1> DEFINE r == Terminate(e)
<1>1. Moved(e, r, e.s.state) /\ r.s.state \in Terminated
  BY SessionAssumption, TerminateMoved
<1> HIDE DEF r
<1>2. e.s.state \in States
  BY EntryTyped DEF SessionRecord
<1>3. /\ CalleeOk(p, r.s.state, r.s.remote, r.out)
      /\ Answering(r.s.state, r.out) => Answering(e.s.state, e.out)
  BY <1>1, <1>2, CalleeMoved
<1> QED BY <1>1, <1>3 DEF CalleeTurn, Moved, r

\* What the client does while it is told of an offer.
LEMMA OfferedTurn ==
  ASSUME NEW p \in Peer \ {Caller}, NEW e \in Entry, e.s.remote = Caller,
         e.s.state = "RECEIVEDINITIATE", CalleeOk(p, e.s.state, Caller, e.out),
         NEW r \in Offered(e)
  PROVE  /\ CalleeTurn(p, e, r)
         /\ r.s.state \notin {"INPROGRESS", "none"} \cup Ended
<1>1. CASE r = e
  <2>1. Kept(e, e)
    BY ChatSession DEF Kept
  <2> QED BY <1>1, <2>1, CalleeKept DEF Ended
<1>2. CASE r \in Accept(e)
  BY <1>2, AcceptTurn DEF Ended
<1>3. CASE r \in Reject(e)
  BY <1>3, RefuseTurn DEF Ended
<1>4. CASE r = Terminate(e)
  BY <1>4, TerminateTurn DEF Ended, Terminated
<1> QED BY <1>1, <1>2, <1>3, <1>4 DEF Offered

\* The transport is chosen, and an offer accepted before is answered now.
LEMMA ChosenTurn ==
  ASSUME NEW p \in Peer \ {Caller}, NEW e \in Entry, e.s.remote = Caller,
         CalleeOk(p, e.s.state, Caller, e.out), NEW offer, NEW r \in ChooseTransport(e, offer)
  PROVE  /\ CalleeTurn(p, e, r)
         /\ \/ r.s.state = e.s.state
            \/ e.s.state = "RECEIVEDINITIATE" /\ r.s.state \in {"SENTACCEPT", "SENTTERMINATE"}
<1> DEFINE x == [e.s EXCEPT !.compat = offer # "offer"]
           d == [e EXCEPT !.s = x]
           chosen == SetTransport(d)
           told == IF chosen.s.compat THEN chosen ELSE Send(chosen, "transport-accept", "")
<1>1. r \in (IF told.s.described THEN Accept(told) ELSE {told})
  BY DEF ChooseTransport
<1>2. /\ x \in SessionRecord /\ x.state = e.s.state /\ x.remote = e.s.remote
      /\ x.impl = e.s.impl /\ x.requested = e.s.requested /\ x.writable = e.s.writable
      /\ x.error = e.s.error /\ x.timer = e.s.timer /\ x.posted = e.s.posted
  BY EntryTyped DEF SessionRecord
<1> HIDE DEF x
<1>3. Timed(e.s) => Timed(x)
  BY <1>2 DEF Timed
<1>4. Kept(e, d) /\ d \in Entry
  BY <1>2, <1>3, FlagKept DEF Kept, Chat
<1> HIDE DEF d
<1>5. Kept(d, chosen)
  BY <1>4, SetTransportKept
<1>6. Kept(e, chosen)
  BY <1>4, <1>5, KeptTrans
<1> HIDE DEF chosen
<1>7. chosen \in Entry /\ chosen.s.remote \in Peer
  BY <1>6, SessionAssumption DEF Kept, Chat
<1>8. Kept(chosen, chosen) /\ Kept(chosen, Send(chosen, "transport-accept", ""))
  BY <1>7, SendKept, ChatSession DEF Kept
<1>9. Kept(chosen, told)
  BY <1>8
<1> HIDE DEF told
<1>10. Kept(e, told)
  BY <1>6, <1>9, KeptTrans
<1>11. CalleeTurn(p, e, told) /\ told \in Entry /\ told.s.state = e.s.state
       /\ told.s.remote = Caller /\ CalleeOk(p, told.s.state, Caller, told.out)
  <2>1. told.s.state = e.s.state /\ told.s.remote = Caller
    BY <1>10 DEF Kept, Chat
  <2>2. CalleeTurn(p, e, told)
    BY <1>10, CalleeKept
  <2> QED BY <2>1, <2>2 DEF CalleeTurn
<1>12. CASE r = told
  BY <1>11, <1>12
<1>13. CASE r \in Accept(told)
  <2>1. /\ CalleeTurn(p, told, r)
        /\ \/ r.s.state = told.s.state
           \/ told.s.state = "RECEIVEDINITIATE" /\ r.s.state \in {"SENTACCEPT", "SENTTERMINATE"}
    BY <1>11, <1>13, AcceptTurn
  <2> QED BY <1>11, <2>1, CalleeTurnTrans
<1> QED BY <1>1, <1>12, <1>13

-----------------------------------------------------------------------------
(* What a step of one peer does to the others                                *)

\* Nothing that matters is added to what the other peers have under way.
OthersLess(p) == \A q \in Peer \ {p} : \A t \in Peer : Less(net[q][t], net'[q][t])

\* A step of a callee: what is its own is well off, and nothing it does takes
\* away what the others rely on.
LEMMA CalleeStep ==
  ASSUME SessionInv, TypeOK', NEW p \in Peer \ {Caller}, OthersLess(p),
         \A q \in Peer \ {p} : session'[q] = session[q],
         CalleeOk(p, session'[p].state, session'[p].remote, net'[p]),
         Answering(session'[p].state, net'[p]) =>
           \/ Answering(session[p].state, net[p])
           \/ Has(net[Caller][p], "initiate") /\ ~Has(net'[Caller][p], "initiate"),
         WentOn(session[p].state) =>
           WentOn(session'[p].state) \/ Has(net[Caller][p], "initiate")
  PROVE  SessionInv'
<1>1. Caller \in Peer \ {p} /\ session'[Caller] = session[Caller]
  BY SessionAssumption
<1>2. \A t \in Peer : Less(net[Caller][t], net'[Caller][t])
  BY <1>1 DEF OthersLess
<1>3. \A t \in Peer : Has(net'[Caller][t], "initiate") => Has(net[Caller][t], "initiate")
  BY <1>2 DEF Less, Has
<1>4. \A q : Current(q) => Current(q)'
  BY <1>1 DEF Current, Alive
<1>5. CallerInv'
  <2>1. CallerOk(session'[Caller].state, session'[Caller].remote, net'[Caller])
    BY <1>1, <1>2, CallerLess DEF SessionInv, CallerInv
  <2>2. ASSUME session'[Caller].state \in {"RECEIVEDACCEPT", "INPROGRESS"}
        PROVE  /\ WentOn(session'[session'[Caller].remote].state)
               /\ ~Has(net'[Caller][session'[Caller].remote], "initiate")
    <3> DEFINE q == session[Caller].remote
    <3>1. q \in Peer \ {Caller}
      BY <1>1, <2>2 DEF SessionInv, CallerInv, CallerOk, Ended
    <3>2. WentOn(session[q].state) /\ ~Has(net[Caller][q], "initiate")
      BY <1>1, <2>2 DEF SessionInv, CallerInv
    <3>3. WentOn(session'[q].state)
      BY <3>1, <3>2
    <3>4. ~Has(net'[Caller][q], "initiate")
      BY <1>3, <3>1, <3>2
    <3> QED BY <1>1, <3>3, <3>4
  <2> QED BY <2>1, <2>2 DEF CallerInv
<1>6. ASSUME NEW q \in Peer \ {Caller} PROVE CalleeInv(q)'
  <2>1. CalleeInv(q)
    BY DEF SessionInv
  <2>2. CASE q = p
    <3>1. Answering(session'[p].state, net'[p]) \/ Has(net'[Caller][p], "initiate") => Current(p)
      BY <1>3, <2>1, <2>2 DEF CalleeInv
    <3>2. Answering(session'[p].state, net'[p]) => ~Has(net'[Caller][p], "initiate")
      BY <1>3, <2>1, <2>2 DEF CalleeInv
    <3>3. Current(p)' <=> Current(p)
      BY <1>1 DEF Current, Alive
    <3> QED BY <2>2, <3>1, <3>2, <3>3 DEF CalleeInv
  <2>3. CASE q # p
    <3>1. session'[q] = session[q] /\ \A t \in Peer : Less(net[q][t], net'[q][t])
      BY <2>3 DEF OthersLess
    <3>2. /\ CalleeOk(q, session'[q].state, session'[q].remote, net'[q])
          /\ Answering(session'[q].state, net'[q]) => Answering(session[q].state, net[q])
      BY <2>1, <3>1, CalleeLess DEF CalleeInv
    <3>3. Current(q)' <=> Current(q)
      BY <1>1 DEF Current, Alive
    <3> QED BY <1>3, <2>1, <3>2, <3>3 DEF CalleeInv
  <2> QED BY <2>2, <2>3
<1> QED BY <1>5, <1>6 DEF SessionInv

\* A step of the initiator that asks nobody: it talks to the same peer, or is
\* gone; and if it goes on now, it did before.
LEMMA CallerStep ==
  ASSUME SessionInv, TypeOK', OthersLess(Caller), Alive(Caller),
         \A q \in Peer \ {Caller} : session'[q] = session[q],
         CallerOk(session'[Caller].state, session'[Caller].remote, net'[Caller]),
         \A t \in Peer : Has(net'[Caller][t], "initiate") => Has(net[Caller][t], "initiate"),
         \/ session'[Caller].state \in {"gone", "crashed"}
         \/ /\ session'[Caller].state \notin Ended
            /\ session'[Caller].remote = session[Caller].remote,
         session'[Caller].state \in {"RECEIVEDACCEPT", "INPROGRESS"} =>
           /\ WentOn(session[session[Caller].remote].state)
           /\ ~Has(net[Caller][session[Caller].remote], "initiate")
  PROVE  SessionInv'
<1>1. \A q : Current(q) => Current(q)'
  BY DEF Current, Alive, Ended
<1>2. CallerInv'
  <2>1. ASSUME session'[Caller].state \in {"RECEIVEDACCEPT", "INPROGRESS"}
        PROVE  /\ WentOn(session'[session'[Caller].remote].state)
               /\ ~Has(net'[Caller][session'[Caller].remote], "initiate")
    <3>1. session'[Caller].remote = session[Caller].remote
      BY <2>1
    <3>2. session[Caller].remote \in Peer \ {Caller}
      BY DEF SessionInv, CallerInv, CallerOk, Alive
    <3> QED BY <2>1, <3>1, <3>2
  <2> QED BY <2>1 DEF CallerInv
<1>3. ASSUME NEW q \in Peer \ {Caller} PROVE CalleeInv(q)'
  <2>1. CalleeInv(q)
    BY DEF SessionInv
  <2>2. session'[q] = session[q] /\ \A t \in Peer : Less(net[q][t], net'[q][t])
    BY DEF OthersLess
  <2>3. /\ CalleeOk(q, session'[q].state, session'[q].remote, net'[q])
        /\ Answering(session'[q].state, net'[q]) => Answering(session[q].state, net[q])
    BY <2>1, <2>2, CalleeLess DEF CalleeInv
  <2> QED BY <1>1, <2>1, <2>3 DEF CalleeInv
<1> QED BY <1>2, <1>3 DEF SessionInv

\* A session that is no more is blank: nothing is posted to it, no timer runs.
DeadInv == \A p \in Peer : ~Alive(p) => session[p] = Blank(session[p].state)

\* What NeverRevived says of a change of state.
Onward(a, b) ==
  /\ a \in Terminated \cup Refused => b \in Terminated \cup Ended \cup {a}
  /\ a # "INPROGRESS" /\ b = "INPROGRESS" => a \in {"SENTACCEPT", "RECEIVEDACCEPT"}

NoRedirects == \A q \in Peer : Target[q] = {}

\* What every step preserves.
Preserved ==
  /\ SessionInv' /\ DeadInv'
  /\ \A q \in Peer : Onward(session[q].state, session'[q].state)
  /\ \A q \in Peer : q # Caller \/ NoRedirects => (Timed(session[q]) => Timed(session'[q]))

\* A step of p, in which its session becomes e.s and what it has sent e.out.
StepTo(p, e) ==
  /\ TypeOK' /\ OthersLess(p)
  /\ session'[p] = e.s /\ net'[p] = e.out
  /\ \A q \in Peer \ {p} : session'[q] = session[q]

\* What a turn of p begins with is an entry.
LEMMA HereTyped ==
  ASSUME TypeOK, NEW p \in Peer
  PROVE  /\ Here(p) \in Entry /\ Here(p).s = session[p] /\ Here(p).out = net[p]
         /\ Here(p).open = open[p]
BY DEF TypeOK, Here, Entry

\* A turn of the client, of a posted message or of the transport.
LEMMA TurnStep ==
  ASSUME TypeOK, NEW p \in Peer, NEW results, Turn(p, results), results \subseteq Entry
  PROVE  \E e \in results : StepTo(p, e)
<1>1. PICK e \in results :
        /\ session' = [session EXCEPT ![p] = e.s]
        /\ net' = [net EXCEPT ![p] = e.out]
        /\ open' = [open EXCEPT ![p] = e.open]
        /\ faults' = faults
  BY DEF Turn
<1>2. /\ e.s \in SessionRecord /\ e.out \in [Peer -> Seq(Stanza)]
      /\ e.open \in SUBSET (Signals \X Peer)
  BY EntryTyped
<1>3. TypeOK'
  BY <1>1, <1>2 DEF TypeOK
<1>4. OthersLess(p)
  BY <1>1 DEF OthersLess, Less, TypeOK
<1>5. session'[p] = e.s /\ net'[p] = e.out /\ \A q \in Peer \ {p} : session'[q] = session[q]
  BY <1>1 DEF TypeOK
<1> QED BY <1>3, <1>4, <1>5 DEF StepTo

\* A turn that handles the first stanza from q.
LEMMA HandleStep ==
  ASSUME TypeOK, NEW p \in Peer, NEW q \in Peer \ {p}, net[q][p] # <<>>,
         NEW results, Handle(p, q, results), results \subseteq Entry
  PROVE  \E e \in results : StepTo(p, e) /\ net'[q][p] = Tail(net[q][p])
<1> DEFINE done == <<Head(net[q][p]).type, p>>
<1>1. PICK e \in results :
        /\ session' = [session EXCEPT ![p] = e.s]
        /\ net' = [net EXCEPT ![q][p] = Tail(@), ![p] = e.out]
        /\ open' = [open EXCEPT ![q] = @ \ {done}, ![p] = e.open]
        /\ faults' = faults
  BY DEF Handle
<1>2. /\ e.s \in SessionRecord /\ e.out \in [Peer -> Seq(Stanza)]
      /\ e.open \in SUBSET (Signals \X Peer)
  BY EntryTyped
<1>3. net \in [Peer -> [Peer -> Seq(Stanza)]] /\ net[q][p] \in Seq(Stanza)
  BY DEF TypeOK
<1>4. Less(net[q][p], Tail(net[q][p])) /\ Tail(net[q][p]) \in Seq(Stanza)
  BY <1>3, TailLess
<1>5. /\ net'[p] = e.out /\ net'[q] = [net[q] EXCEPT ![p] = Tail(net[q][p])]
      /\ \A r \in Peer \ {p, q} : net'[r] = net[r]
      /\ DOMAIN net' = Peer
  BY <1>1, <1>3
<1>6. net' \in [Peer -> [Peer -> Seq(Stanza)]]
  <2>1. net' = [net EXCEPT ![q] = [net[q] EXCEPT ![p] = Tail(net[q][p])], ![p] = e.out]
    BY <1>1, <1>3
  <2>2. [net[q] EXCEPT ![p] = Tail(net[q][p])] \in [Peer -> Seq(Stanza)]
    BY <1>3, <1>4
  <2> QED BY <1>2, <1>3, <2>1, <2>2
<1> HIDE DEF done
<1>7. open' \in [Peer -> SUBSET (Signals \X Peer)]
  BY <1>1, <1>2 DEF TypeOK
<1>8. TypeOK'
  BY <1>1, <1>2, <1>6, <1>7 DEF TypeOK
<1>9. net'[q][p] = Tail(net[q][p]) /\ \A t \in Peer \ {p} : net'[q][t] = net[q][t]
  BY <1>3, <1>5
<1>10. ASSUME NEW r \in Peer \ {p}, NEW t \in Peer PROVE Less(net[r][t], net'[r][t])
  <2>1. CASE r = q /\ t = p
    BY <1>4, <1>9, <2>1
  <2>2. CASE ~(r = q /\ t = p)
    <3>1. net'[r][t] = net[r][t]
      BY <1>5, <1>9, <2>2
    <3> QED BY <3>1 DEF Less
  <2> QED BY <2>1, <2>2
<1>11. session'[p] = e.s /\ \A r \in Peer \ {p} : session'[r] = session[r]
  BY <1>1 DEF TypeOK
<1> QED BY <1>5, <1>8, <1>9, <1>10, <1>11 DEF StepTo, OthersLess

\* A step that changes no state and adds nothing that matters.
LEMMA QuietStep ==
  ASSUME SessionInv, DeadInv, TypeOK',
         \A q \in Peer : /\ session'[q].state = session[q].state
                         /\ session'[q].remote = session[q].remote
                         /\ Alive(q) \/ session'[q] = session[q]
                         /\ Timed(session[q]) => Timed(session'[q]),
         \A q, t \in Peer : Less(net[q][t], net'[q][t])
  PROVE  Preserved
<1>1. \A q, t \in Peer : Has(net'[q][t], "initiate") => Has(net[q][t], "initiate")
  BY DEF Less, Has
<1>2. Caller \in Peer
  BY SessionAssumption
<1>3. \A q : Current(q)' <=> Current(q)
  BY <1>2 DEF Current, Alive
<1>4. CallerInv'
  <2>1. CallerOk(session'[Caller].state, session'[Caller].remote, net'[Caller])
    BY <1>2, CallerLess DEF SessionInv, CallerInv
  <2>2. ASSUME session[Caller].state \in {"RECEIVEDACCEPT", "INPROGRESS"}
        PROVE  /\ WentOn(session'[session[Caller].remote].state)
               /\ ~Has(net'[Caller][session[Caller].remote], "initiate")
    <3>1. session[Caller].remote \in Peer
      BY <2>2 DEF SessionInv, CallerInv, CallerOk, Ended
    <3> QED BY <1>1, <1>2, <2>2, <3>1 DEF SessionInv, CallerInv
  <2> QED BY <1>2, <2>1, <2>2 DEF CallerInv
<1>5. ASSUME NEW q \in Peer \ {Caller} PROVE CalleeInv(q)'
  <2>1. CalleeInv(q)
    BY DEF SessionInv
  <2>2. \A t \in Peer : Less(net[q][t], net'[q][t])
    OBVIOUS
  <2>3. /\ CalleeOk(q, session[q].state, session[q].remote, net'[q])
        /\ Answering(session[q].state, net'[q]) => Answering(session[q].state, net[q])
    BY <2>1, <2>2, CalleeLess DEF CalleeInv
  <2> QED BY <1>1, <1>2, <1>3, <2>1, <2>3 DEF CalleeInv
<1>6. DeadInv'
  BY DEF DeadInv, Alive
<1>7. \A q \in Peer : Onward(session[q].state, session'[q].state)
  BY DEF Onward
<1> QED BY <1>4, <1>5, <1>6, <1>7 DEF Preserved, SessionInv

\* A turn that changes no state.
LEMMA KeptStep ==
  ASSUME SessionInv, DeadInv, NEW p \in Peer, NEW e, StepTo(p, e), Chat(Here(p), e),
         Timed(session[p]) => Timed(e.s), Alive(p) \/ e.s = session[p]
  PROVE  Preserved
<1>1. Here(p).s = session[p] /\ Here(p).out = net[p]
  BY HereTyped DEF SessionInv
<1>2. ASSUME NEW q \in Peer
      PROVE  /\ session'[q].state = session[q].state
             /\ session'[q].remote = session[q].remote
             /\ Alive(q) \/ session'[q] = session[q]
             /\ Timed(session[q]) => Timed(session'[q])
             /\ \A t \in Peer : Less(net[q][t], net'[q][t])
  <2>1. CASE q = p
    <3>1. session'[p] = e.s /\ net'[p] = e.out
      BY DEF StepTo
    <3> QED BY <1>1, <2>1, <3>1 DEF Chat, SameWords, Less
  <2>2. CASE q # p
    BY <2>2 DEF StepTo, OthersLess
  <2> QED BY <2>1, <2>2
<1>3. TypeOK'
  BY DEF StepTo
<1> QED BY <1>2, <1>3, QuietStep

\* A turn of a callee that has a session and keeps one.
LEMMA CalleeTurnStep ==
  ASSUME SessionInv, DeadInv, NEW p \in Peer \ {Caller}, Alive(p),
         NEW e, StepTo(p, e), CalleeTurn(p, Here(p), e), e.s.state \notin Ended,
         WentOn(session[p].state) => WentOn(e.s.state), Onward(session[p].state, e.s.state)
  PROVE  Preserved
<1>1. Here(p).s = session[p] /\ Here(p).out = net[p]
  BY HereTyped DEF SessionInv
<1>2. /\ TypeOK' /\ OthersLess(p) /\ session'[p] = e.s /\ net'[p] = e.out
      /\ \A q \in Peer \ {p} : session'[q] = session[q]
  BY DEF StepTo
<1>3. SessionInv'
  BY <1>1, <1>2, CalleeStep DEF CalleeTurn
<1>4. DeadInv'
  BY <1>2 DEF DeadInv, Alive
<1>5. \A q \in Peer : Onward(session[q].state, session'[q].state)
  BY <1>2 DEF Onward
<1>6. \A q \in Peer : Timed(session[q]) => Timed(session'[q])
  BY <1>1, <1>2 DEF CalleeTurn
<1> QED BY <1>3, <1>4, <1>5, <1>6 DEF Preserved

\* A turn of the initiator that moves it to a state it may be in; it goes on
\* only with a peer that did.
LEMMA CallerTurnStep ==
  ASSUME SessionInv, DeadInv, Alive(Caller), NEW e, StepTo(Caller, e),
         NEW state \in States, Moved(Here(Caller), e, state),
         state \notin {"RECEIVEDINITIATE", "SENTACCEPT", "SENTREJECT", "SENTREDIRECT"},
         Onward(session[Caller].state, state),
         state \in {"RECEIVEDACCEPT", "INPROGRESS"} =>
           /\ WentOn(session[session[Caller].remote].state)
           /\ ~Has(net[Caller][session[Caller].remote], "initiate")
  PROVE  Preserved
<1>1. Caller \in Peer
  BY SessionAssumption
<1>2. /\ Here(Caller).s = session[Caller] /\ Here(Caller).out = net[Caller]
      /\ Here(Caller) \in Entry
  BY <1>1, HereTyped DEF SessionInv
<1>3. /\ TypeOK' /\ OthersLess(Caller) /\ session'[Caller] = e.s /\ net'[Caller] = e.out
      /\ \A q \in Peer \ {Caller} : session'[q] = session[q]
  BY DEF StepTo
<1>4. session[Caller].remote \in Peer \ {Caller}
  BY DEF SessionInv, CallerInv, CallerOk, Alive
<1>5. CallerOk(state, session[Caller].remote, net[Caller])
  BY <1>4 DEF SessionInv, CallerInv, CallerOk
<1>6. /\ CallerOk(e.s.state, e.s.remote, e.out)
      /\ \A q \in Peer : Less(net[Caller][q], e.out[q])
      /\ e.s.state \in {state, "SENTTERMINATE"}
  BY <1>2, <1>4, <1>5, CallerMoved
<1>7. e.s.state \notin Ended /\ e.s.remote = session[Caller].remote
      /\ (Timed(session[Caller]) => Timed(e.s))
  BY <1>2, <1>6 DEF Moved, States, Ended
<1>8. \A t \in Peer : Has(net'[Caller][t], "initiate") => Has(net[Caller][t], "initiate")
  BY <1>3, <1>6 DEF Less, Has
<1>9. SessionInv'
  BY <1>3, <1>6, <1>7, <1>8, CallerStep
<1>10. DeadInv'
  BY <1>3, <1>7 DEF DeadInv, Alive
<1>11. \A q \in Peer : Onward(session[q].state, session'[q].state)
  BY <1>3, <1>6 DEF Onward, Terminated
<1>12. \A q \in Peer : Timed(session[q]) => Timed(session'[q])
  BY <1>3, <1>7
<1> QED BY <1>9, <1>10, <1>11, <1>12 DEF Preserved

\* The session of a peer is deleted, or its process ends.
LEMMA GoneStep ==
  ASSUME SessionInv, DeadInv, NEW p \in Peer, Alive(p), NEW e, StepTo(p, e),
         NEW state \in {"gone", "crashed"}, e.s = Blank(state), e.out = net[p]
  PROVE  Preserved
<1>1. /\ TypeOK' /\ OthersLess(p) /\ session'[p] = Blank(state) /\ net'[p] = net[p]
      /\ \A q \in Peer \ {p} : session'[q] = session[q]
  BY DEF StepTo
<1>2. session'[p].state = state /\ session'[p].remote = Nobody /\ Timed(session'[p])
  BY <1>1 DEF Blank, Timed
<1>3. SessionInv'
  <2>1. CASE p = Caller
    <3>1. CallerOk(session'[Caller].state, session'[Caller].remote, net'[Caller])
      BY <1>1, <1>2, <2>1 DEF SessionInv, CallerInv, CallerOk, Ended
    <3> QED BY <1>1, <1>2, <2>1, <3>1, CallerStep
  <2>2. CASE p # Caller
    <3>1. CalleeInv(p)
      BY <2>2 DEF SessionInv
    <3>2. CalleeOk(p, session'[p].state, session'[p].remote, net'[p])
      BY <1>1, <1>2, <3>1 DEF CalleeInv, CalleeOk, Ended, WentOn, Silent
    <3>3. Answering(session'[p].state, net'[p]) => Answering(session[p].state, net[p])
      BY <1>1, <1>2 DEF Answering
    <3>4. WentOn(session'[p].state)
      BY <1>2 DEF WentOn
    <3> QED BY <1>1, <2>2, <3>2, <3>3, <3>4, CalleeStep
  <2> QED BY <2>1, <2>2
<1>4. DeadInv'
  BY <1>1, <1>2 DEF DeadInv, Alive, Ended
<1>5. \A q \in Peer : Onward(session[q].state, session'[q].state)
  BY <1>1, <1>2 DEF Onward, Ended
<1> QED BY <1>1, <1>2, <1>3, <1>4, <1>5 DEF Preserved

-----------------------------------------------------------------------------
(* The steps, one by one                                                     *)

\* What is first in a queue is said in it.
LEMMA HeadSaid ==
  ASSUME NEW s \in Seq(Stanza), s # <<>>
  PROVE  /\ Head(s) \in Stanza
         /\ Head(s).type \in Answers \cup {"initiate"} => Head(s) \in Said(s) /\ Has(s, Head(s).type)
<1>1. Head(s) = s[1] /\ 1 \in DOMAIN s
  OBVIOUS
<1>2. Head(s) \in Range(s)
  BY <1>1 DEF Range
<1>3. Head(s) \in Stanza
  OBVIOUS
<1> QED BY <1>2, <1>3 DEF Said, Has

\* A request is taken from a queue and answered with an error.
LEMMA ErrorNet ==
  ASSUME TypeOK, NEW a \in Peer, NEW b \in Peer \ {a}, net[a][b] # <<>>,
         Head(net[a][b]).type \in Requests,
         net' = SendError([net EXCEPT ![a][b] = Tail(@)], b, a, Head(net[a][b]).type)
  PROVE  /\ net' \in [Peer -> [Peer -> Seq(Stanza)]]
         /\ \A x, y \in Peer : Less(net[x][y], net'[x][y])
<1> DEFINE type == Head(net[a][b]).type
           m == [type |-> "error", arg |-> type]
           taken == [net EXCEPT ![a] = [net[a] EXCEPT ![b] = Tail(net[a][b])]]
           more == [taken EXCEPT ![b] = [taken[b] EXCEPT ![a] = Append(taken[b][a], m)]]
<1>1. net \in [Peer -> [Peer -> Seq(Stanza)]]
  BY DEF TypeOK
<1>2. Less(net[a][b], Tail(net[a][b])) /\ Tail(net[a][b]) \in Seq(Stanza)
  BY <1>1, TailLess
<1>3. Less(net[b][a], Append(net[b][a], m)) /\ Append(net[b][a], m) \in Seq(Stanza)
  BY <1>1, ErrorLess
<1>4. net' = taken \/ net' = more
  BY <1>1 DEF SendError
<1> HIDE DEF type, m
<1>5. /\ taken \in [Peer -> [Peer -> Seq(Stanza)]]
      /\ taken[a] = [net[a] EXCEPT ![b] = Tail(net[a][b])]
      /\ \A x \in Peer \ {a} : taken[x] = net[x]
  <2>1. [net[a] EXCEPT ![b] = Tail(net[a][b])] \in [Peer -> Seq(Stanza)]
    BY <1>1, <1>2
  <2> QED BY <1>1, <2>1
<1>6. \A x, y \in Peer : Less(net[x][y], taken[x][y])
  <2> SUFFICES ASSUME NEW x \in Peer, NEW y \in Peer PROVE Less(net[x][y], taken[x][y])
    OBVIOUS
  <2>1. CASE x = a /\ y = b
    BY <1>1, <1>2, <1>5, <2>1
  <2>2. CASE ~(x = a /\ y = b)
    <3>1. taken[x][y] = net[x][y]
      BY <1>1, <1>5, <2>2
    <3> QED BY <3>1 DEF Less
  <2> QED BY <2>1, <2>2
<1>7. taken[b] = net[b]
  BY <1>5
<1> HIDE DEF taken
<1>8. /\ more \in [Peer -> [Peer -> Seq(Stanza)]]
      /\ more[b] = [net[b] EXCEPT ![a] = Append(net[b][a], m)]
      /\ \A x \in Peer \ {b} : more[x] = taken[x]
  <2>1. [net[b] EXCEPT ![a] = Append(net[b][a], m)] \in [Peer -> Seq(Stanza)]
    BY <1>1, <1>3
  <2> QED BY <1>5, <1>7, <2>1
<1> HIDE DEF more
<1>9. \A x, y \in Peer : Less(net[x][y], more[x][y])
  <2> SUFFICES ASSUME NEW x \in Peer, NEW y \in Peer PROVE Less(net[x][y], more[x][y])
    OBVIOUS
  <2>1. CASE x = b /\ y = a
    BY <1>1, <1>3, <1>8, <2>1
  <2>2. CASE x = b /\ y # a
    <3>1. more[x][y] = net[x][y]
      BY <1>1, <1>8, <2>2
    <3> QED BY <3>1 DEF Less
  <2>3. CASE x # b
    BY <1>6, <1>8, <2>3
  <2> QED BY <2>1, <2>2, <2>3
<1> QED BY <1>4, <1>5, <1>6, <1>8, <1>9

\* A stanza that is denied, or bounced by the server.
LEMMA ErrorKeeps ==
  ASSUME SessionInv, DeadInv, NEW a \in Peer, NEW b \in Peer \ {a}, net[a][b] # <<>>,
         Head(net[a][b]).type \in Requests,
         net' = SendError([net EXCEPT ![a][b] = Tail(@)], b, a, Head(net[a][b]).type),
         UNCHANGED <<session, open>>, faults' \in 0..MaxFaults
  PROVE  Preserved
<1>1. TypeOK
  BY DEF SessionInv
<1>2. /\ net' \in [Peer -> [Peer -> Seq(Stanza)]]
      /\ \A x, y \in Peer : Less(net[x][y], net'[x][y])
  BY <1>1, ErrorNet
<1>3. TypeOK'
  BY <1>1, <1>2 DEF TypeOK
<1> QED BY <1>2, <1>3, QuietStep

\* A request that SessionManager refuses, because there is no such session, changes
\* nothing but its sender's queue (sessionmanager.cc, SendErrorMessage).
LEMMA DenyKeeps ==
  ASSUME SessionInv, DeadInv, NEW p \in Peer, NEW q \in Peer \ {p},
         FromTo(q, p, Requests), Deny(p, q)
  PROVE  Preserved
<1>1. TypeOK
  BY DEF SessionInv
<1> QED BY <1>1, ErrorKeeps DEF Deny, FromTo, TypeOK

\* A stanza is lost.
LEMMA DropKeeps ==
  ASSUME SessionInv, DeadInv, NEW p \in Peer, NEW q \in Peer \ {p}, ServerDrops(p, q)
  PROVE  Preserved
<1>1. net \in [Peer -> [Peer -> Seq(Stanza)]] /\ TypeOK
  BY DEF SessionInv, TypeOK
<1>2. /\ net[p][q] # <<>>
      /\ net' = [net EXCEPT ![p] = [net[p] EXCEPT ![q] = Tail(net[p][q])]]
      /\ UNCHANGED <<session, open>>
  BY <1>1 DEF ServerDrops
<1>3. Less(net[p][q], Tail(net[p][q])) /\ Tail(net[p][q]) \in Seq(Stanza)
  BY <1>1, <1>2, TailLess
<1>4. [net[p] EXCEPT ![q] = Tail(net[p][q])] \in [Peer -> Seq(Stanza)]
  BY <1>1, <1>3
<1>5. faults' \in 0..MaxFaults
  BY <1>1, SessionAssumption DEF ServerDrops, Fault, TypeOK
<1>6. TypeOK'
  BY <1>1, <1>2, <1>4, <1>5 DEF TypeOK
<1>7. ASSUME NEW x \in Peer, NEW y \in Peer PROVE Less(net[x][y], net'[x][y])
  <2>1. CASE x = p /\ y = q
    BY <1>1, <1>2, <1>3, <2>1
  <2>2. CASE ~(x = p /\ y = q)
    <3>1. net'[x][y] = net[x][y]
      BY <1>1, <1>2, <2>2
    <3> QED BY <3>1 DEF Less
  <2> QED BY <2>1, <2>2
<1> QED BY <1>2, <1>6, <1>7, QuietStep

\* The server bounces a request.
LEMMA BounceKeeps ==
  ASSUME SessionInv, DeadInv, NEW p \in Peer, NEW q \in Peer \ {p}, ServerBounces(p, q)
  PROVE  Preserved
<1>1. TypeOK
  BY DEF SessionInv
<1>2. faults' \in 0..MaxFaults
  BY <1>1, SessionAssumption DEF ServerBounces, Fault, TypeOK
<1> QED BY <1>2, ErrorKeeps DEF ServerBounces, FromTo

\* What a peer with a session and a peer without one have.
LEMMA AliveOrBlank ==
  ASSUME SessionInv, DeadInv, NEW p \in Peer
  PROVE  /\ Here(p) \in Entry /\ Here(p).s = session[p] /\ Here(p).out = net[p]
         /\ Here(p).open = open[p] /\ session[p] \in SessionRecord
         /\ Alive(p) => session[p].remote \in Peer /\ session[p].state \in States
         /\ ~Alive(p) => /\ session[p].remote = Nobody /\ session[p].posted = <<>>
                         /\ ~session[p].timer /\ ~session[p].impl /\ ~session[p].writable
<1>1. /\ Here(p) \in Entry /\ Here(p).s = session[p] /\ Here(p).out = net[p]
      /\ Here(p).open = open[p] /\ session[p] \in SessionRecord
  BY HereTyped DEF SessionInv, TypeOK
<1>2. ASSUME Alive(p) PROVE session[p].remote \in Peer /\ session[p].state \in States
  <2>1. session[p].state \in States
    BY <1>1, <1>2 DEF SessionRecord, Alive
  <2>2. session[p].remote \in Peer
    BY <1>2, SessionAssumption
    DEF SessionInv, CallerInv, CallerOk, CalleeInv, CalleeOk, Alive
  <2> QED BY <2>1, <2>2
<1>3. ASSUME ~Alive(p)
      PROVE  /\ session[p].remote = Nobody /\ session[p].posted = <<>>
             /\ ~session[p].timer /\ ~session[p].impl /\ ~session[p].writable
  <2> DEFINE state == session[p].state
  <2>1. session[p] = Blank(state)
    BY <1>3 DEF DeadInv
  <2> HIDE DEF state
  <2> QED BY <2>1 DEF Blank
<1> QED BY <1>1, <1>2, <1>3

\* A turn of p with one outcome, that changes no state.
LEMMA KeptTurn ==
  ASSUME SessionInv, DeadInv, NEW p \in Peer, Alive(p), NEW e, Turn(p, {e}),
         Chat(Here(p), e), Timed(session[p]) => Timed(e.s)
  PROVE  Preserved
<1>1. {e} \subseteq Entry /\ TypeOK
  BY DEF Chat, SessionInv
<1>2. StepTo(p, e)
  BY <1>1, TurnStep
<1> QED BY <1>2, KeptStep

\* The client creates its channel.
LEMMA ClientCreatesChannelKeeps ==
  ASSUME SessionInv, DeadInv, NEW p \in Peer, ClientCreatesChannel(p)
  PROVE  Preserved
<1>1. Here(p) \in Entry /\ Here(p).s = session[p]
  BY AliveOrBlank
<1>2. Kept(Here(p), CreateChannel(Here(p)))
  BY <1>1, CreateChannelKept
<1> QED BY <1>1, <1>2, KeptTurn DEF ClientCreatesChannel, Kept

\* The timer expires.
LEMMA OnTimeoutKeeps ==
  ASSUME SessionInv, DeadInv, NEW p \in Peer, OnTimeout(p)
  PROVE  Preserved
<1> DEFINE x == [session[p] EXCEPT !.timer = FALSE]
           e == [Here(p) EXCEPT !.s = x]
<1>1. Here(p) \in Entry /\ Here(p).s = session[p] /\ session[p] \in SessionRecord /\ Alive(p)
  BY AliveOrBlank DEF OnTimeout
<1>2. x \in SessionRecord /\ x.state = session[p].state /\ x.remote = session[p].remote
  BY <1>1 DEF SessionRecord
<1>3. Turn(p, {SetError(e, "TIME")})
  BY <1>1 DEF OnTimeout
<1> HIDE DEF x
<1>4. Chat(Here(p), e)
  BY <1>1, <1>2, FlagKept
<1> HIDE DEF e
<1>5. Kept(e, SetError(e, "TIME")) /\ Timed(SetError(e, "TIME").s)
  BY <1>4, ErrorKept DEF Chat
<1>6. Chat(Here(p), SetError(e, "TIME"))
  BY <1>4, <1>5, ChatTrans DEF Kept
<1> QED BY <1>1, <1>3, <1>5, <1>6, KeptTurn

\* The channel signals its candidates.
LEMMA OnChannelMessageKeeps ==
  ASSUME SessionInv, DeadInv, NEW p \in Peer, OnChannelMessage(p)
  PROVE  Preserved
<1> DEFINE x == [session[p] EXCEPT !.gathered = TRUE]
           e == [Here(p) EXCEPT !.s = x]
<1>1. /\ Here(p) \in Entry /\ Here(p).s = session[p] /\ session[p] \in SessionRecord /\ Alive(p)
      /\ session[p].remote \in Peer
  BY AliveOrBlank DEF OnChannelMessage
<1>2. /\ x \in SessionRecord /\ x.state = session[p].state /\ x.remote = session[p].remote
      /\ x.impl = session[p].impl /\ x.requested = session[p].requested
      /\ x.writable = session[p].writable /\ x.error = session[p].error
      /\ x.timer = session[p].timer /\ x.posted = session[p].posted
  BY <1>1 DEF SessionRecord
<1>3. Turn(p, {OnTransportSendMessage(e)})
  BY <1>1 DEF OnChannelMessage
<1> HIDE DEF x
<1>4. Timed(session[p]) => Timed(x)
  BY <1>2 DEF Timed
<1>5. Kept(Here(p), e)
  BY <1>1, <1>2, <1>4, FlagKept
<1> HIDE DEF e
<1>6. e \in Entry /\ e.s.remote \in Peer
  BY <1>1, <1>5 DEF Kept, Chat
<1>7. Kept(Here(p), OnTransportSendMessage(e))
  BY <1>5, <1>6, CandidatesKept, KeptTrans
<1> QED BY <1>1, <1>3, <1>7, KeptTurn DEF Kept

\* The transport tells whether it is writable.
LEMMA WritableKeeps ==
  ASSUME SessionInv, DeadInv, NEW p \in Peer, Alive(p), NEW w \in BOOLEAN,
         Turn(p, {WatchWritable([Here(p) EXCEPT !.s.writable = w])})
  PROVE  Preserved
<1> DEFINE x == [session[p] EXCEPT !.writable = w]
           e == [Here(p) EXCEPT !.s = x]
<1>1. Here(p) \in Entry /\ Here(p).s = session[p] /\ session[p] \in SessionRecord
  BY AliveOrBlank
<1>2. x \in SessionRecord /\ x.state = session[p].state /\ x.remote = session[p].remote
  BY <1>1 DEF SessionRecord
<1>3. Turn(p, {WatchWritable(e)})
  BY <1>1
<1> HIDE DEF x
<1>4. Chat(Here(p), e)
  BY <1>1, <1>2, FlagKept
<1> HIDE DEF e
<1>5. Kept(e, WatchWritable(e)) /\ Timed(WatchWritable(e).s)
  BY <1>4, WatchKept DEF Chat
<1>6. Chat(Here(p), WatchWritable(e))
  BY <1>4, <1>5, ChatTrans DEF Kept
<1> QED BY <1>1, <1>3, <1>5, <1>6, KeptTurn

\* It becomes writable, or loses its remote.
LEMMA TransportKeeps ==
  ASSUME SessionInv, DeadInv, NEW p \in Peer, BecomesWritable(p) \/ LosesRemote(p)
  PROVE  Preserved
<1>1. Alive(p)
  BY AliveOrBlank DEF BecomesWritable, LosesRemote, Connecting
<1>2. PICK w \in BOOLEAN : Turn(p, {WatchWritable([Here(p) EXCEPT !.s.writable = w])})
  BY DEF BecomesWritable, LosesRemote
<1> QED BY <1>1, <1>2, WritableKeeps

\* A fault that only touches the session of p.
LEMMA FaultStep ==
  ASSUME SessionInv, NEW p \in Peer, NEW x \in SessionRecord,
         NEW tasks \in SUBSET (Signals \X Peer),
         session' = [session EXCEPT ![p] = x], net' = net,
         open' = [open EXCEPT ![p] = tasks], NEW kind, Fault(kind)
  PROVE  LET e == [s |-> x, out |-> net[p], open |-> tasks]
         IN e \in Entry /\ e.s = x /\ e.out = net[p] /\ StepTo(p, e)
<1> DEFINE e == [s |-> x, out |-> net[p], open |-> tasks]
<1>1. e \in Entry /\ e.s = x /\ e.out = net[p]
  BY DEF Entry, SessionInv, TypeOK
<1>2. TypeOK'
  BY SessionAssumption DEF SessionInv, TypeOK, Fault
<1>3. OthersLess(p)
  BY DEF OthersLess, Less
<1>4. session'[p] = x /\ net'[p] = net[p] /\ \A q \in Peer \ {p} : session'[q] = session[q]
  BY DEF SessionInv, TypeOK
<1> QED BY <1>1, <1>2, <1>3, <1>4 DEF StepTo

\* The link between two connected channels fails.
LEMMA LinkFailsKeeps ==
  ASSUME SessionInv, DeadInv, NEW p \in Peer, LinkFails(p)
  PROVE  Preserved
<1> DEFINE x == [session[p] EXCEPT !.writable = FALSE]
           e == [Here(p) EXCEPT !.s = x]
           y == WatchWritable(e).s
           r == [s |-> y, out |-> net[p], open |-> open[p]]
<1>1. /\ Here(p) \in Entry /\ Here(p).s = session[p] /\ session[p] \in SessionRecord /\ Alive(p)
      /\ Here(p).out = net[p] /\ Here(p).open = open[p]
  BY AliveOrBlank DEF LinkFails
<1>2. x \in SessionRecord /\ x.state = session[p].state /\ x.remote = session[p].remote
  BY <1>1 DEF SessionRecord
<1>3. session' = [session EXCEPT ![p] = y] /\ UNCHANGED <<net, open>> /\ Fault("link")
  BY <1>1 DEF LinkFails
<1> HIDE DEF x
<1>4. Chat(Here(p), e)
  BY <1>1, <1>2, FlagKept
<1> HIDE DEF e
<1>5. Kept(e, WatchWritable(e)) /\ Timed(y)
  BY <1>4, WatchKept DEF Chat
<1>6. y \in SessionRecord /\ y.state = session[p].state /\ y.remote = session[p].remote
  BY <1>1, <1>4, <1>5, EntryTyped DEF Kept, Chat
<1>7. open' = [open EXCEPT ![p] = open[p]] /\ open[p] \in SUBSET (Signals \X Peer)
  BY <1>3 DEF SessionInv, TypeOK
<1> HIDE DEF y
<1>8. r \in Entry /\ r.s = y /\ r.out = net[p] /\ StepTo(p, r)
  BY <1>3, <1>6, <1>7, FaultStep
<1> HIDE DEF r
<1>9. Chat(Here(p), r)
  BY <1>1, <1>6, <1>8, ChatSession
<1> QED BY <1>1, <1>5, <1>8, <1>9, KeptStep

\* A task that waits for a reply gives up.
LEMMA SendTaskTimesOutKeeps ==
  ASSUME SessionInv, DeadInv, NEW p \in Peer, SendTaskTimesOut(p)
  PROVE  Preserved
<1>1. PICK task \in open[p] :
        /\ session' = [session EXCEPT ![p] = FailedSend(Here(p), task).s]
        /\ open' = [open EXCEPT ![p] = FailedSend(Here(p), task).open]
        /\ net' = net /\ Fault("timeout")
  BY DEF SendTaskTimesOut
<1> DEFINE f == FailedSend(Here(p), task)
           r == [s |-> f.s, out |-> net[p], open |-> f.open]
<1>2. Here(p) \in Entry /\ Here(p).s = session[p] /\ Here(p).out = net[p]
  BY AliveOrBlank
<1>3. Kept(Here(p), f)
  BY <1>2, FailedSendKept
<1>4. Alive(p) \/ f.s = session[p]
  BY <1>2 DEF FailedSend, Alive, Entry
<1> HIDE DEF f
<1>5. /\ f.s \in SessionRecord /\ f.open \in SUBSET (Signals \X Peer)
      /\ f.s.state = session[p].state /\ f.s.remote = session[p].remote
      /\ Timed(session[p]) => Timed(f.s)
  BY <1>2, <1>3, EntryTyped DEF Kept, Chat
<1>6. r \in Entry /\ r.s = f.s /\ r.out = net[p] /\ StepTo(p, r)
  BY <1>1, <1>5, FaultStep DEF f
<1> HIDE DEF r
<1>7. Chat(Here(p), r)
  BY <1>2, <1>5, <1>6, ChatSession
<1> QED BY <1>4, <1>5, <1>6, <1>7, KeptStep

\* The blank session is one.
LEMMA BlankTyped ==
  ASSUME NEW state \in States \cup Ended
  PROVE  Blank(state) \in SessionRecord
BY DEF Blank, SessionRecord

\* The process of p ends.
LEMMA CrashKeeps ==
  ASSUME SessionInv, DeadInv, NEW p \in Peer, Crash(p)
  PROVE  Preserved
<1> DEFINE r == [s |-> Blank("gone"), out |-> net[p], open |-> {}]
<1>1. Blank("gone") \in SessionRecord
  BY BlankTyped DEF Ended
<1>2. r.s = Blank("gone") /\ r.out = net[p] /\ StepTo(p, r)
  BY <1>1, FaultStep DEF Crash
<1> HIDE DEF r
<1> QED BY <1>2, GoneStep DEF Crash

-----------------------------------------------------------------------------
(* Posted messages and calls of the client                                   *)

\* A message is taken from what is posted to a session.
LEMMA TakenKept ==
  ASSUME NEW e \in Entry, e.s.posted # <<>>
  PROVE  LET r == [e EXCEPT !.s.posted = Tail(@)]
         IN /\ Chat(e, r) /\ r.s.state = e.s.state /\ r.s.remote = e.s.remote
            /\ r.out = e.out
            /\ Head(e.s.posted) # "connecting" => (Timed(e.s) => Timed(r.s))
            /\ r.s.requested = e.s.requested
<1> DEFINE s == e.s.posted
           x == [e.s EXCEPT !.posted = Tail(s)]
           r == [e EXCEPT !.s = x]
<1>1. s \in Seq({"state", "error", "connecting"}) /\ s # <<>>
  BY EntryTyped DEF SessionRecord
<1>2. Tail(s) \in Seq({"state", "error", "connecting"})
  BY <1>1
<1>3. ASSUME NEW i \in 1..Len(s), i # 1
      PROVE  i - 1 \in 1..Len(Tail(s)) /\ Tail(s)[i - 1] = s[i]
  <2>1. Len(Tail(s)) = Len(s) - 1 /\ \A j \in 1..Len(s) - 1 : Tail(s)[j] = s[j + 1]
    BY <1>1
  <2>2. i - 1 \in 1..Len(s) - 1 /\ (i - 1) + 1 = i
    BY <1>1, <1>3
  <2> QED BY <2>1, <2>2
<1>4. Head(s) = s[1]
  BY <1>1
<1>5. /\ x \in SessionRecord /\ x.state = e.s.state /\ x.remote = e.s.remote
      /\ x.impl = e.s.impl /\ x.requested = e.s.requested
      /\ x.writable = e.s.writable /\ x.error = e.s.error
      /\ x.timer = e.s.timer /\ x.posted = Tail(s)
  BY <1>2, EntryTyped DEF SessionRecord
<1>6. r = [e EXCEPT !.s.posted = Tail(@)]
  BY DEF Entry
<1> HIDE DEF x, s
<1>7. Head(s) # "connecting" => (Timed(e.s) => Timed(x))
  BY <1>3, <1>4, <1>5 DEF Timed, s
<1>8. Chat(e, r) /\ r.s = x /\ r.out = e.out
  BY <1>5, FlagKept
<1> QED BY <1>5, <1>6, <1>7, <1>8 DEF s

\* The caller goes on once its offer is accepted.
LEMMA CallerGoesOn ==
  ASSUME SessionInv, DeadInv, Alive(Caller), session[Caller].state = "RECEIVEDACCEPT",
         NEW e \in Entry, e.s.state = session[Caller].state,
         e.s.remote = session[Caller].remote, e.out = net[Caller],
         Timed(session[Caller]) => Timed(e.s), NEW r \in SetState(e, "INPROGRESS"),
         StepTo(Caller, r), e.s.requested = session[Caller].requested
  PROVE  Preserved
<1>1. /\ Here(Caller).s = session[Caller] /\ Here(Caller).out = net[Caller]
      /\ session[Caller].remote \in Peer
  BY AliveOrBlank, SessionAssumption
<1>2. Moved(e, r, "INPROGRESS")
  BY <1>1, SetStateMoved DEF States, Terminated
<1>3. Moved(Here(Caller), r, "INPROGRESS")
  BY <1>1, <1>2 DEF Moved
<1>4. /\ WentOn(session[session[Caller].remote].state)
      /\ ~Has(net[Caller][session[Caller].remote], "initiate")
  BY DEF SessionInv, CallerInv
<1>5. Onward(session[Caller].state, "INPROGRESS")
  BY DEF Onward, Refused, Terminated
<1> QED BY <1>3, <1>4, <1>5, CallerTurnStep DEF States

\* What a session is to have been when its turn starts from e, a message after.
Same(p, e) ==
  /\ e \in Entry /\ e.s.state = session[p].state /\ e.s.remote = session[p].remote
  /\ e.out = net[p] /\ e.s.requested = session[p].requested
  /\ (Timed(session[p]) => Timed(e.s))

\* A callee that has accepted goes on.
LEMMA CalleeGoesOn ==
  ASSUME SessionInv, DeadInv, NEW p \in Peer \ {Caller}, Alive(p),
         session[p].state = "SENTACCEPT",
         NEW e, Same(p, e), NEW r \in SetState(e, "INPROGRESS"), StepTo(p, r)
  PROVE  Preserved
<1>1. /\ Here(p).s = session[p] /\ Here(p).out = net[p] /\ Here(p) \in Entry
      /\ session[p].remote \in Peer
  BY AliveOrBlank
<1>2. CalleeOk(p, "SENTACCEPT", Caller, net[p]) /\ session[p].remote = Caller
  BY DEF SessionInv, CalleeInv, CalleeOk, Alive
<1>3. CalleeOk(p, "INPROGRESS", Caller, net[p])
  BY <1>2 DEF CalleeOk, WentOn, Silent, Terminated, Ended
<1>4. Moved(e, r, "INPROGRESS") /\ e \in Entry /\ e.s.remote = Caller /\ e.out = net[p]
  BY <1>1, <1>2, SetStateMoved DEF States, Terminated, Same
<1>5. /\ CalleeOk(p, r.s.state, r.s.remote, r.out)
      /\ Answering(r.s.state, r.out) => Answering("INPROGRESS", net[p])
      /\ r.s.state \in {"INPROGRESS", "SENTTERMINATE"}
  BY <1>3, <1>4, CalleeMoved DEF States
<1>6. CalleeTurn(p, Here(p), r)
  BY <1>1, <1>2, <1>4, <1>5 DEF CalleeTurn, Moved, Same, Answering
<1> QED BY <1>5, <1>6, CalleeTurnStep DEF Onward, WentOn, Ended, Refused, Terminated

\* A session is ended, by its user or for an error or a refusal.
LEMMA TerminateStep ==
  ASSUME SessionInv, DeadInv, NEW p \in Peer, Alive(p), NEW e, Same(p, e),
         StepTo(p, Terminate(e))
  PROVE  Preserved
<1> DEFINE r == Terminate(e)
<1>1. /\ Here(p).s = session[p] /\ Here(p).out = net[p] /\ Here(p) \in Entry
      /\ session[p].remote \in Peer /\ session[p].state \in States
  BY AliveOrBlank
<1>2. /\ e \in Entry /\ e.s.state = session[p].state /\ e.s.remote = session[p].remote
      /\ e.out = net[p] /\ e.s.requested = session[p].requested
      /\ (Timed(session[p]) => Timed(e.s))
  BY DEF Same
<1>3. Moved(e, r, session[p].state) /\ r.s.state \in Terminated
  BY <1>1, <1>2, TerminateMoved
<1> HIDE DEF r
<1>4. Onward(session[p].state, session[p].state)
  BY DEF Onward
<1>5. CASE p = Caller
  <2>1. Moved(Here(p), r, session[p].state)
    BY <1>1, <1>2, <1>3 DEF Moved
  <2>2. session[p].state \notin {"RECEIVEDINITIATE", "SENTACCEPT", "SENTREJECT", "SENTREDIRECT"}
    BY <1>5 DEF SessionInv, CallerInv, CallerOk
  <2>3. session[p].state \in {"RECEIVEDACCEPT", "INPROGRESS"} =>
          /\ WentOn(session[session[Caller].remote].state)
          /\ ~Has(net[Caller][session[Caller].remote], "initiate")
    BY <1>5 DEF SessionInv, CallerInv
  <2> QED BY <1>1, <1>4, <1>5, <2>1, <2>2, <2>3, CallerTurnStep DEF r
<1>6. CASE p # Caller
  <2>1. CalleeOk(p, e.s.state, Caller, e.out) /\ e.s.remote = Caller /\ e.s.state \notin Ended
    BY <1>2, <1>6 DEF SessionInv, CalleeInv, CalleeOk, Alive
  <2>2. CalleeTurn(p, e, r)
    BY <1>2, <1>6, <2>1, TerminateTurn DEF r
  <2>3. CalleeTurn(p, Here(p), r)
    BY <1>1, <1>2, <2>2 DEF CalleeTurn
  <2>4. /\ r.s.state \notin Ended /\ WentOn(r.s.state)
        /\ Onward(session[p].state, r.s.state)
    BY <1>3 DEF Terminated, Ended, WentOn, Onward
  <2> QED BY <1>6, <2>3, <2>4, CalleeTurnStep DEF r
<1> QED BY <1>5, <1>6

\* MSG_STATE.
LEMMA HandleStateKeeps ==
  ASSUME SessionInv, DeadInv, NEW p \in Peer, Alive(p), NEW e, Same(p, e),
         Turn(p, HandleState(e))
  PROVE  Preserved
<1>1. /\ Here(p).s = session[p] /\ Here(p).out = net[p] /\ Here(p) \in Entry
      /\ session[p].remote \in Peer /\ session[p].state \in States
  BY AliveOrBlank
<1>2. /\ e \in Entry /\ e.s.state = session[p].state /\ e.s.remote = session[p].remote
      /\ e.out = net[p] /\ e.s.requested = session[p].requested
      /\ (Timed(session[p]) => Timed(e.s))
  BY DEF Same
<1> DEFINE gone == [e EXCEPT !.s = Blank("gone"), !.open = {}]
<1>3. gone \in Entry /\ gone.s = Blank("gone") /\ gone.out = net[p]
  BY <1>2, BlankTyped DEF Entry, Ended
<1>4. Terminate(e) \in Entry
  BY <1>1, <1>2, TerminateMoved DEF Moved
<1>5. ASSUME NEW r \in SetState(e, "INPROGRESS") PROVE r \in Entry
  BY <1>1, <1>2, SetStateMoved DEF Moved, States, Terminated
<1>6. HandleState(e) \subseteq Entry
  BY <1>2, <1>3, <1>4, <1>5 DEF HandleState
<1>7. PICK r \in HandleState(e) : StepTo(p, r)
  BY <1>6, TurnStep DEF SessionInv
<1> HIDE DEF gone
<1>8. CASE e.s.state \in {"SENTACCEPT", "RECEIVEDACCEPT"}
  <2>1. r \in SetState(e, "INPROGRESS")
    BY <1>7, <1>8 DEF HandleState
  <2>2. CASE p = Caller
    <3>1. e.s.state = "RECEIVEDACCEPT"
      BY <1>2, <1>8, <2>2 DEF SessionInv, CallerInv, CallerOk
    <3> QED BY <1>2, <1>7, <2>1, <2>2, <3>1, CallerGoesOn
  <2>3. CASE p # Caller
    <3>1. e.s.state = "SENTACCEPT"
      BY <1>2, <1>8, <2>3 DEF SessionInv, CalleeInv, CalleeOk
    <3> QED BY <1>2, <1>7, <2>1, <2>3, <3>1, CalleeGoesOn
  <2> QED BY <2>2, <2>3
<1>9. CASE e.s.state \in Refused
  <2>1. r = Terminate(e)
    BY <1>7, <1>9 DEF HandleState, Refused
  <2> QED BY <1>7, <2>1, TerminateStep
<1>10. CASE e.s.state \in Terminated
  <2>1. r = gone
    BY <1>7, <1>10 DEF HandleState, Refused, Terminated, gone
  <2> QED BY <1>3, <1>7, <2>1, GoneStep
<1>11. CASE e.s.state \notin {"SENTACCEPT", "RECEIVEDACCEPT"} \cup Refused \cup Terminated
  <2>1. r = e
    BY <1>7, <1>11 DEF HandleState
  <2>2. Chat(Here(p), e)
    BY <1>1, <1>2, ChatSession
  <2> QED BY <1>2, <1>7, <2>1, <2>2, KeptStep
<1> QED BY <1>8, <1>9, <1>10, <1>11

\* A posted message.
LEMMA OnMessageKeeps ==
  ASSUME SessionInv, DeadInv, NEW p \in Peer, OnMessage(p)
  PROVE  Preserved
<1> DEFINE e == [Here(p) EXCEPT !.s.posted = Tail(@)]
           k == Head(session[p].posted)
<1>1. /\ Here(p) \in Entry /\ Here(p).s = session[p] /\ Here(p).out = net[p] /\ Alive(p)
      /\ session[p].posted # <<>> /\ session[p].posted \in Seq({"state", "error", "connecting"})
  BY AliveOrBlank DEF OnMessage, SessionRecord
<1>2. k \in {"state", "error", "connecting"}
  BY <1>1
<1>3. /\ Chat(Here(p), e) /\ e.s.state = session[p].state /\ e.s.remote = session[p].remote
      /\ e.out = net[p] /\ e.s.requested = session[p].requested
      /\ k # "connecting" => (Timed(session[p]) => Timed(e.s))
  BY <1>1, TakenKept
<1>4. /\ k = "state" => Turn(p, HandleState(e))
      /\ k = "error" => Turn(p, {Terminate(e)})
      /\ k = "connecting" => Turn(p, {WatchWritable(e)})
  BY DEF OnMessage
<1> HIDE DEF e, k
<1>5. e \in Entry
  BY <1>3 DEF Chat
<1>6. k # "connecting" => Same(p, e)
  BY <1>3, <1>5 DEF Same
<1>7. CASE k = "state"
  BY <1>1, <1>4, <1>6, <1>7, HandleStateKeeps
<1>8. CASE k = "error"
  <2>1. e.s.remote \in Peer
    BY <1>1, <1>3, AliveOrBlank
  <2>2. Terminate(e) \in Entry
    BY <1>5, <2>1, TerminateMoved DEF Moved
  <2>3. StepTo(p, Terminate(e))
    BY <1>4, <1>8, <2>2, TurnStep DEF SessionInv
  <2> QED BY <1>1, <1>6, <1>8, <2>3, TerminateStep
<1>9. CASE k = "connecting"
  <2>1. Kept(e, WatchWritable(e)) /\ Timed(WatchWritable(e).s)
    BY <1>5, WatchKept
  <2>2. Chat(Here(p), WatchWritable(e))
    BY <1>3, <2>1, ChatTrans DEF Kept
  <2> QED BY <1>1, <1>4, <1>9, <2>1, <2>2, KeptTurn
<1> QED BY <1>2, <1>7, <1>8, <1>9

\* What a session is when its turn starts.
LEMMA HereSame ==
  ASSUME SessionInv, DeadInv, NEW p \in Peer
  PROVE  Same(p, Here(p))
BY AliveOrBlank DEF Same

\* The user ends the session.
LEMMA ClientTerminatesKeeps ==
  ASSUME SessionInv, DeadInv, NEW p \in Peer, ClientTerminates(p)
  PROVE  Preserved
<1>1. Here(p) \in Entry /\ Here(p).s.remote \in Peer /\ Alive(p)
  BY AliveOrBlank DEF ClientTerminates
<1>2. Terminate(Here(p)) \in Entry
  BY <1>1, TerminateMoved DEF Moved
<1>3. StepTo(p, Terminate(Here(p)))
  BY <1>2, TurnStep DEF ClientTerminates, SessionInv
<1> QED BY <1>1, <1>3, HereSame, TerminateStep

\* The user answers the offer.
LEMMA AnswerKeeps ==
  ASSUME SessionInv, DeadInv, NEW p \in Peer, Answer(p)
  PROVE  Preserved
<1>1. session[p].state = "RECEIVEDINITIATE" /\ Alive(p)
  BY DEF Answer, Alive, Ended
<1>2. p # Caller
  BY <1>1 DEF SessionInv, CallerInv, CallerOk
<1>3. /\ Here(p) \in Entry /\ Here(p).s = session[p] /\ Here(p).out = net[p]
  BY AliveOrBlank
<1>4. session[p].remote = Caller /\ CalleeOk(p, session[p].state, Caller, net[p])
  BY <1>1, <1>2 DEF SessionInv, CalleeInv, CalleeOk, Alive
<1>5. PICK results :
        /\ Turn(p, results)
        /\ \/ results = Accept(Here(p)) \/ results = Reject(Here(p))
           \/ \E target \in Target[p] : results = Redirect(Here(p), target)
  BY DEF Answer
<1>6. ASSUME NEW r \in results
      PROVE  /\ CalleeTurn(p, Here(p), r)
             /\ r.s.state \in {"RECEIVEDINITIATE", "SENTACCEPT", "SENTREJECT", "SENTREDIRECT",
                               "SENTTERMINATE"}
  <2>1. CASE r \in Accept(Here(p))
    BY <1>1, <1>2, <1>3, <1>4, <2>1, AcceptTurn
  <2>2. CASE r \in Reject(Here(p)) \/ \E target \in Target[p] : r \in Redirect(Here(p), target)
    BY <1>1, <1>2, <1>3, <1>4, <2>2, RefuseTurn
  <2> QED BY <1>5, <2>1, <2>2
<1>7. results \subseteq Entry
  BY <1>6 DEF CalleeTurn
<1>8. PICK r \in results : StepTo(p, r)
  BY <1>5, <1>7, TurnStep DEF SessionInv
<1>9. r.s.state \notin Ended /\ Onward(session[p].state, r.s.state) /\ ~WentOn(session[p].state)
  BY <1>1, <1>6 DEF Ended, Onward, Refused, Terminated, WentOn
<1> QED BY <1>1, <1>2, <1>6, <1>8, <1>9, CalleeTurnStep

-----------------------------------------------------------------------------
(* Stanzas                                                                   *)

\* A stanza with one outcome, that changes no state.
LEMMA HandleKept ==
  ASSUME SessionInv, DeadInv, NEW p \in Peer, NEW q \in Peer \ {p}, net[q][p] # <<>>,
         NEW e, Handle(p, q, {e}), Kept(Here(p), e), Alive(p) \/ e.s = session[p]
  PROVE  Preserved
<1>1. {e} \subseteq Entry
  BY DEF Kept, Chat
<1>2. StepTo(p, e)
  BY <1>1, HandleStep DEF SessionInv
<1>3. Here(p).s = session[p]
  BY AliveOrBlank
<1> QED BY <1>2, <1>3, KeptStep DEF Kept

\* A message that has to arrive in STATE_SENTINITIATE comes from the remote of
\* the initiator, or is denied.
LEMMA ExpectedStep ==
  ASSUME SessionInv, DeadInv, NEW p \in Peer, NEW q \in Peer \ {p},
         FromTo(q, p, Requests), Found(p, q), NEW results, Expected(p, q, results)
  PROVE  \/ Preserved
         \/ /\ p = Caller /\ session[p].state = "SENTINITIATE" /\ Handle(p, q, results)
            /\ session[p].remote = q /\ Alive(p) /\ net[q][p] # <<>>
<1>1. CASE session[p].state = "SENTINITIATE"
  <2>1. p = Caller
    BY <1>1 DEF SessionInv, CalleeInv, CalleeOk
  <2> QED BY <1>1, <2>1 DEF Expected, Found, FromTo
<1>2. CASE session[p].state # "SENTINITIATE"
  BY <1>2, DenyKeeps DEF Expected
<1> QED BY <1>1, <1>2

\* The initiator hears of the answer of its remote.
LEMMA AnswerHeard ==
  ASSUME SessionInv, DeadInv, NEW q \in Peer \ {Caller}, Alive(Caller),
         session[Caller].state = "SENTINITIATE", session[Caller].remote = q,
         net[q][Caller] # <<>>, NEW state \in {"RECEIVEDACCEPT", "RECEIVEDREJECT"},
         Handle(Caller, q, SetState(Here(Caller), state)),
         state = "RECEIVEDACCEPT" =>
           WentOn(session[q].state) /\ ~Has(net[Caller][q], "initiate")
  PROVE  Preserved
<1>1. /\ Here(Caller) \in Entry /\ Here(Caller).s = session[Caller]
      /\ Here(Caller).out = net[Caller] /\ session[Caller].remote \in Peer /\ Caller \in Peer
  BY SessionAssumption, AliveOrBlank
<1>2. state \in States \ Terminated
  BY DEF States, Terminated
<1>3. \A r \in SetState(Here(Caller), state) : Moved(Here(Caller), r, state)
  BY <1>1, <1>2, SetStateMoved
<1>4. SetState(Here(Caller), state) \subseteq Entry
  BY <1>3 DEF Moved
<1>5. PICK r \in SetState(Here(Caller), state) : StepTo(Caller, r)
  BY <1>1, <1>4, HandleStep DEF SessionInv
<1>6. Onward(session[Caller].state, state)
  BY DEF Onward, Terminated, Refused
<1> QED BY <1>2, <1>3, <1>5, <1>6, CallerTurnStep

\* An accept.
LEMMA OnAcceptKeeps ==
  ASSUME SessionInv, DeadInv, NEW p \in Peer, NEW q \in Peer \ {p}, OnAcceptMessage(p, q)
  PROVE  Preserved
<1>1. FromTo(q, p, Requests) /\ Expected(p, q, SetState(Here(p), "RECEIVEDACCEPT")) /\ Found(p, q)
  BY DEF OnAcceptMessage, FromTo, Requests, Signals
<1> SUFFICES ASSUME p = Caller, session[p].state = "SENTINITIATE", session[p].remote = q,
                    Handle(p, q, SetState(Here(p), "RECEIVEDACCEPT")), Alive(p)
             PROVE  Preserved
  BY <1>1, ExpectedStep
<1>2. net[q][p] \in Seq(Stanza) /\ net[q][p] # <<>> /\ Head(net[q][p]).type = "accept"
  BY DEF OnAcceptMessage, FromTo, SessionInv, TypeOK
<1>3. Has(net[q][p], "accept")
  BY <1>2, HeadSaid DEF Answers
<1>4. CalleeInv(q)
  BY DEF SessionInv
<1>5. WentOn(session[q].state) /\ ~Has(net[Caller][q], "initiate")
  BY <1>3, <1>4 DEF CalleeInv, CalleeOk, Answering, Answers
<1> QED BY <1>2, <1>5, AnswerHeard

\* A reject.
LEMMA OnRejectKeeps ==
  ASSUME SessionInv, DeadInv, NEW p \in Peer, NEW q \in Peer \ {p}, OnRejectMessage(p, q)
  PROVE  Preserved
<1>1. FromTo(q, p, Requests) /\ Expected(p, q, SetState(Here(p), "RECEIVEDREJECT")) /\ Found(p, q)
  BY DEF OnRejectMessage, FromTo, Requests, Signals
<1>2. net[q][p] # <<>>
  BY DEF OnRejectMessage, FromTo
<1> QED BY <1>1, <1>2, ExpectedStep, AnswerHeard

\* A transport-accept.
LEMMA OnTransportAcceptKeeps ==
  ASSUME SessionInv, DeadInv, NEW p \in Peer, NEW q \in Peer \ {p},
         OnTransportAcceptMessage(p, q)
  PROVE  Preserved
<1>1. /\ FromTo(q, p, Requests) /\ Expected(p, q, {TransportAccepted(Here(p))})
      /\ Found(p, q) /\ Alive(p)
  BY DEF OnTransportAcceptMessage, FromTo, Requests, Signals, Found
<1>2. Here(p) \in Entry /\ Here(p).s.remote \in Peer
  BY <1>1, AliveOrBlank
<1>3. Kept(Here(p), TransportAccepted(Here(p)))
  BY <1>2, TransportAcceptedKept
<1> QED BY <1>1, <1>3, ExpectedStep, HandleKept

\* The session has candidates of the remote.
LEMMA HeardKept ==
  ASSUME NEW e \in Entry, NEW h \in BOOLEAN
  PROVE  Kept(e, [e EXCEPT !.s.heard = h])
<1> DEFINE x == [e.s EXCEPT !.heard = h]
<1>1. /\ x \in SessionRecord /\ x.state = e.s.state /\ x.remote = e.s.remote
      /\ x.impl = e.s.impl /\ x.requested = e.s.requested /\ x.writable = e.s.writable
      /\ x.error = e.s.error /\ x.timer = e.s.timer /\ x.posted = e.s.posted
  BY EntryTyped DEF SessionRecord
<1>2. [e EXCEPT !.s.heard = h] = [e EXCEPT !.s = x]
  BY DEF Entry
<1> HIDE DEF x
<1>3. Timed(e.s) => Timed(x)
  BY <1>1 DEF Timed
<1> QED BY <1>1, <1>2, <1>3, FlagKept

\* Candidates of the remote.
LEMMA OnTransportInfoKeeps ==
  ASSUME SessionInv, DeadInv, NEW p \in Peer, NEW q \in Peer \ {p},
         OnTransportInfoMessage(p, q)
  PROVE  Preserved
<1> DEFINE h == Here(p).s.heard \/ session[p].impl
<1>1. /\ Here(p) \in Entry /\ Here(p).s = session[p] /\ session[p] \in SessionRecord
      /\ h \in BOOLEAN
  BY AliveOrBlank, EntryTyped
<1>2. /\ net[q][p] # <<>> /\ Alive(p)
      /\ Handle(p, q, {[Here(p) EXCEPT !.s.heard = h]})
  BY DEF OnTransportInfoMessage, FromTo, Found
<1> HIDE DEF h
<1>3. Kept(Here(p), [Here(p) EXCEPT !.s.heard = h])
  BY <1>1, HeardKept
<1> QED BY <1>2, <1>3, HandleKept

\* Candidates of an old client.
LEMMA OnCandidatesKeeps ==
  ASSUME SessionInv, DeadInv, NEW p \in Peer, NEW q \in Peer \ {p},
         OnCandidatesMessage(p, q)
  PROVE  Preserved
<1> DEFINE e == Here(p)
           x == [e.s EXCEPT !.compat = TRUE]
           c == [e EXCEPT !.s = x]
           t == IF e.s.transport THEN e ELSE TransportAccepted(c)
           h == t.s.heard \/ t.s.impl
           lost == [e EXCEPT !.s = Blank("crashed"), !.open = {}]
<1>1. /\ e \in Entry /\ e.s = session[p] /\ e.out = net[p]
      /\ Alive(p) /\ net[q][p] # <<>> /\ e.s.remote \in Peer
  BY AliveOrBlank DEF OnCandidatesMessage, Found, FromTo
<1>2. /\ x \in SessionRecord /\ x.state = e.s.state /\ x.remote = e.s.remote
      /\ x.impl = e.s.impl /\ x.requested = e.s.requested /\ x.writable = e.s.writable
      /\ x.error = e.s.error /\ x.timer = e.s.timer /\ x.posted = e.s.posted
  BY <1>1, EntryTyped DEF SessionRecord
<1>3. IF e.s.transport \/ e.s.state = "SENTINITIATE"
      THEN Handle(p, q, {[t EXCEPT !.s.heard = h]})
      ELSE Handle(p, q, {lost})
  <2>1. c = [e EXCEPT !.s.compat = TRUE]
    BY <1>1 DEF Entry
  <2> QED BY <2>1 DEF OnCandidatesMessage
<1>4. lost \in Entry /\ lost.s = Blank("crashed") /\ lost.out = net[p]
  BY <1>1, BlankTyped DEF Entry, Ended
<1> HIDE DEF x, lost
<1>5. Timed(e.s) => Timed(x)
  BY <1>2 DEF Timed
<1> HIDE DEF e
<1>6. Kept(e, c)
  BY <1>1, <1>2, <1>5, FlagKept
<1> HIDE DEF c
<1>7. c \in Entry /\ c.s.remote \in Peer
  BY <1>1, <1>6 DEF Kept, Chat
<1>8. Kept(c, TransportAccepted(c)) /\ Kept(e, e)
  BY <1>1, <1>7, TransportAcceptedKept, ChatSession DEF Kept
<1>9. Kept(e, t)
  BY <1>6, <1>8, KeptTrans
<1> HIDE DEF t
<1>10. t \in Entry /\ h \in BOOLEAN
  BY <1>9, EntryTyped DEF Kept, Chat
<1> HIDE DEF h
<1>11. Kept(e, [t EXCEPT !.s.heard = h])
  BY <1>9, <1>10, HeardKept, KeptTrans
<1>12. CASE e.s.transport \/ e.s.state = "SENTINITIATE"
  BY <1>1, <1>3, <1>11, <1>12, HandleKept DEF e
<1>13. CASE ~(e.s.transport \/ e.s.state = "SENTINITIATE")
  <2>1. StepTo(p, lost)
    BY <1>1, <1>3, <1>4, <1>13, HandleStep DEF SessionInv
  <2> QED BY <1>1, <1>4, <2>1, GoneStep
<1> QED BY <1>12, <1>13

\* A terminate.
LEMMA OnTerminateKeeps ==
  ASSUME SessionInv, DeadInv, NEW p \in Peer, NEW q \in Peer \ {p}, OnTerminateMessage(p, q)
  PROVE  Preserved
<1> DEFINE r == Enter(Here(p), "RECEIVEDTERMINATE")
<1>1. /\ Here(p) \in Entry /\ Here(p).s = session[p] /\ Here(p).out = net[p] /\ Alive(p)
      /\ net[q][p] # <<>> /\ Handle(p, q, {r})
  BY AliveOrBlank DEF OnTerminateMessage, FromTo, Found
<1>2. Moved(Here(p), r, "RECEIVEDTERMINATE")
  BY <1>1, EnterMoved DEF States
<1> HIDE DEF r
<1>3. r \in Entry /\ StepTo(p, r)
  BY <1>1, <1>2, HandleStep DEF SessionInv, Moved
<1>4. r.s.state = "RECEIVEDTERMINATE" /\ r.s.remote = session[p].remote /\ r.out = net[p]
      /\ (Timed(session[p]) => Timed(r.s))
  BY <1>1, <1>2 DEF Moved, Terminated
<1>5. Onward(session[p].state, "RECEIVEDTERMINATE")
  BY DEF Onward, Terminated
<1>6. CASE p = Caller
  BY <1>1, <1>2, <1>3, <1>5, <1>6, CallerTurnStep DEF States
<1>7. CASE p # Caller
  <2>1. CalleeOk(p, session[p].state, session[p].remote, net[p])
    BY <1>7 DEF SessionInv, CalleeInv
  <2>2. CalleeOk(p, "RECEIVEDTERMINATE", session[p].remote, net[p])
    BY <1>1, <2>1 DEF CalleeOk, Alive, WentOn, Silent, Terminated
  <2>3. CalleeTurn(p, Here(p), r)
    BY <1>1, <1>3, <1>4, <2>2 DEF CalleeTurn, Answering
  <2> QED BY <1>1, <1>3, <1>4, <1>5, <1>7, <2>3, CalleeTurnStep DEF WentOn, Ended
<1> QED BY <1>6, <1>7

\* An error that answers a request.
LEMMA OnErrorKeeps ==
  ASSUME SessionInv, DeadInv, NEW p \in Peer, NEW q \in Peer \ {p}, OnErrorResponse(p, q)
  PROVE  Preserved
<1> DEFINE task == <<Head(net[q][p]).arg, q>>
           r == IF task \in open[p] THEN FailedSend(Here(p), task) ELSE Here(p)
<1>1. /\ Here(p) \in Entry /\ Here(p).s = session[p]
      /\ net[q][p] # <<>> /\ Handle(p, q, {r})
  BY AliveOrBlank DEF OnErrorResponse, FromTo
<1> HIDE DEF task
<1>2. Kept(Here(p), FailedSend(Here(p), task)) /\ Kept(Here(p), Here(p))
  BY <1>1, FailedSendKept, ChatSession DEF Kept
<1>3. Alive(p) \/ FailedSend(Here(p), task).s = session[p]
  BY <1>1 DEF FailedSend, Alive, Entry
<1> QED BY <1>1, <1>2, <1>3, HandleKept

-----------------------------------------------------------------------------
(* Offers                                                                    *)

\* What is said when a peer is asked.
LEMMA AskSaid ==
  ASSUME NEW a \in [Peer -> Seq(Stanza)], NEW t \in Peer \ {Caller}, NEW m \in Stanza,
         m.type = "initiate", NEW b, b = [a EXCEPT ![t] = Append(@, m)],
         \A q \in Peer : Ordered(a[q]) /\ \A k \in Answers : ~Has(a[q], k),
         Said(a[Caller]) = {}, \A q \in Peer : ~Has(a[q], "initiate")
  PROVE  CallerOk("SENTINITIATE", t, b) /\ \A q \in Peer \ {t} : ~Has(b[q], "initiate")
<1>1. b[t] = Append(a[t], m) /\ \A q \in Peer \ {t} : b[q] = a[q]
  OBVIOUS
<1>2. Said(b[t]) = Said(a[t]) \cup {m}
  BY <1>1, SaidAppend
<1>3. Ordered(b[t])
  <2>1. ASSUME NEW x \in Range(a[t]), Wrong(x.type, "initiate") PROVE FALSE
    <3>1. x.type = "initiate"
      BY <2>1 DEF Wrong, Answers
    <3> QED BY <2>1, <3>1 DEF Has, Said
  <2> QED BY <1>1, <2>1, OrderedAppend
<1>4. \A k \in Answers : ~Has(b[t], k)
  BY <1>2 DEF Has, Answers
<1>5. Said(b[Caller]) = {}
  <2>1. b[Caller] = a[Caller]
    BY <1>1, SessionAssumption
  <2> QED BY <2>1
<1>6. \A q \in Peer : Ordered(b[q]) /\ \A k \in Answers : ~Has(b[q], k)
  BY <1>1, <1>3, <1>4
<1>7. \A q \in Peer \ {t} : ~Has(b[q], "initiate")
  BY <1>1
<1> QED BY <1>5, <1>6, <1>7 DEF CallerOk

\* A step in which the initiator asks t, when nobody else is asked any more.
LEMMA AskStep ==
  ASSUME SessionInv, DeadInv, NEW r, StepTo(Caller, r), NEW t \in Peer \ {Caller},
         r.s.state \in {"SENTINITIATE", "SENTTERMINATE"}, r.s.remote = t,
         CallerOk(r.s.state, t, r.out),
         \A q \in Peer \ {t} : ~Has(r.out[q], "initiate"),
         \A q \in Peer \ {Caller} : ~Answering(session[q].state, net'[q]),
         session[Caller].state \in {"none", "SENTINITIATE"},
         NoRedirects => (Timed(session[Caller]) => Timed(r.s))
  PROVE  Preserved
<1>1. /\ TypeOK' /\ OthersLess(Caller) /\ session'[Caller] = r.s /\ net'[Caller] = r.out
      /\ \A q \in Peer \ {Caller} : session'[q] = session[q]
  BY DEF StepTo
<1>2. CallerInv'
  BY <1>1 DEF CallerInv
<1>3. Current(t)'
  BY <1>1 DEF Current, Alive, Ended
<1>4. ASSUME NEW q \in Peer \ {Caller} PROVE CalleeInv(q)'
  <2>1. CalleeInv(q) /\ session'[q] = session[q] /\ \A x \in Peer : Less(net[q][x], net'[q][x])
    BY <1>1 DEF SessionInv, OthersLess
  <2>2. CalleeOk(q, session'[q].state, session'[q].remote, net'[q])
    BY <2>1, CalleeLess DEF CalleeInv
  <2>3. Has(net'[Caller][q], "initiate") => q = t
    BY <1>1
  <2> QED BY <1>3, <2>1, <2>2, <2>3 DEF CalleeInv
<1>5. DeadInv'
  BY <1>1 DEF DeadInv, Alive, Ended
<1>6. \A q \in Peer : Onward(session[q].state, session'[q].state)
  BY <1>1 DEF Onward, Terminated, Refused
<1>7. \A q \in Peer : q # Caller \/ NoRedirects => (Timed(session[q]) => Timed(session'[q]))
  BY <1>1
<1> QED BY <1>1, <1>2, <1>4, <1>5, <1>6, <1>7 DEF Preserved, SessionInv

\* The session is created and offered.
LEMMA InitiateKeeps ==
  ASSUME SessionInv, DeadInv, Initiate
  PROVE  Preserved
<1>1. PICK channel \in BOOLEAN :
        LET made  == [Here(Caller) EXCEPT
                        !.s = [Blank("INIT") EXCEPT !.remote = Callee, !.channel = channel]]
            asked == Send([made EXCEPT !.s.described = TRUE], "initiate", "offer")
        IN Turn(Caller,
                {ConnectChannels([e EXCEPT !.s.impl = channel]) :
                   e \in SetState(asked, "SENTINITIATE")})
  BY DEF Initiate, CreatedWith
<1> DEFINE x == [Blank("INIT") EXCEPT !.remote = Callee, !.channel = channel, !.described = TRUE]
           e == [Here(Caller) EXCEPT !.s = x]
           asked == Send(e, "initiate", "offer")
           Made(r) == ConnectChannels([r EXCEPT !.s.impl = channel])
           m == [type |-> "initiate", arg |-> "offer"]
<1>2. Caller \in Peer /\ Callee \in Peer \ {Caller}
  BY SessionAssumption
<1>3. /\ Here(Caller) \in Entry /\ Here(Caller).out = net[Caller] /\ ~Alive(Caller)
      /\ session[Caller].state = "none"
  BY <1>2, AliveOrBlank DEF Initiate, Alive, Ended
<1>4. x \in SessionRecord /\ x.remote = Callee /\ x.requested = FALSE
  <2>1. Blank("INIT") \in SessionRecord
    BY BlankTyped DEF States
  <2> QED BY <1>2, <2>1 DEF Blank, SessionRecord
<1>5. Turn(Caller, {Made(r) : r \in SetState(asked, "SENTINITIATE")})
  <2> DEFINE made == [Here(Caller) EXCEPT
                        !.s = [Blank("INIT") EXCEPT !.remote = Callee, !.channel = channel]]
  <2>1. [made EXCEPT !.s.described = TRUE] = e
    BY <1>3 DEF Entry
  <2> HIDE DEF x
  <2> QED BY <1>1, <2>1
<1> HIDE DEF x
<1>6. e \in Entry /\ e.s = x /\ e.out = net[Caller]
  BY <1>3, <1>4, WithSession
<1> HIDE DEF e
<1>7. /\ m \in Stanza /\ asked \in Entry /\ asked.s = x
      /\ asked.out = [net[Caller] EXCEPT ![Callee] = Append(@, m)]
  <2>1. "initiate" \in Requests /\ "offer" \in {"", "offer"} \cup Peer
    BY DEF Requests, Signals
  <2>2. e \in Entry /\ e.s.remote = Callee /\ Callee \in Peer
    BY <1>2, <1>4, <1>6
  <2>3. /\ m \in Stanza /\ asked \in Entry /\ asked.s = e.s
        /\ asked.out = [e.out EXCEPT ![e.s.remote] = Append(@, m)]
    BY <2>1, <2>2, SendEffect
  <2> HIDE DEF m, asked
  <2> QED BY <1>6, <2>2, <2>3
<1> HIDE DEF asked
<1>8. \A q \in Peer \ {Caller} : ~Answering(session[q].state, net[q]) /\ ~Has(net[Caller][q], "initiate")
  <2>2. \A q \in Peer \ {Caller} : ~Current(q)
    BY <1>3 DEF Current
  <2> QED BY <2>2 DEF SessionInv, CalleeInv
<1>9. \A q \in Peer : ~Has(net[Caller][q], "initiate")
  BY <1>8 DEF SessionInv, CallerInv, CallerOk, Has
<1>10. /\ CallerOk("SENTINITIATE", Callee, asked.out)
       /\ \A q \in Peer \ {Callee} : ~Has(asked.out[q], "initiate")
  <2>1. net[Caller] \in [Peer -> Seq(Stanza)]
    BY <1>2 DEF SessionInv, TypeOK
  <2>2. /\ \A q \in Peer : Ordered(net[Caller][q]) /\ \A k \in Answers : ~Has(net[Caller][q], k)
        /\ Said(net[Caller][Caller]) = {}
    BY DEF SessionInv, CallerInv, CallerOk
  <2>3. m.type = "initiate"
    OBVIOUS
  <2> HIDE DEF m
  <2> QED BY <1>2, <1>7, <1>9, <2>1, <2>2, <2>3, AskSaid
<1>11. ASSUME NEW r \in SetState(asked, "SENTINITIATE")
       PROVE  LET d == Made(r)
              IN /\ d \in Entry /\ d.s.state \in {"SENTINITIATE", "SENTTERMINATE"}
                 /\ d.s.remote = Callee /\ CallerOk(d.s.state, Callee, d.out)
                 /\ \A q \in Peer \ {Callee} : ~Has(d.out[q], "initiate")
                 /\ Timed(d.s)
  <2> DEFINE y == [r.s EXCEPT !.impl = channel]
             i == [r EXCEPT !.s = y]
             d == Made(r)
  <2>1. Moved(asked, r, "SENTINITIATE")
    BY <1>2, <1>4, <1>7, SetStateMoved DEF States, Terminated
  <2>2. /\ CallerOk(r.s.state, r.s.remote, r.out)
        /\ \A q \in Peer : Less(asked.out[q], r.out[q])
        /\ r.s.state \in {"SENTINITIATE", "SENTTERMINATE"}
    BY <1>2, <1>4, <1>7, <1>10, <2>1, CallerMoved DEF States
  <2>3. r \in Entry /\ r.s.remote = Callee /\ r.s.requested = FALSE
    BY <1>4, <1>7, <2>1 DEF Moved
  <2>4. /\ y \in SessionRecord /\ y.state = r.s.state /\ y.remote = r.s.remote
        /\ y.requested = FALSE
    BY <2>3, EntryTyped DEF SessionRecord
  <2>5. d = ConnectChannels(i)
    BY <2>3 DEF Entry
  <2> HIDE DEF y, d
  <2>6. Chat(r, i) /\ i.s = y /\ i.out = r.out /\ i \in Entry
    BY <2>3, <2>4, FlagKept, WithSession
  <2>7. Timed(y)
    BY <2>4 DEF Timed
  <2> HIDE DEF i
  <2>8. Kept(i, d) /\ d.out = i.out
    BY <2>5, <2>6, ConnectKept
  <2>9. /\ d \in Entry /\ d.s.state = r.s.state /\ d.s.remote = Callee /\ d.out = r.out
        /\ Timed(d.s)
    BY <2>3, <2>4, <2>6, <2>7, <2>8 DEF Kept, Chat
  <2>10. \A q \in Peer \ {Callee} : ~Has(d.out[q], "initiate")
    BY <1>10, <2>2, <2>9 DEF Less, Has
  <2> QED BY <2>2, <2>3, <2>9, <2>10 DEF d
<1> HIDE DEF Made
<1>12. {Made(r) : r \in SetState(asked, "SENTINITIATE")} \subseteq Entry
  BY <1>11
<1>13. PICK d \in {Made(r) : r \in SetState(asked, "SENTINITIATE")} : StepTo(Caller, d)
  BY <1>2, <1>5, <1>12, TurnStep DEF SessionInv
<1>14. PICK r \in SetState(asked, "SENTINITIATE") : d = Made(r)
  BY <1>13
<1>15. \A q \in Peer \ {Caller} : ~Answering(session[q].state, net'[q])
  <2> SUFFICES ASSUME NEW q \in Peer \ {Caller}
               PROVE  ~Answering(session[q].state, net'[q])
    OBVIOUS
  <2>1. \A t \in Peer : Less(net[q][t], net'[q][t])
    BY <1>13 DEF StepTo, OthersLess
  <2> QED BY <1>8, <2>1, CalleeLess DEF SessionInv, CalleeInv
<1> QED BY <1>2, <1>3, <1>11, <1>13, <1>14, <1>15, AskStep

\* The initiator is redirected.
LEMMA OnRedirectKeeps ==
  ASSUME SessionInv, DeadInv, NEW p \in Peer, NEW q \in Peer \ {p}, OnRedirectMessage(p, q)
  PROVE  Preserved
<1> DEFINE t == Head(net[q][p]).arg
           e == Here(p)
           x == [e.s EXCEPT !.remote = t, !.timer = FALSE]
           c == [e EXCEPT !.s = x]
           asked == Send(c, "initiate", "")
           ready == IF e.s.transport THEN asked ELSE ResetChannels(asked)
           r == ConnectChannels(ready)
           m == [type |-> "initiate", arg |-> ""]
<1>1. FromTo(q, p, Requests) /\ Expected(p, q, {Redirected(e, t)}) /\ Found(p, q)
  BY DEF OnRedirectMessage, FromTo, Requests, Signals
<1> SUFFICES ASSUME p = Caller, session[p].state = "SENTINITIATE", session[p].remote = q,
                    Handle(p, q, {Redirected(e, t)}), Alive(p)
             PROVE  Preserved
  BY <1>1, ExpectedStep
<1>2. /\ net[q][p] \in Seq(Stanza) /\ net[q][p] # <<>> /\ Head(net[q][p]).type = "redirect"
  BY DEF OnRedirectMessage, FromTo, SessionInv, TypeOK
<1>3. Head(net[q][p]) \in Said(net[q][p]) /\ Has(net[q][p], "redirect")
  BY <1>2, HeadSaid DEF Answers
<1>4. CalleeInv(q) /\ CallerInv
  BY DEF SessionInv
<1>5. t \in Target[q]
  BY <1>2, <1>3, <1>4 DEF CalleeInv, CalleeOk
<1>6. t \in Peer \ {Caller} /\ t # q /\ ~NoRedirects
  BY <1>5, SessionAssumption DEF NoRedirects
<1>7. /\ e \in Entry /\ e.s = session[p] /\ e.out = net[p]
  BY AliveOrBlank
<1> HIDE DEF t
<1>8. x \in SessionRecord /\ x.remote = t /\ x.state = "SENTINITIATE"
  BY <1>6, <1>7 DEF SessionRecord, Entry
<1>9. Redirected(e, t) = r
  <2> DEFINE d == [e EXCEPT !.s.remote = t, !.s.timer = FALSE]
  <2>1. c = d
    BY <1>7 DEF Entry
  <2>2. Redirected(e, t) =
          ConnectChannels(IF e.s.transport THEN Send(d, "initiate", "")
                          ELSE ResetChannels(Send(d, "initiate", "")))
    BY DEF Redirected
  <2> HIDE DEF c, d
  <2> QED BY <2>1, <2>2
<1> HIDE DEF x
<1>10. c \in Entry /\ c.s = x /\ c.out = net[p]
  BY <1>7, <1>8, WithSession
<1> HIDE DEF c
<1>11. /\ m \in Stanza /\ asked \in Entry /\ asked.s = x
       /\ asked.out = [net[p] EXCEPT ![t] = Append(@, m)]
  <2>1. "initiate" \in Requests /\ "" \in {"", "offer"} \cup Peer
    BY DEF Requests, Signals
  <2>2. c \in Entry /\ c.s.remote = t /\ t \in Peer
    BY <1>6, <1>8, <1>10
  <2>3. /\ m \in Stanza /\ asked \in Entry /\ asked.s = c.s
        /\ asked.out = [c.out EXCEPT ![c.s.remote] = Append(@, m)]
    BY <2>1, <2>2, SendEffect
  <2> HIDE DEF m, asked
  <2> QED BY <1>10, <2>2, <2>3
<1> HIDE DEF asked
<1>12. ready \in Entry /\ ready.out = asked.out /\ ready.s.state = x.state /\ ready.s.remote = x.remote
  <2>1. Kept(asked, ResetChannels(asked)) /\ ResetChannels(asked).out = asked.out
    BY <1>11, ResetKept
  <2> QED BY <1>11, <2>1 DEF Kept, Chat
<1> HIDE DEF ready
<1>13. r \in Entry /\ r.out = asked.out /\ r.s.state = "SENTINITIATE" /\ r.s.remote = t
  <2>1. Kept(ready, r) /\ r.out = ready.out
    BY <1>12, ConnectKept
  <2> QED BY <1>8, <1>12, <2>1 DEF Kept, Chat
<1> HIDE DEF r
<1>14. StepTo(p, r) /\ net'[q][p] = Tail(net[q][p])
  <2>1. Handle(p, q, {r}) /\ {r} \subseteq Entry
    BY <1>9, <1>13
  <2> QED BY <1>2, <2>1, HandleStep DEF SessionInv
<1>15. Answering(session[q].state, net[q])
  BY <1>3 DEF Answering, Answers
<1>16. ASSUME NEW y \in Peer \ {Caller}, y # q
       PROVE  ~Answering(session[y].state, net[y]) /\ ~Has(net[Caller][y], "initiate")
  <2>1. CalleeInv(y) /\ ~Current(y)
    BY <1>16 DEF SessionInv, Current, Alive, Ended
  <2> QED BY <2>1 DEF CalleeInv
<1>17. ~Has(net[Caller][q], "initiate")
  BY <1>4, <1>15 DEF CalleeInv
<1>18. \A y \in Peer : ~Has(net[Caller][y], "initiate")
  BY <1>4, <1>16, <1>17 DEF CallerInv, CallerOk, Has
<1>19. /\ CallerOk("SENTINITIATE", t, r.out)
       /\ \A y \in Peer \ {t} : ~Has(r.out[y], "initiate")
  <2>1. net[p] \in [Peer -> Seq(Stanza)]
    BY DEF SessionInv, TypeOK
  <2>2. /\ \A y \in Peer : Ordered(net[p][y]) /\ \A k \in Answers : ~Has(net[p][y], k)
        /\ Said(net[p][Caller]) = {}
    BY <1>4 DEF CallerInv, CallerOk
  <2>3. m.type = "initiate"
    OBVIOUS
  <2> HIDE DEF m
  <2>4. r.out = [net[p] EXCEPT ![t] = Append(@, m)] /\ m \in Stanza
    BY <1>11, <1>13
  <2>5. \A y \in Peer : ~Has(net[p][y], "initiate")
    BY <1>18
  <2> QED BY <1>6, <2>1, <2>2, <2>3, <2>4, <2>5, AskSaid
<1>20. ~Answering(session[q].state, net'[q])
  <2>1. Ordered(net[q][p]) /\ session[q].state \in Silent
    BY <1>3, <1>4 DEF CalleeInv, CalleeOk
  <2>2. \A k \in Answers : Wrong(Head(net[q][p]).type, k)
    BY <1>2 DEF Wrong, Answers
  <2>3. \A k \in Answers : ~Has(net'[q][p], k)
    BY <1>2, <1>14, <2>1, <2>2, OrderedTail
  <2> QED BY <2>1, <2>3 DEF Answering, Silent, Terminated
<1>21. ASSUME NEW y \in Peer \ {Caller} PROVE ~Answering(session[y].state, net'[y])
  <2>1. CASE y = q
    BY <1>20, <2>1
  <2>2. CASE y # q
    <3>1. \A z \in Peer : Less(net[y][z], net'[y][z])
      BY <1>14 DEF StepTo, OthersLess
    <3>2. CalleeOk(y, session[y].state, session[y].remote, net[y])
      BY DEF SessionInv, CalleeInv
    <3> QED BY <1>16, <2>2, <3>1, <3>2, CalleeLess
  <2> QED BY <2>1, <2>2
<1> QED BY <1>6, <1>13, <1>14, <1>19, <1>21, AskStep

\* A peer is invited.
LEMMA OnInitiateKeeps ==
  ASSUME SessionInv, DeadInv, NEW p \in Peer, NEW q \in Peer \ {p}, OnInitiateMessage(p, q)
  PROVE  Preserved
<1>1. /\ net[q][p] \in Seq(Stanza) /\ net[q][p] # <<>> /\ Head(net[q][p]).type = "initiate"
      /\ FromTo(q, p, Requests)
  BY DEF OnInitiateMessage, FromTo, Requests, Signals, SessionInv, TypeOK
<1>2. CASE Found(p, q)
  BY <1>1, <1>2, DenyKeeps DEF OnInitiateMessage
<1>3. CASE ~Found(p, q)
  <2>1. Has(net[q][p], "initiate")
    BY <1>1, HeadSaid
  <2>2. q = Caller /\ p # Caller
    <3>1. q # Caller => CalleeOk(q, session[q].state, session[q].remote, net[q])
      BY DEF SessionInv, CalleeInv
    <3> QED BY <2>1, <3>1 DEF CalleeOk, Has
  <2>3. /\ CalleeOk(p, session[p].state, session[p].remote, net[p]) /\ CallerInv
        /\ ~Answering(session[p].state, net[p])
    BY <2>1, <2>2 DEF SessionInv, CalleeInv
  <2>4. ~Alive(p)
    BY <1>3, <2>2, <2>3 DEF Found, CalleeOk, Alive
  <2>5. PICK channel \in BOOLEAN :
          \E told \in {Post(o, "state") : o \in Offered(Invited(p, q, channel))} :
            Handle(p, q, IF told.s.state = "SENTREJECT" THEN {told}
                         ELSE ChooseTransport(told, Head(net[q][p]).arg))
    BY <1>3 DEF OnInitiateMessage, CreatedWith
  <2> DEFINE x == [Blank("RECEIVEDINITIATE") EXCEPT !.remote = q, !.channel = channel]
             e == [Here(p) EXCEPT !.s = x]
  <2>6. e = Invited(p, q, channel)
    BY DEF Invited
  <2>7. x \in SessionRecord /\ x.remote = q /\ x.state = "RECEIVEDINITIATE" /\ Timed(x)
    <3>1. Blank("RECEIVEDINITIATE") \in SessionRecord
      BY BlankTyped DEF States
    <3> QED BY <3>1 DEF Blank, SessionRecord, Timed
  <2>8. Here(p) \in Entry /\ Here(p).out = net[p]
    BY AliveOrBlank
  <2> HIDE DEF x
  <2>9. e \in Entry /\ e.s = x /\ e.out = net[p]
    BY <2>7, <2>8, WithSession
  <2> HIDE DEF e
  <2>10. CalleeOk(p, "RECEIVEDINITIATE", Caller, net[p])
    BY <2>3 DEF CalleeOk, Answering, Answers
  <2>11. PICK o \in Offered(e) :
           LET told == Post(o, "state")
           IN Handle(p, q, IF told.s.state = "SENTREJECT" THEN {told}
                           ELSE ChooseTransport(told, Head(net[q][p]).arg))
    BY <2>5, <2>6
  <2> DEFINE told == Post(o, "state")
             offer == Head(net[q][p]).arg
             results == IF told.s.state = "SENTREJECT" THEN {told}
                        ELSE ChooseTransport(told, offer)
  <2>12. CalleeTurn(p, e, o) /\ o.s.state \notin {"INPROGRESS", "none"} \cup Ended
    BY <2>2, <2>7, <2>9, <2>10, <2>11, OfferedTurn
  <2>13. /\ o \in Entry /\ o.s.remote = Caller /\ Timed(o.s)
         /\ CalleeOk(p, o.s.state, o.s.remote, o.out)
    BY <2>2, <2>7, <2>9, <2>12 DEF CalleeTurn
  <2>14. Kept(o, told)
    BY <2>13, PostKept
  <2>15. Handle(p, q, results)
    BY <2>11
  <2> HIDE DEF told
  <2>16. CalleeTurn(p, o, told) /\ told.s.state = o.s.state /\ told.s.remote = Caller
    BY <2>13, <2>14, CalleeKept DEF Kept, Chat
  <2>17. CalleeTurn(p, e, told) /\ told \in Entry /\ CalleeOk(p, told.s.state, Caller, told.out)
    BY <2>12, <2>16, CalleeTurnTrans DEF CalleeTurn
  <2> HIDE DEF offer
  <2>18. ASSUME NEW r \in results
         PROVE  CalleeTurn(p, e, r) /\ r.s.state \notin {"INPROGRESS", "none"} \cup Ended
    <3>1. CASE r = told
      BY <2>12, <2>16, <2>17, <3>1
    <3>2. CASE r \in ChooseTransport(told, offer)
      <4>1. /\ CalleeTurn(p, told, r)
            /\ \/ r.s.state = told.s.state
               \/ r.s.state \in {"SENTACCEPT", "SENTTERMINATE"}
        BY <2>2, <2>16, <2>17, <3>2, ChosenTurn
      <4> QED BY <2>12, <2>16, <2>17, <4>1, CalleeTurnTrans DEF Ended
    <3> QED BY <3>1, <3>2
  <2> HIDE DEF results
  <2>19. results \subseteq Entry
    BY <2>18 DEF CalleeTurn
  <2>20. PICK r \in results : StepTo(p, r) /\ net'[q][p] = Tail(net[q][p])
    BY <1>1, <2>15, <2>19, HandleStep DEF SessionInv
  <2>21. /\ TypeOK' /\ OthersLess(p) /\ session'[p] = r.s /\ net'[p] = r.out
         /\ \A y \in Peer \ {p} : session'[y] = session[y]
    BY <2>20 DEF StepTo
  <2>22. /\ CalleeTurn(p, e, r) /\ r.s.state \notin {"INPROGRESS", "none"} \cup Ended
    BY <2>18
  <2>23. ~Has(net'[Caller][p], "initiate")
    <3>1. Ordered(net[q][p])
      BY <2>2, <2>3 DEF CallerInv, CallerOk
    <3> QED BY <1>1, <2>2, <2>20, <3>1, OrderedTail DEF Wrong
  <2>24. ~WentOn(session[p].state) \/ Has(net[Caller][p], "initiate")
    BY <2>1, <2>2
  <2>25. SessionInv'
    BY <2>1, <2>2, <2>21, <2>22, <2>23, <2>24, CalleeStep DEF CalleeTurn
  <2>26. DeadInv'
    BY <2>21, <2>22 DEF DeadInv, Alive
  <2>27. \A y \in Peer : Onward(session[y].state, session'[y].state)
    BY <2>4, <2>21, <2>22 DEF Onward, Alive, Ended, Refused, Terminated
  <2>28. \A y \in Peer : Timed(session[y]) => Timed(session'[y])
    BY <2>7, <2>9, <2>21, <2>22 DEF CalleeTurn
  <2> QED BY <2>25, <2>26, <2>27, <2>28 DEF Preserved
<1> QED BY <1>2, <1>3

\* A stanza for a session the peer does not have.
LEMMA OnUnknownSessionKeeps ==
  ASSUME SessionInv, DeadInv, NEW p \in Peer, NEW q \in Peer \ {p}, OnUnknownSession(p, q)
  PROVE  Preserved
BY DenyKeeps DEF OnUnknownSession, FromTo

-----------------------------------------------------------------------------
(* The theorems                                                              *)

\* Every step of the system, or none.
LEMMA NextKeeps ==
  ASSUME SessionInv, DeadInv, [Next]_vars
  PROVE  Preserved
<1>1. CASE Initiate
  BY <1>1, InitiateKeeps
<1>2. ASSUME NEW p \in Peer, Client(p)
      PROVE  Preserved
  BY <1>2, AnswerKeeps, ClientTerminatesKeeps, ClientCreatesChannelKeeps DEF Client
<1>3. ASSUME NEW p \in Peer, OnMessage(p) \/ OnTimeout(p)
      PROVE  Preserved
  BY <1>3, OnMessageKeeps, OnTimeoutKeeps
<1>4. ASSUME NEW p \in Peer, Transport(p)
      PROVE  Preserved
  BY <1>4, OnChannelMessageKeeps, TransportKeeps DEF Transport
<1>5. ASSUME NEW p \in Peer, SendTaskTimesOut(p) \/ LinkFails(p) \/ Crash(p)
      PROVE  Preserved
  BY <1>5, SendTaskTimesOutKeeps, LinkFailsKeeps, CrashKeeps
<1>6. ASSUME NEW p \in Peer, NEW q \in Peer \ {p},
             OnInitiateMessage(p, q) \/ OnUnknownSession(p, q) \/ OnAcceptMessage(p, q)
               \/ OnRejectMessage(p, q) \/ OnRedirectMessage(p, q)
      PROVE  Preserved
  BY <1>6, OnInitiateKeeps, OnUnknownSessionKeeps, OnAcceptKeeps, OnRejectKeeps, OnRedirectKeeps
<1>7. ASSUME NEW p \in Peer, NEW q \in Peer \ {p},
             OnTransportAcceptMessage(p, q) \/ OnTransportInfoMessage(p, q)
               \/ OnCandidatesMessage(p, q) \/ OnTerminateMessage(p, q)
               \/ OnErrorResponse(p, q)
      PROVE  Preserved
  BY <1>7, OnTransportAcceptKeeps, OnTransportInfoKeeps, OnCandidatesKeeps, OnTerminateKeeps,
     OnErrorKeeps
<1>8. ASSUME NEW p \in Peer, NEW q \in Peer \ {p},
             ServerBounces(p, q) \/ ServerDrops(p, q)
      PROVE  Preserved
  BY <1>8, BounceKeeps, DropKeeps
<1>9. CASE UNCHANGED vars
  <2>1. TypeOK'
    BY <1>9 DEF SessionInv, TypeOK, vars
  <2>2. \A q, t \in Peer : Less(net[q][t], net'[q][t])
    BY <1>9 DEF vars, Less
  <2> QED BY <1>9, <2>1, <2>2, QuietStep DEF vars
<1> QED BY <1>1, <1>2, <1>3, <1>4, <1>5, <1>6, <1>7, <1>8, <1>9 DEF Next, Receive

\* Nobody has a session, and nothing is under way.
LEMMA InitHolds ==
  ASSUME Init
  PROVE  SessionInv /\ DeadInv /\ TimedInv
<1>1. /\ \A p \in Peer : session[p] = Blank("none")
      /\ \A p, q \in Peer : net[p][q] = <<>>
  BY DEF Init
<1>2. Blank("none").state = "none" /\ Blank("none").impl = FALSE
  BY DEF Blank
<1>3. TypeOK
  <2>1. Blank("none") \in SessionRecord
    BY BlankTyped DEF Ended
  <2>2. \A S : <<>> \in Seq(S)
    OBVIOUS
  <2> QED BY <2>1, <2>2, SessionAssumption DEF Init, TypeOK
<1>4. \A p, q \in Peer : Said(net[p][q]) = {} /\ Ordered(net[p][q])
  BY <1>1 DEF Said, Range, Ordered
<1>5. \A p, q \in Peer : \A k : ~Has(net[p][q], k)
  BY <1>4 DEF Has
<1>6. CallerInv
  BY <1>1, <1>2, <1>4, <1>5, SessionAssumption DEF CallerInv, CallerOk, Ended
<1>7. ASSUME NEW p \in Peer \ {Caller} PROVE CalleeInv(p)
  <2>1. CalleeOk(p, session[p].state, session[p].remote, net[p])
    BY <1>1, <1>2, <1>4, <1>5, SessionAssumption DEF CalleeOk, Ended
  <2>2. ~Answering(session[p].state, net[p]) /\ ~Has(net[Caller][p], "initiate")
    BY <1>1, <1>2, <1>5, SessionAssumption DEF Answering
  <2> QED BY <2>1, <2>2 DEF CalleeInv
<1>8. DeadInv
  BY <1>1, <1>2 DEF DeadInv
<1>9. TimedInv
  BY <1>1, <1>2 DEF TimedInv, Timed
<1> QED BY <1>3, <1>6, <1>7, <1>8, <1>9 DEF SessionInv

\* The invariant of the peers and what is under way between them, for any
\* peers, redirections, clients and faults.
THEOREM SessionInvariant == Spec => [](SessionInv /\ DeadInv)
<1>1. Init => SessionInv /\ DeadInv
  BY InitHolds
<1>2. SessionInv /\ DeadInv /\ [Next]_vars => (SessionInv /\ DeadInv)'
  BY NextKeeps DEF Preserved
<1> QED BY <1>1, <1>2, PTL DEF Spec

\* The type invariant.
THEOREM SessionTypeCorrect == Spec => []TypeOK
<1>1. SessionInv /\ DeadInv => TypeOK
  BY DEF SessionInv
<1> QED BY <1>1, SessionInvariant, PTL

\* The initiator goes on to send data only when the peer it talks to now, the
\* last one it was redirected to, has accepted: whatever is redirected, refused,
\* lost, answered late or given up on the way (session.cc, OnAcceptMessage and
\* OnRedirectMessage).
THEOREM InitiatorGoesOnWithWhoAccepted == Spec => []AcceptedByRemote
<1>1. SessionInv /\ DeadInv => AcceptedByRemote
  BY DEF SessionInv, CallerInv, WentOn, AcceptedByRemote
<1> QED BY <1>1, SessionInvariant, PTL

\* Nothing a peer does after it has refused an offer sends a terminate behind
\* the refusal (session.cc:258, 263).
THEOREM RefusalsAreFinal == Spec => []RefusalIsFinal
<1>1. ASSUME SessionInv PROVE RefusalIsFinal
  <2> SUFFICES ASSUME NEW p \in Peer, NEW q \in Peer,
                      NEW i \in 1..Len(net[p][q]), NEW j \in 1..Len(net[p][q]),
                      i < j, net[p][q][i].type \in {"reject", "redirect"}
               PROVE  net[p][q][j].type # "terminate"
    BY DEF RefusalIsFinal
  <2>1. net[p][q] \in Seq(Stanza)
    BY <1>1 DEF SessionInv, TypeOK
  <2>2. net[p][q][i] \in Said(net[p][q])
    BY <2>1 DEF Said, Range, Answers
  <2>3. p # Caller
    BY <1>1, <2>2 DEF SessionInv, CallerInv, CallerOk, Has, Answers
  <2>4. CalleeOk(p, session[p].state, session[p].remote, net[p])
    BY <1>1, <2>3 DEF SessionInv, CalleeInv
  <2>5. q = Caller
    BY <2>2, <2>4 DEF CalleeOk
  <2>6. Ordered(net[p][q])
    BY <2>4, <2>5 DEF CalleeOk
  <2> QED BY <2>6 DEF Ordered, Wrong
<1> QED BY <1>1, SessionInvariant, PTL

\* Whatever state MSG_STATE finds, a session that has ended is not brought back,
\* and only an accepted one gets into progress (session.cc:1002).
THEOREM EndedIsEndedForGood == Spec => NeverRevived
<1>1. SessionInv /\ DeadInv /\ [Next]_vars =>
        [\A p \in Peer :
           /\ session[p].state \in Terminated \cup Refused
                => session'[p].state \in Terminated \cup Ended \cup {session[p].state}
           /\ session[p].state # "INPROGRESS" /\ session'[p].state = "INPROGRESS"
                => session[p].state \in {"SENTACCEPT", "RECEIVEDACCEPT"}]_vars
  BY NextKeeps DEF Preserved, Onward
<1> QED BY <1>1, SessionInvariant, PTL DEF Spec, NeverRevived

\* The watch over the attempts to connect: of every callee, and of the initiator
\* unless a peer may redirect it.
THEOREM AttemptsAreWatched == Spec => []TimedInv
<1>1. Init => TimedInv
  BY InitHolds
<1>2. SessionInv /\ DeadInv /\ TimedInv /\ [Next]_vars => TimedInv'
  <2> SUFFICES ASSUME SessionInv, DeadInv, TimedInv, [Next]_vars PROVE TimedInv'
    OBVIOUS
  <2>1. \A q \in Peer : q # Caller \/ NoRedirects => (Timed(session[q]) => Timed(session'[q]))
    BY NextKeeps DEF Preserved
  <2> QED BY <2>1 DEF TimedInv, NoRedirects
<1> QED BY <1>1, <1>2, SessionInvariant, PTL DEF Spec

\* A transport that connects without getting anywhere is watched until it is
\* writable (session.cc:528-532), where nobody redirects: OnRedirectMessage
\* clears the timer and starts none for a transport chosen before.
THEOREM AttemptsAreTimed ==
  ASSUME NoRedirects
  PROVE  Spec => []AttemptIsTimed
<1>1. SessionInv /\ DeadInv /\ TimedInv => AttemptIsTimed
  <2> SUFFICES ASSUME SessionInv, TimedInv, NEW p \in Peer,
                      Connecting(p), ~session[p].writable, session[p].error = "NONE"
               PROVE  \/ session[p].timer
                      \/ \E i \in DOMAIN session[p].posted : session[p].posted[i] = "connecting"
    BY DEF AttemptIsTimed
  <2>1. Timed(session[p])
    BY DEF TimedInv, NoRedirects
  <2>2. DOMAIN session[p].posted = 1..Len(session[p].posted)
    BY DEF SessionInv, TypeOK, SessionRecord
  <2> QED BY <2>1, <2>2 DEF Timed, Connecting
<1> QED BY <1>1, SessionInvariant, AttemptsAreWatched, PTL

===============================================================================
