---------------------------- MODULE Transport_proofs ----------------------------
(* Theorems about Transport, for every set of channels, every number of        *)
(* redirects, and one thread or two.                                           *)
EXTENDS Transport, FiniteSetTheorems, SequenceTheorems, TLAPS

-----------------------------------------------------------------------------
(* The inductive invariant.                                                  *)

\* The resets a queue holds.
ResetsIn(s) == {i \in DOMAIN s : s[i].id = "reset"}

\* A candidate that no reset follows in the worker's queue is of one of these
\* peers.
InTransit(s, peers) ==
  \A i \in DOMAIN s :
    s[i].id = "forward" /\ (\A j \in DOMAIN s : j > i => s[j].id # "reset")
      => s[i].arg[2] \in peers

\* The queues, after so many resets of the channels, with that target and those
\* peers heeded: a redirect has asked for one reset at most, and each is done at
\* most once.
QueuesFit(q, done, to, peers) ==
  /\ q \in [Thread -> Seq(Message)]
  /\ done + Cardinality(ResetsIn(q[worker])) + 1 <= to
  /\ InTransit(q[worker], peers)

\* A channel has been told to connect once if that is requested.
Told == \A c \in channels : chan[c].connected = IF requested THEN 1 ELSE 0

\* What the destructor leaves.
Left == /\ phase # "alive" => channels = {}
        /\ phase = "gone" => \A t \in Thread : queue[t] = <<>>

TransportInv ==
  /\ TypeOK /\ IsFiniteSet(channels)
  /\ QueuesFit(queue, resets, target, Heeded)
  /\ RemoteIsCurrent
  /\ Told /\ Left
  /\ NotUsedAfterDestruction

-----------------------------------------------------------------------------
(* Queues.                                                                   *)

\* The messages that neither reset the channels nor bring a candidate.
Inert == {m \in Message : m.id \notin {"reset", "forward"}}

\* The messages the handlers post.
LEMMA InertTyped ==
  /\ \A id \in {"connect", "signalingready", "connecting", "writestate",
                "requestsignaling", "channelmessage"} : Msg(id) \in Inert
  /\ Msg("reset") \in Message /\ Inert \subseteq Message
BY DEF Msg, Message, Inert

\* A message posted once for each of several channels.
LEMMA Repeated ==
  ASSUME NEW S, NEW n \in Nat, NEW m \in S
  PROVE  [i \in 1..n |-> m] \in Seq(S)
OBVIOUS

\* A queue and what is posted to it.
LEMMA Joined ==
  ASSUME NEW s \in Seq(Message), NEW ms \in Seq(Message)
  PROVE  /\ s \o ms \in Seq(Message)
         /\ DOMAIN s = 1..Len(s) /\ DOMAIN ms = 1..Len(ms)
         /\ Len(s) \in Nat /\ Len(ms) \in Nat
         /\ DOMAIN (s \o ms) = 1..Len(s) + Len(ms)
         /\ \A i \in 1..Len(s) : (s \o ms)[i] = s[i]
         /\ \A i \in 1..Len(ms) : (s \o ms)[Len(s) + i] = ms[i]
OBVIOUS

\* The resets in a queue are finitely many.
LEMMA ResetsFinite ==
  ASSUME NEW s \in Seq(Message)
  PROVE  IsFiniteSet(ResetsIn(s)) /\ Cardinality(ResetsIn(s)) \in Nat
<1>1. IsFiniteSet(1..Len(s)) /\ ResetsIn(s) \subseteq 1..Len(s)
  BY FS_Interval DEF ResetsIn
<1> QED BY <1>1, FS_Subset, FS_CardinalityType

\* Posting inert messages changes neither.
LEMMA InertPosted ==
  ASSUME NEW s \in Seq(Message), NEW ms \in Seq(Inert)
  PROVE  /\ s \o ms \in Seq(Message)
         /\ ResetsIn(s \o ms) = ResetsIn(s)
         /\ \A peers : InTransit(s, peers) => InTransit(s \o ms, peers)
<1>1. ms \in Seq(Message) /\ \A i \in 1..Len(ms) : ms[i].id \notin {"reset", "forward"}
  <2>1. ms \in Seq(Message)
    BY SeqMonotonic, InertTyped
  <2>2. \A i \in 1..Len(ms) : ms[i] \in Inert
    OBVIOUS
  <2> QED BY <2>1, <2>2 DEF Inert
<1>2. \A i \in DOMAIN (s \o ms) :
         \/ i \in DOMAIN s /\ (s \o ms)[i] = s[i]
         \/ i \notin DOMAIN s /\ (s \o ms)[i].id \notin {"reset", "forward"}
  <2> SUFFICES ASSUME NEW i \in DOMAIN (s \o ms), i \notin DOMAIN s
               PROVE  (s \o ms)[i].id \notin {"reset", "forward"}
    BY <1>1, Joined
  <2>1. i - Len(s) \in 1..Len(ms) /\ i = Len(s) + (i - Len(s))
    BY <1>1, Joined
  <2> QED BY <1>1, <2>1, Joined
<1>3. DOMAIN s \subseteq DOMAIN (s \o ms) /\ \A i \in DOMAIN s : (s \o ms)[i] = s[i]
  BY <1>1, Joined
<1> QED BY <1>1, <1>2, <1>3, Joined DEF ResetsIn, InTransit

\* Taking the first message moves the others one place.
LEMMA Shortened ==
  ASSUME NEW s \in Seq(Message), s # <<>>
  PROVE  /\ Tail(s) \in Seq(Message)
         /\ Len(s) \in Nat \ {0}
         /\ DOMAIN s = 1..Len(s) /\ DOMAIN Tail(s) = 1..Len(s) - 1
         /\ \A i \in 1..Len(s) - 1 : Tail(s)[i] = s[i + 1]
         /\ Head(s) = s[1] /\ s[1] \in Message
OBVIOUS

\* What is left when a message has been taken: one reset less if it was one.
LEMMA ResetsTaken ==
  ASSUME NEW s \in Seq(Message), s # <<>>
  PROVE  /\ Head(s).id # "reset" =>
              /\ Cardinality(ResetsIn(Tail(s))) = Cardinality(ResetsIn(s))
              /\ ResetsIn(Tail(s)) = {} <=> ResetsIn(s) = {}
         /\ Head(s).id = "reset" =>
              Cardinality(ResetsIn(Tail(s))) = Cardinality(ResetsIn(s)) - 1
<1> DEFINE f == [i \in ResetsIn(Tail(s)) |-> i + 1]
<1>1. f \in Bijection(ResetsIn(Tail(s)), ResetsIn(s) \ {1})
  <2>1. /\ \A i \in ResetsIn(Tail(s)) : i \in Nat /\ i + 1 \in ResetsIn(s) \ {1}
        /\ \A j \in ResetsIn(s) \ {1} : j - 1 \in ResetsIn(Tail(s)) /\ (j - 1) + 1 = j
    BY Shortened DEF ResetsIn
  <2>2. f \in Injection(ResetsIn(Tail(s)), ResetsIn(s) \ {1})
    BY <2>1 DEF Injection, IsInjective
  <2>3. f \in Surjection(ResetsIn(Tail(s)), ResetsIn(s) \ {1})
    BY <2>1 DEF Surjection
  <2> QED BY <2>2, <2>3 DEF Bijection
<1>2. /\ IsFiniteSet(ResetsIn(Tail(s)))
      /\ Cardinality(ResetsIn(s) \ {1}) = Cardinality(ResetsIn(Tail(s)))
  <2>1. IsFiniteSet(ResetsIn(Tail(s)))
    BY Shortened, ResetsFinite
  <2>2. ExistsBijection(ResetsIn(Tail(s)), ResetsIn(s) \ {1})
    BY <1>1 DEF ExistsBijection
  <2> QED BY <2>1, <2>2, FS_Bijection
<1>3. Head(s).id = "reset" <=> 1 \in ResetsIn(s)
  BY Shortened DEF ResetsIn
<1>4. IsFiniteSet(ResetsIn(s)) /\ Cardinality(ResetsIn(s)) \in Nat
  BY ResetsFinite
<1>5. CASE 1 \in ResetsIn(s)
  BY <1>2, <1>3, <1>4, <1>5, FS_RemoveElement
<1>6. CASE 1 \notin ResetsIn(s)
  <2>1. ResetsIn(s) \ {1} = ResetsIn(s)
    BY <1>6
  <2> QED BY <1>2, <1>3, <1>4, <1>6, <2>1, FS_EmptySet
<1> QED BY <1>5, <1>6

\* What is left in transit.
LEMMA TransitTaken ==
  ASSUME NEW s \in Seq(Message), s # <<>>, NEW peers, InTransit(s, peers)
  PROVE  InTransit(Tail(s), peers)
<1> SUFFICES ASSUME NEW i \in DOMAIN Tail(s), Tail(s)[i].id = "forward",
                    \A j \in DOMAIN Tail(s) : j > i => Tail(s)[j].id # "reset"
             PROVE  Tail(s)[i].arg[2] \in peers
  BY DEF InTransit
<1>1. i + 1 \in DOMAIN s /\ s[i + 1] = Tail(s)[i]
  BY Shortened
<1>2. ASSUME NEW j \in DOMAIN s, j > i + 1
      PROVE  s[j].id # "reset"
  <2>1. j - 1 \in DOMAIN Tail(s) /\ j - 1 > i /\ Tail(s)[j - 1] = s[j]
    BY <1>2, Shortened
  <2> QED BY <2>1
<1> QED BY <1>1, <1>2 DEF InTransit

-----------------------------------------------------------------------------
(* What the actions do to the queues.                                        *)

\* Inert messages may be posted to either thread.
LEMMA PostsInert ==
  ASSUME worker \in Thread, NEW q, NEW done, NEW to, NEW peers, QueuesFit(q, done, to, peers),
         NEW t \in Thread, NEW ms \in Seq(Inert)
  PROVE  /\ QueuesFit(Posted(q, t, ms), done, to, peers)
         /\ ResetsIn(Posted(q, t, ms)[worker]) = ResetsIn(q[worker])
<1>1. q \in [Thread -> Seq(Message)] /\ q[t] \in Seq(Message)
  BY DEF QueuesFit
<1>2. Posted(q, t, ms) = [q EXCEPT ![t] = q[t] \o ms] /\ q[t] \o ms \in Seq(Message)
  BY <1>1, InertPosted DEF Posted
<1>3. \A u \in Thread : Posted(q, t, ms)[u] = IF u = t THEN q[t] \o ms ELSE q[u]
  BY <1>1, <1>2
<1>4. Posted(q, t, ms) \in [Thread -> Seq(Message)]
  BY <1>1, <1>2
<1>5. /\ ResetsIn(Posted(q, t, ms)[worker]) = ResetsIn(q[worker])
      /\ InTransit(q[worker], peers) => InTransit(Posted(q, t, ms)[worker], peers)
  BY <1>1, <1>3, InertPosted
<1> QED BY <1>4, <1>5 DEF QueuesFit

\* A message other than a reset may be taken from either.
LEMMA TakesInert ==
  ASSUME worker \in Thread, NEW done, NEW to, NEW peers, QueuesFit(queue, done, to, peers),
         NEW t \in Thread, queue[t] # <<>>, Head(queue[t]).id # "reset"
  PROVE  /\ QueuesFit(Taken(t), done, to, peers)
         /\ ResetsIn(Taken(t)[worker]) = {} <=> ResetsIn(queue[worker]) = {}
<1>1. queue \in [Thread -> Seq(Message)] /\ queue[t] \in Seq(Message)
  BY DEF QueuesFit
<1>2. \A u \in Thread : Taken(t)[u] = IF u = t THEN Tail(queue[t]) ELSE queue[u]
  BY <1>1 DEF Taken
<1>3. Taken(t) \in [Thread -> Seq(Message)]
  BY <1>1, Shortened DEF Taken
<1>4. /\ Cardinality(ResetsIn(Taken(t)[worker])) = Cardinality(ResetsIn(queue[worker]))
      /\ ResetsIn(Taken(t)[worker]) = {} <=> ResetsIn(queue[worker]) = {}
      /\ InTransit(queue[worker], peers) => InTransit(Taken(t)[worker], peers)
  BY <1>1, <1>2, ResetsTaken, TransitTaken
<1> QED BY <1>3, <1>4 DEF QueuesFit

\* Taking a reset lets one more be done.
LEMMA TakesReset ==
  ASSUME worker \in Thread, NEW done \in Nat, NEW to \in Nat, NEW peers,
         QueuesFit(queue, done, to, peers),
         queue[worker] # <<>>, Head(queue[worker]).id = "reset"
  PROVE  QueuesFit(Taken(worker), done + 1, to, peers)
<1>1. queue \in [Thread -> Seq(Message)] /\ queue[worker] \in Seq(Message)
  BY DEF QueuesFit
<1>2. Taken(worker)[worker] = Tail(queue[worker]) /\ Taken(worker) \in [Thread -> Seq(Message)]
  BY <1>1, Shortened DEF Taken
<1>3. /\ Cardinality(ResetsIn(Tail(queue[worker]))) = Cardinality(ResetsIn(queue[worker])) - 1
      /\ InTransit(Tail(queue[worker]), peers)
  BY <1>1, ResetsTaken, TransitTaken DEF QueuesFit
<1>4. Cardinality(ResetsIn(queue[worker])) \in Nat
  BY <1>1, ResetsFinite
<1> QED BY <1>2, <1>3, <1>4 DEF QueuesFit

\* A redirect may ask the worker for a reset; what was in transit is of no peer
\* any more.
LEMMA PostsReset ==
  ASSUME worker \in Thread, NEW done \in Nat, NEW to \in Nat, NEW peers,
         QueuesFit(queue, done, to, peers), NEW others
  PROVE  LET q == Posted(queue, worker, <<Msg("reset"), Msg("connect")>>) IN
           QueuesFit(q, done, to + 1, others) /\ ResetsIn(q[worker]) # {}
<1> DEFINE s == queue[worker]
           ms == <<Msg("reset"), Msg("connect")>>
           q == Posted(queue, worker, ms)
<1>1. queue \in [Thread -> Seq(Message)] /\ s \in Seq(Message) /\ ms \in Seq(Message)
  BY InertTyped DEF QueuesFit
<1>2. q \in [Thread -> Seq(Message)] /\ q[worker] = s \o ms
  BY <1>1, Joined DEF Posted
<1>3. /\ Len(ms) = 2 /\ ms[1].id = "reset" /\ ms[2].id = "connect"
      /\ (s \o ms)[Len(s) + 1] = ms[1] /\ (s \o ms)[Len(s) + 2] = ms[2]
      /\ DOMAIN (s \o ms) = 1..Len(s) + 2 /\ DOMAIN s = 1..Len(s) /\ Len(s) \in Nat
      /\ \A i \in DOMAIN s : (s \o ms)[i] = s[i]
  BY <1>1, Joined DEF Msg
<1> HIDE DEF s, ms, q
<1>4. ResetsIn(s \o ms) = ResetsIn(s) \cup {Len(s) + 1}
  BY <1>3 DEF ResetsIn
<1>5. /\ IsFiniteSet(ResetsIn(s)) /\ Cardinality(ResetsIn(s)) \in Nat
      /\ Len(s) + 1 \notin ResetsIn(s)
  <2>1. IsFiniteSet(ResetsIn(s)) /\ Cardinality(ResetsIn(s)) \in Nat
    BY <1>1, ResetsFinite
  <2>2. Len(s) + 1 \notin ResetsIn(s)
    BY <1>3 DEF ResetsIn
  <2> QED BY <2>1, <2>2
<1>6. Cardinality(ResetsIn(s \o ms)) = Cardinality(ResetsIn(s)) + 1
  BY <1>4, <1>5, FS_AddElement
<1>7. InTransit(s \o ms, others)
  <2> SUFFICES ASSUME NEW i \in DOMAIN (s \o ms), (s \o ms)[i].id = "forward",
                      \A j \in DOMAIN (s \o ms) : j > i => (s \o ms)[j].id # "reset"
               PROVE  FALSE
    BY DEF InTransit
  <2>1. i > Len(s)
    BY <1>3
  <2> QED BY <1>3, <2>1
<1>8. done + Cardinality(ResetsIn(s)) + 1 <= to
  BY DEF QueuesFit, s
<1>9. QueuesFit(q, done, to + 1, others)
  BY <1>2, <1>5, <1>6, <1>7, <1>8 DEF QueuesFit
<1>10. ResetsIn(q[worker]) # {}
  BY <1>2, <1>4
<1> QED BY <1>9, <1>10 DEF q, ms

\* A candidate of the peer the session talks to is sent on its way.
LEMMA PostsForward ==
  ASSUME worker \in Thread, NEW done, NEW to, NEW peers, QueuesFit(queue, done, to, peers),
         NEW m \in Message, m.id = "forward", m.arg[2] \in peers
  PROVE  /\ QueuesFit(Posted(queue, worker, <<m>>), done, to, peers)
         /\ ResetsIn(Posted(queue, worker, <<m>>)[worker]) = ResetsIn(queue[worker])
<1> DEFINE s == queue[worker]
           q == Posted(queue, worker, <<m>>)
<1>1. queue \in [Thread -> Seq(Message)] /\ s \in Seq(Message) /\ <<m>> \in Seq(Message)
  BY DEF QueuesFit
<1>2. q \in [Thread -> Seq(Message)] /\ q[worker] = s \o <<m>>
  BY <1>1, Joined DEF Posted
<1>3. /\ (s \o <<m>>)[Len(s) + 1] = m
      /\ DOMAIN (s \o <<m>>) = 1..Len(s) + 1 /\ DOMAIN s = 1..Len(s) /\ Len(s) \in Nat
      /\ \A i \in DOMAIN s : (s \o <<m>>)[i] = s[i]
  BY <1>1, Joined
<1> HIDE DEF s, q
<1>4. ResetsIn(s \o <<m>>) = ResetsIn(s)
  BY <1>3 DEF ResetsIn
<1>5. InTransit(s, peers) => InTransit(s \o <<m>>, peers)
  BY <1>3 DEF InTransit
<1>6. done + Cardinality(ResetsIn(s)) + 1 <= to /\ InTransit(s, peers)
  BY DEF QueuesFit, s
<1>7. QueuesFit(q, done, to, peers)
  BY <1>2, <1>4, <1>5, <1>6 DEF QueuesFit
<1> QED BY <1>2, <1>4, <1>7 DEF q, s

\* A queue without messages.
LEMMA Emptied ==
  ASSUME worker \in Thread, NEW done \in Nat, NEW to \in Nat, NEW peers, done + 1 <= to
  PROVE  /\ QueuesFit([t \in Thread |-> <<>>], done, to, peers)
         /\ ResetsIn([t \in Thread |-> <<>>][worker]) = {}
<1>1. ResetsIn(<<>>) = {} /\ InTransit(<<>>, peers)
  BY DEF ResetsIn, InTransit
<1> DEFINE q == [t \in Thread |-> <<>>]
<1>2. q \in [Thread -> Seq(Message)] /\ q[worker] = <<>>
  OBVIOUS
<1> HIDE DEF q
<1>3. Cardinality(ResetsIn(q[worker])) = 0
  BY <1>1, <1>2, FS_EmptySet
<1>4. QueuesFit(q, done, to, peers)
  BY <1>1, <1>2, <1>3 DEF QueuesFit
<1> QED BY <1>1, <1>2, <1>4 DEF q

\* More peers may be heeded.
LEMMA HeedsMore ==
  ASSUME NEW q, NEW done \in Nat, NEW to \in Nat, NEW more \in {to, to + 1}, NEW peers,
         QueuesFit(q, done, to, peers), NEW others, peers \subseteq others, worker \in Thread
  PROVE  QueuesFit(q, done, more, others)
<1>1. q \in [Thread -> Seq(Message)] /\ q[worker] \in Seq(Message)
  BY DEF QueuesFit
<1>2. Cardinality(ResetsIn(q[worker])) \in Nat
  BY <1>1, ResetsFinite
<1>3. done + Cardinality(ResetsIn(q[worker])) + 1 <= more
  <2>1. done + Cardinality(ResetsIn(q[worker])) + 1 <= to
    BY DEF QueuesFit
  <2> QED BY <1>2, <2>1
<1>4. InTransit(q[worker], others)
  BY DEF QueuesFit, InTransit
<1> QED BY <1>1, <1>3, <1>4 DEF QueuesFit

\* Whether a reset waits, in terms of those the worker's queue holds.
LEMMA ResetWaits ==
  Waiting(worker, "reset") <=> ResetsIn(queue[worker]) # {}
BY DEF Waiting, ResetsIn

-----------------------------------------------------------------------------
(* The steps.                                                                *)

\* The invariant holds at the start.
LEMMA InitInv == Init => TransportInv
<1> SUFFICES ASSUME Init PROVE TransportInv
  OBVIOUS
<1> USE TransportAssumption DEF Init
<1>1. worker \in Thread /\ target = 1 /\ resets = 0
  BY DEF Thread
<1>2. QueuesFit(queue, resets, target, Heeded)
  BY <1>1, Emptied
<1>3. NewChannel \in ChannelRecord
  BY DEF NewChannel, ChannelRecord
<1>4. TypeOK
  <2>1. 1 \in Epoch /\ 0 \in 0..MaxRedirects
    BY DEF Epoch
  <2>2. <<>> \in Seq(Epoch) /\ <<>> \in Seq(Message)
    OBVIOUS
  <2>3. initiated \in BOOLEAN /\ chosen \in 0..target
    <3>1. 0 \in 0..1 /\ FALSE \in BOOLEAN
      OBVIOUS
    <3> QED BY <1>1, <3>1
  <2> QED BY <1>3, <2>1, <2>2, <2>3 DEF TypeOK
<1>5. IsFiniteSet(channels)
  BY FS_EmptySet
<1> QED BY <1>2, <1>4, <1>5
        DEF TransportInv, RemoteIsCurrent, Told, Left, NotUsedAfterDestruction

\* A channel that is told to connect.
LEMMA Connecting ==
  ASSUME NEW k \in ChannelRecord
  PROVE  /\ ChannelConnects(k) \in ChannelRecord
         /\ k.connected = 0 => ChannelConnects(k).connected = 1
         /\ ChannelConnects(k).heard = k.heard
<1> DEFINE n == IF k.connected < 2 THEN k.connected + 1 ELSE k.connected
<1>1. k.connected \in 0..2
  BY DEF ChannelRecord
<1>2. n \in 0..2 /\ (k.connected = 0 => n = 1)
  BY <1>1
<1>3. ChannelConnects(k) = [k EXCEPT !.connected = n, !.waiting = TRUE]
  BY DEF ChannelConnects
<1> HIDE DEF n
<1>4. ChannelConnects(k) \in ChannelRecord
  BY <1>2, <1>3 DEF ChannelRecord
<1>5. ChannelConnects(k).connected = n /\ ChannelConnects(k).heard = k.heard
  BY <1>3 DEF ChannelRecord
<1> QED BY <1>2, <1>4, <1>5

\* The session's calls.
LEMMA SessionKeeps == TransportInv /\ Session => TransportInv'
<1> SUFFICES ASSUME TransportInv, Session PROVE TransportInv'
  OBVIOUS
<1> USE TransportAssumption
<1>1. /\ TypeOK /\ IsFiniteSet(channels) /\ QueuesFit(queue, resets, target, Heeded)
      /\ RemoteIsCurrent /\ Told /\ Left /\ NotUsedAfterDestruction
      /\ worker' = worker /\ worker \in Thread /\ Signaling \in Thread
      /\ resets \in Nat /\ target \in Nat
  BY DEF TransportInv, Session, TypeOK, Thread, Epoch
<1>2. NewChannel \in ChannelRecord /\ NewChannel.connected = 0 /\ NewChannel.heard = {}
  BY DEF NewChannel, ChannelRecord
<1>3. /\ ChannelConnects(NewChannel) \in ChannelRecord
      /\ ChannelConnects(NewChannel).connected = 1 /\ ChannelConnects(NewChannel).heard = {}
  BY <1>2, Connecting
<1>4. ASSUME NEW c \in Channel, CreateChannel(c)
      PROVE  TransportInv'
  <2> DEFINE ms == <<Msg("requestsignaling")>> \o
                   (IF channels = {} THEN <<Msg("connecting")>> ELSE <<>>)
  <2>1. ms \in Seq(Inert)
    BY InertTyped
  <2>2. /\ QueuesFit(queue', resets, target, Heeded)
        /\ ResetsIn(queue'[worker]) = ResetsIn(queue[worker])
    BY <1>1, <1>4, <2>1, PostsInert DEF CreateChannel
  <2> HIDE DEF ms
  <2>3. /\ channels' = channels \cup {c} /\ phase = "alive"
        /\ chan' = [chan EXCEPT ![c] = IF requested THEN ChannelConnects(NewChannel)
                                       ELSE NewChannel]
        /\ fresh' \subseteq fresh
        /\ UNCHANGED <<requested, messages, writable, resets, timer, target, initiated, chosen, sent, phase, misused>>
    BY <1>4 DEF CreateChannel, session, partner, object
  <2>4. TypeOK'
    BY <1>1, <1>2, <1>3, <2>2, <2>3 DEF TypeOK, QueuesFit
  <2>5. IsFiniteSet(channels')
    BY <1>1, <2>3, FS_AddElement
  <2>6. RemoteIsCurrent'
    BY <1>1, <1>2, <1>3, <2>2, <2>3, ResetWaits DEF RemoteIsCurrent, Heeded, TypeOK, Waiting, ResetsIn
  <2>7. Told'
    BY <1>1, <1>2, <1>3, <2>3 DEF Told, TypeOK
  <2> QED BY <1>1, <2>2, <2>3, <2>4, <2>5, <2>6, <2>7
          DEF TransportInv, Heeded, Left, NotUsedAfterDestruction, QueuesFit
<1>5. ASSUME NEW c \in Channel, DestroyChannel(c)
      PROVE  TransportInv'
  <2>1. <<Msg("connecting")>> \in Seq(Inert)
    BY InertTyped
  <2>2. /\ QueuesFit(queue', resets, target, Heeded)
        /\ ResetsIn(queue'[worker]) = ResetsIn(queue[worker])
    BY <1>1, <1>5, <2>1, PostsInert DEF DestroyChannel
  <2>3. /\ channels' = channels \ {c} /\ phase = "alive"
        /\ chan' = [chan EXCEPT ![c] = NewChannel]
        /\ UNCHANGED <<fresh, requested, messages, writable, resets, timer, target, initiated, chosen, sent, phase, misused>>
    BY <1>5 DEF DestroyChannel, session, partner, object
  <2>4. TypeOK'
    BY <1>1, <1>2, <2>2, <2>3 DEF TypeOK, QueuesFit
  <2>5. IsFiniteSet(channels')
    BY <1>1, <2>3, FS_RemoveElement
  <2>6. RemoteIsCurrent'
    BY <1>1, <2>2, <2>3, ResetWaits DEF RemoteIsCurrent, Heeded, TypeOK, Waiting, ResetsIn
  <2>7. Told'
    BY <1>1, <2>3 DEF Told, TypeOK
  <2> QED BY <1>1, <2>2, <2>3, <2>4, <2>5, <2>6, <2>7
          DEF TransportInv, Heeded, Left, NotUsedAfterDestruction, QueuesFit
<1>6. ASSUME NEW c \in Channel, ForwardChannelMessage(c)
      PROVE  TransportInv'
  <2> DEFINE m == [id |-> "forward", arg |-> <<c, target>>]
  <2>1. m \in Message /\ m.id = "forward" /\ m.arg[2] \in Heeded
    <3>1. m \in Message /\ m.id = "forward" /\ m.arg[2] = target
      BY <1>1 DEF Message, TypeOK
    <3>2. target \in Heeded
      BY <1>1 DEF Heeded, TypeOK
    <3> QED BY <3>1, <3>2
  <2>2. /\ QueuesFit(queue', resets, target, Heeded)
        /\ ResetsIn(queue'[worker]) = ResetsIn(queue[worker])
    BY <1>1, <1>6, <2>1, PostsForward DEF ForwardChannelMessage
  <2> HIDE DEF m
  <2>3. /\ phase = "alive"
        /\ UNCHANGED <<channels, chan, fresh, requested, messages, writable, resets, timer, target, initiated, chosen,
                       sent, phase, misused>>
    BY <1>6 DEF ForwardChannelMessage, session, partner, object
  <2>4. TypeOK'
    BY <1>1, <2>2, <2>3 DEF TypeOK, QueuesFit
  <2>6. RemoteIsCurrent'
    BY <1>1, <2>2, <2>3, ResetWaits DEF RemoteIsCurrent, Heeded, Waiting, ResetsIn
  <2> QED BY <1>1, <2>2, <2>3, <2>4, <2>6
          DEF TransportInv, Heeded, Left, NotUsedAfterDestruction, QueuesFit, Told
<1>7. CASE Initiate \/ SetTransport
  <2>1. <<Msg("connect")>> \in Seq(Inert)
    BY InertTyped
  <2>2. /\ QueuesFit(queue', resets, target, Heeded)
        /\ ResetsIn(queue'[worker]) = ResetsIn(queue[worker])
    BY <1>1, <1>7, <2>1, PostsInert DEF Initiate, SetTransport, ConnectChannels
  <2>3. /\ phase = "alive" /\ initiated' \in BOOLEAN
        /\ chosen' = IF chosen = 0 /\ SetTransport THEN target ELSE chosen
        /\ UNCHANGED <<channels, chan, fresh, requested, messages, writable, resets, timer, target,
                       sent, phase, misused>>
    BY <1>1, <1>7 DEF Initiate, SetTransport, ConnectChannels, object, TypeOK
  <2>4. chosen \in 0..target /\ chosen' \in 0..target /\ Heeded' = Heeded
    BY <1>1, <2>3 DEF TypeOK, Heeded
  <2>5. QueuesFit(queue', resets', target', Heeded')
    BY <2>2, <2>3, <2>4
  <2>6. TypeOK'
    BY <1>1, <2>2, <2>3, <2>4 DEF TypeOK, QueuesFit
  <2>7. RemoteIsCurrent'
    BY <1>1, <2>2, <2>3, <2>4, ResetWaits DEF RemoteIsCurrent, Waiting, ResetsIn
  <2> QED BY <1>1, <2>3, <2>5, <2>6, <2>7
          DEF TransportInv, Left, NotUsedAfterDestruction, QueuesFit, Told
<1>8. CASE Redirect
  <2>1. /\ phase = "alive" /\ target' = target + 1 /\ target <= MaxRedirects /\ timer' = FALSE
        /\ UNCHANGED <<channels, chan, fresh, requested, messages, writable, resets, initiated, chosen,
                       sent, phase, misused>>
    BY <1>8 DEF Redirect, object
  <2>2. target' \in Epoch /\ chosen \in 0..target'
    BY <1>1, <2>1 DEF Epoch, TypeOK
  <2>3. /\ QueuesFit(queue', resets, target + 1, Heeded')
        /\ RemoteIsCurrent'
    <3>1. CASE chosen = 0
      <4>1. queue' = Posted(queue, worker, <<Msg("reset"), Msg("connect")>>)
        BY <1>8, <3>1 DEF Redirect
      <4>2. QueuesFit(queue', resets, target + 1, Heeded') /\ ResetsIn(queue'[worker]) # {}
        BY <1>1, <4>1, PostsReset
      <4>3. RemoteIsCurrent'
        BY <1>1, <4>2 DEF RemoteIsCurrent, Waiting, ResetsIn
      <4> QED BY <4>2, <4>3
    <3>2. CASE chosen # 0
      <4>1. queue' = Posted(queue, worker, <<Msg("connect")>>)
        BY <1>8, <3>2 DEF Redirect
      <4>2. <<Msg("connect")>> \in Seq(Inert)
        BY InertTyped
      <4>3. /\ QueuesFit(queue', resets, target, Heeded)
            /\ ResetsIn(queue'[worker]) = ResetsIn(queue[worker])
        BY <1>1, <4>1, <4>2, PostsInert
      <4>4. Heeded \subseteq Heeded'
        BY <1>1, <2>1, <3>2 DEF Heeded, TypeOK
      <4>5. QueuesFit(queue', resets, target + 1, Heeded')
        BY <1>1, <4>3, <4>4, HeedsMore
      <4>6. RemoteIsCurrent'
        <5> SUFFICES ASSUME ~Waiting(worker, "reset")', NEW c \in channels
                     PROVE  chan[c].heard \subseteq Heeded'
          BY <2>1 DEF RemoteIsCurrent
        <5>1. ~Waiting(worker, "reset")
          BY <1>1, <4>3, ResetWaits DEF Waiting, ResetsIn
        <5> QED BY <1>1, <4>4, <5>1 DEF RemoteIsCurrent
      <4> QED BY <4>5, <4>6
    <3> QED BY <3>1, <3>2
  <2>4. TypeOK'
    BY <1>1, <2>1, <2>2, <2>3 DEF TypeOK, QueuesFit
  <2>5. QueuesFit(queue', resets', target', Heeded')
    BY <2>1, <2>3
  <2> QED BY <1>1, <2>1, <2>3, <2>4, <2>5
          DEF TransportInv, Left, NotUsedAfterDestruction, QueuesFit, Told
<1>9. CASE DestroyAllChannels
  <2>3. /\ channels' = {} /\ fresh' = {} /\ phase' = "dying" /\ phase = "alive"
        /\ chan' = [c \in Channel |-> NewChannel]
        /\ UNCHANGED <<requested, messages, writable, queue, resets, timer, target, initiated, chosen, sent, misused>>
    BY <1>9 DEF DestroyAllChannels, session, partner
  <2>4. TypeOK'
    BY <1>1, <1>2, <2>3 DEF TypeOK
  <2>5. IsFiniteSet(channels')
    BY <2>3, FS_EmptySet
  <2> QED BY <1>1, <2>3, <2>4, <2>5
          DEF TransportInv, Heeded, Left, NotUsedAfterDestruction, QueuesFit, Told, RemoteIsCurrent
<1>10. CASE Destroyed
  <2>3. /\ phase' = "gone" /\ phase = "dying" /\ queue' = [t \in Thread |-> <<>>]
        /\ UNCHANGED <<channels, chan, fresh, requested, messages, writable, resets, timer, target, initiated, chosen,
                       sent, misused>>
    BY <1>10 DEF Destroyed, session, partner
  <2>1. resets + 1 <= target
    BY <1>1, ResetsFinite DEF QueuesFit
  <2>2. QueuesFit(queue', resets, target, Heeded)
    BY <1>1, <2>1, <2>3, Emptied
  <2>4. TypeOK'
    BY <1>1, <2>2, <2>3 DEF TypeOK, QueuesFit
  <2> QED BY <1>1, <2>2, <2>3, <2>4
          DEF TransportInv, Heeded, Left, NotUsedAfterDestruction, QueuesFit, Told, RemoteIsCurrent
<1> QED BY <1>4, <1>5, <1>6, <1>7, <1>8, <1>9, <1>10 DEF Session

\* The flags of a channel change neither what it was told nor what it has heard.
LEMMA Flagged ==
  ASSUME NEW k \in ChannelRecord
  PROVE  /\ [k EXCEPT !.waiting = FALSE, !.gathering = TRUE] \in ChannelRecord
         /\ [k EXCEPT !.waiting = FALSE, !.gathering = TRUE].connected = k.connected
         /\ [k EXCEPT !.waiting = FALSE, !.gathering = TRUE].heard = k.heard
         /\ [k EXCEPT !.waiting = TRUE] \in ChannelRecord
         /\ [k EXCEPT !.waiting = TRUE].connected = k.connected
         /\ [k EXCEPT !.waiting = TRUE].heard = k.heard
         /\ [k EXCEPT !.writable = ~@, !.waiting = @ \/ k.writable] \in ChannelRecord
         /\ [k EXCEPT !.writable = ~@, !.waiting = @ \/ k.writable].connected = k.connected
         /\ [k EXCEPT !.writable = ~@, !.waiting = @ \/ k.writable].heard = k.heard
BY DEF ChannelRecord

\* The worker's handlers.
LEMMA WorkerKeeps == TransportInv /\ OnWorker => TransportInv'
<1> SUFFICES ASSUME TransportInv, OnWorker PROVE TransportInv'
  OBVIOUS
<1> USE TransportAssumption
<1>1. /\ TypeOK /\ IsFiniteSet(channels) /\ QueuesFit(queue, resets, target, Heeded)
      /\ RemoteIsCurrent /\ Told /\ Left /\ NotUsedAfterDestruction
      /\ worker' = worker /\ worker \in Thread /\ Signaling \in Thread
      /\ resets \in Nat /\ target \in Nat /\ queue[worker] \in Seq(Message)
  BY DEF TransportInv, OnWorker, TypeOK, Thread, Epoch
<1>2. NewChannel \in ChannelRecord /\ NewChannel.connected = 0 /\ NewChannel.heard = {}
  BY DEF NewChannel, ChannelRecord
<1>3. ASSUME NEW id, Takes(worker, id), Used
      PROVE  /\ queue[worker] # <<>> /\ Head(queue[worker]).id = id
             /\ phase # "gone" /\ phase' = phase
             /\ misused' \in BOOLEAN
             /\ Left /\ phase' = "gone" => \A t \in Thread : queue'[t] = <<>>
             /\ NotUsedAfterDestruction'
  <2>1. queue[worker] # <<>> /\ Head(queue[worker]).id = id /\ phase # "gone"
    BY <1>1, <1>3 DEF Takes, Left
  <2>2. phase' = phase /\ misused' = (misused \/ phase # "alive") /\ misused \in BOOLEAN
    BY <1>1, <1>3 DEF Used, TypeOK
  <2>3. worker = Signaling => phase = "alive"
    BY <1>1, <1>3, <2>1 DEF Takes, TypeOK
  <2>4. NotUsedAfterDestruction'
    BY <1>1, <2>2, <2>3 DEF NotUsedAfterDestruction
  <2> QED BY <2>1, <2>2, <2>4
<1>4. CASE ConnectChannels_w
  <2>1. /\ queue[worker] # <<>> /\ Head(queue[worker]).id # "reset"
        /\ phase # "gone" /\ phase' = phase /\ misused' \in BOOLEAN
        /\ NotUsedAfterDestruction'
    BY <1>1, <1>3, <1>4 DEF ConnectChannels_w
  <2>2. /\ QueuesFit(Taken(worker), resets, target, Heeded)
        /\ ResetsIn(Taken(worker)[worker]) = {} <=> ResetsIn(queue[worker]) = {}
    BY <1>1, <2>1, TakesInert
  <2>3. UNCHANGED <<channels, fresh, messages, writable, resets, timer, target, initiated, chosen, sent>>
    BY <1>4 DEF ConnectChannels_w, session, partner
  <2>4. CASE requested
    <3>1. queue' = Taken(worker) /\ UNCHANGED <<requested, chan>>
      BY <1>4, <2>4 DEF ConnectChannels_w
    <3>2. TypeOK'
      BY <1>1, <2>1, <2>2, <2>3, <3>1 DEF TypeOK, QueuesFit
    <3>3. RemoteIsCurrent'
      BY <1>1, <2>2, <2>3, <3>1, ResetWaits DEF RemoteIsCurrent, Heeded, Waiting, ResetsIn
    <3> QED BY <1>1, <2>1, <2>2, <2>3, <3>1, <3>2, <3>3
            DEF TransportInv, Heeded, Left, QueuesFit, Told
  <2>5. CASE ~requested
    <3> DEFINE ms == <<Msg("channelmessage")>>
                     \o [i \in 1..Cardinality(channels) |-> Msg("requestsignaling")]
                     \o (IF channels # {} THEN <<Msg("connecting")>> ELSE <<>>)
    <3>1. ms \in Seq(Inert)
      <4>1. Cardinality(channels) \in Nat
        BY <1>1, FS_CardinalityType
      <4>2. [i \in 1..Cardinality(channels) |-> Msg("requestsignaling")] \in Seq(Inert)
        BY <4>1, InertTyped, Repeated
      <4>3. <<Msg("channelmessage")>> \in Seq(Inert)
        BY InertTyped
      <4>4. (IF channels # {} THEN <<Msg("connecting")>> ELSE <<>>) \in Seq(Inert)
        BY InertTyped
      <4> QED BY <4>2, <4>3, <4>4, ConcatProperties
    <3>2. /\ queue' = Posted(Taken(worker), Signaling, ms)
          /\ requested' = TRUE
          /\ chan' = [c \in Channel |-> IF c \in channels THEN ChannelConnects(chan[c])
                                        ELSE chan[c]]
      BY <1>4, <2>5 DEF ConnectChannels_w
    <3> HIDE DEF ms
    <3>3. /\ QueuesFit(queue', resets, target, Heeded)
          /\ ResetsIn(queue'[worker]) = {} <=> ResetsIn(queue[worker]) = {}
      BY <1>1, <2>2, <3>1, <3>2, PostsInert
    <3>4. \A c \in Channel : /\ chan'[c] \in ChannelRecord
                             /\ chan'[c].heard = chan[c].heard
                             /\ c \in channels => chan'[c].connected = 1
      BY <1>1, <2>5, <3>2, Connecting DEF TypeOK, Told
    <3>5. TypeOK'
      BY <1>1, <2>1, <2>3, <3>2, <3>3, <3>4 DEF TypeOK, QueuesFit
    <3>6. RemoteIsCurrent'
      BY <1>1, <2>3, <3>3, <3>4, ResetWaits DEF RemoteIsCurrent, Heeded, Waiting, ResetsIn, TypeOK
    <3>7. Told'
      BY <1>1, <2>3, <3>2, <3>4 DEF Told, TypeOK
    <3> QED BY <1>1, <2>1, <2>3, <3>3, <3>5, <3>6, <3>7 DEF TransportInv, Heeded, Left, QueuesFit
  <2> QED BY <2>4, <2>5
<1>5. CASE ResetChannels_w
  <2> DEFINE were == {c \in channels : chan[c].writable}
             ms   == [i \in 1..Cardinality(were) |-> Msg("writestate")]
  <2>1. /\ queue[worker] # <<>> /\ Head(queue[worker]).id = "reset"
        /\ phase # "gone" /\ phase' = phase /\ misused' \in BOOLEAN
        /\ NotUsedAfterDestruction'
    BY <1>1, <1>3, <1>5 DEF ResetChannels_w
  <2>2. QueuesFit(Taken(worker), resets + 1, target, Heeded)
    BY <1>1, <2>1, TakesReset
  <2>3. /\ UNCHANGED <<channels, fresh, writable, timer, target, initiated, chosen, sent>>
        /\ requested' = FALSE /\ messages' = <<>> /\ resets' = resets + 1
        /\ chan' = [c \in Channel |-> IF c \in channels THEN NewChannel ELSE chan[c]]
        /\ queue' = Posted(Taken(worker), Signaling, ms)
    BY <1>5 DEF ResetChannels_w, session, partner, ResetOf
  <2>4. ms \in Seq(Inert)
    <3>1. Cardinality(were) \in Nat
      BY <1>1, FS_Subset, FS_CardinalityType
    <3> QED BY <3>1, InertTyped, Repeated
  <2> HIDE DEF ms
  <2>5. QueuesFit(queue', resets + 1, target, Heeded)
    BY <1>1, <2>2, <2>3, <2>4, PostsInert
  <2>6. resets' \in 0..MaxRedirects
    <3>1. Cardinality(ResetsIn(queue'[worker])) \in Nat
      BY <1>1, <2>5, ResetsFinite DEF QueuesFit
    <3>2. target <= MaxRedirects + 1
      BY <1>1 DEF TypeOK, Epoch
    <3> QED BY <1>1, <2>3, <2>5, <3>1, <3>2 DEF QueuesFit
  <2>7. <<>> \in Seq(Epoch)
    OBVIOUS
  <2>8. TypeOK'
    BY <1>1, <1>2, <2>1, <2>3, <2>5, <2>6, <2>7 DEF TypeOK, QueuesFit
  <2>9. RemoteIsCurrent' /\ Told'
    BY <1>1, <1>2, <2>3 DEF RemoteIsCurrent, Heeded, Told, TypeOK
  <2> QED BY <1>1, <2>1, <2>3, <2>5, <2>8, <2>9 DEF TransportInv, Heeded, Left, QueuesFit
<1>6. CASE ForwardChannelMessage_w
  <2> DEFINE c == Head(queue[worker]).arg[1]
             e == Head(queue[worker]).arg[2]
  <2>1. /\ queue[worker] # <<>> /\ Head(queue[worker]).id = "forward"
        /\ phase # "gone" /\ phase' = phase /\ misused' \in BOOLEAN
        /\ NotUsedAfterDestruction'
    BY <1>1, <1>3, <1>6 DEF ForwardChannelMessage_w
  <2>2. /\ QueuesFit(Taken(worker), resets, target, Heeded)
        /\ ResetsIn(Taken(worker)[worker]) = {} <=> ResetsIn(queue[worker]) = {}
    BY <1>1, <2>1, TakesInert
  <2>3. /\ UNCHANGED <<channels, fresh, requested, messages, writable, resets, timer, target, initiated, chosen, sent>>
        /\ queue' = Taken(worker)
        /\ chan' = IF c \in channels THEN [chan EXCEPT ![c].heard = @ \cup {e}] ELSE chan
    BY <1>6 DEF ForwardChannelMessage_w, session, partner
  <2>4. c \in Channel /\ e \in Epoch
    BY <1>1, <2>1, Shortened DEF Message
  <2>5. ResetsIn(queue[worker]) = {} => e \in Heeded
    <3>1. 1 \in DOMAIN queue[worker] /\ Head(queue[worker]) = queue[worker][1]
      BY <1>1, <2>1, Shortened
    <3> QED BY <1>1, <2>1, <3>1 DEF QueuesFit, InTransit, ResetsIn
  <2> HIDE DEF c, e
  <2>6. chan' \in [Channel -> ChannelRecord]
    BY <1>1, <2>3, <2>4 DEF TypeOK, ChannelRecord
  <2>7. \A d \in Channel : /\ chan'[d].connected = chan[d].connected
                           /\ chan'[d].heard \subseteq chan[d].heard \cup {e}
    BY <1>1, <2>3, <2>4 DEF TypeOK, ChannelRecord
  <2>8. TypeOK'
    BY <1>1, <2>1, <2>2, <2>3, <2>6 DEF TypeOK, QueuesFit
  <2>9. RemoteIsCurrent'
    BY <1>1, <2>2, <2>3, <2>5, <2>7, ResetWaits DEF RemoteIsCurrent, Heeded, Waiting, ResetsIn, TypeOK
  <2>10. Told'
    BY <1>1, <2>3, <2>7 DEF Told, TypeOK
  <2> QED BY <1>1, <2>1, <2>2, <2>3, <2>8, <2>9, <2>10 DEF TransportInv, Heeded, Left, QueuesFit
<1>7. CASE OnSignalingReady_w
  <2>1. /\ queue[worker] # <<>> /\ Head(queue[worker]).id # "reset"
        /\ phase # "gone" /\ phase' = phase /\ misused' \in BOOLEAN
        /\ NotUsedAfterDestruction'
    <3>1. Takes(worker, "signalingready") /\ Used
      BY <1>7 DEF OnSignalingReady_w
    <3> QED BY <1>3, <3>1
  <2>2. /\ QueuesFit(Taken(worker), resets, target, Heeded)
        /\ ResetsIn(Taken(worker)[worker]) = {} <=> ResetsIn(queue[worker]) = {}
    BY <1>1, <2>1, TakesInert
  <2>3. /\ UNCHANGED <<channels, fresh, requested, messages, writable, resets, timer, target, initiated, chosen, sent>>
        /\ queue' = Taken(worker)
        /\ chan' = [c \in Channel |->
                      IF c \in channels /\ chan[c].waiting
                      THEN [chan[c] EXCEPT !.waiting = FALSE, !.gathering = TRUE] ELSE chan[c]]
    BY <1>7 DEF OnSignalingReady_w, session, partner
  <2>5. \A d \in Channel : chan[d] \in ChannelRecord
    BY <1>1 DEF TypeOK
  <2>6. chan' \in [Channel -> ChannelRecord]
    BY <2>3, <2>5, Flagged
  <2>7. \A d \in Channel : /\ chan'[d].connected = chan[d].connected
                           /\ chan'[d].heard = chan[d].heard
    BY <2>3, <2>5, Flagged
  <2>8. TypeOK'
    BY <1>1, <2>1, <2>2, <2>3, <2>6 DEF TypeOK, QueuesFit
  <2>9. RemoteIsCurrent' /\ Told'
    BY <1>1, <2>2, <2>3, <2>7, ResetWaits
    DEF RemoteIsCurrent, Heeded, Told, Waiting, ResetsIn, TypeOK
  <2> QED BY <1>1, <2>1, <2>2, <2>3, <2>8, <2>9 DEF TransportInv, Heeded, Left, QueuesFit
<1> QED BY <1>4, <1>5, <1>6, <1>7 DEF OnWorker

\* What the channels signal.
LEMMA ChannelKeeps == TransportInv /\ OnChannel => TransportInv'
<1> SUFFICES ASSUME TransportInv, OnChannel PROVE TransportInv'
  OBVIOUS
<1> USE TransportAssumption
<1>1. /\ TypeOK /\ IsFiniteSet(channels) /\ QueuesFit(queue, resets, target, Heeded)
      /\ RemoteIsCurrent /\ Told /\ Left /\ NotUsedAfterDestruction
      /\ worker' = worker /\ worker \in Thread /\ Signaling \in Thread
      /\ resets \in Nat /\ target \in Nat
  BY DEF TransportInv, OnChannel, TypeOK, Thread, Epoch
<1>2. PICK c \in Channel : OnAllocate(c) \/ OnChannelMessage(c) \/ OnChannelWritableState(c)
  BY DEF OnChannel
<1>3. /\ c \in channels /\ phase = "alive"
      /\ UNCHANGED <<channels, fresh, requested, writable, resets, timer, target, initiated, chosen, sent, phase, misused>>
  BY <1>1, <1>2 DEF OnAllocate, OnChannelMessage, OnChannelWritableState, session, partner, object,
                    Left, TypeOK
<1>4. ASSUME QueuesFit(queue', resets, target, Heeded),
             ResetsIn(queue'[worker]) = ResetsIn(queue[worker]),
             chan' \in [Channel -> ChannelRecord], messages' \in Seq(Epoch),
             \A d \in Channel : /\ chan'[d].connected = chan[d].connected
                                /\ chan'[d].heard = chan[d].heard
      PROVE  TransportInv'
  <2>1. TypeOK'
    BY <1>1, <1>3, <1>4 DEF TypeOK, QueuesFit
  <2>2. RemoteIsCurrent' /\ Told'
    BY <1>1, <1>3, <1>4, ResetWaits DEF RemoteIsCurrent, Heeded, Told, Waiting, ResetsIn, TypeOK
  <2> QED BY <1>1, <1>3, <1>4, <2>1, <2>2
          DEF TransportInv, Heeded, Left, NotUsedAfterDestruction, QueuesFit
<1>5. CASE OnAllocate(c)
  <2>1. <<Msg("requestsignaling")>> \in Seq(Inert)
    BY InertTyped
  <2>2. /\ QueuesFit(queue', resets, target, Heeded)
        /\ ResetsIn(queue'[worker]) = ResetsIn(queue[worker])
    BY <1>1, <1>5, <2>1, PostsInert DEF OnAllocate
  <2> DEFINE k == [chan[c] EXCEPT !.waiting = TRUE]
  <2>3. chan' = [chan EXCEPT ![c] = k] /\ messages' = messages
    BY <1>5 DEF OnAllocate
  <2>6. /\ k \in ChannelRecord
        /\ k.connected = chan[c].connected /\ k.heard = chan[c].heard
    BY <1>1, Flagged DEF TypeOK
  <2> HIDE DEF k
  <2>4. chan' \in [Channel -> ChannelRecord]
    BY <1>1, <2>3, <2>6 DEF TypeOK
  <2>5. \A d \in Channel : /\ chan'[d].connected = chan[d].connected
                           /\ chan'[d].heard = chan[d].heard
    BY <1>1, <2>3, <2>6 DEF TypeOK
  <2> QED BY <1>1, <1>4, <2>2, <2>3, <2>4, <2>5 DEF TypeOK
<1>6. CASE OnChannelMessage(c)
  <2>1. <<Msg("channelmessage")>> \in Seq(Inert)
    BY InertTyped
  <2>2. /\ QueuesFit(queue', resets, target, Heeded)
        /\ ResetsIn(queue'[worker]) = ResetsIn(queue[worker])
    BY <1>1, <1>6, <2>1, PostsInert DEF OnChannelMessage
  <2>3. chan' = chan /\ messages' = Append(messages, resets + 1)
    BY <1>6 DEF OnChannelMessage
  <2>4. resets + 1 \in Epoch /\ messages \in Seq(Epoch)
    BY <1>1 DEF TypeOK, Epoch
  <2>5. messages' \in Seq(Epoch)
    BY <2>3, <2>4, AppendProperties
  <2> QED BY <1>1, <1>4, <2>2, <2>3, <2>5 DEF TypeOK
<1>7. CASE OnChannelWritableState(c)
  <2>1. ((IF chan[c].writable THEN <<Msg("requestsignaling")>> ELSE <<>>)
          \o <<Msg("writestate")>>) \in Seq(Inert)
    BY InertTyped
  <2>2. /\ QueuesFit(queue', resets, target, Heeded)
        /\ ResetsIn(queue'[worker]) = ResetsIn(queue[worker])
    BY <1>1, <1>7, <2>1, PostsInert DEF OnChannelWritableState
  <2> DEFINE k == [chan[c] EXCEPT !.writable = ~@, !.waiting = @ \/ chan[c].writable]
  <2>3. chan' = [chan EXCEPT ![c] = k] /\ messages' = messages
    BY <1>7 DEF OnChannelWritableState
  <2>6. /\ k \in ChannelRecord
        /\ k.connected = chan[c].connected /\ k.heard = chan[c].heard
    BY <1>1, Flagged DEF TypeOK
  <2> HIDE DEF k
  <2>4. chan' \in [Channel -> ChannelRecord]
    BY <1>1, <2>3, <2>6 DEF TypeOK
  <2>5. \A d \in Channel : /\ chan'[d].connected = chan[d].connected
                           /\ chan'[d].heard = chan[d].heard
    BY <1>1, <2>3, <2>6 DEF TypeOK
  <2> QED BY <1>1, <1>4, <2>2, <2>3, <2>4, <2>5 DEF TypeOK
<1> QED BY <1>2, <1>5, <1>6, <1>7

\* The handlers on the signaling thread.
LEMMA SignalingKeeps == TransportInv /\ OnSignaling => TransportInv'
<1> SUFFICES ASSUME TransportInv, OnSignaling PROVE TransportInv'
  OBVIOUS
<1> USE TransportAssumption
<1>1. /\ TypeOK /\ IsFiniteSet(channels) /\ QueuesFit(queue, resets, target, Heeded)
      /\ RemoteIsCurrent /\ Told /\ Left /\ NotUsedAfterDestruction
      /\ worker' = worker /\ worker \in Thread /\ Signaling \in Thread
      /\ resets \in Nat /\ target \in Nat
  BY DEF TransportInv, OnSignaling, TypeOK, Thread, Epoch
<1>2. ASSUME NEW id, id # "reset", Takes(Signaling, id), Used
      PROVE  /\ QueuesFit(Taken(Signaling), resets, target, Heeded)
             /\ ResetsIn(Taken(Signaling)[worker]) = {} <=> ResetsIn(queue[worker]) = {}
             /\ phase = "alive" /\ phase' = "alive" /\ misused' = misused
  <2>1. queue[Signaling] # <<>> /\ Head(queue[Signaling]).id # "reset" /\ phase = "alive"
    BY <1>1, <1>2 DEF Takes, Left, TypeOK
  <2> QED BY <1>1, <1>2, <2>1, TakesInert DEF Used, TypeOK
<1>3. ASSUME QueuesFit(queue', resets, target, Heeded),
             ResetsIn(queue'[worker]) = {} <=> ResetsIn(queue[worker]) = {},
             phase' = "alive", misused' = misused,
             UNCHANGED <<channels, chan, fresh, requested, resets, target, initiated, chosen>>,
             messages' \in Seq(Epoch), writable' \in BOOLEAN, timer' \in BOOLEAN,
             sent' \subseteq [of : Epoch, to : Epoch]
      PROVE  TransportInv'
  <2>1. TypeOK'
    BY <1>1, <1>3 DEF TypeOK, QueuesFit
  <2>2. RemoteIsCurrent' /\ Told'
    BY <1>1, <1>3, ResetWaits DEF RemoteIsCurrent, Heeded, Told, Waiting, ResetsIn
  <2> QED BY <1>1, <1>3, <2>1, <2>2
          DEF TransportInv, Heeded, Left, NotUsedAfterDestruction, QueuesFit
<1>4. CASE OnConnecting_s
  <2>1. Takes(Signaling, "connecting") /\ Used /\ queue' = Taken(Signaling)
    BY <1>4 DEF OnConnecting_s
  <2>2. /\ timer' \in BOOLEAN
        /\ UNCHANGED <<channels, chan, fresh, requested, messages, writable, resets, target, initiated,
                       chosen, sent>>
    BY <1>4 DEF OnConnecting_s, Watched, partner
  <2> QED BY <1>1, <1>2, <1>3, <2>1, <2>2 DEF TypeOK
<1>5. CASE OnChannelWritableState_s
  <2>1. Takes(Signaling, "writestate") /\ Used /\ queue' = Taken(Signaling)
    BY <1>5 DEF OnChannelWritableState_s
  <2>2. /\ writable' \in BOOLEAN
        /\ UNCHANGED <<channels, chan, fresh, requested, messages, resets, target, initiated,
                       chosen, sent>>
    BY <1>5 DEF OnChannelWritableState_s, GetTransportState_s, partner
  <2>3. timer' \in BOOLEAN
    BY <1>1, <1>5 DEF OnChannelWritableState_s, Watched, TypeOK
  <2> QED BY <1>1, <1>2, <1>3, <2>1, <2>2, <2>3 DEF TypeOK
<1>6. CASE OnChannelRequestSignaling_s
  <2>1. /\ Takes(Signaling, "requestsignaling") /\ Used
        /\ queue' = Posted(Taken(Signaling), worker, <<Msg("signalingready")>>)
    BY <1>6 DEF OnChannelRequestSignaling_s
  <2>2. UNCHANGED <<channels, chan, fresh, requested, messages, writable, resets,
                    timer, target, initiated,
                       chosen, sent>>
    BY <1>6 DEF OnChannelRequestSignaling_s, session, partner
  <2>3. <<Msg("signalingready")>> \in Seq(Inert)
    BY InertTyped
  <2>4. /\ QueuesFit(queue', resets, target, Heeded)
        /\ ResetsIn(queue'[worker]) = {} <=> ResetsIn(queue[worker]) = {}
    BY <1>1, <1>2, <2>1, <2>3, PostsInert
  <2> QED BY <1>1, <1>2, <1>3, <2>1, <2>2, <2>4 DEF TypeOK
<1>7. CASE OnChannelMessage_s
  <2>1. Takes(Signaling, "channelmessage") /\ Used /\ queue' = Taken(Signaling)
    BY <1>7 DEF OnChannelMessage_s
  <2>2. /\ messages' = <<>>
        /\ sent' = sent \cup {[of |-> messages[i], to |-> target] : i \in DOMAIN messages}
        /\ UNCHANGED <<channels, chan, fresh, requested, writable, resets, timer, target, initiated,
                    chosen>>
    BY <1>7 DEF OnChannelMessage_s, partner
  <2>3. \A i \in DOMAIN messages : messages[i] \in Epoch
    BY <1>1 DEF TypeOK
  <2>4. sent' \subseteq [of : Epoch, to : Epoch] /\ messages' \in Seq(Epoch)
    BY <1>1, <2>2, <2>3 DEF TypeOK
  <2> QED BY <1>1, <1>2, <1>3, <2>1, <2>2, <2>4 DEF TypeOK
<1> QED BY <1>4, <1>5, <1>6, <1>7 DEF OnSignaling

\* Every behaviour keeps the invariant.
LEMMA Invariant == Spec => []TransportInv
<1>1. TransportInv /\ UNCHANGED vars => TransportInv'
  BY DEF vars, session, partner, object, TransportInv, TypeOK, QueuesFit, RemoteIsCurrent, Heeded, Waiting,
         Told, Left, NotUsedAfterDestruction
<1>2. TransportInv /\ [Next]_vars => TransportInv'
  BY <1>1, SessionKeeps, WorkerKeeps, ChannelKeeps, SignalingKeeps DEF Next
<1> QED BY InitInv, <1>2, PTL DEF Spec

-----------------------------------------------------------------------------
(* The theorems.                                                             *)

\* Whatever is posted and however the two threads take turns, the variables of
\* the transport and both queues keep their types; no more resets are done than
\* there were redirects (transport.cc:200-220).
THEOREM TransportTypeCorrect == Spec => []TypeOK
BY Invariant, PTL DEF TransportInv

\* A channel that exists while connecting is requested has been told to connect,
\* whether it was made before ConnectChannels_w ran, after it, or while that
\* message waited (transport.cc:100-107, 156).
THEOREM EveryChannelConnects == Spec => []ConnectsAll
<1>1. TransportInv => ConnectsAll
  BY DEF TransportInv, Told, ConnectsAll
<1> QED BY <1>1, Invariant, PTL

\* and no more than once between resets.
THEOREM NoChannelConnectsTwice == Spec => []ConnectsOnce
<1>1. TransportInv => ConnectsOnce
  BY DEF TransportInv, Told, ConnectsOnce
<1> QED BY <1>1, Invariant, PTL

\* Unless a reset that will drop them waits, the remote candidates a channel holds
\* are of the peer the session talks to now or, once its transport is settled, of
\* one since then: those in transit to the worker when the session was redirected
\* before do not reach it afterwards, and no redirect after it brings them back
\* (p2ptransportchannel.cc:229, session.cc:786).
THEOREM NoStaleCandidates == Spec => []RemoteIsCurrent
BY Invariant, PTL DEF TransportInv

\* Where one thread is both signaling thread and worker, no handler of the
\* transport runs once its destructor has begun (transport.cc:72-74).
THEOREM NothingRunsAfterDestruction == Spec => []NotUsedAfterDestruction
BY Invariant, PTL DEF TransportInv
=============================================================================
