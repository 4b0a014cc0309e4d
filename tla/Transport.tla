------------------------------- MODULE Transport -------------------------------
(***************************************************************************)
(* cricket::Transport: the channels of a session live on the worker thread,  *)
(* the session on the signaling thread, and the transport passes requests,   *)
(* candidates and state changes between the two by posted messages; only     *)
(* creating and destroying a channel are sent, and so overtake what has been *)
(* posted before.  The two threads may be one, as in gingacc-p2p.            *)
(*                                                                         *)
(* A step is one turn of a thread.  Of a channel (P2PTransportChannel) the   *)
(* part is kept that the transport sees.                                     *)
(***************************************************************************)
EXTENDS Naturals, Sequences, SequencesExt, FiniteSets

CONSTANTS Channel,      \* names of channels, each created at most once
          Signaling,    \* the signaling thread
          Workers,      \* which thread may be the worker: another one, or the same
          Destroyable,  \* the channels the session may destroy
          MaxRedirects, \* redirects of the session, at most
          MaxPosted     \* bound: messages waiting in a queue when a new one is caused

ASSUME TransportAssumption ==
  /\ Workers # {}
  /\ Destroyable \subseteq Channel
  /\ MaxRedirects \in Nat /\ MaxPosted \in Nat

Thread == {Signaling} \cup Workers
Epoch  == 1..MaxRedirects + 1

VARIABLES
  worker,     \* the worker thread, for good
  channels,   \* channels_, the channels that exist
  chan,       \* chan[c]: the channel's own state
  fresh,      \* the channels not created yet
  requested,  \* connect_requested_
  messages,   \* messages_: the candidates held, each by the epoch it was gathered in
  writable,   \* writable_, the session's view
  queue,      \* queue[t]: the transport's messages posted to t
  timer,      \* the session's MSG_TIMEOUT is posted
  target,     \* whom the session talks to, 1 + the redirects so far
  initiated,  \* the session has offered itself (STATE_SENTINITIATE)
  chosen,     \* 0, or the target when SetTransport was first called
  resets,     \* resets done by the worker
  sent,       \* candidates handed to the session, with whom they went to
  phase,      \* "alive", "dying" inside the destructor, "gone"
  misused     \* a handler has run on an object being destroyed

partner == <<target, initiated, chosen>>
session == <<timer, partner, sent>>
object  == <<phase, misused>>
vars    == <<worker, channels, chan, fresh, requested, messages, writable, queue, resets, session, object>>

ChannelRecord ==
  [connected : 0..2,            \* calls of Connect since the last Reset, from two on alike
   waiting   : BOOLEAN,         \* waiting_for_signaling_
   gathering : BOOLEAN,         \* an allocator session is active
   writable  : BOOLEAN,         \* writable()
   heard     : SUBSET Epoch]    \* the epochs of the remote candidates it has

NewChannel ==
  [connected |-> 0, waiting |-> FALSE, gathering |-> FALSE, writable |-> FALSE, heard |-> {}]

Message == [id : {"connect", "reset", "signalingready", "connecting", "writestate",
                  "requestsignaling", "channelmessage"}, arg : {0}]
           \cup [id : {"forward"}, arg : Channel \X Epoch]

Msg(id) == [id |-> id, arg |-> 0]

Init ==
  /\ worker \in Workers
  /\ channels = {} /\ fresh = Channel
  /\ chan = [c \in Channel |-> NewChannel]
  /\ requested = FALSE
  /\ messages = <<>>
  /\ writable = FALSE
  /\ queue = [t \in Thread |-> <<>>]
  /\ timer = FALSE /\ target = 1 /\ sent = {}
  /\ initiated = FALSE /\ chosen = 0
  /\ resets = 0
  /\ phase = "alive" /\ misused = FALSE

-----------------------------------------------------------------------------
(* Messages.                                                                 *)

Posted(q, t, ms) == [q EXCEPT ![t] = @ \o ms]

\* A cause of new messages waits while the queues are long (a bound).
Room == \A t \in Thread : Len(queue[t]) <= MaxPosted

\* A thread inside the destructor takes no message; the other one may.
Takes(t, id) ==
  /\ queue[t] # <<>> /\ Head(queue[t]).id = id
  /\ phase = "dying" => t # Signaling

Taken(t) == [queue EXCEPT ![t] = Tail(@)]

Used == /\ misused' = (misused \/ phase # "alive")
        /\ UNCHANGED phase

-----------------------------------------------------------------------------
(* The session's calls, on the signaling thread.                             *)

ChannelConnects(k) == [k EXCEPT !.connected = IF @ < 2 THEN @ + 1 ELSE @, !.waiting = TRUE]

\* Mutant: the channel connects before anyone listens to its requests.
CreateChannelUnheard(c) ==
  /\ phase = "alive" /\ c \in fresh /\ Room
  /\ fresh' = fresh \ {c}
  /\ channels' = channels \cup {c}
  /\ chan' = [chan EXCEPT ![c] = IF requested THEN ChannelConnects(NewChannel) ELSE NewChannel]
  /\ queue' = IF requested /\ channels = {}
              THEN Posted(queue, Signaling, <<Msg("connecting")>>) ELSE queue
  /\ UNCHANGED <<requested, messages, writable, resets, session, object>>

\* CreateChannel_w, sent to the worker.
CreateChannel(c) ==
  /\ phase = "alive" /\ c \in fresh /\ Room
  /\ fresh' = fresh \ {c}
  /\ channels' = channels \cup {c}
  /\ chan' = [chan EXCEPT ![c] = IF requested THEN ChannelConnects(NewChannel) ELSE NewChannel]
  /\ queue' = IF requested
              THEN Posted(queue, Signaling,
                     <<Msg("requestsignaling")>> \o
                     (IF channels = {} THEN <<Msg("connecting")>> ELSE <<>>))
              ELSE queue
  /\ UNCHANGED <<requested, messages, writable, resets, session, object>>

\* DestroyChannel_w, sent to the worker: the state of the transport is not
\* computed again.
DestroyChannel(c) ==
  /\ phase = "alive" /\ c \in channels \cap Destroyable /\ Room
  /\ channels' = channels \ {c}
  /\ chan' = [chan EXCEPT ![c] = NewChannel]
  /\ queue' = IF requested /\ channels' = {}
              THEN Posted(queue, Signaling, <<Msg("connecting")>>) ELSE queue
  /\ UNCHANGED <<fresh, requested, messages, writable, resets, session, object>>

\* Transport::ConnectChannels, a call of the session (not a step of its own).
ConnectChannels ==
  /\ phase = "alive" /\ Room
  /\ queue' = Posted(queue, worker, <<Msg("connect")>>)
  /\ UNCHANGED <<channels, chan, fresh, requested, messages, writable, resets, timer, target, sent,
                 object>>

\* The default transport is connected before it is accepted.
Initiate ==
  /\ ~initiated /\ chosen = 0
  /\ initiated' = TRUE /\ chosen' = chosen
  /\ ConnectChannels

\* The transport is settled: a callee takes the offer of it, an initiator is told
\* that it was accepted.  It is no potential transport any more.
SetTransport ==
  /\ chosen' = IF chosen = 0 THEN target ELSE chosen
  /\ initiated' = initiated
  /\ ConnectChannels

\* OnRedirectMessage: the timer is cleared, and what is still a potential
\* transport is reset; either way it is told to connect.
Redirect ==
  /\ phase = "alive" /\ initiated /\ target <= MaxRedirects /\ Room
  /\ target' = target + 1
  /\ timer' = FALSE
  /\ queue' = Posted(queue, worker,
                     IF chosen = 0 THEN <<Msg("reset"), Msg("connect")>> ELSE <<Msg("connect")>>)
  /\ UNCHANGED <<channels, chan, fresh, requested, messages, writable, resets, initiated, chosen,
                 sent, object>>

\* A candidate of the peer the session talks to now.  (A bound: a channel that
\* has one gets no other.)
ForwardChannelMessage(c) ==
  /\ phase = "alive" /\ c \in channels /\ Room
  /\ target \notin chan[c].heard
  /\ queue' = Posted(queue, worker, <<[id |-> "forward", arg |-> <<c, target>>]>>)
  /\ UNCHANGED <<channels, chan, fresh, requested, messages, writable, resets, session, object>>

\* ~Transport, after its subclass has sent DestroyAllChannels ...
DestroyAllChannels ==
  /\ phase = "alive"
  /\ phase' = "dying"
  /\ channels' = {} /\ fresh' = {}
  /\ chan' = [c \in Channel |-> NewChannel]
  /\ UNCHANGED <<requested, messages, writable, queue, resets, session, misused>>

\* ... and ~MessageHandler, which clears every queue.
Destroyed ==
  /\ phase = "dying"
  /\ phase' = "gone"
  /\ queue' = [t \in Thread |-> <<>>]
  /\ UNCHANGED <<channels, chan, fresh, requested, messages, writable, resets, session, misused>>

-----------------------------------------------------------------------------
(* The worker's handlers.                                                    *)

\* Connects every channel, unless that has been requested already.
ConnectChannels_w ==
  /\ Takes(worker, "connect")
  /\ IF requested
     THEN /\ queue' = Taken(worker)
          /\ UNCHANGED <<requested, chan>>
     ELSE /\ requested' = TRUE
          /\ chan' = [c \in Channel |-> IF c \in channels THEN ChannelConnects(chan[c])
                                        ELSE chan[c]]
          /\ queue' = Posted(Taken(worker), Signaling,
                <<Msg("channelmessage")>>
                \o [i \in 1..Cardinality(channels) |-> Msg("requestsignaling")]
                \o (IF channels # {} THEN <<Msg("connecting")>> ELSE <<>>))
  /\ Used
  /\ UNCHANGED <<channels, fresh, messages, writable, resets, session>>

\* Mutant: a channel keeps the remote candidates it had.
ResetOfKept(k) == [NewChannel EXCEPT !.heard = k.heard]

\* Reset of a channel; it signals that it is not writable any more.
ResetOf(k) == NewChannel

\* Mutant: connecting is still requested.
ResetChannelsRequested_w ==
  /\ Takes(worker, "reset")
  /\ messages' = <<>>
  /\ resets' = resets + 1
  /\ chan' = [c \in Channel |-> IF c \in channels THEN ResetOf(chan[c]) ELSE chan[c]]
  /\ queue' = Taken(worker)
  /\ Used
  /\ UNCHANGED <<channels, fresh, requested, writable, session>>

ResetChannels_w ==
  /\ Takes(worker, "reset")
  /\ requested' = FALSE
  /\ messages' = <<>>
  /\ resets' = resets + 1
  /\ chan' = [c \in Channel |-> IF c \in channels THEN ResetOf(chan[c]) ELSE chan[c]]
  /\ LET were == {c \in channels : chan[c].writable} IN
       queue' = Posted(Taken(worker), Signaling,
                       [i \in 1..Cardinality(were) |-> Msg("writestate")])
  /\ Used
  /\ UNCHANGED <<channels, fresh, writable, session>>

\* A channel that may be gone by now.
ForwardChannelMessage_w ==
  /\ Takes(worker, "forward")
  /\ LET c == Head(queue[worker]).arg[1]
         e == Head(queue[worker]).arg[2]
     IN chan' = IF c \in channels THEN [chan EXCEPT ![c].heard = @ \cup {e}] ELSE chan
  /\ queue' = Taken(worker)
  /\ Used
  /\ UNCHANGED <<channels, fresh, requested, messages, writable, resets, session>>

\* Every channel that waits for the signaling starts to gather.
OnSignalingReady_w ==
  /\ Takes(worker, "signalingready")
  /\ chan' = [c \in Channel |->
                IF c \in channels /\ chan[c].waiting
                THEN [chan[c] EXCEPT !.waiting = FALSE, !.gathering = TRUE] ELSE chan[c]]
  /\ queue' = Taken(worker)
  /\ Used
  /\ UNCHANGED <<channels, fresh, requested, messages, writable, resets, session>>

WorkerFree == phase = "dying" => worker # Signaling

\* A channel has a candidate; it is held until the client lets us connect.
\* (A bound: one is held, and gathered again only after a reset.)
OnChannelMessage(c) ==
  /\ WorkerFree /\ Room
  /\ c \in channels /\ chan[c].gathering /\ Len(messages) < 1
  /\ \A s \in sent : s.of # resets + 1
  /\ messages' = Append(messages, resets + 1)
  /\ queue' = IF requested THEN Posted(queue, Signaling, <<Msg("channelmessage")>>) ELSE queue
  /\ UNCHANGED <<channels, chan, fresh, requested, writable, resets, session, object>>

\* A channel that is not writable allocates again from time to time.
OnAllocate(c) ==
  /\ WorkerFree /\ Room
  /\ c \in channels /\ chan[c].gathering /\ ~chan[c].waiting /\ ~chan[c].writable
  /\ chan' = [chan EXCEPT ![c].waiting = TRUE]
  /\ queue' = Posted(queue, Signaling, <<Msg("requestsignaling")>>)
  /\ UNCHANGED <<channels, fresh, requested, messages, writable, resets, session, object>>

\* The connections of a channel come up or go down; when they go down it
\* allocates at once (HandleWritable, HandleNotWritable).
OnChannelWritableState(c) ==
  /\ WorkerFree /\ Room
  /\ c \in channels /\ chan[c].gathering /\ (chan[c].writable \/ chan[c].heard # {})
  /\ chan' = [chan EXCEPT ![c].writable = ~@, ![c].waiting = @ \/ chan[c].writable]
  /\ queue' = Posted(queue, Signaling,
                (IF chan[c].writable THEN <<Msg("requestsignaling")>> ELSE <<>>)
                \o <<Msg("writestate")>>)
  /\ UNCHANGED <<channels, fresh, requested, messages, writable, resets, session, object>>

-----------------------------------------------------------------------------
(* The handlers on the signaling thread.                                     *)

\* Session::OnTransportWritable.
Watched(w) == channels # {} /\ ~w

OnConnecting_s ==
  /\ Takes(Signaling, "connecting")
  /\ timer' = Watched(writable)
  /\ queue' = Taken(Signaling)
  /\ Used
  /\ UNCHANGED <<channels, chan, fresh, requested, messages, writable, resets, partner, sent>>

GetTransportState_s == \E c \in channels : chan[c].writable

\* The state is computed when the message is taken, and signalled if it is new.
OnChannelWritableState_s ==
  /\ Takes(Signaling, "writestate")
  /\ writable' = GetTransportState_s
  /\ timer' = IF writable' # writable THEN Watched(writable') ELSE timer
  /\ queue' = Taken(Signaling)
  /\ Used
  /\ UNCHANGED <<channels, chan, fresh, requested, messages, resets, partner, sent>>

\* The session manager answers a request for signaling at once, and the
\* transport tells its channels.
OnChannelRequestSignaling_s ==
  /\ Takes(Signaling, "requestsignaling")
  /\ queue' = Posted(Taken(Signaling), worker, <<Msg("signalingready")>>)
  /\ Used
  /\ UNCHANGED <<channels, chan, fresh, requested, messages, writable, resets, session>>

OnChannelMessage_s ==
  /\ Takes(Signaling, "channelmessage")
  /\ sent' = sent \cup {[of |-> messages[i], to |-> target] : i \in DOMAIN messages}
  /\ messages' = <<>>
  /\ queue' = Taken(Signaling)
  /\ Used
  /\ UNCHANGED <<channels, chan, fresh, requested, writable, resets, timer, partner>>

-----------------------------------------------------------------------------

Session ==
  /\ UNCHANGED worker
  /\ \/ \E c \in Channel : CreateChannel(c) \/ DestroyChannel(c) \/ ForwardChannelMessage(c)
     \/ Initiate \/ SetTransport \/ Redirect
     \/ DestroyAllChannels \/ Destroyed

OnWorker ==
  /\ UNCHANGED worker
  /\ \/ ConnectChannels_w \/ ResetChannels_w \/ ForwardChannelMessage_w \/ OnSignalingReady_w

OnSignaling ==
  /\ UNCHANGED worker
  /\ \/ OnConnecting_s \/ OnChannelWritableState_s \/ OnChannelRequestSignaling_s
     \/ OnChannelMessage_s

OnChannel ==
  /\ UNCHANGED worker
  /\ \E c \in Channel : OnAllocate(c) \/ OnChannelMessage(c) \/ OnChannelWritableState(c)

Next == Session \/ OnWorker \/ OnSignaling \/ OnChannel

Spec == Init /\ [][Next]_vars

\* Both message pumps run: WF of OnWorker and of OnSignaling, with the guard
\* that makes them possible in few words.
Due(t, ids) ==
  queue[t] # <<>> /\ Head(queue[t]).id \in ids /\ (phase = "dying" => t # Signaling)

FairSpec ==
  /\ Spec
  /\ []<>~Due(worker, {"connect", "reset", "forward", "signalingready"})
     \/ []<><<OnWorker>>_vars
  /\ []<>~Due(Signaling, {"connecting", "writestate", "requestsignaling", "channelmessage"})
     \/ []<><<OnSignaling>>_vars

-----------------------------------------------------------------------------
(* Properties.                                                               *)

TypeOK ==
  /\ worker \in Workers
  /\ channels \subseteq Channel /\ fresh \subseteq Channel
  /\ chan \in [Channel -> ChannelRecord]
  /\ requested \in BOOLEAN /\ writable \in BOOLEAN /\ timer \in BOOLEAN
  /\ messages \in Seq(Epoch)
  /\ queue \in [Thread -> Seq(Message)]
  /\ target \in Epoch /\ initiated \in BOOLEAN /\ chosen \in 0..target
  /\ resets \in 0..MaxRedirects
  /\ sent \subseteq [of : Epoch, to : Epoch]
  /\ phase \in {"alive", "dying", "gone"} /\ misused \in BOOLEAN

Waiting(t, id) == \E i \in DOMAIN queue[t] : queue[t][i].id = id

\* A channel is told to connect at most once between resets, although it may
\* be created before, after, or between the requests that overtake each other
\* (transport.cc:100-107, 156).
ConnectsOnce == \A c \in channels : chan[c].connected <= 1

\* and a channel that exists while connecting is requested has been told.
ConnectsAll == \A c \in channels : requested => chan[c].connected >= 1

\* The peers whose candidates may still be held: the one the session talks to
\* and, of those before it, the ones since the transport was settled.
Heeded == (IF chosen = 0 THEN target ELSE chosen)..target

\* Candidates of a peer the session was redirected from before its transport was
\* settled do not survive the reset, whatever was in transit to the worker, nor
\* any redirect that follows (p2ptransportchannel.cc:229, session.cc:786).
RemoteIsCurrent ==
  ~Waiting(worker, "reset") => \A c \in channels : chan[c].heard \subseteq Heeded

\* transport.h:79-81: "These bits are the ORs of the corresponding bits on the
\* managed channels": once every change has been processed.
WritableIsOr ==
  phase = "alive" /\ ~Waiting(Signaling, "writestate") => writable = GetTransportState_s

\* session.h:246-248, "We use this to start a timer, to make sure that the
\* connection completes in a reasonable amount of time": when the two threads
\* have nothing left to do, a connecting transport that is not writable is timed.
Quiet == \A t \in Thread : queue[t] = <<>>
AttemptIsTimed ==
  phase = "alive" /\ Quiet /\ requested /\ channels # {} /\ ~GetTransportState_s => timer

\* A transport is not used once its destructor has begun, where one thread
\* plays both roles (transport.cc:72-74 clears that thread's queue).
NotUsedAfterDestruction == worker = Signaling => ~misused

\* transport.cc:205, "Clear out the old messages, they aren't relevant": no
\* candidate gathered for one peer goes to the next.
SentToItsPeer == chosen = 0 => \A s \in sent : s.of = s.to

\* session.cc:785, "Reset all of the sockets back into the initial state": after
\* any redirect only the new peer's candidates are held, once the worker is done.
ResetByRedirect ==
  ~Waiting(worker, "reset") => \A c \in channels : chan[c].heard \subseteq {target}

\* transport.cc:322, ASSERT(connect_requested_).
AnnouncedWhileRequested ==
  queue[Signaling] # <<>> /\ Head(queue[Signaling]).id = "channelmessage" => requested

\* Every channel that has been told to connect gets its signaling, and gathers.
GathersInTheEnd ==
  \A c \in Channel : c \in channels /\ chan[c].waiting ~> c \notin channels \/ ~chan[c].waiting
=============================================================================
