# A verification development for ginga-peer-to-peer

The repository holds `gingacc-p2p`, a component of the Ginga middleware that
sends files between two viewers, a copy of Google's `libjingle` on which it is
built, a test application (`p2p-test-app`) and a main program (`ginga-cpp`).
This directory holds TLA+ modules of the parts where the program's own logic
lives, TLC configurations that check them on small instances, and proofs that
TLAPS checks for every instance.

Contents: [the system](#the-system) · [hard behaviours](#what-is-hard-here) ·
[modules](#modules) · [runs](#what-each-run-checks) · [fairness](#fairness) ·
[proofs](#what-is-proved) ·
[where the code does not keep its word](#where-the-code-does-not-keep-its-word) ·
[not modelled](#what-is-not-modelled) · [plan](#plan) · [running it](#running-it)

## The system

From the bottom up. Paths are below `src/`; `talk/` is `libjingle/talk/`.

| Part | State it keeps | Operations | Correct when |
| --- | --- | --- | --- |
| **Message pump**: `talk/base/src/messagequeue.cc`, `thread.cc` | per thread: posted, delayed and sent messages, `fStop_`, `has_sends_`, the wake-up event of its socket server | `Post`, `PostDelayed`, `Send`, `ReceiveSends`, `Get`, `Dispatch`, `Clear`, `Stop`, `Join`, destructors | nobody sleeps on work; a `Send` is synchronous and returns; nothing reaches an object that was destroyed |
| **Socket servers**: `physicalsocketserver.cc`, `virtualsocketserver.cc` | dispatchers, events | `Wait`, `WakeUp`, I/O | a wake-up ends the wait |
| **Tasks**: `task.cc`, `taskrunner.cc` | per task: state, timeout, children | `Start`, `Step`, `Wake`, `Abort`, `RunTasks` | a task is stepped to its end, aborted once, deleted after |
| **XMPP**: `talk/xmpp/` | engine state, login step, table of pending iqs | login, stanza dispatch | replies go to the request they answer; login ends or fails |
| **Session signalling**: `talk/p2p/base/session.cc`, `sessionmanager.cc`, `p2p/client/sessionsendtask.h` | per session: `state_`, `error_`, `remote_name_`, `transport_`, what is posted; open requests | `Initiate`, `Accept`, `Reject`, `Redirect`, `Terminate`, one handler per stanza, failures of requests, the connection timer | both peers agree on what was accepted, and both end |
| **Transport**: `transport.cc`, `p2ptransport.cc` | channels, `connect_requested_`, held candidates, `writable_` | create, connect, reset, destroy, forward, announce | every channel is connected once, with candidates of the peer the session talks to now |
| **Channels and ports**: `p2ptransportchannel.cc`, `port.cc`, `stunport.cc`, `relayport.cc`, `tcpport.cc` | ports, connections with read and write states, the best connection | pings, sorting, pruning, timeouts | the channel uses a connection that works, if there is one |
| **STUN and relay**: `stunrequest.cc`, `relayserver.cc` | requests under way; bindings | send, resend, answer, time out | an answer is taken once |
| **Pseudo-TCP and tunnels**: `pseudotcp.cc`, `session/tunnel/` | windows, sequence numbers, timers | connect, send, receive, retransmit, close | bytes arrive in order, once, or the end is reported |
| **HTTP**: `httpbase.cc`, `httpclient.cc`, `httpserver.cc`, pools | a request and a response per connection | request, respond, stream | every request is answered once |
| **File transfer**: `talk/session/fileshare/fileshare.cc` | per side: state, item, bytes, connections, proxies, timer | share, accept, decline, cancel, download, serve, preview, close | a success is true and is shared |
| **Voice calls**: `talk/session/phone/` | calls, channels, media engine | not built into the component | |
| **gingacc-p2p**: `gingacc-p2p/src/P2PManager.cpp`, `FileShareClient.cpp`, `ChatTask.cpp` | `roster_`, `connected`, `manifest_`, `send_to_jid_`, `session_`, one pump and thread for each connection | `connect`, `disconnect`, `sendFiles`, `accept`, `reject`, `sendChatMessage`, presence | files go once, to the friend they are meant for |
| **Applications**: `p2p-test-app/`, `ginga-cpp/`, `talk/examples/` | screens, lists | draw, keys | |

How they interact:

* `P2PManager::connect` starts a thread that runs a message pump; everything of
  libjingle below it runs on that **signalling thread**. The application calls
  `sendFiles`, `accept` and the rest from **its own thread**; what they do is in
  part posted to the pump (`MSG_ACCEPT`, `MSG_DECLINE`, `MSG_STOP`) and in part
  done at once on fields that both threads use, without a lock.
* A file transfer is a client of one session. The offer is the description of
  its `initiate`; channels of the session become streams through pseudo-TCP;
  HTTP runs on the streams.
* A session sends stanzas through tasks of the XMPP client and is told of a
  stanza or of a request's failure by `SessionManager`. It holds transports,
  which live on the signalling thread and have channels on a **worker thread**;
  the two talk by messages. `gingacc-p2p` and `pcp` let one thread play both
  roles, `call` and `text` make two.
* `Thread::Send` runs a handler on another thread while the caller waits, and
  the caller serves sends to itself meanwhile.

## What is hard here

`PROJECT.json` lists each hazard at its line. In short:

* **Unlocked reads.** `fStop_`, `has_sends_` and the flag of a `Send` are read
  outside the lock; `connect_requested_` on two threads; `roster_`,
  `send_to_jid_`, `manifest_` and `session_` of gingacc-p2p on two threads.
* **Reentrance.** Handlers run inside `Send`, clients act inside `SignalState`,
  `SetState` closes a share whose session signals back into it.
* **Overtaking.** A channel is created by a `Send` that overtakes posted
  requests; candidates are announced by a message and fetched when it is taken.
* **Crossing.** Accept, reject, redirect and terminate cross; a completion
  crosses a cancel; an answer of the user crosses the withdrawal of the offer.
* **Loss.** Stanzas bounce, are lost or time out; a peer vanishes; pseudo-TCP
  announces no end of a stream.
* **Lifetime.** Threads, handlers, transports and transfers are deleted with
  messages to them under way.

## Modules

Each module models one component and is parameterised by constants whose
assumptions are named (`ThreadQueueAssumption`, ...). `map` in `PROJECT.json`
names the source lines of every definition. An action is one handler with
everything it calls; where another thread can interfere within it, it is cut
there, and only there.

| Modules | Component | Configurations |
| --- | --- | --- |
| `ThreadQueue`, `ThreadQueue_proofs` | message pump | `ThreadQueuePair`, `ThreadQueueLive` |
| `Tasks`, `XmppEngine`, `Xmpp` | tasks, the XMPP engine and its login, the client on its pump | `Xmpp` |
| `Session`, `Session_proofs` | session signalling | `SessionPair`, `SessionRedirect` |
| `Transport`, `Transport_proofs` | channels between two threads | `Transport` |
| `P2PChannel`, `P2PChannel_proofs` | candidate pairs of one channel | `P2PChannel` |
| `PseudoTcp`, `TcpChannel`, `ByteStream`, `TcpChannel_proofs` | pseudo-TCP, the channel around it, the stream it promises | `TcpStream`, `TcpLive` |
| `Relay`, `Relay_proofs` | relay port and relay servers, with STUN requests | `Relay` |
| `FileShare`, `FileShare_proofs` | file transfer | `FileShare` |
| `P2PManager`, `P2PManager_proofs` | gingacc-p2p | `P2PManager` |

### ThreadQueue

`MessageQueue`, `Thread` and the wake-up event of `PhysicalSocketServer`.

An *actor* is an operating-system thread: one that runs `Thread::Run` (in
`Thread`) or one that has no `Thread` object (in `Client`), for which `Send`
makes an `AutoThread`. `stack[a]` is what it is executing, innermost frame
first, because handlers run inside `Get`, inside `ReceiveSends` and inside
`Send`, to any depth. A step is what the code does between two points where
another actor can interfere: a region under `crit_` is one step, and every read
of `fStop_`, `has_sends_` and `ready` outside it is one of its own.

`Post`/`PostLocked`, `PostDelayed…`, `Send`, `SendLocked`, `SendWakeUp`,
`SendTest`, `SendWait`, `ReceiveSends`, `ReceiveSend`, `SendFinished`,
`SendReply`, `GetQueue`, `GetStopped`, `GetWait`, `Stop`, `StopWakeUp`, `Join`,
`Clear`, `DeleteThread` follow the code line by line. Time is the action
`Trigger`: the clock passes the trigger of the soonest delayed message.
What `Clear` leaves in `dmsgq_` keeps no order (it erases from the container of
a heap without restoring it), so `Purge` is nondeterministic about it.

Two rules of use are taken from the code's comments and are the only
restrictions on callers: a handler is destroyed only when nothing can still post
or send to it, and a thread is deleted by an actor that then uses it no more
(`MayUse`). A message object is posted or sent once. A third is not said by the
code, which relies on it: `DestroyHandler` asks that the handler's messages go to
the thread that destroys it (`Dest[m] = a`). `~MessageHandler` clears every queue
(messagequeue.h:69-71), but `Get` takes a message off its queue under the lock and
`Dispatch` runs it outside, so that a handler destroyed by another thread at that
moment is called all the same; `NoDispatchToDestroyed` is not about that case.

### Session

`Session`, `SessionManager` and `SessionSendTask`: one session between the peer
that initiates it, the peer it is offered to, and the peer that one may redirect
it to. `session[p]` is p's `Session` object with what it holds of its transport;
`net[p][q]` the stanzas the XMPP server has to deliver from p to q, in order;
`open[p]` the requests whose reply p waits for.

A step is a turn of p's signalling thread: `Receive` (all `On…Message`
handlers, with `SessionManager`'s search for the session and its error
answers), `OnMessage` (`MSG_STATE`, `MSG_ERROR`, `MSG_CONNECTING`),
`OnTimeout` (`MSG_TIMEOUT`), a call of the client, or a failure of a request.
The client may act inside `SignalState` (`InCallback`) or between turns
(`HangsUp`, `Answer`). The environment (`ServerBounces`, `ServerDrops`,
`SendTaskTimesOut`, `LinkFails`, `Crash`) is bounded by `MaxFaults` and chosen
by `FaultKinds`.

Left to other modules or abstracted: the worker thread answers at once (module
Transport has the interleavings); one channel; an acknowledgement closes the
sender's task without delay, since it changes nothing else; `info` messages
change no state of a session; the states `SENTMODIFY` and so on are never
entered by the code. `Channels` says of each peer when its client makes the channel:
with the session, by a later call, or never. No client in the repository reacts in `SignalError`.
`ASSERT` is compiled out, as in a release build.

### Transport

`Transport`: messages between the session on the signalling thread and the
channels on the worker, which may be the same thread: `worker` is one of
`Workers`, chosen in `Init` for good. Actions are the turns
`OnWorker` and `OnSignaling` (one disjunct per message id of
`Transport::OnMessage`), the session's calls (`CreateChannel` and
`DestroyChannel`, which are *sent* and so overtake; `Initiate`, `SetTransport`, `Redirect`, `Forward`, which post) and the channel's own
events. What `Redirect` posts depends on whether `SetTransport` has run: only a
potential transport is reset (session.cc:786), and there is none any more once the
transport was accepted or chosen (461). `chosen` says when that was. A
candidate carries the *epoch*, the number of redirects before it was gathered,
so that properties can tell which peer it belongs to. `MaxPosted` bounds how
many messages may wait when the environment causes another; handlers are never
bounded. The `readable` bit follows the same code as `writable` and is left out.

### P2PChannel

One `P2PTransportChannel`: its allocator sessions and ports, its connections
(pairs of a port and a candidate of the peer) with their read and write states,
pings in both directions, and what it posts to itself (`OnSort`, `OnPing`,
`OnAllocateMessage`, `OnDelete`). The operators on a *world* `[chan, conn, port]`
are the methods that call one another: `SortConnections` ages, sorts, prunes,
switches and updates the channel's state, and a connection that changes its
state asks for the next sort. `SetRead`/`SetWrite` end in `CheckTimeout`, which
posts the deletion that is never withdrawn. Time is `age`, the choice of what
`UpdateState` finds too old; `up` is the set of pairs whose packets arrive; an
answer comes on paths that are up before anything is too old (`Prompt`). Which of
two equal connections is quicker is a choice. A ping that is refused for good
(`Refused`) is `OnConnectionRequestErrorResponse`. A candidate comes with the
user name that the peer was told; one with an unknown name is left out.

### PseudoTcp, TcpChannel and ByteStream

`PseudoTcp` holds what each call of `pseudotcp.cc` makes of one control block:
`Send`, `Recv`, `Process` with acknowledgements, the window, duplicate
acknowledgements and fast recovery, gaps in the receive buffer, `Transmit` with
the fall-back to smaller packets, `NotifyClock` with retransmission, probes of a
closed window and giving up, `GetNextClock`. `writes` is how many packets with data the
channel takes in one call before a write fails (`WR_FAIL`), which makes `Transmit`
return false (`Goes`): `attemptSend` then leaves what is queued, and the other callers
close the connection. The receive buffer is modelled by
its contents, so that a byte at a wrong offset is seen (`Junk` is what nobody
wrote). Which timers have expired and how large the congestion window is are
choices. A loop of the code is a recursive function of how often its body was run.

`TcpChannel` joins two ends by a network that loses and reorders packets, and
adds `PseudoTcpChannel` with its three threads: the *worker* (`OnChannelRead`,
`OnClock`, `OnChannelConnectionChanged`, ...), the *stream's owner* (`Read`, `Write`, `Close`, events), and the
*signaling thread* (destruction). Every method holds `cs_` and is one step;
letting go of `cs_` after the destruction was posted is a step of its own. With
`OneThread` the three roles are one thread, as in gingacc-p2p.

`ByteStream` is the abstract specification: written bytes are read once and in
order. `StreamIsOrdered` says that `TcpChannel` implements it, under the mapping
`written <- written, got <- got`.

### Tasks, XmppEngine and Xmpp

`Tasks` is `TaskRunner` with its tasks: `Start`, `Step`, blocking, waking,
timeouts and `next_timeout_task_`, the abortion of children by a parent that
stops, and the deletion of what is done at the end of `RunTasks`. `XmppEngine` is
`XmppEngineImpl` and its login task: an entry point does everything until
`EnterExit` leaves it, writes what was put out, closes and tells of the state.
`Xmpp` runs both on the thread of `XmppPump`: `OnMessage` to `EndOfTurn` are one
`RunTasks`, one action for each state of each task; between two of them nothing
else happens on that thread, but the application may call from the callbacks the
task makes (`app.callback`). The server answers, refuses, pushes and closes.
`Polls` says whether somebody calls `PollTasks`, which in this repository nobody
does.

### Relay

`RelayPort` with its `RelayEntry` objects, an `AllocateRequest` of each (a
`StunRequest`: sent, sent again, timed out, answered), and the `RelayServer`
objects of its list. `port` is the port: an entry for each peer it sends payload
to, each with a socket, the index of the server it is at, `connected_`,
`locked_` and its requests. `relay[s]` is a server: its one binding with the
connections inward, in order, and outward, and whether the lifetime's timer saw a
use since it last fired. `net` holds the packets on their way, in no order. A
step is one packet or one message of a thread, with everything it calls:
`SendTo` makes, assigns and chooses entries as `RelayPort::SendTo` does;
`OnInternalPacket`, `OnExternalPacket` and `OnLifetimeTimer` are the server's;
`OnReadPacket`, `SendRequest`, `RequestTimesOut`, `OnSocketConnect` and
`OnSocketClose` the port's. Packets are lost on UDP; an answer may be late
(a timer fires while it is on its way); a server may go down for good, which over
TCP closes the socket; a server may forget, because it was restarted or because
the port's machine slept for longer than a lifetime. A binding that an awake port
keeps alive does not expire: the keep-alive comes every 10 minutes, the lifetime
is 15. A peer that has learnt of an address of the port may go on sending to it after
the port has gone: nobody tells it, and each packet is a use. `case`, chosen in `Init` among `Cases`, says which server comes first, who
takes part and what may fail. `astray` and `lockedAt` are histories.

### FileShare

`FileShareSession` on both sides of one transfer: `share["sender"]`,
`share["receiver"]`, the stanzas between them, the two channels (`private`, on
which the receiver fetches the items one after the other, and `proxy`, through
which a browser fetches), and the receiver's folder. Actions are the turns that
touch the state: the session's states (`OnSessionState`, reentered by the
`Close` that `SetState` makes), info messages, `NextDownload` and the HTTP
client's completion, the server's `OnHttpRequest` and `OnHttpRequestComplete`,
previews, the proxy's end and `MSG_PROXY_WAIT`, and the users' calls. Of
`Session` only what ends or moves a transfer is kept. `case`, chosen in `Init`
among `Cases`, says what users, browser and faults may do. Pseudo-TCP as this code
uses it sends neither FIN nor RST: a side whose peer has closed a stream is not
told. Sizes are the `Sizes` of the manifest (`SIZE_UNKNOWN` counts as 1); item
names are unique. Clients keep the contract of `fileshare.h`: accept and decline
an offer, cancel before completion. There is one browser connection, with one request:
no second proxy is opened while the first or `MSG_PROXY_WAIT` is there.

### P2PManager

`P2PManager` and `FileShareClient` between the application's thread and the
signalling thread. `disconnect` makes a new pump, thread and client and abandons
the old ones, so they are indexed by *epoch*. A call (`connect`, `disconnect`,
`sendFiles`, `accept`, `reject`) and a turn (`OnStatusUpdate`, `OnSignon`,
`OnMessage`, `OnFileShareStateChange`) are cut at every access to a field both
use. A transfer goes on and ends whether or not the link is open; only an accept
needs it. `app.host`, chosen in
`Init` among `Hosts` for good, says what application it is: with `overlap` false
its calls are made from the listener's callbacks on the signalling thread, so
that nothing overlaps; with `overlap` true they come from a thread of the
application, which is what `P2PTest.cpp` says of itself. Each friend has
one resource. The application is modelled on `P2PTest`: it answers an offer once
and leaves its screen when the transfer ends. The use of the freed `Thread`
object after `disconnect` is taken as the stop it is meant to be.

### Composition

Each module keeps of its neighbours what they promise it, and names it:
`Transport` and `FileShare` contain the part of `Session` they rest on,
`P2PManager` the end of a transfer as a change of its state. The promise
`Session` makes to `FileShare` (a session that began ends on both sides) is
`BothEnd`/`HalfOpenEnds`; the promise `FileShare` makes to `P2PManager` (a
transfer ends) is `TransferEnds`; the promise of the pump to all (a turn is
taken, one at a time) is `EveryPostIsTaken` and `SendIsSynchronous`. What
`Transport` takes from a channel (it gathers, becomes writable and fails) is
`P2PChannel`; what `FileShare` takes from a stream (bytes in order; a closed
stream is destroyed; an end that has gone is not announced) is `TcpChannel`; what
`Session` takes from the XMPP client (a request is answered, refused, or never
heard of again) is `Xmpp`. There nothing polls for timeouts, so the fault
`timeout` of `Session` is what a program that polls, or a late refusal, adds.

## What each run checks

All runs allow the system to stop (`CHECK_DEADLOCK FALSE`): sessions end,
threads are deleted, and the bounded environment runs out. That nothing waits
that should go on is stated by the liveness properties and by `NoLostWakeUp`.

| Run | Instance | Properties |
| --- | --- | --- |
| `queue_pair` | two threads, one client; three messages, two of them posted and two of them sent, to either thread; two handlers that may be destroyed; both threads may be stopped and deleted | `TypeOK`; `NoLostWakeUp`: no actor sleeps, or is about to, on a message, a send, a stop request or an answer; `SendIsSynchronous`; `NoDispatchToDestroyed` |
| `queue_live` | two threads that send to each other and post, also from handlers run inside a `Send` | `EverySendReturns`: no deadlock by mutual sends |
| `xmpp` | the client, the task that takes what is pushed, two tasks that ask; one stanza of the application, one pushed, one refusal or failure | `NothingDeletedIsUsed`; `DeadlineIsWatched`: of the deadlines that wait for a poll one is watched; `SentInOrder`: what is sent reaches the server in order, nothing before the login is over; `ClosedIsDeleted` and `AnswerIsReported` (liveness) |
| `session_pair` | two peers; the callee's channel is made with the session or later, the caller's with it or never; acceptance and rejection also inside the callback; the callee hangs up; one fault of five kinds; no redirect | `AcceptedByRemote`: who goes on to send data was accepted by the peer it talks to now; `RefusalIsFinal`: no terminate follows a refusal or a redirect; `NeverRevived`: a session that ended, or was not accepted, never gets in progress; `AttemptIsTimed`: a connection attempt is watched by the timer |
| `session_redirect` | the callee, which has no channel, may redirect to a third peer before or after its transport was accepted, or reject in the callback; caller and target have a channel; the caller hangs up; one peer may vanish | `BothEnd`: when the caller has gone all go; `HalfOpenEnds`: a session that connects and whose other end vanished is given up, but for a caller whose timer a redirect has stopped (`Untimed`) |
| `transport` | one thread or two, two channels of which one may be destroyed, one redirect before or after the transport is settled, the transport deleted at any time | `ConnectsAll`: whatever overtakes what, a channel is told to connect; `RemoteIsCurrent`: candidates of a peer that was left before the transport was settled do not survive; `GathersInTheEnd`: a channel that waits for signaling gathers |
| `p2p` | two ports of one network, of which the second is preferred, one candidate, in any order; a path that fails, or a ping of the preferred pair that is refused; time-outs; a reset | `NothingDangles`: no list keeps what was deleted; `EveryPairTried`; `NeverGivesUp`: a channel that is not writable asks for new ports; `NeverStranded`: sorting and pruning leave a path; `WritableInTheEnd`: no connection starves for pings |
| `tcp_stream` | three bytes one way, a receive buffer of two, two packets under way that are lost or reordered, a call whose writes fail (`Writes = {0, 9}`: none or all go), fast recovery at two duplicates, the writer may close early | `StreamIsOrdered`: refinement of `ByteStream`; `ClockIsSet`: a live connection has its clock set; `FlushedOnClose` |
| `tcp_live` | two bytes, one packet, a receive buffer of two (the window closes), segments of two cut to a path that carries one, a call whose writes fail, an end whose session may end by itself | `EverythingArrives`: what is written is read unless the connection is given up or a failed write has stalled it (`Stalled`); `ClosedIsDestroyed`: a channel whose stream is closed is destroyed, or stalled so |
| `fileshare` | two items, in three cases: decline and cancel at any time, one fault of session or stream and any number of the disk; cancel and a lost stanza; or a browser's preview and a fault of a stream | `NoAssert`: completion is entered once, closed once; `SuccessIsShared`: what the receiver counts as success the sender does too; `PreviewsSurvive`: a completed transfer stays while a proxy is open; `TransferEnds`: both sides end and destroy their sessions, if no stanza is lost |
| `relay` | in two cases: two peers on one server without faults, every interleaving of their data, keep-alives and locks; or one peer, a TCP and then a UDP server, and two faults of four kinds | `RightPeer`: data that goes unwrapped is taken for nobody else's; `LockIsMutual`: port and server agree on what they locked; `Reconnects`: an entry comes to a server that is there; `BindingIsReclaimed`: after its port a binding disappears unless its peers go on sending |
| `manager` | two friends; an application that calls from callbacks (two calls of `sendFiles`, three changes of presence), or one with its own thread (one call, one offer of a friend, two changes; or two calls that may overlap, and one change) | `OfferedOnce` (from callbacks); `RightAddressee`: files go to the friend of their call, and of overlapping calls at least to one that this call or an earlier one named; `SentIsOffered` (liveness, from callbacks) |

**The bounds and why they are enough.** The pump's properties are about a pair
of actors and a message between them, a third actor that stops or destroys, and
one more message in the queue: two threads, a client and three messages give
every combination, nested sends included, and its safety properties are proved
for every instance. Session: a session has two ends, redirection adds a third,
and a redirect from there would repeat the second's code; each handler is entered
in each state with each fault of a request, a stanza, the link or a peer.
Transport: one redirect gives two epochs, the least that can be confused; two
channels the least that can be created on different sides of a request; the redirect
comes before, between or after the calls of `SetTransport`; two
messages in a queue the least that can be overtaken (`MaxPosted` is one, and one
more may be posted behind it). FileShare: the second item is
the first that is "next" and the last that is last. P2PManager: two friends can
be confused, two calls can overwrite each other, from the callbacks and beside them
(`Callbacks`, `Repeats`), and a friend who comes and goes takes two changes. P2PChannel: a second pair is the first that can be pruned,
and the preferred one must be the one that may fail. TcpChannel: three bytes
through two are the least with a window that closes, two packets the least that
can be reordered; `SeqSpace` is larger than what is sent, so sequence numbers do
not wrap. A write fails at the first packet of a call or not at all: a failure
later in the call leaves what a smaller congestion window does (the theorems are about
any `Writes`). Relay: data can only be confused between two peers, and with them two
entries; the second server is the first to be moved to; an allocate is sent three
times instead of five, one more than there are faults; one data packet is on its
way at a time, beside the allocates and their answers. Xmpp: two requests have two deadlines, and one stanza of the
application may come before, during and after the login. Where a run needs a
smaller instance for liveness the same component has a larger one for safety.

Also found to hold, with the properties of the configuration replaced by the one
named (the runs above keep to the properties that say most):
`EveryPostIsTaken` (`ThreadQueueLive`), `DeletedHoldsNothing` and `SettledOnce`
(`ThreadQueuePair`), `NoCrash` (`SessionPair`), `CandidatesMeet` (`SessionPair`,
`FaultKinds = {"crash", "link"}`), `ConnectsOnce`
(`Transport`), `WritableIsOr` (`Transport`, `Destroyable = {}`) and `AttemptIsTimed` (the
same with `MaxRedirects = 0`), `NotUsedAfterDestruction` (`Transport`), `WritableFollows`
(`P2PChannel`), `NoOverrun` (`TcpStream`), `QuietWhenDestroyed` (`TcpLive`),
`ReceiverHasAll` and `AskedForAll` (`FileShare`, also with two faults in its first
case, as do the other invariants of that run), `RightPeer` and `LockIsMutual` with
two peers, one server and a fault of any kind (`Relay`, one more case), `NothingWaits` (`P2PManager`, `Hosts <- CallbacksOnly`),
`RosterFollows` (`P2PManager`), `StatesForward` (`Xmpp`), and the `TypeOK` of
every module.

Every property has a mutant in `PROJECT.json`: a change of the model that a
plausible bug would make (a dropped wake-up, a test made once, a missing reset)
and that violates it under the run's own configuration.

## Fairness

* `ThreadQueue`: weak fairness of every actor's steps (the operating system
  schedules threads, handlers return), of `Trigger` (time passes), and of the
  join of a thread that was stopped. Calls by the application have none.
* `Session`: stanzas that are not lost are delivered; the pump takes what is
  posted; timers fire; and the checks of a connection whose other end is silent
  fail in the end (`LosesRemote`; `port.cc` times out connections). The condition is one
  on the disjunction of these (`Pump`), over all peers: as long as any has something of it
  to do, something is done. That is weaker than a fair pump for each peer, and so what
  holds under it holds under that. Users and faults have none.
* `Transport`: both pumps run.
* `P2PChannel`: the thread sorts and pings when it has to, and a ping on a path
  that is up is answered. Nothing makes the signaling allocate ports.
* `TcpChannel`: each of the three threads runs while it has something to do, and
  a packet is not lost for ever.
* `Xmpp`: the thread takes its messages, goes on with its turn and reads its
  socket. The server, the application and the clock owe nothing.
* `Relay`: an allocate and its answer, if not lost, arrive; a request's timer fires
  when nothing of it is on its way; sockets connect or close; the lifetime's timer
  fires; a server takes what peers send to it. Data is owed to nobody, and peers may go
  on sending or stop.
* `FileShare`: one weak fairness condition on the disjunction of everything that
  happens by itself. It is as good as one for each, because no behaviour repeats
  a state (TLC finds `<>[][FALSE]_vars` of the run's cases without fairness): a
  machine that always can do something and always does runs out of other things.
  For the same reason it is written `[]<>~ENABLED <<Machine>>_vars`: no behaviour
  takes `Machine` for ever.
* `P2PManager`: a call that has begun goes on; a thread takes what it has to do.

Where an action changes many fields, weak fairness is written
`[]<>~guard \/ []<><<A>>_vars`, with a guard that says in few words when `A` can
change something: it is the definition of `WF_vars(A)` with `ENABLED` spelled out.

The pump's promise that justifies the pumps' fairness elsewhere is itself
checked (`EveryPostIsTaken`) and rests on `NoLostWakeUp`, which is proved.

## What is proved

Eight modules hold proofs, each about the component it extends, for every value of
its constants. A module assumes what the component assumes
(`ThreadQueueAssumption`, `TransportAssumption`, ...) and nothing else, unless
the table says so. A property in bold is one that a run checks on a small
instance.

| Module | Theorem | States | Assuming |
| --- | --- | --- | --- |
| `ThreadQueue_proofs` | `TypeCorrect` | **`TypeOK`** | |
| | `NoWakeUpIsLost` | **`NoLostWakeUp`** | |
| | `SendsAreSynchronous` | **`SendIsSynchronous`** | |
| | `DestroyedGetsNothing` | **`NoDispatchToDestroyed`**, of a step | |
| `Transport_proofs` | `EveryChannelConnects` | **`ConnectsAll`** | |
| | `NoStaleCandidates` | **`RemoteIsCurrent`** | |
| | `NoChannelConnectsTwice` | `ConnectsOnce` | |
| | `NothingRunsAfterDestruction` | `NotUsedAfterDestruction` | (about one thread) |
| `TcpChannel_proofs` | `ClockIsAlwaysSet` | **`ClockIsSet`** | |
| | `DestroyedIsQuiet` | `QuietWhenDestroyed` | `OneThread` |
| | `StreamInvariant` | `StreamInv` | `NothingWraps` |
| | `StreamOrdered` | **`StreamIsOrdered`**, the refinement of `ByteStream` | `NothingWraps` |
| | `ClosedIsFlushed` | **`FlushedOnClose`** | `NothingWraps` |
| | `NothingOverruns` | `NoOverrun` | `NothingWraps` |
| `Session_proofs` | `InitiatorGoesOnWithWhoAccepted` | **`AcceptedByRemote`** | |
| | `RefusalsAreFinal` | **`RefusalIsFinal`** | |
| | `EndedIsEndedForGood` | **`NeverRevived`**, of a step | |
| | `AttemptsAreWatched` | `TimedInv` | |
| | `AttemptsAreTimed` | **`AttemptIsTimed`** | nobody redirects |
| `P2PManager_proofs` | `FilesAreOfferedOnce` | **`OfferedOnce`** | |
| | `FilesGoToTheirAddressee` | **`RightAddressee`** | |
| `P2PChannel_proofs` | `NothingIsLeftDangling` | **`NothingDangles`** | |
| | `PairsAreAllTried` | **`EveryPairTried`** | |
| | `AllocationGoesOn` | **`NeverGivesUp`** | |
| | `LastOneIsSpared` | **`NeverStranded`**, of a step | |
| | `WritabilityFollows` | `WritableFollows` | |
| `FileShare_proofs` | `ShareInvariant` | `ShareInv` | |
| | `NoAssertFails` | **`NoAssert`** | browsers ask for previews only |
| | `PreviewsAreKept` | **`PreviewsSurvive`** | |
| | `AccountInvariant` | `AccountInv` | |
| | `CompleteHasAll` | `ReceiverHasAll` | |
| | `SuccessReachesSender` | **`SuccessIsShared`** | browsers ask for previews only |
| | `CompleteWasAsked` | `AskedForAll` | the same, and no item is empty |
| `Relay_proofs` | `RelayInvariant` | `RelayInv` | |
| | `PacketsFindTheirPeer` | **`RightPeer`** | |
| | `LocksAreMutual` | **`LockIsMutual`** | |

The assumptions are what the code needs, and the runs' constants satisfy
them: `QuietWhenDestroyed` fails with three threads, `AttemptIsTimed` when a session is redirected after its
transport was accepted, and `NoAssert`, `SuccessIsShared` and `AskedForAll` when a
browser asks for an original while the receiver does (see the next section).
`AskedForAll` needs that no item is empty: of an empty last item the sender has
counted all bytes before it is asked for. `NothingWraps` says that no end writes as
many bytes as there are sequence numbers, 2^32 - 1 in the code, and the code does
need it: `process` compares numbers as they are (`seg.seq < m_rcv_nxt`, pseudotcp.cc:804;
`it->seq <= m_rcv_nxt`, 841; `seg.ack > m_snd_una`, 652), and nothing tells a packet
of the round before from one of this. With `SeqSpace = 7` and nine bytes to write TLC
finds `StreamIsOrdered` violated: a repetition of the first byte is read as the
eighth. Sizes of buffers, segments, windows and of what the path carries, the limits
of retransmission, and the number of packets under way are any that
`PseudoTcpAssumption` and `TcpChannelAssumption` allow.

**ThreadQueue.** `NoLostWakeUp` is not inductive. It says that an actor that
waits, or is past its last look at a queue, and has work, has its event signalled
or about to be. The inductive invariant is

    WakeInv == TypeOK /\ Stacked /\ SentOnce /\ SendsSeen /\ OwnDelayed
               /\ Answered /\ NoLostWakeUp

and each part is needed by the others:

* `Stacked`: what can lie on what in a call stack. A wake-up that is still to
  come is a frame, so the proof must know where frames can be; and a client
  never pumps.
* `SentOnce`: a message has one sender, who is the actor inside `Send` for it.
  Otherwise an answer could wake somebody else.
* `SendsSeen`: `has_sends_` is set while `sendlist_` is not empty; it is read
  without the lock (thread.cc:274), so that it may be set late is what could lose
  a send.
* `OwnDelayed`: a delayed message is of the thread whose queue holds it, so the
  clock wakes the right one; and the thread being cleared has ended.
* `Answered`: a `Send` that waits further down the stack consumes wake-ups meant
  for those above it. It issues one more when it returns (thread.cc:266), and this
  is why that line exists; without it the invariant is not preserved.

`LifeInv` adds what `SendIsSynchronous` and `NoDispatchToDestroyed` need: where a
message is and what its `fate` is there: a send that is queued is pending and
queued once (`SendsQueued`), a posted message is not sent (`PostsUnsent`), a send is
marked finished when its own handler has returned (`FinishFollowsRun`), and a
thread holds only its own messages, each of a handler that exists
(`HandlersExist`), those an actor is about to push included.

The layout: lemmas on sequences and stacks first (`Pushed`, `Replaced`,
`Popped`, `WithoutType`, `PurgeType`, `StackTyped`, ...); `KeepsType` with one
step for each action; `KeepsStacked`; `SentOnceKept`; `ActorStep` and
`QuietStep`, which say what a step of one actor can disturb in the clauses about
the others; then `ClearKeeps`, `StepKeeps`, `PumpKeeps`, `TriggerKeeps` and
`ApplicationKeeps`, joined in `KeepsWakeInv`; the same again for `LifeInv`. The
temporal step is `PTL`.

**Transport.** `TransportInv` relates the two queues, the flag
`connect_requested_` that both threads read, and what each channel was told:
`QueuesFit` (a redirect posts at most one reset, each is done once, and candidates that no
reset follows in the worker's queue are of the present peer or, once the transport is
settled, of those since then: `Heeded`) and `Told` (a channel
has been told to connect once if connecting is requested now, else not at all). The number of resets is the cardinality of a set
of places in a queue, which gives the bound on epochs.

**TcpChannel.** Two invariants. `ChannelInv` never looks into the control block: each
end's channel, and what is posted to it, are related whatever `PseudoTcp` returns.
`Watched` is the clock; `Needed` says who still needs the channel, so that the
last of the three posts its destruction, and nobody is left who could use it.

`StreamInv` is the protocol itself, and `StreamIsOrdered` is far from inductive: that what
is read is right depends on every byte in the receive buffer, this on every packet
under way, this on what the sender cuts its buffer into, and this on which
acknowledgements may still come. For each end, and its peer, it says (`Linked`):

* `Snd`: what is acknowledged the peer has, and what is transmitted, or the peer's
  last window allows, the peer has room for (`Edge`). `Sending`: `m_sbuf` holds the
  bytes from `m_snd_una` on, and `Chain`: the segments of `m_slist` cover them
  without gap or overlap, those below `m_snd_nxt` were transmitted.
* `Rcv` and `Kept`: what was read and what is in `m_rbuf` follow each other up to
  `m_rcv_nxt`, and of each range in `m_rlist` every byte is in its place behind them.
* `Out`: a packet under way carries the sender's own bytes and acknowledges no more
  than it has, and promises no window beyond what it has room for.
* `Bound`: wherever something received or acknowledged ends, a segment of the sender
  ends, or it is acknowledged already. `Acked` takes bytes off a segment
  and leaves its `seq` alone (pseudotcp.cc:686-698), so that a segment acknowledged in
  part would be repeated from a wrong place: what keeps the code from it is this,
  together with `NoOverrun`, for then no arrival is cut at its end. The receiver
  may cut what arrives at its front, and the sender split or lengthen a segment
  (`ChainSplit`, `ChainLonger`) or repeat it larger than before, and none of that makes a
  segment end elsewhere than where one ended already.

A call of `PseudoTcp` passes a control block through up to six operators that
call one another (`Process`, `OnAck`, `Transmit`, `OnData`, `AttemptSend`, `Receive`).
`Fine` is said of what any of them leaves: it is all of the above of one end against the other's
block, which did not move, and `Later` is what the other end may rely on: numbers
and the right edge of the window never go back, and where a segment ended one
still ends. There is one lemma for each operator; `StepKeeps` then says that any call
that is `Fine` keeps the invariant of both ends (`Steps`), once for all
actions. `Role` and `Unbegun` say who opens the connection: the end that did not
call `Connect` has nothing to say before it hears of it. The loops of
`process` and `attemptSend` are recursive functions over how often the body was
run: that there is such a function (`LoopExists`) and that what a turn keeps is kept
to the end (`LoopKeeps`) follow from the least turn that would not, without an
induction over operators. The refinement follows: a step of `TcpChannel` leaves `written` and `got` alone,
or makes one of them longer as `ByteStream` does, and what `Read` copies out of `m_rbuf` is, by `Kept`,
what comes next.

**Session.** What a turn makes of a session, its queue and its open requests is an
*entry*, and the operators of `Session` map entries to entries; one lemma for
each says what it leaves alone (`Chat`, `Kept`) or what it may say (`CalleeTurn`).
`SessionInv` relates a peer's state to what it has under way (`CallerOk`,
`CalleeOk`: an answer is said once, and a refusal is the last word) and the peers to
each other: whoever has an offer, or has answered one, is the peer the initiator
talks to now (`CalleeInv`, `Current`), and when the initiator has gone on so has
that peer (`CallerInv`, `WentOn`). The parts are not inductive without each other,
nor without the order of the stanzas in each queue (`Ordered`). `DeadInv` says that
nothing is posted to a session that is no more. `TimedInv` is `AttemptIsTimed` from
the moment the transport is asked to connect, with the posted message that starts
the timer.

**P2PManager.** `ManagerInv` says what `send_to_jid_` and `manifest_` are to each
other between any two accesses of the call and of the signalling thread's turn:
`InCallbacks` by the place either is at, when they never overlap; when they do, the
fields may belong to different calls, and what is left is `NamedBefore`: who waits in
`send_to_jid_`, or is about to be offered the manifest, was named by the call that made
the manifest or by one before it. Most steps only clear fields, and lemma `NamedStays`
serves them. `Structure` says how the connections
follow each other. The type invariant is stated for any number of logins; the
bound it gave the list of transfers was too low for a second login, which the
proof showed and TLC confirmed with `MaxLogins = 2`, and `TypeOK` no longer has it.

**P2PChannel.** A step makes one *world* of the channel, its connections and its
ports of another, through up to six operators that call one another. `Good` is
said of any world, and each operator is shown to keep it or, in the middle of
`SortConnections`, to keep the part of it that it should and to restore the rest
(`Sound`, `Sane`, `BestHeld`, `Follows`). `LastOneIsSpared` needs that the best connection can be written
on if any can (`BestIsFound`, from there being a best one among finitely many),
that it is not among those that are pruned (`BestIsSpared`), and that what is too
old is not what still answers on a path that is up (`UpIsYoung`).

**FileShare.** A turn of a peer makes one entry of another, through functions that
call one another: `SetState` closes the share, closing ends the session, and the
session's state comes back to `OnSessionState`. There is one lemma for each, and it says
two things. What is right of the entry stays right (`Good`, of which `Loose` and
`Settled` hold in the midst of a turn): a share that is closed has completed, one
whose session is gone is closed, who fetches has not completed, and a completed
receiver with a proxy is not closed. And what the other peer may rely on
(`Moved`, `Justly`): what is over stays over, nothing but the first stanza is an
offer, a peer says it has ended when it has, and it ends for a reason.
`ShareInv` says `Good` of both peers and relates them by the stanzas on their way:
`NoAssert` needs that an offer comes to a session that has just begun, or the share
would be entered twice; `PreviewsSurvive` needs `Reason`, that a session only ends when
one of the two had an error or was given up by its user, or the receiver has
closed it, which it does not while a proxy is open. `OneOriginal` relates the sender's counter, what
it serves, and the phase of the channel.

What was transferred needs a second invariant, `AccountInv`, on top of `ShareInv`. It
has two parts. `Has`, of the receiver's entry alone, says that the items it has counted
are whole in their places, that the request it waits for is the next one's, that it
completes with the last, and that it only says "complete" or "reject" on the wire
when it has come to that. This part holds whatever the browser fetches, and gives
`ReceiverHasAll`. `Counts` relates the sender's `bytes` to the receiver's `item`, by the
phase of the private channel between them: the bytes of the items counted while a
request is on its way or being served, one item more from the moment the last byte is
written, and no other value, even after an end of the stream that the other
side is not told of. With the sum of all items that gives `AskedForAll`. For `SuccessIsShared`
`Counts` also says that a sender that failed unblamed was told so by a
receiver that had failed: what makes the lost QN_SHARE_COMPLETE harmless is
that, when the terminate arrives, all bytes are already counted, which is the
fallback's argument (fileshare.cc:476-480). Most turns are *calm* (`Calm`: nothing is
counted, nothing said) or *loyal* (`Loyal`: no news of the end), and both are
transitive, so that only the handlers that count need the account itself.
`SizeOf`, the size of the first items, is a recursive function; that it is well
defined, and that it grows, follows from the least counterexample (`LeastOf`) and needs no
induction over an operator.

**Relay.** Whether a packet has a wrapper is decided at either end by what each
has kept, and nothing tells one end what the other lost. `RelayInv` says that all who *know* of an
entry's peer know of the same (`Agreed`): an unwrapped packet on its way, a request to
lock or its answer, a server's locked connection, also at a server the entry has left,
or after the port has gone. While the port is open that peer is the entry's address, which
`SendTo` sets once. So it does not matter that `locked_` survives a change of
server (see `LockedMeansLocked` below). `StillHeld` is `LockIsMutual` for the answer that is on
its way, too. One lemma about a handler of a server (`DoesKeeps`), one about a
change to an entry (`EntryKeeps`), one about the loss of a binding (`LostKeeps`) and
one about a step that only takes packets away (`LessNet`) cover most actions. The run has two peers without faults or
one with; the theorems are about both at once, and about any list of servers.

**Only model-checked.** All liveness, which with `ENABLED` is out of TLAPS's reach.
Everything about `Tasks` and `Xmpp` (`NothingDeletedIsUsed`, `DeadlineIsWatched`,
`SentInOrder`): the operators there are folds and selections of the library
(`FoldLeft`, `SelectSeq`), and a fact about these for every sequence needs an
induction theorem with an operator as a parameter. The loops of `PseudoTcp` show
the way around it, recursive functions, which is left to do for `Xmpp`. `AttemptIsTimed` with
redirections, `QuietWhenDestroyed` outside its assumption and `RightAddressee` without
the clause about overlapping calls are false, not unproved.

## Where the code does not keep its word

Found while modelling: comments, declarations and assertions the code does not
satisfy. They are stated as properties at the end of their modules and no run
repeats them; to see the counterexample replace the properties of the
configuration by the one named, after the change (`Spec` for `FairSpec` makes it
quick).

| Property | Configuration and change | What the code says, and what it does |
| --- | --- | --- |
| `StopDeliversPending` | `ThreadQueuePair` | messagequeue.h:157-159: pending sends and ready posts "will be delivered before Get (or Peek) returns false". `Get` reads `fStop_` (204) after it has released the lock; what is pushed in between stays. |
| `SenderOutlivesReply` | `ThreadQueuePair` | thread.cc:278-279: "Send must complete". `ready` is set (289) before the sender is woken (290); it may have returned and its `AutoThread` be gone. |
| `ArrivesInState` | `SessionPair` | session.cc:938, `ASSERT(state_ == state)`: fails when an answer crosses a terminate. |
| `ChosenWhileOffered` | `SessionPair`, `InCallback = {"terminate"}` | session.cc:377, `ASSERT(state_ == STATE_RECEIVEDINITIATE)`: a client that terminates inside `SignalState` still gets a transport chosen. |
| `InProgressHasTransport` | `SessionPair` | session.cc:1007, `ASSERT(transport_ != NULL)`: an accept needs no transport-accept to have arrived; when that one is lost the session is in progress without a transport. |
| `NoCrash` | `SessionRedirect`, `FaultKinds = {"drop"}` or `{"bounce"}` | session.cc:934: candidates that arrive after the accept, when the transport-accept was lost, are forwarded to a NULL `transport_`. |
| `RedirectRestartsTimer` | `SessionRedirect` | session.cc:781-782: "We will start the connection timer from scratch when SignalConnecting fires". It does not fire for a transport that was already accepted. |
| `EveryHalfOpenEnds` | `SessionRedirect` (its `FairSpec`) | session.cc:528-532: "If it does not, we terminate since we can't actually send data". The caller of the row before, whose new peer vanishes, keeps its session for ever; `HalfOpenEnds` excepts it. |
| `ResetByRedirect` | `Transport` | session.cc:785: "Reset all of the sockets back into the initial state". The loop (786-790) is over `potential_transports_`, which `SetTransport` has emptied (461): after a transport-accept nothing is reset, and the candidates of the peer that was left are kept beside the new one's. |
| `WritableIsOr`, `AttemptIsTimed` | `Transport` | transport.h:79-81: the bits "are the ORs of the corresponding bits on the managed channels". Destroying a channel recomputes neither, and the next channel is not timed. |
| `SentToItsPeer` (before the transport is settled) | `Transport` | transport.cc:205: "Clear out the old messages, they aren't relevant". A candidate whose announcement is queued when the session redirects goes to the new peer. |
| `AnnouncedWhileRequested` | `Transport` | transport.cc:322, `ASSERT(connect_requested_)`: a reset on the worker overtakes an announcement. Holds with `Workers = {s}`. |
| `~misused` | `Transport` | transport.cc:72-74 clears the messages of both threads in the destructor: a worker that has already taken one goes on with a deleted transport. Holds with `Workers = {s}`, which is what `NotUsedAfterDestruction` says. |
| `QuietWhenDestroyed` | `TcpLive`, `OneThread = FALSE` | pseudotcpchannel.cc:446, "The message queue is empty, so it is safe to destroy ourselves." `CheckDestroy` posts the destruction (504) while its caller still holds `cs_`. |
| `EvenStalledArrives`, `EvenStalledIsDestroyed` | `TcpLive` (its `FairSpec`) | pseudotcp.cc:1031-1034: "transmit failed", "TODO: consider closing socket". A write that fails (pseudotcpchannel.cc:469-473) with nothing under way leaves queued data and no timer: what was written stays where it is until the application writes again, and a channel that is closed then is never destroyed. |
| `OnlySilentIsGivenUp` | `TcpStream` | pseudotcp.cc:328-332: an end is given up when nothing was heard of it for fifteen seconds at the moment of a probe; once probes are fifteen seconds apart this is so although it has answered each. |
| `PrunedStaysDown` | `P2PChannel` | port.cc:807-809, "if we don't really want it, we can always prune it again": `Prune` does nothing to a connection that was pruned before. |
| `DeletedWhenDead` | `P2PChannel` | port.cc:835-838 deletes a connection that "can contribute no more to p2p socket"; the message is not withdrawn when a ping or an answer comes before it. |
| `StopsAllocating` | `P2PChannel`, `Sessions = 2` | p2ptransportchannel.cc:652, "Stop further allocations": a session the signaling was already asked for starts all the same. |
| `SocketClosedFirst` | `Xmpp` | xmppclient.cc:62, "the two main objects": `engine_` is destroyed before `socket_`, whose `Close` calls `OnSocketClosed` and so the engine (355-359). An application that disconnects before the socket is connected leaves a socket that the engine never closed. |
| `EverySendReports` | `Xmpp`, `Polls = FALSE` | sessionsendtask.h:42-43: no response "will signal failure". Nobody calls `PollTasks`; a task whose stream is closed, or that starts before the stream is open, ends without a word. |
| `NoAssert` | `FileShare`, `Cases <- OriginalCase` | fileshare.cc:721: "We should never have more than one original request pending at a time". The browser and the receiver both ask. |
| `SuccessIsShared` | `FileShare`, `Cases <- OriginalCase` with one fault `"loss"` | fileshare.cc:476-480: the sender's count tells it of a success "as a fallback". The browser's request for an original takes the one counter (726) from the receiver's, whose item is then not counted: without QN_SHARE_COMPLETE the sender reports a cancel for a transfer that succeeded. |
| `AskedForAll` | `FileShare`, `Cases <- OriginalCase` with the user `"cancel"` | fileshare.cc:476, "the receiver downloaded the correct number of bytes": bytes of originals the browser has fetched are counted as the receiver's, so that a cancelled transfer is reported as complete. |
| `RespondsOnce` | `FileShare` | httpserver.cc:152, `ASSERT(current_ == NULL)`. FileShareClient.cpp:450 calls resampling asynchronous, and answers before it returns: the request is responded to more than once. |
| `LockedMeansLocked` | `Relay` | relayport.cc:398-399: "If this connection is locked to the address given, then we can send the packet with no wrapper." `HandleConnectFailure` (458-470) leaves `locked_` set, and nothing resets it when the server has lost its binding: after a new allocate the server's connection is not locked, it drops what comes unwrapped (relayserver.cc:166), and the entry never wraps again. |
| `GoesWithThePort` | `Relay` | relayserver.cc:661-664: a binding is destroyed when nothing has used it for a lifetime. Packets of its peers are uses (507-509, 550-552), also when the port has gone and nobody takes what is forwarded: peers that do not stop keep it for ever. |
| `CompleteMeansDownloaded` | `FileShare` | fileshare.cc:476: "the receiver downloaded the correct number of bytes". The count is of bytes written, not received. |
| `OnlyWholeItems` | `FileShare` | fileshare.cc:583-597: a failed download is moved to its place; the deletion meant for it looks elsewhere. |
| `RemoteCancelIsRemote` | `FileShare` | fileshare.h:66, "Remote side cancelled": also reported after an error of its own session. |
| `OfferedOnce` without its guard | `P2PManager` | FileShareClient.cpp:141-142: the manifest is deleted after it was sent. Call and presence both test and clear `send_to_jid_`, so both may offer it and it is deleted twice. |
| `NothingWaits` | `P2PManager`, `Hosts <- ThreadsOnly` | FileShareClient.cpp:150 and 505: the call looks for the friend in `roster_`, the presence for the call's `send_to_jid_` before it updates `roster_`; when both look first, neither offers. |
| `OnlyAddressee` | `P2PManager` (its case `Repeats`) | IP2PManager.h:129, "o amigo que irá receber os arquivos": `sendFiles` replaces `manifest_` (FileShareClient.cpp:147) before `send_to_jid_` (148), so that a friend named by an earlier call, who comes online in between, is offered the files of the later one. |
| `PendingHasManifest` | `P2PManager` | FileShareClient.h:177-179: an item "que está pendente". The end of any transfer sets `manifest_` to NULL. |
| `RosterFollows` | `P2PManager`, `Hosts <- ThreadsOnly`, `MaxLogins = 2` | IP2PManager.h:150, "a lista de amigos conectados": `roster_` outlives its connection. |
| `AnswersTheOfferTold` | `P2PManager` | IP2PManager.h:183: `accept` goes to the newest session, of either direction. |
| `AnswersAnOffer` | `P2PManager` | fileshare.cc:270, 303: the offer may have been withdrawn when the posted answer is taken. |
| `ChatHasItsTask` | `P2PManager` | P2PManager.cpp:340, "Checa se está conectado": `connected` is set when the login begins, `chatTask` when it ends. |
| `StopDeletesSession` | `P2PManager` | P2PManager.cpp:271: the session is deleted "dentro do método OnMessage (STOP)". `disconnect` deletes the thread, and clears that message with it. |

That these fail is why the runs choose their instances as they do:
`NotUsedAfterDestruction` is about a single thread because that is how
gingacc-p2p runs, `OfferedOnce` about calls that do not overlap, `tcp_live` has
one thread and excepts stalled connections, `RightAddressee` has a weaker clause for
overlapping calls, `RemoteIsCurrent` is about redirects before the transport was
settled, `TransferEnds` and the `session_redirect` run are about transfers and
sessions that lose no stanza (a sender whose receiver cancels after both ends of
the channel have closed is told by nothing else), and `LockIsMutual` is about a
server that still knows the entry.

Read in the code, with no property of their own, since nothing in it promises
otherwise: `XmppPump::CurrentTime` counts milliseconds where `Task` expects units
of 100 ns; nobody connects `SignalCloseEvent` of `XmppSocket`, so that a
connection that is refused or breaks is never told to the engine, and
`XmppSocket::Close` does nothing once TLS runs; `P2PTransportChannel` treats each
port's connection to a candidate as readable when a single ping came;
`StunRequestManager::Clear` forgets its requests without deleting them;
`RelayServer::connections_` has one place for a pair of addresses, so that two
usernames that send to one peer trip the assertion of `AddConnection`
(relayserver.cc:467); data of a peer nobody is locked to goes to a binding's first
connection (642) even if its entry has moved to another server; an allocate that is
a keep-alive counts the ten minutes it waited as time spent (relayport.cc:625), so
that one error response ends the keep-alives; `RelayPort::SetOption` asks for the
socket of an entry that may have none (315).

## What is not modelled

`components` in `PROJECT.json` gives the reason for each part. Still worth a
module (see the plan): port
allocation, HTTP with its pools, the disk cache, `SignalThread`, the registry of
queues. Left out for good: encodings (STUN, XML, URLs, tar, base64), string and
path helpers, logging, SSL and proxy adapters, platform code, drawing in the test
application, vendored media code, and the voice part, which the component does
not build. The 32-bit clock of the pump (a delayed message posted across the wrap
of the millisecond counter fires at once or after 49 days) is kept out of
`ThreadQueue`, where only the order of triggers matters.

## Plan

Done: the pump, session signalling, the transport, file transfer and the manager;
then pseudo-TCP with the refinement of a byte stream, the candidate pairs of a
channel, tasks with the XMPP engine and its login, the relay with its ports.
Next, in this order:

1. `Relay` with two usernames on one server, composed with `P2PChannel`.
2. `QueueRegistry`: `MessageQueueManager`'s lock and the queues' locks;
   `SignalThread` and its reference count between two threads.
3. `HttpPools`, `DiskCache`: pooled sockets and cache locks under timeouts.
4. An abstract file transfer (offered, accepted, ended with both sides agreeing)
   that `FileShare` implements, and an abstract one-slot outbox that
   `P2PManager` without overlap implements.

## Running it

    tlc -workers 2 -config ThreadQueuePair.cfg MCThreadQueue
    tlapm Session_proofs.tla

and the same for the other runs and proof modules. `PROJECT.json` lists, for every
run, its module and configuration. The longest takes about three minutes on two
cores; of the proofs, from nothing, `ThreadQueue_proofs` takes about nine minutes,
`FileShare_proofs` as many, `Session_proofs` and `Relay_proofs` four,
`P2PChannel_proofs` and `P2PManager_proofs` three,
`Transport_proofs` less than one; `TcpChannel_proofs` takes twelve.
