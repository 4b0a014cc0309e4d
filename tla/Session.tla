-------------------------------- MODULE Session --------------------------------
(***************************************************************************)
(* cricket::Session and cricket::SessionManager: the signalling of one      *)
(* session between the peer that initiates it and the peer it is offered    *)
(* to, or the one that peer redirects it to.  The peers exchange stanzas    *)
(* through an XMPP server, one queue per ordered pair of peers; the tasks   *)
(* of SessionSendTask wait for the reply to each.                           *)
(*                                                                         *)
(* A step is one turn of a peer's signalling thread: a stanza, a posted     *)
(* message or a call of the client, with everything it calls.  Of the       *)
(* transport only what the session sees is kept; its worker thread answers  *)
(* at once.  ASSERT is compiled out, as in a release build.                 *)
(***************************************************************************)
EXTENDS Naturals, Sequences, FiniteSets

CONSTANTS Peer,        \* the XMPP clients, by full JID
          Caller,      \* the one that initiates the session
          Callee,      \* the one it is offered to first
          Target,      \* Target[p]: the peers p may redirect the session to
          InCallback,  \* what a client may do inside SignalState
          Channels,    \* Channels[p]: when p's client may create its channel
          HangsUp,     \* the peers whose user may terminate at any time
          FaultKinds,  \* what may go wrong, and how many times in all
          MaxFaults,
          Nobody

ASSUME SessionAssumption ==
  /\ Caller \in Peer /\ Callee \in Peer \ {Caller}
  /\ Target \in [Peer -> SUBSET Peer]
  /\ \A p \in Peer : p \notin Target[p] /\ Caller \notin Target[p]
  /\ InCallback \subseteq {"accept", "reject", "terminate"}
  /\ Channels \in [Peer -> SUBSET {"before", "later", "never"} \ {{}}]
  /\ HangsUp \subseteq Peer
  /\ FaultKinds \subseteq {"bounce", "drop", "timeout", "link", "crash"}
  /\ MaxFaults \in Nat
  /\ Nobody \notin Peer

VARIABLES
  session,  \* session[p]: p's Session object and what it holds of its transport
  net,      \* net[p][q]: the stanzas the server has to deliver from p to q
  open,     \* open[p]: the requests of p that wait for a reply, as <<type, to>>
  faults    \* the faults left

vars == <<session, net, open, faults>>

States == {"INIT", "SENTINITIATE", "RECEIVEDINITIATE", "SENTACCEPT", "RECEIVEDACCEPT",
           "SENTREJECT", "RECEIVEDREJECT", "SENTREDIRECT", "SENTTERMINATE",
           "RECEIVEDTERMINATE", "INPROGRESS"}
Ended   == {"none", "gone", "crashed"}   \* no Session object
Terminated == {"SENTTERMINATE", "RECEIVEDTERMINATE"}
Refused    == {"SENTREJECT", "RECEIVEDREJECT", "SENTREDIRECT"}

\* The stanza of a request says its type; an initiate whether it offers a
\* transport, a redirect its target, an error which request it answers.
Signals  == {"accept", "reject", "redirect", "terminate", "initiate", "transport-accept"}
Requests == Signals \cup {"transport-info", "candidates"}
Stanza   == [type : Requests \cup {"error"}, arg : {"", "offer"} \cup Peer \cup Requests]

SessionRecord ==
  [state     : States \cup Ended,               \* state_
   remote    : Peer \cup {Nobody},              \* remote_name_
   described : BOOLEAN,                         \* description_ # NULL
   transport : BOOLEAN,                         \* transport_ # NULL
   compat    : BOOLEAN,                         \* compatibility_mode_
   held      : BOOLEAN,                         \* candidates_ is not empty
   error     : {"NONE", "TIME", "RESPONSE"},    \* error_
   posted    : Seq({"state", "error", "connecting"}), \* MSG_STATE, MSG_ERROR, MSG_CONNECTING
   timer     : BOOLEAN,                         \* MSG_TIMEOUT is posted
   channel   : BOOLEAN,                         \* the client has created its channel
   impl      : BOOLEAN,                         \* and the transport its implementation
   requested : BOOLEAN,                         \* connect_requested_
   writable  : BOOLEAN,                         \* writable_
   gathered  : BOOLEAN,                         \* the channel's candidates are signalled
   heard     : BOOLEAN]                         \* it has candidates of the remote

Blank(state) ==
  [state |-> state, remote |-> Nobody, described |-> FALSE, transport |-> FALSE,
   compat |-> FALSE, held |-> FALSE, error |-> "NONE", posted |-> <<>>,
   timer |-> FALSE, channel |-> FALSE, impl |-> FALSE, requested |-> FALSE,
   writable |-> FALSE, gathered |-> FALSE, heard |-> FALSE]

Init ==
  /\ session = [p \in Peer |-> Blank("none")]
  /\ net = [p \in Peer |-> [q \in Peer |-> <<>>]]
  /\ open = [p \in Peer |-> {}]
  /\ faults = MaxFaults

Alive(p) == session[p].state \notin Ended

-----------------------------------------------------------------------------
(* What a turn works on: the session s, what p has sent and its open tasks.  *)

Here(p) == [s |-> session[p], out |-> net[p], open |-> open[p]]

Post(e, msg) == [e EXCEPT !.s.posted = Append(@, msg)]

\* SendSessionMessage, and the SessionSendTask that waits for the reply.  The
\* outcome of a transport message is ignored, so its task is left out.
Send(e, type, arg) ==
  LET r == e.s.remote IN
  [e EXCEPT !.out[r] = Append(@, [type |-> type, arg |-> arg]),
            !.open = IF type \in Signals THEN @ \cup {<<type, r>>} ELSE @]

\* SetState when the client does nothing in SignalState.
Enter(e, state) ==
  IF e.s.state = state THEN e ELSE Post([e EXCEPT !.s.state = state], "state")

\* Mutant: a refusal is followed by a terminate.
TerminateLoudly(e) ==
  IF e.s.state \in Terminated THEN e ELSE Enter(Send(e, "terminate", ""), "SENTTERMINATE")

\* Mutant: an offer nobody has answered yet is withdrawn without a word.
TerminateQuietly(e) ==
  IF e.s.state \in Terminated THEN e
  ELSE Enter(IF e.s.state \in Refused \cup {"SENTINITIATE"} THEN e
             ELSE Send(e, "terminate", ""), "SENTTERMINATE")

\* "Either side can terminate, at any time"; the other is told unless one of
\* them has refused.
Terminate(e) ==
  IF e.s.state \in Terminated THEN e
  ELSE Enter(IF e.s.state \in Refused THEN e ELSE Send(e, "terminate", ""), "SENTTERMINATE")

\* SetState: the client may terminate inside SignalState, before MSG_STATE is
\* posted.
SetState(e, state) ==
  IF e.s.state = state THEN {e}
  ELSE LET signalled == [e EXCEPT !.s.state = state] IN
       {Post(signalled, "state")} \cup
       (IF "terminate" \in InCallback THEN {Post(Terminate(signalled), "state")} ELSE {})

\* Mutant: the error is recorded and signalled, but nothing is posted.
SetErrorSilently(e, error) == [e EXCEPT !.s.error = error]

\* Any error ends the session by a posted Terminate.
SetError(e, error) ==
  IF e.s.error = error THEN e ELSE Post([e EXCEPT !.s.error = error], "error")

Accept(e) ==
  IF e.s.state # "RECEIVEDINITIATE" THEN {e}
  ELSE LET r == [e EXCEPT !.s.described = TRUE] IN
       IF r.s.transport THEN SetState(Send(r, "accept", ""), "SENTACCEPT") ELSE {r}

Reject(e) ==
  IF e.s.state # "RECEIVEDINITIATE" THEN {e}
  ELSE SetState(Send(e, "reject", ""), "SENTREJECT")

Redirect(e, target) ==
  IF e.s.state # "RECEIVEDINITIATE" THEN {e}
  ELSE SetState(Send(e, "redirect", target), "SENTREDIRECT")

-----------------------------------------------------------------------------
(* The transport, as far as the session is concerned.                        *)

CreateImpl(e) ==
  LET r == [e EXCEPT !.s.impl = TRUE] IN IF r.s.requested THEN Post(r, "connecting") ELSE r

ConnectChannels(e) ==
  LET r == [e EXCEPT !.s.requested = TRUE] IN
  IF e.s.requested THEN e ELSE IF e.s.impl THEN Post(r, "connecting") ELSE r

CreateChannel(e) ==
  LET r == [e EXCEPT !.s.channel = TRUE] IN
  IF r.s.transport \/ r.s.state = "SENTINITIATE" THEN CreateImpl(r) ELSE r

SetTransport(e) ==
  LET r == [e EXCEPT !.s.transport = TRUE] IN
  ConnectChannels(IF r.s.channel /\ ~r.s.impl THEN CreateImpl(r) ELSE r)

\* Mutant: the timer only watches the negotiation.
WatchNegotiation(e) ==
  [e EXCEPT !.s.timer = e.s.impl /\ ~e.s.writable /\ e.s.state = "SENTINITIATE"]

\* OnTransportWritable: the timer runs whenever the transport is not writable.
WatchWritable(e) == [e EXCEPT !.s.timer = e.s.impl /\ ~e.s.writable]

\* Connecting is not requested any more, and each channel starts anew: one that
\* was writable says that it no longer is.
ResetChannels(e) ==
  LET r == [e EXCEPT !.s.requested = FALSE, !.s.gathered = FALSE, !.s.heard = FALSE,
                     !.s.writable = FALSE]
  IN IF e.s.writable THEN WatchWritable(r) ELSE r

\* Candidates sent before the transport is chosen are kept, for an old client.
OnTransportSendMessage(e) ==
  IF e.s.compat THEN Send(e, "candidates", "")
  ELSE Send([e EXCEPT !.s.held = @ \/ ~e.s.transport], "transport-info", "")

\* The end of OnTransportAcceptMessage: candidates an old client could not
\* read are sent once more.
TransportAccepted(e) ==
  LET r == SetTransport(e) IN
  [(IF r.s.compat /\ r.s.held THEN OnTransportSendMessage(r) ELSE r) EXCEPT !.s.held = FALSE]

\* An initiate without an offer comes from an old client.
ChooseTransport(e, offer) ==
  LET chosen == SetTransport([e EXCEPT !.s.compat = offer # "offer"])
      told   == IF chosen.s.compat THEN chosen ELSE Send(chosen, "transport-accept", "")
  IN IF told.s.described THEN Accept(told) ELSE {told}

-----------------------------------------------------------------------------
(* Calls of the client.                                                      *)

Turn(p, results) ==
  /\ \E e \in results :
       /\ session' = [session EXCEPT ![p] = e.s]
       /\ net' = [net EXCEPT ![p] = e.out]
       /\ open' = [open EXCEPT ![p] = e.open]
  /\ UNCHANGED faults

\* Whether the channel is created when the session is: if not, by a later call or
\* not at all.
CreatedWith(p) == {when = "before" : when \in Channels[p]}

\* CreateSession and Initiate, with or without a channel created in between:
\* the state follows the sending, the speculative connecting follows both.
Initiate ==
  /\ session[Caller].state = "none"
  /\ \E channel \in CreatedWith(Caller) :
       LET made  == [Here(Caller) EXCEPT
                       !.s = [Blank("INIT") EXCEPT !.remote = Callee, !.channel = channel]]
           asked == Send([made EXCEPT !.s.described = TRUE], "initiate", "offer")
       IN Turn(Caller,
               {ConnectChannels([e EXCEPT !.s.impl = channel]) :
                  e \in SetState(asked, "SENTINITIATE")})

\* The user answers the offer, or gives up, at any later time.
Answer(p) ==
  /\ session[p].state = "RECEIVEDINITIATE"
  /\ \/ Turn(p, Accept(Here(p)))
     \/ Turn(p, Reject(Here(p)))
     \/ \E target \in Target[p] : Turn(p, Redirect(Here(p), target))

ClientTerminates(p) ==
  /\ p \in HangsUp
  /\ Alive(p) /\ session[p].state \notin Terminated
  /\ Turn(p, {Terminate(Here(p))})

ClientCreatesChannel(p) ==
  /\ "later" \in Channels[p]
  /\ Alive(p) /\ ~session[p].channel
  /\ Turn(p, {CreateChannel(Here(p))})

-----------------------------------------------------------------------------
(* Stanzas: SessionManager::OnIncomingMessage finds the session by its id    *)
(* and by the sender; OnIncomingMessage passes it on by its type.            *)

FromTo(q, p, types) == net[q][p] # <<>> /\ Head(net[q][p]).type \in types

Found(p, q) == Alive(p) /\ session[p].remote = q

\* A request that is handled, with the acknowledgement that closes its task.
Handle(p, q, results) ==
  /\ \E e \in results :
       /\ session' = [session EXCEPT ![p] = e.s]
       /\ net' = [net EXCEPT ![q][p] = Tail(@), ![p] = e.out]
       /\ open' = [open EXCEPT ![q] = @ \ {<<Head(net[q][p]).type, p>>}, ![p] = e.open]
  /\ UNCHANGED faults

\* The error `from` answers a request of `to` with: without effect, and left
\* out, when that has no task for it any more.
SendError(queues, from, to, type) ==
  IF <<type, from>> \in open[to]
  THEN [queues EXCEPT ![from][to] = Append(@, [type |-> "error", arg |-> type])]
  ELSE queues

Deny(p, q) ==
  /\ net' = SendError([net EXCEPT ![q][p] = Tail(@)], p, q, Head(net[q][p]).type)
  /\ UNCHANGED <<session, open, faults>>

\* What the client may do while it is told of the offer.
Offered(e) ==
  {e} \cup (IF "accept" \in InCallback THEN Accept(e) ELSE {})
      \cup (IF "reject" \in InCallback THEN Reject(e) ELSE {})
      \cup (IF "terminate" \in InCallback THEN {Terminate(e)} ELSE {})

Invited(p, q, channel) ==
  [Here(p) EXCEPT !.s = [Blank("RECEIVEDINITIATE") EXCEPT !.remote = q, !.channel = channel]]

\* A new session is created for an initiate from a peer p has no session with;
\* the transport is chosen once the client has been told, unless it rejected.
OnInitiateMessage(p, q) ==
  /\ FromTo(q, p, {"initiate"})
  /\ IF Found(p, q) THEN Deny(p, q)
     ELSE \E channel \in CreatedWith(p) :
            \E told \in {Post(e, "state") : e \in Offered(Invited(p, q, channel))} :
              Handle(p, q, IF told.s.state = "SENTREJECT" THEN {told}
                           ELSE ChooseTransport(told, Head(net[q][p]).arg))

\* SessionManager answers what belongs to no session of its.
OnUnknownSession(p, q) ==
  /\ FromTo(q, p, Requests \ {"initiate"})
  /\ ~Found(p, q)
  /\ Deny(p, q)

\* Mutant: the message is taken in any state.
ExpectedAlways(p, q, results) == Handle(p, q, results)

\* CheckState(STATE_SENTINITIATE): the message is refused in any other state.
Expected(p, q, results) ==
  IF session[p].state = "SENTINITIATE" THEN Handle(p, q, results) ELSE Deny(p, q)

OnAcceptMessage(p, q) ==
  /\ FromTo(q, p, {"accept"}) /\ Found(p, q)
  /\ Expected(p, q, SetState(Here(p), "RECEIVEDACCEPT"))

OnRejectMessage(p, q) ==
  /\ FromTo(q, p, {"reject"}) /\ Found(p, q)
  /\ Expected(p, q, SetState(Here(p), "RECEIVEDREJECT"))

\* The initiate goes to the new target without a transport offer; only
\* transports not yet chosen are reset, and the connection timer is cleared.
Redirected(e, target) ==
  LET asked == Send([e EXCEPT !.s.remote = target, !.s.timer = FALSE], "initiate", "")
  IN ConnectChannels(IF e.s.transport THEN asked ELSE ResetChannels(asked))

OnRedirectMessage(p, q) ==
  /\ FromTo(q, p, {"redirect"}) /\ Found(p, q)
  /\ Expected(p, q, {Redirected(Here(p), Head(net[q][p]).arg)})

OnTransportAcceptMessage(p, q) ==
  /\ FromTo(q, p, {"transport-accept"}) /\ Found(p, q)
  /\ Expected(p, q, {TransportAccepted(Here(p))})

\* Candidates for a channel that does not exist are refused, and not kept.
OnTransportInfoMessage(p, q) ==
  /\ FromTo(q, p, {"transport-info"}) /\ Found(p, q)
  /\ Handle(p, q, {[Here(p) EXCEPT !.s.heard = @ \/ session[p].impl]})

\* The first candidates of an old client stand for its transport-accept.  In a
\* state that does not allow it transport_ stays NULL and is used all the same.
OnCandidatesMessage(p, q) ==
  /\ FromTo(q, p, {"candidates"}) /\ Found(p, q)
  /\ LET e == Here(p)
         t == IF e.s.transport THEN e ELSE TransportAccepted([e EXCEPT !.s.compat = TRUE])
     IN IF e.s.transport \/ e.s.state = "SENTINITIATE"
        THEN Handle(p, q, {[t EXCEPT !.s.heard = @ \/ t.s.impl]})
        ELSE Handle(p, q, {[e EXCEPT !.s = Blank("crashed"), !.open = {}]})

OnTerminateMessage(p, q) ==
  /\ FromTo(q, p, {"terminate"}) /\ Found(p, q)
  /\ Handle(p, q, {Enter(Here(p), "RECEIVEDTERMINATE")})

\* OnFailedSend reaches the session only while it still talks to that peer.
FailedSend(e, task) ==
  LET closed == [e EXCEPT !.open = @ \ {task}] IN
  IF closed.s.state \notin Ended /\ closed.s.remote = task[2]
  THEN SetError(closed, "RESPONSE") ELSE closed

\* An error for a request whose task still waits.
OnErrorResponse(p, q) ==
  /\ FromTo(q, p, {"error"})
  /\ LET task == <<Head(net[q][p]).arg, q>> IN
     Handle(p, q, {IF task \in open[p] THEN FailedSend(Here(p), task) ELSE Here(p)})

Receive(p, q) ==
  \/ OnInitiateMessage(p, q) \/ OnUnknownSession(p, q)
  \/ OnAcceptMessage(p, q) \/ OnRejectMessage(p, q) \/ OnRedirectMessage(p, q)
  \/ OnTransportAcceptMessage(p, q) \/ OnTransportInfoMessage(p, q)
  \/ OnCandidatesMessage(p, q) \/ OnTerminateMessage(p, q)
  \/ OnErrorResponse(p, q)

-----------------------------------------------------------------------------
(* Posted messages.                                                          *)

\* Mutant: the message stands for the state it was posted in.
HandleStateBlindly(e) ==
  IF e.s.state \in Refused THEN {Terminate(e)}
  ELSE IF e.s.described THEN SetState(e, "INPROGRESS")
  ELSE IF e.s.state \in Terminated
  THEN {[e EXCEPT !.s = Blank("gone"), !.open = {}]}
  ELSE {e}

\* MSG_STATE acts on the state it finds.  DestroySession deletes the session,
\* its transport and what is posted to them; its tasks no longer matter.
HandleState(e) ==
  IF e.s.state \in {"SENTACCEPT", "RECEIVEDACCEPT"} THEN SetState(e, "INPROGRESS")
  ELSE IF e.s.state \in Refused THEN {Terminate(e)}
  ELSE IF e.s.state \in Terminated
  THEN {[e EXCEPT !.s = Blank("gone"), !.open = {}]}
  ELSE {e}

OnMessage(p) ==
  /\ session[p].posted # <<>>
  /\ LET e == [Here(p) EXCEPT !.s.posted = Tail(@)] IN
     CASE Head(session[p].posted) = "state" -> Turn(p, HandleState(e))
       [] Head(session[p].posted) = "error" -> Turn(p, {Terminate(e)})
       [] Head(session[p].posted) = "connecting" -> Turn(p, {WatchWritable(e)})

\* MSG_TIMEOUT.
OnTimeout(p) ==
  /\ session[p].timer
  /\ Turn(p, {SetError([Here(p) EXCEPT !.s.timer = FALSE], "TIME")})

-----------------------------------------------------------------------------
(* What the transport reports.                                               *)

\* The channel signals its candidates, held back until it may connect.
OnChannelMessage(p) ==
  /\ session[p].impl /\ session[p].requested /\ ~session[p].gathered
  /\ Turn(p, {OnTransportSendMessage([Here(p) EXCEPT !.s.gathered = TRUE])})

Connecting(p) == session[p].impl /\ session[p].requested

\* Two ends can reach each other once one of them has candidates of the other.
BecomesWritable(p) ==
  /\ Connecting(p) /\ ~session[p].writable
  /\ LET r == session[p].remote IN
       /\ r \in Peer /\ Connecting(r) /\ session[r].remote = p
       /\ session[p].heard \/ session[r].heard
  /\ Turn(p, {WatchWritable([Here(p) EXCEPT !.s.writable = TRUE])})

\* The checks of a connection fail when nobody answers them.
LosesRemote(p) ==
  /\ session[p].writable
  /\ session[p].remote \in Peer /\ ~Alive(session[p].remote)
  /\ Turn(p, {WatchWritable([Here(p) EXCEPT !.s.writable = FALSE])})

-----------------------------------------------------------------------------
(* Faults.                                                                   *)

Fault(kind) ==
  /\ kind \in FaultKinds
  /\ faults > 0
  /\ faults' = faults - 1

\* The server cannot deliver a request and answers with an error itself.
ServerBounces(p, q) ==
  /\ Fault("bounce")
  /\ FromTo(p, q, Requests)
  /\ net' = SendError([net EXCEPT ![p][q] = Tail(@)], q, p, Head(net[p][q]).type)
  /\ UNCHANGED <<session, open>>

\* A stanza is lost without a word.
ServerDrops(p, q) ==
  /\ Fault("drop")
  /\ net[p][q] # <<>>
  /\ net' = [net EXCEPT ![p][q] = Tail(@)]
  /\ UNCHANGED <<session, open>>

\* A SessionSendTask times out, even if the request has been or will be served.
SendTaskTimesOut(p) ==
  /\ Fault("timeout")
  /\ \E task \in open[p] :
       LET e == FailedSend(Here(p), task) IN
         /\ session' = [session EXCEPT ![p] = e.s]
         /\ open' = [open EXCEPT ![p] = e.open]
  /\ UNCHANGED net

\* The network between two connected channels fails, seen by one end.
LinkFails(p) ==
  /\ Fault("link")
  /\ session[p].writable
  /\ session' = [session EXCEPT ![p] = WatchWritable([Here(p) EXCEPT !.s.writable = FALSE]).s]
  /\ UNCHANGED <<net, open>>

\* The process of p ends.
Crash(p) ==
  /\ Fault("crash")
  /\ Alive(p)
  /\ session' = [session EXCEPT ![p] = Blank("gone")]
  /\ open' = [open EXCEPT ![p] = {}]
  /\ UNCHANGED net

-----------------------------------------------------------------------------

Client(p) == Answer(p) \/ ClientTerminates(p) \/ ClientCreatesChannel(p)

Transport(p) == OnChannelMessage(p) \/ BecomesWritable(p) \/ LosesRemote(p)

Next ==
  \/ Initiate
  \/ \E p \in Peer :
       \/ Client(p) \/ OnMessage(p) \/ OnTimeout(p) \/ Transport(p)
       \/ SendTaskTimesOut(p) \/ LinkFails(p) \/ Crash(p)
       \/ \E q \in Peer \ {p} : Receive(p, q) \/ ServerBounces(p, q) \/ ServerDrops(p, q)

Spec == Init /\ [][Next]_vars

\* What goes on by itself: stanzas are delivered, posted messages handled, timers
\* expire, and the checks of a connection fail when nobody answers them.
Pump(p) ==
  \/ OnMessage(p) \/ OnTimeout(p) \/ LosesRemote(p)
  \/ \E q \in Peer \ {p} : Receive(p, q)

\* As long as a peer has any of it to do, some peer does some of it in the end:
\* less than the fair pump of each peer grants.
FairSpec == Spec /\ WF_vars(\E p \in Peer : Pump(p))

-----------------------------------------------------------------------------
(* Properties.                                                               *)

TypeOK ==
  /\ session \in [Peer -> SessionRecord]
  /\ net \in [Peer -> [Peer -> Seq(Stanza)]]
  /\ open \in [Peer -> SUBSET (Signals \X Peer)]
  /\ faults \in 0..MaxFaults

\* The peers agree: the initiator goes on to send data only when the peer it
\* talks to now, the last one it was redirected to, has accepted.
AcceptedByRemote ==
  session[Caller].state \in {"RECEIVEDACCEPT", "INPROGRESS"} =>
    session[session[Caller].remote].state \notin
      {"none", "INIT", "RECEIVEDINITIATE", "SENTREJECT", "SENTREDIRECT"}

\* "We must not send terminate if we redirect", and a reject implies it
\* (session.cc:258, 263): what a peer that refused sends after its refusal
\* never includes a terminate, whatever error or call follows.
RefusalIsFinal ==
  \A p, q \in Peer : \A i, j \in 1..Len(net[p][q]) :
    i < j /\ net[p][q][i].type \in {"reject", "redirect"} => net[p][q][j].type # "terminate"

\* MSG_STATE is posted for one state and may find another (session.cc:1002): a
\* session that has ended, in any way, is never brought back, and only one
\* whose offer was accepted gets into progress.
NeverRevived ==
  [][\A p \in Peer :
       /\ session[p].state \in Terminated \cup Refused
            => session'[p].state \in Terminated \cup Ended \cup {session[p].state}
       /\ session[p].state # "INPROGRESS" /\ session'[p].state = "INPROGRESS"
            => session[p].state \in {"SENTACCEPT", "RECEIVEDACCEPT"}]_vars

\* A transport that connects without getting anywhere is watched: until it is
\* writable the session's timer runs or is about to be started, so the attempt
\* is given up in the end (session.cc:528-532).
AttemptIsTimed ==
  \A p \in Peer :
    Connecting(p) /\ ~session[p].writable /\ session[p].error = "NONE"
      => session[p].timer \/ \E i \in DOMAIN session[p].posted : session[p].posted[i] = "connecting"

\* Candidates that arrive before the channel exists are refused and never sent
\* again; still, of two connecting ends that have nothing more to tell each
\* other at least one knows where the other is.
CandidatesMeet ==
  LET p == Caller  q == session[Caller].remote IN
    /\ q # Nobody => session[q].remote = p
    /\ \A r \in {p, q} \cap Peer : Connecting(r) /\ session[r].gathered
    /\ q # Nobody
    /\ net[p][q] = <<>> /\ net[q][p] = <<>>
    => session[p].heard \/ session[q].heard

\* No handler works on a transport the session does not have.
NoCrash == \A p \in Peer : session[p].state # "crashed"

\* Either side may go, in any state and whatever crosses on the way: without
\* faults the peer it was talking to goes too, for good.
BothEnd ==
  []<>(session[Caller].state = "gone" => faults < MaxFaults \/ \A p \in Peer : ~Alive(p))

\* A session that connects to a peer that has vanished.
Abandoned(p) ==
  /\ Alive(p) /\ Connecting(p)
  /\ session[p].remote \in Peer /\ session[session[p].remote].state = "gone"

\* A caller that was redirected once its transport had been accepted, and that
\* nothing will wake: no timer, none about to start, no error (session.cc:783).
Untimed(p) ==
  /\ p = Caller /\ session[p].transport /\ session[p].remote # Callee
  /\ ~session[p].writable
  /\ ~session[p].timer /\ session[p].posted = <<>> /\ session[p].error = "NONE"

\* A session whose other end has vanished, with its terminate or without one, is
\* not kept for ever, be it that it ends or that it is redirected; but for a
\* caller whose timer a redirect has stopped for good.
HalfOpenEnds == []<>(\A p \in Peer : Abandoned(p) => Untimed(p))

\* session.cc:528-532, "If it does not, we terminate since we can't actually send
\* data": no session whose other end has vanished is kept for ever.
EveryHalfOpenEnds == []<>(\A p \in Peer : ~Abandoned(p))

\* session.cc:938, ASSERT(state_ == state) in CheckState: a message that is
\* allowed in one state arrives in that state.
ArrivesInState ==
  \A p, q \in Peer :
    p # q /\ Found(p, q) /\ FromTo(q, p, {"accept", "reject", "redirect", "transport-accept"})
      => session[p].state = "SENTINITIATE"

\* session.cc:377, ASSERT(state_ == STATE_RECEIVEDINITIATE) in ChooseTransport: a
\* callee chooses its transport for an offer that still stands.
ChosenWhileOffered ==
  [][\A p \in Peer \ {Caller} :
       ~session[p].transport /\ session'[p].transport
         => session'[p].state \in {"RECEIVEDINITIATE", "SENTACCEPT"}]_vars

\* session.cc:1007, ASSERT(transport_ != NULL): a session in progress has chosen
\* its transport.
InProgressHasTransport ==
  \A p \in Peer : session[p].state = "INPROGRESS" => session[p].transport

\* session.cc:781-782: "We will start the connection timer from scratch when
\* SignalConnecting fires": after a redirect the timer is about to be started.
RedirectRestartsTimer ==
  [][session[Caller].remote # Nobody /\ session'[Caller].remote \notin {Nobody, session[Caller].remote}
       /\ session[Caller].impl
     => \E i \in DOMAIN session'[Caller].posted : session'[Caller].posted[i] = "connecting"]_vars

=============================================================================
