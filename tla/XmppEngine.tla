------------------------------- MODULE XmppEngine -------------------------------
(* XmppEngineImpl and its XmppLoginTask, with the XmppClient that owns them: what *)
(* a call that enters the engine does until it leaves.  A world w has the fields  *)
(* run (Tasks), eng (the engine), net (the socket and the stream) and app (what   *)
(* the application was told).  An element of the stream is a pair of a kind and   *)
(* the task it is about.                                                          *)
EXTENDS Tasks

CONSTANT Push      \* the task that takes what the server sends by itself

ASSUME XmppEngineAssumption == Push \in Task \ {Root}

El(kind) == <<kind, NoTask>>

\* state: state_; error: error_code_ is set; login: the state of login_task_, or
\* "gone"; tls: tls_needed_; auth: authNeeded_; encrypted; reset: raised_reset_;
\* output: whether there is an output_handler_; queued: pvecQueuedStanzas_;
\* out: output_.
NewEngine ==
  [state |-> "START", error |-> FALSE, login |-> "INIT", tls |-> TRUE, auth |-> TRUE,
   encrypted |-> FALSE, reset |-> FALSE, output |-> TRUE, queued |-> <<>>, out |-> <<>>]

\* EnsureClosed: the end is told once.
EnsureClosed(w) ==
  IF w.app.signal_closed THEN w
  ELSE [w EXCEPT !.app.signal_closed = TRUE, !.app.told = "CLOSED", !.app.callback = TRUE]

\* The application starts its tasks when it is told that the stream is open.
SignalStateChange(w, state) ==
  LET w1 == [w EXCEPT !.app.told = state, !.app.callback = TRUE]
  IN IF state = "OPEN" THEN Start(Create(w1, Push), Push) ELSE w1

OnStateChange(w, state) ==
  Wake(IF state = "CLOSED" THEN EnsureClosed(w) ELSE SignalStateChange(w, state), Root)

MatchResponseIq(t, element) == element[1] \in {"result", "error"} /\ element[2] = t

\* HandleStanza of the tasks: presence, or the answer to the task's request
Wants(t, element) ==
  IF t = Push THEN element[1] = "presence" ELSE MatchResponseIq(t, element)

InternalSendStanza(w, element) == [w EXCEPT !.eng.out = Append(@, element)]

SignalError(w) ==
  IF w.eng.state = "CLOSED" THEN w ELSE [w EXCEPT !.eng.error = TRUE, !.eng.state = "CLOSED"]

-----------------------------------------------------------------------------
(* XmppLoginTask::Advance                                                    *)

\* The login task is deleted when it is done.
Failure(w) == [SignalError(w) EXCEPT !.eng.login = "gone", !.eng.queued = <<>>]

Reply(w, element, state) == [InternalSendStanza(w, element) EXCEPT !.eng.login = state]

\* LOGINSTATE_INIT: the stream starts again.
StartStream(w) == Reply([w EXCEPT !.eng.reset = TRUE], El("start"), "STREAMSTART_SENT")

OnFeatures(w, kind) ==
  IF kind \notin {"tls features", "sasl features", "bind features"} THEN Failure(w)
  ELSE IF w.eng.tls \/ kind = "tls features"
       THEN IF kind = "tls features" THEN Reply(w, El("starttls"), "TLS_REQUESTED") ELSE Failure(w)
  ELSE IF w.eng.auth
       THEN IF kind = "sasl features" /\ w.eng.encrypted
            THEN Reply(w, El("auth"), "SASL_RUNNING") ELSE Failure(w)
  ELSE IF kind = "bind features" THEN Reply(w, El("bind"), "BIND_REQUESTED") ELSE Failure(w)

\* StartTls: the socket begins the handshake, and holds back what is written.
OnProceed(w, kind) ==
  IF kind # "proceed" THEN Failure(w)
  ELSE StartStream([w EXCEPT !.net.sock = "TLS_CONNECTING", !.eng.encrypted = TRUE,
                             !.eng.tls = FALSE])

OnSasl(w, kind) ==
  CASE kind = "challenge" -> InternalSendStanza(w, El("abort"))
    [] kind = "success" -> StartStream([w EXCEPT !.eng.auth = FALSE])
    [] OTHER -> Failure(w)

OnBind(w, kind) ==
  CASE kind = "bound" -> Reply(w, El("session"), "SESSION_REQUESTED")
    [] kind = "iq error" -> Failure(w)
    [] OTHER -> w

\* SignalBound and FlushQueuedStanzas, and the login is done.
OnSession(w, kind) ==
  CASE kind = "session result" ->
         [w EXCEPT !.eng.state = IF @ = "OPENING" THEN "OPEN" ELSE @,
                   !.eng.out = @ \o w.eng.queued, !.eng.queued = <<>>, !.eng.login = "gone"]
    [] kind = "iq error" -> Failure(w)
    [] OTHER -> w

Advance(w, kind) ==
  CASE w.eng.login = "STREAMSTART_SENT" ->
         IF kind = "stream" THEN [w EXCEPT !.eng.login = "STARTED_XMPP"] ELSE Failure(w)
    [] w.eng.login = "STARTED_XMPP" -> OnFeatures(w, kind)
    [] w.eng.login = "TLS_REQUESTED" -> OnProceed(w, kind)
    [] w.eng.login = "SASL_RUNNING" -> OnSasl(w, kind)
    [] w.eng.login = "BIND_REQUESTED" -> OnBind(w, kind)
    [] w.eng.login = "SESSION_REQUESTED" -> OnSession(w, kind)

-----------------------------------------------------------------------------
(* What arrives                                                              *)

\* The first handler that the element is for; an iq request that is nobody's is
\* answered, and anything else that is nobody's is dropped.
Dispatch(w, element) ==
  LET takers == SelectSeq(w.run.handlers, LAMBDA t : Wants(t, element))
  IN IF takers # <<>> THEN QueueStanza(w, Head(takers), element)
     ELSE IF element[1] = "request" THEN InternalSendStanza(w, El("not implemented")) ELSE w

\* IncomingStart, IncomingStanza and IncomingEnd
Incoming(w, element) ==
  IF w.eng.error \/ w.eng.reset THEN w
  ELSE IF element[1] \in {"end", "stream error"} THEN SignalError(w)
  ELSE IF w.eng.login # "gone" THEN Advance(w, element[1])
  ELSE IF element[1] = "stream" THEN SignalError(w)
  ELSE Dispatch(w, element)

-----------------------------------------------------------------------------
(* EnterExit and the calls of the engine                                      *)

\* What leaves the engine is written, and the connection closed, while there is
\* somebody to do so.
Exit(before, w) ==
  LET closing == w.eng.state = "CLOSED" /\ before.eng.state # "CLOSED"
      flushed == IF w.eng.output
                 THEN [w EXCEPT !.net.up = @ \o w.eng.out, !.eng.out = <<>>] ELSE w
      closed == IF w.eng.output /\ closing
                THEN [flushed EXCEPT !.eng.output = FALSE,
                        !.net.sock = IF @ = "OPEN" THEN "CLOSED" ELSE @]
                ELSE flushed
      ready == [closed EXCEPT !.eng.reset = FALSE]
  IN IF w.eng.state = before.eng.state THEN ready ELSE OnStateChange(ready, w.eng.state)

\* Connect: the login task begins.
EngineConnect(w) ==
  IF w.eng.state # "START" THEN w
  ELSE Exit(w, StartStream([w EXCEPT !.eng.state = "OPENING"]))

HandleInput(w, elements) ==
  IF w.eng.state \notin {"OPENING", "OPEN"} THEN w
  ELSE Exit(w, FoldLeft(Incoming, w, elements))

\* Mutant: a stanza is sent straight through during the login.
SendStanzaAtOnce(w, element) ==
  IF w.eng.state = "CLOSED" THEN w ELSE Exit(w, InternalSendStanza(w, element))

\* SendStanza: during the login it is queued.
SendStanza(w, element) ==
  IF w.eng.state = "CLOSED" THEN w
  ELSE Exit(w, IF w.eng.login # "gone" THEN [w EXCEPT !.eng.queued = Append(@, element)]
               ELSE InternalSendStanza(w, element))

EngineDisconnect(w) ==
  IF w.eng.state = "CLOSED" THEN w
  ELSE Exit(w, [(IF w.eng.state = "OPEN" THEN InternalSendStanza(w, El("end")) ELSE w)
                  EXCEPT !.eng.state = "CLOSED"])
===============================================================================
