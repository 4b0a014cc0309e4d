---------------------------------- MODULE Xmpp ----------------------------------
(* A client on the thread of its XmppPump: the tasks in turn, the socket, the    *)
(* engine, the application that sends, asks and disconnects, and the server at   *)
(* the other end of the stream.                                                  *)
EXTENDS XmppEngine

CONSTANTS
  MaxStanzas,     \* stanzas the application sends by itself
  MaxPushed,      \* elements the server sends by itself
  MaxFaults,      \* refusals and failures
  Polls           \* whether somebody calls PollTasks

Sender == Task \ {Root, Push}

ASSUME XmppAssumption ==
  /\ {MaxStanzas, MaxPushed, MaxFaults} \subseteq Nat
  /\ Polls \in BOOLEAN

VARIABLES
  run,    \* the runner and its tasks
  eng,    \* the engine
  net,    \* sock: the XmppSocket's state; up and down: the stream's two ways;
          \* stage: how far the server's side of the login is; pushed; faults
  app     \* told: the last state told; callback: it is in a callback;
          \* signal_closed; sent: what was sent; got: what of it the server got;
          \* outcome[t]: what the task t reported

vars == <<run, eng, net, app>>

World == [run |-> run, eng |-> eng, net |-> net, app |-> app]
Becomes(w) == run' = w.run /\ eng' = w.eng /\ net' = w.net /\ app' = w.app

NewNet == [sock |-> "NONE", up |-> <<>>, down |-> <<>>, stage |-> "plain", pushed |-> 0, faults |-> 0]
NewApp == [told |-> "START", callback |-> FALSE, signal_closed |-> FALSE, sent |-> <<>>, got |-> <<>>,
           outcome |-> [t \in Sender |-> "none"]]

\* XmppPump::DoLogin
Init ==
  LET w == Start(Create([run |-> NoTasks, eng |-> NewEngine, net |-> NewNet, app |-> NewApp],
                        Root), Root)
  IN run = w.run /\ eng = w.eng /\ net = w.net /\ app = w.app

Fault(w) == [w EXCEPT !.net.faults = @ + 1]
MayFail == net.faults < MaxFaults
Connected == net.sock \in {"OPEN", "TLS_OPEN"}

-----------------------------------------------------------------------------
(* The tasks' turn                                                           *)

OnMessage ==
  /\ run.turn = 0 /\ run.awake
  /\ Becomes(EnterRunTasks(World))

\* It is t that RunTasks steps, and it is in this state.
Steps(t, state) ==
  /\ run.turn > 0 /\ Ready(World) # {}
  /\ run.tasks[NextReady(World)] = t /\ run.state[t] = state

\* Process(w) has returned new.
Processed(w, t, new) ==
  Becomes(Settle([w EXCEPT !.run.turn = NextReady(World)], t, new))

\* SendStanza, with what it accepts noted.
Sends(w, element) ==
  IF w.eng.state = "CLOSED" THEN w
  ELSE SendStanza([w EXCEPT !.app.sent = Append(@, element)], element)

Quiet == [World EXCEPT !.app.callback = FALSE]

\* Task::Process of STATE_INIT, and XmppClient::ProcessStart
ProcessInit(t) == Steps(t, "INIT") /\ Processed(Quiet, t, "START")
ClientStart == Steps(Root, "START") /\ Processed(Quiet, Root, "START_XMPP_LOGIN")

ProcessStartXmppLogin ==
  /\ Steps(Root, "START_XMPP_LOGIN")
  /\ \/ Processed([Quiet EXCEPT !.net.sock = "CONNECTING"], Root, "RESPONSE")
     \/ MayFail /\ Processed(EnsureClosed(Fault(Quiet)), Root, "ERROR")

ClientResponse ==
  /\ Steps(Root, "RESPONSE")
  /\ Processed(Quiet, Root, IF eng.state = "CLOSED" THEN "DONE" ELSE "BLOCKED")

\* PresencePushTask::ProcessStart, and so SessionManagerTask's
PushStart ==
  /\ Steps(Push, "START")
  /\ IF run.queue[Push] = <<>> THEN Processed(Quiet, Push, "BLOCKED")
     ELSE Processed([World EXCEPT !.run.queue[Push] = Tail(@), !.app.callback = TRUE],
                    Push, "START")

\* SessionSendTask
Report(t, outcome) == [World EXCEPT !.app.outcome[t] = outcome, !.app.callback = TRUE]

SenderTimeout(t) ==
  /\ TimedOut(World, t) /\ \E state \in {"START", "RESPONSE"} : Steps(t, state)
  /\ Processed(ClearTimeout(Report(t, "failed"), t), t, "ERROR")

SenderStart(t) ==
  /\ Steps(t, "START") /\ ~TimedOut(World, t)
  /\ Processed(Sends(Quiet, <<"set", t>>), t, "RESPONSE")

SenderResponse(t) ==
  /\ Steps(t, "RESPONSE") /\ ~TimedOut(World, t)
  /\ IF eng.state # "OPEN" THEN Processed(Quiet, t, "DONE")
     ELSE IF run.queue[t] = <<>> THEN Processed(Quiet, t, "BLOCKED")
     ELSE LET w == Report(t, IF Head(run.queue[t])[1] = "result" THEN "answered" ELSE "failed")
          IN Processed([w EXCEPT !.run.queue[t] = Tail(@)], t, "DONE")

\* The client's socket goes with it, after its engine: closing one that is open
\* calls back (xmppclient.cc:355-359), see SocketClosedFirst.
EndOfTurn ==
  /\ run.turn > 0 /\ Ready(World) = {}
  /\ LET w == LeaveRunTasks(Quiet)
     IN Becomes(IF Lives(w, Root) THEN w ELSE [w EXCEPT !.net.sock = "CLOSED"])

\* The next deadline passes.
TimePasses ==
  /\ run.turn = 0
  /\ \E t \in ToSet(run.due) \ run.late :
       /\ \A u \in ToSet(run.due) \ run.late : Sooner(World, t, u)
       /\ run' = [run EXCEPT !.late = @ \cup {t}]
  /\ UNCHANGED <<eng, net, app>>

OnPoll == Polls /\ run.turn = 0 /\ Becomes(PollTasks(World)) /\ run' # run

Turn ==
  \/ OnMessage \/ EndOfTurn \/ ClientStart \/ ProcessStartXmppLogin \/ ClientResponse \/ PushStart
  \/ \E t \in Task : ProcessInit(t)
  \/ \E t \in Sender : SenderTimeout(t) \/ SenderStart(t) \/ SenderResponse(t)

-----------------------------------------------------------------------------
(* The socket                                                                *)

OnSocketConnected ==
  /\ run.turn = 0 /\ net.sock = "CONNECTING"
  /\ Becomes(EngineConnect([World EXCEPT !.net.sock = "OPEN"]))

OnTlsConnected ==
  /\ run.turn = 0 /\ net.sock = "TLS_CONNECTING"
  /\ Becomes([World EXCEPT !.net.sock = "TLS_OPEN"])

\* One read takes what has arrived, or a part of it.
OnSocketRead ==
  /\ run.turn = 0 /\ Connected
  /\ \E n \in 1 .. Len(net.down) :
       Becomes(HandleInput([World EXCEPT !.net.down = SubSeq(@, n + 1, Len(@))],
                           SubSeq(net.down, 1, n)))

-----------------------------------------------------------------------------
(* The application                                                           *)

MayCall == run.turn = 0 \/ app.callback

\* XmppPump::SendStanza
AppSends ==
  LET stanzas == Len(SelectSeq(app.sent, LAMBDA e : e[1] = "app")) IN
  /\ MayCall /\ Lives(World, Root) /\ ~run.done[Root]
  /\ eng.state # "CLOSED" /\ stanzas < MaxStanzas
  /\ Becomes(Sends(World, <<"app", stanzas + 1>>))

\* SessionManagerTask::OnOutgoingMessage, while that task is there.
AppAsks ==
  LET free == {t \in Sender : run.state[t] = "none"} IN
  /\ MayCall /\ Push \in Children(World) /\ free # {}
  /\ LET t == CHOOSE t \in free : TRUE IN Becomes(Start(Create(World, t), t))

\* XmppPump::DoDisconnect
AppDisconnects ==
  /\ MayCall
  /\ LET w == IF Lives(World, Root) /\ ~run.done[Root] THEN EngineDisconnect(World) ELSE World
     IN Becomes([w EXCEPT !.app.told = "CLOSED"]) /\ vars' # vars

-----------------------------------------------------------------------------
(* The server                                                                *)

Features == CASE net.stage = "plain" -> "tls features" [] net.stage = "tls" -> "sasl features"
              [] OTHER -> "bind features"

\* What an honest server says to an element.
Answer(element) ==
  CASE element[1] = "start" -> <<El("stream"), El(Features)>>
    [] element[1] = "starttls" -> <<El("proceed")>>
    [] element[1] = "auth" -> <<El("success")>>
    [] element[1] = "abort" -> <<El("failure")>>
    [] element[1] = "bind" -> <<El("bound")>>
    [] element[1] = "session" -> <<El("session result")>>
    [] element[1] = "set" -> <<<<"result", element[2]>>>>
    [] OTHER -> <<>>

\* What it says when it refuses.
Refusals(element) ==
  CASE element[1] = "start" -> {<<El("stream"), El("no features")>>, <<El("no features")>>}
    [] element[1] = "auth" -> {<<El("challenge")>>, <<El("failure")>>}
    [] element[1] \in {"bind", "session"} -> {<<El("iq error")>>}
    [] element[1] = "set" -> {<<<<"error", element[2]>>>>, <<>>}
    [] OTHER -> {<<El("failure")>>}

NextStage(element) ==
  CASE element[1] = "starttls" -> "tls" [] element[1] = "auth" -> "auth"
    [] element[1] = "bind" -> "bound" [] OTHER -> net.stage

Taken(w) ==
  [w EXCEPT !.net.up = Tail(@),
            !.app.got = IF Head(net.up)[1] \in {"app", "set"} THEN Append(@, Head(net.up)) ELSE @]

ServerAnswers ==
  /\ Connected /\ net.up # <<>>
  /\ Becomes([Taken(World) EXCEPT !.net.down = @ \o Answer(Head(net.up)),
                                  !.net.stage = NextStage(Head(net.up))])

ServerRefuses ==
  /\ Connected /\ net.up # <<>> /\ MayFail
  /\ \E reply \in Refusals(Head(net.up)) :
       Becomes([Taken(Fault(World)) EXCEPT !.net.down = @ \o reply])

ServerPushes ==
  /\ Connected
  /\ \/ /\ net.stage = "bound" /\ net.pushed < MaxPushed
        /\ \E kind \in {"presence", "request"} :
             Becomes([World EXCEPT !.net.down = Append(@, El(kind)), !.net.pushed = @ + 1])
     \/ /\ MayFail
        /\ \E kind \in {"stream error", "end"} :
             Becomes([Fault(World) EXCEPT !.net.down = Append(@, El(kind))])

-----------------------------------------------------------------------------

Next ==
  \/ Turn \/ TimePasses \/ OnPoll
  \/ OnSocketConnected \/ OnTlsConnected \/ OnSocketRead
  \/ AppSends \/ AppAsks \/ AppDisconnects
  \/ ServerAnswers \/ ServerRefuses \/ ServerPushes

Spec == Init /\ [][Next]_vars

HasTurn == run.turn > 0 \/ run.awake
HasInput == run.turn = 0 /\ Connected /\ net.down # <<>>

\* Weak fairness of the thread: it takes its messages, goes on with its turn and
\* reads its socket.
FairSpec ==
  /\ Spec
  /\ []<>~HasTurn \/ []<><<Turn>>_vars
  /\ []<>~HasInput \/ []<><<OnSocketRead>>_vars

-----------------------------------------------------------------------------
(* Properties                                                                *)

\* Nothing that was deleted is used: not by the runner, not by the engine that
\* offers stanzas, and no task outlives the client it works for.
NothingDeletedIsUsed ==
  /\ run.next # NoTask => Lives(World, run.next)
  /\ \A t \in ToSet(run.tasks) : Lives(World, t) /\ (run.done[t] => run.blocked[t])
  /\ \A t \in ToSet(run.handlers) : t \in Children(World)
  /\ IsInjective(run.tasks) /\ IsInjective(run.handlers)
  /\ Children(World) # {} => Lives(World, Root)
  /\ \A t \in Task : run.queue[t] # <<>> => t \in Children(World)

\* Of the deadlines that wait for a poll one is always watched.
DeadlineIsWatched ==
  (\E t \in ToSet(run.due) : ~run.done[t]) => run.next \in ToSet(run.due)

\* What the application and its tasks send reaches the server in that order,
\* nothing left out and nothing before the login is over, whenever it was sent.
SentInOrder ==
  /\ IsPrefix(app.got, app.sent)
  /\ app.got # <<>> => net.stage = "bound"

Rank == [NONE |-> 0, START |-> 1, OPENING |-> 2, OPEN |-> 3, CLOSED |-> 4]

\* The application is never told of an earlier state than it was told, even when
\* it disconnects while the connection is being made.
StatesForward == [][Rank[app'.told] >= Rank[app.told]]_vars

\* However the stream is closed, the client and every task of it are deleted.
ClosedIsDeleted ==
  eng.state = "CLOSED" ~> \A t \in Task : ~Lives(World, t)

\* An answer that comes while the stream is open is reported by its task.
AnswerIsReported ==
  \A t \in Sender :
    (\E i \in DOMAIN net.down : net.down[i] \in {<<"result", t>>, <<"error", t>>}) ~>
      app.outcome[t] # "none" \/ eng.state = "CLOSED"

\* sessionsendtask.h:42-43, no response "will signal failure".  Not so: nobody
\* polls, and a task whose stream is closed ends without a word.
EverySendReports ==
  \A t \in Sender : run.state[t] = "RESPONSE" ~> app.outcome[t] # "none"

\* xmppclient.cc:62, "the two main objects": the engine is destroyed before the
\* socket, whose closing would call it (355-359), so the engine must have closed
\* it.  Not so when the application disconnects before the socket is connected.
SocketClosedFirst ==
  [][Lives(World, Root) /\ net.sock = "OPEN" => Lives(World, Root)']_vars
=============================================================================
