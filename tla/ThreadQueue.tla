------------------------------ MODULE ThreadQueue ------------------------------
(***************************************************************************)
(* talk_base::MessageQueue and talk_base::Thread: the message pump every    *)
(* other component of libjingle and of gingacc-p2p runs on.                 *)
(*                                                                         *)
(* An actor is an operating-system thread: either one that runs             *)
(* Thread::Run of a Thread object (a member of Thread) or one without a     *)
(* Thread object of its own, such as the application's thread (a member of  *)
(* Client).  What an actor is executing is its call stack; a step is what   *)
(* the code does between two points where another actor can interfere, so   *)
(* a region guarded by crit_ is one step and an unguarded read is another.  *)
(***************************************************************************)
EXTENDS Naturals, Sequences, FiniteSets, SequencesExt

CONSTANTS Thread,    \* Thread objects, each run by an actor of the same name
          Client,    \* actors without a Thread object
          Msg,       \* messages, each posted or sent at most once
          Posted,    \* those that a caller may post
          Sent,      \* those that a caller may send
          Dest,      \* Dest[m]: the thread whose handler takes m
          Handler,   \* message handlers
          Of,        \* Of[m]: the handler of m (phandler)
          Disposal,  \* messages with id MQID_DISPOSE
          Stoppable, \* the threads that are stopped at some time
          Nobody     \* neither an actor nor a message

ASSUME ThreadQueueAssumption ==
  /\ Thread \cap Client = {}
  /\ Dest \in [Msg -> Thread]
  /\ Of \in [Msg -> Handler]
  /\ Posted \subseteq Msg /\ Sent \subseteq Msg
  /\ Disposal \subseteq Posted \ Sent
  /\ Stoppable \subseteq Thread
  /\ Nobody \notin Thread \cup Client \cup Msg

Actor == Thread \cup Client

VARIABLES
  msgq,       \* msgq[t]: msgq_, the posted messages
  dmsgq,      \* dmsgq[t]: the messages of dmsgq_ whose trigger lies ahead, soonest first
  due,        \* due[t]: the messages of dmsgq_ whose trigger the clock has passed
  sendlist,   \* sendlist[t]: sendlist_, the sends not yet received
  hasSends,   \* hasSends[t]: has_sends_, read outside the lock
  sender,     \* sender[m]: smsg.thread, the actor that sent m
  ready,      \* the sent messages whose *smsg.ready is true
  fStop,      \* fStop[t]: fStop_, read and written outside the lock
  wake,       \* wake[a]: the wake-up event of a's socket server is signalled
  stack,      \* stack[a]: the call stack of a, innermost frame first
  fate,       \* fate[m]: what became of m
  deleted,    \* Thread objects whose destructor has run
  destroyed   \* handlers whose destructor has run

queues == <<msgq, dmsgq, due>>
sends  == <<sendlist, hasSends, sender, ready>>
life   == <<deleted, destroyed>>
vars   == <<queues, sends, fStop, wake, stack, fate, life>>

MsgPoints == {"run",                                          \* a handler
              "post", "postDelayed",                          \* Post, PostDelayed
              "send", "sendWake", "test", "retest", "sendWait", \* Send
              "finish", "reply"}                              \* ReceiveSends

ThreadPoints == {"stop", "join", "clear"}                     \* Stop, ~Thread

PumpPoints == {"idle",                                        \* a client
               "sends", "loop",                               \* ReceiveSends
               "get", "queue", "stopped", "wait"}             \* Get

Frame == [at : MsgPoints, arg : Msg]
         \cup [at : ThreadPoints, arg : Thread]
         \cup [at : PumpPoints, arg : Msg \cup {Nobody}]

Call(at, arg) == [at |-> at, arg |-> arg]

Top(a)     == Head(stack[a])
At(a, at)  == stack[a] # <<>> /\ Top(a).at = at

\* The stack of a after it goes on to `at`, calls f, or returns.
Replace(a, f)    == [stack EXCEPT ![a] = <<f>> \o Tail(@)]
GoTo(a, at)      == Replace(a, Call(at, Top(a).arg))
Invoke(a, f)     == [stack EXCEPT ![a] = <<f>> \o @]
Split(a, f, g)   == [stack EXCEPT ![a] = <<f, g>> \o Tail(@)]
GoToCall(a, at, f) == Split(a, f, Call(at, Top(a).arg))
Return(a)        == [stack EXCEPT ![a] = Tail(@)]

\* The one sequence that is s without the elements of S, as a singleton set.
Without(s, S) ==
  LET kept == {i \in DOMAIN s : s[i] \notin S}
      n    == Cardinality(kept)
  IN IF kept = DOMAIN s THEN {s}
     ELSE {[k \in 1..n |-> s[f[k]]] :
             f \in {g \in [1..n -> kept] : \A j, k \in 1..n : j < k => g[j] < g[k]}}

\* The queues of the threads in T without the elements of S.
Purge(queue, T, S) ==
  LET rest(t) == IF t \in T THEN Without(queue[t], S) ELSE {queue[t]}
  IN {q \in [Thread -> UNION {rest(t) : t \in Thread}] : \A t \in Thread : q[t] \in rest(t)}

OnStack(a, at, arg) == \E i \in DOMAIN stack[a] : stack[a][i] = Call(at, arg)

Init ==
  /\ msgq = [t \in Thread |-> <<>>]
  /\ dmsgq = [t \in Thread |-> <<>>]
  /\ due = [t \in Thread |-> <<>>]
  /\ sendlist = [t \in Thread |-> <<>>]
  /\ hasSends = [t \in Thread |-> FALSE]
  /\ sender = [m \in Msg |-> Nobody]
  /\ ready = {}
  /\ fStop = [t \in Thread |-> FALSE]
  /\ wake = [a \in Actor |-> FALSE]
  /\ stack = [a \in Actor |->
                <<Call(IF a \in Thread THEN "get" ELSE "idle", Nobody)>>]
  /\ fate = [m \in Msg |-> "new"]
  /\ deleted = {}
  /\ destroyed = {}

-----------------------------------------------------------------------------
(* What application code does: a client, or a thread inside a handler.       *)

InApplication(a) == At(a, "idle") \/ At(a, "run")

\* The caller's part of the contract: it posts and sends to objects that exist.
MayUse(a, m) ==
  /\ InApplication(a)
  /\ fate[m] = "new"
  /\ Dest[m] \notin deleted
  /\ m \in Disposal \/ Of[m] \notin destroyed

Refuse(m) ==
  /\ fate' = [fate EXCEPT ![m] = "refused"]
  /\ UNCHANGED <<queues, sends, fStop, wake, stack, life>>

\* Post and PostDelayed read fStop_ before they take the lock.
Post(a, m) ==
  /\ MayUse(a, m)
  /\ m \in Posted
  /\ \/ fStop[Dest[m]] /\ Refuse(m)
     \/ /\ ~fStop[Dest[m]]
        /\ \E at \in {"post", "postDelayed"} :
             /\ at = "postDelayed" => m \notin Disposal
             /\ stack' = Invoke(a, Call(at, m))
        /\ fate' = [fate EXCEPT ![m] = "pending"]
        /\ UNCHANGED <<queues, sends, fStop, wake, life>>

\* Mutant: the WakeUp at the end of Post is missing.
PostLockedSilently(a) ==
  /\ At(a, "post")
  /\ msgq' = [msgq EXCEPT ![Dest[Top(a).arg]] = Append(@, Top(a).arg)]
  /\ stack' = Return(a)
  /\ UNCHANGED <<dmsgq, due, sends, fStop, wake, fate, life>>

PostLocked(a) ==
  /\ At(a, "post")
  /\ LET m == Top(a).arg IN
       /\ msgq' = [msgq EXCEPT ![Dest[m]] = Append(@, m)]
       /\ wake' = [wake EXCEPT ![Dest[m]] = TRUE]
  /\ stack' = Return(a)
  /\ UNCHANGED <<dmsgq, due, sends, fStop, fate, life>>

\* The trigger of the new message lies anywhere among those still ahead.
PostDelayedLocked(a) ==
  /\ At(a, "postDelayed")
  /\ LET m == Top(a).arg
         t == Dest[m]
     IN /\ \E i \in 1..Len(dmsgq[t]) + 1 : dmsgq' = [dmsgq EXCEPT ![t] = InsertAt(@, i, m)]
        /\ wake' = [wake EXCEPT ![t] = TRUE]
  /\ stack' = Return(a)
  /\ UNCHANGED <<msgq, due, sends, fStop, fate, life>>

\* Send: refused when stopping, a plain call from the thread itself, else it
\* queues the message and waits.  A client gets a new AutoThread, with its own
\* socket server.
Send(a, m) ==
  /\ MayUse(a, m)
  /\ m \in Sent
  /\ \/ fStop[Dest[m]] /\ Refuse(m)
     \/ /\ ~fStop[Dest[m]]
        /\ IF a = Dest[m]
           THEN /\ stack' = Invoke(a, Call("run", m))
                /\ fate' = [fate EXCEPT ![m] = "running"]
                /\ UNCHANGED wake
           ELSE /\ stack' = Invoke(a, Call("send", m))
                /\ fate' = [fate EXCEPT ![m] = "pending"]
                /\ wake' = IF a \in Client THEN [wake EXCEPT ![a] = FALSE] ELSE wake
        /\ UNCHANGED <<queues, sends, fStop, life>>

SendLocked(a) ==
  /\ At(a, "send")
  /\ LET m == Top(a).arg IN
       /\ sendlist' = [sendlist EXCEPT ![Dest[m]] = Append(@, m)]
       /\ hasSends' = [hasSends EXCEPT ![Dest[m]] = TRUE]
       /\ sender' = [sender EXCEPT ![m] = a]
  /\ stack' = GoTo(a, "sendWake")
  /\ UNCHANGED <<queues, ready, fStop, wake, fate, life>>

SendWakeUp(a) ==
  /\ At(a, "sendWake")
  /\ wake' = [wake EXCEPT ![Dest[Top(a).arg]] = TRUE]
  /\ stack' = GoTo(a, "test")
  /\ UNCHANGED <<queues, sends, fStop, fate, life>>

\* Mutant: the loop around Wait is missing, any wake-up ends the Send.
SendTestOnce(a) ==
  /\ At(a, "test") \/ At(a, "retest")
  /\ IF Top(a).at = "retest" \/ Top(a).arg \in ready
     THEN /\ stack' = Return(a)
          /\ wake' = [wake EXCEPT ![a] = @ \/ Top(a).at = "retest"]
     ELSE /\ stack' = IF a \in Thread
                      THEN GoToCall(a, "sendWait", Call("sends", Nobody))
                      ELSE GoTo(a, "sendWait")
          /\ UNCHANGED wake
  /\ UNCHANGED <<queues, sends, fStop, fate, life>>

\* Mutant: the loop does not receive sends while it waits.
SendTestDeaf(a) ==
  /\ At(a, "test") \/ At(a, "retest")
  /\ IF Top(a).arg \in ready
     THEN /\ stack' = Return(a)
          /\ wake' = [wake EXCEPT ![a] = @ \/ Top(a).at = "retest"]
     ELSE /\ stack' = GoTo(a, "sendWait")
          /\ UNCHANGED wake
  /\ UNCHANGED <<queues, sends, fStop, fate, life>>

\* while (!ready) { ReceiveSends(); Wait(); }  and the WakeUp issued again for
\* the events the loop may have consumed.  Only a thread has sends to receive.
SendTest(a) ==
  /\ At(a, "test") \/ At(a, "retest")
  /\ IF Top(a).arg \in ready
     THEN /\ stack' = Return(a)
          /\ wake' = [wake EXCEPT ![a] = @ \/ Top(a).at = "retest"]
     ELSE /\ stack' = IF a \in Thread
                      THEN GoToCall(a, "sendWait", Call("sends", Nobody))
                      ELSE GoTo(a, "sendWait")
          /\ UNCHANGED wake
  /\ UNCHANGED <<queues, sends, fStop, fate, life>>

SendWait(a) ==
  /\ At(a, "sendWait")
  /\ wake[a]
  /\ wake' = [wake EXCEPT ![a] = FALSE]
  /\ stack' = GoTo(a, "retest")
  /\ UNCHANGED <<queues, sends, fStop, fate, life>>

\* A handler returns to the pump, to ReceiveSends or to the Send that called it.
HandlerReturns(a) ==
  /\ At(a, "run")
  /\ stack' = Return(a)
  /\ fate' = [fate EXCEPT ![Top(a).arg] = "done"]
  /\ UNCHANGED <<queues, sends, fStop, wake, life>>

-----------------------------------------------------------------------------
(* Thread::ReceiveSends.                                                     *)

\* has_sends_ is read before the lock is taken.
ReceiveSends(a) ==
  /\ At(a, "sends")
  /\ stack' = IF hasSends[a] THEN GoTo(a, "loop") ELSE Return(a)
  /\ UNCHANGED <<queues, sends, fStop, wake, fate, life>>

ReceiveSend(a) ==
  /\ At(a, "loop")
  /\ IF sendlist[a] = <<>>
     THEN /\ hasSends' = [hasSends EXCEPT ![a] = FALSE]
          /\ stack' = Return(a)
          /\ UNCHANGED <<sendlist, fate>>
     ELSE LET m == Head(sendlist[a]) IN
          /\ sendlist' = [sendlist EXCEPT ![a] = Tail(@)]
          /\ stack' = Split(a, Call("run", m), Call("finish", m))
          /\ fate' = [fate EXCEPT ![m] = "running"]
          /\ UNCHANGED hasSends
  /\ UNCHANGED <<queues, sender, ready, fStop, wake, life>>

\* Mutant: the wrong field of the message is marked.
SendFinishedWrong(a) ==
  /\ At(a, "finish")
  /\ ready' = ready \cup {sender[Top(a).arg]}
  /\ stack' = GoTo(a, "reply")
  /\ UNCHANGED <<queues, sendlist, hasSends, sender, fStop, wake, fate, life>>

\* *smsg.ready = true: the sender may see it before the WakeUp that follows.
SendFinished(a) ==
  /\ At(a, "finish")
  /\ ready' = ready \cup {Top(a).arg}
  /\ stack' = GoTo(a, "reply")
  /\ UNCHANGED <<queues, sendlist, hasSends, sender, fStop, wake, fate, life>>

SendReply(a) ==
  /\ At(a, "reply")
  /\ wake' = [wake EXCEPT ![sender[Top(a).arg]] = TRUE]
  /\ stack' = Replace(a, Call("loop", Nobody))
  /\ UNCHANGED <<queues, sends, fStop, fate, life>>

-----------------------------------------------------------------------------
(* MessageQueue::Get, called for ever by Thread::ProcessMessages.            *)

\* ReceiveSends comes first.
Get(t) ==
  /\ At(t, "get")
  /\ stack' = GoToCall(t, "queue", Call("sends", Nobody))
  /\ UNCHANGED <<queues, sends, fStop, wake, fate, life>>

\* What the wait of Get lasts for at most, cmsDelayNext.
Soonest(d) == IF d = <<>> THEN Nobody ELSE Head(d)

\* Under the lock: the delayed messages msCurrent has passed join the queue,
\* then its first message is dispatched, or deleted if it is a disposal.
GetQueue(t) ==
  /\ At(t, "queue")
  /\ due' = [due EXCEPT ![t] = <<>>]
  /\ LET q == msgq[t] \o due[t] IN
        IF q = <<>>
           THEN /\ stack' = Replace(t, Call("stopped", Soonest(dmsgq[t])))
                /\ UNCHANGED <<msgq, fate>>
           ELSE /\ msgq' = [msgq EXCEPT ![t] = Tail(q)]
                /\ IF Head(q) \in Disposal
                   THEN /\ fate' = [fate EXCEPT ![Head(q)] = "done"]
                        /\ UNCHANGED stack
                   ELSE /\ fate' = [fate EXCEPT ![Head(q)] = "running"]
                        /\ stack' = GoToCall(t, "get", Call("run", Head(q)))
  /\ UNCHANGED <<dmsgq, sends, fStop, wake, life>>

\* fStop_ is read after the lock is released; the thread ends when it is set.
GetStopped(t) ==
  /\ At(t, "stopped")
  /\ stack' = IF fStop[t] THEN Return(t) ELSE GoTo(t, "wait")
  /\ UNCHANGED <<queues, sends, fStop, wake, fate, life>>

\* ss_->Wait returns on a wake-up or when the message it was to wait for is due.
GetWait(t) ==
  /\ At(t, "wait")
  /\ wake[t] \/ Contains(due[t], Top(t).arg)
  /\ wake' = [wake EXCEPT ![t] = FALSE]
  /\ stack' = Replace(t, Call("get", Nobody))
  /\ UNCHANGED <<queues, sends, fStop, fate, life>>

\* msCurrent, the clock as Get reads it, reaches the next delayed message.
Trigger(t) ==
  /\ dmsgq[t] # <<>>
  /\ due' = [due EXCEPT ![t] = Append(@, Head(dmsgq[t]))]
  /\ dmsgq' = [dmsgq EXCEPT ![t] = Tail(@)]
  /\ UNCHANGED <<msgq, sends, fStop, wake, stack, fate, life>>

-----------------------------------------------------------------------------
(* Stop, Join, ~Thread and Clear.                                            *)

\* A thread is stopped by its own handler or by a client that then deletes it.
Stop(a, t) ==
  /\ InApplication(a)
  /\ t \in Stoppable
  /\ a = t \/ a \in Client
  /\ ~fStop[t]
  /\ fStop' = [fStop EXCEPT ![t] = TRUE]
  /\ stack' = Invoke(a, Call("stop", t))
  /\ UNCHANGED <<queues, sends, wake, fate, life>>

\* Joining oneself fails at once.
StopWakeUp(a) ==
  /\ At(a, "stop")
  /\ wake' = [wake EXCEPT ![Top(a).arg] = TRUE]
  /\ stack' = IF a = Top(a).arg THEN Return(a) ELSE GoTo(a, "join")
  /\ UNCHANGED <<queues, sends, fStop, fate, life>>

\* A client also joins a thread whose own handler has stopped it.
JoinStopped(a, t) ==
  /\ At(a, "idle") /\ a \in Client
  /\ fStop[t] /\ t \notin deleted
  /\ \A b \in Client : ~OnStack(b, "stop", t) /\ ~OnStack(b, "join", t) /\ ~OnStack(b, "clear", t)
  /\ stack' = Invoke(a, Call("stop", t))
  /\ UNCHANGED <<queues, sends, fStop, wake, fate, life>>

Join(a) ==
  /\ At(a, "join")
  /\ stack[Top(a).arg] = <<>>
  /\ stack' = GoTo(a, "clear")
  /\ UNCHANGED <<queues, sends, fStop, wake, fate, life>>

\* Mutant: the priority queue of delayed messages is not cleared.
ClearUndelayed(T, S) ==
  LET gone(t)  == {m \in S : Contains(sendlist[t], m)}
      freed(t) == {m \in S : Contains(msgq[t], m)}
      released == UNION {gone(t) : t \in T}
  IN /\ sendlist' \in Purge(sendlist, T, S)
     /\ ready' = ready \cup released
     /\ wake' = [a \in Actor |-> wake[a] \/ \E m \in released : sender[m] = a]
     /\ msgq' \in Purge(msgq, T, S)
     /\ dmsgq' = dmsgq
     /\ due' = due
     /\ fate' = [m \in Msg |-> IF \E t \in T : m \in gone(t) \cup freed(t)
                               THEN "purged" ELSE fate[m]]
     /\ UNCHANGED <<hasSends, sender>>

\* Thread::Clear and MessageQueue::Clear on the queues of T, for the messages
\* in S: the senders of purged sends are released, the rest is deleted.
Clear(T, S) ==
  LET gone(t)  == {m \in S : Contains(sendlist[t], m)}
      freed(t) == {m \in S : Contains(msgq[t] \o due[t] \o dmsgq[t], m)}
      released == UNION {gone(t) : t \in T}
  IN /\ sendlist' \in Purge(sendlist, T, S)
     /\ ready' = ready \cup released
     /\ wake' = [a \in Actor |-> wake[a] \/ \E m \in released : sender[m] = a]
     /\ msgq' \in Purge(msgq, T, S)
     /\ dmsgq' \in Purge(dmsgq, T, S)
     /\ due' \in Purge(due, T, S)
     /\ fate' = [m \in Msg |-> IF \E t \in T : m \in gone(t) \cup freed(t)
                               THEN "purged" ELSE fate[m]]
     /\ UNCHANGED <<hasSends, sender>>

\* No actor is between its test of fStop_ and its push onto a queue of t.
NobodyInside(S) ==
  \A a \in Actor, m \in S, at \in {"post", "postDelayed", "send"} :
    ~OnStack(a, at, m)

DeleteThread(a) ==
  /\ At(a, "clear")
  /\ NobodyInside({m \in Msg : Dest[m] = Top(a).arg})
  /\ Clear({Top(a).arg}, Msg)
  /\ deleted' = deleted \cup {Top(a).arg}
  /\ stack' = Return(a)
  /\ UNCHANGED <<fStop, destroyed>>

MessagesOf(h) == {m \in Msg \ Disposal : Of[m] = h}

\* ~MessageHandler: MessageQueueManager::Clear on every queue.  A handler is
\* deleted on the thread that runs it, by code other than its caller's: the code
\* does not ask for that but relies on it, for Get takes a message off the queue
\* under the lock and Dispatch runs it outside, where Clear does not find it.
DestroyHandler(a, h) ==
  /\ At(a, "run")
  /\ h \notin destroyed
  /\ \A m \in MessagesOf(h) : Dest[m] = a
  /\ NobodyInside(MessagesOf(h))
  /\ Clear(Thread \ deleted, MessagesOf(h))
  /\ destroyed' = destroyed \cup {h}
  /\ UNCHANGED <<fStop, stack, deleted>>

-----------------------------------------------------------------------------

\* What an actor does by itself once it is called: the pump never stops between.
Step(a) ==
  \/ PostLocked(a) \/ PostDelayedLocked(a)
  \/ SendLocked(a) \/ SendWakeUp(a) \/ SendTest(a) \/ SendWait(a)
  \/ HandlerReturns(a)
  \/ StopWakeUp(a) \/ Join(a) \/ DeleteThread(a)

Pump(t) ==
  \/ ReceiveSends(t) \/ ReceiveSend(t) \/ SendFinished(t) \/ SendReply(t)
  \/ Get(t) \/ GetQueue(t) \/ GetStopped(t) \/ GetWait(t)

Application(a) ==
  \/ \E m \in Msg : Post(a, m) \/ Send(a, m)
  \/ \E t \in Thread : Stop(a, t) \/ JoinStopped(a, t)
  \/ \E h \in Handler : DestroyHandler(a, h)

Next ==
  \/ \E a \in Actor : Step(a) \/ Application(a)
  \/ \E t \in Thread : Pump(t) \/ Trigger(t)

Spec == Init /\ [][Next]_vars

\* The operating system schedules every actor; handlers return; time passes;
\* whoever has to join a stopped thread does.
FairSpec ==
  /\ Spec
  /\ \A c \in Client : WF_vars(Step(c))
  /\ \A t \in Thread : WF_vars(Step(t) \/ Pump(t)) /\ WF_vars(Trigger(t))
  /\ \A t \in Thread : WF_vars(\E c \in Client : JoinStopped(c, t))
-----------------------------------------------------------------------------
(* Properties.                                                               *)

TypeOK ==
  /\ msgq \in [Thread -> Seq(Msg)]
  /\ dmsgq \in [Thread -> Seq(Msg)]
  /\ due \in [Thread -> Seq(Msg)]
  /\ sendlist \in [Thread -> Seq(Msg)]
  /\ hasSends \in [Thread -> BOOLEAN]
  /\ sender \in [Msg -> Actor \cup {Nobody}]
  /\ ready \subseteq Msg
  /\ fStop \in [Thread -> BOOLEAN]
  /\ wake \in [Actor -> BOOLEAN]
  /\ stack \in [Actor -> Seq(Frame)]
  /\ fate \in [Msg -> {"new", "pending", "running", "done", "refused", "purged"}]
  /\ deleted \subseteq Thread
  /\ destroyed \subseteq Handler

\* Where a caller of Send waits for m.
SendPoints == {"sendWake", "test", "retest", "sendWait"}
Sending(a, m) == \E at \in SendPoints : OnStack(a, at, m)

\* Some actor has pushed onto a queue of a, or has set its fStop_, or has
\* finished a send of its, and will issue the WakeUp for it next.
WakeUpComing(a) ==
  \E b \in Actor :
    \/ At(b, "sendWake") /\ Dest[Top(b).arg] = a
    \/ At(b, "reply") /\ sender[Top(b).arg] = a
    \/ At(b, "stop") /\ Top(b).arg = a

Asleep(t) == At(t, "stopped") \/ At(t, "wait")

PostSeen(t)  == Asleep(t) /\ msgq[t] # <<>> => wake[t]
DelaySeen(t) == Asleep(t) /\ dmsgq[t] # <<>>
                  => wake[t] \/ Top(t).arg = Head(dmsgq[t]) \/ Contains(due[t], Top(t).arg)
StopSeen(t)  == At(t, "wait") /\ fStop[t] => wake[t] \/ WakeUpComing(t)
SendSeen(t)  == Asleep(t) \/ At(t, "queue") \/ At(t, "sendWait") =>
                  sendlist[t] = <<>> \/ wake[t] \/ WakeUpComing(t)
Seen(t)      == PostSeen(t) /\ DelaySeen(t) /\ StopSeen(t) /\ SendSeen(t)
ReplySeen(a) == At(a, "sendWait") /\ Top(a).arg \in ready => wake[a] \/ WakeUpComing(a)

\* An actor never goes to sleep on work: whenever one waits in Get or in Send,
\* or is past its last look at a queue, and there is a posted message, a send
\* to receive, a stop request or an answered Send for it, its event is
\* signalled or about to be.  fStop_, has_sends_ and ready are read without
\* the lock (messagequeue.cc:204, thread.cc:249, 274), which is what could lose
\* the wake-up.
NoLostWakeUp ==
  /\ \A t \in Thread : Seen(t)
  /\ \A a \in Actor : ReplySeen(a)

\* What the stack of an actor can hold: Post, Send, Stop, Join and ~Thread are
\* called by application code, handlers by Get, by ReceiveSends and by Send,
\* ReceiveSends by Get and by Send.
CallPoints    == {"post", "postDelayed", "send", "sendWake", "test", "retest", "sendWait",
                  "stop", "join", "clear"}
ReceivePoints == {"sends", "loop", "finish", "reply"}

On(above, below) ==
  \/ above \in CallPoints /\ below \in {"idle", "run"}
  \/ above = "run" /\ below \in {"get", "finish", "idle", "run"}
  \/ above \in ReceivePoints /\ below \in {"queue", "sendWait"}

Stacked ==
  \A a \in Actor : \A i \in DOMAIN stack[a] :
    /\ i > 1 => On(stack[a][i - 1].at, stack[a][i].at)
    /\ a \in Client => stack[a][i].at \in CallPoints \cup {"idle"}

\* A message is sent once, by the actor that waits for it.
SentOnce ==
  /\ \A m \in Msg : fate[m] = "new" => sender[m] = Nobody
  /\ \A a \in Actor : \A i \in DOMAIN stack[a] :
       LET m == stack[a][i].arg IN
       /\ stack[a][i].at \in SendPoints => sender[m] = a
       /\ stack[a][i].at \in {"finish", "reply"} => sender[m] # Nobody
  /\ \A a \in Actor : At(a, "send") =>
       /\ sender[Top(a).arg] = Nobody
       /\ fate[Top(a).arg] # "new"
       /\ \A b \in Actor : At(b, "send") /\ Top(b).arg = Top(a).arg => b = a
  /\ \A t \in Thread : \A i \in DOMAIN sendlist[t] : sender[sendlist[t][i]] # Nobody

\* has_sends_ is set whenever there is a send to receive.
SendsSeen == \A t \in Thread : sendlist[t] # <<>> => hasSends[t]

\* A thread's delayed messages are its own, and a joined thread has ended.
OwnDelayed ==
  /\ \A t \in Thread : \A i \in DOMAIN dmsgq[t] : Dest[dmsgq[t][i]] = t
  /\ \A t \in Thread : \A i \in DOMAIN due[t] : Dest[due[t][i]] = t
  /\ \A a \in Actor : At(a, "clear") => stack[Top(a).arg] = <<>>

\* An answered Send that waits, under whatever it has received meanwhile, is
\* woken, or a Send above it wakes it again when it returns.
AnsweredTo(a) ==
  \A i \in DOMAIN stack[a] :
    stack[a][i].at = "sendWait" /\ stack[a][i].arg \in ready
      => \/ wake[a] \/ WakeUpComing(a)
         \/ \E j \in 1..i - 1 : stack[a][j].at \in {"sendWait", "retest"}

Answered == \A a \in Actor : AnsweredTo(a)

\* Why no wake-up is lost: each part holds because of the others.
WakeInv ==
  TypeOK /\ Stacked /\ SentOnce /\ SendsSeen /\ OwnDelayed /\ Answered /\ NoLostWakeUp

\* A Send is synchronous: while its handler runs, or its message is queued, the
\* sender is still inside Send for it (thread.cc:211-269), whatever it receives
\* itself meanwhile.
SendIsSynchronous ==
  \A m \in Msg : sender[m] # Nobody /\ fate[m] \in {"pending", "running"}
                   => Sending(sender[m], m)

\* A deleted Thread has released every actor that was sending to it and has
\* deleted every message it held (thread.cc:107-112, 296-318).
DeletedHoldsNothing ==
  \A t \in deleted :
    /\ msgq[t] = <<>> /\ dmsgq[t] = <<>> /\ due[t] = <<>> /\ sendlist[t] = <<>>
    /\ stack[t] = <<>>
    /\ \A m \in Msg : Dest[m] = t =>
         /\ fate[m] \notin {"pending", "running"}
         /\ sender[m] # Nobody => m \in ready

\* No message is handed to a handler whose destructor has run
\* (messagequeue.h:69-71): the destructor clears every queue, of posted,
\* delayed and sent messages alike.
NoDispatchToDestroyed ==
  [][\A m \in Msg \ Disposal :
       fate[m] # "running" /\ fate'[m] = "running" => Of[m] \notin destroyed]_vars

\* A message is settled once: it is run from the queue it was put on, and what
\* was run, refused or purged is never run again or purged a second time.
SettledOnce ==
  [][\A m \in Msg : fate'[m] # fate[m] =>
       <<fate[m], fate'[m]>> \in
          {"new"} \X {"pending", "running", "refused"}
          \cup {"pending"} \X {"running", "purged", "done"}
          \cup {<<"running", "done">>}]_vars

Stopping == \E t \in Thread : fStop[t]

\* Threads that send to each other do not wait for each other for ever: unless
\* some thread is being stopped every Send returns.
EverySendReturns ==
  \A m \in Msg : (\E a \in Actor : Sending(a, m))
                  ~> Stopping \/ \A a \in Actor : ~Sending(a, m)

\* What is posted, at once or delayed, is taken from the queue in the end
\* unless some thread is being stopped.
EveryPostIsTaken == \A m \in Msg : fate[m] = "pending" ~> Stopping \/ fate[m] # "pending"

\* messagequeue.h:157-159: "any pending Sends and *ready* Posts (as opposed to
\* unexpired delayed Posts) will be delivered before Get (or Peek) returns
\* false": a thread whose pump has ended has none left.
StopDeliversPending ==
  \A t \in Thread \ deleted : stack[t] = <<>> => msgq[t] = <<>> /\ sendlist[t] = <<>>

\* thread.cc:277-279: "thread sending exits: We don't allow this, since thread
\* can exit only via Join, so Send must complete": the actor a receiver is
\* about to wake is still inside its Send, and so is the socket server it owns.
SenderOutlivesReply ==
  \A a \in Thread, m \in Msg : At(a, "reply") /\ Top(a).arg = m => Sending(sender[m], m)

=============================================================================
