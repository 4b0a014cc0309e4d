---------------------------------- MODULE Tasks ----------------------------------
(* Task, TaskRunner and XmppTask: tasks that one thread steps until all of them *)
(* are blocked, and deletes when they are done.  A world w is a record with     *)
(* field run, the runner and its tasks.  No task is aborted while it is         *)
(* processing: only a parent that stops aborts, and one task runs at a time.    *)
EXTENDS Integers, SequencesExt

CONSTANTS
  Task,       \* the tasks of a runner
  Root,       \* the one whose children the others are
  Timed,      \* tasks with timeout_seconds_
  NoTask

ASSUME TasksAssumption ==
  /\ Root \in Task /\ NoTask \notin Task
  /\ Timed \subseteq Task

\* state: "none" before the constructor and "deleted" after the destructor;
\* tasks: tasks_; due: those with a timeout_time_, soonest first; late: those of
\* them that are past it; next: next_timeout_task_; awake: WakeTasks has posted;
\* turn: 0, or in RunTasks the index it has come to; queue: stanza_queue_;
\* handlers: the tasks that the engine offers stanzas to.
NoTasks ==
  [state |-> [t \in Task |-> "none"], blocked |-> [t \in Task |-> FALSE],
   done |-> [t \in Task |-> FALSE], tasks |-> <<>>, due |-> <<>>, late |-> {},
   next |-> NoTask, awake |-> FALSE, turn |-> 0,
   queue |-> [t \in Task |-> <<>>], handlers |-> <<>>]

Lives(w, t) == w.run.state[t] \notin {"none", "deleted"}
Children(w) == {t \in Task \ {Root} : Lives(w, t) /\ ~w.run.done[t]}

-----------------------------------------------------------------------------
(* Timeouts                                                                  *)

\* The first in due that is not done, without the task x.
RecalcNextTimeout(w, x) ==
  LET waits == SelectSeq(w.run.due, LAMBDA t : t \in ToSet(w.run.tasks) \ {x} /\ ~w.run.done[t])
  IN [w EXCEPT !.run.next = IF waits = <<>> THEN NoTask ELSE Head(waits)]

Sooner(w, t, u) ==
  \/ u = NoTask
  \/ \E i, j \in DOMAIN w.run.due : i <= j /\ w.run.due[i] = t /\ w.run.due[j] = u

\* Mutant: a task that has no timeout any more is watched on.
UpdateTaskTimeoutKeep(w, t) ==
  IF t \in ToSet(w.run.due) /\ Sooner(w, t, w.run.next) THEN [w EXCEPT !.run.next = t] ELSE w

UpdateTaskTimeout(w, t) ==
  IF t \in ToSet(w.run.due)
  THEN IF Sooner(w, t, w.run.next) THEN [w EXCEPT !.run.next = t] ELSE w
  ELSE IF w.run.next = t THEN RecalcNextTimeout(w, t) ELSE w

ClearTimeout(w, t) ==
  UpdateTaskTimeout([w EXCEPT !.run.due = SelectSeq(@, LAMBDA u : u # t),
                              !.run.late = @ \ {t}], t)

\* Every timeout is as long as the others: the new one is the last.
ResetTimeout(w, t) ==
  IF t \in Timed /\ w.run.state[t] \notin {"INIT", "DONE", "ERROR"}
  THEN UpdateTaskTimeout([w EXCEPT !.run.due = Append(SelectSeq(@, LAMBDA u : u # t), t),
                                   !.run.late = @ \ {t}], t)
  ELSE ClearTimeout(w, t)

TimedOut(w, t) == t \in w.run.late

-----------------------------------------------------------------------------
(* Waking and stopping                                                       *)

WakeTasks(w) == [w EXCEPT !.run.awake = TRUE]

\* Mutant: only a task that waits for a deadline is woken.
WakeTimed(w, t) ==
  IF w.run.done[t] \/ ~w.run.blocked[t] \/ t \notin Timed THEN w
  ELSE WakeTasks([w EXCEPT !.run.blocked[t] = FALSE])

Wake(w, t) ==
  IF w.run.done[t] \/ ~w.run.blocked[t] THEN w
  ELSE WakeTasks([w EXCEPT !.run.blocked[t] = FALSE])

Create(w, t) ==
  [w EXCEPT !.run.state[t] = "INIT",
            !.run.handlers = IF t = Root THEN @ ELSE Append(@, t)]

Start(w, t) ==
  WakeTasks(UpdateTaskTimeout([w EXCEPT !.run.tasks = Append(@, t)], t))

\* XmppTask::StopImpl
StopImpl(w, t) ==
  [w EXCEPT !.run.queue[t] = <<>>, !.run.handlers = SelectSeq(@, LAMBDA u : u # t)]

\* Abort of a child by a parent that stops; the child has no children.
Abort(w, t) ==
  StopImpl([w EXCEPT !.run.done[t] = TRUE, !.run.blocked[t] = TRUE], t)

\* Mutant: the children of a task that stops are left alone.
StopAlone(w, t) == StopImpl(w, t)

\* Stop, and OnChildStopped of the parent.
Stop(w, t) ==
  IF t = Root THEN FoldLeft(Abort, StopImpl(w, t), SetToSeq(Children(w) \ {t}))
  ELSE StopImpl(w, t)

\* Mutant: a stanza that is queued wakes nobody.
QueueStanzaQuiet(w, t, stanza) == [w EXCEPT !.run.queue[t] = Append(@, stanza)]

QueueStanza(w, t, stanza) == Wake([w EXCEPT !.run.queue[t] = Append(@, stanza)], t)

-----------------------------------------------------------------------------
(* Running                                                                   *)

\* What Step makes of the state that Process returned.  Left out: error_, which is set
\* for no task here, and the abort of a task from inside its own Process.
Settle(w, t, new) ==
  IF new = "BLOCKED" THEN [w EXCEPT !.run.blocked[t] = TRUE]
  ELSE LET w1 == ResetTimeout([w EXCEPT !.run.state[t] = new, !.run.blocked[t] = FALSE], t)
       IN IF new \in {"DONE", "ERROR"}
          THEN [Stop([w1 EXCEPT !.run.done[t] = TRUE], t) EXCEPT !.run.blocked[t] = TRUE]
          ELSE w1

Ready(w) == {i \in DOMAIN w.run.tasks : ~w.run.blocked[w.run.tasks[i]]}

\* The index of the task that RunTasks steps next: none that runs before the
\* turn's is passed over until the loop begins again.
NextReady(w) ==
  LET ahead == {i \in Ready(w) : i >= w.run.turn}
      among == IF ahead = {} THEN Ready(w) ELSE ahead
  IN CHOOSE i \in among : \A j \in among : i <= j

\* OnMessage of the runner's thread.
EnterRunTasks(w) == [w EXCEPT !.run.awake = FALSE, !.run.turn = 1]

Deleted(w) == {t \in ToSet(w.run.tasks) : w.run.done[t]}

\* All are blocked: those that are done are deleted.
LeaveRunTasks(w) ==
  LET dead == Deleted(w)
      w1 == [w EXCEPT !.run.turn = 0, !.run.tasks = SelectSeq(@, LAMBDA t : t \notin dead),
                      !.run.due = SelectSeq(@, LAMBDA t : t \notin dead), !.run.late = @ \ dead,
                      !.run.state = [t \in Task |-> IF t \in dead THEN "deleted" ELSE @[t]]]
  IN IF w.run.next \in dead THEN RecalcNextTimeout(w1, NoTask) ELSE w1

\* The runner's owner may poll.
PollTasks(w) ==
  IF w.run.next # NoTask /\ TimedOut(w, w.run.next)
  THEN WakeTasks(Wake(w, w.run.next)) ELSE w
===============================================================================
