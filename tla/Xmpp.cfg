SPECIFICATION FairSpec
CONSTANTS
  client = client
  push = push
  s1 = s1
  s2 = s2
  NoTask = NoTask
  Task = {client, push, s1, s2}
  Root = client
  Push = push
  Timed = {s1, s2}
  MaxStanzas = 1
  MaxPushed = 1
  MaxFaults = 1
  Polls = TRUE
INVARIANTS NothingDeletedIsUsed DeadlineIsWatched SentInOrder
PROPERTIES ClosedIsDeleted AnswerIsReported
CHECK_DEADLOCK FALSE
