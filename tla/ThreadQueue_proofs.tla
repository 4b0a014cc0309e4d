-------------------------- MODULE ThreadQueue_proofs --------------------------
(* Theorems about ThreadQueue, for every set of threads, clients, messages   *)
(* and handlers.                                                             *)
EXTENDS ThreadQueue, FiniteSetTheorems, SequenceTheorems, TLAPS

-----------------------------------------------------------------------------
(* Stacks and queues.                                                        *)

\* Pushing an element: it is the first, the others move one place down.
LEMMA Pushed ==
  ASSUME NEW S, NEW s \in Seq(S), NEW f \in S
  PROVE  /\ <<f>> \o s \in Seq(S)
         /\ Len(<<f>> \o s) = Len(s) + 1
         /\ (<<f>> \o s)[1] = f
         /\ \A i \in 1..Len(s) : (<<f>> \o s)[i + 1] = s[i]
         /\ Head(<<f>> \o s) = f
         /\ <<f>> \o s # <<>>
OBVIOUS

\* Replacing the first element leaves the others where they are.
LEMMA Replaced ==
  ASSUME NEW S, NEW s \in Seq(S), NEW f \in S, s # <<>>
  PROVE  /\ <<f>> \o Tail(s) \in Seq(S)
         /\ Len(<<f>> \o Tail(s)) = Len(s)
         /\ (<<f>> \o Tail(s))[1] = f
         /\ \A i \in 2..Len(s) : (<<f>> \o Tail(s))[i] = s[i]
         /\ Head(<<f>> \o Tail(s)) = f
         /\ <<f>> \o Tail(s) # <<>>
OBVIOUS

\* Replacing the first element by two: the others move one place down.
LEMMA ReplacedByTwo ==
  ASSUME NEW S, NEW s \in Seq(S), NEW f \in S, NEW g \in S, s # <<>>
  PROVE  /\ <<f, g>> \o Tail(s) \in Seq(S)
         /\ Len(<<f, g>> \o Tail(s)) = Len(s) + 1
         /\ (<<f, g>> \o Tail(s))[1] = f
         /\ (<<f, g>> \o Tail(s))[2] = g
         /\ \A i \in 2..Len(s) : (<<f, g>> \o Tail(s))[i + 1] = s[i]
         /\ Head(<<f, g>> \o Tail(s)) = f
         /\ <<f, g>> \o Tail(s) # <<>>
OBVIOUS

\* Popping the first element: the others move one place up.
LEMMA Popped ==
  ASSUME NEW S, NEW s \in Seq(S), s # <<>>
  PROVE  /\ Tail(s) \in Seq(S)
         /\ Len(Tail(s)) = Len(s) - 1
         /\ \A i \in 1..Len(s) - 1 : Tail(s)[i] = s[i + 1]
         /\ Tail(s) # <<>> => Head(Tail(s)) = s[2] /\ Len(s) > 1
OBVIOUS

\* Every place of a range but the first has one before it.
LEMMA Predecessor ==
  ASSUME NEW low \in Nat, NEW high \in Nat, NEW i \in Nat, low < i, i <= high + 1
  PROVE  \E j \in low..high : j + 1 = i
<1>1. i - 1 \in low..high /\ (i - 1) + 1 = i
  OBVIOUS
<1> QED BY <1>1

\* The parts of a queue that is not empty.
LEMMA HeadTyped ==
  ASSUME NEW S, NEW s \in Seq(S), s # <<>>
  PROVE  Head(s) \in S /\ Tail(s) \in Seq(S)
OBVIOUS

\* The elements of a concatenation, of a part, of an insertion.
LEMMA ConcatElements ==
  ASSUME NEW S, NEW p \in Seq(S), NEW q \in Seq(S), NEW k \in DOMAIN (p \o q)
  PROVE  (\E j \in DOMAIN p : (p \o q)[k] = p[j]) \/ (\E j \in DOMAIN q : (p \o q)[k] = q[j])
<1>1. k \in 1..Len(p) + Len(q) /\ Len(p) \in Nat /\ Len(q) \in Nat
  BY ConcatProperties
<1>2. CASE k <= Len(p)
  BY <1>1, <1>2
<1>3. CASE k > Len(p)
  <2>1. k - Len(p) \in DOMAIN q /\ (p \o q)[k] = q[k - Len(p)]
    BY <1>1, <1>3
  <2> QED BY <2>1
<1> QED BY <1>1, <1>2, <1>3

\* A part of a queue holds elements of the queue.
LEMMA SubSeqElements ==
  ASSUME NEW S, NEW s \in Seq(S), NEW i \in 1..Len(s) + 1, NEW j \in 0..Len(s)
  PROVE  /\ SubSeq(s, i, j) \in Seq(S)
         /\ \A k \in DOMAIN SubSeq(s, i, j) : \E n \in DOMAIN s : SubSeq(s, i, j)[k] = s[n]
<1>1. SubSeq(s, i, j) \in Seq(S)
  OBVIOUS
<1>2. ASSUME NEW k \in DOMAIN SubSeq(s, i, j)
      PROVE  \E n \in DOMAIN s : SubSeq(s, i, j)[k] = s[n]
  <2>1. i + k - 1 \in DOMAIN s /\ SubSeq(s, i, j)[k] = s[i + k - 1]
    OBVIOUS
  <2> QED BY <2>1
<1> QED BY <1>1, <1>2

\* PushMsg of a delayed message adds that message and nothing else.
LEMMA Inserted ==
  ASSUME NEW S, NEW s \in Seq(S), NEW i \in 1..Len(s) + 1, NEW m \in S
  PROVE  /\ InsertAt(s, i, m) \in Seq(S)
         /\ \A k \in DOMAIN InsertAt(s, i, m) :
              InsertAt(s, i, m)[k] = m \/ \E j \in DOMAIN s : InsertAt(s, i, m)[k] = s[j]
<1> DEFINE p == SubSeq(s, 1, i - 1)
           q == SubSeq(s, i, Len(s))
<1>1. p \in Seq(S) /\ \A x \in DOMAIN p : \E n \in DOMAIN s : p[x] = s[n]
  BY 1 \in 1..Len(s) + 1, i - 1 \in 0..Len(s), SubSeqElements
<1>2. q \in Seq(S) /\ \A x \in DOMAIN q : \E n \in DOMAIN s : q[x] = s[n]
  BY Len(s) \in 0..Len(s), SubSeqElements
<1> HIDE DEF p, q
<1>3. <<m>> \in Seq(S) /\ \A x \in DOMAIN <<m>> : <<m>>[x] = m
  OBVIOUS
<1>4. p \o <<m>> \in Seq(S)
  BY <1>1, <1>3, ConcatProperties
<1>5. \A x \in DOMAIN (p \o <<m>>) : (p \o <<m>>)[x] = m \/ \E n \in DOMAIN s : (p \o <<m>>)[x] = s[n]
  BY <1>1, <1>3, ConcatElements
<1>6. p \o <<m>> \o q \in Seq(S)
  BY <1>2, <1>4, ConcatProperties
<1>7. \A x \in DOMAIN (p \o <<m>> \o q) :
        (p \o <<m>> \o q)[x] = m \/ \E n \in DOMAIN s : (p \o <<m>> \o q)[x] = s[n]
  BY <1>2, <1>4, <1>5, ConcatElements
<1> QED BY <1>6, <1>7 DEF p, q, InsertAt

\* A push at the end adds that message and nothing else.
LEMMA Appended ==
  ASSUME NEW S, NEW s \in Seq(S), NEW m \in S, NEW k \in DOMAIN Append(s, m)
  PROVE  Append(s, m)[k] = m \/ \E j \in DOMAIN s : Append(s, m)[k] = s[j] /\ s[j] \in S
OBVIOUS

\* What is left of a queue after a Clear is a sequence of its elements, is
\* empty when it was, and is the same when it held none of those cleared.
LEMMA WithoutType ==
  ASSUME NEW S, NEW s \in Seq(S), NEW R, NEW r \in Without(s, R)
  PROVE  /\ r \in Seq(S)
         /\ \A i \in DOMAIN r : \E j \in DOMAIN s : r[i] = s[j]
         /\ s = <<>> => r = <<>>
         /\ (\A i \in DOMAIN s : s[i] \notin R) => r = s
<1> DEFINE kept == {i \in DOMAIN s : s[i] \notin R}
           n    == Cardinality(kept)
<1>1. CASE kept = DOMAIN s
  BY <1>1 DEF Without
<1>2. CASE kept # DOMAIN s
  <2>1. n \in Nat
    <3>1. IsFiniteSet(1..Len(s)) BY FS_Interval
    <3>2. kept \subseteq 1..Len(s) OBVIOUS
    <3> QED BY <3>1, <3>2, FS_Subset, FS_CardinalityType
  <2>2. PICK f \in [1..n -> kept] : r = [k \in 1..n |-> s[f[k]]]
    BY <1>2 DEF Without
  <2>3. \A k \in 1..n : f[k] \in DOMAIN s /\ s[f[k]] \in S
    OBVIOUS
  <2>4. r \in Seq(S)
    BY <2>1, <2>2, <2>3
  <2>5. s # <<>>
    <3>1. PICK i \in DOMAIN s : i \notin kept BY <1>2
    <3> QED BY <3>1
  <2> QED BY <1>2, <2>1, <2>2, <2>3, <2>4, <2>5
<1> QED BY <1>1, <1>2

\* What Clear leaves of each queue; the queues of other threads, and those that
\* held none of the messages, are the same.
LEMMA PurgeType ==
  ASSUME NEW S, NEW queue \in [Thread -> Seq(S)], NEW T, NEW R, NEW q \in Purge(queue, T, R)
  PROVE  /\ q \in [Thread -> Seq(S)]
         /\ \A t \in Thread :
              /\ \A i \in DOMAIN q[t] : \E j \in DOMAIN queue[t] : q[t][i] = queue[t][j]
              /\ queue[t] = <<>> => q[t] = <<>>
              /\ t \notin T \/ (\A i \in DOMAIN queue[t] : queue[t][i] \notin R)
                   => q[t] = queue[t]
<1> DEFINE rest(t) == IF t \in T THEN Without(queue[t], R) ELSE {queue[t]}
<1>1. /\ q \in [Thread -> UNION {rest(t) : t \in Thread}]
      /\ \A t \in Thread : q[t] \in rest(t)
  BY DEF Purge
<1>2. ASSUME NEW t \in Thread
      PROVE  /\ q[t] \in Seq(S)
             /\ \A i \in DOMAIN q[t] : \E j \in DOMAIN queue[t] : q[t][i] = queue[t][j]
             /\ queue[t] = <<>> => q[t] = <<>>
             /\ t \notin T \/ (\A i \in DOMAIN queue[t] : queue[t][i] \notin R)
                  => q[t] = queue[t]
  <2>1. CASE t \in T
    <3>1. q[t] \in Without(queue[t], R) BY <1>1, <2>1
    <3> QED BY <2>1, <3>1, WithoutType
  <2>2. CASE t \notin T
    BY <1>1, <2>2
  <2> QED BY <2>1, <2>2
<1> QED BY <1>1, <1>2

-----------------------------------------------------------------------------
(* Type correctness.                                                         *)

\* The frame an actor executes carries what its point of the code works on.
LEMMA TopTyped ==
  ASSUME TypeOK, NEW a \in Actor, NEW at, At(a, at)
  PROVE  /\ stack[a] \in Seq(Frame) /\ stack[a] # <<>>
         /\ Top(a) = stack[a][1] /\ Top(a) \in Frame
         /\ Top(a).at = at
         /\ at \in MsgPoints => Top(a).arg \in Msg
         /\ at \in ThreadPoints => Top(a).arg \in Thread
         /\ at \in PumpPoints => Top(a).arg \in Msg \cup {Nobody}
BY DEF TypeOK, At, Top, Frame, MsgPoints, ThreadPoints, PumpPoints

\* A call at a point, with what that point works on, is a frame.
LEMMA CallTyped ==
  ASSUME NEW at, NEW arg
  PROVE  /\ at \in MsgPoints /\ arg \in Msg => Call(at, arg) \in Frame
         /\ at \in ThreadPoints /\ arg \in Thread => Call(at, arg) \in Frame
         /\ at \in PumpPoints /\ arg \in Msg \cup {Nobody} => Call(at, arg) \in Frame
         /\ Call(at, arg).at = at /\ Call(at, arg).arg = arg
BY DEF Call, Frame

\* The ways a stack changes keep it a stack, and leave the others alone.
LEMMA StackTyped ==
  ASSUME stack \in [Actor -> Seq(Frame)], NEW a \in Actor
  PROVE  /\ \A f \in Frame : Invoke(a, f) \in [Actor -> Seq(Frame)]
         /\ stack[a] # <<>> =>
              /\ Return(a) \in [Actor -> Seq(Frame)]
              /\ \A f \in Frame : Replace(a, f) \in [Actor -> Seq(Frame)]
<1>1. \A f \in Frame : <<f>> \o stack[a] \in Seq(Frame)
  BY Pushed
<1>2. ASSUME stack[a] # <<>>
      PROVE  /\ Tail(stack[a]) \in Seq(Frame)
             /\ \A f \in Frame : <<f>> \o Tail(stack[a]) \in Seq(Frame)
  BY <1>2, Popped, Replaced
<1> QED BY <1>1, <1>2 DEF Invoke, Return, Replace

\* The frame executed becomes two.
LEMMA SplitTyped ==
  ASSUME stack \in [Actor -> Seq(Frame)], NEW a \in Actor, stack[a] # <<>>,
         NEW f \in Frame, NEW g \in Frame
  PROVE  Split(a, f, g) \in [Actor -> Seq(Frame)]
<1>1. <<f, g>> \o Tail(stack[a]) \in Seq(Frame)
  BY ReplacedByTwo
<1> QED BY <1>1 DEF Split

\* Clear keeps every queue, flag and fate what it is declared to be.
LEMMA ClearTyped ==
  ASSUME TypeOK, NEW T, NEW R \in SUBSET Msg, Clear(T, R)
  PROVE  /\ msgq' \in [Thread -> Seq(Msg)]
         /\ dmsgq' \in [Thread -> Seq(Msg)]
         /\ due' \in [Thread -> Seq(Msg)]
         /\ sendlist' \in [Thread -> Seq(Msg)]
         /\ hasSends' \in [Thread -> BOOLEAN]
         /\ sender' \in [Msg -> Actor \cup {Nobody}]
         /\ ready' \subseteq Msg
         /\ wake' \in [Actor -> BOOLEAN]
         /\ fate' \in [Msg -> {"new", "pending", "running", "done", "refused", "purged"}]
<1>1. /\ msgq' \in Purge(msgq, T, R) /\ dmsgq' \in Purge(dmsgq, T, R)
      /\ due' \in Purge(due, T, R) /\ sendlist' \in Purge(sendlist, T, R)
  BY DEF Clear
<1>2. /\ msgq' \in [Thread -> Seq(Msg)] /\ dmsgq' \in [Thread -> Seq(Msg)]
      /\ due' \in [Thread -> Seq(Msg)] /\ sendlist' \in [Thread -> Seq(Msg)]
  BY <1>1, PurgeType DEF TypeOK
<1>3. ready' \subseteq Msg
  BY DEF Clear, TypeOK
<1>4. wake' \in [Actor -> BOOLEAN]
  BY DEF Clear, TypeOK
<1>5. fate' \in [Msg -> {"new", "pending", "running", "done", "refused", "purged"}]
  BY DEF Clear, TypeOK
<1> QED BY <1>2, <1>3, <1>4, <1>5 DEF Clear, TypeOK

\* Every step keeps the declared types.
LEMMA KeepsType ==
  ASSUME TypeOK, [Next]_vars
  PROVE  TypeOK'
<1> USE ThreadQueueAssumption
<1> DEFINE Fates == {"new", "pending", "running", "done", "refused", "purged"}
<1>1. \A t \in Thread : t \in Actor
  BY DEF Actor
<1>2. ASSUME NEW a \in Actor, Step(a) PROVE TypeOK'
  <2>1. CASE PostLocked(a)
    <3>1. Top(a).arg \in Msg /\ stack[a] # <<>>
      BY <2>1, TopTyped DEF PostLocked, MsgPoints
    <3>2. msgq' \in [Thread -> Seq(Msg)]
      BY <2>1, <3>1 DEF PostLocked, TypeOK
    <3>3. stack' \in [Actor -> Seq(Frame)]
      BY <2>1, <3>1, StackTyped DEF PostLocked, TypeOK
    <3>4. wake' \in [Actor -> BOOLEAN]
      BY <2>1 DEF PostLocked, TypeOK
    <3> QED BY <2>1, <3>2, <3>3, <3>4 DEF PostLocked, TypeOK, sends, life
  <2>2. CASE PostDelayedLocked(a)
    <3>1. Top(a).arg \in Msg /\ stack[a] # <<>>
      BY <2>2, TopTyped DEF PostDelayedLocked, MsgPoints
    <3>2. \A i \in 1..Len(dmsgq[Dest[Top(a).arg]]) + 1 :
            InsertAt(dmsgq[Dest[Top(a).arg]], i, Top(a).arg) \in Seq(Msg)
      BY <3>1, Inserted DEF TypeOK
    <3>3. dmsgq' \in [Thread -> Seq(Msg)]
      BY <2>2, <3>1, <3>2 DEF PostDelayedLocked, TypeOK
    <3> QED BY <2>2, <3>1, <3>3, StackTyped DEF PostDelayedLocked, TypeOK, sends, life
  <2>3. CASE SendLocked(a)
    <3>1. Top(a).arg \in Msg /\ stack[a] # <<>>
      BY <2>3, TopTyped DEF SendLocked, MsgPoints
    <3>2. stack' \in [Actor -> Seq(Frame)]
      BY <2>3, <3>1, CallTyped, StackTyped DEF SendLocked, GoTo, TypeOK, MsgPoints
    <3>3. sendlist' \in [Thread -> Seq(Msg)]
      BY <2>3, <3>1 DEF SendLocked, TypeOK
    <3> QED BY <2>3, <3>1, <3>2, <3>3 DEF SendLocked, TypeOK, queues, life
  <2>4. CASE SendWakeUp(a)
    BY <2>4, TopTyped, CallTyped, StackTyped DEF SendWakeUp, GoTo, TypeOK, queues, sends, life, MsgPoints
  <2>5. CASE SendTest(a)
    <3>1. Top(a).arg \in Msg /\ stack[a] # <<>>
      BY <2>5, TopTyped DEF SendTest, MsgPoints
    <3>2. Call("sendWait", Top(a).arg) \in Frame /\ Call("sends", Nobody) \in Frame
      BY <3>1, CallTyped DEF MsgPoints, PumpPoints
    <3>3. stack' \in [Actor -> Seq(Frame)]
      <4>1. /\ Return(a) \in [Actor -> Seq(Frame)]
            /\ GoTo(a, "sendWait") \in [Actor -> Seq(Frame)]
        BY <3>1, <3>2, StackTyped DEF GoTo, TypeOK
      <4>2. GoToCall(a, "sendWait", Call("sends", Nobody)) \in [Actor -> Seq(Frame)]
        BY <3>1, <3>2, SplitTyped DEF GoToCall, TypeOK
      <4> QED BY <2>5, <4>1, <4>2 DEF SendTest
    <3> QED BY <2>5, <3>3 DEF SendTest, TypeOK, queues, sends, life
  <2>6. CASE SendWait(a)
    BY <2>6, TopTyped, CallTyped, StackTyped DEF SendWait, GoTo, TypeOK, queues, sends, life, MsgPoints
  <2>7. CASE HandlerReturns(a)
    BY <2>7, TopTyped, StackTyped DEF HandlerReturns, TypeOK, queues, sends, life
  <2>8. CASE StopWakeUp(a)
    BY <2>8, TopTyped, CallTyped, StackTyped DEF StopWakeUp, GoTo, TypeOK, queues, sends, life, ThreadPoints
  <2>9. CASE Join(a)
    <3>1. stack[a] # <<>> /\ Call("clear", Top(a).arg) \in Frame
      BY <2>9, TopTyped, CallTyped DEF Join, ThreadPoints
    <3>2. stack' = Replace(a, Call("clear", Top(a).arg))
      BY <2>9 DEF Join, GoTo
    <3>3. stack' \in [Actor -> Seq(Frame)]
      BY <3>1, <3>2, StackTyped DEF TypeOK
    <3> QED BY <2>9, <3>3 DEF Join, TypeOK, queues, sends, life
  <2>10. CASE DeleteThread(a)
    <3>1. Top(a).arg \in Thread /\ stack[a] # <<>>
      BY <2>10, TopTyped DEF DeleteThread, ThreadPoints
    <3>2. stack' \in [Actor -> Seq(Frame)]
      BY <2>10, <3>1, StackTyped DEF DeleteThread, TypeOK
    <3>3. Clear({Top(a).arg}, Msg)
      BY <2>10 DEF DeleteThread
    <3> QED BY <2>10, <3>1, <3>2, <3>3, ClearTyped DEF DeleteThread, TypeOK
  <2> QED BY <1>2, <2>1, <2>2, <2>3, <2>4, <2>5, <2>6, <2>7, <2>8, <2>9, <2>10 DEF Step
<1>3. ASSUME NEW t \in Thread, Pump(t) PROVE TypeOK'
  <2> USE <1>1
  <2>1. CASE ReceiveSends(t)
    BY <2>1, TopTyped, CallTyped, StackTyped
    DEF ReceiveSends, GoTo, TypeOK, queues, sends, life, PumpPoints
  <2>2. CASE ReceiveSend(t)
    <3>1. stack[t] # <<>>
      BY <2>2, TopTyped DEF ReceiveSend
    <3>2. CASE sendlist[t] = <<>>
      <4>1. stack' \in [Actor -> Seq(Frame)]
        BY <2>2, <3>1, <3>2, StackTyped DEF ReceiveSend, TypeOK
      <4> QED BY <2>2, <3>2, <4>1 DEF ReceiveSend, TypeOK, queues, life
    <3>3. CASE sendlist[t] # <<>>
      <4>1. Head(sendlist[t]) \in Msg /\ Tail(sendlist[t]) \in Seq(Msg)
        BY <3>3 DEF TypeOK
      <4>2. Call("run", Head(sendlist[t])) \in Frame /\ Call("finish", Head(sendlist[t])) \in Frame
        BY <4>1, CallTyped DEF MsgPoints
      <4>3. stack' \in [Actor -> Seq(Frame)]
        <5>1. stack' = Split(t, Call("run", Head(sendlist[t])), Call("finish", Head(sendlist[t])))
          BY <2>2, <3>3 DEF ReceiveSend
        <5> QED BY <3>1, <4>2, <5>1, SplitTyped DEF TypeOK
      <4>4. sendlist' \in [Thread -> Seq(Msg)]
        <5>1. sendlist' = [sendlist EXCEPT ![t] = Tail(sendlist[t])]
          BY <2>2, <3>3 DEF ReceiveSend
        <5>2. sendlist \in [Thread -> Seq(Msg)]
          BY DEF TypeOK
        <5> QED BY <4>1, <5>1, <5>2
      <4>5. fate' \in [Msg -> Fates]
        BY <2>2, <3>3 DEF ReceiveSend, TypeOK
      <4> QED BY <2>2, <3>3, <4>3, <4>4, <4>5 DEF ReceiveSend, TypeOK, queues, life
    <3> QED BY <3>2, <3>3
  <2>3. CASE SendFinished(t)
    <3>1. Top(t).arg \in Msg /\ stack[t] # <<>>
      BY <2>3, TopTyped DEF SendFinished, MsgPoints
    <3>2. stack' \in [Actor -> Seq(Frame)]
      BY <2>3, <3>1, CallTyped, StackTyped DEF SendFinished, GoTo, TypeOK, MsgPoints
    <3> QED BY <2>3, <3>1, <3>2 DEF SendFinished, TypeOK, queues, life
  <2>4. CASE SendReply(t)
    BY <2>4, TopTyped, CallTyped, StackTyped DEF SendReply, TypeOK, queues, sends, life, PumpPoints
  <2>5. CASE Get(t)
    <3>1. Top(t).arg \in Msg \cup {Nobody} /\ stack[t] # <<>>
      BY <2>5, TopTyped DEF Get, PumpPoints
    <3>2. Call("queue", Top(t).arg) \in Frame /\ Call("sends", Nobody) \in Frame
      BY <3>1, CallTyped DEF PumpPoints
    <3> QED BY <2>5, <3>1, <3>2, SplitTyped DEF Get, GoToCall, TypeOK, queues, sends, life
  <2>6. CASE GetQueue(t)
    <3> DEFINE q == msgq[t] \o due[t]
    <3>1. Top(t).arg \in Msg \cup {Nobody} /\ stack[t] # <<>>
      BY <2>6, TopTyped DEF GetQueue, PumpPoints
    <3>2. q \in Seq(Msg) /\ due' \in [Thread -> Seq(Msg)]
      BY <2>6 DEF GetQueue, TypeOK
    <3>3. CASE q = <<>>
      <4>1. Soonest(dmsgq[t]) \in Msg \cup {Nobody}
        BY DEF Soonest, TypeOK
      <4>2. Call("stopped", Soonest(dmsgq[t])) \in Frame
        BY <4>1, CallTyped DEF PumpPoints
      <4>3. stack' \in [Actor -> Seq(Frame)]
        BY <2>6, <3>1, <3>3, <4>2, StackTyped DEF GetQueue, TypeOK
      <4> QED BY <2>6, <3>2, <3>3, <4>3 DEF GetQueue, TypeOK, sends, life
    <3>4. CASE q # <<>>
      <4> HIDE DEF q
      <4>1. Head(q) \in Msg /\ Tail(q) \in Seq(Msg)
        BY <3>2, <3>4
      <4>2. Call("get", Top(t).arg) \in Frame /\ Call("run", Head(q)) \in Frame
        BY <3>1, <4>1, CallTyped DEF PumpPoints, MsgPoints
      <4>3. /\ msgq' = [msgq EXCEPT ![t] = Tail(q)]
            /\ \/ stack' = stack
               \/ stack' = Split(t, Call("run", Head(q)), Call("get", Top(t).arg))
            /\ fate' \in [Msg -> Fates]
        BY <2>6, <3>4 DEF GetQueue, GoToCall, TypeOK, q
      <4>4. stack' \in [Actor -> Seq(Frame)]
        <5>1. Split(t, Call("run", Head(q)), Call("get", Top(t).arg)) \in [Actor -> Seq(Frame)]
          BY <3>1, <4>2, SplitTyped DEF TypeOK
        <5> QED BY <4>3, <5>1 DEF TypeOK
      <4>5. msgq' \in [Thread -> Seq(Msg)]
        BY <4>1, <4>3 DEF TypeOK
      <4> QED BY <2>6, <3>2, <4>3, <4>4, <4>5 DEF GetQueue, TypeOK, sends, life
    <3> QED BY <3>3, <3>4
  <2>7. CASE GetStopped(t)
    BY <2>7, TopTyped, CallTyped, StackTyped DEF GetStopped, GoTo, TypeOK, queues, sends, life, PumpPoints
  <2>8. CASE GetWait(t)
    BY <2>8, TopTyped, CallTyped, StackTyped DEF GetWait, TypeOK, queues, sends, life, PumpPoints
  <2> QED BY <1>3, <2>1, <2>2, <2>3, <2>4, <2>5, <2>6, <2>7, <2>8 DEF Pump
<1>4. ASSUME NEW t \in Thread, Trigger(t) PROVE TypeOK'
  <2>1. Head(dmsgq[t]) \in Msg /\ Tail(dmsgq[t]) \in Seq(Msg)
    BY <1>4 DEF Trigger, TypeOK
  <2>2. due' \in [Thread -> Seq(Msg)] /\ dmsgq' \in [Thread -> Seq(Msg)]
    BY <1>4, <2>1 DEF Trigger, TypeOK
  <2> QED BY <1>4, <2>2 DEF Trigger, TypeOK, sends, life
<1>5. ASSUME NEW a \in Actor, Application(a) PROVE TypeOK'
  <2>1. ASSUME NEW m \in Msg, Post(a, m) PROVE TypeOK'
    <3>1. /\ Call("post", m) \in Frame /\ Call("postDelayed", m) \in Frame
      BY CallTyped DEF MsgPoints
    <3>2. stack' \in [Actor -> Seq(Frame)]
      BY <2>1, <3>1, StackTyped DEF Post, Refuse, TypeOK
    <3>3. fate' \in [Msg -> Fates]
      BY <2>1 DEF Post, Refuse, TypeOK
    <3> QED BY <2>1, <3>2, <3>3 DEF Post, Refuse, TypeOK, queues, sends, life
  <2>2. ASSUME NEW m \in Msg, Send(a, m) PROVE TypeOK'
    <3>1. /\ Call("run", m) \in Frame /\ Call("send", m) \in Frame
      BY CallTyped DEF MsgPoints
    <3>2. stack' \in [Actor -> Seq(Frame)]
      BY <2>2, <3>1, StackTyped DEF Send, Refuse, TypeOK
    <3>3. fate' \in [Msg -> Fates]
      BY <2>2 DEF Send, Refuse, TypeOK
    <3>4. wake' \in [Actor -> BOOLEAN]
      BY <2>2 DEF Send, Refuse, TypeOK
    <3> QED BY <2>2, <3>2, <3>3, <3>4 DEF Send, Refuse, TypeOK, queues, sends, life
  <2>3. ASSUME NEW t \in Thread, Stop(a, t) \/ JoinStopped(a, t) PROVE TypeOK'
    <3>1. Call("stop", t) \in Frame
      BY CallTyped DEF ThreadPoints
    <3>2. stack' \in [Actor -> Seq(Frame)]
      BY <2>3, <3>1, StackTyped DEF Stop, JoinStopped, TypeOK
    <3> QED BY <2>3, <3>2 DEF Stop, JoinStopped, TypeOK, queues, sends, life
  <2>4. ASSUME NEW h \in Handler, DestroyHandler(a, h) PROVE TypeOK'
    <3>1. Clear(Thread \ deleted, MessagesOf(h)) /\ MessagesOf(h) \in SUBSET Msg
      BY <2>4 DEF DestroyHandler, MessagesOf
    <3> QED BY <2>4, <3>1, ClearTyped DEF DestroyHandler, TypeOK
  <2> QED BY <1>5, <2>1, <2>2, <2>3, <2>4 DEF Application
<1>6. CASE UNCHANGED vars
  BY <1>6 DEF vars, queues, sends, life, TypeOK
<1> QED BY <1>2, <1>3, <1>4, <1>5, <1>6 DEF Next

\* A new Thread has empty queues and is about to enter Get.
LEMMA InitType == Init => TypeOK
BY ThreadQueueAssumption DEF Init, TypeOK, Actor, Call, Frame, PumpPoints


\* Every queue, flag and call stack holds what its declaration allows: the
\* frames of Post, Send and a handler carry a message, those of Stop, Join and
\* ~Thread a thread, whoever interrupts whom.
THEOREM TypeCorrect == Spec => []TypeOK
<1>1. Init => TypeOK
  BY InitType
<1>2. TypeOK /\ [Next]_vars => TypeOK'
  BY KeepsType
<1> QED BY <1>1, <1>2, PTL DEF Spec

-----------------------------------------------------------------------------
(* How a step changes a stack, place by place.                               *)

\* A call: its frame is on top, the others lie one place lower.
LEMMA PushShape ==
  ASSUME TypeOK, NEW a \in Actor, NEW f \in Frame, stack' = Invoke(a, f)
  PROVE  /\ \A b \in Actor : b # a => stack'[b] = stack[b]
         /\ stack'[a] \in Seq(Frame) /\ stack'[a] # <<>>
         /\ Len(stack'[a]) = Len(stack[a]) + 1
         /\ Head(stack'[a]) = f /\ stack'[a][1] = f
         /\ \A i \in 1..Len(stack[a]) : stack'[a][i + 1] = stack[a][i]
<1>1. stack'[a] = <<f>> \o stack[a] /\ stack[a] \in Seq(Frame)
  BY DEF Invoke, TypeOK
<1>2. \A b \in Actor : b # a => stack'[b] = stack[b]
  BY DEF Invoke, TypeOK
<1> QED BY <1>1, <1>2, Pushed

\* The frame executed is another, those below it are the same.
LEMMA ReplaceShape ==
  ASSUME TypeOK, NEW a \in Actor, stack[a] # <<>>, NEW f \in Frame, stack' = Replace(a, f)
  PROVE  /\ \A b \in Actor : b # a => stack'[b] = stack[b]
         /\ stack'[a] \in Seq(Frame) /\ stack'[a] # <<>>
         /\ Len(stack'[a]) = Len(stack[a])
         /\ Head(stack'[a]) = f /\ stack'[a][1] = f
         /\ \A i \in 2..Len(stack[a]) : stack'[a][i] = stack[a][i]
<1>1. stack'[a] = <<f>> \o Tail(stack[a]) /\ stack[a] \in Seq(Frame)
  BY DEF Replace, TypeOK
<1>2. \A b \in Actor : b # a => stack'[b] = stack[b]
  BY DEF Replace, TypeOK
<1> QED BY <1>1, <1>2, Replaced

\* The frame executed is another and calls a function.
LEMMA SplitShape ==
  ASSUME TypeOK, NEW a \in Actor, stack[a] # <<>>, NEW f \in Frame, NEW g \in Frame,
         stack' = Split(a, f, g)
  PROVE  /\ \A b \in Actor : b # a => stack'[b] = stack[b]
         /\ stack'[a] \in Seq(Frame) /\ stack'[a] # <<>>
         /\ Len(stack'[a]) = Len(stack[a]) + 1
         /\ Head(stack'[a]) = f /\ stack'[a][1] = f /\ stack'[a][2] = g
         /\ \A i \in 2..Len(stack[a]) : stack'[a][i + 1] = stack[a][i]
<1>1. stack'[a] = <<f, g>> \o Tail(stack[a]) /\ stack[a] \in Seq(Frame)
  BY DEF Split, TypeOK
<1>2. \A b \in Actor : b # a => stack'[b] = stack[b]
  BY DEF Split, TypeOK
<1> QED BY <1>1, <1>2, ReplacedByTwo

\* A return: the caller is on top.
LEMMA PopShape ==
  ASSUME TypeOK, NEW a \in Actor, stack[a] # <<>>, stack' = Return(a)
  PROVE  /\ \A b \in Actor : b # a => stack'[b] = stack[b]
         /\ stack'[a] \in Seq(Frame)
         /\ Len(stack'[a]) = Len(stack[a]) - 1
         /\ \A i \in 1..Len(stack[a]) - 1 : stack'[a][i] = stack[a][i + 1]
         /\ stack'[a] # <<>> => Head(stack'[a]) = stack[a][2] /\ Len(stack[a]) > 1
<1>1. stack'[a] = Tail(stack[a]) /\ stack[a] \in Seq(Frame)
  BY DEF Return, TypeOK
<1>2. \A b \in Actor : b # a => stack'[b] = stack[b]
  BY DEF Return, TypeOK
<1> QED BY <1>1, <1>2, Popped

\* The order of the calls on a stack survives each of the four.
LEMMA StackedPush ==
  ASSUME TypeOK, Stacked, NEW a \in Actor, stack[a] # <<>>, NEW f \in Frame,
         stack' = Invoke(a, f), On(f.at, Top(a).at), a \in Client => f.at \in CallPoints
  PROVE  Stacked'
<1> DEFINE n == Len(stack[a])
<1>1. stack[a] \in Seq(Frame) /\ stack[a][1] = Top(a) /\ n \in Nat /\ DOMAIN stack[a] = 1..n
  BY DEF TypeOK, Top
<1>2. ASSUME NEW b \in Actor, NEW i \in DOMAIN stack'[b], b # a
      PROVE  /\ i > 1 => On(stack'[b][i - 1].at, stack'[b][i].at)
             /\ b \in Client => stack'[b][i].at \in CallPoints \cup {"idle"}
  BY <1>2, PushShape DEF Stacked
<1>3. ASSUME NEW i \in DOMAIN stack'[a]
      PROVE  /\ i > 1 => On(stack'[a][i - 1].at, stack'[a][i].at)
             /\ a \in Client => stack'[a][i].at \in CallPoints \cup {"idle"}
  <2>1. i \in 1..n + 1 /\ stack'[a][1] = f /\ \A k \in 1..n : stack'[a][k + 1] = stack[a][k]
    BY <1>1, PushShape
  <2>2. CASE i = 1
    BY <2>1, <2>2
  <2>3. CASE i = 2
    BY <1>1, <2>1, <2>3 DEF Stacked
  <2>4. CASE i > 2
    <3>1. i - 1 \in DOMAIN stack[a] /\ i - 1 > 1 /\ i - 2 \in 1..n
      BY <1>1, <2>1, <2>4
    <3>2. /\ On(stack[a][i - 1 - 1].at, stack[a][i - 1].at)
          /\ a \in Client => stack[a][i - 1].at \in CallPoints \cup {"idle"}
      BY <3>1 DEF Stacked
    <3>3. stack'[a][i - 1 + 1] = stack[a][i - 1] /\ stack'[a][i - 2 + 1] = stack[a][i - 2]
      BY <1>1, <2>1, <3>1
    <3>4. i - 1 + 1 = i /\ i - 2 + 1 = i - 1 /\ i - 1 - 1 = i - 2
      BY <2>1
    <3> QED BY <3>2, <3>3, <3>4
  <2> QED BY <2>1, <2>2, <2>3, <2>4
<1> QED BY <1>2, <1>3 DEF Stacked

\* An actor goes on to a point its caller may be beneath.
LEMMA StackedReplace ==
  ASSUME TypeOK, Stacked, NEW a \in Actor, stack[a] # <<>>, NEW f \in Frame,
         stack' = Replace(a, f), \A below : On(Top(a).at, below) => On(f.at, below),
         a \in Client => f.at \in CallPoints \cup {"idle"}
  PROVE  Stacked'
<1> DEFINE n == Len(stack[a])
<1>1. stack[a] \in Seq(Frame) /\ stack[a][1] = Top(a) /\ n \in Nat /\ DOMAIN stack[a] = 1..n
  BY DEF TypeOK, Top
<1>2. ASSUME NEW b \in Actor, NEW i \in DOMAIN stack'[b], b # a
      PROVE  /\ i > 1 => On(stack'[b][i - 1].at, stack'[b][i].at)
             /\ b \in Client => stack'[b][i].at \in CallPoints \cup {"idle"}
  BY <1>2, ReplaceShape DEF Stacked
<1>3. ASSUME NEW i \in DOMAIN stack'[a]
      PROVE  /\ i > 1 => On(stack'[a][i - 1].at, stack'[a][i].at)
             /\ a \in Client => stack'[a][i].at \in CallPoints \cup {"idle"}
  <2>1. i \in 1..n /\ stack'[a][1] = f /\ \A k \in 2..n : stack'[a][k] = stack[a][k]
    BY <1>1, ReplaceShape
  <2>2. CASE i = 1
    BY <2>1, <2>2
  <2>3. CASE i > 1
    <3>1. /\ On(stack[a][i - 1].at, stack[a][i].at)
          /\ a \in Client => stack[a][i].at \in CallPoints \cup {"idle"}
          /\ stack'[a][i] = stack[a][i]
      BY <1>1, <2>1, <2>3 DEF Stacked
    <3>2. CASE i = 2
      BY <1>1, <2>1, <3>1, <3>2
    <3>3. CASE i > 2
      <4>1. stack'[a][i - 1] = stack[a][i - 1]
        BY <1>1, <2>1, <3>3
      <4> QED BY <3>1, <4>1
    <3> QED BY <2>1, <2>3, <3>2, <3>3
  <2> QED BY <2>1, <2>2, <2>3
<1> QED BY <1>2, <1>3 DEF Stacked

\* An actor calls a function its next point may be beneath.
LEMMA StackedSplit ==
  ASSUME TypeOK, Stacked, NEW a \in Actor, stack[a] # <<>>, NEW f \in Frame, NEW g \in Frame,
         stack' = Split(a, f, g), On(f.at, g.at),
         \A below : On(Top(a).at, below) => On(g.at, below), a \notin Client
  PROVE  Stacked'
<1> DEFINE n == Len(stack[a])
<1>1. stack[a] \in Seq(Frame) /\ stack[a][1] = Top(a) /\ n \in Nat /\ DOMAIN stack[a] = 1..n
  BY DEF TypeOK, Top
<1>2. ASSUME NEW b \in Actor, NEW i \in DOMAIN stack'[b], b # a
      PROVE  /\ i > 1 => On(stack'[b][i - 1].at, stack'[b][i].at)
             /\ b \in Client => stack'[b][i].at \in CallPoints \cup {"idle"}
  BY <1>2, SplitShape DEF Stacked
<1>3. ASSUME NEW i \in DOMAIN stack'[a], i > 1
      PROVE  On(stack'[a][i - 1].at, stack'[a][i].at)
  <2>1. /\ i \in 1..n + 1 /\ stack'[a][1] = f /\ stack'[a][2] = g
        /\ \A k \in 2..n : stack'[a][k + 1] = stack[a][k]
    BY <1>1, SplitShape
  <2>2. CASE i = 2
    BY <2>1, <2>2
  <2>3. CASE i > 2
    <3>1. i - 1 \in DOMAIN stack[a] /\ i - 1 > 1 /\ i - 1 \in 2..n
      BY <1>1, <2>1, <2>3
    <3>2. On(stack[a][i - 1 - 1].at, stack[a][i - 1].at)
      BY <3>1 DEF Stacked
    <3>3. stack'[a][i - 1 + 1] = stack[a][i - 1] /\ i - 1 + 1 = i /\ i - 1 - 1 = i - 2
      BY <2>1, <3>1
    <3>4. CASE i = 3
      BY <1>1, <2>1, <3>2, <3>3, <3>4
    <3>5. CASE i > 3
      <4>1. i - 2 \in 2..n
        BY <1>1, <2>1, <3>5
      <4>2. stack'[a][i - 2 + 1] = stack[a][i - 2] /\ i - 2 + 1 = i - 1
        BY <2>1, <4>1
      <4> QED BY <3>2, <3>3, <4>2
    <3> QED BY <2>1, <2>3, <3>4, <3>5
  <2> QED BY <1>3, <2>1, <2>2, <2>3
<1> QED BY <1>2, <1>3 DEF Stacked

\* A return leaves the order of the calls as it is.
LEMMA StackedPop ==
  ASSUME TypeOK, Stacked, NEW a \in Actor, stack[a] # <<>>, stack' = Return(a)
  PROVE  Stacked'
<1> DEFINE n == Len(stack[a])
<1>1. stack[a] \in Seq(Frame) /\ n \in Nat /\ DOMAIN stack[a] = 1..n
  BY DEF TypeOK
<1>2. ASSUME NEW b \in Actor, NEW i \in DOMAIN stack'[b], b # a
      PROVE  /\ i > 1 => On(stack'[b][i - 1].at, stack'[b][i].at)
             /\ b \in Client => stack'[b][i].at \in CallPoints \cup {"idle"}
  BY <1>2, PopShape DEF Stacked
<1>3. ASSUME NEW i \in DOMAIN stack'[a]
      PROVE  /\ i > 1 => On(stack'[a][i - 1].at, stack'[a][i].at)
             /\ a \in Client => stack'[a][i].at \in CallPoints \cup {"idle"}
  <2>1. stack'[a] \in Seq(Frame) /\ Len(stack'[a]) = n - 1
    BY PopShape
  <2>2. i \in 1..n - 1
    BY <1>1, <2>1
  <2>3. \A k \in 1..n - 1 : stack'[a][k] = stack[a][k + 1]
    BY PopShape
  <2>4. PICK k \in DOMAIN stack[a] : k = i + 1
    BY <1>1, <2>2
  <2>5. /\ k > 1 => On(stack[a][k - 1].at, stack[a][k].at)
        /\ a \in Client => stack[a][k].at \in CallPoints \cup {"idle"}
    BY DEF Stacked
  <2>6. k > 1 /\ k - 1 = i
    BY <1>1, <2>2, <2>4
  <2>7. stack'[a][i] = stack[a][k]
    BY <2>2, <2>3, <2>4
  <2>8. i > 1 => stack'[a][i - 1] = stack[a][i]
    BY <2>2, <2>3, <1>1
  <2> QED BY <2>5, <2>6, <2>7, <2>8
<1> QED BY <1>2, <1>3 DEF Stacked

-----------------------------------------------------------------------------
(* What a step of actor a keeps, when it pushes f, replaces its frame by f    *)
(* or by f on g, or returns.                                                 *)

Move(a, f, g) ==
  \/ stack' = stack
  \/ stack' = Return(a)
  \/ stack' = Invoke(a, f)
  \/ stack' = Replace(a, f)
  \/ stack' = Split(a, f, g)

Awake(b) == wake[b] \/ WakeUpComing(b)

\* The other stacks, the frames of a, and the one it executes next.
LEMMA ShapeOfMove ==
  ASSUME TypeOK, Stacked, NEW a \in Actor, stack[a] # <<>>, NEW f \in Frame, NEW g \in Frame,
         Move(a, f, g)
  PROVE  /\ \A b \in Actor : b # a => stack'[b] = stack[b]
         /\ \A i \in DOMAIN stack'[a] : \/ stack'[a][i] = f
                                        \/ stack'[a][i] = g
                                        \/ \E j \in DOMAIN stack[a] : stack'[a][i] = stack[a][j]
         /\ stack'[a] # <<>> => \/ stack'[a] = stack[a]
                                \/ Head(stack'[a]) = f
                                \/ stack' = Return(a) /\ On(Top(a).at, Head(stack'[a]).at)
<1>1. stack[a] \in Seq(Frame) /\ Top(a) = stack[a][1]
  BY DEF TypeOK, Top
<1>2. CASE stack' = stack
  BY <1>2
<1>3. CASE stack' = Return(a)
  <2>1. /\ stack'[a] \in Seq(Frame) /\ Len(stack'[a]) = Len(stack[a]) - 1
        /\ \A i \in 1..Len(stack[a]) - 1 : stack'[a][i] = stack[a][i + 1]
        /\ stack'[a] # <<>> => Head(stack'[a]) = stack[a][2] /\ Len(stack[a]) > 1
        /\ \A b \in Actor : b # a => stack'[b] = stack[b]
    BY <1>3, PopShape
  <2>2. \A i \in DOMAIN stack'[a] : i + 1 \in DOMAIN stack[a] /\ stack'[a][i] = stack[a][i + 1]
    BY <1>1, <2>1
  <2>3. ASSUME Len(stack[a]) > 1 PROVE On(stack[a][1].at, stack[a][2].at)
    <3>1. PICK k \in DOMAIN stack[a] : k = 2 /\ k > 1 /\ k - 1 = 1
      BY <1>1, <2>3
    <3>2. On(stack[a][k - 1].at, stack[a][k].at)
      BY <3>1 DEF Stacked
    <3> QED BY <3>1, <3>2
  <2> QED BY <1>1, <1>3, <2>1, <2>2, <2>3
<1>4. CASE stack' = Invoke(a, f)
  <2>1. /\ \A b \in Actor : b # a => stack'[b] = stack[b]
        /\ Head(stack'[a]) = f /\ stack'[a][1] = f
        /\ stack'[a] \in Seq(Frame) /\ Len(stack'[a]) = Len(stack[a]) + 1
        /\ \A k \in 1..Len(stack[a]) : stack'[a][k + 1] = stack[a][k]
    BY <1>4, PushShape
  <2>2. ASSUME NEW i \in DOMAIN stack'[a], i # 1
        PROVE  \E j \in DOMAIN stack[a] : stack'[a][i] = stack[a][j]
    <3>1. i \in Nat /\ Len(stack[a]) \in Nat /\ 1 < i /\ i <= Len(stack[a]) + 1
      BY <1>1, <2>1, <2>2
    <3>2. PICK j \in 1..Len(stack[a]) : j + 1 = i
      BY <3>1, Predecessor
    <3> QED BY <1>1, <2>1, <3>2
  <2> QED BY <2>1, <2>2
<1>5. CASE stack' = Replace(a, f)
  <2>1. \A i \in DOMAIN stack'[a] : i = 1 \/ i \in 2..Len(stack[a])
    BY <1>1, <1>5, ReplaceShape
  <2> QED BY <1>1, <1>5, <2>1, ReplaceShape
<1>6. CASE stack' = Split(a, f, g)
  <2>1. /\ \A b \in Actor : b # a => stack'[b] = stack[b]
        /\ Head(stack'[a]) = f /\ stack'[a][1] = f /\ stack'[a][2] = g
        /\ stack'[a] \in Seq(Frame) /\ Len(stack'[a]) = Len(stack[a]) + 1
        /\ \A k \in 2..Len(stack[a]) : stack'[a][k + 1] = stack[a][k]
    BY <1>6, SplitShape
  <2>2. ASSUME NEW i \in DOMAIN stack'[a], i # 1, i # 2
        PROVE  \E j \in DOMAIN stack[a] : stack'[a][i] = stack[a][j]
    <3>1. i \in Nat /\ Len(stack[a]) \in Nat /\ 2 < i /\ i <= Len(stack[a]) + 1
      BY <1>1, <2>1, <2>2
    <3>2. PICK j \in 2..Len(stack[a]) : j + 1 = i
      BY <3>1, Predecessor
    <3> QED BY <1>1, <2>1, <3>2
  <2> QED BY <2>1, <2>2
<1> QED BY <1>2, <1>3, <1>4, <1>5, <1>6 DEF Move

\* A step that neither begins a Send nor queues one keeps SentOnce.
LEMMA SentOnceKept ==
  ASSUME TypeOK, Stacked, SentOnce, NEW a \in Actor, stack[a] # <<>>,
         NEW f \in Frame, NEW g \in Frame, Move(a, f, g),
         f.at # "send",
         f.at \in SendPoints => sender[f.arg] = a,
         g.at \in SendPoints => sender[g.arg] = a,
         f.at \in {"finish", "reply"} => sender[f.arg] # Nobody,
         g.at \in {"finish", "reply"} => sender[g.arg] # Nobody,
         sender' = sender,
         \A m \in Msg : fate'[m] = "new" => fate[m] = "new",
         \A t \in Thread : \A i \in DOMAIN sendlist'[t] :
           \E j \in DOMAIN sendlist[t] : sendlist'[t][i] = sendlist[t][j]
  PROVE  SentOnce'
<1>1. ASSUME NEW b \in Actor, NEW i \in DOMAIN stack'[b]
      PROVE  /\ stack'[b][i].at \in SendPoints => sender[stack'[b][i].arg] = b
             /\ stack'[b][i].at \in {"finish", "reply"} => sender[stack'[b][i].arg] # Nobody
  BY <1>1, ShapeOfMove DEF SentOnce
<1>2. ASSUME NEW b \in Actor, At(b, "send")'
      PROVE  At(b, "send") /\ Top(b)' = Top(b) /\ Top(b).arg \in Msg
  <2>1. stack'[b] = stack[b]
    <3>1. Head(stack'[b]).at = "send" /\ stack'[b] # <<>>
      BY <1>2 DEF At, Top
    <3>2. ~On(Top(a).at, "send")
      BY DEF On
    <3> QED BY <3>1, <3>2, ShapeOfMove
  <2>2. At(b, "send") /\ Top(b)' = Top(b)
    BY <1>2, <2>1 DEF At, Top
  <2> QED BY <2>2, TopTyped DEF MsgPoints
<1>3. \A t \in Thread : \A i \in DOMAIN sendlist'[t] : sender[sendlist'[t][i]] # Nobody
  BY DEF SentOnce
<1>4. \A m \in Msg : fate'[m] = "new" => sender[m] = Nobody
  BY DEF SentOnce
<1>5. \A b \in Actor : At(b, "send")' =>
        /\ sender[Top(b)'.arg] = Nobody
        /\ fate'[Top(b)'.arg] # "new"
        /\ \A c \in Actor : At(c, "send")' /\ Top(c)'.arg = Top(b)'.arg => c = b
  BY <1>2 DEF SentOnce
<1> QED BY <1>1, <1>3, <1>4, <1>5 DEF SentOnce

\* An actor that is awake stays so, unless it takes its own wake-up (a \in X).
LEMMA AwakeKept ==
  ASSUME TypeOK, Stacked, SentOnce, NEW a \in Actor, stack[a] # <<>>,
         NEW f \in Frame, NEW g \in Frame, Move(a, f, g), NEW X,
         \A b \in Actor : b \notin X /\ wake[b] => wake'[b],
         \A m \in Msg : sender[m] # Nobody => sender'[m] = sender[m],
         At(a, "sendWake") => wake'[Dest[Top(a).arg]],
         At(a, "reply") => wake'[sender[Top(a).arg]],
         At(a, "stop") => wake'[Top(a).arg]
  PROVE  \A b \in Actor : b \notin X /\ Awake(b) => Awake(b)'
<1> SUFFICES ASSUME NEW b \in Actor, b \notin X, Awake(b) PROVE Awake(b)'
  OBVIOUS
<1>1. CASE wake[b]
  BY <1>1 DEF Awake
<1>2. CASE WakeUpComing(b)
  <2>1. PICK c \in Actor : \/ At(c, "sendWake") /\ Dest[Top(c).arg] = b
                           \/ At(c, "reply") /\ sender[Top(c).arg] = b
                           \/ At(c, "stop") /\ Top(c).arg = b
    BY <1>2 DEF WakeUpComing
  <2>2. CASE c = a
    BY <2>1, <2>2 DEF Awake
  <2>3. CASE c # a
    <3>1. stack'[c] = stack[c]
      BY <2>3, ShapeOfMove
    <3>2. \A at : At(c, at)' = At(c, at) /\ Top(c)' = Top(c)
      BY <3>1 DEF At, Top
    <3>3. At(c, "reply") => sender'[Top(c).arg] = sender[Top(c).arg]
      <4>1. ASSUME At(c, "reply") PROVE sender[Top(c).arg] # Nobody /\ Top(c).arg \in Msg
        <5>1. /\ stack[c] \in Seq(Frame) /\ stack[c] # <<>> /\ Top(c) = stack[c][1]
              /\ Top(c).at = "reply" /\ Top(c).arg \in Msg
          BY <4>1, TopTyped DEF MsgPoints
        <5>2. 1 \in DOMAIN stack[c]
          BY <5>1
        <5> QED BY <5>1, <5>2 DEF SentOnce
      <4> QED BY <4>1
    <3>4. WakeUpComing(b)'
      BY <2>1, <3>2, <3>3 DEF WakeUpComing
    <3> QED BY <3>4 DEF Awake
  <2> QED BY <2>2, <2>3
<1> QED BY <1>1, <1>2 DEF Awake

\* Actors other than a: an answer that is new wakes the sender.
LEMMA AnsweredOthers ==
  ASSUME TypeOK, SentOnce, NEW b \in Actor, AnsweredTo(b), stack'[b] = stack[b],
         Awake(b) => Awake(b)',
         \A m \in ready' \ ready : sender[m] = b => Awake(b)'
  PROVE  AnsweredTo(b)'
<1>1. ASSUME NEW i \in DOMAIN stack[b], stack[b][i].at = "sendWait", stack[b][i].arg \in ready'
      PROVE  Awake(b)' \/ \E j \in 1..i - 1 : stack[b][j].at \in {"sendWait", "retest"}
  <2>1. CASE stack[b][i].arg \in ready
    BY <1>1, <2>1 DEF AnsweredTo, Awake
  <2>2. CASE stack[b][i].arg \notin ready
    <3>1. sender[stack[b][i].arg] = b
      BY <1>1 DEF SentOnce, SendPoints
    <3> QED BY <1>1, <2>2, <3>1
  <2> QED BY <2>1, <2>2
<1> QED BY <1>1 DEF AnsweredTo, Awake

\* Actor a itself, in a step that neither begins nor ends a wait of Send.
LEMMA AnsweredSelf ==
  ASSUME TypeOK, SentOnce, NEW a \in Actor, AnsweredTo(a), stack[a] # <<>>,
         NEW f \in Frame, NEW g \in Frame, Move(a, f, g), stack' # stack,
         f.at # "sendWait", g.at # "sendWait",
         Top(a).at \notin {"sendWait", "retest"},
         Awake(a) => Awake(a)',
         \A m \in ready' \ ready : sender[m] = a => Awake(a)'
  PROVE  AnsweredTo(a)'
<1> DEFINE Waiting(s, i) == s[i].at = "sendWait" /\ s[i].arg \in ready'
           Above(s, i)   == \E j \in 1..i - 1 : s[j].at \in {"sendWait", "retest"}
<1>1. stack[a] \in Seq(Frame) /\ Top(a) = stack[a][1] /\ DOMAIN stack[a] = 1..Len(stack[a])
  BY DEF TypeOK, Top
<1>2. ASSUME NEW i \in DOMAIN stack[a], Waiting(stack[a], i)
      PROVE  Awake(a)' \/ Above(stack[a], i)
  <2>1. CASE stack[a][i].arg \in ready
    BY <1>2, <2>1 DEF AnsweredTo, Awake
  <2>2. CASE stack[a][i].arg \notin ready
    <3>1. sender[stack[a][i].arg] = a
      BY <1>2 DEF SentOnce, SendPoints
    <3> QED BY <1>2, <2>2, <3>1
  <2> QED BY <2>1, <2>2
<1>3. ASSUME NEW i \in DOMAIN stack'[a], Waiting(stack'[a], i)
      PROVE  Awake(a)' \/ Above(stack'[a], i)
  <2>1. CASE stack' = Return(a)
    <3>1. /\ stack'[a] \in Seq(Frame) /\ Len(stack'[a]) = Len(stack[a]) - 1
          /\ \A k \in 1..Len(stack[a]) - 1 : stack'[a][k] = stack[a][k + 1]
      BY <2>1, PopShape
    <3>2. i + 1 \in DOMAIN stack[a] /\ Waiting(stack[a], i + 1)
      BY <1>1, <1>3, <3>1
    <3>3. ASSUME Above(stack[a], i + 1) PROVE Above(stack'[a], i)
      <4>1. PICK j \in 1..i : stack[a][j].at \in {"sendWait", "retest"}
        BY <3>3, <1>1, <3>1
      <4>2. j # 1
        BY <1>1, <4>1
      <4>3. PICK k \in 1..i - 1 : k + 1 = j
        <5>1. j - 1 \in 1..i - 1 /\ (j - 1) + 1 = j
          BY <1>1, <3>1, <4>1, <4>2
        <5> QED BY <5>1
      <4>4. stack'[a][k] = stack[a][j]
        BY <1>1, <3>1, <4>3
      <4> QED BY <4>1, <4>3, <4>4
    <3> QED BY <1>2, <3>2, <3>3
  <2>2. CASE stack' = Replace(a, f)
    <3>1. /\ stack'[a] \in Seq(Frame) /\ Len(stack'[a]) = Len(stack[a]) /\ stack'[a][1] = f
          /\ \A k \in 2..Len(stack[a]) : stack'[a][k] = stack[a][k]
      BY <2>2, ReplaceShape
    <3>2. i \in DOMAIN stack[a] /\ i # 1 /\ stack'[a][i] = stack[a][i] /\ Waiting(stack[a], i)
      BY <1>1, <1>3, <3>1
    <3>3. ASSUME Above(stack[a], i) PROVE Above(stack'[a], i)
      <4>1. PICK j \in 1..i - 1 : stack[a][j].at \in {"sendWait", "retest"}
        BY <3>3
      <4>2. j # 1
        BY <1>1, <4>1
      <4>3. stack'[a][j] = stack[a][j]
        BY <1>1, <3>1, <3>2, <4>1, <4>2
      <4> QED BY <4>1, <4>3
    <3> QED BY <1>2, <3>2, <3>3
  <2>3. CASE stack' = Invoke(a, f) \/ stack' = Split(a, f, g)
    <3>1. /\ stack'[a] \in Seq(Frame) /\ Len(stack'[a]) = Len(stack[a]) + 1 /\ stack'[a][1] = f
          /\ \A k \in 2..Len(stack[a]) : stack'[a][k + 1] = stack[a][k]
          /\ stack'[a][2].at # "sendWait" \/ stack'[a][2] = stack[a][1]
      BY <2>3, <1>1, PushShape, SplitShape
    <3>2. i # 1 /\ i # 2
      BY <1>1, <1>3, <3>1
    <3>3. PICK n \in 2..Len(stack[a]) : n + 1 = i
      <4>1. i \in Nat /\ Len(stack[a]) \in Nat /\ 2 < i /\ i <= Len(stack[a]) + 1
        BY <1>1, <1>3, <3>1, <3>2
      <4> QED BY <4>1, Predecessor
    <3>4. n \in DOMAIN stack[a] /\ Waiting(stack[a], n)
      BY <1>1, <1>3, <3>1, <3>3
    <3>5. ASSUME Above(stack[a], n) PROVE Above(stack'[a], i)
      <4>1. PICK j \in 1..n - 1 : stack[a][j].at \in {"sendWait", "retest"}
        BY <3>5
      <4>2. j # 1
        BY <1>1, <4>1
      <4>3. j \in 2..Len(stack[a]) /\ j + 1 \in 1..i - 1
        BY <1>1, <3>3, <4>1, <4>2
      <4>4. stack'[a][j + 1] = stack[a][j]
        BY <3>1, <4>3
      <4> QED BY <4>1, <4>3, <4>4
    <3> QED BY <1>2, <3>4, <3>5
  <2> QED BY <2>1, <2>2, <2>3 DEF Move
<1> QED BY <1>3 DEF AnsweredTo, Awake

\* An actor that begins to wait, or is woken, stands for the waits below it.
LEMMA AnsweredWait ==
  ASSUME TypeOK, NEW a \in Actor, stack[a] # <<>>, NEW f \in Frame, NEW h \in Frame,
         \/ stack' = Replace(a, h)
         \/ stack' = Split(a, f, h) /\ f.at # "sendWait",
         h.at \in {"sendWait", "retest"},
         h.at = "sendWait" => h.arg \notin ready'
  PROVE  AnsweredTo(a)'
<1>1. CASE stack' = Replace(a, h)
  <2>1. stack'[a] \in Seq(Frame) /\ stack'[a][1] = h
    BY <1>1, ReplaceShape
  <2>2. \A i \in DOMAIN stack'[a] : i = 1 \/ 1 \in 1..i - 1
    BY <2>1
  <2> QED BY <2>1, <2>2 DEF AnsweredTo
<1>2. CASE stack' = Split(a, f, h) /\ f.at # "sendWait"
  <2>1. stack'[a] \in Seq(Frame) /\ stack'[a][1] = f /\ stack'[a][2] = h
    BY <1>2, SplitShape
  <2>2. \A i \in DOMAIN stack'[a] : i = 1 \/ i = 2 \/ 2 \in 1..i - 1
    BY <2>1
  <2> QED BY <1>2, <2>1, <2>2 DEF AnsweredTo
<1> QED BY <1>1, <1>2

\* Actors other than a still see the work there is for them.
LEMMA SeenOthers ==
  ASSUME NEW b \in Thread, Seen(b), stack'[b] = stack[b],
         wake[b] => wake'[b], Awake(b) => Awake(b)',
         msgq'[b] # <<>> => msgq[b] # <<>> \/ wake'[b],
         (dmsgq'[b] = dmsgq[b] /\ due'[b] = due[b]) \/ wake'[b] \/ ~Asleep(b)
           \/ Top(b).arg = Head(dmsgq'[b]) \/ Contains(due'[b], Top(b).arg),
         fStop'[b] = fStop[b] \/ Awake(b)',
         sendlist'[b] # <<>> => sendlist[b] # <<>> \/ Awake(b)'
  PROVE  Seen(b)'
<1>1. /\ At(b, "stopped")' = At(b, "stopped") /\ At(b, "wait")' = At(b, "wait")
      /\ At(b, "queue")' = At(b, "queue") /\ At(b, "sendWait")' = At(b, "sendWait")
      /\ Top(b)' = Top(b) /\ Asleep(b)' = Asleep(b)
  BY DEF At, Top, Asleep
<1>2. PostSeen(b)'
  BY <1>1 DEF PostSeen, Seen
<1>3. DelaySeen(b)'
  BY <1>1 DEF DelaySeen, Seen
<1>4. StopSeen(b)'
  BY <1>1 DEF StopSeen, Seen, Awake
<1>5. SendSeen(b)'
  BY <1>1 DEF SendSeen, Seen, Awake
<1> QED BY <1>2, <1>3, <1>4, <1>5 DEF Seen

\* An actor that is about to look at its queues has missed nothing.
LEMMA SeenSelf ==
  ASSUME NEW a \in Thread,
         stack'[a] # <<>> => Head(stack'[a]).at \notin {"stopped", "wait", "queue", "sendWait"}
  PROVE  Seen(a)'
BY DEF Seen, PostSeen, DelaySeen, StopSeen, SendSeen, Asleep, At, Top

\* A step that joins only a thread that has ended keeps OwnDelayed.
LEMMA OwnDelayedKept ==
  ASSUME TypeOK, Stacked, OwnDelayed, NEW a \in Actor, stack[a] # <<>>,
         NEW f \in Frame, NEW g \in Frame, Move(a, f, g), f.at = "clear" => stack[f.arg] = <<>>,
         \A t \in Thread : \A i \in DOMAIN dmsgq'[t] : Dest[dmsgq'[t][i]] = t,
         \A t \in Thread : \A i \in DOMAIN due'[t] : Dest[due'[t][i]] = t
  PROVE  OwnDelayed'
<1>1. ASSUME NEW b \in Actor, At(b, "clear")'
      PROVE  stack'[Top(b)'.arg] = <<>>
  <2>1. CASE stack'[b] = stack[b]
    <3>1. At(b, "clear") /\ Top(b)' = Top(b)
      BY <1>1, <2>1 DEF At, Top
    <3>2. Top(b).arg \in Actor /\ stack[Top(b).arg] = <<>>
      BY <3>1, TopTyped DEF OwnDelayed, Actor, ThreadPoints
    <3>3. Top(b).arg # a
      BY <3>2
    <3> QED BY <3>1, <3>2, <3>3, ShapeOfMove
  <2>2. CASE stack'[b] # stack[b]
    <3>1. Head(stack'[b]).at = "clear" /\ stack'[b] # <<>>
      BY <1>1 DEF At, Top
    <3>2. ~On(Top(a).at, "clear")
      BY DEF On
    <3>3. b = a /\ Head(stack'[b]) = f
      BY <2>2, <3>1, <3>2, ShapeOfMove
    <3>4. f.arg \in Actor /\ stack[f.arg] = <<>>
      BY <3>1, <3>3 DEF Frame, Actor, MsgPoints, PumpPoints
    <3>5. f.arg # a
      BY <3>4
    <3> QED BY <3>3, <3>4, <3>5, ShapeOfMove DEF Top
  <2> QED BY <2>1, <2>2
<1> QED BY <1>1 DEF OwnDelayed

\* The parts of the invariant, actor by actor.
LEMMA Assembled ==
  ASSUME TypeOK', Stacked', SentOnce', SendsSeen', OwnDelayed',
         \A b \in Actor : AnsweredTo(b)', \A t \in Thread : Seen(t)'
  PROVE  WakeInv'
<1>1. ASSUME NEW b \in Actor PROVE ReplySeen(b)'
  <2>1. ASSUME At(b, "sendWait")', Top(b)'.arg \in ready' PROVE (wake[b] \/ WakeUpComing(b))'
    <3>1. stack'[b] \in Seq(Frame) /\ stack'[b] # <<>> /\ Top(b)' = stack'[b][1]
          /\ stack'[b][1].at = "sendWait"
      BY <2>1 DEF TypeOK, At, Top
    <3>2. 1 \in DOMAIN stack'[b] /\ 1..1 - 1 = {}
      BY <3>1
    <3> QED BY <2>1, <3>1, <3>2 DEF AnsweredTo
  <2> QED BY <2>1 DEF ReplySeen
<1> QED BY <1>1 DEF WakeInv, Answered, NoLostWakeUp

\* A step of a: it keeps who is awake, and what it changes for another actor
\* wakes that actor.
LEMMA ActorStep ==
  ASSUME WakeInv, TypeOK', Stacked', SentOnce', SendsSeen', OwnDelayed', NEW a \in Actor,
         \A b \in Actor : b # a => stack'[b] = stack[b],
         \A b \in Actor : b # a /\ wake[b] => wake'[b],
         \A b \in Actor : b # a /\ Awake(b) => Awake(b)',
         \A m \in ready' \ ready, b \in Actor : b # a /\ sender[m] = b => Awake(b)',
         \A b \in Thread : b # a /\ stack[b] # <<>> =>
           /\ msgq'[b] # <<>> => msgq[b] # <<>> \/ wake'[b]
           /\ \/ dmsgq'[b] = dmsgq[b] /\ due'[b] = due[b]
              \/ wake'[b] \/ ~Asleep(b)
              \/ Top(b).arg = Head(dmsgq'[b]) \/ Contains(due'[b], Top(b).arg)
           /\ fStop'[b] = fStop[b] \/ Awake(b)'
           /\ sendlist'[b] # <<>> => sendlist[b] # <<>> \/ Awake(b)',
         AnsweredTo(a)', a \in Thread => Seen(a)'
  PROVE  WakeInv'
<1>1. ASSUME NEW b \in Actor, b # a PROVE AnsweredTo(b)'
  BY <1>1, AnsweredOthers DEF WakeInv, Answered
<1>2. ASSUME NEW b \in Thread, b # a PROVE Seen(b)'
  <2>1. CASE stack[b] = <<>>
    BY <1>2, <2>1, SeenSelf DEF Actor
  <2>2. CASE stack[b] # <<>>
    BY <1>2, <2>2, SeenOthers DEF WakeInv, NoLostWakeUp, Actor
  <2> QED BY <2>1, <2>2
<1> QED BY <1>1, <1>2, Assembled

\* A step that concerns a alone: it leaves the queues alone, does not put a to
\* sleep, and issues the WakeUp it was about to.
LEMMA QuietStep ==
  ASSUME WakeInv, TypeOK', Stacked', NEW a \in Actor, stack[a] # <<>>,
         NEW f \in Frame, NEW g \in Frame, Move(a, f, g),
         f.at \notin {"send", "stopped", "wait", "queue", "sendWait"},
         f.at = "clear" => stack[f.arg] = <<>>,
         f.at \in SendPoints => sender[f.arg] = a,
         f.at \in {"finish", "reply"} => sender[f.arg] # Nobody,
         g.at \notin SendPoints \cup {"finish", "reply"},
         stack' # stack => Top(a).at \notin {"sendWait", "retest"},
         stack' = Return(a) => Top(a).at \notin ReceivePoints,
         \A b \in Actor : wake[b] => wake'[b],
         At(a, "sendWake") => wake'[Dest[Top(a).arg]],
         At(a, "reply") => wake'[sender[Top(a).arg]],
         At(a, "stop") => wake'[Top(a).arg],
         \A m \in Msg : fate'[m] = "new" => fate[m] = "new",
         UNCHANGED <<queues, sends, fStop>>
  PROVE  WakeInv'
<1> USE DEF WakeInv
<1>1. \A b \in Actor : Awake(b) => Awake(b)'
  <2>1. \A b \in Actor : b \notin {} /\ Awake(b) => Awake(b)'
    BY AwakeKept DEF sends
  <2> QED BY <2>1
<1>2. SentOnce'
  BY SentOnceKept DEF sends
<1>3. SendsSeen'
  BY DEF SendsSeen, sends
<1>4. OwnDelayed'
  BY OwnDelayedKept DEF OwnDelayed, queues
<1>5. ASSUME NEW b \in Actor, b # a \/ stack' = stack
      PROVE  AnsweredTo(b)' /\ (b \in Thread => Seen(b)')
  <2>1. stack'[b] = stack[b]
    BY <1>5, ShapeOfMove
  <2>2. AnsweredTo(b)'
    BY <1>1, <2>1, AnsweredOthers DEF sends, Answered
  <2>3. ASSUME b \in Thread PROVE Seen(b)'
    BY <1>1, <2>1, <2>3, SeenOthers DEF sends, queues, NoLostWakeUp
  <2> QED BY <2>2, <2>3
<1>6. ASSUME stack' # stack
      PROVE  AnsweredTo(a)' /\ (a \in Thread => Seen(a)')
  <2>1. AnsweredTo(a)'
    BY <1>1, <1>6, AnsweredSelf DEF sends, SendPoints, Answered
  <2>2. ASSUME a \in Thread PROVE Seen(a)'
    <3>1. Top(a).at \notin ReceivePoints /\ On(Top(a).at, Head(stack'[a]).at)
            => Head(stack'[a]).at \notin {"stopped", "wait", "queue", "sendWait"}
      BY DEF On
    <3>2. stack'[a] # stack[a]
      BY <1>6, ShapeOfMove DEF TypeOK
    <3>3. stack'[a] # <<>> => Head(stack'[a]).at \notin {"stopped", "wait", "queue", "sendWait"}
      BY <3>1, <3>2, ShapeOfMove
    <3> QED BY <2>2, <3>3, SeenSelf
  <2> QED BY <2>1, <2>2
<1>7. \A b \in Actor : AnsweredTo(b)' /\ (b \in Thread => Seen(b)')
  BY <1>5, <1>6
<1>8. \A t \in Thread : Seen(t)'
  BY <1>7 DEF Actor
<1> QED BY <1>2, <1>3, <1>4, <1>7, <1>8, Assembled

-----------------------------------------------------------------------------
(* Every action keeps the invariant.                                         *)

\* The calls on a stack stay in the order Stacked says.
LEMMA KeepsStacked ==
  ASSUME TypeOK, Stacked, [Next]_vars
  PROVE  Stacked'
<1> USE ThreadQueueAssumption
<1> USE DEF On, CallPoints, ReceivePoints
<1>1. ASSUME NEW a \in Actor, Step(a) PROVE Stacked'
  <2>1. ASSUME NEW at \in MsgPoints, At(a, at)
        PROVE  /\ stack[a] # <<>> /\ Top(a).arg \in Msg /\ Top(a).at = at
               /\ \A to \in MsgPoints : /\ Call(to, Top(a).arg) \in Frame
                                        /\ Call(to, Top(a).arg).at = to
    BY <2>1, TopTyped, CallTyped
  <2>2. ASSUME NEW at \in ThreadPoints, At(a, at)
        PROVE  /\ stack[a] # <<>> /\ Top(a).arg \in Thread /\ Top(a).at = at
               /\ \A to \in ThreadPoints : /\ Call(to, Top(a).arg) \in Frame
                                           /\ Call(to, Top(a).arg).at = to
    BY <2>2, TopTyped, CallTyped
  <2>3. CASE PostLocked(a) \/ PostDelayedLocked(a) \/ HandlerReturns(a)
    <3>1. stack[a] # <<>> /\ stack' = Return(a)
      BY <2>3 DEF PostLocked, PostDelayedLocked, HandlerReturns, At
    <3> QED BY <3>1, StackedPop
  <2>4. CASE SendLocked(a)
    <3>1. At(a, "send") /\ stack' = Replace(a, Call("sendWake", Top(a).arg))
      BY <2>4 DEF SendLocked, GoTo
    <3>2. /\ stack[a] # <<>> /\ Top(a).at = "send" /\ Call("sendWake", Top(a).arg) \in Frame
          /\ Call("sendWake", Top(a).arg).at = "sendWake"
      BY <3>1, <2>1 DEF MsgPoints
    <3> QED BY <3>1, <3>2, StackedReplace
  <2>5. CASE SendWakeUp(a)
    <3>1. At(a, "sendWake") /\ stack' = Replace(a, Call("test", Top(a).arg))
      BY <2>5 DEF SendWakeUp, GoTo
    <3>2. /\ stack[a] # <<>> /\ Top(a).at = "sendWake" /\ Call("test", Top(a).arg) \in Frame
          /\ Call("test", Top(a).arg).at = "test"
      BY <3>1, <2>1 DEF MsgPoints
    <3> QED BY <3>1, <3>2, StackedReplace
  <2>6. CASE SendTest(a)
    <3>1. At(a, "test") \/ At(a, "retest")
      BY <2>6 DEF SendTest
    <3>2. /\ stack[a] # <<>> /\ Top(a).at \in {"test", "retest"}
          /\ Call("sendWait", Top(a).arg) \in Frame
          /\ Call("sendWait", Top(a).arg).at = "sendWait"
      BY <3>1, <2>1 DEF MsgPoints
    <3>3. Call("sends", Nobody) \in Frame /\ Call("sends", Nobody).at = "sends"
      BY CallTyped DEF PumpPoints
    <3>4. CASE stack' = Return(a)
      BY <3>2, <3>4, StackedPop
    <3>5. CASE a \in Thread /\ stack' = Split(a, Call("sends", Nobody), Call("sendWait", Top(a).arg))
      <4>1. a \notin Client
        BY <3>5
      <4> QED BY <3>2, <3>3, <3>5, <4>1, StackedSplit
    <3>6. CASE stack' = Replace(a, Call("sendWait", Top(a).arg))
      BY <3>2, <3>6, StackedReplace
    <3> QED BY <2>6, <3>4, <3>5, <3>6 DEF SendTest, GoTo, GoToCall
  <2>7. CASE SendWait(a)
    <3>1. At(a, "sendWait") /\ stack' = Replace(a, Call("retest", Top(a).arg))
      BY <2>7 DEF SendWait, GoTo
    <3>2. /\ stack[a] # <<>> /\ Top(a).at = "sendWait" /\ Call("retest", Top(a).arg) \in Frame
          /\ Call("retest", Top(a).arg).at = "retest"
      BY <3>1, <2>1 DEF MsgPoints
    <3> QED BY <3>1, <3>2, StackedReplace
  <2>8. CASE StopWakeUp(a)
    <3>1. At(a, "stop") /\ (stack' = Return(a) \/ stack' = Replace(a, Call("join", Top(a).arg)))
      BY <2>8 DEF StopWakeUp, GoTo
    <3>2. /\ stack[a] # <<>> /\ Top(a).at = "stop" /\ Call("join", Top(a).arg) \in Frame
          /\ Call("join", Top(a).arg).at = "join"
      BY <3>1, <2>2 DEF ThreadPoints
    <3>3. stack' = Replace(a, Call("join", Top(a).arg)) => Stacked'
      BY <3>2, StackedReplace
    <3> QED BY <3>1, <3>2, <3>3, StackedPop
  <2>9. CASE Join(a)
    <3>1. At(a, "join") /\ stack' = Replace(a, Call("clear", Top(a).arg))
      BY <2>9 DEF Join, GoTo
    <3>2. /\ stack[a] # <<>> /\ Top(a).at = "join" /\ Call("clear", Top(a).arg) \in Frame
          /\ Call("clear", Top(a).arg).at = "clear"
      BY <3>1, <2>2 DEF ThreadPoints
    <3> QED BY <3>1, <3>2, StackedReplace
  <2>10. CASE DeleteThread(a)
    <3>1. stack[a] # <<>> /\ stack' = Return(a)
      BY <2>10 DEF DeleteThread, At
    <3> QED BY <3>1, StackedPop
  <2> QED BY <1>1, <2>3, <2>4, <2>5, <2>6, <2>7, <2>8, <2>9, <2>10 DEF Step
<1>2. ASSUME NEW t \in Thread, Pump(t) PROVE Stacked'
  <2>1. t \in Actor /\ t \notin Client
    BY DEF Actor
  <2>2. ASSUME NEW at, At(t, at)
        PROVE  /\ stack[t] # <<>> /\ Top(t).at = at
               /\ at \in MsgPoints => Top(t).arg \in Msg
               /\ at \in PumpPoints => Top(t).arg \in Msg \cup {Nobody}
    BY <2>1, <2>2, TopTyped
  <2>3. CASE ReceiveSends(t)
    <3>1. At(t, "sends") /\ (stack' = Return(t) \/ stack' = Replace(t, Call("loop", Top(t).arg)))
      BY <2>3 DEF ReceiveSends, GoTo
    <3>2. /\ stack[t] # <<>> /\ Top(t).at = "sends" /\ Call("loop", Top(t).arg) \in Frame
          /\ Call("loop", Top(t).arg).at = "loop"
      BY <3>1, <2>2, CallTyped DEF PumpPoints
    <3>3. stack' = Replace(t, Call("loop", Top(t).arg)) => Stacked'
      BY <2>1, <3>2, StackedReplace
    <3> QED BY <2>1, <3>1, <3>2, <3>3, StackedPop
  <2>4. CASE ReceiveSend(t)
    <3>1. stack[t] # <<>> /\ Top(t).at = "loop"
      BY <2>2, <2>4 DEF ReceiveSend
    <3>2. CASE sendlist[t] = <<>>
      BY <2>1, <2>4, <3>1, <3>2, StackedPop DEF ReceiveSend
    <3>3. CASE sendlist[t] # <<>>
      <4>1. Head(sendlist[t]) \in Msg
        BY <3>3 DEF TypeOK
      <4>2. /\ Call("run", Head(sendlist[t])) \in Frame /\ Call("finish", Head(sendlist[t])) \in Frame
            /\ Call("run", Head(sendlist[t])).at = "run"
            /\ Call("finish", Head(sendlist[t])).at = "finish"
        BY <4>1, CallTyped DEF MsgPoints
      <4>3. stack' = Split(t, Call("run", Head(sendlist[t])), Call("finish", Head(sendlist[t])))
        BY <2>4, <3>3 DEF ReceiveSend
      <4> QED BY <2>1, <3>1, <4>2, <4>3, StackedSplit
    <3> QED BY <3>2, <3>3
  <2>5. CASE SendFinished(t)
    <3>1. At(t, "finish") /\ stack' = Replace(t, Call("reply", Top(t).arg))
      BY <2>5 DEF SendFinished, GoTo
    <3>2. /\ stack[t] # <<>> /\ Top(t).at = "finish" /\ Call("reply", Top(t).arg) \in Frame
          /\ Call("reply", Top(t).arg).at = "reply"
      BY <3>1, <2>2, CallTyped DEF MsgPoints
    <3> QED BY <2>1, <3>1, <3>2, StackedReplace
  <2>6. CASE SendReply(t)
    <3>1. At(t, "reply") /\ stack' = Replace(t, Call("loop", Nobody))
      BY <2>6 DEF SendReply
    <3>2. /\ stack[t] # <<>> /\ Top(t).at = "reply" /\ Call("loop", Nobody) \in Frame
          /\ Call("loop", Nobody).at = "loop"
      BY <3>1, <2>2, CallTyped DEF PumpPoints
    <3> QED BY <2>1, <3>1, <3>2, StackedReplace
  <2>7. CASE Get(t)
    <3>1. At(t, "get") /\ stack' = Split(t, Call("sends", Nobody), Call("queue", Top(t).arg))
      BY <2>7 DEF Get, GoToCall
    <3>2. /\ stack[t] # <<>> /\ Top(t).at = "get"
          /\ Call("sends", Nobody) \in Frame /\ Call("queue", Top(t).arg) \in Frame
          /\ Call("sends", Nobody).at = "sends" /\ Call("queue", Top(t).arg).at = "queue"
      BY <3>1, <2>2, CallTyped DEF PumpPoints
    <3> QED BY <2>1, <3>1, <3>2, StackedSplit
  <2>8. CASE GetQueue(t)
    <3>1. stack[t] # <<>> /\ Top(t).at = "queue" /\ Top(t).arg \in Msg \cup {Nobody}
      BY <2>2, <2>8 DEF GetQueue, PumpPoints
    <3>2. PICK m \in Msg \cup {Nobody} :
            \/ stack' = stack
            \/ stack' = Replace(t, Call("stopped", m))
            \/ m \in Msg /\ stack' = Split(t, Call("run", m), Call("get", Top(t).arg))
      <4>1. Soonest(dmsgq[t]) \in Msg \cup {Nobody}
        BY DEF TypeOK, Soonest
      <4>2. msgq[t] \o due[t] # <<>> => Head(msgq[t] \o due[t]) \in Msg
        <5>1. msgq[t] \o due[t] \in Seq(Msg)
          BY DEF TypeOK
        <5> QED BY <5>1, HeadTyped
      <4> QED BY <2>8, <4>1, <4>2 DEF GetQueue, GoToCall
    <3>3. /\ Call("stopped", m) \in Frame /\ Call("stopped", m).at = "stopped"
          /\ Call("get", Top(t).arg) \in Frame /\ Call("get", Top(t).arg).at = "get"
          /\ m \in Msg => Call("run", m) \in Frame /\ Call("run", m).at = "run"
      BY <3>1, CallTyped DEF PumpPoints, MsgPoints
    <3>4. CASE stack' = stack
      BY <3>4 DEF Stacked
    <3>5. CASE stack' = Replace(t, Call("stopped", m))
      BY <2>1, <3>1, <3>3, <3>5, StackedReplace
    <3>6. CASE m \in Msg /\ stack' = Split(t, Call("run", m), Call("get", Top(t).arg))
      BY <2>1, <3>1, <3>3, <3>6, StackedSplit
    <3> QED BY <3>2, <3>4, <3>5, <3>6
  <2>9. CASE GetStopped(t)
    <3>1. At(t, "stopped") /\ (stack' = Return(t) \/ stack' = Replace(t, Call("wait", Top(t).arg)))
      BY <2>9 DEF GetStopped, GoTo
    <3>2. /\ stack[t] # <<>> /\ Top(t).at = "stopped" /\ Call("wait", Top(t).arg) \in Frame
          /\ Call("wait", Top(t).arg).at = "wait"
      BY <3>1, <2>2, CallTyped DEF PumpPoints
    <3>3. stack' = Replace(t, Call("wait", Top(t).arg)) => Stacked'
      BY <2>1, <3>2, StackedReplace
    <3> QED BY <2>1, <3>1, <3>2, <3>3, StackedPop
  <2>10. CASE GetWait(t)
    <3>1. At(t, "wait") /\ stack' = Replace(t, Call("get", Nobody))
      BY <2>10 DEF GetWait
    <3>2. /\ stack[t] # <<>> /\ Top(t).at = "wait" /\ Call("get", Nobody) \in Frame
          /\ Call("get", Nobody).at = "get"
      BY <3>1, <2>2, CallTyped DEF PumpPoints
    <3> QED BY <2>1, <3>1, <3>2, StackedReplace
  <2> QED BY <1>2, <2>3, <2>4, <2>5, <2>6, <2>7, <2>8, <2>9, <2>10 DEF Pump
<1>3. ASSUME NEW a \in Actor, Application(a) PROVE Stacked'
  <2>1. ASSUME InApplication(a)
        PROVE  /\ stack[a] # <<>> /\ Top(a).at \in {"idle", "run"}
               /\ a \in Client => Top(a).at = "idle"
    <3>1. stack[a] # <<>> /\ Top(a) = stack[a][1] /\ Top(a).at \in {"idle", "run"}
      BY <2>1, TopTyped DEF InApplication, At
    <3>2. 1 \in DOMAIN stack[a]
      BY <3>1 DEF TypeOK
    <3> QED BY <3>1, <3>2 DEF Stacked
  <2>2. ASSUME NEW m \in Msg, Post(a, m) PROVE Stacked'
    <3>1. /\ stack[a] # <<>> /\ Top(a).at \in {"idle", "run"}
          /\ \/ stack' = stack
             \/ stack' = Invoke(a, Call("post", m))
             \/ stack' = Invoke(a, Call("postDelayed", m))
      BY <2>1, <2>2 DEF Post, Refuse, MayUse
    <3>2. /\ Call("post", m) \in Frame /\ Call("post", m).at = "post"
          /\ Call("postDelayed", m) \in Frame /\ Call("postDelayed", m).at = "postDelayed"
      BY CallTyped DEF MsgPoints
    <3>3. stack' = Invoke(a, Call("post", m)) => Stacked'
      BY <3>1, <3>2, StackedPush
    <3>4. stack' = Invoke(a, Call("postDelayed", m)) => Stacked'
      BY <3>1, <3>2, StackedPush
    <3> QED BY <3>1, <3>3, <3>4 DEF Stacked
  <2>3. ASSUME NEW m \in Msg, Send(a, m) PROVE Stacked'
    <3>1. /\ stack[a] # <<>> /\ Top(a).at \in {"idle", "run"}
          /\ \/ stack' = stack
             \/ a \notin Client /\ stack' = Invoke(a, Call("run", m))
             \/ stack' = Invoke(a, Call("send", m))
      <4>1. a = Dest[m] => a \notin Client
        OBVIOUS
      <4> QED BY <2>1, <2>3, <4>1 DEF Send, Refuse, MayUse
    <3>2. /\ Call("run", m) \in Frame /\ Call("run", m).at = "run"
          /\ Call("send", m) \in Frame /\ Call("send", m).at = "send"
      BY CallTyped DEF MsgPoints
    <3>3. a \notin Client /\ stack' = Invoke(a, Call("run", m)) => Stacked'
      BY <3>1, <3>2, StackedPush
    <3>4. stack' = Invoke(a, Call("send", m)) => Stacked'
      BY <3>1, <3>2, StackedPush
    <3> QED BY <3>1, <3>3, <3>4 DEF Stacked
  <2>4. ASSUME NEW t \in Thread, Stop(a, t) \/ JoinStopped(a, t) PROVE Stacked'
    <3>1. InApplication(a) /\ stack' = Invoke(a, Call("stop", t))
      BY <2>4 DEF Stop, JoinStopped, InApplication
    <3>2. Call("stop", t) \in Frame /\ Call("stop", t).at = "stop"
      BY CallTyped DEF ThreadPoints
    <3> QED BY <2>1, <3>1, <3>2, StackedPush
  <2>5. ASSUME NEW h \in Handler, DestroyHandler(a, h) PROVE Stacked'
    BY <2>5 DEF DestroyHandler, Stacked
  <2> QED BY <1>3, <2>2, <2>3, <2>4, <2>5 DEF Application
<1>4. ASSUME NEW t \in Thread, Trigger(t) PROVE Stacked'
  BY <1>4 DEF Trigger, Stacked
<1>5. CASE UNCHANGED vars
  BY <1>5 DEF vars, Stacked
<1> QED BY <1>1, <1>2, <1>3, <1>4, <1>5 DEF Next


\* What application code and the tail of Post, Send, Stop and ~Thread return to.
LEMMA ReturnSeen ==
  ASSUME TypeOK, Stacked, NEW a \in Thread, stack[a] # <<>>, stack' = Return(a),
         Top(a).at \notin ReceivePoints
  PROVE  Seen(a)'
<1>1. a \in Actor /\ stack[a][1] \in Frame
  BY DEF Actor, TypeOK
<1>2. stack'[a] # stack[a]
  BY <1>1, PopShape DEF TypeOK
<1>3. Move(a, Top(a), Top(a)) /\ Top(a) \in Frame
  BY <1>1 DEF Move, Top, TypeOK
<1>4. stack'[a] # <<>> => Head(stack'[a]) = stack[a][2] /\ Len(stack[a]) > 1
  BY <1>1, PopShape
<1>5. ASSUME Len(stack[a]) > 1 PROVE On(Top(a).at, stack[a][2].at)
  <2>1. PICK k \in DOMAIN stack[a] : k = 2 /\ k > 1 /\ k - 1 = 1
    BY <1>1, <1>5 DEF TypeOK
  <2>2. On(stack[a][k - 1].at, stack[a][k].at)
    BY <1>1, <2>1 DEF Stacked
  <2> QED BY <1>1, <2>1, <2>2 DEF Top, TypeOK
<1>6. stack'[a] # <<>> => Head(stack'[a]).at \notin {"stopped", "wait", "queue", "sendWait"}
  BY <1>4, <1>5 DEF On
<1> QED BY <1>6, SeenSelf

\* PurgeType for the queues of messages, a thread at a time.
LEMMA PurgeEach ==
  ASSUME NEW queue \in [Thread -> Seq(Msg)], NEW T, NEW R, NEW q \in Purge(queue, T, R),
         NEW t \in Thread
  PROVE  /\ \A i \in DOMAIN q[t] : \E j \in DOMAIN queue[t] : q[t][i] = queue[t][j]
         /\ queue[t] = <<>> => q[t] = <<>>
         /\ t \notin T => q[t] = queue[t]
         /\ (\A i \in DOMAIN queue[t] : queue[t][i] \notin R) => q[t] = queue[t]
BY PurgeType

\* What is left of the queues of the other threads after a Clear, and who it
\* wakes.
LEMMA ClearKeeps ==
  ASSUME TypeOK, SentOnce, SendsSeen, OwnDelayed, NEW T, NEW R \in SUBSET Msg, Clear(T, R)
  PROVE  /\ \A b \in Actor : wake[b] => wake'[b]
         /\ sender' = sender
         /\ \A m \in Msg : fate'[m] = "new" => fate[m] = "new"
         /\ \A m \in ready' \ ready, b \in Actor : sender[m] = b => wake'[b]
         /\ \A t \in Thread :
              /\ msgq'[t] = msgq[t] \/ t \in T
              /\ t \notin T \/ (\A m \in R : Dest[m] # t) => dmsgq'[t] = dmsgq[t] /\ due'[t] = due[t]
              /\ \A i \in DOMAIN sendlist'[t] :
                   \E j \in DOMAIN sendlist[t] : sendlist'[t][i] = sendlist[t][j]
              /\ sendlist[t] = <<>> => sendlist'[t] = <<>>
              /\ msgq[t] = <<>> => msgq'[t] = <<>>
              /\ t \notin T => sendlist'[t] = sendlist[t]
              /\ \A i \in DOMAIN dmsgq'[t] : Dest[dmsgq'[t][i]] = t
              /\ \A i \in DOMAIN due'[t] : Dest[due'[t][i]] = t
         /\ SendsSeen'
<1>1. /\ msgq' \in Purge(msgq, T, R) /\ dmsgq' \in Purge(dmsgq, T, R)
      /\ due' \in Purge(due, T, R) /\ sendlist' \in Purge(sendlist, T, R)
      /\ UNCHANGED <<hasSends, sender>>
      /\ \A b \in Actor : wake[b] => wake'[b]
  BY DEF Clear, TypeOK
<1>0. /\ msgq \in [Thread -> Seq(Msg)] /\ dmsgq \in [Thread -> Seq(Msg)]
      /\ due \in [Thread -> Seq(Msg)] /\ sendlist \in [Thread -> Seq(Msg)]
  BY DEF TypeOK
<1>2. \A m \in Msg : fate'[m] = "new" => fate[m] = "new"
  BY DEF Clear
<1>3. ASSUME NEW m \in ready' \ ready, NEW b \in Actor, sender[m] = b PROVE wake'[b]
  BY <1>3 DEF Clear
<1>4. ASSUME NEW t \in Thread
      PROVE  /\ msgq'[t] = msgq[t] \/ t \in T
             /\ msgq[t] = <<>> => msgq'[t] = <<>>
  <2>1. msgq \in [Thread -> Seq(Msg)] /\ msgq' \in Purge(msgq, T, R)
    BY <1>0, <1>1
  <2> QED BY <2>1, PurgeEach
<1>5. ASSUME NEW t \in Thread
      PROVE  /\ \A i \in DOMAIN sendlist'[t] :
                  \E j \in DOMAIN sendlist[t] : sendlist'[t][i] = sendlist[t][j]
             /\ sendlist[t] = <<>> => sendlist'[t] = <<>>
             /\ t \notin T => sendlist'[t] = sendlist[t]
  <2>1. sendlist \in [Thread -> Seq(Msg)] /\ sendlist' \in Purge(sendlist, T, R)
    BY <1>0, <1>1
  <2> QED BY <2>1, PurgeEach
<1>6. ASSUME NEW t \in Thread
      PROVE  /\ t \notin T \/ (\A m \in R : Dest[m] # t) => dmsgq'[t] = dmsgq[t]
             /\ \A i \in DOMAIN dmsgq'[t] : Dest[dmsgq'[t][i]] = t
  <2>1. /\ \A i \in DOMAIN dmsgq'[t] : \E j \in DOMAIN dmsgq[t] : dmsgq'[t][i] = dmsgq[t][j]
        /\ t \notin T \/ (\A i \in DOMAIN dmsgq[t] : dmsgq[t][i] \notin R) => dmsgq'[t] = dmsgq[t]
    <3>1. dmsgq \in [Thread -> Seq(Msg)] /\ dmsgq' \in Purge(dmsgq, T, R)
      BY <1>0, <1>1
    <3> QED BY <3>1, PurgeEach
  <2> QED BY <2>1 DEF OwnDelayed
<1>7. ASSUME NEW t \in Thread
      PROVE  /\ t \notin T \/ (\A m \in R : Dest[m] # t) => due'[t] = due[t]
             /\ \A i \in DOMAIN due'[t] : Dest[due'[t][i]] = t
  <2>1. /\ \A i \in DOMAIN due'[t] : \E j \in DOMAIN due[t] : due'[t][i] = due[t][j]
        /\ t \notin T \/ (\A i \in DOMAIN due[t] : due[t][i] \notin R) => due'[t] = due[t]
    <3>1. due \in [Thread -> Seq(Msg)] /\ due' \in Purge(due, T, R)
      BY <1>0, <1>1
    <3> QED BY <3>1, PurgeEach
  <2> QED BY <2>1 DEF OwnDelayed
<1>8. SendsSeen'
  BY <1>1, <1>5 DEF SendsSeen
<1> QED BY <1>1, <1>2, <1>3, <1>4, <1>5, <1>6, <1>7, <1>8

\* Post, Send, Stop, Join and ~Thread keep the invariant.
LEMMA StepKeeps ==
  ASSUME WakeInv, TypeOK', Stacked', NEW a \in Actor, Step(a)
  PROVE  WakeInv'
<1> USE ThreadQueueAssumption DEF WakeInv
<1> DEFINE idle == Call("idle", Nobody)
<1>1. idle \in Frame /\ idle.at = "idle"
  BY CallTyped DEF PumpPoints
<1> HIDE DEF idle
<1>2. ASSUME NEW at \in MsgPoints, At(a, at)
      PROVE  /\ stack[a] # <<>> /\ Top(a).arg \in Msg /\ Top(a).at = at
             /\ \A to \in MsgPoints : /\ Call(to, Top(a).arg) \in Frame
                                      /\ Call(to, Top(a).arg).at = to
                                      /\ Call(to, Top(a).arg).arg = Top(a).arg
             /\ at \in SendPoints => sender[Top(a).arg] = a
             /\ at \in {"finish", "reply"} => sender[Top(a).arg] # Nobody
  <2>1. stack[a] # <<>> /\ Top(a).arg \in Msg /\ Top(a).at = at /\ Top(a) = stack[a][1]
    BY <1>2, TopTyped
  <2>2. 1 \in DOMAIN stack[a]
    BY <2>1 DEF TypeOK
  <2> QED BY <2>1, <2>2, CallTyped DEF SentOnce
<1>3. ASSUME NEW at \in ThreadPoints, At(a, at)
      PROVE  /\ stack[a] # <<>> /\ Top(a).arg \in Thread /\ Top(a).at = at
             /\ \A to \in ThreadPoints : /\ Call(to, Top(a).arg) \in Frame
                                         /\ Call(to, Top(a).arg).at = to
                                         /\ Call(to, Top(a).arg).arg = Top(a).arg
  BY <1>3, TopTyped, CallTyped
<1>4. CASE PostLocked(a)
  <2>1. /\ stack[a] # <<>> /\ Top(a).at = "post" /\ Top(a).arg \in Msg
        /\ Move(a, idle, idle) /\ stack' = Return(a)
    BY <1>2, <1>4 DEF PostLocked, MsgPoints, Move
  <2>2. /\ \A b \in Actor : wake[b] => wake'[b]
        /\ wake'[Dest[Top(a).arg]]
        /\ \A t \in Thread : t # Dest[Top(a).arg] => msgq'[t] = msgq[t]
        /\ UNCHANGED <<dmsgq, due, sends, fStop, fate>>
    BY <1>4, <2>1 DEF PostLocked, TypeOK, Actor
  <2>3. \A b \in Actor : Awake(b) => Awake(b)'
    <3>1. \A b \in Actor : b \notin {} /\ Awake(b) => Awake(b)'
      BY <1>1, <2>1, <2>2, AwakeKept DEF sends, At
    <3> QED BY <3>1
  <2>4. SentOnce'
    BY <1>1, <2>1, <2>2, SentOnceKept DEF sends, SendPoints
  <2>5. SendsSeen' /\ OwnDelayed'
    BY <1>1, <2>1, <2>2, OwnDelayedKept DEF sends, SendsSeen, OwnDelayed
  <2>6. stack' # stack
    BY <2>1, PopShape DEF TypeOK
  <2>7. AnsweredTo(a)'
    BY <1>1, <2>1, <2>2, <2>3, <2>6, AnsweredSelf DEF sends, Answered
  <2>8. a \in Thread => Seen(a)'
    BY <2>1, ReturnSeen DEF ReceivePoints
  <2>9. \A b \in Actor : b # a => stack'[b] = stack[b]
    BY <1>1, <2>1, ShapeOfMove
  <2> QED BY <2>2, <2>3, <2>4, <2>5, <2>7, <2>8, <2>9, ActorStep DEF sends
<1>5. CASE PostDelayedLocked(a)
  <2> DEFINE m == Top(a).arg
             t == Dest[m]
  <2>1. /\ stack[a] # <<>> /\ Top(a).at = "postDelayed" /\ m \in Msg
        /\ Move(a, idle, idle) /\ stack' = Return(a)
    BY <1>2, <1>5 DEF PostDelayedLocked, MsgPoints, Move
  <2>2. /\ \A b \in Actor : wake[b] => wake'[b]
        /\ wake'[t]
        /\ \A u \in Thread : u # t => dmsgq'[u] = dmsgq[u]
        /\ UNCHANGED <<msgq, due, sends, fStop, fate>>
    BY <1>5, <2>1 DEF PostDelayedLocked, TypeOK, Actor
  <2>3. \A b \in Actor : Awake(b) => Awake(b)'
    <3>1. \A b \in Actor : b \notin {} /\ Awake(b) => Awake(b)'
      BY <1>1, <2>1, <2>2, AwakeKept DEF sends, At
    <3> QED BY <3>1
  <2>4. SentOnce'
    BY <1>1, <2>1, <2>2, SentOnceKept DEF sends, SendPoints
  <2>5. OwnDelayed'
    <3>1. PICK i \in 1..Len(dmsgq[t]) + 1 : dmsgq'[t] = InsertAt(dmsgq[t], i, m)
      BY <1>5, <2>1 DEF PostDelayedLocked, TypeOK
    <3>2. dmsgq[t] \in Seq(Msg)
      BY <2>1 DEF TypeOK
    <3>3. \A k \in DOMAIN dmsgq'[t] :
            dmsgq'[t][k] = m \/ \E j \in DOMAIN dmsgq[t] : dmsgq'[t][k] = dmsgq[t][j]
      BY <2>1, <3>1, <3>2, Inserted
    <3>4. \A u \in Thread : \A k \in DOMAIN dmsgq'[u] : Dest[dmsgq'[u][k]] = u
      BY <2>1, <2>2, <3>3 DEF OwnDelayed
    <3>5. \A u \in Thread : \A k \in DOMAIN due'[u] : Dest[due'[u][k]] = u
      BY <2>2 DEF OwnDelayed
    <3> QED BY <1>1, <2>1, <3>4, <3>5, OwnDelayedKept
  <2>6. SendsSeen'
    BY <2>2 DEF sends, SendsSeen
  <2>7. stack' # stack
    BY <2>1, PopShape DEF TypeOK
  <2>8. AnsweredTo(a)'
    BY <1>1, <2>1, <2>2, <2>3, <2>7, AnsweredSelf DEF sends, Answered
  <2>9. a \in Thread => Seen(a)'
    BY <2>1, ReturnSeen DEF ReceivePoints
  <2>10. \A b \in Actor : b # a => stack'[b] = stack[b]
    BY <1>1, <2>1, ShapeOfMove
  <2>11. \A u \in Thread : (dmsgq'[u] = dmsgq[u] /\ due'[u] = due[u]) \/ wake'[u]
    BY <2>2
  <2> QED BY <2>2, <2>3, <2>4, <2>5, <2>6, <2>8, <2>9, <2>10, <2>11, ActorStep DEF sends
<1>6. CASE SendLocked(a)
  <2> DEFINE m == Top(a).arg
             f == Call("sendWake", m)
  <2>1. /\ stack[a] # <<>> /\ Top(a).at = "send" /\ m \in Msg /\ At(a, "send")
        /\ f \in Frame /\ f.at = "sendWake" /\ f.arg = m
        /\ Move(a, f, idle) /\ stack' = Replace(a, f)
    BY <1>2, <1>6 DEF SendLocked, GoTo, MsgPoints, Move
  <2> HIDE DEF f
  <2>2. /\ sendlist' = [sendlist EXCEPT ![Dest[m]] = Append(@, m)]
        /\ hasSends' = [hasSends EXCEPT ![Dest[m]] = TRUE]
        /\ sender' = [sender EXCEPT ![m] = a]
        /\ UNCHANGED <<queues, ready, fStop, wake, fate>>
    BY <1>6 DEF SendLocked
  <2>3. sender[m] = Nobody /\ fate[m] # "new"
    BY <2>1 DEF SentOnce
  <2>4. /\ sender'[m] = a /\ a # Nobody
        /\ \A n \in Msg : n # m => sender'[n] = sender[n]
        /\ \A n \in Msg : sender[n] # Nobody => sender'[n] = sender[n]
    BY <2>1, <2>2, <2>3 DEF TypeOK, Actor
  <2>5. /\ \A b \in Actor : b # a => stack'[b] = stack[b]
        /\ Head(stack'[a]) = f /\ stack'[a] # <<>>
        /\ \A i \in DOMAIN stack'[a] : \/ stack'[a][i] = f
                                       \/ \E j \in DOMAIN stack[a] : stack'[a][i] = stack[a][j]
    <3>1. /\ stack'[a][1] = f /\ Head(stack'[a]) = f /\ stack'[a] # <<>> /\ stack'[a] \in Seq(Frame)
          /\ Len(stack'[a]) = Len(stack[a])
          /\ \A i \in 2..Len(stack[a]) : stack'[a][i] = stack[a][i]
          /\ \A b \in Actor : b # a => stack'[b] = stack[b]
      BY <2>1, ReplaceShape
    <3>2. stack[a] \in Seq(Frame)
      BY DEF TypeOK
    <3>3. ASSUME NEW i \in DOMAIN stack'[a], i # 1
          PROVE  \E j \in DOMAIN stack[a] : stack'[a][i] = stack[a][j]
      <4>1. i \in 2..Len(stack[a]) /\ i \in DOMAIN stack[a]
        BY <3>1, <3>2, <3>3
      <4> QED BY <3>1, <4>1
    <3>4. \A i \in DOMAIN stack'[a] : \/ stack'[a][i] = f
                                      \/ \E j \in DOMAIN stack[a] : stack'[a][i] = stack[a][j]
      BY <3>1, <3>3
    <3> QED BY <3>1, <3>4
  <2>6. /\ \A t \in Thread : sendlist[t] \in Seq(Msg)
        /\ \A t \in Thread : t # Dest[m] => sendlist'[t] = sendlist[t]
        /\ sendlist'[Dest[m]] = Append(sendlist[Dest[m]], m)
    BY <2>1, <2>2 DEF TypeOK
  <2>7. SentOnce'
    <3>1. \A b \in Actor : At(b, "send")' => b # a /\ At(b, "send") /\ Top(b)' = Top(b)
      BY <2>1, <2>5 DEF At, Top
    <3>2. \A b \in Actor : b # a /\ At(b, "send") => Top(b).arg # m /\ Top(b).arg \in Msg
      BY <2>1, TopTyped DEF SentOnce, MsgPoints
    <3>3. \A b \in Actor : At(b, "send")' =>
            /\ sender'[Top(b)'.arg] = Nobody
            /\ fate'[Top(b)'.arg] # "new"
            /\ \A c \in Actor : At(c, "send")' /\ Top(c)'.arg = Top(b)'.arg => c = b
      BY <2>2, <2>4, <3>1, <3>2 DEF SentOnce
    <3>4. ASSUME NEW b \in Actor, NEW i \in DOMAIN stack[b]
          PROVE  LET fr == stack[b][i] IN
                 /\ fr.at \in SendPoints => sender'[fr.arg] = b
                 /\ fr.at \in {"finish", "reply"} => sender'[fr.arg] # Nobody
      <4>1. stack[b][i] \in Frame
        BY DEF TypeOK
      <4>2. stack[b][i].at \in SendPoints \cup {"finish", "reply"} => stack[b][i].arg \in Msg
        BY <4>1 DEF Frame, SendPoints, MsgPoints, ThreadPoints, PumpPoints
      <4>3. stack[b][i].at \in SendPoints => sender[stack[b][i].arg] = b /\ b # Nobody
        BY DEF SentOnce, Actor
      <4> QED BY <2>4, <4>2, <4>3 DEF SentOnce
    <3>5. ASSUME NEW b \in Actor, NEW i \in DOMAIN stack'[b]
          PROVE  /\ stack'[b][i].at \in SendPoints => sender'[stack'[b][i].arg] = b
                 /\ stack'[b][i].at \in {"finish", "reply"} => sender'[stack'[b][i].arg] # Nobody
      <4>1. CASE b # a
        BY <2>5, <3>4, <4>1
      <4>2. CASE b = a
        BY <2>1, <2>4, <2>5, <3>4, <4>2
      <4> QED BY <4>1, <4>2
    <3>6. ASSUME NEW t \in Thread, NEW i \in DOMAIN sendlist'[t]
          PROVE  sender'[sendlist'[t][i]] # Nobody
      <4>1. sendlist'[t][i] = m
            \/ \E j \in DOMAIN sendlist[t] : sendlist'[t][i] = sendlist[t][j] /\ sendlist[t][j] \in Msg
        <5>1. CASE t = Dest[m]
          BY <2>1, <2>6, <5>1, Appended
        <5>2. CASE t # Dest[m]
          BY <2>6, <5>2
        <5> QED BY <5>1, <5>2
      <4> QED BY <2>4, <4>1 DEF SentOnce
    <3>7. \A n \in Msg : fate'[n] = "new" => sender'[n] = Nobody
      BY <2>2, <2>3, <2>4 DEF SentOnce
    <3> QED BY <3>3, <3>5, <3>6, <3>7 DEF SentOnce
  <2>8. SendsSeen'
    BY <2>1, <2>2, <2>6 DEF SendsSeen, TypeOK
  <2>9. OwnDelayed'
    BY <1>1, <2>1, <2>2, OwnDelayedKept DEF OwnDelayed, queues
  <2>10. \A b \in Actor : Awake(b) => Awake(b)'
    <3>1. \A b \in Actor : b \notin {} /\ Awake(b) => Awake(b)'
      BY <1>1, <2>1, <2>2, <2>4, AwakeKept DEF At
    <3> QED BY <3>1
  <2>11. \A t \in Thread : t = Dest[m] => Awake(t)'
    BY <2>1, <2>5 DEF Awake, WakeUpComing, At, Top
  <2>12. stack' # stack
    BY <2>1, <2>5 DEF Top
  <2>13. AnsweredTo(a)'
    BY <1>1, <2>1, <2>2, <2>10, <2>12, AnsweredSelf DEF Answered
  <2>14. a \in Thread => Seen(a)'
    BY <2>1, <2>5, SeenSelf
  <2>15. \A t \in Thread : /\ msgq'[t] = msgq[t] /\ dmsgq'[t] = dmsgq[t] /\ due'[t] = due[t]
                           /\ fStop'[t] = fStop[t]
                           /\ sendlist'[t] = sendlist[t] \/ Awake(t)'
    <3>1. \A t \in Thread : /\ msgq'[t] = msgq[t] /\ dmsgq'[t] = dmsgq[t] /\ due'[t] = due[t]
                            /\ fStop'[t] = fStop[t]
      BY <2>2 DEF queues
    <3>2. ASSUME NEW t \in Thread PROVE sendlist'[t] = sendlist[t] \/ Awake(t)'
      <4>1. CASE t = Dest[m]
        BY <2>11, <4>1
      <4> QED BY <2>6, <4>1
    <3> QED BY <3>1, <3>2
  <2>16. /\ \A b \in Actor : wake[b] => wake'[b]
         /\ ready' \ ready = {}
    BY <2>2
  <2> QED BY <2>5, <2>7, <2>8, <2>9, <2>10, <2>13, <2>14, <2>15, <2>16, ActorStep
<1>7. CASE SendWakeUp(a)
  <2> DEFINE f == Call("test", Top(a).arg)
  <2>1. /\ stack[a] # <<>> /\ Top(a).at = "sendWake" /\ Top(a).arg \in Msg
        /\ f \in Frame /\ f.at = "test" /\ f.arg = Top(a).arg /\ sender[f.arg] = a
        /\ Move(a, f, idle) /\ stack' = Replace(a, f)
    BY <1>2, <1>7 DEF SendWakeUp, GoTo, MsgPoints, SendPoints, Move
  <2> HIDE DEF f
  <2>2. /\ \A b \in Actor : wake[b] => wake'[b]
        /\ wake'[Dest[Top(a).arg]]
        /\ UNCHANGED <<queues, sends, fStop, fate>>
    BY <1>7, <2>1 DEF SendWakeUp, TypeOK, Actor
  <2>3. stack' # Return(a)
    BY <2>1, ReplaceShape, PopShape DEF TypeOK
  <2> QED BY <1>1, <2>1, <2>2, <2>3, QuietStep DEF At, SendPoints
<1>8. CASE SendTest(a)
  <2> DEFINE f == Call("sends", Nobody)
             h == Call("sendWait", Top(a).arg)
  <2>1. /\ stack[a] # <<>> /\ Top(a).at \in {"test", "retest"} /\ Top(a).arg \in Msg
        /\ h \in Frame /\ h.at = "sendWait" /\ h.arg = Top(a).arg /\ sender[h.arg] = a
        /\ f \in Frame /\ f.at = "sends"
    BY <1>2, <1>8, CallTyped DEF SendTest, MsgPoints, PumpPoints, SendPoints
  <2>2. \/ stack' = Return(a) /\ (Top(a).at = "test" \/ wake'[a])
        \/ a \in Thread /\ stack' = Split(a, f, h) /\ Top(a).arg \notin ready
        \/ a \notin Thread /\ stack' = Replace(a, h) /\ Top(a).arg \notin ready
    BY <1>8, <2>1 DEF SendTest, GoTo, GoToCall, TypeOK
  <2> HIDE DEF f, h
  <2>3. /\ \A b \in Actor : wake[b] => wake'[b]
        /\ UNCHANGED <<queues, sends, fStop, fate>>
    BY <1>8 DEF SendTest, TypeOK
  <2>4. PICK k \in Frame, l \in Frame :
          /\ Move(a, k, l)
          /\ k = f \/ k = h
          /\ l = f \/ l = h
    BY <2>1, <2>2 DEF Move
  <2>5. \A b \in Actor : Awake(b) => Awake(b)'
    <3>1. \A b \in Actor : b \notin {} /\ Awake(b) => Awake(b)'
      BY <2>1, <2>3, <2>4, AwakeKept DEF sends, At
    <3> QED BY <3>1
  <2>6. SentOnce'
    BY <2>1, <2>3, <2>4, SentOnceKept DEF sends, SendPoints
  <2>7. SendsSeen' /\ OwnDelayed'
    BY <2>1, <2>3, <2>4, OwnDelayedKept DEF sends, queues, SendsSeen, OwnDelayed
  <2>8. AnsweredTo(a)' /\ (a \in Thread => Seen(a)')
    <3>1. CASE stack' = Return(a) /\ (Top(a).at = "test" \/ wake'[a])
      <4>1. Move(a, idle, idle) /\ stack' # stack
        BY <2>1, <3>1, PopShape DEF Move, TypeOK
      <4>2. ASSUME Top(a).at = "test" PROVE AnsweredTo(a)'
        <5>1. AnsweredTo(a) /\ (Awake(a) => Awake(a)') /\ ready' = ready
          BY <2>3, <2>5 DEF sends, Answered
        <5> QED BY <1>1, <2>1, <4>1, <4>2, <5>1, AnsweredSelf
      <4>3. ASSUME wake'[a] PROVE AnsweredTo(a)'
        <5>1. Awake(a)'
          BY <4>3 DEF Awake
        <5> QED BY <5>1 DEF AnsweredTo, Awake
      <4>4. a \in Thread => Seen(a)'
        BY <2>1, <3>1, ReturnSeen DEF ReceivePoints
      <4> QED BY <3>1, <4>2, <4>3, <4>4
    <3>2. CASE a \in Thread /\ stack' = Split(a, f, h) /\ Top(a).arg \notin ready
      <4>1. AnsweredTo(a)'
        BY <2>1, <2>3, <3>2, AnsweredWait DEF sends
      <4>2. Seen(a)'
        BY <2>1, <3>2, SplitShape, SeenSelf
      <4> QED BY <4>1, <4>2
    <3>3. CASE a \notin Thread /\ stack' = Replace(a, h) /\ Top(a).arg \notin ready
      BY <2>1, <2>3, <3>3, AnsweredWait DEF sends
    <3> QED BY <2>2, <3>1, <3>2, <3>3
  <2>9. \A b \in Actor : b # a => stack'[b] = stack[b]
    BY <2>1, <2>4, ShapeOfMove
  <2> QED BY <2>3, <2>5, <2>6, <2>7, <2>8, <2>9, ActorStep DEF sends, queues
<1>9. CASE SendWait(a)
  <2> DEFINE h == Call("retest", Top(a).arg)
  <2>1. /\ stack[a] # <<>> /\ Top(a).at = "sendWait" /\ Top(a).arg \in Msg
        /\ h \in Frame /\ h.at = "retest" /\ h.arg = Top(a).arg /\ sender[h.arg] = a
        /\ Move(a, h, idle) /\ stack' = Replace(a, h)
    BY <1>2, <1>9 DEF SendWait, GoTo, MsgPoints, SendPoints, Move
  <2> HIDE DEF h
  <2>2. /\ \A b \in Actor : b # a /\ wake[b] => wake'[b]
        /\ UNCHANGED <<queues, sends, fStop, fate>>
    BY <1>9 DEF SendWait, TypeOK
  <2>3. \A b \in Actor : b # a /\ Awake(b) => Awake(b)'
    <3>1. \A b \in Actor : b \notin {a} /\ Awake(b) => Awake(b)'
      BY <1>1, <2>1, <2>2, AwakeKept DEF sends, At
    <3> QED BY <3>1
  <2>4. SentOnce'
    BY <1>1, <2>1, <2>2, SentOnceKept DEF sends, SendPoints
  <2>5. SendsSeen' /\ OwnDelayed'
    BY <1>1, <2>1, <2>2, OwnDelayedKept DEF sends, queues, SendsSeen, OwnDelayed
  <2>6. AnsweredTo(a)'
    BY <2>1, AnsweredWait
  <2>7. a \in Thread => Seen(a)'
    BY <2>1, ReplaceShape, SeenSelf
  <2>8. \A b \in Actor : b # a => stack'[b] = stack[b]
    BY <2>1, ReplaceShape
  <2> QED BY <2>2, <2>3, <2>4, <2>5, <2>6, <2>7, <2>8, ActorStep DEF sends, queues
<1>10. CASE HandlerReturns(a)
  <2>1. /\ stack[a] # <<>> /\ Top(a).at = "run" /\ Move(a, idle, idle) /\ stack' = Return(a)
        /\ wake' = wake
        /\ \A m \in Msg : fate'[m] = "new" => fate[m] = "new"
        /\ UNCHANGED <<queues, sends, fStop>>
    BY <1>2, <1>10 DEF HandlerReturns, MsgPoints, Move, TypeOK
  <2> QED BY <1>1, <2>1, QuietStep DEF At, SendPoints, ReceivePoints
<1>11. CASE StopWakeUp(a)
  <2> DEFINE f == Call("join", Top(a).arg)
  <2>1. /\ stack[a] # <<>> /\ Top(a).at = "stop" /\ Top(a).arg \in Thread
        /\ f \in Frame /\ f.at = "join" /\ Move(a, f, idle)
    BY <1>3, <1>11 DEF StopWakeUp, GoTo, ThreadPoints, Move
  <2> HIDE DEF f
  <2>2. /\ \A b \in Actor : wake[b] => wake'[b]
        /\ wake'[Top(a).arg]
        /\ UNCHANGED <<queues, sends, fStop, fate>>
    BY <1>11, <2>1 DEF StopWakeUp, TypeOK, Actor
  <2> QED BY <1>1, <2>1, <2>2, QuietStep DEF At, SendPoints, ReceivePoints
<1>12. CASE Join(a)
  <2> DEFINE f == Call("clear", Top(a).arg)
  <2>1. /\ stack[a] # <<>> /\ Top(a).at = "join" /\ Top(a).arg \in Thread
        /\ f \in Frame /\ f.at = "clear" /\ f.arg = Top(a).arg /\ Move(a, f, idle)
        /\ stack[f.arg] = <<>> /\ stack' = Replace(a, f)
    BY <1>3, <1>12 DEF Join, GoTo, ThreadPoints, Move
  <2> HIDE DEF f
  <2>2. UNCHANGED <<queues, sends, fStop, wake, fate>>
    BY <1>12 DEF Join
  <2>3. stack' # Return(a)
    BY <2>1, ReplaceShape, PopShape DEF TypeOK
  <2> QED BY <1>1, <2>1, <2>2, <2>3, QuietStep DEF At, SendPoints
<1>13. CASE DeleteThread(a)
  <2> DEFINE x == Top(a).arg
  <2>1. /\ stack[a] # <<>> /\ Top(a).at = "clear" /\ x \in Thread
        /\ Move(a, idle, idle) /\ stack' = Return(a) /\ stack[x] = <<>>
    BY <1>3, <1>13 DEF DeleteThread, ThreadPoints, Move, OwnDelayed
  <2>2. Clear({x}, Msg) /\ fStop' = fStop /\ Msg \in SUBSET Msg
    BY <1>13 DEF DeleteThread
  <2> HIDE DEF x
  <2>3. /\ \A b \in Actor : wake[b] => wake'[b]
        /\ sender' = sender
        /\ \A m \in Msg : fate'[m] = "new" => fate[m] = "new"
        /\ \A m \in ready' \ ready, b \in Actor : sender[m] = b => wake'[b]
        /\ SendsSeen'
    BY <2>2, ClearKeeps
  <2>4. \A t \in Thread :
          /\ t # x => /\ msgq'[t] = msgq[t] /\ dmsgq'[t] = dmsgq[t]
                      /\ due'[t] = due[t] /\ sendlist'[t] = sendlist[t]
          /\ \A i \in DOMAIN sendlist'[t] :
               \E j \in DOMAIN sendlist[t] : sendlist'[t][i] = sendlist[t][j]
          /\ \A i \in DOMAIN dmsgq'[t] : Dest[dmsgq'[t][i]] = t
          /\ \A i \in DOMAIN due'[t] : Dest[due'[t][i]] = t
    BY <2>2, ClearKeeps
  <2>5. \A b \in Actor : Awake(b) => Awake(b)'
    <3>1. \A b \in Actor : b \notin {} /\ Awake(b) => Awake(b)'
      BY <1>1, <2>1, <2>3, AwakeKept DEF At
    <3> QED BY <3>1
  <2>6. SentOnce'
    BY <1>1, <2>1, <2>3, <2>4, SentOnceKept DEF SendPoints
  <2>7. OwnDelayed'
    BY <1>1, <2>1, <2>4, OwnDelayedKept
  <2>8. stack' # stack
    <3>1. stack[a] # <<>> /\ stack' = Return(a)
      BY <2>1
    <3> QED BY <3>1, PopShape DEF TypeOK
  <2>9. \A m \in ready' \ ready, b \in Actor : sender[m] = b => Awake(b)'
    BY <2>3 DEF Awake
  <2>10. AnsweredTo(a)'
    BY <1>1, <2>1, <2>5, <2>8, <2>9, AnsweredSelf DEF Answered
  <2>11. a \in Thread => Seen(a)'
    BY <2>1, ReturnSeen DEF ReceivePoints
  <2>12. \A b \in Actor : b # a => stack'[b] = stack[b]
    BY <1>1, <2>1, ShapeOfMove
  <2>13. \A t \in Thread : stack[t] # <<>> =>
           /\ msgq'[t] = msgq[t] /\ dmsgq'[t] = dmsgq[t] /\ due'[t] = due[t]
           /\ sendlist'[t] = sendlist[t] /\ fStop'[t] = fStop[t]
    BY <2>1, <2>2, <2>4
  <2> QED BY <2>3, <2>5, <2>6, <2>7, <2>9, <2>10, <2>11, <2>12, <2>13, ActorStep
<1> QED BY <1>4, <1>5, <1>6, <1>7, <1>8, <1>9, <1>10, <1>11, <1>12, <1>13 DEF Step

\* ReceiveSends returns, to Get or to Send, once there is nothing to receive.
LEMMA SeenReceived ==
  ASSUME TypeOK, Stacked, NEW t \in Thread, stack[t] # <<>>, stack' = Return(t),
         Top(t).at \in ReceivePoints, sendlist'[t] = <<>>
  PROVE  Seen(t)'
<1>1. t \in Actor /\ Top(t) \in Frame /\ Move(t, Top(t), Top(t)) /\ stack'[t] # stack[t]
  <2>1. t \in Actor
    BY DEF Actor
  <2>2. stack'[t] # stack[t]
    BY <2>1, PopShape DEF TypeOK
  <2> QED BY <2>1, <2>2 DEF TypeOK, Top, Move
<1>2. stack'[t] # <<>> => \/ Head(stack'[t]) = Top(t)
                          \/ On(Top(t).at, Head(stack'[t]).at)
  BY <1>1, ShapeOfMove
<1>3. stack'[t] # <<>> => Head(stack'[t]).at \notin {"stopped", "wait"}
  BY <1>2 DEF On, ReceivePoints, CallPoints
<1> QED BY <1>3 DEF Seen, PostSeen, DelaySeen, StopSeen, SendSeen, Asleep, At, Top

\* ReceiveSends and Get keep the invariant.
LEMMA PumpKeeps ==
  ASSUME WakeInv, TypeOK', Stacked', NEW t \in Thread, Pump(t)
  PROVE  WakeInv'
<1> USE ThreadQueueAssumption DEF WakeInv
<1> DEFINE idle == Call("idle", Nobody)
<1>1. idle \in Frame /\ idle.at = "idle" /\ t \in Actor
  BY CallTyped DEF PumpPoints, Actor
<1> HIDE DEF idle
<1>2. ASSUME NEW at, At(t, at)
      PROVE  /\ stack[t] # <<>> /\ Top(t).at = at /\ 1 \in DOMAIN stack[t] /\ Top(t) = stack[t][1]
             /\ at \in MsgPoints => Top(t).arg \in Msg
             /\ at \in PumpPoints => Top(t).arg \in Msg \cup {Nobody}
             /\ at \in {"finish", "reply"} => sender[Top(t).arg] # Nobody
  <2>1. /\ stack[t] # <<>> /\ Top(t).at = at /\ Top(t) = stack[t][1] /\ stack[t] \in Seq(Frame)
        /\ at \in MsgPoints => Top(t).arg \in Msg
        /\ at \in PumpPoints => Top(t).arg \in Msg \cup {Nobody}
    BY <1>1, <1>2, TopTyped
  <2>2. 1 \in DOMAIN stack[t]
    BY <2>1
  <2> QED BY <1>1, <2>1, <2>2 DEF SentOnce
<1>3. CASE ReceiveSends(t)
  <2> DEFINE f == Call("loop", Top(t).arg)
  <2>1. /\ stack[t] # <<>> /\ Top(t).at = "sends"
        /\ f \in Frame /\ f.at = "loop" /\ Move(t, f, idle)
        /\ hasSends[t] => stack' = Replace(t, f)
        /\ ~hasSends[t] => stack' = Return(t)
        /\ UNCHANGED <<queues, sends, fStop, wake, fate>>
    BY <1>2, <1>3, CallTyped DEF ReceiveSends, GoTo, PumpPoints, Move
  <2> HIDE DEF f
  <2>2. CASE hasSends[t]
    <3>1. stack' # Return(t)
      BY <1>1, <2>1, <2>2, ReplaceShape, PopShape DEF TypeOK
    <3> QED BY <1>1, <2>1, <3>1, QuietStep DEF At, SendPoints
  <2>3. CASE ~hasSends[t]
    <3>1. sendlist'[t] = <<>>
      BY <2>1, <2>3 DEF SendsSeen, sends
    <3>2. Seen(t)'
      BY <2>1, <2>3, <3>1, SeenReceived DEF ReceivePoints
    <3>3. \A b \in Actor : Awake(b) => Awake(b)'
      <4>1. \A b \in Actor : b \notin {} /\ Awake(b) => Awake(b)'
        BY <1>1, <2>1, AwakeKept DEF sends, At
      <4> QED BY <4>1
    <3>4. SentOnce'
      BY <1>1, <2>1, SentOnceKept DEF sends, SendPoints
    <3>5. SendsSeen' /\ OwnDelayed'
      BY <1>1, <2>1, OwnDelayedKept DEF sends, queues, SendsSeen, OwnDelayed
    <3>6. stack' # stack
      BY <1>1, <2>1, <2>3, PopShape DEF TypeOK
    <3>7. AnsweredTo(t)'
      BY <1>1, <2>1, <3>3, <3>6, AnsweredSelf DEF sends, Answered
    <3>8. \A b \in Actor : b # t => stack'[b] = stack[b]
      BY <1>1, <2>1, ShapeOfMove
    <3> QED BY <1>1, <2>1, <3>2, <3>3, <3>4, <3>5, <3>7, <3>8, ActorStep DEF sends, queues
  <2> QED BY <2>2, <2>3
<1>4. CASE ReceiveSend(t) /\ sendlist[t] = <<>>
  <2>1. /\ stack[t] # <<>> /\ Top(t).at = "loop" /\ Move(t, idle, idle) /\ stack' = Return(t)
        /\ UNCHANGED <<queues, sendlist, sender, ready, fStop, wake, fate>>
        /\ \A u \in Thread : u # t => hasSends'[u] = hasSends[u]
    BY <1>2, <1>4 DEF ReceiveSend, Move, TypeOK
  <2>2. Seen(t)'
    BY <1>4, <2>1, SeenReceived DEF ReceivePoints
  <2>3. \A b \in Actor : Awake(b) => Awake(b)'
    <3>1. \A b \in Actor : b \notin {} /\ Awake(b) => Awake(b)'
      BY <1>1, <2>1, AwakeKept DEF At
    <3> QED BY <3>1
  <2>4. SentOnce'
    BY <1>1, <2>1, SentOnceKept DEF SendPoints
  <2>5. SendsSeen' /\ OwnDelayed'
    BY <1>1, <1>4, <2>1, OwnDelayedKept DEF queues, SendsSeen, OwnDelayed
  <2>6. stack' # stack
    BY <1>1, <2>1, PopShape DEF TypeOK
  <2>7. AnsweredTo(t)'
    BY <1>1, <2>1, <2>3, <2>6, AnsweredSelf DEF Answered
  <2>8. \A b \in Actor : b # t => stack'[b] = stack[b]
    BY <1>1, <2>1, ShapeOfMove
  <2> QED BY <1>1, <2>1, <2>2, <2>3, <2>4, <2>5, <2>7, <2>8, ActorStep DEF queues
<1>5. CASE ReceiveSend(t) /\ sendlist[t] # <<>>
  <2> DEFINE m == Head(sendlist[t])
             f == Call("run", m)
             g == Call("finish", m)
  <2>1. /\ m \in Msg /\ sender[m] # Nobody /\ Tail(sendlist[t]) \in Seq(Msg)
        /\ \A i \in DOMAIN Tail(sendlist[t]) :
             \E j \in DOMAIN sendlist[t] : Tail(sendlist[t])[i] = sendlist[t][j]
    <3>1. sendlist[t] \in Seq(Msg) /\ 1 \in DOMAIN sendlist[t] /\ m = sendlist[t][1]
      BY <1>5 DEF TypeOK
    <3>2. \A i \in DOMAIN Tail(sendlist[t]) :
            i + 1 \in DOMAIN sendlist[t] /\ Tail(sendlist[t])[i] = sendlist[t][i + 1]
      BY <1>5, <3>1
    <3> QED BY <1>5, <3>1, <3>2, HeadTyped DEF SentOnce
  <2>2. /\ stack[t] # <<>> /\ Top(t).at = "loop" /\ Move(t, f, g) /\ stack' = Split(t, f, g)
        /\ sendlist' = [sendlist EXCEPT ![t] = Tail(@)]
        /\ fate' = [fate EXCEPT ![m] = "running"]
        /\ UNCHANGED <<queues, hasSends, sender, ready, fStop, wake>>
    BY <1>2, <1>5 DEF ReceiveSend, Move
  <2>3. f \in Frame /\ f.at = "run" /\ g \in Frame /\ g.at = "finish" /\ g.arg = m
    BY <2>1, CallTyped DEF MsgPoints
  <2> HIDE DEF f, g
  <2>4. /\ \A n \in Msg : fate'[n] = "new" => fate[n] = "new"
        /\ \A u \in Thread : u # t => sendlist'[u] = sendlist[u]
        /\ sendlist'[t] = Tail(sendlist[t])
    BY <2>2 DEF TypeOK
  <2> HIDE DEF m
  <2>5. \A b \in Actor : Awake(b) => Awake(b)'
    <3>1. \A b \in Actor : b \notin {} /\ Awake(b) => Awake(b)'
      BY <1>1, <2>2, <2>3, AwakeKept DEF At
    <3> QED BY <3>1
  <2>6. SentOnce'
    <3>1. \A u \in Thread : \A i \in DOMAIN sendlist'[u] :
            \E j \in DOMAIN sendlist[u] : sendlist'[u][i] = sendlist[u][j]
      <4>1. ASSUME NEW u \in Thread, u # t, NEW i \in DOMAIN sendlist'[u]
            PROVE  \E j \in DOMAIN sendlist[u] : sendlist'[u][i] = sendlist[u][j]
        BY <2>4, <4>1
      <4>2. \A i \in DOMAIN sendlist'[t] : \E j \in DOMAIN sendlist[t] : sendlist'[t][i] = sendlist[t][j]
        <5>1. \A i \in DOMAIN Tail(sendlist[t]) :
                \E j \in DOMAIN sendlist[t] : Tail(sendlist[t])[i] = sendlist[t][j]
          BY <2>1
        <5> QED BY <2>4, <5>1, Zenon
      <4> QED BY <4>1, <4>2, Zenon
    <3> QED BY <1>1, <2>1, <2>2, <2>3, <2>4, <3>1, SentOnceKept DEF SendPoints
  <2>7. SendsSeen'
    BY <1>5, <2>2, <2>4 DEF SendsSeen
  <2>8. OwnDelayed'
    BY <1>1, <2>2, <2>3, OwnDelayedKept DEF queues, OwnDelayed
  <2>9. stack' # stack /\ Head(stack'[t]) = f
    <3>1. Head(stack'[t]) = f
      BY <1>1, <2>2, <2>3, SplitShape
    <3> QED BY <2>2, <2>3, <3>1 DEF Top
  <2>10. AnsweredTo(t)'
    BY <1>1, <2>2, <2>3, <2>5, <2>9, AnsweredSelf DEF Answered
  <2>11. Seen(t)'
    BY <2>3, <2>9, SeenSelf
  <2>12. \A b \in Actor : b # t => stack'[b] = stack[b]
    BY <1>1, <2>2, <2>3, ShapeOfMove
  <2> QED BY <1>1, <2>2, <2>4, <2>5, <2>6, <2>7, <2>8, <2>10, <2>11, <2>12, ActorStep DEF queues
<1>6. CASE SendFinished(t)
  <2> DEFINE m == Top(t).arg
             f == Call("reply", m)
  <2>1. /\ stack[t] # <<>> /\ Top(t).at = "finish" /\ m \in Msg /\ sender[m] # Nobody
        /\ f \in Frame /\ f.at = "reply" /\ f.arg = m
        /\ Move(t, f, idle) /\ stack' = Replace(t, f)
        /\ ready' = ready \cup {m}
        /\ UNCHANGED <<queues, sendlist, hasSends, sender, fStop, wake, fate>>
    BY <1>2, <1>6, CallTyped DEF SendFinished, GoTo, MsgPoints, Move
  <2> HIDE DEF f, m
  <2>2. /\ stack' # stack /\ stack'[t] # <<>> /\ Head(stack'[t]) = f
        /\ \A b \in Actor : b # t => stack'[b] = stack[b]
    <3>1. Head(stack'[t]) = f /\ stack'[t] # <<>> /\ \A b \in Actor : b # t => stack'[b] = stack[b]
      BY <1>1, <2>1, ReplaceShape
    <3> QED BY <2>1, <3>1 DEF Top
  <2>3. \A n \in ready' \ ready, b \in Actor : sender[n] = b => Awake(b)'
    <3>1. At(t, "reply")' /\ Top(t)'.arg = m
      BY <2>1, <2>2 DEF At, Top
    <3>2. \A b \in Actor : sender[m] = b => WakeUpComing(b)'
      BY <1>1, <2>1, <3>1 DEF WakeUpComing
    <3> QED BY <2>1, <3>2 DEF Awake
  <2>4. \A b \in Actor : Awake(b) => Awake(b)'
    <3>1. \A b \in Actor : b \notin {} /\ Awake(b) => Awake(b)'
      BY <1>1, <2>1, AwakeKept DEF At
    <3> QED BY <3>1
  <2>5. SentOnce'
    BY <1>1, <2>1, SentOnceKept DEF SendPoints
  <2>6. SendsSeen' /\ OwnDelayed'
    BY <1>1, <2>1, OwnDelayedKept DEF queues, SendsSeen, OwnDelayed
  <2>7. AnsweredTo(t)'
    BY <1>1, <2>1, <2>2, <2>3, <2>4, AnsweredSelf DEF Answered
  <2>8. Seen(t)'
    BY <2>1, <2>2, SeenSelf
  <2> QED BY <1>1, <2>1, <2>2, <2>3, <2>4, <2>5, <2>6, <2>7, <2>8, ActorStep DEF queues
<1>7. CASE SendReply(t)
  <2> DEFINE f == Call("loop", Nobody)
  <2>1. /\ stack[t] # <<>> /\ Top(t).at = "reply" /\ Top(t).arg \in Msg
        /\ sender[Top(t).arg] # Nobody
        /\ f \in Frame /\ f.at = "loop" /\ Move(t, f, idle) /\ stack' = Replace(t, f)
        /\ wake' = [wake EXCEPT ![sender[Top(t).arg]] = TRUE]
        /\ UNCHANGED <<queues, sends, fStop, fate>>
    BY <1>2, <1>7, CallTyped DEF SendReply, MsgPoints, PumpPoints, Move
  <2> HIDE DEF f
  <2>2. (\A b \in Actor : wake[b] => wake'[b]) /\ wake'[sender[Top(t).arg]]
    BY <2>1 DEF TypeOK
  <2>3. stack' # Return(t)
    <3>1. stack[t] \in Seq(Frame) /\ stack[t] # <<>> /\ f \in Frame /\ stack' = Replace(t, f)
      BY <1>1, <2>1 DEF TypeOK
    <3> QED BY <1>1, <3>1, ReplaceShape, PopShape
  <2> QED BY <1>1, <2>1, <2>2, <2>3, QuietStep DEF At, SendPoints
<1>8. CASE Get(t)
  <2> DEFINE f == Call("sends", Nobody)
             g == Call("queue", Top(t).arg)
  <2>1. /\ stack[t] # <<>> /\ Top(t).at = "get"
        /\ f \in Frame /\ f.at = "sends" /\ g \in Frame /\ g.at = "queue" /\ Move(t, f, g)
        /\ UNCHANGED <<queues, sends, fStop, wake, fate>>
    BY <1>2, <1>8, CallTyped DEF Get, GoToCall, PumpPoints, Move
  <2> HIDE DEF f, g
  <2> QED BY <1>1, <2>1, QuietStep DEF At, SendPoints, ReceivePoints
<1>9. CASE GetQueue(t) /\ msgq[t] \o due[t] = <<>>
  <2> DEFINE f == Call("stopped", Soonest(dmsgq[t]))
  <2>1. /\ msgq[t] = <<>> /\ dmsgq[t] \in Seq(Msg)
        /\ Soonest(dmsgq[t]) \in Msg \cup {Nobody}
        /\ dmsgq[t] # <<>> => Soonest(dmsgq[t]) = Head(dmsgq[t])
    <3>1. msgq[t] \in Seq(Msg) /\ due[t] \in Seq(Msg) /\ dmsgq[t] \in Seq(Msg)
      BY DEF TypeOK
    <3> QED BY <1>9, <3>1 DEF Soonest
  <2>2. /\ stack[t] # <<>> /\ Top(t).at = "queue" /\ At(t, "queue")
        /\ f \in Frame /\ f.at = "stopped" /\ f.arg = Soonest(dmsgq[t])
        /\ Move(t, f, idle) /\ stack' = Replace(t, f)
        /\ due' = [due EXCEPT ![t] = <<>>]
        /\ UNCHANGED <<msgq, dmsgq, sends, fStop, wake, fate>>
    BY <1>2, <1>9, <2>1, CallTyped DEF GetQueue, PumpPoints, Move
  <2> HIDE DEF f
  <2>3. \A u \in Thread : u # t => due'[u] = due[u]
    BY <2>2 DEF TypeOK
  <2>4. due'[t] = <<>>
    BY <2>2 DEF TypeOK
  <2>5. \A b \in Actor : Awake(b) => Awake(b)'
    <3>1. \A b \in Actor : b \notin {} /\ Awake(b) => Awake(b)'
      BY <1>1, <2>2, AwakeKept DEF sends, At
    <3> QED BY <3>1
  <2>6. SentOnce'
    BY <1>1, <2>2, SentOnceKept DEF sends, SendPoints
  <2>7. SendsSeen'
    BY <2>2 DEF sends, SendsSeen
  <2>8. OwnDelayed'
    <3>1. \A u \in Thread : \A i \in DOMAIN due'[u] : Dest[due'[u][i]] = u
      BY <2>3, <2>4 DEF OwnDelayed
    <3> QED BY <1>1, <2>2, <3>1, OwnDelayedKept DEF OwnDelayed
  <2>9. Head(stack'[t]) = f /\ stack'[t] # <<>> /\ stack' # stack
        /\ \A b \in Actor : b # t => stack'[b] = stack[b]
    <3>1. Head(stack'[t]) = f /\ stack'[t] # <<>> /\ \A b \in Actor : b # t => stack'[b] = stack[b]
      BY <1>1, <2>2, ReplaceShape
    <3> QED BY <2>2, <3>1 DEF Top
  <2>10. AnsweredTo(t)'
    BY <1>1, <2>2, <2>5, <2>9, AnsweredSelf DEF sends, Answered
  <2>11. Seen(t)'
    <3>1. /\ ~At(t, "wait")' /\ Top(t)'.arg = Soonest(dmsgq[t])
      BY <2>2, <2>9 DEF At, Top
    <3>2. PostSeen(t)' /\ StopSeen(t)'
      BY <2>1, <2>2, <3>1 DEF PostSeen, StopSeen
    <3>3. DelaySeen(t)'
      BY <2>1, <2>2, <3>1 DEF DelaySeen
    <3>4. SendSeen(t)'
      BY <1>1, <2>2, <2>5 DEF SendSeen, NoLostWakeUp, Seen, Awake, sends
    <3> QED BY <3>2, <3>3, <3>4 DEF Seen
  <2> QED BY <1>1, <2>2, <2>3, <2>5, <2>6, <2>7, <2>8, <2>9, <2>10, <2>11, ActorStep DEF sends
<1>10. CASE GetQueue(t) /\ msgq[t] \o due[t] # <<>>
  <2> DEFINE m == Head(msgq[t] \o due[t])
             f == Call("run", m)
             g == Call("get", Top(t).arg)
  <2>1. m \in Msg
    <3>1. msgq[t] \o due[t] \in Seq(Msg)
      BY DEF TypeOK
    <3> QED BY <1>10, <3>1, HeadTyped
  <2>2. /\ stack[t] # <<>> /\ Top(t).at = "queue" /\ At(t, "queue")
        /\ f \in Frame /\ f.at = "run" /\ g \in Frame /\ g.at = "get"
    <3> HIDE DEF m
    <3>1. At(t, "queue")
      BY <1>10 DEF GetQueue
    <3>2. stack[t] # <<>> /\ Top(t).at = "queue" /\ Top(t).arg \in Msg \cup {Nobody}
      BY <1>2, <3>1 DEF PumpPoints
    <3> QED BY <2>1, <3>1, <3>2, CallTyped DEF MsgPoints, PumpPoints
  <2>3. /\ due' = [due EXCEPT ![t] = <<>>]
        /\ msgq' = [msgq EXCEPT ![t] = Tail(msgq[t] \o due[t])]
        /\ \A n \in Msg : fate'[n] = "new" => fate[n] = "new"
        /\ stack' = stack \/ stack' = Split(t, f, g)
        /\ UNCHANGED <<dmsgq, sends, fStop, wake>>
    <3>1. /\ due' = [due EXCEPT ![t] = <<>>]
          /\ msgq' = [msgq EXCEPT ![t] = Tail(msgq[t] \o due[t])]
          /\ UNCHANGED <<dmsgq, sends, fStop, wake>>
      BY <1>10 DEF GetQueue
    <3>2. \/ fate' = [fate EXCEPT ![m] = "done"] /\ stack' = stack
          \/ fate' = [fate EXCEPT ![m] = "running"] /\ stack' = Split(t, f, g)
      <4>1. IF m \in Disposal
            THEN fate' = [fate EXCEPT ![m] = "done"] /\ stack' = stack
            ELSE fate' = [fate EXCEPT ![m] = "running"] /\ stack' = GoToCall(t, "get", f)
        BY <1>10 DEF GetQueue
      <4>2. GoToCall(t, "get", f) = Split(t, f, g)
        BY DEF GoToCall
      <4> QED BY <4>1, <4>2
    <3> HIDE DEF m
    <3>3. \A n \in Msg : fate'[n] = "new" => fate[n] = "new"
      BY <2>1, <3>2 DEF TypeOK
    <3> QED BY <3>1, <3>2, <3>3
  <2> HIDE DEF f, g, m
  <2>4. Move(t, f, g)
    BY <2>3 DEF Move
  <2>5. /\ \A u \in Thread : u # t => due'[u] = due[u] /\ msgq'[u] = msgq[u]
        /\ due'[t] = <<>>
    BY <2>3 DEF TypeOK
  <2>6. \A b \in Actor : Awake(b) => Awake(b)'
    <3>1. \A b \in Actor : b \notin {} /\ Awake(b) => Awake(b)'
      BY <1>1, <2>2, <2>3, <2>4, AwakeKept DEF sends, At
    <3> QED BY <3>1
  <2>7. SentOnce'
    BY <1>1, <2>2, <2>3, <2>4, SentOnceKept DEF sends, SendPoints
  <2>8. SendsSeen'
    BY <2>3 DEF sends, SendsSeen
  <2>9. OwnDelayed'
    <3>1. \A u \in Thread : \A i \in DOMAIN due'[u] : Dest[due'[u][i]] = u
      BY <2>5 DEF OwnDelayed
    <3> QED BY <1>1, <2>2, <2>3, <2>4, <3>1, OwnDelayedKept DEF OwnDelayed
  <2>10. AnsweredTo(t)' /\ Seen(t)'
    <3>1. CASE stack' = stack
      <4>1. AnsweredTo(t)'
        BY <1>1, <2>3, <2>6, <3>1, AnsweredOthers DEF sends, Answered
      <4>2. ~Asleep(t)' /\ ~At(t, "wait")'
        BY <2>2, <3>1 DEF Asleep, At, Top
      <4>3. SendSeen(t)'
        BY <1>1, <2>2, <2>3, <2>6 DEF SendSeen, NoLostWakeUp, Seen, Awake, sends
      <4> QED BY <4>1, <4>2, <4>3 DEF Seen, PostSeen, DelaySeen, StopSeen
    <3>2. CASE stack' = Split(t, f, g)
      <4>1. Head(stack'[t]) = f /\ stack' # stack
        <5>1. Head(stack'[t]) = f
          BY <1>1, <2>2, <3>2, SplitShape
        <5> QED BY <2>2, <5>1 DEF Top
      <4>2. Seen(t)'
        BY <2>2, <4>1, SeenSelf
      <4>3. AnsweredTo(t)'
        BY <1>1, <2>2, <2>3, <2>4, <2>6, <4>1, AnsweredSelf DEF sends, Answered
      <4> QED BY <4>2, <4>3
    <3> QED BY <2>3, <3>1, <3>2
  <2>11. \A b \in Actor : b # t => stack'[b] = stack[b]
    BY <1>1, <2>2, <2>4, ShapeOfMove
  <2> QED BY <1>1, <2>3, <2>5, <2>6, <2>7, <2>8, <2>9, <2>10, <2>11, ActorStep DEF sends
<1>11. CASE GetStopped(t)
  <2> DEFINE f == Call("wait", Top(t).arg)
  <2>1. /\ stack[t] # <<>> /\ Top(t).at = "stopped" /\ At(t, "stopped")
        /\ f \in Frame /\ f.at = "wait" /\ f.arg = Top(t).arg /\ Move(t, f, idle)
        /\ fStop[t] => stack' = Return(t)
        /\ ~fStop[t] => stack' = Replace(t, f)
        /\ UNCHANGED <<queues, sends, fStop, wake, fate>>
    BY <1>2, <1>11, CallTyped DEF GetStopped, GoTo, PumpPoints, Move
  <2> HIDE DEF f
  <2>2. \A b \in Actor : Awake(b) => Awake(b)'
    <3>1. \A b \in Actor : b \notin {} /\ Awake(b) => Awake(b)'
      BY <1>1, <2>1, AwakeKept DEF sends, At
    <3> QED BY <3>1
  <2>3. SentOnce'
    BY <1>1, <2>1, SentOnceKept DEF sends, SendPoints
  <2>4. SendsSeen' /\ OwnDelayed'
    BY <1>1, <2>1, OwnDelayedKept DEF sends, queues, SendsSeen, OwnDelayed
  <2>5. stack' # stack
    <3>1. CASE fStop[t]
      <4>1. stack[t] \in Seq(Frame) /\ stack[t] # <<>> /\ stack' = Return(t)
        BY <1>1, <2>1, <3>1 DEF TypeOK
      <4> QED BY <1>1, <4>1, PopShape
    <3>2. CASE ~fStop[t]
      <4>1. Head(stack'[t]) = f
        BY <1>1, <2>1, <3>2, ReplaceShape
      <4> QED BY <2>1, <4>1 DEF Top
    <3> QED BY <3>1, <3>2
  <2>6. AnsweredTo(t)'
    BY <1>1, <2>1, <2>2, <2>5, AnsweredSelf DEF sends, Answered
  <2>7. Seen(t)'
    <3>1. CASE fStop[t]
      BY <2>1, <3>1, ReturnSeen DEF ReceivePoints
    <3>2. CASE ~fStop[t]
      <4>1. Head(stack'[t]) = f /\ stack'[t] # <<>>
        BY <1>1, <2>1, <3>2, ReplaceShape
      <4>2. Top(t)'.arg = Top(t).arg
        BY <2>1, <4>1 DEF Top
      <4>3. PostSeen(t) /\ DelaySeen(t) /\ SendSeen(t) /\ Asleep(t)
        BY <2>1 DEF NoLostWakeUp, Seen, Asleep
      <4>4. PostSeen(t)' /\ DelaySeen(t)'
        BY <2>1, <4>2, <4>3 DEF PostSeen, DelaySeen, queues
      <4>5. StopSeen(t)'
        BY <2>1, <3>2 DEF StopSeen
      <4>6. SendSeen(t)'
        BY <1>1, <2>1, <2>2, <4>3 DEF SendSeen, Awake, sends
      <4> QED BY <4>4, <4>5, <4>6 DEF Seen
    <3> QED BY <3>1, <3>2
  <2>8. \A b \in Actor : b # t => stack'[b] = stack[b]
    BY <1>1, <2>1, ShapeOfMove
  <2> QED BY <1>1, <2>1, <2>2, <2>3, <2>4, <2>6, <2>7, <2>8, ActorStep DEF sends, queues
<1>12. CASE GetWait(t)
  <2> DEFINE f == Call("get", Nobody)
  <2>1. /\ stack[t] # <<>> /\ Top(t).at = "wait"
        /\ f \in Frame /\ f.at = "get" /\ Move(t, f, idle) /\ stack' = Replace(t, f)
        /\ \A b \in Actor : b # t /\ wake[b] => wake'[b]
        /\ UNCHANGED <<queues, sends, fStop, fate>>
    BY <1>2, <1>12, CallTyped DEF GetWait, PumpPoints, Move, TypeOK
  <2> HIDE DEF f
  <2>2. \A b \in Actor : b # t /\ Awake(b) => Awake(b)'
    <3>1. \A b \in Actor : b \notin {t} /\ Awake(b) => Awake(b)'
      BY <1>1, <2>1, AwakeKept DEF sends, At
    <3> QED BY <3>1
  <2>3. SentOnce'
    BY <1>1, <2>1, SentOnceKept DEF sends, SendPoints
  <2>4. SendsSeen' /\ OwnDelayed'
    BY <1>1, <2>1, OwnDelayedKept DEF sends, queues, SendsSeen, OwnDelayed
  <2>5. /\ stack[t] \in Seq(Frame) /\ stack'[t] \in Seq(Frame) /\ Len(stack'[t]) = Len(stack[t])
        /\ Head(stack'[t]) = f /\ stack'[t][1] = f /\ Top(t) = stack[t][1]
        /\ \A b \in Actor : b # t => stack'[b] = stack[b]
    BY <1>1, <2>1, ReplaceShape DEF TypeOK, Top
  <2>6. Len(stack[t]) = 1
    <3>1. ASSUME Len(stack[t]) > 1 PROVE FALSE
      <4>1. PICK k \in DOMAIN stack[t] : k = 2 /\ k > 1 /\ k - 1 = 1
        BY <2>5, <3>1
      <4>2. On(stack[t][k - 1].at, stack[t][k].at)
        BY <1>1, <4>1 DEF Stacked
      <4> QED BY <2>1, <2>5, <4>1, <4>2 DEF On, CallPoints, ReceivePoints
    <3>2. Len(stack[t]) \in Nat /\ Len(stack[t]) # 0
      <4>1. stack[t] \in Seq(Frame) /\ stack[t] # <<>>
        BY <2>1, <2>5
      <4> QED BY <4>1
    <3>3. \A n \in Nat : n # 0 /\ ~(n > 1) => n = 1
      OBVIOUS
    <3> QED BY <3>1, <3>2, <3>3, Zenon
  <2>7. AnsweredTo(t)'
    <3>1. \A i \in DOMAIN stack'[t] : stack'[t][i] = f
      BY <2>5, <2>6
    <3> QED BY <2>1, <3>1 DEF AnsweredTo
  <2>8. Seen(t)'
    BY <2>1, <2>5, SeenSelf
  <2> QED BY <1>1, <2>1, <2>2, <2>3, <2>4, <2>5, <2>7, <2>8, ActorStep DEF sends, queues
<1> QED BY <1>3, <1>4, <1>5, <1>6, <1>7, <1>8, <1>9, <1>10, <1>11, <1>12 DEF Pump

\* The clock makes the next delayed message due; OwnDelayed says whose it is.
LEMMA TriggerKeeps ==
  ASSUME WakeInv, TypeOK', Stacked', NEW t \in Thread, Trigger(t)
  PROVE  WakeInv'
<1> USE ThreadQueueAssumption DEF WakeInv
<1>1. /\ t \in Actor /\ dmsgq[t] # <<>> /\ stack' = stack
      /\ UNCHANGED <<msgq, sends, fStop, wake, fate>>
      /\ dmsgq[t] \in Seq(Msg) /\ due[t] \in Seq(Msg)
      /\ dmsgq'[t] = Tail(dmsgq[t]) /\ due'[t] = Append(due[t], Head(dmsgq[t]))
      /\ \A u \in Thread : u # t => dmsgq'[u] = dmsgq[u] /\ due'[u] = due[u]
  BY DEF Trigger, TypeOK, Actor
<1>2. /\ Head(dmsgq[t]) \in Msg /\ Head(dmsgq[t]) = dmsgq[t][1] /\ 1 \in DOMAIN dmsgq[t]
      /\ \A i \in DOMAIN Tail(dmsgq[t]) :
           i + 1 \in DOMAIN dmsgq[t] /\ Tail(dmsgq[t])[i] = dmsgq[t][i + 1]
  BY <1>1
<1>3. /\ \A at, b : At(b, at)' = At(b, at)
      /\ \A b : Top(b)' = Top(b)
      /\ \A b : Asleep(b)' = Asleep(b)
  BY <1>1 DEF At, Top, Asleep
<1>4. \A b \in Actor : Awake(b)' = Awake(b)
  BY <1>1, <1>3 DEF Awake, WakeUpComing, sends
<1>5. SentOnce' /\ SendsSeen'
  BY <1>1, <1>3 DEF SentOnce, SendsSeen, sends
<1>6. OwnDelayed'
  <2>1. \A i \in DOMAIN due'[t] : Dest[due'[t][i]] = t
    <3>1. \A i \in DOMAIN due'[t] :
            due'[t][i] = Head(dmsgq[t]) \/ \E j \in DOMAIN due[t] : due'[t][i] = due[t][j]
      BY <1>1, <1>2, Appended
    <3> QED BY <1>2, <3>1 DEF OwnDelayed
  <2>2. \A i \in DOMAIN dmsgq'[t] : Dest[dmsgq'[t][i]] = t
    BY <1>1, <1>2 DEF OwnDelayed
  <2>3. \A u \in Thread : /\ \A i \in DOMAIN due'[u] : Dest[due'[u][i]] = u
                          /\ \A i \in DOMAIN dmsgq'[u] : Dest[dmsgq'[u][i]] = u
    <3>1. ASSUME NEW u \in Thread, u # t
          PROVE  /\ \A i \in DOMAIN due'[u] : Dest[due'[u][i]] = u
                 /\ \A i \in DOMAIN dmsgq'[u] : Dest[dmsgq'[u][i]] = u
      BY <1>1, <3>1 DEF OwnDelayed
    <3> QED BY <2>1, <2>2, <3>1, Zenon
  <2> QED BY <1>1, <1>3, <2>3 DEF OwnDelayed
<1>7. AnsweredTo(t)'
  BY <1>1, <1>4, AnsweredOthers DEF Answered, sends
<1>8. Seen(t)'
  <2>1. PostSeen(t)' /\ StopSeen(t)' /\ SendSeen(t)'
    BY <1>1, <1>3, <1>4 DEF NoLostWakeUp, Seen, PostSeen, StopSeen, SendSeen, Awake, sends
  <2>2. Contains(due'[t], Head(dmsgq[t]))
    BY <1>1, <1>2 DEF Contains
  <2>3. \A e : Contains(due[t], e) => Contains(due'[t], e)
    BY <1>1, <1>2 DEF Contains
  <2>4. DelaySeen(t)'
    BY <1>1, <1>3, <2>2, <2>3 DEF NoLostWakeUp, Seen, DelaySeen
  <2> QED BY <2>1, <2>4 DEF Seen
<1> QED BY <1>1, <1>4, <1>5, <1>6, <1>7, <1>8, ActorStep DEF sends

\* Application code runs on an idle client or in a handler of a thread.
LEMMA InApplicationTop ==
  ASSUME TypeOK, Stacked, NEW a \in Actor, InApplication(a)
  PROVE  /\ stack[a] # <<>> /\ Top(a).at \in {"idle", "run"} /\ Top(a).at # "send"
         /\ a \in Client => Len(stack[a]) = 1 /\ stack[a][1].at = "idle"
<1>1. /\ stack[a] # <<>> /\ Top(a).at \in {"idle", "run"}
      /\ stack[a] \in Seq(Frame) /\ Top(a) = stack[a][1] /\ 1 \in DOMAIN stack[a]
      /\ Len(stack[a]) \in Nat /\ Len(stack[a]) # 0
  <2>1. stack[a] # <<>> /\ stack[a] \in Seq(Frame) /\ Top(a).at \in {"idle", "run"}
    BY DEF InApplication, At, TypeOK
  <2> QED BY <2>1 DEF Top
<1>2. ASSUME a \in Client PROVE Len(stack[a]) = 1 /\ stack[a][1].at = "idle"
  <2>1. stack[a][1].at = "idle"
    BY <1>1, <1>2 DEF Stacked, CallPoints
  <2>2. ASSUME Len(stack[a]) > 1 PROVE FALSE
    <3>1. PICK k \in DOMAIN stack[a] : k = 2 /\ k > 1 /\ k - 1 = 1
      BY <1>1, <2>2
    <3>2. On(stack[a][k - 1].at, stack[a][k].at)
      BY <3>1 DEF Stacked
    <3> QED BY <2>1, <3>1, <3>2 DEF On, CallPoints, ReceivePoints
  <2>3. \A n \in Nat : n # 0 /\ ~(n > 1) => n = 1
    OBVIOUS
  <2>4. Len(stack[a]) = 1
    BY <1>1, <2>2, <2>3, Zenon
  <2> QED BY <2>1, <2>4
<1> QED BY <1>1, <1>2

\* What clients and handlers call keeps the invariant.
LEMMA ApplicationKeeps ==
  ASSUME WakeInv, TypeOK', Stacked', NEW a \in Actor, Application(a)
  PROVE  WakeInv'
<1> USE ThreadQueueAssumption DEF WakeInv
<1> DEFINE idle == Call("idle", Nobody)
<1>1. idle \in Frame /\ idle.at = "idle"
  BY CallTyped DEF PumpPoints
<1> HIDE DEF idle
<1>2. ASSUME InApplication(a)
      PROVE  /\ stack[a] # <<>> /\ Top(a).at \in {"idle", "run"}
             /\ a \in Client => Len(stack[a]) = 1 /\ stack[a][1].at = "idle"
  BY <1>2, InApplicationTop
<1>3. ASSUME NEW m \in Msg, InApplication(a), Refuse(m) PROVE WakeInv'
  <2>1. /\ stack' = stack /\ Move(a, idle, idle)
        /\ \A n \in Msg : fate'[n] = "new" => fate[n] = "new"
        /\ UNCHANGED <<queues, sends, fStop, wake>>
    BY <1>3 DEF Refuse, Move, TypeOK
  <2>2. stack[a] # <<>> /\ Top(a).at \in {"idle", "run"}
    BY <1>2, <1>3
  <2> QED BY <1>1, <2>1, <2>2, QuietStep DEF At, SendPoints, ReceivePoints
<1>4. ASSUME NEW m \in Msg, Post(a, m) PROVE WakeInv'
  <2>1. InApplication(a)
    BY <1>4 DEF Post, MayUse
  <2>2. CASE Refuse(m)
    BY <1>3, <2>1, <2>2
  <2>3. CASE ~Refuse(m)
    <3>1. PICK at \in {"post", "postDelayed"} : stack' = Invoke(a, Call(at, m))
      BY <1>4, <2>3 DEF Post
    <3>2. /\ fate' = [fate EXCEPT ![m] = "pending"]
          /\ UNCHANGED <<queues, sends, fStop, wake>>
      BY <1>4, <2>3 DEF Post
    <3> DEFINE f == Call(at, m)
    <3>3. f \in Frame /\ f.at = at /\ Move(a, f, idle)
      BY <3>1, CallTyped DEF MsgPoints, Move
    <3> HIDE DEF f
    <3>4. \A n \in Msg : fate'[n] = "new" => fate[n] = "new"
      BY <3>2 DEF TypeOK
    <3>5. stack[a] # <<>> /\ Top(a).at \in {"idle", "run"}
      BY <1>2, <2>1
    <3> QED BY <1>1, <3>2, <3>3, <3>4, <3>5, QuietStep DEF At, SendPoints, ReceivePoints
  <2> QED BY <2>2, <2>3
<1>5. ASSUME NEW m \in Msg, Send(a, m), ~Refuse(m), a = Dest[m] PROVE WakeInv'
  <2> DEFINE f == Call("run", m)
  <2>1. /\ InApplication(a) /\ f \in Frame /\ f.at = "run" /\ Move(a, f, idle)
        /\ fate' = [fate EXCEPT ![m] = "running"]
        /\ UNCHANGED <<queues, sends, fStop, wake>>
    BY <1>5, CallTyped DEF Send, MayUse, MsgPoints, Move
  <2> HIDE DEF f
  <2>2. \A n \in Msg : fate'[n] = "new" => fate[n] = "new"
    BY <2>1 DEF TypeOK
  <2>3. stack[a] # <<>> /\ Top(a).at \in {"idle", "run"}
    BY <1>2, <2>1
  <2> QED BY <1>1, <2>1, <2>2, <2>3, QuietStep DEF At, SendPoints, ReceivePoints
<1>6. ASSUME NEW m \in Msg, Send(a, m), ~Refuse(m), a # Dest[m] PROVE WakeInv'
  <2> DEFINE f == Call("send", m)
  <2>1. /\ InApplication(a) /\ fate[m] = "new" /\ f \in Frame /\ f.at = "send" /\ f.arg = m
        /\ stack' = Invoke(a, f) /\ Move(a, f, idle)
        /\ fate' = [fate EXCEPT ![m] = "pending"]
        /\ UNCHANGED <<queues, sends, fStop>>
        /\ wake' = IF a \in Client THEN [wake EXCEPT ![a] = FALSE] ELSE wake
    BY <1>6, CallTyped DEF Send, MayUse, MsgPoints, Move
  <2> HIDE DEF f
  <2>2. /\ stack[a] # <<>> /\ Top(a).at \in {"idle", "run"} /\ stack[a] \in Seq(Frame)
        /\ a \in Client => Len(stack[a]) = 1 /\ stack[a][1].at = "idle"
    BY <1>2, <2>1 DEF TypeOK
  <2>3. /\ \A n \in Msg : fate'[n] = "new" => fate[n] = "new"
        /\ \A n \in Msg : n # m => fate'[n] = fate[n]
        /\ fate'[m] = "pending"
        /\ sender[m] = Nobody
        /\ \A b \in Actor : b # a /\ wake[b] => wake'[b]
        /\ a \notin Client => wake' = wake
    BY <2>1 DEF TypeOK, SentOnce
  <2>4. \A b \in Actor : b # a /\ Awake(b) => Awake(b)'
    <3>1. \A b \in Actor : b \notin {a} /\ Awake(b) => Awake(b)'
      BY <1>1, <2>1, <2>2, <2>3, AwakeKept DEF sends, At
    <3> QED BY <3>1
  <2>5. a \notin Client => (Awake(a) => Awake(a)')
    <3>1. a \notin Client => \A b \in Actor : b \notin {} /\ Awake(b) => Awake(b)'
      BY <1>1, <2>1, <2>2, <2>3, AwakeKept DEF sends, At
    <3> QED BY <3>1
  <2>6. /\ Head(stack'[a]) = f /\ stack'[a] # <<>> /\ stack' # stack
        /\ \A b \in Actor : b # a => stack'[b] = stack[b]
        /\ stack'[a] \in Seq(Frame) /\ stack'[a][1] = f /\ Len(stack'[a]) = Len(stack[a]) + 1
        /\ \A i \in 1..Len(stack[a]) : stack'[a][i + 1] = stack[a][i]
    <3>1. /\ Head(stack'[a]) = f /\ stack'[a] # <<>>
          /\ \A b \in Actor : b # a => stack'[b] = stack[b]
          /\ stack'[a] \in Seq(Frame) /\ stack'[a][1] = f /\ Len(stack'[a]) = Len(stack[a]) + 1
          /\ \A i \in 1..Len(stack[a]) : stack'[a][i + 1] = stack[a][i]
      BY <2>1, <2>2, PushShape
    <3>2. Head(stack[a]) # f
      BY <2>1, <2>2 DEF Top
    <3> QED BY <3>1, <3>2
  <2>7. SentOnce'
    <3>1. ASSUME NEW b \in Actor, NEW i \in DOMAIN stack'[b]
          PROVE  /\ stack'[b][i].at \in SendPoints => sender[stack'[b][i].arg] = b
                 /\ stack'[b][i].at \in {"finish", "reply"} => sender[stack'[b][i].arg] # Nobody
      <4>1. \/ stack'[b][i] = f
            \/ \E j \in DOMAIN stack[b] : stack'[b][i] = stack[b][j]
        <5>1. CASE b # a
          BY <2>6, <5>1
        <5>2. CASE b = a
          <6>1. \/ stack'[a][i] = f
                \/ stack'[a][i] = idle
                \/ \E j \in DOMAIN stack[a] : stack'[a][i] = stack[a][j]
            BY <1>1, <2>1, <2>2, <5>2, ShapeOfMove
          <6>2. \A k \in DOMAIN stack'[a] : k = 1 \/ \E j \in 1..Len(stack[a]) : j + 1 = k
            <7>1. ASSUME NEW k \in DOMAIN stack'[a], k # 1
                  PROVE  \E j \in 1..Len(stack[a]) : j + 1 = k
              <8>1. k \in Nat /\ Len(stack[a]) \in Nat /\ 1 < k /\ k <= Len(stack[a]) + 1
                BY <2>2, <2>6, <7>1
              <8> QED BY <8>1, Predecessor
            <7> QED BY <7>1
          <6> QED BY <2>2, <2>6, <5>2, <6>2
        <5> QED BY <5>1, <5>2
      <4> QED BY <2>1, <4>1 DEF SentOnce, SendPoints
    <3>2. ASSUME NEW b \in Actor, b # a, At(b, "send")'
          PROVE  At(b, "send") /\ Top(b)' = Top(b) /\ Top(b).arg \in Msg /\ Top(b).arg # m
      <4>1. At(b, "send") /\ Top(b)' = Top(b)
        BY <2>6, <3>2 DEF At, Top
      <4>2. Top(b).arg \in Msg /\ fate[Top(b).arg] # "new"
        BY <4>1, TopTyped DEF SentOnce, MsgPoints
      <4> QED BY <2>1, <4>1, <4>2
    <3>3. Top(a)'.arg = m
      BY <2>1, <2>6 DEF Top
    <3>4. ASSUME NEW b \in Actor, At(b, "send")'
          PROVE  /\ sender[Top(b)'.arg] = Nobody
                 /\ fate'[Top(b)'.arg] # "new"
                 /\ \A c \in Actor : At(c, "send")' /\ Top(c)'.arg = Top(b)'.arg => c = b
      <4>1. CASE b = a
        BY <2>3, <3>2, <3>3, <4>1
      <4>2. CASE b # a
        BY <2>3, <3>2, <3>3, <3>4, <4>2 DEF SentOnce
      <4> QED BY <4>1, <4>2
    <3>5. \A t \in Thread : \A i \in DOMAIN sendlist[t] : sender[sendlist[t][i]] # Nobody
      BY DEF SentOnce
    <3>6. \A n \in Msg : fate'[n] = "new" => sender[n] = Nobody
      BY <2>3 DEF SentOnce
    <3>7. sender' = sender /\ sendlist' = sendlist
      BY <2>1 DEF sends
    <3> QED BY <3>1, <3>4, <3>5, <3>6, <3>7 DEF SentOnce
  <2>8. SendsSeen' /\ OwnDelayed'
    BY <1>1, <2>1, <2>2, OwnDelayedKept DEF sends, queues, SendsSeen, OwnDelayed
  <2>9. AnsweredTo(a)'
    <3>1. CASE a \in Client
      <4>1. Len(stack'[a]) = 2 /\ 1 \in 1..Len(stack[a]) /\ stack'[a][1 + 1] = stack[a][1]
        BY <2>2, <2>6, <3>1
      <4>2. \A i \in DOMAIN stack'[a] : i = 1 \/ i = 1 + 1
        BY <2>6, <4>1
      <4>3. \A i \in DOMAIN stack'[a] : stack'[a][i].at # "sendWait"
        BY <2>1, <2>2, <2>6, <3>1, <4>1, <4>2
      <4> QED BY <4>3 DEF AnsweredTo
    <3>2. CASE a \notin Client
      BY <1>1, <2>1, <2>2, <2>5, <2>6, <3>2, AnsweredSelf DEF sends, Answered
    <3> QED BY <3>1, <3>2
  <2>10. a \in Thread => Seen(a)'
    BY <2>1, <2>6, SeenSelf
  <2> QED BY <2>1, <2>3, <2>4, <2>6, <2>7, <2>8, <2>9, <2>10, ActorStep DEF sends, queues
<1>7. ASSUME NEW m \in Msg, Send(a, m) PROVE WakeInv'
  <2>1. InApplication(a)
    BY <1>7 DEF Send, MayUse
  <2> QED BY <1>3, <1>5, <1>6, <1>7, <2>1
<1>8. ASSUME NEW t \in Thread, Stop(a, t) PROVE WakeInv'
  <2> DEFINE f == Call("stop", t)
  <2>1. /\ InApplication(a) /\ f \in Frame /\ f.at = "stop" /\ f.arg = t
        /\ stack' = Invoke(a, f) /\ Move(a, f, idle)
        /\ \A u \in Thread : u # t => fStop'[u] = fStop[u]
        /\ UNCHANGED <<queues, sends, wake, fate>>
    BY <1>8, CallTyped DEF Stop, ThreadPoints, Move, TypeOK
  <2> HIDE DEF f
  <2>2. stack[a] # <<>> /\ Top(a).at \in {"idle", "run"}
    BY <1>2, <2>1
  <2>3. /\ Head(stack'[a]) = f /\ stack'[a] # <<>> /\ stack' # stack
        /\ \A b \in Actor : b # a => stack'[b] = stack[b]
    <3>1. /\ Head(stack'[a]) = f /\ stack'[a] # <<>>
          /\ \A b \in Actor : b # a => stack'[b] = stack[b]
      BY <2>1, <2>2, PushShape
    <3> QED BY <2>1, <2>2, <3>1 DEF Top
  <2>4. \A b \in Actor : Awake(b) => Awake(b)'
    <3>1. \A b \in Actor : b \notin {} /\ Awake(b) => Awake(b)'
      BY <1>1, <2>1, <2>2, AwakeKept DEF sends, At
    <3> QED BY <3>1
  <2>5. \A u \in Thread : u = t => Awake(u)'
    BY <2>1, <2>3 DEF Awake, WakeUpComing, At, Top
  <2>6. SentOnce'
    BY <1>1, <2>1, <2>2, SentOnceKept DEF sends, SendPoints
  <2>7. SendsSeen' /\ OwnDelayed'
    BY <1>1, <2>1, <2>2, OwnDelayedKept DEF sends, queues, SendsSeen, OwnDelayed
  <2>8. AnsweredTo(a)'
    BY <1>1, <2>1, <2>2, <2>3, <2>4, AnsweredSelf DEF sends, Answered
  <2>9. a \in Thread => Seen(a)'
    BY <2>1, <2>3, SeenSelf
  <2>10. \A u \in Thread : fStop'[u] = fStop[u] \/ Awake(u)'
    BY <2>1, <2>5
  <2> QED BY <2>1, <2>3, <2>4, <2>6, <2>7, <2>8, <2>9, <2>10, ActorStep DEF sends, queues
<1>9. ASSUME NEW t \in Thread, JoinStopped(a, t) PROVE WakeInv'
  <2> DEFINE f == Call("stop", t)
  <2>1. /\ At(a, "idle") /\ f \in Frame /\ f.at = "stop" /\ Move(a, f, idle)
        /\ UNCHANGED <<queues, sends, fStop, wake, fate>>
    BY <1>9, CallTyped DEF JoinStopped, ThreadPoints, Move
  <2> HIDE DEF f
  <2>2. stack[a] # <<>> /\ Top(a).at = "idle"
    BY <2>1 DEF At
  <2> QED BY <1>1, <2>1, <2>2, QuietStep DEF At, SendPoints, ReceivePoints
<1>10. ASSUME NEW h \in Handler, DestroyHandler(a, h) PROVE WakeInv'
  <2> DEFINE T == Thread \ deleted
             R == MessagesOf(h)
  <2>1. /\ stack[a] # <<>> /\ Top(a).at = "run" /\ stack' = stack /\ Move(a, idle, idle)
        /\ \A m \in R : Dest[m] = a
        /\ Clear(T, R) /\ fStop' = fStop
    BY <1>10 DEF DestroyHandler, At, Move
  <2>2. R \in SUBSET Msg
    BY DEF MessagesOf
  <2> HIDE DEF T, R
  <2>3. /\ \A b \in Actor : wake[b] => wake'[b]
        /\ sender' = sender
        /\ \A m \in Msg : fate'[m] = "new" => fate[m] = "new"
        /\ \A m \in ready' \ ready, b \in Actor : sender[m] = b => wake'[b]
        /\ SendsSeen'
    BY <2>1, <2>2, ClearKeeps
  <2>4. \A t \in Thread :
          /\ t \notin T \/ (\A m \in R : Dest[m] # t) => dmsgq'[t] = dmsgq[t] /\ due'[t] = due[t]
          /\ \A i \in DOMAIN sendlist'[t] :
               \E j \in DOMAIN sendlist[t] : sendlist'[t][i] = sendlist[t][j]
          /\ sendlist[t] = <<>> => sendlist'[t] = <<>>
          /\ msgq[t] = <<>> => msgq'[t] = <<>>
          /\ \A i \in DOMAIN dmsgq'[t] : Dest[dmsgq'[t][i]] = t
          /\ \A i \in DOMAIN due'[t] : Dest[due'[t][i]] = t
    BY <2>1, <2>2, ClearKeeps
  <2>5. \A t \in Thread : t # a => dmsgq'[t] = dmsgq[t] /\ due'[t] = due[t]
    BY <2>1, <2>4
  <2>6. \A b \in Actor : Awake(b) => Awake(b)'
    <3>1. \A b \in Actor : b \notin {} /\ Awake(b) => Awake(b)'
      BY <1>1, <2>1, <2>3, AwakeKept DEF At
    <3> QED BY <3>1
  <2>7. SentOnce'
    <3>1. \A t \in Thread : \A i \in DOMAIN sendlist'[t] :
            \E j \in DOMAIN sendlist[t] : sendlist'[t][i] = sendlist[t][j]
      BY <2>4
    <3> QED BY <1>1, <2>1, <2>3, <3>1, SentOnceKept DEF SendPoints
  <2>8. OwnDelayed'
    <3>1. /\ \A t \in Thread : \A i \in DOMAIN dmsgq'[t] : Dest[dmsgq'[t][i]] = t
          /\ \A t \in Thread : \A i \in DOMAIN due'[t] : Dest[due'[t][i]] = t
      BY <2>4
    <3> QED BY <1>1, <2>1, <3>1, OwnDelayedKept
  <2>9. \A m \in ready' \ ready, b \in Actor : sender[m] = b => Awake(b)'
    BY <2>3 DEF Awake
  <2>10. AnsweredTo(a)'
    BY <2>1, <2>6, <2>9, AnsweredOthers DEF Answered
  <2>11. a \in Thread => Seen(a)'
    BY <2>1, SeenSelf DEF Top
  <2>12. /\ \A t \in Thread : msgq'[t] # <<>> => msgq[t] # <<>>
         /\ \A t \in Thread : sendlist'[t] # <<>> => sendlist[t] # <<>>
    BY <2>4
  <2> QED BY <2>1, <2>3, <2>5, <2>6, <2>7, <2>8, <2>9, <2>10, <2>11, <2>12, ActorStep
<1> QED BY <1>4, <1>7, <1>8, <1>9, <1>10 DEF Application

\* The invariant is inductive.
LEMMA KeepsWakeInv ==
  ASSUME WakeInv, [Next]_vars
  PROVE  WakeInv'
<1>1. TypeOK'
  BY KeepsType DEF WakeInv
<1>2. Stacked'
  BY KeepsStacked DEF WakeInv
<1>3. CASE Next
  BY <1>1, <1>2, <1>3, StepKeeps, PumpKeeps, TriggerKeeps, ApplicationKeeps DEF Next
<1>4. CASE UNCHANGED vars
  <2>1. /\ \A at, b : At(b, at)' = At(b, at)
        /\ \A b : Top(b)' = Top(b)
        /\ \A b : Asleep(b)' = Asleep(b)
        /\ \A b : WakeUpComing(b)' = WakeUpComing(b)
    BY <1>4 DEF At, Top, Asleep, WakeUpComing, vars, sends
  <2>2. SentOnce' /\ SendsSeen' /\ OwnDelayed'
    BY <1>4, <2>1 DEF WakeInv, SentOnce, SendsSeen, OwnDelayed, vars, sends, queues
  <2>3. Answered'
    BY <1>4, <2>1 DEF WakeInv, Answered, AnsweredTo, vars, sends
  <2>4. NoLostWakeUp'
    BY <1>4, <2>1 DEF WakeInv, NoLostWakeUp, Seen, PostSeen, DelaySeen, StopSeen, SendSeen,
                      ReplySeen, vars, sends, queues
  <2> QED BY <1>1, <1>2, <2>2, <2>3, <2>4 DEF WakeInv
<1> QED BY <1>3, <1>4

\* It holds of threads that have just been started.
LEMMA InitWakeInv ==
  ASSUME Init
  PROVE  WakeInv
<1> USE ThreadQueueAssumption
<1>1. ASSUME NEW a \in Actor
      PROVE  /\ Len(stack[a]) = 1 /\ DOMAIN stack[a] = {1} /\ stack[a] # <<>>
             /\ stack[a][1].at \in {"get", "idle"} /\ Top(a).at \in {"get", "idle"}
             /\ a \in Client => stack[a][1].at = "idle"
  BY DEF Init, Call, Top, Actor
<1>2. TypeOK
  BY InitType
<1>3. Stacked
  BY <1>1 DEF Stacked
<1>4. SentOnce
  <2>1. /\ \A m \in Msg : sender[m] = Nobody
        /\ \A t \in Thread : sendlist[t] = <<>>
        /\ \A a \in Actor : ~At(a, "send")
    BY <1>1 DEF Init, At
  <2> QED BY <1>1, <2>1 DEF SentOnce, SendPoints
<1>7. SendsSeen /\ OwnDelayed
  <2>1. \A t \in Thread : sendlist[t] = <<>> /\ dmsgq[t] = <<>> /\ due[t] = <<>>
    BY DEF Init
  <2>2. \A a \in Actor : ~At(a, "clear")
    BY <1>1 DEF At
  <2> QED BY <2>1, <2>2 DEF SendsSeen, OwnDelayed
<1>5. Answered
  BY <1>1 DEF Answered, AnsweredTo
<1>6. NoLostWakeUp
  BY <1>1 DEF NoLostWakeUp, Seen, PostSeen, DelaySeen, StopSeen, SendSeen, ReplySeen, Asleep, At, Actor
<1> QED BY <1>2, <1>3, <1>4, <1>5, <1>6, <1>7 DEF WakeInv

\* No wake-up is lost, for any number of threads, clients and messages, though
\* fStop_, has_sends_ and ready are read outside the lock.
THEOREM NoWakeUpIsLost == Spec => []NoLostWakeUp
<1>1. WakeInv => NoLostWakeUp
  BY DEF WakeInv
<1>2. Init => WakeInv
  BY InitWakeInv
<1>3. WakeInv /\ [Next]_vars => WakeInv'
  BY KeepsWakeInv
<1> QED BY <1>1, <1>2, <1>3, PTL DEF Spec

-----------------------------------------------------------------------------
(* The life of a message, from its push to the end of its handler.           *)

\* A queue in which no message is twice.
Distinct(s) == \A i, j \in DOMAIN s : s[i] = s[j] => i = j

\* The messages a thread holds that were posted.
Queued(t) == Range(msgq[t]) \cup Range(due[t]) \cup Range(dmsgq[t])

\* Where Post and Send are between their tests and their push.
InsidePoints == {"post", "postDelayed", "send"}

\* A message that was posted, and is not sent.
Unsent(m) == /\ sender[m] = Nobody /\ fate[m] # "new"
             /\ \A b \in Actor : ~(At(b, "send") /\ Top(b).arg = m)

\* A send that is not done has not been answered, and its sender waits.
SendsWait ==
  \A m \in Msg : sender[m] # Nobody /\ fate[m] \in {"pending", "running"}
                   => m \notin ready /\ Sending(sender[m], m)

\* A send is marked finished when its own handler has returned.
FinishFollowsRun ==
  \A a \in Actor : \A i \in DOMAIN stack[a] : stack[a][i].at = "finish" =>
    /\ fate[stack[a][i].arg] \notin {"new", "pending"}
    /\ i = 1 => fate[stack[a][i].arg] # "running"
    /\ i > 1 => stack[a][i - 1].arg = stack[a][i].arg

\* A handler runs once its message is taken.
RunsStarted ==
  \A a \in Actor : \A i \in DOMAIN stack[a] :
    stack[a][i].at = "run" => fate[stack[a][i].arg] \notin {"new", "pending"}

\* A send that is queued waits in one place of its receiver's list.
SendsQueued ==
  \A t \in Thread :
    /\ \A m \in Range(sendlist[t]) : fate[m] = "pending"
    /\ Distinct(sendlist[t])

\* and is pending already when Send has tested fStop_.
SendsBegun == \A a \in Actor : At(a, "send") => fate[Top(a).arg] = "pending"

\* A message is either posted or sent.
PostsUnsent ==
  /\ \A t \in Thread : \A m \in Queued(t) : Unsent(m)
  /\ \A a \in Actor : At(a, "post") \/ At(a, "postDelayed") => Unsent(Top(a).arg)

\* A thread holds its own messages, each of a handler that exists.
HandlersExist ==
  /\ \A t \in Thread : \A m \in Queued(t) \cup Range(sendlist[t]) :
       Dest[m] = t /\ (m \in Disposal \/ Of[m] \notin destroyed)
  /\ \A a \in Actor, at \in InsidePoints : At(a, at) =>
       Top(a).arg \in Disposal \/ Of[Top(a).arg] \notin destroyed

LifeInv ==
  /\ SendsWait /\ FinishFollowsRun /\ RunsStarted /\ SendsQueued /\ SendsBegun /\ PostsUnsent /\ HandlersExist
  /\ \A m \in ready : sender[m] # Nobody
  /\ \A t \in deleted : stack[t] = <<>>

-----------------------------------------------------------------------------
(* Queues as sets of messages.                                               *)

\* The messages of a queue.
LEMMA RangeTyped ==
  ASSUME NEW s \in Seq(Msg)
  PROVE  Range(s) \subseteq Msg /\ (s = <<>> => Range(s) = {})
BY DEF Range

\* A push at the end.
LEMMA RangeAppend ==
  ASSUME NEW s \in Seq(Msg), NEW m \in Msg
  PROVE  /\ Append(s, m) \in Seq(Msg)
         /\ Range(Append(s, m)) = Range(s) \cup {m}
         /\ Distinct(s) /\ m \notin Range(s) => Distinct(Append(s, m))
<1>1. /\ Append(s, m) \in Seq(Msg) /\ Len(s) \in Nat
      /\ DOMAIN s = 1..Len(s) /\ DOMAIN Append(s, m) = 1..Len(s) + 1
      /\ \A i \in 1..Len(s) : Append(s, m)[i] = s[i]
      /\ Append(s, m)[Len(s) + 1] = m
  OBVIOUS
<1>2. Range(Append(s, m)) = Range(s) \cup {m}
  <2>1. Range(Append(s, m)) \subseteq Range(s) \cup {m}
    BY <1>1 DEF Range
  <2>2. Range(s) \subseteq Range(Append(s, m))
    BY <1>1 DEF Range
  <2>3. m \in Range(Append(s, m))
    <3>1. Len(s) + 1 \in DOMAIN Append(s, m)
      BY <1>1
    <3> QED BY <1>1, <3>1 DEF Range
  <2> QED BY <2>1, <2>2, <2>3
<1>3. ASSUME Distinct(s), m \notin Range(s),
             NEW i \in 1..Len(s) + 1, NEW j \in 1..Len(s) + 1, Append(s, m)[i] = Append(s, m)[j]
      PROVE  i = j
  <2>1. \A k \in 1..Len(s) : s[k] \in Range(s)
    BY <1>1 DEF Range
  <2> QED BY <1>1, <1>3, <2>1 DEF Distinct
<1> QED BY <1>1, <1>2, <1>3 DEF Distinct

\* The first message is taken.
LEMMA RangeTail ==
  ASSUME NEW s \in Seq(Msg), s # <<>>
  PROVE  /\ Head(s) \in Range(s) /\ Tail(s) \in Seq(Msg)
         /\ Range(Tail(s)) \subseteq Range(s)
         /\ Distinct(s) => Distinct(Tail(s)) /\ Head(s) \notin Range(Tail(s))
<1>1. /\ Len(s) \in Nat \ {0} /\ DOMAIN s = 1..Len(s) /\ Tail(s) \in Seq(Msg)
      /\ DOMAIN Tail(s) = 1..Len(s) - 1 /\ \A i \in 1..Len(s) - 1 : Tail(s)[i] = s[i + 1]
      /\ Head(s) = s[1] /\ 1 \in DOMAIN s
  OBVIOUS
<1>2. \A i \in DOMAIN Tail(s) : i + 1 \in DOMAIN s /\ Tail(s)[i] = s[i + 1] /\ i + 1 # 1
  BY <1>1
<1>3. Head(s) \in Range(s) /\ Range(Tail(s)) \subseteq Range(s)
  BY <1>1, <1>2 DEF Range
<1>4. Distinct(s) => Head(s) \notin Range(Tail(s))
  BY <1>1, <1>2 DEF Range, Distinct
<1>5. ASSUME Distinct(s), NEW i \in DOMAIN Tail(s), NEW j \in DOMAIN Tail(s),
             Tail(s)[i] = Tail(s)[j]
      PROVE  i = j
  <2>1. i + 1 = j + 1
    BY <1>2, <1>5 DEF Distinct
  <2> QED BY <1>1, <2>1
<1> QED BY <1>1, <1>3, <1>4, <1>5 DEF Distinct

\* Two queues, one after the other.
LEMMA RangeJoined ==
  ASSUME NEW s \in Seq(Msg), NEW r \in Seq(Msg)
  PROVE  Range(s \o r) \subseteq Range(s) \cup Range(r)
<1> SUFFICES ASSUME NEW k \in DOMAIN (s \o r)
             PROVE  (s \o r)[k] \in Range(s) \cup Range(r)
  BY DEF Range
<1> QED BY ConcatElements DEF Range

\* A delayed message is put somewhere in its queue.
LEMMA RangeInserted ==
  ASSUME NEW s \in Seq(Msg), NEW i \in 1..Len(s) + 1, NEW m \in Msg
  PROVE  Range(InsertAt(s, i, m)) \subseteq Range(s) \cup {m}
BY Inserted DEF Range

\* What is left of a queue after a Clear holds none of the messages cleared.
LEMMA WithoutRange ==
  ASSUME NEW s \in Seq(Msg), NEW R, NEW r \in Without(s, R)
  PROVE  /\ Range(r) \subseteq Range(s) \ R
         /\ Distinct(s) => Distinct(r)
<1> DEFINE kept == {i \in DOMAIN s : s[i] \notin R}
           n    == Cardinality(kept)
<1>1. CASE kept = DOMAIN s
  BY <1>1 DEF Without, Range
<1>2. CASE kept # DOMAIN s
  <2>1. n \in Nat
    <3>1. IsFiniteSet(1..Len(s)) BY FS_Interval
    <3>2. kept \subseteq 1..Len(s) OBVIOUS
    <3> QED BY <3>1, <3>2, FS_Subset, FS_CardinalityType
  <2>2. PICK f \in {g \in [1..n -> kept] : \A j, k \in 1..n : j < k => g[j] < g[k]} :
          r = [k \in 1..n |-> s[f[k]]]
    BY <1>2 DEF Without
  <2>3. \A k \in 1..n : f[k] \in DOMAIN s /\ s[f[k]] \notin R /\ r[k] = s[f[k]] /\ f[k] \in Nat
    BY <2>2
  <2>4. DOMAIN r = 1..n
    BY <2>2
  <2>5. Range(r) \subseteq Range(s) \ R
    BY <2>3, <2>4 DEF Range
  <2>6. ASSUME Distinct(s), NEW i \in 1..n, NEW j \in 1..n, r[i] = r[j]
        PROVE  i = j
    <3>1. f[i] = f[j]
      BY <2>3, <2>6 DEF Distinct
    <3>2. ~(i < j) /\ ~(j < i)
      BY <2>2, <2>3, <3>1
    <3> QED BY <2>1, <3>2
  <2> QED BY <2>4, <2>5, <2>6 DEF Distinct
<1> QED BY <1>1, <1>2

\* The same of the queue of each thread.
LEMMA PurgeRange ==
  ASSUME NEW queue \in [Thread -> Seq(Msg)], NEW T, NEW R, NEW q \in Purge(queue, T, R),
         NEW t \in Thread
  PROVE  /\ Range(q[t]) \subseteq Range(queue[t])
         /\ t \in T => Range(q[t]) \cap R = {}
         /\ Distinct(queue[t]) => Distinct(q[t])
<1>1. q[t] \in IF t \in T THEN Without(queue[t], R) ELSE {queue[t]}
  BY DEF Purge
<1> QED BY <1>1, WithoutRange

-----------------------------------------------------------------------------
(* What becomes of the frames of Send, Post and ReceiveSends.                *)

\* The frame of a Send under way.
LEMMA SendingFrame ==
  ASSUME stack \in [Actor -> Seq(Frame)], NEW b \in Actor, NEW m
  PROVE  Sending(b, m) <=> \E i \in DOMAIN stack[b] :
                             stack[b][i].at \in SendPoints /\ stack[b][i].arg = m
<1>1. ASSUME NEW i \in DOMAIN stack[b]
      PROVE  stack[b][i] = Call(stack[b][i].at, stack[b][i].arg)
  <2>1. stack[b][i] \in Frame
    OBVIOUS
  <2> QED BY <2>1 DEF Frame, Call
<1>2. \A at, i : stack[b][i] = Call(at, m) => stack[b][i].at = at /\ stack[b][i].arg = m
  BY DEF Call
<1>3. ASSUME Sending(b, m)
      PROVE  \E i \in DOMAIN stack[b] : stack[b][i].at \in SendPoints /\ stack[b][i].arg = m
  <2>1. PICK at \in SendPoints, i \in DOMAIN stack[b] : stack[b][i] = Call(at, m)
    BY <1>3 DEF Sending, OnStack
  <2> QED BY <1>2, <2>1
<1>4. ASSUME NEW i \in DOMAIN stack[b], stack[b][i].at \in SendPoints, stack[b][i].arg = m
      PROVE  Sending(b, m)
  BY <1>1, <1>4 DEF Sending, OnStack
<1> QED BY <1>3, <1>4

\* A Send under way stays so unless it returns.
LEMMA SendingKept ==
  ASSUME TypeOK, TypeOK', NEW a \in Actor, stack[a] # <<>>, NEW f \in Frame, NEW g \in Frame,
         Move(a, f, g),
         stack' = Replace(a, f) /\ Top(a).at \in SendPoints
           => f.at \in SendPoints /\ f.arg = Top(a).arg,
         stack' = Split(a, f, g) /\ Top(a).at \in SendPoints
           => g.at \in SendPoints /\ g.arg = Top(a).arg,
         NEW b \in Actor, NEW m, Sending(b, m),
         stack' = Return(a) /\ b = a /\ Top(a).at \in SendPoints => Top(a).arg # m
  PROVE  Sending(b, m)'
<1>1. PICK i \in DOMAIN stack[b] : stack[b][i].at \in SendPoints /\ stack[b][i].arg = m
  BY SendingFrame DEF TypeOK
<1>2. SUFFICES \E k \in DOMAIN stack'[b] :
                 stack'[b][k].at \in SendPoints /\ stack'[b][k].arg = m
  <2>1. stack' \in [Actor -> Seq(Frame)]
    BY DEF TypeOK
  <2>2. ASSUME NEW k \in DOMAIN stack'[b], stack'[b][k].at \in SendPoints, stack'[b][k].arg = m
        PROVE  Sending(b, m)'
    <3>1. stack'[b][k] \in Frame
      BY <2>1
    <3>2. stack'[b][k] = Call(stack'[b][k].at, m)
      BY <2>2, <3>1 DEF Frame, Call
    <3> QED BY <2>2, <3>2 DEF Sending, OnStack
  <2> QED BY <1>2, <2>2
<1>3. CASE b # a \/ stack' = stack
  <2>1. stack'[b] = stack[b]
    BY <1>3, PushShape, ReplaceShape, SplitShape, PopShape DEF Move
  <2> QED BY <1>1, <2>1
<1>4. CASE b = a /\ stack' # stack
  <2>1. /\ stack[a] \in Seq(Frame) /\ Top(a) = stack[a][1] /\ i \in 1..Len(stack[a])
        /\ Len(stack[a]) \in Nat
    BY <1>1, <1>4 DEF TypeOK, Top
  <2>2. CASE stack' = Return(a)
    <3>1. /\ i > 1 /\ i - 1 \in 1..Len(stack[a]) - 1
      BY <1>1, <1>4, <2>1, <2>2
    <3>2. /\ stack'[a] \in Seq(Frame) /\ Len(stack'[a]) = Len(stack[a]) - 1
          /\ \A k \in 1..Len(stack[a]) - 1 : stack'[a][k] = stack[a][k + 1]
      BY <2>2, PopShape
    <3>3. i - 1 \in DOMAIN stack'[a] /\ stack'[a][i - 1] = stack[a][i]
      BY <2>1, <3>1, <3>2
    <3> QED BY <1>1, <1>4, <3>3
  <2>3. CASE stack' = Invoke(a, f)
    <3>1. /\ stack'[a] \in Seq(Frame) /\ Len(stack'[a]) = Len(stack[a]) + 1
          /\ \A k \in 1..Len(stack[a]) : stack'[a][k + 1] = stack[a][k]
      BY <2>3, PushShape
    <3>2. i + 1 \in DOMAIN stack'[a] /\ stack'[a][i + 1] = stack[a][i]
      BY <2>1, <3>1
    <3> QED BY <1>1, <1>4, <3>2
  <2>4. CASE stack' = Replace(a, f)
    <3>1. /\ stack'[a] \in Seq(Frame) /\ Len(stack'[a]) = Len(stack[a])
          /\ stack'[a][1] = f
          /\ \A k \in 2..Len(stack[a]) : stack'[a][k] = stack[a][k]
      BY <2>4, ReplaceShape
    <3>2. i \in DOMAIN stack'[a]
      BY <2>1, <3>1
    <3>3. CASE i = 1
      BY <1>1, <1>4, <2>1, <2>4, <3>1, <3>2, <3>3
    <3>4. CASE i > 1
      BY <1>1, <1>4, <2>1, <3>1, <3>2, <3>4
    <3> QED BY <2>1, <3>3, <3>4
  <2>5. CASE stack' = Split(a, f, g)
    <3>1. /\ stack'[a] \in Seq(Frame) /\ Len(stack'[a]) = Len(stack[a]) + 1
          /\ stack'[a][1] = f /\ stack'[a][2] = g
          /\ \A k \in 2..Len(stack[a]) : stack'[a][k + 1] = stack[a][k]
      BY <2>5, SplitShape
    <3>2. i + 1 \in DOMAIN stack'[a]
      BY <2>1, <3>1
    <3>3. CASE i = 1
      <4>1. stack'[a][i + 1] = g
        BY <3>1, <3>3
      <4> QED BY <1>1, <1>4, <2>1, <2>5, <3>2, <3>3, <4>1
    <3>4. CASE i > 1
      <4>1. stack'[a][i + 1] = stack[a][i]
        BY <2>1, <3>1, <3>4
      <4> QED BY <1>1, <1>4, <3>2, <4>1
    <3> QED BY <2>1, <3>3, <3>4
  <2> QED BY <1>4, <2>2, <2>3, <2>4, <2>5 DEF Move
<1> QED BY <1>3, <1>4

\* Post and Send are on top while they are between their tests and their push:
\* a step of another kind leaves them there.
LEMMA InsideKept ==
  ASSUME TypeOK, TypeOK', Stacked, NEW a \in Actor, stack[a] # <<>>, NEW f \in Frame, NEW g \in Frame,
         Move(a, f, g), f.at \notin InsidePoints,
         NEW b \in Actor, NEW at \in InsidePoints, At(b, at)'
  PROVE  At(b, at) /\ Top(b)' = Top(b) /\ (b = a => stack' = stack)
<1>1. CASE b # a
  <2>1. stack'[b] = stack[b]
    BY <1>1, ShapeOfMove
  <2> QED BY <1>1, <2>1 DEF At, Top
<1>2. CASE b = a
  <2>1. stack'[a] # <<>> /\ Head(stack'[a]).at \in InsidePoints
    BY <1>2 DEF At, Top
  <2>2. ~On(Top(a).at, Head(stack'[a]).at)
    BY <2>1 DEF On, InsidePoints
  <2>3. stack'[a] = stack[a]
    BY <2>1, <2>2, ShapeOfMove
  <2>4. stack' = stack
    <3>1. \A c \in Actor : stack'[c] = stack[c]
      BY <2>3, ShapeOfMove
    <3> QED BY <3>1 DEF TypeOK
  <2> QED BY <1>2, <2>4 DEF At, Top
<1> QED BY <1>1, <1>2

\* A send stays marked by the return of its own handler.
LEMMA FinishKept ==
  ASSUME TypeOK, TypeOK', Stacked, SentOnce, FinishFollowsRun,
         NEW a \in Actor, stack[a] # <<>>, NEW f \in Frame, NEW g \in Frame, Move(a, f, g),
         f.at # "finish",
         stack' = Split(a, f, g) /\ g.at = "finish"
           => f.arg = g.arg /\ fate'[g.arg] \notin {"new", "pending"},
         stack' = Replace(a, f) \/ stack' = Split(a, f, g) => Top(a).at # "run",
         stack' = Invoke(a, f) => Top(a).at # "finish",
         stack' = Return(a) /\ Top(a).at = "run" => fate'[Top(a).arg] # "running",
         \A m \in Msg : sender[m] # Nobody /\ fate[m] \notin {"new", "pending"}
           => /\ fate'[m] \notin {"new", "pending"}
              /\ fate'[m] = "running" => fate[m] = "running"
  PROVE  FinishFollowsRun'
<1> DEFINE n == Len(stack[a])
           Fine(s, i) == /\ fate'[s[i].arg] \notin {"new", "pending"}
                         /\ i = 1 => fate'[s[i].arg] # "running"
                         /\ i > 1 => s[i - 1].arg = s[i].arg
<1>1. /\ stack[a] \in Seq(Frame) /\ Top(a) = stack[a][1] /\ n \in Nat \ {0}
      /\ DOMAIN stack[a] = 1..n
  BY DEF TypeOK, Top
<1>2. ASSUME NEW b \in Actor, NEW i \in DOMAIN stack[b], stack[b][i].at = "finish"
      PROVE  /\ stack[b][i].arg \in Msg
             /\ fate'[stack[b][i].arg] \notin {"new", "pending"}
             /\ i = 1 => fate'[stack[b][i].arg] # "running"
             /\ i > 1 => stack[b][i - 1].arg = stack[b][i].arg /\ stack[b][i - 1].at = "run"
  <2>1. sender[stack[b][i].arg] # Nobody
    BY <1>2 DEF SentOnce
  <2>2. stack[b][i].arg \in Msg
    <3>1. stack[b][i] \in Frame
      BY DEF TypeOK
    <3> QED BY <1>2, <3>1 DEF Frame, ThreadPoints, PumpPoints
  <2>3. i > 1 => On(stack[b][i - 1].at, "finish")
    BY <1>2 DEF Stacked
  <2>4. i > 1 => stack[b][i - 1].at = "run"
    BY <2>3 DEF On, CallPoints, ReceivePoints
  <2> QED BY <1>2, <2>1, <2>2, <2>4 DEF FinishFollowsRun
<1>3. SUFFICES ASSUME NEW b \in Actor, NEW i \in DOMAIN stack'[b], stack'[b][i].at = "finish"
               PROVE  Fine(stack'[b], i)
  BY DEF FinishFollowsRun
<1>4. CASE b # a \/ stack' = stack
  <2>1. stack'[b] = stack[b]
    BY <1>4, ShapeOfMove
  <2> QED BY <1>2, <1>3, <2>1
<1>5. CASE b = a /\ stack' = Return(a)
  <2>1. /\ stack'[a] \in Seq(Frame) /\ Len(stack'[a]) = n - 1
        /\ \A k \in 1..n - 1 : stack'[a][k] = stack[a][k + 1]
    BY <1>5, PopShape
  <2>2. PICK k \in DOMAIN stack[a] : k = i + 1 /\ stack'[a][i] = stack[a][k] /\ k > 1 /\ k - 1 = i
    BY <1>1, <1>3, <1>5, <2>1
  <2>3. /\ fate'[stack[a][k].arg] \notin {"new", "pending"}
        /\ stack[a][i].arg = stack[a][k].arg /\ stack[a][i].at = "run"
    BY <1>2, <1>3, <1>5, <2>2
  <2>4. i = 1 => fate'[stack[a][k].arg] # "running"
    BY <1>1, <1>5, <2>3
  <2>5. i > 1 => i - 1 \in 1..n - 1 /\ (i - 1) + 1 = i
    BY <1>1, <2>2
  <2>6. i > 1 => stack'[a][i - 1] = stack[a][(i - 1) + 1]
    BY <2>1, <2>5
  <2> QED BY <1>5, <2>2, <2>3, <2>4, <2>5, <2>6
<1>6. CASE b = a /\ stack' = Invoke(a, f)
  <2>1. /\ stack'[a] \in Seq(Frame) /\ Len(stack'[a]) = n + 1 /\ stack'[a][1] = f
        /\ \A k \in 1..n : stack'[a][k + 1] = stack[a][k]
    BY <1>6, PushShape
  <2>2. i # 1
    BY <1>3, <1>6, <2>1
  <2>3. PICK k \in DOMAIN stack[a] : i = k + 1 /\ stack'[a][i] = stack[a][k]
    <3>1. i - 1 \in 1..n /\ (i - 1) + 1 = i
      BY <1>1, <1>6, <2>1, <2>2
    <3>2. stack'[a][(i - 1) + 1] = stack[a][i - 1]
      BY <2>1, <3>1
    <3> QED BY <1>1, <3>1, <3>2
  <2>4. k # 1
    BY <1>1, <1>3, <1>6, <2>3
  <2>5. k > 1 /\ k - 1 \in 1..n /\ i - 1 = (k - 1) + 1
    BY <1>1, <2>3, <2>4
  <2>6. stack'[a][i - 1] = stack[a][k - 1]
    BY <2>1, <2>5
  <2> QED BY <1>2, <1>3, <1>6, <2>2, <2>3, <2>5, <2>6
<1>7. CASE b = a /\ stack' = Replace(a, f)
  <2>1. /\ stack'[a] \in Seq(Frame) /\ Len(stack'[a]) = n /\ stack'[a][1] = f
        /\ \A k \in 2..n : stack'[a][k] = stack[a][k]
    BY <1>7, ReplaceShape
  <2>2. i # 1 /\ i \in DOMAIN stack[a]
    BY <1>1, <1>3, <1>7, <2>1
  <2>3. stack'[a][i] = stack[a][i] /\ i > 1
    BY <1>1, <2>1, <2>2
  <2>4. i # 2
    <3>1. i = 2 => i - 1 = 1 /\ stack[a][i - 1].at = "run"
      BY <1>2, <1>3, <1>7, <2>2, <2>3
    <3> QED BY <1>1, <1>7, <3>1
  <2>5. stack'[a][i - 1] = stack[a][i - 1]
    BY <1>1, <2>1, <2>2, <2>3, <2>4
  <2> QED BY <1>2, <1>3, <1>7, <2>2, <2>3, <2>5
<1>8. CASE b = a /\ stack' = Split(a, f, g)
  <2>1. /\ stack'[a] \in Seq(Frame) /\ Len(stack'[a]) = n + 1
        /\ stack'[a][1] = f /\ stack'[a][2] = g
        /\ \A k \in 2..n : stack'[a][k + 1] = stack[a][k]
    BY <1>8, SplitShape
  <2>2. i # 1 /\ i \in 1..n + 1
    BY <1>1, <1>3, <1>8, <2>1
  <2>3. CASE i = 2
    <3>1. i - 1 = 1
      BY <2>3
    <3> QED BY <1>3, <1>8, <2>1, <2>3, <3>1
  <2>4. CASE i > 2
    <3>1. PICK k \in DOMAIN stack[a] : i = k + 1 /\ stack'[a][i] = stack[a][k] /\ k > 1
      <4>1. i - 1 \in 2..n /\ i = (i - 1) + 1
        BY <1>1, <2>2, <2>4
      <4> QED BY <1>1, <2>1, <4>1
    <3>2. k # 2
      <4>1. k - 1 = 1 => stack[a][k - 1].at # "run"
        BY <1>1, <1>8
      <4> QED BY <1>2, <1>3, <1>8, <3>1, <4>1
    <3>3. k - 1 \in 2..n /\ i - 1 = (k - 1) + 1
      BY <1>1, <3>1, <3>2
    <3>4. stack'[a][i - 1] = stack[a][k - 1]
      BY <2>1, <3>3
    <3> QED BY <1>2, <1>3, <1>8, <2>2, <3>1, <3>4
  <2> QED BY <1>1, <2>2, <2>3, <2>4
<1> QED BY <1>4, <1>5, <1>6, <1>7, <1>8 DEF Move

\* A handler's message stays taken.
LEMMA RunsKept ==
  ASSUME TypeOK, Stacked, RunsStarted,
         NEW a \in Actor, stack[a] # <<>>, NEW f \in Frame, NEW g \in Frame, Move(a, f, g),
         f.at = "run" => fate'[f.arg] \notin {"new", "pending"}, g.at # "run",
         \A m \in Msg : fate[m] \notin {"new", "pending"} => fate'[m] \notin {"new", "pending"}
  PROVE  RunsStarted'
<1> SUFFICES ASSUME NEW b \in Actor, NEW i \in DOMAIN stack'[b], stack'[b][i].at = "run"
             PROVE  fate'[stack'[b][i].arg] \notin {"new", "pending"}
  BY DEF RunsStarted
<1>1. CASE \E j \in DOMAIN stack[b] : stack'[b][i] = stack[b][j]
  <2>1. PICK j \in DOMAIN stack[b] : stack'[b][i] = stack[b][j]
    BY <1>1
  <2>2. stack[b][j] \in Frame
    BY DEF TypeOK
  <2>3. stack[b][j].arg \in Msg
    BY <2>1, <2>2 DEF Frame, ThreadPoints, PumpPoints
  <2> QED BY <2>1, <2>3 DEF RunsStarted
<1>2. CASE b = a /\ stack'[b][i] \in {f, g}
  BY <1>2
<1> QED BY <1>1, <1>2, ShapeOfMove

\* A step that neither begins a Post or a Send nor queues a send keeps the
\* invariant, if what it settles is queued no more and what it answers is
\* settled.
LEMMA LifeKept ==
  ASSUME WakeInv, LifeInv, TypeOK',
         NEW a \in Actor, stack[a] # <<>>, NEW f \in Frame, NEW g \in Frame, Move(a, f, g),
         f.at \notin InsidePoints \cup {"finish"}, g.at # "run",
         f.at = "run" => fate'[f.arg] \notin {"new", "pending"},
         stack' = Replace(a, f) /\ Top(a).at \in SendPoints
           => f.at \in SendPoints /\ f.arg = Top(a).arg,
         stack' = Split(a, f, g) /\ Top(a).at \in SendPoints
           => g.at \in SendPoints /\ g.arg = Top(a).arg,
         stack' = Split(a, f, g) /\ g.at = "finish"
           => f.arg = g.arg /\ fate'[g.arg] \notin {"new", "pending"},
         stack' = Replace(a, f) \/ stack' = Split(a, f, g) => Top(a).at # "run",
         stack' = Invoke(a, f) => Top(a).at # "finish",
         stack' = Return(a) /\ Top(a).at = "run" => fate'[Top(a).arg] # "running",
         stack' = Return(a) /\ Top(a).at \in SendPoints => Top(a).arg \in ready,
         sender' = sender,
         \A m \in Msg : fate'[m] # fate[m] =>
           /\ fate'[m] \notin {"new", "pending"}
           /\ \A t \in Thread : m \notin Range(sendlist'[t])
           /\ \A b \in Actor : ~(At(b, "send") /\ Top(b).arg = m)
           /\ fate'[m] = "running" => sender[m] = Nobody \/ fate[m] = "pending",
         \A m \in ready' \ ready : sender[m] # Nobody /\ fate'[m] \notin {"pending", "running"},
         \A t \in Thread :
           /\ \A m \in Queued(t)' : \/ m \in Queued(t)
                                    \/ /\ At(a, "post") \/ At(a, "postDelayed")
                                       /\ m = Top(a).arg /\ Dest[m] = t
           /\ Range(sendlist'[t]) \subseteq Range(sendlist[t])
           /\ Distinct(sendlist[t]) => Distinct(sendlist'[t])
           /\ \A m \in Queued(t)' \cup Range(sendlist'[t]) :
                m \in Disposal \/ Of[m] \notin destroyed' \ destroyed,
         \A b \in Actor, at \in InsidePoints : At(b, at) =>
           Top(b).arg \in Disposal \/ Of[Top(b).arg] \notin destroyed' \ destroyed,
         \A t \in deleted' : stack[t] = <<>>
  PROVE  LifeInv'
<1> USE DEF LifeInv
<1>1. TypeOK /\ Stacked /\ SentOnce
  BY DEF WakeInv
<1>2. ASSUME NEW t \in Thread
      PROVE  /\ sendlist[t] \in Seq(Msg) /\ Range(sendlist[t]) \subseteq Msg
             /\ sendlist'[t] \in Seq(Msg) /\ Range(sendlist'[t]) \subseteq Msg
             /\ Queued(t) \subseteq Msg /\ t \in Actor
  <2>1. /\ msgq[t] \in Seq(Msg) /\ dmsgq[t] \in Seq(Msg) /\ due[t] \in Seq(Msg)
        /\ sendlist[t] \in Seq(Msg) /\ sendlist'[t] \in Seq(Msg)
    BY <1>1 DEF TypeOK
  <2>2. /\ Range(msgq[t]) \subseteq Msg /\ Range(dmsgq[t]) \subseteq Msg /\ Range(due[t]) \subseteq Msg
        /\ Range(sendlist[t]) \subseteq Msg /\ Range(sendlist'[t]) \subseteq Msg
    BY <2>1, RangeTyped
  <2> QED BY <2>1, <2>2 DEF Queued, Actor
<1>3. ASSUME NEW b \in Actor, NEW at \in InsidePoints, At(b, at)
      PROVE  Top(b).arg \in Msg
  BY <1>1, <1>3, TopTyped DEF InsidePoints, MsgPoints
<1>4. ASSUME NEW b \in Actor, NEW at \in InsidePoints, At(b, at)'
      PROVE  At(b, at) /\ Top(b)' = Top(b) /\ Top(b).arg \in Msg /\ (b = a => stack' = stack)
  BY <1>1, <1>3, <1>4, InsideKept
<1>5. SendsWait'
  <2>1. SUFFICES ASSUME NEW m \in Msg, sender[m] # Nobody, fate'[m] \in {"pending", "running"}
                 PROVE  m \notin ready' /\ Sending(sender[m], m)'
    BY DEF SendsWait, Sending
  <2>2. fate[m] \in {"pending", "running"}
    BY <2>1
  <2>3. m \notin ready /\ Sending(sender[m], m) /\ sender[m] \in Actor
    BY <1>1, <2>1, <2>2 DEF SendsWait, TypeOK
  <2>4. m \notin ready'
    BY <2>1, <2>3
  <2>5. Sending(sender[m], m)'
    <3>1. PICK b \in Actor : b = sender[m]
      BY <2>3
    <3>2. stack' = Return(a) /\ b = a /\ Top(a).at \in SendPoints => Top(a).arg # m
      BY <2>3
    <3>3. Sending(b, m)
      BY <2>3, <3>1
    <3>4. Sending(b, m)'
      BY <1>1, <3>2, <3>3, SendingKept
    <3> QED BY <3>1, <3>4 DEF Sending
  <2> QED BY <2>4, <2>5
<1>6. FinishFollowsRun'
  BY <1>1, FinishKept
<1>7. SendsQueued'
  BY <1>2 DEF SendsQueued
<1>8. SendsBegun'
  <2>1. SUFFICES ASSUME NEW b \in Actor, At(b, "send")'
                 PROVE  fate'[Top(b)'.arg] = "pending"
    BY DEF SendsBegun
  <2>2. At(b, "send") /\ Top(b)' = Top(b) /\ Top(b).arg \in Msg
    BY <1>4, <2>1 DEF InsidePoints
  <2> QED BY <2>2 DEF SendsBegun
<1>9. ASSUME NEW m \in Msg, Unsent(m) PROVE Unsent(m)'
  <2>1. ASSUME NEW b \in Actor, At(b, "send")', Top(b)'.arg = m PROVE FALSE
    BY <1>4, <1>9, <2>1 DEF InsidePoints, Unsent
  <2>2. sender'[m] = Nobody /\ fate'[m] # "new"
    BY <1>9 DEF Unsent
  <2> QED BY <2>1, <2>2 DEF Unsent
<1>10. PostsUnsent'
  <2>1. ASSUME NEW t \in Thread, NEW m \in Queued(t)' PROVE Unsent(m)'
    <3>1. CASE m \in Queued(t)
      BY <1>2, <1>9, <3>1 DEF PostsUnsent
    <3>2. CASE m \notin Queued(t)
      <4>1. (At(a, "post") \/ At(a, "postDelayed")) /\ m = Top(a).arg
        BY <3>2
      <4>2. m \in Msg
        BY <1>3, <4>1 DEF InsidePoints
      <4> QED BY <1>9, <4>1, <4>2 DEF PostsUnsent
    <3> QED BY <3>1, <3>2
  <2>2. ASSUME NEW b \in Actor, At(b, "post")' \/ At(b, "postDelayed")' PROVE Unsent(Top(b).arg)'
    <3>1. (At(b, "post") \/ At(b, "postDelayed")) /\ Top(b)' = Top(b) /\ Top(b).arg \in Msg
      BY <1>4, <2>2 DEF InsidePoints
    <3>2. Unsent(Top(b).arg)
      BY <3>1 DEF PostsUnsent
    <3>3. PICK m \in Msg : m = Top(b).arg
      BY <3>1
    <3>4. Unsent(m)'
      BY <1>9, <3>2, <3>3
    <3> QED BY <3>1, <3>3, <3>4 DEF Unsent
  <2> QED BY <2>1, <2>2 DEF PostsUnsent
<1>11. HandlersExist'
  <2>1. ASSUME NEW t \in Thread, NEW m \in Queued(t)' \cup Range(sendlist'[t])
        PROVE  Dest[m] = t /\ (m \in Disposal \/ Of[m] \notin destroyed')
    <3>1. CASE m \in Queued(t) \cup Range(sendlist[t])
      BY <2>1, <3>1 DEF HandlersExist
    <3>2. CASE m \notin Queued(t) \cup Range(sendlist[t])
      BY <2>1, <3>2 DEF HandlersExist, InsidePoints
    <3> QED BY <3>1, <3>2
  <2>2. ASSUME NEW b \in Actor, NEW at \in InsidePoints, At(b, at)'
        PROVE  Top(b)'.arg \in Disposal \/ Of[Top(b)'.arg] \notin destroyed'
    BY <1>4, <2>2 DEF HandlersExist
  <2> QED BY <2>1, <2>2 DEF HandlersExist
<1>12. \A m \in ready' : sender'[m] # Nobody
  OBVIOUS
<1>13. \A t \in deleted' : stack'[t] = <<>>
  <2>1. ASSUME NEW t \in deleted' PROVE stack'[t] = <<>>
    <3>1. t \in Actor /\ t # a /\ stack[t] = <<>>
      BY <1>2, <2>1 DEF TypeOK
    <3>2. stack'[t] = stack[t]
      BY <1>1, <3>1, ShapeOfMove
    <3> QED BY <3>1, <3>2
  <2> QED BY <2>1
<1>14. RunsStarted'
  BY <1>1, RunsKept
<1> QED BY <1>5, <1>6, <1>7, <1>8, <1>10, <1>11, <1>12, <1>13, <1>14

\* A step that settles no message and changes no queue.
LEMMA LifeQuiet ==
  ASSUME WakeInv, LifeInv, TypeOK',
         NEW a \in Actor, stack[a] # <<>>, NEW f \in Frame, NEW g \in Frame, Move(a, f, g),
         f.at \notin InsidePoints \cup {"run", "finish"}, g.at \notin {"run", "finish"},
         stack' = Replace(a, f) /\ Top(a).at \in SendPoints
           => f.at \in SendPoints /\ f.arg = Top(a).arg,
         stack' = Split(a, f, g) /\ Top(a).at \in SendPoints
           => g.at \in SendPoints /\ g.arg = Top(a).arg,
         stack' = Replace(a, f) \/ stack' = Split(a, f, g) \/ stack' = Return(a)
           => Top(a).at # "run",
         stack' = Invoke(a, f) => Top(a).at # "finish",
         stack' = Return(a) /\ Top(a).at \in SendPoints => Top(a).arg \in ready,
         UNCHANGED <<queues, sendlist, sender, ready, fate, life>>
  PROVE  LifeInv'
<1>1. \A t \in Thread : Queued(t)' = Queued(t)
  BY DEF Queued, queues
<1>2. \A t \in deleted' : stack[t] = <<>>
  BY DEF LifeInv, life
<1>3. destroyed' = destroyed /\ sendlist' = sendlist /\ sender' = sender /\ ready' = ready
      /\ fate' = fate
  BY DEF life
<1> QED BY <1>1, <1>2, <1>3, LifeKept

\* Post and PostDelayed push the message they were called for.
LEMMA LifePush ==
  ASSUME WakeInv, LifeInv, TypeOK', NEW a \in Actor, At(a, "post") \/ At(a, "postDelayed"),
         stack' = Return(a), UNCHANGED <<sendlist, sender, ready, fate, life>>,
         \A t \in Thread : \A m \in Queued(t)' :
           m \in Queued(t) \/ (m = Top(a).arg /\ Dest[m] = t)
  PROVE  LifeInv'
<1> DEFINE f == Call("idle", Nobody)
<1>1. f \in Frame /\ f.at = "idle"
  BY CallTyped DEF PumpPoints
<1> HIDE DEF f
<1>2. /\ stack[a] # <<>> /\ Move(a, f, f)
      /\ Top(a).at \notin SendPoints \cup {"run", "finish"}
  BY DEF At, Move, SendPoints
<1>3. \A t \in deleted' : stack[t] = <<>>
  BY DEF LifeInv, life
<1>4. \A t \in Thread :
        /\ \A m \in Queued(t)' : \/ m \in Queued(t)
                                 \/ /\ At(a, "post") \/ At(a, "postDelayed")
                                    /\ m = Top(a).arg /\ Dest[m] = t
        /\ Range(sendlist'[t]) \subseteq Range(sendlist[t])
        /\ Distinct(sendlist[t]) => Distinct(sendlist'[t])
        /\ \A m \in Queued(t)' \cup Range(sendlist'[t]) :
             m \in Disposal \/ Of[m] \notin destroyed' \ destroyed
  BY DEF life
<1>5. /\ f.at \notin InsidePoints \cup {"finish"} /\ Top(a).at # "run" /\ Top(a).at # "finish"
      /\ Top(a).at \notin SendPoints /\ f.at # "finish"
  BY <1>1, <1>2 DEF InsidePoints
<1>6. \A b \in Actor, at \in InsidePoints : At(b, at) =>
        Top(b).arg \in Disposal \/ Of[Top(b).arg] \notin destroyed' \ destroyed
  BY DEF life
<1>7. (\A m \in Msg : fate'[m] = fate[m]) /\ ready' \ ready = {} /\ sender' = sender
  OBVIOUS
<1> QED BY <1>1, <1>2, <1>3, <1>4, <1>5, <1>6, <1>7, LifeKept

\* Send queues its message, and the actor waits for it from now on.
LEMMA LifeSendLocked ==
  ASSUME WakeInv, LifeInv, TypeOK', NEW a \in Actor, SendLocked(a)
  PROVE  LifeInv'
<1> USE ThreadQueueAssumption
<1>0. TypeOK /\ Stacked /\ SentOnce
  BY DEF WakeInv
<1> DEFINE m == Top(a).arg
           f == Call("sendWake", m)
<1>1. /\ stack[a] # <<>> /\ Top(a).at = "send" /\ m \in Msg /\ At(a, "send")
      /\ f \in Frame /\ f.at = "sendWake" /\ f.arg = m
  BY <1>0, TopTyped, CallTyped DEF SendLocked, MsgPoints, At
<1>2. /\ stack' = Replace(a, f)
      /\ sendlist' = [sendlist EXCEPT ![Dest[m]] = Append(@, m)]
      /\ sender' = [sender EXCEPT ![m] = a]
      /\ UNCHANGED <<msgq, dmsgq, due, ready, fate, deleted, destroyed>>
  BY DEF SendLocked, GoTo, queues, life
<1>3. /\ sender[m] = Nobody /\ fate[m] = "pending"
      /\ \A b \in Actor : At(b, "send") /\ Top(b).arg = m => b = a
  BY <1>0, <1>1 DEF SentOnce, LifeInv, SendsBegun
<1> HIDE DEF m, f
<1>4. Move(a, f, f)
  BY <1>2 DEF Move
<1>5. ASSUME NEW b \in Actor, NEW at \in InsidePoints, At(b, at)'
      PROVE  At(b, at) /\ Top(b)' = Top(b) /\ b # a
  <2>1. At(b, at) /\ Top(b)' = Top(b) /\ (b = a => stack' = stack)
    BY <1>0, <1>1, <1>4, <1>5, InsideKept DEF InsidePoints
  <2>2. b # a
    <3>1. Head(stack'[a]) = f
      BY <1>0, <1>1, <1>2, ReplaceShape
    <3> QED BY <1>1, <1>5, <3>1 DEF At, Top, InsidePoints
  <2> QED BY <2>1, <2>2
<1>6. \A n \in Msg : sender'[n] = IF n = m THEN a ELSE sender[n]
  BY <1>0, <1>1, <1>2 DEF TypeOK
<1>7. \A t \in Thread : Queued(t)' = Queued(t)
  BY <1>2 DEF Queued
<1>8. SendsWait'
  <2>1. SUFFICES ASSUME NEW n \in Msg, sender'[n] # Nobody, fate[n] \in {"pending", "running"}
                 PROVE  n \notin ready /\ Sending(sender[n], n)'
    BY <1>2 DEF SendsWait
  <2>2. CASE n = m
    <3>1. m \notin ready
      BY <1>3 DEF LifeInv
    <3>2. stack'[a] \in Seq(Frame) /\ stack'[a] # <<>> /\ stack'[a][1] = f
      BY <1>0, <1>1, <1>2, ReplaceShape
    <3>3. 1 \in DOMAIN stack'[a] /\ "sendWake" \in SendPoints
      BY <3>2 DEF SendPoints
    <3>4. f = Call("sendWake", n)
      BY <2>2 DEF f
    <3>5. PICK i \in DOMAIN stack'[a] : stack'[a][i] = Call("sendWake", n)
      BY <3>2, <3>3, <3>4
    <3>6. Sending(a, n)'
      BY <3>3, <3>5 DEF Sending, OnStack
    <3>7. sender'[n] = a
      BY <1>6, <2>1, <2>2
    <3> QED BY <2>2, <3>1, <3>6, <3>7 DEF Sending, OnStack
  <2>3. CASE n # m
    <3>1. sender'[n] = sender[n] /\ sender[n] # Nobody /\ sender[n] \in Actor
      BY <1>0, <1>6, <2>1, <2>3 DEF TypeOK
    <3>2. n \notin ready /\ Sending(sender[n], n)
      BY <2>1, <3>1 DEF LifeInv, SendsWait
    <3>3. PICK b \in Actor : b = sender[n]
      BY <3>1
    <3>4. Top(a).at \notin SendPoints
      BY <1>1 DEF SendPoints
    <3>5. Sending(b, n)
      BY <3>2, <3>3
    <3>6. Sending(b, n)'
      BY <1>0, <1>1, <1>4, <3>4, <3>5, SendingKept
    <3> QED BY <3>1, <3>2, <3>3, <3>6 DEF Sending, OnStack
  <2> QED BY <2>2, <2>3
<1>9. FinishFollowsRun'
  <2>1. stack' # Invoke(a, f) /\ stack' # Return(a)
    <3>1. Len(stack'[a]) = Len(stack[a]) /\ Len(stack[a]) \in Nat
      BY <1>0, <1>1, <1>2, ReplaceShape DEF TypeOK
    <3>2. stack' = Invoke(a, f) => Len(stack'[a]) = Len(stack[a]) + 1
      BY <1>0, <1>1, PushShape
    <3>3. stack' = Return(a) => Len(stack'[a]) = Len(stack[a]) - 1
      BY <1>0, <1>1, PopShape
    <3> QED BY <3>1, <3>2, <3>3
  <2> QED BY <1>0, <1>1, <1>2, <1>4, <2>1, FinishKept DEF LifeInv
<1>10. \A t \in Thread : sendlist'[t] = IF t = Dest[m] THEN Append(sendlist[t], m) ELSE sendlist[t]
  BY <1>0, <1>2 DEF TypeOK
<1>11. SendsQueued'
  <2>1. ASSUME NEW t \in Thread
        PROVE  (\A n \in Range(sendlist'[t]) : fate[n] = "pending") /\ Distinct(sendlist'[t])
    <3>1. m \notin Range(sendlist[t])
      BY <1>0, <1>3 DEF SentOnce, Range
    <3>2. (\A n \in Range(sendlist[t]) : fate[n] = "pending") /\ Distinct(sendlist[t])
      BY DEF LifeInv, SendsQueued
    <3>3. CASE t = Dest[m]
      <4>1. sendlist'[t] = Append(sendlist[t], m) /\ sendlist[t] \in Seq(Msg)
        BY <1>0, <1>10, <3>3 DEF TypeOK
      <4> QED BY <1>1, <1>3, <3>1, <3>2, <4>1, RangeAppend
    <3>4. CASE t # Dest[m]
      BY <1>10, <3>2, <3>4
    <3> QED BY <3>3, <3>4
  <2> QED BY <1>2, <2>1 DEF SendsQueued
<1>12. SendsBegun'
  BY <1>2, <1>5 DEF SendsBegun, LifeInv, InsidePoints
<1>13. ASSUME NEW n, Unsent(n), n # m, n \in Msg PROVE Unsent(n)'
  BY <1>2, <1>5, <1>6, <1>13 DEF Unsent, InsidePoints
<1>14. ~Unsent(m)
  BY <1>1 DEF Unsent, m
<1>15. PostsUnsent'
  <2>1. ASSUME NEW t \in Thread, NEW n \in Queued(t)' PROVE Unsent(n)'
    BY <1>0, <1>7, <1>13, <1>14, <2>1, RangeTyped DEF LifeInv, PostsUnsent, Queued, TypeOK
  <2>2. ASSUME NEW b \in Actor, At(b, "post")' \/ At(b, "postDelayed")'
        PROVE  Unsent(Top(b).arg)'
    <3>1. /\ At(b, "post") \/ At(b, "postDelayed")
          /\ Top(b)' = Top(b)
      BY <1>5, <2>2 DEF InsidePoints
    <3>2. Unsent(Top(b).arg) /\ Top(b).arg \in Msg
      BY <1>0, <3>1, TopTyped DEF LifeInv, PostsUnsent, MsgPoints
    <3>3. PICK n \in Msg : n = Top(b).arg
      BY <3>2
    <3>4. Unsent(n)'
      BY <1>13, <1>14, <3>2, <3>3
    <3> QED BY <3>1, <3>3, <3>4 DEF Unsent
  <2> QED BY <2>1, <2>2 DEF PostsUnsent
<1>16. HandlersExist'
  <2>1. m \in Disposal \/ Of[m] \notin destroyed
    BY <1>1 DEF LifeInv, HandlersExist, InsidePoints, m
  <2>2. ASSUME NEW t \in Thread, NEW n \in Queued(t)' \cup Range(sendlist'[t])
        PROVE  Dest[n] = t /\ (n \in Disposal \/ Of[n] \notin destroyed)
    <3>1. CASE n \in Queued(t) \cup Range(sendlist[t])
      BY <3>1 DEF LifeInv, HandlersExist
    <3>2. CASE n \notin Queued(t) \cup Range(sendlist[t])
      <4>1. t = Dest[m] /\ n \in Range(Append(sendlist[t], m))
        BY <1>7, <1>10, <2>2, <3>2
      <4>2. sendlist[t] \in Seq(Msg)
        BY <1>0 DEF TypeOK
      <4>3. n = m
        BY <1>1, <3>2, <4>1, <4>2, RangeAppend
      <4> QED BY <2>1, <4>1, <4>3
    <3> QED BY <3>1, <3>2
  <2>3. ASSUME NEW b \in Actor, NEW at \in InsidePoints, At(b, at)'
        PROVE  Top(b)'.arg \in Disposal \/ Of[Top(b)'.arg] \notin destroyed
    BY <1>5, <2>3 DEF LifeInv, HandlersExist
  <2> QED BY <1>2, <2>2, <2>3 DEF HandlersExist
<1>17. \A n \in ready' : sender'[n] # Nobody
  <2>1. \A n \in ready : n \in Msg /\ sender[n] # Nobody
    BY <1>0 DEF LifeInv, TypeOK
  <2> QED BY <1>2, <1>6, <2>1 DEF Actor
<1>18. \A t \in deleted' : stack'[t] = <<>>
  <2>1. \A t \in deleted : t \in Actor /\ stack[t] = <<>>
    BY <1>0 DEF LifeInv, TypeOK, Actor
  <2>2. \A b \in Actor : b # a => stack'[b] = stack[b]
    BY <1>0, <1>1, <1>2, ReplaceShape
  <2> QED BY <1>1, <1>2, <2>1, <2>2
<1>19. RunsStarted'
  BY <1>0, <1>1, <1>2, <1>4, RunsKept DEF LifeInv
<1> QED BY <1>8, <1>9, <1>11, <1>12, <1>15, <1>16, <1>17, <1>18, <1>19 DEF LifeInv

\* The ways a stack changes are different ones.
LEMMA ShapesDiffer ==
  ASSUME TypeOK, NEW a \in Actor, stack[a] # <<>>, NEW f \in Frame, NEW g \in Frame
  PROVE  /\ stack' = Replace(a, f) => /\ stack' # Return(a) /\ stack' # Invoke(a, f)
                                      /\ stack' # Split(a, f, g)
         /\ stack' = Split(a, f, g) => stack' # Return(a)
         /\ stack' = Invoke(a, f) => stack' # Return(a)
         /\ stack' = Return(a) => /\ stack' # Invoke(a, f) /\ stack' # Split(a, f, g)
         /\ stack' = stack => /\ stack' # Return(a) /\ stack' # Invoke(a, f)
                              /\ stack' # Split(a, f, g)
<1>1. Len(stack[a]) \in Nat
  BY DEF TypeOK
<1>2. stack' = Replace(a, f) => Len(stack'[a]) = Len(stack[a])
  BY ReplaceShape
<1>3. stack' = Split(a, f, g) => Len(stack'[a]) = Len(stack[a]) + 1
  BY SplitShape
<1>4. stack' = Invoke(a, f) => Len(stack'[a]) = Len(stack[a]) + 1
  BY PushShape
<1>5. stack' = Return(a) => Len(stack'[a]) = Len(stack[a]) - 1
  BY PopShape
<1> QED BY <1>1, <1>2, <1>3, <1>4, <1>5

\* A handler returns.
LEMMA LifeReturn ==
  ASSUME WakeInv, LifeInv, TypeOK', NEW a \in Actor, HandlerReturns(a)
  PROVE  LifeInv'
<1> DEFINE f == Call("idle", Nobody)
           m == Top(a).arg
<1>0. TypeOK
  BY DEF WakeInv
<1>1. f \in Frame /\ f.at = "idle"
  BY CallTyped DEF PumpPoints
<1>2. /\ stack[a] # <<>> /\ Top(a).at = "run" /\ m \in Msg /\ Top(a) = stack[a][1]
      /\ 1 \in DOMAIN stack[a]
  <2>1. /\ stack[a] \in Seq(Frame) /\ stack[a] # <<>> /\ Top(a) = stack[a][1]
        /\ Top(a).at = "run" /\ m \in Msg
    BY <1>0, TopTyped DEF HandlerReturns, MsgPoints
  <2> QED BY <2>1
<1>3. /\ stack' = Return(a) /\ fate' = [fate EXCEPT ![m] = "done"]
      /\ UNCHANGED <<msgq, dmsgq, due, sendlist, sender, ready, deleted, destroyed>>
  BY DEF HandlerReturns, queues, sends, life
<1>4. fate[m] \notin {"new", "pending"}
  BY <1>2 DEF LifeInv, RunsStarted
<1> HIDE DEF f, m
<1>5. \A n \in Msg : fate'[n] = IF n = m THEN "done" ELSE fate[n]
  BY <1>0, <1>2, <1>3 DEF TypeOK
<1>6. \A n \in Msg : fate'[n] # fate[n] =>
        /\ fate'[n] \notin {"new", "pending"}
        /\ \A t \in Thread : n \notin Range(sendlist'[t])
        /\ \A b \in Actor : ~(At(b, "send") /\ Top(b).arg = n)
        /\ fate'[n] = "running" => sender[n] = Nobody \/ fate[n] = "pending"
  BY <1>3, <1>4, <1>5 DEF LifeInv, SendsQueued, SendsBegun
<1>7. \A t \in Thread :
        /\ \A n \in Queued(t)' : n \in Queued(t)
        /\ Range(sendlist'[t]) \subseteq Range(sendlist[t])
        /\ Distinct(sendlist[t]) => Distinct(sendlist'[t])
        /\ \A n \in Queued(t)' \cup Range(sendlist'[t]) :
             n \in Disposal \/ Of[n] \notin destroyed' \ destroyed
  BY <1>3 DEF Queued
<1>8. /\ \A b \in Actor, at \in InsidePoints : At(b, at) =>
            Top(b).arg \in Disposal \/ Of[Top(b).arg] \notin destroyed' \ destroyed
      /\ \A t \in deleted' : stack[t] = <<>>
      /\ ready' \ ready = {}
  BY <1>3 DEF LifeInv
<1>9. Move(a, f, f) /\ f.at \notin InsidePoints \cup {"finish", "run"}
  BY <1>1, <1>3 DEF Move, InsidePoints
<1>10. /\ stack' # Replace(a, f) /\ stack' # Split(a, f, f) /\ Top(a).at \notin SendPoints
       /\ fate'[Top(a).arg] # "running" /\ Top(a).at # "finish"
  BY <1>0, <1>1, <1>2, <1>3, <1>5, ShapesDiffer DEF SendPoints, m
<1> QED BY <1>1, <1>2, <1>3, <1>6, <1>7, <1>8, <1>9, <1>10, LifeKept

\* What a Clear of the messages in R on the threads in T leaves and settles.
LeftBy(T, R) ==
  /\ sender' = sender
  /\ \A t \in Thread :
       /\ Range(msgq'[t]) \subseteq Range(msgq[t]) /\ Range(due'[t]) \subseteq Range(due[t])
       /\ Range(dmsgq'[t]) \subseteq Range(dmsgq[t])
       /\ Range(sendlist'[t]) \subseteq Range(sendlist[t])
       /\ Distinct(sendlist[t]) => Distinct(sendlist'[t])
       /\ t \in T => /\ Range(msgq'[t]) \cap R = {} /\ Range(due'[t]) \cap R = {}
                     /\ Range(dmsgq'[t]) \cap R = {} /\ Range(sendlist'[t]) \cap R = {}
  /\ \A m \in Msg : fate'[m] # fate[m] =>
       /\ fate'[m] = "purged" /\ m \in R
       /\ \E t \in T : m \in Queued(t) \cup Range(sendlist[t])
       /\ \A t \in Thread : m \notin Range(sendlist'[t])
  /\ \A m \in ready' \ ready :
       fate'[m] = "purged" /\ \E t \in T : m \in Range(sendlist[t])

\* MessageQueue::Clear and Thread::Clear only take messages away, and release the
\* sender of each Send they take.
LEMMA Cleared ==
  ASSUME TypeOK, TypeOK', HandlersExist, NEW T \in SUBSET Thread, NEW R \in SUBSET Msg, Clear(T, R)
  PROVE  LeftBy(T, R)
<1>1. \A t \in Thread : /\ msgq[t] \in Seq(Msg) /\ due[t] \in Seq(Msg) /\ dmsgq[t] \in Seq(Msg)
                        /\ sendlist[t] \in Seq(Msg)
  BY DEF TypeOK
<1>2. ASSUME NEW t \in Thread
      PROVE  /\ Range(msgq'[t]) \subseteq Range(msgq[t]) /\ Range(due'[t]) \subseteq Range(due[t])
             /\ Range(dmsgq'[t]) \subseteq Range(dmsgq[t])
             /\ Range(sendlist'[t]) \subseteq Range(sendlist[t])
             /\ Distinct(sendlist[t]) => Distinct(sendlist'[t])
             /\ t \in T => /\ Range(msgq'[t]) \cap R = {} /\ Range(due'[t]) \cap R = {}
                           /\ Range(dmsgq'[t]) \cap R = {} /\ Range(sendlist'[t]) \cap R = {}
  <2>1. /\ msgq' \in Purge(msgq, T, R) /\ due' \in Purge(due, T, R)
        /\ dmsgq' \in Purge(dmsgq, T, R) /\ sendlist' \in Purge(sendlist, T, R)
    BY DEF Clear
  <2>2. /\ msgq \in [Thread -> Seq(Msg)] /\ due \in [Thread -> Seq(Msg)]
        /\ dmsgq \in [Thread -> Seq(Msg)] /\ sendlist \in [Thread -> Seq(Msg)]
    BY DEF TypeOK
  <2>3. /\ Range(msgq'[t]) \subseteq Range(msgq[t])
        /\ t \in T => Range(msgq'[t]) \cap R = {}
        /\ Distinct(msgq[t]) => Distinct(msgq'[t])
    BY <2>1, <2>2, PurgeRange
  <2>4. /\ Range(due'[t]) \subseteq Range(due[t])
        /\ t \in T => Range(due'[t]) \cap R = {}
        /\ Distinct(due[t]) => Distinct(due'[t])
    BY <2>1, <2>2, PurgeRange
  <2>5. /\ Range(dmsgq'[t]) \subseteq Range(dmsgq[t])
        /\ t \in T => Range(dmsgq'[t]) \cap R = {}
        /\ Distinct(dmsgq[t]) => Distinct(dmsgq'[t])
    BY <2>1, <2>2, PurgeRange
  <2>6. /\ Range(sendlist'[t]) \subseteq Range(sendlist[t])
        /\ t \in T => Range(sendlist'[t]) \cap R = {}
        /\ Distinct(sendlist[t]) => Distinct(sendlist'[t])
    BY <2>1, <2>2, PurgeRange
  <2> QED BY <2>3, <2>4, <2>5, <2>6
<1>3. ASSUME NEW s \in Seq(Msg), NEW m PROVE Contains(s, m) => m \in Range(s)
  BY DEF Contains, Range
<1>4. ASSUME NEW t \in Thread, NEW m, Contains(msgq[t] \o due[t] \o dmsgq[t], m)
      PROVE  m \in Queued(t)
  <2>1. msgq[t] \o due[t] \in Seq(Msg) /\ msgq[t] \o due[t] \o dmsgq[t] \in Seq(Msg)
    BY <1>1, ConcatProperties
  <2>2. m \in Range(msgq[t] \o due[t] \o dmsgq[t])
    BY <1>3, <1>4, <2>1
  <2>3. Range(msgq[t] \o due[t] \o dmsgq[t]) \subseteq Range(msgq[t] \o due[t]) \cup Range(dmsgq[t])
    BY <1>1, <2>1, RangeJoined
  <2>4. Range(msgq[t] \o due[t]) \subseteq Range(msgq[t]) \cup Range(due[t])
    BY <1>1, RangeJoined
  <2> QED BY <2>2, <2>3, <2>4 DEF Queued
<1>5. ASSUME NEW m \in Msg, fate'[m] # fate[m]
      PROVE  /\ fate'[m] = "purged" /\ m \in R
             /\ \E t \in T : m \in Queued(t) \cup Range(sendlist[t])
             /\ \A t \in Thread : m \notin Range(sendlist'[t])
  <2>1. /\ fate'[m] = "purged"
        /\ \E t \in T : m \in R /\ (Contains(sendlist[t], m)
                                    \/ Contains(msgq[t] \o due[t] \o dmsgq[t], m))
    BY <1>5 DEF Clear
  <2>2. PICK t \in T : m \in R /\ m \in Queued(t) \cup Range(sendlist[t])
    BY <1>1, <1>3, <1>4, <2>1
  <2>3. ASSUME NEW u \in Thread, m \in Range(sendlist'[u]) PROVE FALSE
    <3>1. m \in Range(sendlist[u])
      BY <1>2, <2>3
    <3>2. t = u
      BY <2>2, <3>1 DEF HandlersExist
    <3> QED BY <1>2, <2>2, <2>3, <3>2
  <2> QED BY <2>1, <2>2, <2>3
<1>6. ASSUME NEW m \in ready' \ ready
      PROVE  fate'[m] = "purged" /\ \E t \in T : m \in Range(sendlist[t])
  <2>1. \E t \in T : m \in R /\ Contains(sendlist[t], m)
    BY <1>6 DEF Clear
  <2>2. PICK t \in T : m \in R /\ Contains(sendlist[t], m)
    BY <2>1
  <2>3. fate'[m] = "purged"
    BY <2>2 DEF Clear
  <2> QED BY <1>1, <1>3, <2>2, <2>3
<1>7. sender' = sender
  BY DEF Clear
<1> QED BY <1>2, <1>5, <1>6, <1>7 DEF LeftBy

\* A Clear keeps the invariant when it takes every message of the handlers that
\* are destroyed.
LEMMA LifeCleared ==
  ASSUME WakeInv, LifeInv, TypeOK', NEW a \in Actor, stack[a] # <<>>,
         stack' = stack \/ (stack' = Return(a) /\ Top(a).at \notin SendPoints \cup {"run"}),
         NEW T \in SUBSET Thread, NEW R \in SUBSET Msg, Clear(T, R),
         \A t \in Thread : \A m \in Queued(t) \cup Range(sendlist[t]) :
           m \in Disposal \/ Of[m] \notin destroyed' \ destroyed \/ (t \in T /\ m \in R),
         \A b \in Actor, at \in InsidePoints : At(b, at) =>
           Top(b).arg \in Disposal \/ Of[Top(b).arg] \notin destroyed' \ destroyed,
         \A t \in deleted' : stack[t] = <<>>
  PROVE  LifeInv'
<1> DEFINE f == Call("idle", Nobody)
<1>0. TypeOK /\ SentOnce /\ HandlersExist
  BY DEF WakeInv, LifeInv
<1>1. f \in Frame /\ f.at = "idle"
  BY CallTyped DEF PumpPoints
<1> HIDE DEF f
<1>2. Move(a, f, f) /\ f.at \notin InsidePoints \cup {"finish", "run"}
  BY <1>1 DEF Move, InsidePoints
<1>3. /\ stack' # Split(a, f, f) /\ stack' # Invoke(a, f)
      /\ stack' = Return(a) => Top(a).at \notin SendPoints \cup {"run"}
      /\ stack' = Replace(a, f) => stack' = stack
  BY <1>0, <1>1, ShapesDiffer
<1>4. stack' # Replace(a, f) \/ Top(a).at \notin SendPoints \cup {"run"}
  <2>1. stack' = Replace(a, f) => Head(stack'[a]) = f
    BY <1>0, <1>1, ReplaceShape
  <2> QED BY <1>1, <1>3, <2>1 DEF Top, SendPoints
<1>5. LeftBy(T, R)
  BY <1>0, Cleared
<1> USE DEF LeftBy
<1>6. \A m \in Msg : fate'[m] # fate[m] =>
        /\ fate'[m] \notin {"new", "pending"}
        /\ \A t \in Thread : m \notin Range(sendlist'[t])
        /\ \A b \in Actor : ~(At(b, "send") /\ Top(b).arg = m)
        /\ fate'[m] = "running" => sender[m] = Nobody \/ fate[m] = "pending"
  <2>1. ASSUME NEW m \in Msg, fate'[m] # fate[m], NEW b \in Actor, At(b, "send"), Top(b).arg = m
        PROVE  FALSE
    <3>1. PICK t \in T : m \in Queued(t) \cup Range(sendlist[t])
      BY <1>5, <2>1
    <3>2. sender[m] = Nobody
      BY <1>0, <2>1 DEF SentOnce
    <3>3. m \in Queued(t) => ~(At(b, "send") /\ Top(b).arg = m)
      BY DEF LifeInv, PostsUnsent, Unsent
    <3>4. m \in Range(sendlist[t]) => sender[m] # Nobody
      BY <1>0 DEF SentOnce, Range
    <3> QED BY <2>1, <3>1, <3>2, <3>3, <3>4
  <2> QED BY <1>5, <2>1
<1>7. \A m \in ready' \ ready : sender[m] # Nobody /\ fate'[m] \notin {"pending", "running"}
  <2>1. \A t \in Thread : \A m \in Range(sendlist[t]) : sender[m] # Nobody
    BY <1>0 DEF SentOnce, Range
  <2> QED BY <1>5, <2>1
<1>8. ASSUME NEW t \in Thread
      PROVE  /\ \A m \in Queued(t)' : m \in Queued(t)
             /\ Range(sendlist'[t]) \subseteq Range(sendlist[t])
             /\ Distinct(sendlist[t]) => Distinct(sendlist'[t])
             /\ \A m \in Queued(t)' \cup Range(sendlist'[t]) :
                  m \in Disposal \/ Of[m] \notin destroyed' \ destroyed
  <2>1. \A m \in Queued(t)' : m \in Queued(t)
    BY <1>5 DEF Queued
  <2>2. \A m \in Queued(t)' \cup Range(sendlist'[t]) :
          m \in Queued(t) \cup Range(sendlist[t]) /\ ~(t \in T /\ m \in R)
    BY <1>5 DEF Queued
  <2>3. \A m \in Queued(t) \cup Range(sendlist[t]) :
          m \in Disposal \/ Of[m] \notin destroyed' \ destroyed \/ (t \in T /\ m \in R)
    OBVIOUS
  <2> QED BY <1>5, <2>1, <2>2, <2>3
<1> QED BY <1>1, <1>2, <1>3, <1>4, <1>5, <1>6, <1>7, <1>8, LifeKept

\* Post, Send, Stop, Join and ~Thread keep the invariant.
LEMMA LifeStep ==
  ASSUME WakeInv, LifeInv, TypeOK', NEW a \in Actor, Step(a)
  PROVE  LifeInv'
<1> USE ThreadQueueAssumption
<1>0. TypeOK /\ Stacked /\ SentOnce /\ OwnDelayed
  BY DEF WakeInv
<1>1. ASSUME NEW at \in MsgPoints, At(a, at)
      PROVE  /\ stack[a] # <<>> /\ Top(a).arg \in Msg /\ Top(a).at = at
             /\ \A to \in MsgPoints : /\ Call(to, Top(a).arg) \in Frame
                                      /\ Call(to, Top(a).arg).at = to
                                      /\ Call(to, Top(a).arg).arg = Top(a).arg
  BY <1>0, <1>1, TopTyped, CallTyped
<1>2. ASSUME NEW at \in ThreadPoints, At(a, at)
      PROVE  /\ stack[a] # <<>> /\ Top(a).arg \in Thread /\ Top(a).at = at
             /\ \A to \in ThreadPoints : /\ Call(to, Top(a).arg) \in Frame
                                         /\ Call(to, Top(a).arg).at = to
  BY <1>0, <1>2, TopTyped, CallTyped
<1> DEFINE idle == Call("idle", Nobody)
           sending == Call("sends", Nobody)
<1>3. /\ idle \in Frame /\ idle.at = "idle"
      /\ sending \in Frame /\ sending.at = "sends"
  BY CallTyped DEF PumpPoints
<1> HIDE DEF idle, sending
<1>4. CASE PostLocked(a)
  <2>1. /\ At(a, "post") /\ Top(a).arg \in Msg /\ stack' = Return(a)
        /\ msgq' = [msgq EXCEPT ![Dest[Top(a).arg]] = Append(@, Top(a).arg)]
        /\ UNCHANGED <<dmsgq, due, sendlist, sender, ready, fate, life>>
    BY <1>1, <1>4 DEF PostLocked, sends, MsgPoints
  <2>2. ASSUME NEW t \in Thread, NEW m \in Queued(t)'
        PROVE  m \in Queued(t) \/ (m = Top(a).arg /\ Dest[m] = t)
    <3>1. CASE t = Dest[Top(a).arg]
      <4>1. msgq'[t] = Append(msgq[t], Top(a).arg) /\ msgq[t] \in Seq(Msg)
        BY <1>0, <2>1, <3>1 DEF TypeOK
      <4>2. Range(msgq'[t]) = Range(msgq[t]) \cup {Top(a).arg}
        BY <2>1, <4>1, RangeAppend
      <4> QED BY <2>1, <2>2, <3>1, <4>2 DEF Queued
    <3>2. CASE t # Dest[Top(a).arg]
      <4>1. msgq'[t] = msgq[t]
        BY <1>0, <2>1, <3>2 DEF TypeOK
      <4> QED BY <2>1, <2>2, <4>1 DEF Queued
    <3> QED BY <3>1, <3>2
  <2> QED BY <2>1, <2>2, LifePush
<1>5. CASE PostDelayedLocked(a)
  <2>1. /\ At(a, "postDelayed") /\ Top(a).arg \in Msg /\ stack' = Return(a)
        /\ UNCHANGED <<msgq, due, sendlist, sender, ready, fate, life>>
    BY <1>1, <1>5 DEF PostDelayedLocked, sends, MsgPoints
  <2>2. PICK i \in 1..Len(dmsgq[Dest[Top(a).arg]]) + 1 :
          dmsgq' = [dmsgq EXCEPT ![Dest[Top(a).arg]] = InsertAt(@, i, Top(a).arg)]
    BY <1>5 DEF PostDelayedLocked
  <2>3. ASSUME NEW t \in Thread, NEW m \in Queued(t)'
        PROVE  m \in Queued(t) \/ (m = Top(a).arg /\ Dest[m] = t)
    <3>1. CASE t = Dest[Top(a).arg]
      <4>1. dmsgq'[t] = InsertAt(dmsgq[t], i, Top(a).arg) /\ dmsgq[t] \in Seq(Msg)
        BY <1>0, <2>2, <3>1 DEF TypeOK
      <4>2. Range(dmsgq'[t]) \subseteq Range(dmsgq[t]) \cup {Top(a).arg}
        BY <2>1, <2>2, <3>1, <4>1, RangeInserted
      <4> QED BY <2>1, <2>3, <3>1, <4>2 DEF Queued
    <3>2. CASE t # Dest[Top(a).arg]
      <4>1. dmsgq'[t] = dmsgq[t]
        BY <1>0, <2>2, <3>2 DEF TypeOK
      <4> QED BY <2>1, <2>3, <4>1 DEF Queued
    <3> QED BY <3>1, <3>2
  <2> QED BY <2>1, <2>3, LifePush
<1>6. CASE SendLocked(a)
  BY <1>6, LifeSendLocked
<1>7. CASE SendWakeUp(a)
  <2> DEFINE f == Call("test", Top(a).arg)
  <2>1. /\ stack[a] # <<>> /\ Top(a).at = "sendWake" /\ f \in Frame /\ f.at = "test"
        /\ f.arg = Top(a).arg
    BY <1>1, <1>7 DEF SendWakeUp, MsgPoints
  <2>2. /\ stack' = Replace(a, f)
        /\ UNCHANGED <<queues, sendlist, sender, ready, fate, life>>
    BY <1>7 DEF SendWakeUp, GoTo, sends
  <2> HIDE DEF f
  <2>3. /\ Move(a, f, f) /\ f.at \notin InsidePoints \cup {"run", "finish"} /\ f.at \in SendPoints
    BY <2>1, <2>2 DEF Move, InsidePoints, SendPoints
  <2>4. stack' # Return(a) /\ stack' # Split(a, f, f) /\ stack' # Invoke(a, f)
    BY <1>0, <2>1, <2>2, ShapesDiffer
  <2> QED BY <2>1, <2>2, <2>3, <2>4, LifeQuiet
<1>8. CASE SendTest(a)
  <2> DEFINE g == Call("sendWait", Top(a).arg)
  <2>1. /\ stack[a] # <<>> /\ Top(a).at \in {"test", "retest"} /\ g \in Frame /\ g.at = "sendWait"
        /\ g.arg = Top(a).arg
    BY <1>1, <1>8 DEF SendTest, MsgPoints
  <2>2. /\ \/ stack' = Return(a) /\ Top(a).arg \in ready
           \/ stack' = Split(a, sending, g)
           \/ stack' = Replace(a, g)
        /\ UNCHANGED <<queues, sendlist, sender, ready, fate, life>>
    BY <1>8 DEF SendTest, GoTo, GoToCall, sends, sending
  <2> HIDE DEF g
  <2>3. CASE stack' = Return(a) /\ Top(a).arg \in ready
    <3>1. Move(a, idle, idle) /\ idle.at \notin InsidePoints \cup {"run", "finish"}
      BY <1>3, <2>3 DEF Move, InsidePoints
    <3>2. stack' # Replace(a, idle) /\ stack' # Split(a, idle, idle) /\ stack' # Invoke(a, idle)
      BY <1>0, <1>3, <2>1, <2>3, ShapesDiffer
    <3> QED BY <1>3, <2>1, <2>2, <2>3, <3>1, <3>2, LifeQuiet
  <2>4. CASE stack' = Split(a, sending, g)
    <3>1. Move(a, sending, g) /\ sending.at \notin InsidePoints \cup {"run", "finish"}
      BY <1>3, <2>4 DEF Move, InsidePoints
    <3>2. stack' # Replace(a, sending) /\ stack' # Return(a)
      BY <1>0, <1>3, <2>1, <2>4, ShapesDiffer
    <3> QED BY <1>3, <2>1, <2>2, <2>4, <3>1, <3>2, LifeQuiet DEF SendPoints
  <2>5. CASE stack' = Replace(a, g)
    <3>1. Move(a, g, g) /\ g.at \notin InsidePoints \cup {"run", "finish"} /\ g.at \in SendPoints
      BY <2>1, <2>5 DEF Move, InsidePoints, SendPoints
    <3>2. stack' # Return(a) /\ stack' # Split(a, g, g) /\ stack' # Invoke(a, g)
      BY <1>0, <2>1, <2>5, ShapesDiffer
    <3> QED BY <2>1, <2>2, <2>5, <3>1, <3>2, LifeQuiet
  <2> QED BY <2>2, <2>3, <2>4, <2>5
<1>9. CASE SendWait(a)
  <2> DEFINE f == Call("retest", Top(a).arg)
  <2>1. /\ stack[a] # <<>> /\ Top(a).at = "sendWait" /\ f \in Frame /\ f.at = "retest"
        /\ f.arg = Top(a).arg
    BY <1>1, <1>9 DEF SendWait, MsgPoints
  <2>2. /\ stack' = Replace(a, f)
        /\ UNCHANGED <<queues, sendlist, sender, ready, fate, life>>
    BY <1>9 DEF SendWait, GoTo, sends
  <2> HIDE DEF f
  <2>3. /\ Move(a, f, f) /\ f.at \notin InsidePoints \cup {"run", "finish"} /\ f.at \in SendPoints
    BY <2>1, <2>2 DEF Move, InsidePoints, SendPoints
  <2>4. stack' # Return(a) /\ stack' # Split(a, f, f) /\ stack' # Invoke(a, f)
    BY <1>0, <2>1, <2>2, ShapesDiffer
  <2> QED BY <2>1, <2>2, <2>3, <2>4, LifeQuiet
<1>10. CASE HandlerReturns(a)
  BY <1>10, LifeReturn
<1>11. CASE StopWakeUp(a)
  <2> DEFINE f == Call("join", Top(a).arg)
  <2>1. /\ stack[a] # <<>> /\ Top(a).at = "stop" /\ f \in Frame /\ f.at = "join"
    BY <1>2, <1>11 DEF StopWakeUp, ThreadPoints
  <2>2. /\ stack' = Return(a) \/ stack' = Replace(a, f)
        /\ UNCHANGED <<queues, sendlist, sender, ready, fate, life>>
    BY <1>11 DEF StopWakeUp, GoTo, sends
  <2> HIDE DEF f
  <2>3. Move(a, f, f) /\ f.at \notin InsidePoints \cup {"run", "finish"} /\ Top(a).at \notin SendPoints
    BY <2>1, <2>2 DEF Move, InsidePoints, SendPoints
  <2>4. stack' # Split(a, f, f) /\ stack' # Invoke(a, f)
    BY <1>0, <2>1, <2>2, ShapesDiffer
  <2> QED BY <2>1, <2>2, <2>3, <2>4, LifeQuiet
<1>12. CASE Join(a)
  <2> DEFINE f == Call("clear", Top(a).arg)
  <2>1. /\ stack[a] # <<>> /\ Top(a).at = "join" /\ f \in Frame /\ f.at = "clear"
    BY <1>2, <1>12 DEF Join, ThreadPoints
  <2>2. /\ stack' = Replace(a, f)
        /\ UNCHANGED <<queues, sendlist, sender, ready, fate, life>>
    BY <1>12 DEF Join, GoTo, sends
  <2> HIDE DEF f
  <2>3. Move(a, f, f) /\ f.at \notin InsidePoints \cup {"run", "finish"} /\ Top(a).at \notin SendPoints
    BY <2>1, <2>2 DEF Move, InsidePoints, SendPoints
  <2>4. stack' # Return(a) /\ stack' # Split(a, f, f) /\ stack' # Invoke(a, f)
    BY <1>0, <2>1, <2>2, ShapesDiffer
  <2> QED BY <2>1, <2>2, <2>3, <2>4, LifeQuiet
<1>13. CASE DeleteThread(a)
  <2>1. /\ stack[a] # <<>> /\ Top(a).at = "clear" /\ Top(a).arg \in Thread /\ At(a, "clear")
    BY <1>2, <1>13 DEF DeleteThread, ThreadPoints
  <2>2. /\ Clear({Top(a).arg}, Msg) /\ stack' = Return(a) /\ destroyed' = destroyed
        /\ deleted' = deleted \cup {Top(a).arg}
    BY <1>13 DEF DeleteThread
  <2>3. stack[Top(a).arg] = <<>>
    BY <1>0, <2>1 DEF OwnDelayed
  <2>4. \A t \in deleted' : stack[t] = <<>>
    BY <2>2, <2>3 DEF LifeInv
  <2>5. /\ \A t \in Thread : \A m \in Queued(t) \cup Range(sendlist[t]) :
              \/ m \in Disposal \/ Of[m] \notin destroyed' \ destroyed
              \/ t \in {Top(a).arg} /\ m \in Msg
        /\ \A b \in Actor, at \in InsidePoints : At(b, at) =>
              Top(b).arg \in Disposal \/ Of[Top(b).arg] \notin destroyed' \ destroyed
    BY <2>2
  <2>6. {Top(a).arg} \in SUBSET Thread /\ Msg \in SUBSET Msg
    BY <2>1
  <2>7. Top(a).at \notin SendPoints \cup {"run"}
    BY <2>1 DEF SendPoints
  <2> QED BY <2>1, <2>2, <2>4, <2>5, <2>6, <2>7, LifeCleared
<1> QED BY <1>4, <1>5, <1>6, <1>7, <1>8, <1>9, <1>10, <1>11, <1>12, <1>13 DEF Step

\* ReceiveSends takes a send from the list and runs its handler.
LEMMA LifeReceive ==
  ASSUME WakeInv, LifeInv, TypeOK', NEW a \in Thread, ReceiveSend(a), sendlist[a] # <<>>
  PROVE  LifeInv'
<1> DEFINE m == Head(sendlist[a])
           f == Call("run", m)
           g == Call("finish", m)
<1>0. TypeOK /\ Stacked /\ SentOnce /\ a \in Actor
  BY DEF WakeInv, Actor
<1>1. sendlist[a] \in Seq(Msg) /\ m \in Msg /\ m \in Range(sendlist[a])
  BY <1>0, RangeTail, HeadTyped DEF TypeOK
<1>2. /\ f \in Frame /\ f.at = "run" /\ f.arg = m
      /\ g \in Frame /\ g.at = "finish" /\ g.arg = m
  BY <1>1, CallTyped DEF MsgPoints
<1>3. stack[a] # <<>> /\ Top(a).at = "loop"
  BY DEF ReceiveSend, At
<1>4. /\ sendlist' = [sendlist EXCEPT ![a] = Tail(@)] /\ stack' = Split(a, f, g)
      /\ fate' = [fate EXCEPT ![m] = "running"]
      /\ UNCHANGED <<msgq, dmsgq, due, sender, ready, deleted, destroyed>>
  BY DEF ReceiveSend, queues, life
<1> HIDE DEF f, g, m
<1>5. \A n \in Msg : fate'[n] = IF n = m THEN "running" ELSE fate[n]
  BY <1>0, <1>1, <1>4 DEF TypeOK
<1>6. ASSUME NEW t \in Thread
      PROVE  /\ Range(sendlist'[t]) \subseteq Range(sendlist[t])
             /\ Distinct(sendlist[t]) => Distinct(sendlist'[t])
             /\ m \notin Range(sendlist'[t])
  <2>1. CASE t = a
    <3>1. sendlist'[t] = Tail(sendlist[a])
      BY <1>0, <1>4, <2>1 DEF TypeOK
    <3>2. Distinct(sendlist[a])
      BY DEF LifeInv, SendsQueued
    <3> QED BY <1>1, <2>1, <3>1, <3>2, RangeTail DEF m
  <2>2. CASE t # a
    <3>1. sendlist'[t] = sendlist[t]
      BY <1>0, <1>4, <2>2 DEF TypeOK
    <3>2. m \notin Range(sendlist[t])
      <4>1. \A u \in Thread : \A n \in Range(sendlist[u]) : Dest[n] = u
        BY DEF LifeInv, HandlersExist
      <4> QED BY <1>1, <2>2, <4>1
    <3> QED BY <3>1, <3>2
  <2> QED BY <2>1, <2>2
<1>7. fate[m] = "pending" /\ sender[m] # Nobody
  BY <1>0, <1>1 DEF LifeInv, SendsQueued, SentOnce, Range
<1>8. \A n \in Msg : fate'[n] # fate[n] =>
        /\ fate'[n] \notin {"new", "pending"}
        /\ \A t \in Thread : n \notin Range(sendlist'[t])
        /\ \A b \in Actor : ~(At(b, "send") /\ Top(b).arg = n)
        /\ fate'[n] = "running" => sender[n] = Nobody \/ fate[n] = "pending"
  <2>1. \A b \in Actor : ~(At(b, "send") /\ Top(b).arg = m)
    BY <1>0, <1>7 DEF SentOnce
  <2> QED BY <1>5, <1>6, <1>7, <2>1
<1>9. ASSUME NEW t \in Thread
      PROVE  /\ \A n \in Queued(t)' : n \in Queued(t)
             /\ Range(sendlist'[t]) \subseteq Range(sendlist[t])
             /\ Distinct(sendlist[t]) => Distinct(sendlist'[t])
             /\ \A n \in Queued(t)' \cup Range(sendlist'[t]) :
                  n \in Disposal \/ Of[n] \notin destroyed' \ destroyed
  BY <1>4, <1>6 DEF Queued
<1>10. /\ \A b \in Actor, at \in InsidePoints : At(b, at) =>
             Top(b).arg \in Disposal \/ Of[Top(b).arg] \notin destroyed' \ destroyed
       /\ \A t \in deleted' : stack[t] = <<>>
       /\ ready' \ ready = {}
  BY <1>4 DEF LifeInv
<1>11. /\ Move(a, f, g) /\ f.at \notin InsidePoints \cup {"finish"} /\ g.at # "run"
       /\ Top(a).at \notin SendPoints \cup {"run"}
       /\ fate'[f.arg] \notin {"new", "pending"} /\ fate'[g.arg] \notin {"new", "pending"}
  BY <1>1, <1>2, <1>3, <1>4, <1>5 DEF Move, InsidePoints, SendPoints
<1>12. stack' # Replace(a, f) /\ stack' # Return(a)
  BY <1>0, <1>2, <1>3, <1>4, ShapesDiffer
<1>13. stack' = Invoke(a, f) => Top(a).at # "finish"
  BY <1>3
<1> QED BY <1>0, <1>2, <1>3, <1>4, <1>8, <1>9, <1>10, <1>11, <1>12, <1>13, LifeKept

\* *smsg.ready is set once the handler has returned.
LEMMA LifeFinished ==
  ASSUME WakeInv, LifeInv, TypeOK', NEW a \in Thread, SendFinished(a)
  PROVE  LifeInv'
<1> DEFINE m == Top(a).arg
           f == Call("reply", m)
<1>0. TypeOK /\ Stacked /\ SentOnce /\ a \in Actor
  BY DEF WakeInv, Actor
<1>1. /\ stack[a] # <<>> /\ Top(a).at = "finish" /\ m \in Msg /\ Top(a) = stack[a][1]
      /\ 1 \in DOMAIN stack[a]
  <2>1. stack[a] \in Seq(Frame) /\ stack[a] # <<>> /\ Top(a) = stack[a][1]
    BY <1>0, TopTyped DEF SendFinished
  <2>2. Top(a).at = "finish" /\ m \in Msg
    BY <1>0, TopTyped DEF SendFinished, MsgPoints
  <2> QED BY <2>1, <2>2
<1>2. f \in Frame /\ f.at = "reply" /\ f.arg = m
  BY <1>1, CallTyped DEF MsgPoints
<1>3. /\ ready' = ready \cup {m} /\ stack' = Replace(a, f)
      /\ UNCHANGED <<msgq, dmsgq, due, sendlist, sender, fate, deleted, destroyed>>
  BY DEF SendFinished, GoTo, queues, life
<1>4. fate[m] \notin {"new", "pending", "running"} /\ sender[m] # Nobody
  BY <1>0, <1>1 DEF LifeInv, FinishFollowsRun, SentOnce
<1> HIDE DEF m, f
<1>5. \A n \in ready' \ ready : sender[n] # Nobody /\ fate'[n] \notin {"pending", "running"}
  BY <1>3, <1>4
<1>6. ASSUME NEW t \in Thread
      PROVE  /\ \A n \in Queued(t)' : n \in Queued(t)
             /\ Range(sendlist'[t]) \subseteq Range(sendlist[t])
             /\ Distinct(sendlist[t]) => Distinct(sendlist'[t])
             /\ \A n \in Queued(t)' \cup Range(sendlist'[t]) :
                  n \in Disposal \/ Of[n] \notin destroyed' \ destroyed
  BY <1>3 DEF Queued
<1>7. /\ \A b \in Actor, at \in InsidePoints : At(b, at) =>
            Top(b).arg \in Disposal \/ Of[Top(b).arg] \notin destroyed' \ destroyed
      /\ \A t \in deleted' : stack[t] = <<>>
      /\ \A n \in Msg : fate'[n] = fate[n]
  BY <1>3 DEF LifeInv
<1>8. /\ Move(a, f, f) /\ f.at \notin InsidePoints \cup {"finish", "run"}
      /\ Top(a).at \notin SendPoints \cup {"run"}
  BY <1>1, <1>2, <1>3 DEF Move, InsidePoints, SendPoints
<1>9. stack' # Split(a, f, f) /\ stack' # Return(a) /\ stack' # Invoke(a, f)
  BY <1>0, <1>1, <1>2, <1>3, ShapesDiffer
<1> QED BY <1>0, <1>1, <1>2, <1>3, <1>5, <1>6, <1>7, <1>8, <1>9, LifeKept

\* Get takes what is due, or finds nothing to take.
LEMMA LifeGetQueue ==
  ASSUME WakeInv, LifeInv, TypeOK', NEW a \in Thread, GetQueue(a)
  PROVE  LifeInv'
<1> DEFINE q == msgq[a] \o due[a]
           m == Head(q)
           stopped == Call("stopped", Soonest(dmsgq[a]))
           f == Call("run", m)
           g == Call("get", Top(a).arg)
<1>0. TypeOK /\ Stacked /\ SentOnce /\ a \in Actor
  BY DEF WakeInv, Actor
<1>1. /\ msgq[a] \in Seq(Msg) /\ due[a] \in Seq(Msg) /\ dmsgq[a] \in Seq(Msg)
      /\ q \in Seq(Msg) /\ Range(q) \subseteq Range(msgq[a]) \cup Range(due[a])
  <2>1. msgq[a] \in Seq(Msg) /\ due[a] \in Seq(Msg) /\ dmsgq[a] \in Seq(Msg)
    BY <1>0 DEF TypeOK
  <2>2. q \in Seq(Msg)
    BY <2>1, ConcatProperties
  <2> QED BY <2>1, <2>2, RangeJoined
<1>2. /\ stack[a] # <<>> /\ Top(a).at = "queue" /\ Top(a).arg \in Msg \cup {Nobody}
  BY <1>0, TopTyped DEF GetQueue, PumpPoints
<1>3. /\ stopped \in Frame /\ stopped.at = "stopped"
      /\ g \in Frame /\ g.at = "get"
  <2>1. Soonest(dmsgq[a]) \in Msg \cup {Nobody}
    BY <1>1 DEF Soonest
  <2> QED BY <1>2, <2>1, CallTyped DEF PumpPoints
<1>4. due' = [due EXCEPT ![a] = <<>>] /\ UNCHANGED <<dmsgq, sendlist, sender, ready, deleted, destroyed>>
  BY DEF GetQueue, sends, life
<1>5. /\ \A b \in Actor, at \in InsidePoints : At(b, at) =>
            Top(b).arg \in Disposal \/ Of[Top(b).arg] \notin destroyed' \ destroyed
      /\ \A t \in deleted' : stack[t] = <<>>
      /\ ready' \ ready = {}
  BY <1>4 DEF LifeInv
<1>6. Top(a).at \notin SendPoints \cup {"run", "finish"}
  BY <1>2 DEF SendPoints
<1>7. CASE q = <<>>
  <2>1. stack' = Replace(a, stopped) /\ UNCHANGED <<msgq, fate>>
    BY <1>7 DEF GetQueue
  <2> HIDE DEF q, stopped
  <2>2. ASSUME NEW t \in Thread
        PROVE  /\ \A n \in Queued(t)' : n \in Queued(t)
               /\ Range(sendlist'[t]) \subseteq Range(sendlist[t])
               /\ Distinct(sendlist[t]) => Distinct(sendlist'[t])
               /\ \A n \in Queued(t)' \cup Range(sendlist'[t]) :
                    n \in Disposal \/ Of[n] \notin destroyed' \ destroyed
    <3>1. due'[t] = IF t = a THEN <<>> ELSE due[t]
      BY <1>0, <1>4 DEF TypeOK
    <3>2. Range(due'[t]) \subseteq Range(due[t])
      BY <1>1, <3>1, RangeTyped DEF Range
    <3>3. \A n \in Queued(t)' : n \in Queued(t)
      BY <1>4, <2>1, <3>2 DEF Queued
    <3> QED BY <1>4, <3>3
  <2>3. \A n \in Msg : fate'[n] = fate[n]
    BY <2>1
  <2>4. Move(a, stopped, stopped) /\ stopped.at \notin InsidePoints \cup {"finish", "run"}
    BY <1>3, <2>1 DEF Move, InsidePoints
  <2>5. stack' # Split(a, stopped, stopped) /\ stack' # Return(a) /\ stack' # Invoke(a, stopped)
    BY <1>0, <1>2, <1>3, <2>1, ShapesDiffer
  <2> QED BY <1>0, <1>2, <1>3, <1>4, <1>5, <1>6, <2>2, <2>3, <2>4, <2>5, LifeKept
<1>8. CASE q # <<>>
  <2>1. m \in Msg /\ m \in Range(q) /\ Tail(q) \in Seq(Msg) /\ Range(Tail(q)) \subseteq Range(q)
    <3> HIDE DEF q
    <3> QED BY <1>1, <1>8, RangeTail, RangeTyped
  <2>2. msgq' = [msgq EXCEPT ![a] = Tail(q)]
    BY <1>8 DEF GetQueue
  <2>3. \/ m \in Disposal /\ fate' = [fate EXCEPT ![m] = "done"] /\ stack' = stack
        \/ m \notin Disposal /\ fate' = [fate EXCEPT ![m] = "running"] /\ stack' = Split(a, f, g)
    BY <1>8 DEF GetQueue, GoToCall
  <2>4. f \in Frame /\ f.at = "run" /\ f.arg = m
    BY <2>1, CallTyped DEF MsgPoints
  <2> HIDE DEF f, g, q, m
  <2>5. ASSUME NEW t \in Thread
        PROVE  /\ \A n \in Queued(t)' : n \in Queued(t)
               /\ Range(sendlist'[t]) \subseteq Range(sendlist[t])
               /\ Distinct(sendlist[t]) => Distinct(sendlist'[t])
               /\ \A n \in Queued(t)' \cup Range(sendlist'[t]) :
                    n \in Disposal \/ Of[n] \notin destroyed' \ destroyed
    <3>1. CASE t = a
      <4>1. due'[t] = <<>> /\ msgq'[t] = Tail(q)
        BY <1>0, <1>4, <2>2, <3>1 DEF TypeOK
      <4>2. Range(due'[t]) = {}
        BY <4>1 DEF Range
      <4>3. \A n \in Queued(t)' : n \in Queued(t)
        BY <1>1, <1>4, <2>1, <3>1, <4>1, <4>2 DEF Queued
      <4> QED BY <1>4, <4>3
    <3>2. CASE t # a
      <4>1. due'[t] = due[t] /\ msgq'[t] = msgq[t]
        BY <1>0, <1>4, <2>2, <3>2 DEF TypeOK
      <4>2. \A n \in Queued(t)' : n \in Queued(t)
        BY <1>4, <4>1 DEF Queued
      <4> QED BY <1>4, <4>2
    <3> QED BY <3>1, <3>2
  <2>6. \A n \in Msg : fate'[n] # fate[n] => n = m /\ fate'[n] \in {"done", "running"}
    BY <1>0, <2>1, <2>3 DEF TypeOK
  <2>7. /\ sender[m] = Nobody
        /\ \A b \in Actor : ~(At(b, "send") /\ Top(b).arg = m)
    <3>1. m \in Queued(a)
      BY <1>1, <2>1 DEF Queued
    <3> QED BY <3>1 DEF LifeInv, PostsUnsent, Unsent
  <2>8. \A n \in Msg : fate'[n] # fate[n] =>
          /\ fate'[n] \notin {"new", "pending"}
          /\ \A t \in Thread : n \notin Range(sendlist'[t])
          /\ \A b \in Actor : ~(At(b, "send") /\ Top(b).arg = n)
          /\ fate'[n] = "running" => sender[n] = Nobody \/ fate[n] = "pending"
    <3>1. \A t \in Thread : \A n \in Range(sendlist'[t]) : sender[n] # Nobody
      BY <1>0, <1>4 DEF SentOnce, Range
    <3> QED BY <2>6, <2>7, <3>1
  <2>9. CASE stack' = stack
    <3>1. Move(a, stopped, stopped) /\ stopped.at \notin InsidePoints \cup {"finish", "run"}
      BY <1>3, <2>9 DEF Move, InsidePoints
    <3>2. stack' # Split(a, stopped, stopped) /\ stack' # Return(a) /\ stack' # Invoke(a, stopped)
      BY <1>0, <1>2, <1>3, <2>9, ShapesDiffer
    <3> HIDE DEF stopped
    <3> QED BY <1>0, <1>2, <1>3, <1>4, <1>5, <1>6, <2>5, <2>8, <3>1, <3>2, LifeKept
  <2>10. CASE fate' = [fate EXCEPT ![m] = "running"] /\ stack' = Split(a, f, g)
    <3>1. /\ Move(a, f, g) /\ f.at \notin InsidePoints \cup {"finish"} /\ g.at \notin {"run", "finish"}
      BY <1>3, <2>4, <2>10 DEF Move, InsidePoints
    <3>2. stack' # Replace(a, f) /\ stack' # Return(a)
      BY <1>0, <1>2, <1>3, <2>4, <2>10, ShapesDiffer
    <3>3. fate'[f.arg] \notin {"new", "pending"}
      BY <1>0, <2>1, <2>4, <2>10 DEF TypeOK
    <3> QED BY <1>0, <1>2, <1>3, <1>4, <1>5, <1>6, <2>4, <2>5, <2>8, <3>1, <3>2, <3>3, LifeKept
  <2> QED BY <2>3, <2>9, <2>10
<1> QED BY <1>7, <1>8

\* Get and ReceiveSends keep the invariant.
LEMMA LifePump ==
  ASSUME WakeInv, LifeInv, TypeOK', NEW a \in Thread, Pump(a)
  PROVE  LifeInv'
<1> USE ThreadQueueAssumption
<1>0. TypeOK /\ Stacked /\ a \in Actor
  BY DEF WakeInv, Actor
<1>1. ASSUME NEW at \in PumpPoints, At(a, at)
      PROVE  stack[a] # <<>> /\ Top(a).arg \in Msg \cup {Nobody} /\ Top(a).at = at
  BY <1>0, <1>1, TopTyped
<1>2. ASSUME NEW to \in PumpPoints, NEW arg \in Msg \cup {Nobody}
      PROVE  Call(to, arg) \in Frame /\ Call(to, arg).at = to
  BY CallTyped
<1>3. CASE ReceiveSends(a)
  <2> DEFINE f == Call("loop", Top(a).arg)
  <2>1. /\ stack[a] # <<>> /\ Top(a).at = "sends" /\ f \in Frame /\ f.at = "loop"
    BY <1>1, <1>2, <1>3 DEF ReceiveSends, PumpPoints
  <2>2. /\ stack' = Return(a) \/ stack' = Replace(a, f)
        /\ UNCHANGED <<queues, sendlist, sender, ready, fate, life>>
    BY <1>3 DEF ReceiveSends, GoTo, sends
  <2> HIDE DEF f
  <2>3. Move(a, f, f) /\ f.at \notin InsidePoints \cup {"run", "finish"} /\ Top(a).at \notin SendPoints
    BY <2>1, <2>2 DEF Move, InsidePoints, SendPoints
  <2>4. stack' # Split(a, f, f) /\ stack' # Invoke(a, f)
    BY <1>0, <2>1, <2>2, ShapesDiffer
  <2> QED BY <1>0, <2>1, <2>2, <2>3, <2>4, LifeQuiet
<1>4. CASE ReceiveSend(a)
  <2>1. CASE sendlist[a] = <<>>
    <3> DEFINE f == Call("idle", Nobody)
    <3>1. /\ stack[a] # <<>> /\ Top(a).at = "loop" /\ f \in Frame /\ f.at = "idle"
      BY <1>1, <1>2, <1>4 DEF ReceiveSend, PumpPoints
    <3>2. /\ stack' = Return(a)
          /\ UNCHANGED <<queues, sendlist, sender, ready, fate, life>>
      BY <1>4, <2>1 DEF ReceiveSend
    <3> HIDE DEF f
    <3>3. Move(a, f, f) /\ f.at \notin InsidePoints \cup {"run", "finish"} /\ Top(a).at \notin SendPoints
      BY <3>1, <3>2 DEF Move, InsidePoints, SendPoints
    <3>4. stack' # Split(a, f, f) /\ stack' # Invoke(a, f) /\ stack' # Replace(a, f)
      BY <1>0, <3>1, <3>2, ShapesDiffer
    <3> QED BY <1>0, <3>1, <3>2, <3>3, <3>4, LifeQuiet
  <2>2. CASE sendlist[a] # <<>>
    BY <1>4, <2>2, LifeReceive
  <2> QED BY <2>1, <2>2
<1>5. CASE SendFinished(a)
  BY <1>5, LifeFinished
<1>6. CASE SendReply(a)
  <2> DEFINE f == Call("loop", Nobody)
  <2>1. /\ stack[a] # <<>> /\ Top(a).at = "reply" /\ f \in Frame /\ f.at = "loop"
    BY <1>0, <1>2, <1>6, TopTyped DEF SendReply, PumpPoints
  <2>2. /\ stack' = Replace(a, f)
        /\ UNCHANGED <<queues, sendlist, sender, ready, fate, life>>
    BY <1>6 DEF SendReply, sends
  <2> HIDE DEF f
  <2>3. Move(a, f, f) /\ f.at \notin InsidePoints \cup {"run", "finish"} /\ Top(a).at \notin SendPoints
    BY <2>1, <2>2 DEF Move, InsidePoints, SendPoints
  <2>4. stack' # Split(a, f, f) /\ stack' # Invoke(a, f) /\ stack' # Return(a)
    BY <1>0, <2>1, <2>2, ShapesDiffer
  <2> QED BY <1>0, <2>1, <2>2, <2>3, <2>4, LifeQuiet
<1>7. CASE Get(a)
  <2> DEFINE f == Call("sends", Nobody)
             g == Call("queue", Top(a).arg)
  <2>1. /\ stack[a] # <<>> /\ Top(a).at = "get" /\ f \in Frame /\ f.at = "sends"
        /\ g \in Frame /\ g.at = "queue"
    BY <1>1, <1>2, <1>7 DEF Get, PumpPoints
  <2>2. /\ stack' = Split(a, f, g)
        /\ UNCHANGED <<queues, sendlist, sender, ready, fate, life>>
    BY <1>7 DEF Get, GoToCall, sends
  <2> HIDE DEF f, g
  <2>3. /\ Move(a, f, g) /\ f.at \notin InsidePoints \cup {"run", "finish"}
        /\ g.at \notin {"run", "finish"} /\ Top(a).at \notin SendPoints
    BY <2>1, <2>2 DEF Move, InsidePoints, SendPoints
  <2>4. stack' # Replace(a, f) /\ stack' # Return(a)
    BY <1>0, <2>1, <2>2, ShapesDiffer
  <2> QED BY <1>0, <2>1, <2>2, <2>3, <2>4, LifeQuiet
<1>8. CASE GetQueue(a)
  BY <1>8, LifeGetQueue
<1>9. CASE GetStopped(a)
  <2> DEFINE f == Call("wait", Top(a).arg)
  <2>1. /\ stack[a] # <<>> /\ Top(a).at = "stopped" /\ f \in Frame /\ f.at = "wait"
    BY <1>1, <1>2, <1>9 DEF GetStopped, PumpPoints
  <2>2. /\ stack' = Return(a) \/ stack' = Replace(a, f)
        /\ UNCHANGED <<queues, sendlist, sender, ready, fate, life>>
    BY <1>9 DEF GetStopped, GoTo, sends
  <2> HIDE DEF f
  <2>3. Move(a, f, f) /\ f.at \notin InsidePoints \cup {"run", "finish"} /\ Top(a).at \notin SendPoints
    BY <2>1, <2>2 DEF Move, InsidePoints, SendPoints
  <2>4. stack' # Split(a, f, f) /\ stack' # Invoke(a, f)
    BY <1>0, <2>1, <2>2, ShapesDiffer
  <2> QED BY <1>0, <2>1, <2>2, <2>3, <2>4, LifeQuiet
<1>10. CASE GetWait(a)
  <2> DEFINE f == Call("get", Nobody)
  <2>1. /\ stack[a] # <<>> /\ Top(a).at = "wait" /\ f \in Frame /\ f.at = "get"
    BY <1>1, <1>2, <1>10 DEF GetWait, PumpPoints
  <2>2. /\ stack' = Replace(a, f)
        /\ UNCHANGED <<queues, sendlist, sender, ready, fate, life>>
    BY <1>10 DEF GetWait, sends
  <2> HIDE DEF f
  <2>3. Move(a, f, f) /\ f.at \notin InsidePoints \cup {"run", "finish"} /\ Top(a).at \notin SendPoints
    BY <2>1, <2>2 DEF Move, InsidePoints, SendPoints
  <2>4. stack' # Split(a, f, f) /\ stack' # Invoke(a, f) /\ stack' # Return(a)
    BY <1>0, <2>1, <2>2, ShapesDiffer
  <2> QED BY <1>0, <2>1, <2>2, <2>3, <2>4, LifeQuiet
<1> QED BY <1>3, <1>4, <1>5, <1>6, <1>7, <1>8, <1>9, <1>10 DEF Pump

\* A delayed message becomes due: it is on another queue of the same thread.
LEMMA LifeTrigger ==
  ASSUME WakeInv, LifeInv, TypeOK', NEW a \in Thread, Trigger(a)
  PROVE  LifeInv'
<1>0. TypeOK
  BY DEF WakeInv
<1>1. /\ dmsgq[a] # <<>> /\ due' = [due EXCEPT ![a] = Append(@, Head(dmsgq[a]))]
      /\ dmsgq' = [dmsgq EXCEPT ![a] = Tail(@)]
      /\ UNCHANGED <<msgq, sendlist, sender, ready, stack, fate, deleted, destroyed>>
  BY DEF Trigger, sends, life
<1>2. ASSUME NEW t \in Thread PROVE \A m \in Queued(t)' : m \in Queued(t)
  <2>1. CASE t = a
    <3>1. /\ due'[t] = Append(due[t], Head(dmsgq[t])) /\ dmsgq'[t] = Tail(dmsgq[t])
          /\ due[t] \in Seq(Msg) /\ dmsgq[t] \in Seq(Msg) /\ dmsgq[t] # <<>>
      BY <1>0, <1>1, <2>1 DEF TypeOK
    <3>2. Head(dmsgq[t]) \in Range(dmsgq[t]) /\ Head(dmsgq[t]) \in Msg
          /\ Range(dmsgq'[t]) \subseteq Range(dmsgq[t])
      BY <3>1, RangeTail, HeadTyped
    <3>3. Range(due'[t]) = Range(due[t]) \cup {Head(dmsgq[t])}
      BY <3>1, <3>2, RangeAppend
    <3> QED BY <1>1, <3>2, <3>3 DEF Queued
  <2>2. CASE t # a
    <3>1. due'[t] = due[t] /\ dmsgq'[t] = dmsgq[t]
      BY <1>0, <1>1, <2>2 DEF TypeOK
    <3> QED BY <1>1, <3>1 DEF Queued
  <2> QED BY <2>1, <2>2
<1>3. SendsWait' /\ FinishFollowsRun' /\ RunsStarted' /\ SendsQueued' /\ SendsBegun'
  BY <1>1 DEF LifeInv, SendsWait, FinishFollowsRun, RunsStarted, SendsQueued, SendsBegun,
              Sending, OnStack, At, Top
<1>4. PostsUnsent'
  <2>1. ASSUME NEW t \in Thread, NEW m \in Queued(t)' PROVE Unsent(m)'
    <3>1. m \in Queued(t)
      BY <1>2, <2>1
    <3>2. Unsent(m)
      BY <3>1 DEF LifeInv, PostsUnsent
    <3> QED BY <1>1, <3>2 DEF Unsent, At, Top
  <2>2. ASSUME NEW b \in Actor, At(b, "post")' \/ At(b, "postDelayed")' PROVE Unsent(Top(b).arg)'
    <3>1. Unsent(Top(b).arg)
      BY <1>1, <2>2 DEF LifeInv, PostsUnsent, At, Top
    <3> QED BY <1>1, <3>1 DEF Unsent, At, Top
  <2> QED BY <2>1, <2>2 DEF PostsUnsent
<1>5. HandlersExist'
  <2>1. ASSUME NEW t \in Thread, NEW m \in Queued(t)' \cup Range(sendlist'[t])
        PROVE  Dest[m] = t /\ (m \in Disposal \/ Of[m] \notin destroyed')
    <3>1. m \in Queued(t) \cup Range(sendlist[t])
      BY <1>1, <1>2, <2>1
    <3> QED BY <1>1, <3>1 DEF LifeInv, HandlersExist
  <2>2. ASSUME NEW b \in Actor, NEW at \in InsidePoints, At(b, at)'
        PROVE  Top(b)'.arg \in Disposal \/ Of[Top(b)'.arg] \notin destroyed'
    BY <1>1, <2>2 DEF LifeInv, HandlersExist, At, Top
  <2> QED BY <2>1, <2>2 DEF HandlersExist
<1>6. (\A m \in ready' : sender'[m] # Nobody) /\ \A t \in deleted' : stack'[t] = <<>>
  BY <1>1 DEF LifeInv
<1> QED BY <1>3, <1>4, <1>5, <1>6 DEF LifeInv

\* Post and Send begin: their message is on no queue yet.
LEMMA LifeBegun ==
  ASSUME WakeInv, LifeInv, TypeOK', NEW a \in Actor, stack[a] # <<>>, Top(a).at \in {"idle", "run"},
         NEW m \in Msg, NEW f \in Frame, f.at \in InsidePoints, f.arg = m, stack' = Invoke(a, f),
         fate[m] = "new", fate' = [fate EXCEPT ![m] = "pending"],
         m \in Disposal \/ Of[m] \notin destroyed,
         UNCHANGED <<queues, sendlist, sender, ready, life>>
  PROVE  LifeInv'
<1>0. TypeOK /\ Stacked /\ SentOnce
  BY DEF WakeInv
<1>1. /\ UNCHANGED <<msgq, dmsgq, due, sendlist, sender, ready, deleted, destroyed>>
      /\ \A n \in Msg : fate'[n] = IF n = m THEN "pending" ELSE fate[n]
  BY <1>0 DEF queues, life, TypeOK
<1>2. sender[m] = Nobody
  BY <1>0 DEF SentOnce
<1>3. /\ Move(a, f, f) /\ stack' # Return(a) /\ stack' # Replace(a, f)
      /\ \A b \in Actor : b # a => stack'[b] = stack[b]
      /\ stack'[a] # <<>> /\ Head(stack'[a]) = f
  BY <1>0, PushShape, ShapesDiffer DEF Move
<1>4. f.at \notin {"run", "finish"}
  BY DEF InsidePoints
<1>5. /\ \A b \in Actor : b # a => Top(b)' = Top(b) /\ \A at : At(b, at)' <=> At(b, at)
      /\ Top(a)' = f /\ \A at : At(a, at)' <=> f.at = at
  BY <1>3 DEF At, Top
<1>6. SendsWait'
  <2>1. SUFFICES ASSUME NEW n \in Msg, sender[n] # Nobody, fate'[n] \in {"pending", "running"}
                 PROVE  n \notin ready /\ Sending(sender[n], n)'
    BY <1>1 DEF SendsWait
  <2>2. fate[n] \in {"pending", "running"}
    BY <1>1, <1>2, <2>1
  <2>3. n \notin ready /\ Sending(sender[n], n) /\ sender[n] \in Actor
    BY <1>0, <2>1, <2>2 DEF LifeInv, SendsWait, TypeOK
  <2>4. PICK b \in Actor : b = sender[n]
    BY <2>3
  <2>5. Sending(b, n)
    BY <2>3, <2>4
  <2>6. stack' # Split(a, f, f) \/ Top(a).at \notin SendPoints
    BY DEF SendPoints
  <2>7. Sending(b, n)'
    BY <1>0, <1>3, <2>5, <2>6, SendingKept
  <2> QED BY <1>1, <2>3, <2>4, <2>7 DEF Sending, OnStack
<1>7. FinishFollowsRun'
  <2>1. \A n \in Msg : sender[n] # Nobody /\ fate[n] \notin {"new", "pending"} => fate'[n] = fate[n]
    BY <1>1
  <2>2. /\ stack' = Split(a, f, f) /\ f.at = "finish"
              => f.arg = f.arg /\ fate'[f.arg] \notin {"new", "pending"}
        /\ stack' = Split(a, f, f) => Top(a).at # "run"
        /\ Top(a).at # "finish" /\ FinishFollowsRun
    <3>1. stack' # Split(a, f, f)
      <4>1. stack'[a] = <<f>> \o stack[a] /\ stack[a] \in Seq(Frame)
        BY <1>0 DEF Invoke, TypeOK
      <4>2. stack'[a][2] = stack[a][1] /\ Top(a) = stack[a][1]
        BY <4>1 DEF Top
      <4>3. stack' = Split(a, f, f) => stack'[a][2] = f
        BY <1>0, SplitShape
      <4> QED BY <4>2, <4>3 DEF InsidePoints
    <3> QED BY <3>1 DEF LifeInv
  <2> QED BY <1>0, <1>3, <1>4, <2>1, <2>2, FinishKept
<1>8. RunsStarted'
  BY <1>0, <1>1, <1>3, <1>4, RunsKept DEF LifeInv
<1>9. SendsQueued'
  <2>1. \A t \in Thread : \A n \in Range(sendlist[t]) : n \in Msg
    BY <1>0, RangeTyped DEF TypeOK
  <2> QED BY <1>1, <2>1 DEF LifeInv, SendsQueued
<1>10. ASSUME NEW b \in Actor, NEW at \in InsidePoints, At(b, at)
       PROVE  Top(b).arg \in Msg /\ Top(b).at = at /\ b # a
  <2>1. InsidePoints \subseteq MsgPoints
    BY DEF InsidePoints, MsgPoints
  <2> QED BY <1>0, <1>10, <2>1, TopTyped DEF InsidePoints
<1>11. SendsBegun'
  <2>1. ASSUME NEW b \in Actor, At(b, "send")' PROVE fate'[Top(b)'.arg] = "pending"
    <3>1. CASE b = a
      BY <1>1, <1>5, <3>1
    <3>2. CASE b # a
      BY <1>1, <1>5, <1>10, <2>1, <3>2 DEF LifeInv, SendsBegun, InsidePoints
    <3> QED BY <3>1, <3>2
  <2> QED BY <2>1 DEF SendsBegun
<1>12. ASSUME NEW n \in Msg, Unsent(n) PROVE Unsent(n)'
  <2>1. n # m /\ sender'[n] = Nobody /\ fate'[n] # "new"
    BY <1>1, <1>12 DEF Unsent
  <2>2. \A b \in Actor : ~(At(b, "send")' /\ Top(b)'.arg = n)
    BY <1>5, <1>12, <2>1 DEF Unsent
  <2> QED BY <2>1, <2>2 DEF Unsent
<1>13. PostsUnsent'
  <2>1. ASSUME NEW t \in Thread, NEW n \in Queued(t)' PROVE Unsent(n)'
    <3>1. n \in Queued(t) /\ n \in Msg
      BY <1>0, <1>1, <2>1, RangeTyped DEF Queued, TypeOK
    <3> QED BY <1>12, <3>1 DEF LifeInv, PostsUnsent
  <2>2. ASSUME NEW b \in Actor, At(b, "post")' \/ At(b, "postDelayed")' PROVE Unsent(Top(b).arg)'
    <3>1. CASE b # a
      <4>1. (At(b, "post") \/ At(b, "postDelayed")) /\ Top(b)' = Top(b) /\ Top(b).arg \in Msg
        BY <1>5, <1>10, <2>2, <3>1 DEF InsidePoints
      <4>2. PICK n \in Msg : n = Top(b).arg
        BY <4>1
      <4>3. Unsent(n)'
        BY <1>12, <4>1, <4>2 DEF LifeInv, PostsUnsent
      <4> QED BY <4>1, <4>2, <4>3 DEF Unsent
    <3>2. CASE b = a
      <4>1. f.at # "send" /\ Top(b)'.arg = m
        BY <1>5, <2>2, <3>2
      <4>2. \A c \in Actor : At(c, "send") => Top(c).arg # m
        BY <1>0 DEF SentOnce
      <4>3. \A c \in Actor : ~(At(c, "send")' /\ Top(c)'.arg = m)
        BY <1>5, <4>1, <4>2
      <4>4. sender'[m] = Nobody /\ fate'[m] # "new"
        BY <1>1, <1>2
      <4> QED BY <4>1, <4>3, <4>4 DEF Unsent
    <3> QED BY <3>1, <3>2
  <2> QED BY <2>1, <2>2 DEF PostsUnsent
<1>14. HandlersExist'
  <2>1. ASSUME NEW t \in Thread, NEW n \in Queued(t)' \cup Range(sendlist'[t])
        PROVE  Dest[n] = t /\ (n \in Disposal \/ Of[n] \notin destroyed')
    <3>1. n \in Queued(t) \cup Range(sendlist[t])
      BY <1>1, <2>1 DEF Queued
    <3> QED BY <1>1, <3>1 DEF LifeInv, HandlersExist
  <2>2. ASSUME NEW b \in Actor, NEW at \in InsidePoints, At(b, at)'
        PROVE  Top(b)'.arg \in Disposal \/ Of[Top(b)'.arg] \notin destroyed'
    <3>1. CASE b = a
      BY <1>1, <1>5, <3>1
    <3>2. CASE b # a
      BY <1>1, <1>5, <2>2, <3>2 DEF LifeInv, HandlersExist
    <3> QED BY <3>1, <3>2
  <2> QED BY <2>1, <2>2 DEF HandlersExist
<1>15. \A n \in ready' : sender'[n] # Nobody
  BY <1>1 DEF LifeInv
<1>16. \A t \in deleted' : stack'[t] = <<>>
  BY <1>0, <1>1, <1>3 DEF LifeInv, TypeOK, Actor
<1> QED BY <1>6, <1>7, <1>8, <1>9, <1>11, <1>13, <1>14, <1>15, <1>16 DEF LifeInv

\* A message that is refused, or handed straight to its handler.
LEMMA LifeSettled ==
  ASSUME WakeInv, LifeInv, TypeOK', NEW a \in Actor, stack[a] # <<>>, Top(a).at \in {"idle", "run"},
         NEW m \in Msg, fate[m] = "new", NEW f \in Frame,
         \/ stack' = stack /\ fate' = [fate EXCEPT ![m] = "refused"]
         \/ /\ stack' = Invoke(a, f) /\ f.at = "run" /\ f.arg = m
            /\ fate' = [fate EXCEPT ![m] = "running"],
         UNCHANGED <<queues, sendlist, sender, ready, life>>
  PROVE  LifeInv'
<1> DEFINE g == Call("idle", Nobody)
<1>0. TypeOK /\ SentOnce
  BY DEF WakeInv
<1>1. g \in Frame /\ g.at = "idle" /\ g.at \notin InsidePoints \cup {"finish", "run"}
  BY CallTyped DEF PumpPoints, InsidePoints
<1> HIDE DEF g
<1>2. /\ UNCHANGED <<msgq, dmsgq, due, sendlist, sender, ready, deleted, destroyed>>
      /\ \A n \in Msg : fate'[n] # fate[n] => n = m /\ fate'[n] \in {"refused", "running"}
  BY <1>0 DEF queues, life, TypeOK
<1>3. sender[m] = Nobody
  BY <1>0 DEF SentOnce
<1>4. \A n \in Msg : fate'[n] # fate[n] =>
        /\ fate'[n] \notin {"new", "pending"}
        /\ \A t \in Thread : n \notin Range(sendlist'[t])
        /\ \A b \in Actor : ~(At(b, "send") /\ Top(b).arg = n)
        /\ fate'[n] = "running" => sender[n] = Nobody \/ fate[n] = "pending"
  BY <1>2, <1>3 DEF LifeInv, SendsQueued, SendsBegun
<1>5. \A t \in Thread :
        /\ \A n \in Queued(t)' : n \in Queued(t)
        /\ Range(sendlist'[t]) \subseteq Range(sendlist[t])
        /\ Distinct(sendlist[t]) => Distinct(sendlist'[t])
        /\ \A n \in Queued(t)' \cup Range(sendlist'[t]) :
             n \in Disposal \/ Of[n] \notin destroyed' \ destroyed
  BY <1>2 DEF Queued
<1>6. /\ \A b \in Actor, at \in InsidePoints : At(b, at) =>
            Top(b).arg \in Disposal \/ Of[Top(b).arg] \notin destroyed' \ destroyed
      /\ \A t \in deleted' : stack[t] = <<>>
      /\ ready' \ ready = {}
  BY <1>2 DEF LifeInv
<1>7. Top(a).at # "finish" /\ Top(a).at \notin SendPoints
  BY DEF SendPoints
<1>8. CASE stack' = stack
  <2>1. Move(a, g, g) /\ stack' # Return(a) /\ stack' # Split(a, g, g)
    BY <1>0, <1>1, <1>8, ShapesDiffer DEF Move
  <2>2. stack' = Replace(a, g) => Top(a).at # "run"
    <3>1. stack' = Replace(a, g) => Head(stack'[a]) = g
      BY <1>0, <1>1, ReplaceShape
    <3> QED BY <1>1, <1>8, <3>1 DEF Top
  <2> QED BY <1>1, <1>2, <1>4, <1>5, <1>6, <1>7, <2>1, <2>2, LifeKept
<1>9. CASE stack' = Invoke(a, f) /\ f.at = "run" /\ f.arg = m /\ fate' = [fate EXCEPT ![m] = "running"]
  <2>1. Move(a, f, g) /\ stack' # Return(a) /\ stack' # Replace(a, f)
    BY <1>0, <1>1, <1>9, ShapesDiffer DEF Move
  <2>2. stack' = Split(a, f, g) => Top(a).at # "run"
    <3>1. stack'[a] = <<f>> \o stack[a] /\ stack[a] \in Seq(Frame)
      BY <1>0, <1>9 DEF Invoke, TypeOK
    <3>2. Len(stack'[a]) = Len(stack[a]) + 1
      BY <3>1
    <3>3. stack'[a][2] = stack[a][1] /\ Top(a) = stack[a][1]
      BY <3>1 DEF Top
    <3>4. stack' = Split(a, f, g) => stack'[a][2] = g
      BY <1>0, <1>1, SplitShape
    <3> QED BY <1>1, <3>3, <3>4
  <2>3. fate'[f.arg] \notin {"new", "pending"} /\ f.at \notin InsidePoints \cup {"finish"}
    BY <1>0, <1>9 DEF InsidePoints, TypeOK
  <2> QED BY <1>1, <1>2, <1>4, <1>5, <1>6, <1>7, <1>9, <2>1, <2>2, <2>3, LifeKept
<1> QED BY <1>8, <1>9

\* What clients and handlers call keeps the invariant.
LEMMA LifeApplication ==
  ASSUME WakeInv, LifeInv, TypeOK', NEW a \in Actor, Application(a)
  PROVE  LifeInv'
<1> USE ThreadQueueAssumption
<1>0. TypeOK /\ Stacked
  BY DEF WakeInv
<1>1. ASSUME InApplication(a)
      PROVE  stack[a] # <<>> /\ Top(a).at \in {"idle", "run"}
  BY <1>0, <1>1, InApplicationTop
<1>2. Call("idle", Nobody) \in Frame
  BY CallTyped DEF PumpPoints
<1>3. ASSUME NEW m \in Msg, MayUse(a, m), Refuse(m) PROVE LifeInv'
  <2>1. /\ fate[m] = "new" /\ stack[a] # <<>> /\ Top(a).at \in {"idle", "run"}
        /\ stack' = stack /\ fate' = [fate EXCEPT ![m] = "refused"]
        /\ UNCHANGED <<queues, sendlist, sender, ready, life>>
    BY <1>1, <1>3 DEF MayUse, Refuse, sends
  <2> QED BY <1>2, <2>1, LifeSettled
<1>4. ASSUME NEW m \in Msg, Post(a, m) PROVE LifeInv'
  <2>1. CASE Refuse(m)
    BY <1>3, <1>4, <2>1 DEF Post
  <2>2. CASE ~Refuse(m)
    <3>1. PICK at \in {"post", "postDelayed"} : stack' = Invoke(a, Call(at, m))
      BY <1>4, <2>2 DEF Post
    <3>2. /\ fate[m] = "new" /\ stack[a] # <<>> /\ Top(a).at \in {"idle", "run"}
          /\ m \in Disposal \/ Of[m] \notin destroyed
          /\ fate' = [fate EXCEPT ![m] = "pending"]
          /\ UNCHANGED <<queues, sendlist, sender, ready, life>>
      BY <1>1, <1>4, <2>2 DEF Post, MayUse, sends
    <3>3. Call(at, m) \in Frame /\ Call(at, m).at \in InsidePoints /\ Call(at, m).arg = m
      BY CallTyped DEF MsgPoints, InsidePoints
    <3> QED BY <3>1, <3>2, <3>3, LifeBegun
  <2> QED BY <2>1, <2>2
<1>5. ASSUME NEW m \in Msg, Send(a, m) PROVE LifeInv'
  <2>1. CASE Refuse(m)
    BY <1>3, <1>5, <2>1 DEF Send
  <2>2. CASE ~Refuse(m) /\ a = Dest[m]
    <3>1. /\ fate[m] = "new" /\ stack[a] # <<>> /\ Top(a).at \in {"idle", "run"}
          /\ stack' = Invoke(a, Call("run", m))
          /\ fate' = [fate EXCEPT ![m] = "running"]
          /\ UNCHANGED <<queues, sendlist, sender, ready, life>>
      BY <1>1, <1>5, <2>2 DEF Send, MayUse, sends
    <3>2. Call("run", m) \in Frame /\ Call("run", m).at = "run" /\ Call("run", m).arg = m
      BY CallTyped DEF MsgPoints
    <3> QED BY <3>1, <3>2, LifeSettled
  <2>3. CASE ~Refuse(m) /\ a # Dest[m]
    <3>1. /\ fate[m] = "new" /\ stack[a] # <<>> /\ Top(a).at \in {"idle", "run"}
          /\ m \in Disposal \/ Of[m] \notin destroyed
          /\ stack' = Invoke(a, Call("send", m))
          /\ fate' = [fate EXCEPT ![m] = "pending"]
          /\ UNCHANGED <<queues, sendlist, sender, ready, life>>
      BY <1>1, <1>5, <2>3 DEF Send, MayUse, sends
    <3>2. /\ Call("send", m) \in Frame /\ Call("send", m).at \in InsidePoints
          /\ Call("send", m).arg = m
      BY CallTyped DEF MsgPoints, InsidePoints
    <3> QED BY <3>1, <3>2, LifeBegun
  <2> QED BY <2>1, <2>2, <2>3
<1>6. ASSUME NEW t \in Thread, Stop(a, t) \/ JoinStopped(a, t) PROVE LifeInv'
  <2> DEFINE f == Call("stop", t)
  <2>1. /\ stack[a] # <<>> /\ Top(a).at \in {"idle", "run"} /\ stack' = Invoke(a, f)
        /\ UNCHANGED <<queues, sendlist, sender, ready, fate, life>>
    BY <1>1, <1>6 DEF Stop, JoinStopped, InApplication, sends
  <2>2. f \in Frame /\ f.at = "stop"
    BY CallTyped DEF ThreadPoints
  <2> HIDE DEF f
  <2>3. /\ Move(a, f, f) /\ stack' # Return(a) /\ stack' # Replace(a, f)
        /\ f.at \notin InsidePoints \cup {"run", "finish"} /\ Top(a).at \notin SendPoints
    BY <1>0, <2>1, <2>2, ShapesDiffer DEF Move, InsidePoints, SendPoints
  <2>4. stack' # Split(a, f, f)
    <3>1. stack'[a] = <<f>> \o stack[a] /\ stack[a] \in Seq(Frame)
      BY <1>0, <2>1 DEF Invoke, TypeOK
    <3>2. stack'[a][2] = stack[a][1] /\ Top(a) = stack[a][1]
      BY <2>1, <3>1 DEF Top
    <3>3. stack' = Split(a, f, f) => stack'[a][2] = f
      BY <1>0, <2>1, <2>2, SplitShape
    <3> QED BY <2>1, <2>2, <3>2, <3>3
  <2> QED BY <2>1, <2>2, <2>3, <2>4, LifeQuiet
<1>7. ASSUME NEW h \in Handler, DestroyHandler(a, h) PROVE LifeInv'
  <2>1. /\ stack[a] # <<>> /\ stack' = stack /\ deleted' = deleted
        /\ destroyed' = destroyed \cup {h} /\ Clear(Thread \ deleted, MessagesOf(h))
        /\ \A m \in MessagesOf(h) : Dest[m] = a
        /\ NobodyInside(MessagesOf(h))
    BY <1>7 DEF DestroyHandler, At
  <2>2. a \notin deleted
    BY <2>1 DEF LifeInv
  <2>3. MessagesOf(h) \in SUBSET Msg /\ Thread \ deleted \in SUBSET Thread
    BY DEF MessagesOf
  <2>4. ASSUME NEW m \in Msg \ Disposal, Of[m] \in destroyed' \ destroyed PROVE m \in MessagesOf(h)
    BY <2>1, <2>4 DEF MessagesOf
  <2>5. ASSUME NEW t \in Thread, NEW m \in Queued(t) \cup Range(sendlist[t])
        PROVE  \/ m \in Disposal \/ Of[m] \notin destroyed' \ destroyed
               \/ t \in Thread \ deleted /\ m \in MessagesOf(h)
    <3>1. Dest[m] = t /\ m \in Msg
      BY <1>0, RangeTyped DEF LifeInv, HandlersExist, Queued, TypeOK
    <3> QED BY <2>1, <2>2, <2>4, <3>1
  <2>6. ASSUME NEW b \in Actor, NEW at \in InsidePoints, At(b, at)
        PROVE  Top(b).arg \in Disposal \/ Of[Top(b).arg] \notin destroyed' \ destroyed
    <3>1. at \in MsgPoints /\ at \in {"post", "postDelayed", "send"}
      BY DEF InsidePoints, MsgPoints
    <3>2. /\ Top(b).arg \in Msg /\ Top(b).at = at /\ Top(b) = stack[b][1] /\ Top(b) \in Frame
          /\ stack[b] \in Seq(Frame) /\ stack[b] # <<>>
      BY <1>0, <2>6, <3>1, TopTyped
    <3>3. 1 \in DOMAIN stack[b] /\ stack[b][1] = Call(at, Top(b).arg)
      BY <3>2 DEF Call, Frame
    <3>4. OnStack(b, at, Top(b).arg)
      BY <3>3 DEF OnStack
    <3>5. Top(b).arg \notin MessagesOf(h)
      BY <2>1, <3>1, <3>4 DEF NobodyInside
    <3> QED BY <2>4, <3>2, <3>5
  <2>7. \A t \in deleted' : stack[t] = <<>>
    BY <2>1 DEF LifeInv
  <2> QED BY <2>1, <2>3, <2>5, <2>6, <2>7, LifeCleared
<1> QED BY <1>4, <1>5, <1>6, <1>7 DEF Application

\* The invariant of the life of a message is inductive.
LEMMA KeepsLifeInv ==
  ASSUME WakeInv, LifeInv, [Next]_vars
  PROVE  LifeInv'
<1>1. TypeOK'
  BY KeepsType DEF WakeInv
<1>2. CASE Next
  BY <1>1, <1>2, LifeStep, LifePump, LifeTrigger, LifeApplication DEF Next
<1>3. CASE UNCHANGED vars
  <2>1. UNCHANGED <<msgq, dmsgq, due, sendlist, sender, ready, stack, fate, deleted, destroyed>>
    BY <1>3 DEF vars, queues, sends, life
  <2> QED BY <2>1 DEF LifeInv, SendsWait, FinishFollowsRun, RunsStarted, SendsQueued, SendsBegun,
                      PostsUnsent, HandlersExist, Unsent, Queued, Sending, OnStack, At, Top
<1> QED BY <1>2, <1>3

\* No message has been posted or sent when the threads are started.
LEMMA InitLifeInv ==
  ASSUME Init
  PROVE  LifeInv
<1> USE ThreadQueueAssumption
<1>1. ASSUME NEW a \in Actor
      PROVE  /\ DOMAIN stack[a] = {1} /\ stack[a] # <<>>
             /\ stack[a][1].at \in {"get", "idle"} /\ Top(a).at \in {"get", "idle"}
  BY DEF Init, Call, Top, Actor
<1>2. /\ \A t \in Thread : Queued(t) = {} /\ Range(sendlist[t]) = {} /\ sendlist[t] = <<>>
      /\ \A m \in Msg : sender[m] = Nobody
      /\ ready = {} /\ deleted = {}
  BY DEF Init, Queued, Range
<1>3. SendsWait /\ SendsQueued
  BY <1>2 DEF SendsWait, SendsQueued, Distinct
<1>4. FinishFollowsRun /\ RunsStarted
  BY <1>1 DEF FinishFollowsRun, RunsStarted
<1>5. SendsBegun /\ PostsUnsent /\ HandlersExist
  BY <1>1, <1>2 DEF SendsBegun, PostsUnsent, HandlersExist, InsidePoints, At
<1> QED BY <1>2, <1>3, <1>4, <1>5 DEF LifeInv

\* A step that hands a message over takes it from a queue of its thread, or is
\* the Send of that thread itself.
LEMMA DispatchedExists ==
  ASSUME WakeInv, LifeInv, [Next]_vars, NEW m \in Msg \ Disposal,
         fate[m] # "running", fate'[m] = "running"
  PROVE  Of[m] \notin destroyed
<1> USE ThreadQueueAssumption
<1>0. TypeOK
  BY DEF WakeInv
<1>1. ASSUME NEW a \in Actor, Step(a) PROVE FALSE
  <2>1. CASE HandlerReturns(a)
    BY <1>0, <2>1 DEF HandlerReturns, TypeOK
  <2>2. CASE DeleteThread(a)
    BY <1>0, <2>2 DEF DeleteThread, Clear, TypeOK
  <2>3. CASE ~HandlerReturns(a) /\ ~DeleteThread(a)
    <3>1. fate' = fate
      BY <1>1, <2>3 DEF Step, PostLocked, PostDelayedLocked, SendLocked, SendWakeUp, SendTest,
                        SendWait, StopWakeUp, Join
    <3> QED BY <3>1
  <2> QED BY <2>1, <2>2, <2>3
<1>2. ASSUME NEW a \in Actor, Application(a) PROVE Of[m] \notin destroyed
  <2>1. ASSUME NEW n \in Msg, Post(a, n) PROVE FALSE
    BY <1>0, <2>1 DEF Post, Refuse, TypeOK
  <2>2. ASSUME NEW n \in Msg, Send(a, n) PROVE Of[m] \notin destroyed
    <3>1. n = m
      BY <1>0, <2>2 DEF Send, Refuse, TypeOK
    <3> QED BY <2>2, <3>1 DEF Send, MayUse
  <2>3. ASSUME NEW t \in Thread, Stop(a, t) \/ JoinStopped(a, t) PROVE FALSE
    BY <2>3 DEF Stop, JoinStopped
  <2>4. ASSUME NEW h \in Handler, DestroyHandler(a, h) PROVE FALSE
    BY <1>0, <2>4 DEF DestroyHandler, Clear, TypeOK
  <2> QED BY <1>2, <2>1, <2>2, <2>3, <2>4 DEF Application
<1>3. ASSUME NEW t \in Thread, Pump(t) PROVE Of[m] \notin destroyed
  <2>1. CASE ReceiveSend(t)
    <3>1. sendlist[t] # <<>> /\ m = Head(sendlist[t])
      BY <1>0, <2>1 DEF ReceiveSend, TypeOK
    <3>2. sendlist[t] \in Seq(Msg)
      BY <1>0 DEF TypeOK
    <3>3. m \in Range(sendlist[t])
      BY <3>1, <3>2, RangeTail
    <3> QED BY <3>3 DEF LifeInv, HandlersExist
  <2>2. CASE GetQueue(t)
    <3> DEFINE q == msgq[t] \o due[t]
    <3>1. q # <<>> /\ m = Head(q)
      BY <1>0, <2>2 DEF GetQueue, TypeOK
    <3>2. msgq[t] \in Seq(Msg) /\ due[t] \in Seq(Msg) /\ q \in Seq(Msg)
      BY <1>0, ConcatProperties DEF TypeOK
    <3>3. Range(q) \subseteq Range(msgq[t]) \cup Range(due[t])
      BY <3>2, RangeJoined
    <3> HIDE DEF q
    <3>4. m \in Range(q)
      BY <3>1, <3>2, RangeTail
    <3> QED BY <3>3, <3>4 DEF LifeInv, HandlersExist, Queued
  <2>3. CASE ~ReceiveSend(t) /\ ~GetQueue(t)
    <3>1. fate' = fate
      BY <1>3, <2>3 DEF Pump, ReceiveSends, SendFinished, SendReply, Get, GetStopped, GetWait
    <3> QED BY <3>1
  <2> QED BY <2>1, <2>2, <2>3
<1>4. ASSUME NEW t \in Thread, Trigger(t) PROVE FALSE
  BY <1>4 DEF Trigger
<1>5. CASE UNCHANGED vars
  BY <1>5 DEF vars
<1> QED BY <1>1, <1>2, <1>3, <1>4, <1>5 DEF Next

\* Both invariants hold of every behaviour.
LEMMA Lives == Spec => [](WakeInv /\ LifeInv)
<1>1. Init => WakeInv /\ LifeInv
  BY InitWakeInv, InitLifeInv
<1>2. WakeInv /\ LifeInv /\ [Next]_vars => (WakeInv /\ LifeInv)'
  BY KeepsWakeInv, KeepsLifeInv
<1> QED BY <1>1, <1>2, PTL DEF Spec

\* A Send is synchronous: its sender is inside it until its handler is done,
\* whatever the sender receives meanwhile and whoever is deleted.
THEOREM SendsAreSynchronous == Spec => []SendIsSynchronous
<1>1. WakeInv /\ LifeInv => SendIsSynchronous
  BY DEF LifeInv, SendsWait, SendIsSynchronous
<1> QED BY <1>1, Lives, PTL

\* No message is handed to a handler whose destructor has run.
THEOREM DestroyedGetsNothing == Spec => NoDispatchToDestroyed
<1>1. WakeInv /\ LifeInv /\ [Next]_vars
        => [\A m \in Msg \ Disposal :
              fate[m] # "running" /\ fate'[m] = "running" => Of[m] \notin destroyed]_vars
  BY DispatchedExists
<1> QED BY <1>1, Lives, PTL DEF Spec, NoDispatchToDestroyed

=============================================================================
