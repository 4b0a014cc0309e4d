------------------------------- MODULE P2PChannel -------------------------------
(* One P2PTransportChannel with its ports, its connections (pairs of a port and *)
(* a remote candidate) and their STUN pings, on the worker thread; the peer     *)
(* pings and answers on the paths that are up.  Time is the choice of what has  *)
(* timed out; the latency of connections is the choice of the quickest.         *)
EXTENDS Integers, SequencesExt

CONSTANTS
  Port, Remote,      \* ports the allocator makes; candidates of the peer
  SessionOf,         \* SessionOf[p]: which allocator session makes p
  Initial,           \* ports a session makes before StartGetAllPorts
  NetworkOf,         \* NetworkOf[p]
  Preference,        \* Preference[x]: of a port or a candidate
  GenerationOf,      \* GenerationOf[r]: the session of the peer r comes from
  Sessions,          \* allocator sessions at most
  MaxFailures,       \* paths that fail and pings that are refused, at most
  Refused,           \* pairs whose pings the peer may refuse for good
  Resets,            \* Reset may be called
  Prompt             \* the thread is not held up for seconds

Pair == Port \X Remote

ASSUME P2PChannelAssumption ==
  /\ IsFiniteSet(Port) /\ IsFiniteSet(Remote)
  /\ SessionOf \in [Port -> 0 .. Sessions - 1]
  /\ Initial \subseteq Port
  /\ Port \subseteq DOMAIN NetworkOf
  /\ Preference \in [Port \cup Remote -> Nat \ {0}]
  /\ GenerationOf \in [Remote -> Nat]
  /\ {Sessions, MaxFailures} \subseteq Nat
  /\ Refused \subseteq Pair
  /\ {Resets, Prompt} \subseteq BOOLEAN

VARIABLES
  chan,     \* the fields of the channel and what it has posted to itself
  conn,     \* conn[c]: the connection of the pair c
  port,     \* port[p]: its lifetime_
  up,       \* the pairs whose packets get through
  failures

vars == <<chan, conn, port, up, failures>>

NoPair == <<"none">>

NoConnection ==
  [on |-> FALSE, read |-> "timeout", write |-> "connect", pruned |-> FALSE,
   asked |-> FALSE, unanswered |-> FALSE, delete |-> FALSE, made |-> FALSE]

\* The state that Connect leaves.
Fresh ==
  [list |-> {}, best |-> NoPair, writable |-> FALSE, readable |-> FALSE,
   was_writable |-> FALSE, was_timed_out |-> TRUE, sort |-> FALSE,
   waiting |-> TRUE, allocate |-> FALSE, pinging |-> FALSE,
   remote |-> {}, getting |-> <<>>, order |-> <<>>, rested |-> TRUE]

World == [chan |-> chan, conn |-> conn, port |-> port]
Becomes(w) == chan' = w.chan /\ conn' = w.conn /\ port' = w.port

Init ==
  /\ chan = Fresh
  /\ conn = [c \in Pair |-> NoConnection]
  /\ port = [p \in Port |-> "none"]
  /\ up = Pair
  /\ failures = 0

Live(w) == {c \in Pair : w.conn[c].on}
PortLives(w, p) == w.port[p] \notin {"none", "gone"}

-----------------------------------------------------------------------------
(* Connection                                                                *)

\* SignalStateChange: the channel sorts, once the stack is unrolled.
RequestSort(w) == [w EXCEPT !.chan.sort = TRUE]

\* CheckTimeout of a connection that has changed its state.
CheckTimeout(w, c) ==
  [w EXCEPT !.conn[c].delete = @ \/ (w.conn[c].read = "timeout" /\ w.conn[c].write = "timeout")]

SetRead(w, c, value) ==
  IF w.conn[c].read = value THEN w
  ELSE CheckTimeout(RequestSort([w EXCEPT !.conn[c].read = value]), c)

SetWrite(w, c, value) ==
  IF w.conn[c].write = value THEN w
  ELSE CheckTimeout(RequestSort([w EXCEPT !.conn[c].write = value]), c)

ReceivedPing(w, c) == SetRead(w, c, "readable")

\* If timed out sending writability checks, start up again.
StartAgain(w, c) ==
  IF ~w.conn[c].pruned /\ w.conn[c].write = "timeout" THEN SetWrite(w, c, "connect") ELSE w

\* What Op does to each connection of S, which it may ask to be sorted.
Each(w, S, Op(_, _)) ==
  LET done == [c \in S |-> Op(w, c)]
  IN [w EXCEPT !.conn = [c \in Pair |-> IF c \in S THEN done[c].conn[c] ELSE @[c]],
               !.chan.sort = @ \/ \E c \in S : done[c].chan.sort]

Prune(w, c) ==
  IF w.conn[c].pruned THEN w
  ELSE SetWrite([w EXCEPT !.conn[c].pruned = TRUE, !.conn[c].asked = FALSE], c, "timeout")

\* What UpdateState finds too old: nothing, or one thing on one connection.
\* Pings on a path that is up are answered before they are too old.
\* What is posted without a delay is taken before anything is too old.
Ageing ==
  IF Prompt /\ (chan.sort \/ \E c \in Pair : conn[c].delete) THEN {NoPair}
  ELSE {NoPair} \cup {<<c, "read">> : c \in Live(World)}
                \cup {<<c, "write">> : c \in Live(World) \ up}

UpdateState(w, age) ==
  IF age = NoPair THEN w
  ELSE LET c == age[1] IN
    CASE age[2] = "read" -> SetRead(w, c, "timeout")
      [] age[2] = "write" /\ w.conn[c].unanswered ->
           SetWrite(w, c, IF w.conn[c].write = "writable" THEN "connect" ELSE "timeout")
      [] OTHER -> w

-----------------------------------------------------------------------------
(* SortConnections                                                           *)

Combined(c) == Preference[c[1]] * Preference[c[2]]
Weight(state) == CASE state = "writable" -> 2 [] state = "connect" -> 1 [] OTHER -> 0

\* ConnectionCompare, where the connections called quick have the lower latency.
Before(w, quick, a, b) ==
  LET wa == Weight(w.conn[a].write) wb == Weight(w.conn[b].write)
  IN \/ wa > wb
     \/ wa = wb /\ Combined(a) > Combined(b)
     \/ wa = wb /\ Combined(a) = Combined(b) /\ a \in quick /\ b \notin quick

Top(w, quick, S) ==
  IF S = {} THEN NoPair ELSE CHOOSE a \in S : \A b \in S : ~Before(w, quick, b, a)

OnNetwork(S, n) == {c \in S : NetworkOf[c[1]] = n}

\* GetBestConnectionOnNetwork
Primier(w, quick, n) ==
  IF w.chan.best # NoPair /\ NetworkOf[w.chan.best[1]] = n
  THEN w.chan.best ELSE Top(w, quick, OnNetwork(Live(w), n))

\* Mutant: the one that the others are pruned for is pruned too.
OutdoneAll(w, quick) ==
  LET primier == [n \in {NetworkOf[c[1]] : c \in Live(w)} |-> Primier(w, quick, n)]
  IN {c \in Live(w) : LET d == primier[NetworkOf[c[1]]]
                      IN w.conn[d].write = "writable" /\ Combined(d) >= Combined(c)}

\* Every other connection on a network with a writable one goes, unless it is
\* preferred.
Outdone(w, quick) ==
  LET primier == [n \in {NetworkOf[c[1]] : c \in Live(w)} |-> Primier(w, quick, n)]
  IN {c \in Live(w) : LET d == primier[NetworkOf[c[1]]]
                      IN c # d /\ w.conn[d].write = "writable" /\ Combined(d) >= Combined(c)}

OnAllocate(w) == [w EXCEPT !.chan.waiting = TRUE]

\* The number of sessions, and StopGetAllPorts and StartGetAllPorts for all.
StopGetAllPorts(w) == [w EXCEPT !.chan.getting = [g \in DOMAIN @ |-> FALSE]]
StartGetAllPorts(w) ==
  [w EXCEPT !.chan.getting = [g \in DOMAIN @ |-> TRUE],
            !.port = [p \in Port |-> IF @[p] = "prestart" THEN "pretimeout" ELSE @[p]]]

HandleWritable(w) ==
  LET stopped == IF w.chan.writable THEN w
                 ELSE [StopGetAllPorts(w) EXCEPT !.chan.allocate = FALSE]
  IN [stopped EXCEPT !.chan.was_writable = TRUE, !.chan.was_timed_out = FALSE,
                     !.chan.writable = TRUE]

\* Mutant: was_writable is cleared before it is looked at.
HandleNotWritableCleared(w) ==
  [w EXCEPT !.chan.was_writable = FALSE, !.chan.was_timed_out = FALSE, !.chan.writable = FALSE]

HandleNotWritable(w) ==
  [(IF w.chan.was_writable THEN OnAllocate(w) ELSE w) EXCEPT
     !.chan.was_writable = FALSE, !.chan.was_timed_out = FALSE, !.chan.writable = FALSE]

HandleAllTimedOut(w) ==
  [(IF w.chan.was_timed_out THEN w ELSE OnAllocate(w)) EXCEPT
     !.chan.was_timed_out = TRUE, !.chan.was_writable = FALSE, !.chan.writable = FALSE]

SortConnections(w, quick, age) ==
  LET w0 == [UpdateState(w, age) EXCEPT !.chan.sort = FALSE]
      w1 == [w0 EXCEPT !.chan.best = Top(w0, quick, Live(w0))]
      w2 == Each(w1, Outdone(w1, quick), Prune)
      some(state) == \E c \in Live(w2) : w2.conn[c].write = state
      w3 == IF some("writable") THEN HandleWritable(w2)
            ELSE IF some("connect") THEN HandleNotWritable(w2)
            ELSE HandleAllTimedOut(w2)
  IN [w3 EXCEPT !.chan.readable = \E c \in Live(w3) : w3.conn[c].read = "readable"]

\* Latency tells apart what Combined does not: the quickest of each network
\* among those that have an equal.
Latencies(w) ==
  LET tied == {a \in Live(w) : \E b \in Live(w) \ {a} : Combined(a) = Combined(b)}
  IN {S \in SUBSET tied : \A a, b \in S : NetworkOf[a[1]] = NetworkOf[b[1]] => a = b}

Sorted(w) == \E quick \in Latencies(w), age \in Ageing : Becomes(SortConnections(w, quick, age))

-----------------------------------------------------------------------------
(* Ports and candidates                                                      *)

\* A connection for each pair of S that has none; the peer's ping makes it readable.
CreateConnection(w, S, readable) ==
  LET new == {c \in S : ~w.conn[c].on}
      made == [w EXCEPT !.conn = [c \in Pair |-> IF c \in new THEN [NoConnection EXCEPT !.on = TRUE, !.made = TRUE]
                                                 ELSE @[c]],
                        !.chan.order = SetToSeq(new) \o @]
  IN IF readable THEN Each(made, S, ReceivedPing) ELSE made

\* Older generations are forgotten; the first candidate starts the allocation
\* of every port.
RememberRemoteCandidate(w, r) ==
  LET w1 == [w EXCEPT !.chan.remote = {q \in @ : GenerationOf[q] >= GenerationOf[r]} \cup {r}]
  IN IF w.chan.pinging THEN w1
     ELSE [StartGetAllPorts(w1) EXCEPT !.chan.pinging = TRUE]

\* origin: {}, or the port where r was heard of, which need not be in the list.
CreateConnections(w, r, origin, readable) ==
  RememberRemoteCandidate(CreateConnection(w, (w.chan.list \cup origin) \X {r}, readable), r)

\* Mutant: the candidates that came before the port are not tried.
OnPortReadyAlone(p) ==
  /\ port[p] = "none" /\ SessionOf[p] < Len(chan.getting)
  /\ LET getting == chan.getting[SessionOf[p] + 1]
     IN /\ getting \/ p \in Initial
        /\ Sorted([World EXCEPT !.port[p] = IF getting THEN "pretimeout" ELSE "prestart",
                                !.chan.list = @ \cup {p}])
  /\ UNCHANGED <<up, failures>>

OnPortReady(p) ==
  /\ port[p] = "none" /\ SessionOf[p] < Len(chan.getting)
  /\ LET getting == chan.getting[SessionOf[p] + 1]
         w == [World EXCEPT !.port[p] = IF getting THEN "pretimeout" ELSE "prestart",
                            !.chan.list = @ \cup {p}]
     IN /\ getting \/ p \in Initial
        /\ Sorted(CreateConnection(w, {p} \X chan.remote, FALSE))
  /\ UNCHANGED <<up, failures>>

\* A candidate arrives with the signaling; candidates keep their order, and
\* one may come twice.
OnChannelMessage(r) ==
  /\ \A q \in chan.remote : GenerationOf[q] <= GenerationOf[r]
  /\ Sorted(CreateConnections(World, r, {}, FALSE))
  /\ UNCHANGED <<up, failures>>

\* The peer pings: on a connection, or from a candidate known to the channel to
\* a port that has no connection with it.
PingArrives(c) ==
  /\ c \in up /\ PortLives(World, c[1])
  /\ IF conn[c].on THEN Becomes(StartAgain(ReceivedPing(World, c), c))
     ELSE /\ c[2] \in chan.remote
          /\ Sorted(CreateConnections(World, c[2], {c[1]}, TRUE))
  /\ UNCHANGED <<up, failures>>

\* Data arrives on a connection that is readable.
OnReadPacket(c) ==
  /\ c \in up /\ conn[c].on /\ conn[c].read = "readable"
  /\ Becomes(StartAgain(World, c))
  /\ UNCHANGED <<up, failures>>

-----------------------------------------------------------------------------
(* Pings                                                                     *)

IsPingable(w, c) ==
  \/ w.conn[c].write # "timeout"
  \/ ~w.chan.writable /\ w.conn[c].read # "timeout"

\* The one whose last ping is the oldest.
Oldest(w) ==
  LET i == SelectInSeq(w.chan.order, LAMBDA c : w.conn[c].on /\ IsPingable(w, c))
  IN IF i = 0 THEN NoPair ELSE w.chan.order[i]

\* Mutant: the best one is pinged first, writable or not.
FindNextPingableConnectionBest(w) ==
  IF w.chan.best # NoPair THEN w.chan.best ELSE Oldest(w)

\* The best one comes first when it is writable and was not pinged for two turns.
FindNextPingableConnection(w) ==
  IF w.chan.best # NoPair /\ w.conn[w.chan.best].write = "writable" /\ w.chan.rested
  THEN w.chan.best ELSE Oldest(w)

Ping(w, c) ==
  [w EXCEPT !.conn[c].asked = TRUE, !.conn[c].unanswered = TRUE,
            !.chan.order = Append(RemoveFirst(@, c), c), !.chan.rested = c # w.chan.best]

\* MSG_PING, which posts itself again.
OnPing(age) ==
  /\ LET w == UpdateState(World, age)
         c == FindNextPingableConnection(w)
     IN Becomes(IF c = NoPair THEN w ELSE Ping(w, c))
  /\ UNCHANGED <<up, failures>>

PingChanges ==
  LET c == FindNextPingableConnection(World) IN c # NoPair /\ Ping(World, c) # World

Answerable(c) == conn[c].on /\ conn[c].asked /\ c \in up

\* CheckResponse: the answer to a ping that is still waited for.
OnConnectionRequestResponse(c) ==
  /\ Answerable(c)
  /\ Becomes([SetWrite(World, c, "writable") EXCEPT !.conn[c].asked = FALSE,
                                                    !.conn[c].unanswered = FALSE])
  /\ UNCHANGED <<up, failures>>

\* An error that no retry helps.
OnConnectionRequestErrorResponse(c) ==
  /\ c \in Refused /\ Answerable(c) /\ failures < MaxFailures
  /\ Becomes([SetWrite(World, c, "timeout") EXCEPT !.conn[c].asked = FALSE])
  /\ failures' = failures + 1
  /\ UNCHANGED up

-----------------------------------------------------------------------------
(* The other messages                                                        *)

\* MSG_SORT
OnSort == chan.sort /\ Sorted(World) /\ UNCHANGED <<up, failures>>

\* A port that is old enough goes when it has no connection.
CheckPort(w, p) ==
  IF w.port[p] = "posttimeout" /\ \A c \in Live(w) : c[1] # p
  THEN [w EXCEPT !.port[p] = "gone", !.chan.list = @ \ {p}] ELSE w

\* Mutant: the best connection is deleted and stays the best.
OnDeleteBest(c) ==
  /\ conn[c].delete
  /\ Becomes(CheckPort([World EXCEPT !.conn[c] = [NoConnection EXCEPT !.made = TRUE],
                                     !.chan.order = RemoveFirst(@, c)], c[1]))
  /\ UNCHANGED <<up, failures>>

\* MSG_DELETE of a connection: the channel forgets it, then the port.
OnDelete(c) ==
  /\ conn[c].delete
  /\ LET w1 == [World EXCEPT !.conn[c] = [NoConnection EXCEPT !.made = TRUE],
                             !.chan.order = RemoveFirst(@, c)]
         w2 == IF chan.best = c THEN RequestSort([w1 EXCEPT !.chan.best = NoPair]) ELSE w1
     IN Becomes(CheckPort(w2, c[1]))
  /\ UNCHANGED <<up, failures>>

\* MSG_CHECKTIMEOUT of a port
OnPortTimeout(p) ==
  /\ port[p] = "pretimeout"
  /\ Becomes(CheckPort([World EXCEPT !.port[p] = "posttimeout"], p))
  /\ UNCHANGED <<up, failures>>

\* MSG_ALLOCATE
OnAllocateMessage ==
  /\ chan.allocate
  /\ Becomes([OnAllocate(World) EXCEPT !.chan.allocate = FALSE])
  /\ UNCHANGED <<up, failures>>

\* AddAllocatorSession: the ports of earlier sessions are no more tried.
OnSignalingReady ==
  /\ chan.waiting /\ Len(chan.getting) < Sessions
  /\ Becomes([World EXCEPT !.chan.waiting = FALSE, !.chan.allocate = TRUE, !.chan.list = {},
                           !.chan.getting = Append(@, chan.pinging)])
  /\ UNCHANGED <<up, failures>>

Reset ==
  /\ Resets
  /\ Becomes([chan |-> Fresh, conn |-> [c \in Pair |-> NoConnection],
              port |-> [p \in Port |-> "none"]])
  /\ UNCHANGED <<up, failures>>

PathFails(c) ==
  /\ c \in up /\ failures < MaxFailures
  /\ up' = up \ {c} /\ failures' = failures + 1
  /\ UNCHANGED <<chan, conn, port>>

Next ==
  \/ \E p \in Port : OnPortReady(p) \/ OnPortTimeout(p)
  \/ \E r \in Remote : OnChannelMessage(r)
  \/ \E c \in Pair : \/ PingArrives(c) \/ OnReadPacket(c) \/ OnDelete(c) \/ PathFails(c)
                     \/ OnConnectionRequestResponse(c) \/ OnConnectionRequestErrorResponse(c)
  \/ \E age \in Ageing : OnPing(age)
  \/ OnSort \/ OnAllocateMessage \/ OnSignalingReady \/ Reset

Spec == Init /\ [][Next]_vars

\* Weak fairness of the thread's turns and of the answers on paths that are up,
\* with what enables a step that changes something said by itself.
FairSpec ==
  /\ Spec
  /\ []<>~chan.sort \/ []<><<OnSort>>_vars
  /\ []<>~PingChanges \/ []<><<OnPing(NoPair)>>_vars
  /\ \A c \in Pair : \/ []<>~Answerable(c)
                     \/ []<><<OnConnectionRequestResponse(c)>>_vars

-----------------------------------------------------------------------------
(* Properties                                                                *)

\* A port the channel still uses lives, and so does the best connection, which
\* SendPacket goes through from any thread; connections do not outlive ports.
NothingDangles ==
  /\ chan.list \subseteq {p \in Port : PortLives(World, p)}
  /\ chan.best \in Live(World) \cup {NoPair}
  /\ ToSet(chan.order) = Live(World) /\ IsInjective(chan.order)
  /\ chan.remote \subseteq Remote
  /\ \A c \in Live(World) : PortLives(World, c[1])

BestIsWritable == chan.best # NoPair /\ conn[chan.best].write = "writable"

\* What the channel says of its writability is true of its best connection, or a
\* sort is under way (UpdateChannelState asserts it at the end of a sort).
WritableFollows == chan.writable # BestIsWritable => chan.sort

\* Whatever order ports and candidates come in, each of the channel's ports was
\* tried with each candidate it remembers.
EveryPairTried ==
  \A p \in chan.list, r \in chan.remote : conn[<<p, r>>].made

\* A channel that is not writable waits for the signaling to allocate new ports
\* or has its timer set to do so, whatever it went through.
NeverGivesUp == ~chan.writable => chan.waiting \/ chan.allocate

\* Sorting, pruning and deleting connections never leave the channel without a
\* writable one while a writable one's path is up (one that waits for its
\* MSG_DELETE is lost: see DeletedWhenDead).
NeverStranded ==
  [][\A c \in up \ Refused :
       conn[c].write = "writable" /\ ~conn[c].delete /\ chan' # Fresh =>
         \E d \in Pair : conn'[d].write = "writable"]_vars

NothingNew == <>[][\A c \in Pair : conn'[c].on => conn[c].on]_vars

\* No connection starves for pings: while one that is not pruned has a path that
\* is up, the channel becomes writable.
WritableInTheEnd ==
  \A c \in Pair \ Refused :
    NothingNew /\ <>[](conn[c].on /\ ~conn[c].pruned /\ c \in up) => []<>chan.writable

\* port.cc:807-809, "if we don't really want it, we can always prune it again".
\* Not so: Prune does nothing to a connection that was pruned before.
PrunedStaysDown ==
  ~chan.sort /\ BestIsWritable =>
    \A c \in OnNetwork(Live(World), NetworkOf[chan.best[1]]) \ {chan.best} :
      Combined(c) <= Combined(chan.best) => conn[c].write = "timeout"

\* port.cc:835-838: only a connection that can contribute no more is deleted.
\* Not so: MSG_DELETE is not withdrawn when a ping or an answer comes before it.
DeletedWhenDead ==
  [][\A c \in Pair : conn[c].on /\ ~conn'[c].on /\ chan' # Fresh =>
       conn[c].read = "timeout" /\ conn[c].write = "timeout"]_vars

\* p2ptransportchannel.cc:652, "Stop further allocations.".  Not so when the
\* signaling was already asked: the answer starts a session and its timer.
StopsAllocating == [][chan.writable /\ chan'.writable => chan'.getting = chan.getting]_vars

=============================================================================
