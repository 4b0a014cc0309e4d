--------------------------------- MODULE Relay ---------------------------------
(***************************************************************************)
(* cricket::RelayPort and its RelayEntry objects, with the AllocateRequest   *)
(* of each (a StunRequest), and the cricket::RelayServer objects they talk   *)
(* to.  The port has an entry, with a socket of its own, for each peer it    *)
(* sends to; an entry allocates on one server of the port's list at a time   *)
(* and moves on to the next when it gets no answer.  Once client and server  *)
(* have "locked" an entry to its peer, data goes between them unwrapped.     *)
(*                                                                         *)
(* One username, hence at most one binding a server.  A step is one packet   *)
(* or one message of a thread, with everything it calls.                     *)
(***************************************************************************)
EXTENDS Naturals, Sequences, FiniteSets, FiniteSetsExt

CONSTANTS Peer,        \* the external addresses the port talks to
          AnyAddress,  \* the address of an entry that is for no peer yet
          Proto,       \* the protocol of each server of server_addr_, in order
          Sends,       \* how often an allocate is sent (5 in the code)
          MaxInNet,    \* bound on the data packets on their way
          Cases        \* the cases to start from: the first server the port tries, the
                       \* peers that take part, what may go wrong and how often

ASSUME RelayAssumption ==
  /\ IsFiniteSet(Peer) /\ AnyAddress \notin Peer
  /\ Proto \in Seq({"udp", "tcp"}) /\ Proto # <<>>
  /\ {Sends, MaxInNet} \subseteq Nat
  /\ Cases \subseteq [first : 1 .. Len(Proto), peers : SUBSET Peer, faults : Nat,
                      kinds : SUBSET {"loss", "late", "down", "forget"}]

VARIABLES
  port,     \* the RelayPort
  relay,    \* relay[s]: the RelayServer at server_addr_[s]
  net,      \* the packets on their way
  case,     \* the case, in which no more than case.faults faults are left
  astray    \* history: a packet was taken for one from or for another peer

vars == <<port, relay, net, case, astray>>

Server == 1 .. Len(Proto)
Entry  == 1 .. Cardinality(Peer)
Id     == 1 .. 4

\* A StunRequest: delayed until the next keep-alive, then sent up to Sends times.
Request == [id : Id, sends : 0 .. Sends, delayed : BOOLEAN]

RelayEntry ==
  [addr      : Peer \cup {AnyAddress},        \* ext_addr_
   server    : 1 .. Len(Proto) + 1,    \* server_index_
   socket    : {"none", "connecting", "open"},
   connected : BOOLEAN,
   locked    : BOOLEAN,
   lockedAt  : {0} \cup Server,        \* history: the server that said so, if it still knows
   requests  : SUBSET Request]

\* internal: a connection for each entry heard of, in order.  external: the peers with
\* a connection; open: those of them that are locked, "allow outgoing packets".
Binding ==
  [used     : BOOLEAN,   \* last_used_ is later than the last check of the lifetime
   checked  : BOOLEAN,   \* MSG_LIFETIME_TIMER is posted
   internal : Seq([entry : Entry, locked : BOOLEAN, dest : Peer \cup {AnyAddress}]),
   external : SUBSET Peer,
   open     : SUBSET Peer]

NoBinding == [used |-> FALSE, checked |-> FALSE, internal |-> <<>>, external |-> {}, open |-> {}]

\* peer: whom the data is from or for, also where the packet does not say so.
Packet ==
  [kind   : {"allocate", "send", "raw",                  \* to the server's internal socket
             "allocated", "locked", "data", "rawdata",   \* to the entry's socket
             "ping", "plain"},                           \* to the server's external socket
   server : Server,
   entry  : Entry \cup {0},
   peer   : Peer \cup {AnyAddress},
   id     : Id \cup {0},
   lock   : BOOLEAN]

Inward   == {"allocate", "send", "raw"}
Outward  == {"allocated", "locked", "data", "rawdata"}
External == {"ping", "plain"}
IsData(m) == m.kind \notin {"allocate", "allocated"}

Fault(kind) ==
  /\ kind \in case.kinds /\ case.faults > 0
  /\ case' = [case EXCEPT !.faults = @ - 1]

-----------------------------------------------------------------------------
(* RelayEntry and its requests.                                              *)

NewEntry(addr, s) ==
  [addr |-> addr, server |-> s, socket |-> "none", connected |-> FALSE, locked |-> FALSE,
   lockedAt |-> 0, requests |-> {}]

\* StunRequestManager::SendDelayed; the id is random: one that nobody else uses.
NewRequest(e, i, delayed) ==
  LET taken == {r.id : r \in e.requests} \cup {m.id : m \in {n \in net : n.entry = i}}
      free  == CHOOSE k \in Id \ taken : TRUE
  IN  [e EXCEPT !.requests = @ \cup {[id |-> free, sends |-> 0, delayed |-> delayed]}]

\* RelayEntry::Connect; "Out of relay server connections" leaves it without a socket.
Connect(e, i) ==
  IF e.server > Len(Proto) THEN e
  ELSE IF Proto[e.server] = "tcp" THEN [e EXCEPT !.socket = "connecting"]
  ELSE NewRequest([e EXCEPT !.socket = "open"], i, FALSE)

\* Mutant: the same server is tried again.
HandleConnectFailureStays(e, i) ==
  Connect([e EXCEPT !.connected = FALSE, !.socket = "none", !.requests = {}], i)

\* "Try a different server address"; locked_ is left as it is.
HandleConnectFailure(e, i) ==
  Connect([e EXCEPT !.connected = FALSE, !.socket = "none", !.requests = {},
                    !.server = @ + 1], i)

\* PrepareAddress
Init ==
  /\ case \in Cases
  /\ net = {}
  /\ port = [open |-> TRUE, published |-> {},
             entries |-> <<Connect(NewEntry(AnyAddress, case.first), 1)>>]
  /\ relay = [s \in Server |-> [up |-> TRUE, binding |-> NoBinding]]
  /\ astray = FALSE

\* Something of the request is still on its way, so that its timer, were the network
\* as fast as it should be, would not run out.
Underway(i, r) == \E m \in net : m.entry = i /\ m.id = r.id

Has(i) == port.open /\ i <= Len(port.entries)

Requests(i) == IF Has(i) THEN port.entries[i].requests ELSE {}

SetEntry(i, e) == port' = [port EXCEPT !.entries[i] = e]

\* StunRequest::OnMessage: it is sent, and sent again.
SendRequest(i, r) ==
  /\ r \in Requests(i) /\ r.sends < Sends
  /\ (~Underway(i, r) /\ UNCHANGED case) \/ (Underway(i, r) /\ Fault("late"))
  /\ LET e == port.entries[i]
         sent == [r EXCEPT !.sends = @ + 1, !.delayed = FALSE]
     IN  /\ SetEntry(i, [e EXCEPT !.requests = (@ \ {r}) \cup {sent}])
         /\ net' = IF e.socket # "open" THEN net
                   ELSE net \cup {[kind |-> "allocate", server |-> e.server, entry |-> i,
                                   peer |-> AnyAddress, id |-> r.id, lock |-> FALSE]}
  /\ UNCHANGED <<relay, astray>>

\* AllocateRequest::OnTimeout
RequestTimesOut(i, r) ==
  /\ r \in Requests(i) /\ r.sends = Sends
  /\ (~Underway(i, r) /\ UNCHANGED case) \/ (Underway(i, r) /\ Fault("late"))
  /\ SetEntry(i, HandleConnectFailure(port.entries[i], i))
  /\ UNCHANGED <<relay, net, astray>>

OnSocketConnect(i) ==
  /\ Has(i) /\ port.entries[i].socket = "connecting"
  /\ relay[port.entries[i].server].up
  /\ SetEntry(i, NewRequest([port.entries[i] EXCEPT !.socket = "open"], i, FALSE))
  /\ UNCHANGED <<relay, net, case, astray>>

\* The connection is refused, or breaks.
OnSocketClose(i) ==
  /\ Has(i) /\ port.entries[i].socket # "none"
  /\ LET s == port.entries[i].server IN Proto[s] = "tcp" /\ ~relay[s].up
  /\ SetEntry(i, HandleConnectFailure(port.entries[i], i))
  /\ UNCHANGED <<relay, net, case, astray>>

-----------------------------------------------------------------------------
(* RelayPort::SendTo.                                                        *)

Room == Cardinality({m \in net : IsData(m)}) < MaxInNet

\* "Note that the first entry created was not given an address initially, so it can be
\* set to the first address that comes along."
Matches(p, payload) ==
  {i \in DOMAIN port.entries : \/ payload /\ port.entries[i].addr = AnyAddress
                              \/ port.entries[i].addr = p}

\* The entries with one for p, if payload asks for one.
Prepared(p, payload) ==
  LET found == Matches(p, payload)
      fresh == NewEntry(p, port.entries[1].server)
  IN  IF found # {} THEN [port.entries EXCEPT ![Min(found)].addr = p]
      ELSE IF payload THEN Append(port.entries, Connect(fresh, Len(port.entries) + 1))
      ELSE port.entries

\* The entry that sends: p's own if it is connected, else the first.
Sender(entries, p) ==
  LET own == {i \in DOMAIN entries : entries[i].addr = p /\ entries[i].connected}
  IN  IF own # {} THEN Min(own) ELSE 1

\* RelayEntry::SendTo: "If this connection is locked to the address given, then we can
\* send the packet with no wrapper."
Wrapped(e, i, p) ==
  [kind |-> IF e.locked /\ e.addr = p THEN "raw" ELSE "send",
   server |-> e.server, entry |-> i, peer |-> p, id |-> 0, lock |-> e.addr = p]

SendTo(p, payload) ==
  /\ port.open /\ Room
  /\ LET entries == Prepared(p, payload)
         i == Sender(entries, p)
     IN  /\ port' = [port EXCEPT !.entries = entries]
         /\ net' = IF entries[i].connected THEN net \cup {Wrapped(entries[i], i, p)} ELSE net
  /\ UNCHANGED <<relay, case, astray>>

-----------------------------------------------------------------------------
(* RelayServer.                                                              *)

Reply(kind, m, p) == [kind |-> kind, server |-> m.server, entry |-> m.entry, peer |-> p,
                      id |-> m.id, lock |-> kind = "locked"]

ConnOf(b, i) == {k \in DOMAIN b.internal : b.internal[k].entry = i}

\* What a handler leaves: the binding, its packets, and where data for m.peer went.
Does(s, m, b, replies, to) ==
  /\ relay' = [relay EXCEPT ![s].binding = b]
  /\ net' = (net \ {m}) \cup replies
  /\ astray' = (astray \/ \E p \in to : p # m.peer)
  /\ UNCHANGED <<port, case>>

Ignores(m) == net' = net \ {m} /\ UNCHANGED <<port, relay, case, astray>>

\* HandleStunAllocate, for a connection that exists or comes to.
Allocate(s, m) ==
  LET b == relay[s].binding
      known == IF ConnOf(b, m.entry) # {} THEN b
               ELSE [b EXCEPT !.internal = Append(@, [entry |-> m.entry, locked |-> FALSE,
                                                      dest |-> AnyAddress])]
  IN  Does(s, m, [known EXCEPT !.used = TRUE, !.checked = TRUE],
           {Reply("allocated", m, AnyAddress)}, {})

\* Mutant: the connection is only locked when the peer has already been heard.
HandleStunSendIfOpen(s, m) ==
  LET b == relay[s].binding
      k == Min(ConnOf(b, m.entry))
      out == {m.peer} \cap b.open
      known == [b EXCEPT !.external = @ \cup {m.peer}, !.used = TRUE]
  IN  IF m.lock
      THEN Does(s, m, [known EXCEPT !.internal[k].locked = @ \/ out # {},
                                    !.internal[k].dest = m.peer],
                {Reply("locked", m, m.peer)}, out)
      ELSE Does(s, m, known, {}, out)

\* HandleStunSend: "If this connection has pinged us, then allow outgoing traffic."
HandleStunSend(s, m) ==
  LET b == relay[s].binding
      k == Min(ConnOf(b, m.entry))
      out == {m.peer} \cap b.open
      known == [b EXCEPT !.external = @ \cup {m.peer},
                         !.used = @ \/ m.peer \notin b.external \/ out # {} \/ m.lock]
  IN  IF m.lock
      THEN Does(s, m, [known EXCEPT !.internal[k].locked = TRUE, !.internal[k].dest = m.peer],
                {Reply("locked", m, m.peer)}, out)
      ELSE Does(s, m, known, {}, out)

\* "a non-wrapped packet that we are to forward"
Forward(s, m) ==
  LET b == relay[s].binding
      c == b.internal[Min(ConnOf(b, m.entry))]
      out == IF c.locked THEN {c.dest} \cap b.open ELSE {}
  IN  Does(s, m, [b EXCEPT !.used = @ \/ out # {}], {}, out)

\* Of a stranger nothing but an allocate is taken; the errors he gets change nothing.
OnInternalPacket(m) ==
  /\ m \in net /\ m.kind \in Inward
  /\ LET s == m.server
         stranger == ConnOf(relay[s].binding, m.entry) = {}
     IN  IF ~relay[s].up \/ (stranger /\ m.kind # "allocate") THEN Ignores(m)
         ELSE CASE m.kind = "allocate" -> Allocate(s, m)
                [] m.kind = "send"     -> HandleStunSend(s, m)
                [] m.kind = "raw"      -> Forward(s, m)

\* GetInternalConnection: the one locked to p, else the first.
GetInternalConnection(b, p) ==
  LET mine == {k \in DOMAIN b.internal : b.internal[k].locked /\ b.internal[k].dest = p}
  IN  b.internal[IF mine # {} THEN Min(mine) ELSE 1]

\* Mutant: nothing is wrapped for a locked connection.
IndicationIfLocked(m, c) ==
  [kind |-> IF c.locked THEN "rawdata" ELSE "data",
   server |-> m.server, entry |-> c.entry, peer |-> m.peer, id |-> 0, lock |-> FALSE]

\* RelayServerConnection::Send with the address it comes from: "If the from address is
\* known to the client, we don't need to send it."
Indication(m, c) ==
  [kind |-> IF c.locked /\ c.dest = m.peer THEN "rawdata" ELSE "data",
   server |-> m.server, entry |-> c.entry, peer |-> m.peer, id |-> 0, lock |-> FALSE]

\* "The first packet should always be a STUN / TURN packet"
OnExternalPacket(m) ==
  /\ m \in net /\ m.kind \in External
  /\ LET s == m.server
         b == relay[s].binding
     IN  IF ~relay[s].up \/ b = NoBinding \/ (m.peer \notin b.external /\ m.kind # "ping")
         THEN Ignores(m)
         ELSE Does(s, m, [b EXCEPT !.external = @ \cup {m.peer}, !.open = @ \cup {m.peer},
                                   !.used = TRUE],
                   {Indication(m, GetInternalConnection(b, m.peer))}, {})

\* A packet of a peer to an address of the port that it has learnt of.  No peer hears
\* of the port's end.
PeerSends(p, s, kind) ==
  /\ s \in port.published /\ Room
  /\ net' = net \cup {[kind |-> kind, server |-> s, entry |-> 0, peer |-> p, id |-> 0,
                       lock |-> FALSE]}
  /\ UNCHANGED <<port, relay, case, astray>>

\* What a server loses with its binding, the port does not hear of.
Lost(s, up) ==
  LET forgotten(e) == IF e.lockedAt = s THEN [e EXCEPT !.lockedAt = 0] ELSE e
  IN  /\ relay' = [relay EXCEPT ![s] = [up |-> up, binding |-> NoBinding]]
      /\ port' = [port EXCEPT !.entries = [i \in DOMAIN port.entries |-> forgotten(port.entries[i])]]
      /\ net' = {IF m.kind = "locked" /\ m.server = s THEN [m EXCEPT !.lock = FALSE] ELSE m
                   : m \in net}

\* A connected entry sends its keep-alive within a lifetime (ten minutes and fifteen).
Attended(s) == port.open /\ \E i \in DOMAIN port.entries :
                              port.entries[i].server = s /\ port.entries[i].connected

\* Mutant: the timer is not posted again.
OnLifetimeTimerOnce(s) ==
  /\ relay[s].up /\ relay[s].binding.checked
  /\ IF relay[s].binding.used
     THEN /\ relay' = [relay EXCEPT ![s].binding.used = FALSE, ![s].binding.checked = FALSE]
          /\ UNCHANGED <<port, net>>
     ELSE ~Attended(s) /\ Lost(s, TRUE)
  /\ UNCHANGED <<case, astray>>

\* MSG_LIFETIME_TIMER, every 15 minutes.  A connected entry allocates every 10.
OnLifetimeTimer(s) ==
  /\ relay[s].up /\ relay[s].binding.checked
  /\ IF relay[s].binding.used
     THEN /\ relay' = [relay EXCEPT ![s].binding.used = FALSE]
          /\ UNCHANGED <<port, net>>
     ELSE ~Attended(s) /\ Lost(s, TRUE)
  /\ UNCHANGED <<case, astray>>

-----------------------------------------------------------------------------
(* RelayEntry::OnReadPacket.                                                 *)

Takes(m, e, claimed) ==
  /\ port' = [port EXCEPT !.entries[m.entry] = e,
                          !.published = @ \cup IF e.connected THEN {e.server} ELSE {}]
  /\ net' = net \ {m}
  /\ astray' = (astray \/ claimed # m.peer)
  /\ UNCHANGED <<relay, case>>

\* AllocateRequest::OnResponse, and then the keep-alive.
OnResponse(m, e) ==
  LET r == CHOOSE r \in e.requests : r.id = m.id
  IN  NewRequest([e EXCEPT !.connected = TRUE, !.requests = @ \ {r}], m.entry, TRUE)

OnReadPacket(m) ==
  /\ m \in net /\ m.kind \in Outward
  /\ LET i == m.entry IN
     IF ~Has(i) THEN Ignores(m)
     ELSE LET e == port.entries[i] IN
          IF e.server # m.server \/ e.socket # "open" THEN Ignores(m)
          ELSE CASE m.kind = "allocated" ->
                      IF \A r \in e.requests : r.id # m.id THEN Ignores(m)
                      ELSE Takes(m, OnResponse(m, e), m.peer)
                 [] m.kind = "locked" ->
                      Takes(m, [e EXCEPT !.locked = TRUE,
                                         !.lockedAt = IF m.lock THEN m.server ELSE @], m.peer)
                 [] m.kind = "data" -> Takes(m, e, m.peer)
                 [] m.kind = "rawdata" -> IF e.locked THEN Takes(m, e, e.addr) ELSE Ignores(m)

-----------------------------------------------------------------------------
(* The end of the port, and the faults.                                      *)

\* ~RelayPort
Close ==
  /\ port.open
  /\ port' = [port EXCEPT !.open = FALSE, !.entries = <<>>]
  /\ UNCHANGED <<relay, net, case, astray>>

Lose(m) ==
  /\ Fault("loss")
  /\ m \in net /\ (m.kind \in External \/ Proto[m.server] = "udp")
  /\ net' = net \ {m}
  /\ UNCHANGED <<port, relay, astray>>

\* A server goes for good; the last of the list does not.
GoesDown(s) ==
  /\ Fault("down")
  /\ relay[s].up /\ s # Len(Proto)
  /\ Lost(s, FALSE)
  /\ UNCHANGED astray

\* A server is restarted, or the port's machine slept for longer than the lifetime.
Forget(s) ==
  /\ Fault("forget")
  /\ relay[s].binding # NoBinding
  /\ Lost(s, TRUE)
  /\ UNCHANGED astray

Next ==
  \/ Close
  \/ \E i \in Entry : \/ OnSocketConnect(i) \/ OnSocketClose(i)
                     \/ \E r \in Requests(i) : SendRequest(i, r) \/ RequestTimesOut(i, r)
  \/ \E p \in case.peers, payload \in BOOLEAN : SendTo(p, payload)
  \/ \E p \in case.peers, s \in Server, kind \in External : PeerSends(p, s, kind)
  \/ \E m \in net : \/ OnInternalPacket(m) \/ OnExternalPacket(m) \/ OnReadPacket(m)
                   \/ Lose(m)
  \/ \E s \in Server : OnLifetimeTimer(s) \/ GoesDown(s) \/ Forget(s)

Spec == Init /\ [][Next]_vars

\* The threads take their messages, the network delivers, the timers fire.  Nobody has
\* to send anything, or to go.
Fairness ==
  /\ \A i \in Entry :
       /\ WF_vars(OnSocketConnect(i) \/ OnSocketClose(i))
       /\ WF_vars(\E r \in Requests(i) :
                    ~Underway(i, r) /\ (SendRequest(i, r) \/ RequestTimesOut(i, r)))
       /\ WF_vars(\E m \in net : m.kind = "allocate" /\ m.entry = i /\ OnInternalPacket(m))
       /\ WF_vars(\E m \in net : m.kind = "allocated" /\ m.entry = i /\ OnReadPacket(m))
  /\ \A s \in Server :
       /\ WF_vars(OnLifetimeTimer(s))
       /\ WF_vars(\E m \in net : m.server = s /\ OnExternalPacket(m))

FairSpec == Spec /\ Fairness

-----------------------------------------------------------------------------
(* Properties.                                                               *)

TypeOK ==
  /\ port.open \in BOOLEAN /\ port.published \subseteq Server
  /\ port.entries \in Seq(RelayEntry)
  /\ relay \in [Server -> [up : BOOLEAN, binding : Binding]]
  /\ net \subseteq Packet
  /\ astray \in BOOLEAN

\* Whatever is locked, unlocked or still on its way, a packet without a wrapper comes out
\* as one from the peer that sent it, and goes to the peer it was meant for: the address
\* an entry has recorded is the default destination of the server's connection.
RightPeer == ~astray

\* Both ends agree on what goes unwrapped: an entry that the server it is at has locked,
\* and that the server still knows, is locked to the entry's peer there.
LockIsMutual ==
  \A i \in DOMAIN port.entries :
    LET e == port.entries[i] IN
    e.locked /\ e.lockedAt = e.server /\ relay[e.server].up =>
      \E k \in DOMAIN relay[e.server].binding.internal :
        LET c == relay[e.server].binding.internal[k]
        IN  c.entry = i /\ c.locked /\ c.dest = e.addr

\* With losses and late answers that are fewer than the times an allocate is sent, the
\* port's first entry comes to be connected to a server that is there, and again after
\* its server has gone, as long as the last of the list stays.
Reconnects ==
  LET Served == port.entries[1].connected /\ relay[port.entries[1].server].up
  IN  port.open ~> ~port.open \/ Served

\* A packet of a peer is under way to s that will count as a use of the binding there
\* (OnExternalPacket calls Send, which calls NoteUsed): of a peer with a connection,
\* or one that opens it.
UseUnderway(s) ==
  \E m \in net : /\ m.kind \in External /\ m.server = s
                 /\ m.kind = "ping" \/ m.peer \in relay[s].binding.external

\* "If no legitimate use of the binding occurs, we want it to be cleaned up": when the
\* port has gone, its bindings disappear, whatever of the port's own is still on its way
\* and whatever strangers send.  Only peers that go on sending for ever keep one.
BindingIsReclaimed ==
  \A s \in Server : []<>(port.open \/ relay[s].binding = NoBinding \/ UseUnderway(s))

\* Not so: peers that go on sending keep the binding of a port that has gone.
GoesWithThePort == ~port.open ~> \A s \in Server : relay[s].binding = NoBinding

\* relayserver.cc:195, "Make sure that this connection has been locked": what a connected
\* entry sends unwrapped is forwarded.
LockedMeansLocked ==
  \A i \in DOMAIN port.entries :
    LET e == port.entries[i] IN
    e.locked /\ e.connected /\ relay[e.server].up =>
      \E k \in DOMAIN relay[e.server].binding.internal :
        LET c == relay[e.server].binding.internal[k]
        IN  c.entry = i /\ c.locked /\ c.dest = e.addr
================================================================================
