----------------------------- MODULE Relay_proofs -----------------------------
(* Theorems about Relay, for every list of servers, any peers and all cases:    *)
(* whatever is lost, late, forgotten or goes down, who an unwrapped packet is   *)
(* from or for is what an entry has known since it was given an address.        *)
EXTENDS Relay, FiniteSetTheorems, SequenceTheorems, WellFoundedInduction, TLAPS

-----------------------------------------------------------------------------
(* The invariant                                                             *)

Address == Peer \cup {AnyAddress}

IsEntry(e) ==
  /\ e = [addr |-> e.addr, server |-> e.server, socket |-> e.socket,
          connected |-> e.connected, locked |-> e.locked, lockedAt |-> e.lockedAt,
          requests |-> e.requests]
  /\ e.addr \in Address /\ e.server \in Nat \ {0} /\ e.lockedAt \in {0} \cup Server
  /\ e.connected \in BOOLEAN /\ e.locked \in BOOLEAN
  /\ e.connected \/ e.socket # "none" => e.server \in Server

IsPacket(m) ==
  /\ m = [kind |-> m.kind, server |-> m.server, entry |-> m.entry, peer |-> m.peer,
          id |-> m.id, lock |-> m.lock]
  /\ m.kind \in Inward \cup Outward \cup External
  /\ m.server \in Server /\ m.entry \in Nat /\ m.peer \in Address /\ m.lock \in BOOLEAN
  /\ m.kind \notin External => m.entry # 0
  /\ m.kind \in External => ~m.lock

Connection == [entry : Nat \ {0}, locked : BOOLEAN, dest : Address]

Bound == [used : BOOLEAN, checked : BOOLEAN, internal : Seq(Connection),
          external : SUBSET Address, open : SUBSET Address]

Listed(s) == s \in Seq({s[i] : i \in DOMAIN s})

CaseOK == case \in [first : Server, peers : SUBSET Peer, faults : Nat,
                    kinds : SUBSET {"loss", "late", "down", "forget"}]

\* The variables are of the kind they should be, for any number of entries and requests.
Shape ==
  /\ port = [open |-> port.open, published |-> port.published, entries |-> port.entries]
  /\ port.open \in BOOLEAN /\ port.published \in SUBSET Server
  /\ Listed(port.entries)
  /\ \A i \in DOMAIN port.entries : IsEntry(port.entries[i])
  /\ port.open <=> port.entries # <<>>
  /\ relay \in [Server -> [up : BOOLEAN, binding : Bound]]
  /\ \A s \in Server : relay[s].binding = NoBinding \/ relay[s].binding.internal # <<>>
  /\ \A m \in net : IsPacket(m)
  /\ CaseOK

\* A connection of the binding, for the entry i, is locked to p.
Holds(b, i, p) ==
  \E k \in DOMAIN b.internal :
    b.internal[k].entry = i /\ b.internal[k].locked /\ b.internal[k].dest = p

Held(s, i, p) == Holds(relay[s].binding, i, p)

\* A packet says, without naming it or to lock it, that the peer of its entry is m.peer.
Tells(m) == m.kind \in {"raw", "rawdata"} \/ m.lock

\* Somebody takes p for the peer of the entry i.
Known(i, p) ==
  \/ \E m \in net : Tells(m) /\ m.entry = i /\ m.peer = p
  \/ \E s \in Server : Held(s, i, p)

\* All agree on whom an entry is for, also when the port is no more.
Agreed ==
  \A i \in Nat, p \in Address :
    Known(i, p) =>
      /\ p # AnyAddress
      /\ port.open => i \in DOMAIN port.entries /\ port.entries[i].addr = p
      /\ \A q \in Address : Known(i, q) => p = q

\* Who says that it has locked a connection, or is remembered to have, still holds it.
StillHeld ==
  /\ \A m \in net : m.kind = "locked" /\ m.lock => Held(m.server, m.entry, m.peer)
  /\ \A i \in DOMAIN port.entries :
       port.entries[i].lockedAt # 0 =>
         Held(port.entries[i].lockedAt, i, port.entries[i].addr)

RelayInv == Shape /\ Agreed /\ StillHeld /\ ~astray

-----------------------------------------------------------------------------
(* What is agreed on stays so                                                *)

\* A set of numbers has a least one.
LEMMA LeastOf ==
  ASSUME NEW S \in SUBSET Nat, S # {}
  PROVE  Min(S) \in S
<1>1. PICK m \in S : \A n \in S : <<n, m>> \notin OpToRel(<, Nat)
  BY WFMin, NatLessThanWellFounded
<1>2. \A n \in S : m <= n
  <2> SUFFICES ASSUME NEW n \in S, n < m PROVE FALSE
    OBVIOUS
  <2>1. <<n, m>> \in OpToRel(<, Nat)
    BY DEF OpToRel
  <2> QED BY <1>1, <2>1
<1> QED BY <1>1, <1>2 DEF Min

\* A sequence is what has its entries in a row.
LEMMA ListedWhen ==
  ASSUME NEW n \in Nat, NEW s, s = [i \in 1 .. n |-> s[i]]
  PROVE  Listed(s) /\ Len(s) = n /\ (s = <<>> <=> n = 0)
<1> DEFINE S == {s[i] : i \in DOMAIN s}
<1>1. DOMAIN s = 1 .. n
  OBVIOUS
<1>2. \A i \in 1 .. n : s[i] \in S
  BY <1>1
<1> HIDE DEF S
<1>3. s \in [1 .. n -> S]
  BY <1>2
<1>4. s \in Seq(S) /\ Len(s) = n
  BY <1>1, <1>3
<1> QED BY <1>4 DEF Listed, S

\* It has them from the first to the last.
LEMMA ListedIs ==
  ASSUME NEW s, Listed(s)
  PROVE  /\ Len(s) \in Nat /\ DOMAIN s = 1 .. Len(s)
         /\ s = [i \in 1 .. Len(s) |-> s[i]]
<1> DEFINE S == {s[i] : i \in DOMAIN s}
<1>1. s \in Seq(S)
  BY DEF Listed
<1> HIDE DEF S
<1> QED BY <1>1

\* Nobody learns of a peer but from the entry itself, and an address, once given, stays.
LEMMA AgreedKeeps ==
  ASSUME Agreed,
         \A i \in Nat, p \in Address :
           Known(i, p)' =>
             \/ Known(i, p)
             \/ /\ port'.open /\ i \in DOMAIN port'.entries
                /\ port'.entries[i].addr = p /\ p # AnyAddress,
         port'.open =>
           /\ port.open
           /\ \A i \in DOMAIN port.entries :
                /\ i \in DOMAIN port'.entries
                /\ port.entries[i].addr # AnyAddress => port'.entries[i].addr = port.entries[i].addr
  PROVE  Agreed'
<1>1. SUFFICES ASSUME NEW i \in Nat, NEW p \in Address, Known(i, p)'
               PROVE  /\ p # AnyAddress
                      /\ port'.open => i \in DOMAIN port'.entries /\ port'.entries[i].addr = p
                      /\ \A q \in Address : Known(i, q)' => p = q
  BY DEF Agreed
<1>2. \A q \in Address :
        Known(i, q)' => /\ q # AnyAddress
                        /\ port'.open => i \in DOMAIN port'.entries /\ port'.entries[i].addr = q
                        /\ Known(i, q) \/ port'.open
  BY DEF Agreed
<1>3. ASSUME NEW q \in Address, Known(i, q)' PROVE p = q
  <2>1. CASE port'.open
    BY <1>1, <1>2, <1>3, <2>1
  <2>2. CASE ~port'.open
    BY <1>1, <1>2, <1>3, <2>2 DEF Agreed
  <2> QED BY <2>1, <2>2
<1> QED BY <1>1, <1>2, <1>3

\* A step that only takes packets away.
LEMMA LessNet ==
  ASSUME RelayInv, net' \subseteq net, UNCHANGED <<port, relay, astray>>, CaseOK'
  PROVE  RelayInv'
<1>1. Shape'
  BY DEF RelayInv, Shape
<1>2. \A s, i, p : Held(s, i, p)' <=> Held(s, i, p)
  BY DEF RelayInv, Held, Holds
<1>3. \A i \in Nat, p \in Address : Known(i, p)' => Known(i, p)
  BY <1>2 DEF Known
<1>4. Agreed'
  BY <1>3, AgreedKeeps DEF RelayInv
<1>5. StillHeld'
  BY <1>2 DEF RelayInv, StillHeld
<1> QED BY <1>1, <1>4, <1>5 DEF RelayInv

-----------------------------------------------------------------------------
(* The entries                                                               *)

\* f is an entry that e may become: for the same peer.
Same(e, f) == IsEntry(f) /\ f.addr = e.addr /\ f.lockedAt = e.lockedAt

\* Requests come and go.
LEMMA WithRequests ==
  ASSUME NEW e, IsEntry(e), NEW x
  PROVE  /\ Same(e, [e EXCEPT !.requests = x])
         /\ [e EXCEPT !.requests = x].server = e.server
         /\ [e EXCEPT !.requests = x].connected = e.connected
         /\ [e EXCEPT !.requests = x].socket = e.socket
<1> DEFINE f == [e EXCEPT !.requests = x]
<1>1. f = [addr |-> e.addr, server |-> e.server, socket |-> e.socket,
           connected |-> e.connected, locked |-> e.locked, lockedAt |-> e.lockedAt,
           requests |-> x]
  BY DEF IsEntry
<1> HIDE DEF f
<1>2. IsEntry(f)
  BY <1>1 DEF IsEntry
<1>3. f.addr = e.addr /\ f.lockedAt = e.lockedAt /\ f.server = e.server
      /\ f.connected = e.connected /\ f.socket = e.socket
  BY <1>1
<1> QED BY <1>2, <1>3 DEF f, Same

\* A request more leaves the entry for the same peer.
LEMMA NewRequestIs ==
  ASSUME NEW e, IsEntry(e), NEW i, NEW delayed
  PROVE  Same(e, NewRequest(e, i, delayed))
<1>1. PICK x : NewRequest(e, i, delayed) = [e EXCEPT !.requests = x]
  BY DEF NewRequest
<1> QED BY <1>1, WithRequests

\* RelayEntry::Connect opens a socket to the entry's server, if it has one.
LEMMA ConnectIs ==
  ASSUME NEW e, IsEntry(e), NEW i
  PROVE  Same(e, Connect(e, i))
<1>1. CASE e.server > Len(Proto)
  BY <1>1 DEF Connect, Same
<1>2. CASE ~(e.server > Len(Proto))
  <2> DEFINE f == [e EXCEPT !.socket = "connecting"]
             g == [e EXCEPT !.socket = "open"]
  <2>1. e.server \in Server
    BY <1>2, RelayAssumption DEF IsEntry, Server
  <2>2. f = [addr |-> e.addr, server |-> e.server, socket |-> "connecting",
             connected |-> e.connected, locked |-> e.locked, lockedAt |-> e.lockedAt,
             requests |-> e.requests]
    BY DEF IsEntry
  <2>3. g = [addr |-> e.addr, server |-> e.server, socket |-> "open",
             connected |-> e.connected, locked |-> e.locked, lockedAt |-> e.lockedAt,
             requests |-> e.requests]
    BY DEF IsEntry
  <2>4. Connect(e, i) = f \/ Connect(e, i) = NewRequest(g, i, FALSE)
    BY <1>2 DEF Connect
  <2> HIDE DEF f, g
  <2>5. Same(e, f)
    BY <2>1, <2>2 DEF Same, IsEntry
  <2>6. Same(e, g)
    BY <2>1, <2>3 DEF Same, IsEntry
  <2>7. Same(g, NewRequest(g, i, FALSE))
    BY <2>6, NewRequestIs DEF Same
  <2> QED BY <2>4, <2>5, <2>6, <2>7 DEF Same
<1> QED BY <1>1, <1>2

\* "Try a different server address", for the same peer.
LEMMA FailureIs ==
  ASSUME NEW e, IsEntry(e), NEW i
  PROVE  Same(e, HandleConnectFailure(e, i))
<1> DEFINE f == [e EXCEPT !.connected = FALSE, !.socket = "none", !.requests = {},
                          !.server = @ + 1]
<1>1. f = [addr |-> e.addr, server |-> e.server + 1, socket |-> "none",
           connected |-> FALSE, locked |-> e.locked, lockedAt |-> e.lockedAt,
           requests |-> {}]
  <2> DEFINE g(c) == [e EXCEPT !.connected = c]
             h(c) == [g(c) EXCEPT !.socket = "none"]
             k(c) == [h(c) EXCEPT !.requests = {}]
             m(c) == [k(c) EXCEPT !.server = @ + 1]
  <2>1. \A c : g(c) = [addr |-> e.addr, server |-> e.server, socket |-> e.socket,
                       connected |-> c, locked |-> e.locked, lockedAt |-> e.lockedAt,
                       requests |-> e.requests]
    BY DEF IsEntry
  <2> HIDE DEF g
  <2>2. \A c : h(c) = [addr |-> e.addr, server |-> e.server, socket |-> "none",
                       connected |-> c, locked |-> e.locked, lockedAt |-> e.lockedAt,
                       requests |-> e.requests]
    BY <2>1
  <2> HIDE DEF h
  <2>3. \A c : k(c) = [addr |-> e.addr, server |-> e.server, socket |-> "none",
                       connected |-> c, locked |-> e.locked, lockedAt |-> e.lockedAt,
                       requests |-> {}]
    BY <2>2
  <2> HIDE DEF k
  <2>4. \A c : m(c) = [addr |-> e.addr, server |-> e.server + 1, socket |-> "none",
                       connected |-> c, locked |-> e.locked, lockedAt |-> e.lockedAt,
                       requests |-> {}]
    BY <2>3
  <2>5. f = m(FALSE)
    BY DEF g, h, k
  <2> HIDE DEF f, m
  <2> QED BY <2>4, <2>5, Zenon
<1>2. HandleConnectFailure(e, i) = Connect(f, i)
  BY DEF HandleConnectFailure
<1> HIDE DEF f
<1>3. Same(e, f)
  BY <1>1 DEF Same, IsEntry
<1> QED BY <1>2, <1>3, ConnectIs DEF Same

\* An entry changes, but for its address, and nothing new is said of its peer.
LEMMA EntryKeeps ==
  ASSUME RelayInv, NEW i \in DOMAIN port.entries, NEW f, IsEntry(f),
         f.addr = port.entries[i].addr,
         f.lockedAt # 0 /\ f.lockedAt # port.entries[i].lockedAt => Held(f.lockedAt, i, f.addr),
         NEW P \in SUBSET Server,
         port' = [open |-> port.open, published |-> P,
                  entries |-> [port.entries EXCEPT ![i] = f]],
         UNCHANGED relay, ~astray', CaseOK',
         \A m \in net' : m \in net \/ (IsPacket(m) /\ m.kind = "allocate" /\ ~m.lock)
  PROVE  RelayInv'
<1> DEFINE es == [port.entries EXCEPT ![i] = f]
<1>0. port'.open = port.open /\ port'.published = P /\ port'.entries = es
  OBVIOUS
<1>1. DOMAIN es = DOMAIN port.entries /\ es[i] = f
      /\ \A j \in DOMAIN es : j # i => es[j] = port.entries[j]
  OBVIOUS
<1>2. Listed(port.entries)
  BY DEF RelayInv, Shape
<1>3. DOMAIN port.entries = 1 .. Len(port.entries) /\ Len(port.entries) \in Nat
  BY <1>2, ListedIs
<1>4. Listed(es) /\ (es # <<>> <=> port.entries # <<>>)
  <2>1. es = [j \in 1 .. Len(port.entries) |-> es[j]]
    BY <1>3
  <2>2. port.entries = [j \in 1 .. Len(port.entries) |-> port.entries[j]]
    BY <1>2, ListedIs
  <2> HIDE DEF es
  <2> QED BY <1>3, <2>1, <2>2, ListedWhen
<1> HIDE DEF es
<1>5. \A j \in DOMAIN es : IsEntry(es[j]) /\ es[j].addr = port.entries[j].addr
  BY <1>1 DEF RelayInv, Shape
<1>6. Shape'
  <2>1. \A m \in net' : IsPacket(m)
    BY DEF RelayInv, Shape
  <2>2. port' = [open |-> port'.open, published |-> port'.published, entries |-> port'.entries]
    BY <1>0
  <2>3. port'.open <=> port'.entries # <<>>
    BY <1>0, <1>4 DEF RelayInv, Shape
  <2> QED BY <1>0, <1>1, <1>4, <1>5, <2>1, <2>2, <2>3 DEF RelayInv, Shape
<1>7. \A s, j, p : Held(s, j, p)' <=> Held(s, j, p)
  BY DEF RelayInv, Held, Holds
<1>8. \A j \in Nat, p \in Address : Known(j, p)' => Known(j, p)
  BY <1>7 DEF Known, Tells
<1>9. Agreed'
  BY <1>0, <1>1, <1>5, <1>8, AgreedKeeps DEF RelayInv
<1>10. StillHeld'
  <2>1. \A m \in net' : m.kind = "locked" /\ m.lock => Held(m.server, m.entry, m.peer)'
    BY <1>7 DEF RelayInv, StillHeld
  <2>2. ASSUME NEW j \in DOMAIN port'.entries, port'.entries[j].lockedAt # 0
        PROVE  Held(port.entries[j].lockedAt, j, port.entries[j].addr)'
    <3>1. j \in DOMAIN port.entries /\ port'.entries[j].addr = port.entries[j].addr
      BY <1>0, <1>1, <1>5, <2>2
    <3>2. Held(port'.entries[j].lockedAt, j, port'.entries[j].addr)
      BY <1>0, <1>1, <2>2, <3>1 DEF RelayInv, StillHeld
    <3> QED BY <3>2 DEF Held
  <2> QED BY <2>1, <2>2 DEF StillHeld
<1> QED BY <1>6, <1>9, <1>10 DEF RelayInv

-----------------------------------------------------------------------------
(* The steps of an entry                                                     *)

\* A fault is one fewer.
LEMMA FaultOK ==
  ASSUME CaseOK, NEW kind, Fault(kind)
  PROVE  CaseOK'
BY DEF CaseOK, Fault

\* There is an entry i.
LEMMA HasIs ==
  ASSUME Shape, NEW i, i \in Entry \/ i \in Nat \ {0}, Has(i)
  PROVE  i \in DOMAIN port.entries /\ IsEntry(port.entries[i])
<1>1. Cardinality(Peer) \in Nat
  BY RelayAssumption, FS_CardinalityType
<1>2. DOMAIN port.entries = 1 .. Len(port.entries) /\ Len(port.entries) \in Nat
  BY ListedIs DEF Shape
<1> QED BY <1>1, <1>2 DEF Has, Entry, Shape

\* To set an entry leaves the rest of the port as it is.
LEMMA SetEntryIs ==
  ASSUME Shape, NEW i, NEW f, SetEntry(i, f)
  PROVE  port' = [open |-> port.open, published |-> port.published,
                  entries |-> [port.entries EXCEPT ![i] = f]]
BY DEF Shape, SetEntry

\* A step of RelayEntry or of a request of its, which says nothing to anybody else.
LEMMA SetEntryKeeps ==
  ASSUME RelayInv, NEW i \in Entry, Has(i), NEW f, SetEntry(i, f), Same(port.entries[i], f),
         UNCHANGED <<relay, astray>>, CaseOK',
         \A m \in net' : m \in net \/ (IsPacket(m) /\ m.kind = "allocate" /\ ~m.lock)
  PROVE  RelayInv'
<1>1. i \in DOMAIN port.entries
  BY HasIs DEF RelayInv
<1>2. port' = [open |-> port.open, published |-> port.published,
               entries |-> [port.entries EXCEPT ![i] = f]]
  BY SetEntryIs DEF RelayInv
<1>3. IsEntry(f) /\ f.addr = port.entries[i].addr
      /\ (f.lockedAt # 0 /\ f.lockedAt # port.entries[i].lockedAt => Held(f.lockedAt, i, f.addr))
  BY DEF Same
<1>4. port.published \in SUBSET Server
  BY DEF RelayInv, Shape
<1>5. ~astray'
  BY DEF RelayInv
<1> QED BY <1>1, <1>2, <1>3, <1>4, <1>5, EntryKeeps

\* StunRequest::OnMessage says nothing of a peer.
LEMMA SendRequestKeeps ==
  ASSUME RelayInv, NEW i \in Entry, NEW r, SendRequest(i, r)
  PROVE  RelayInv'
<1> DEFINE e == port.entries[i]
           x == (e.requests \ {r}) \cup {[r EXCEPT !.sends = @ + 1, !.delayed = FALSE]}
           f == [e EXCEPT !.requests = x]
           q == [kind |-> "allocate", server |-> e.server, entry |-> i,
                 peer |-> AnyAddress, id |-> r.id, lock |-> FALSE]
<1>1. Has(i) /\ SetEntry(i, f) /\ UNCHANGED <<relay, astray>>
  BY DEF SendRequest, Requests
<1>2. net' = IF e.socket # "open" THEN net ELSE net \cup {q}
  BY DEF SendRequest
<1>3. CaseOK'
  BY FaultOK DEF SendRequest, RelayInv, Shape, CaseOK
<1>4. IsEntry(e) /\ i \in Nat \ {0}
  <2>1. Cardinality(Peer) \in Nat
    BY RelayAssumption, FS_CardinalityType
  <2> QED BY <1>1, <2>1, HasIs DEF RelayInv, Entry
<1> HIDE DEF x
<1>5. Same(e, f)
  BY <1>4, WithRequests
<1>6. e.socket = "open" => IsPacket(q) /\ q.kind = "allocate" /\ ~q.lock
  BY <1>4 DEF IsEntry, IsPacket, Inward, Outward, External, Address
<1> HIDE DEF e, f, q
<1>7. \A m \in net' : m \in net \/ (IsPacket(m) /\ m.kind = "allocate" /\ ~m.lock)
  BY <1>2, <1>6
<1> QED BY <1>1, <1>3, <1>5, <1>7, SetEntryKeeps DEF e

\* AllocateRequest::OnTimeout keeps the entry's address, and what is remembered of its lock.
LEMMA RequestTimesOutKeeps ==
  ASSUME RelayInv, NEW i \in Entry, NEW r, RequestTimesOut(i, r)
  PROVE  RelayInv'
<1>1. Has(i) /\ SetEntry(i, HandleConnectFailure(port.entries[i], i))
      /\ UNCHANGED <<relay, net, astray>>
  BY DEF RequestTimesOut, Requests
<1>2. CaseOK'
  BY FaultOK DEF RequestTimesOut, RelayInv, Shape, CaseOK
<1>3. Same(port.entries[i], HandleConnectFailure(port.entries[i], i))
  BY <1>1, HasIs, FailureIs DEF RelayInv
<1>4. \A m \in net' : m \in net \/ (IsPacket(m) /\ m.kind = "allocate" /\ ~m.lock)
  BY <1>1
<1> QED BY <1>1, <1>2, <1>3, <1>4, SetEntryKeeps

\* So does the connection of a socket,
LEMMA OnSocketConnectKeeps ==
  ASSUME RelayInv, NEW i \in Entry, OnSocketConnect(i)
  PROVE  RelayInv'
<1> DEFINE e == port.entries[i]
           g == [e EXCEPT !.socket = "open"]
<1>1. Has(i) /\ SetEntry(i, NewRequest(g, i, FALSE)) /\ e.socket = "connecting"
      /\ UNCHANGED <<relay, net, case, astray>>
  BY DEF OnSocketConnect
<1>2. IsEntry(e)
  BY <1>1, HasIs DEF RelayInv
<1>3. CaseOK'
  BY <1>1 DEF RelayInv, Shape, CaseOK
<1>4. g = [addr |-> e.addr, server |-> e.server, socket |-> "open",
           connected |-> e.connected, locked |-> e.locked, lockedAt |-> e.lockedAt,
           requests |-> e.requests]
  BY <1>2 DEF IsEntry
<1> HIDE DEF e, g
<1>5. Same(e, g)
  BY <1>1, <1>2, <1>4 DEF Same, IsEntry
<1>6. Same(e, NewRequest(g, i, FALSE))
  BY <1>5, NewRequestIs DEF Same
<1>7. \A m \in net' : m \in net \/ (IsPacket(m) /\ m.kind = "allocate" /\ ~m.lock)
  BY <1>1
<1> QED BY <1>1, <1>3, <1>6, <1>7, SetEntryKeeps DEF e

\* and its loss.
LEMMA OnSocketCloseKeeps ==
  ASSUME RelayInv, NEW i \in Entry, OnSocketClose(i)
  PROVE  RelayInv'
<1>1. Has(i) /\ SetEntry(i, HandleConnectFailure(port.entries[i], i))
      /\ UNCHANGED <<relay, net, case, astray>>
  BY DEF OnSocketClose
<1>2. CaseOK'
  BY <1>1 DEF RelayInv, Shape, CaseOK
<1>3. Same(port.entries[i], HandleConnectFailure(port.entries[i], i))
  BY <1>1, HasIs, FailureIs DEF RelayInv
<1>4. \A m \in net' : m \in net \/ (IsPacket(m) /\ m.kind = "allocate" /\ ~m.lock)
  BY <1>1
<1> QED BY <1>1, <1>2, <1>3, <1>4, SetEntryKeeps

-----------------------------------------------------------------------------
(* What an entry reads                                                       *)

\* An entry that is connected is at a server of the list.
LEMMA WithConnected ==
  ASSUME NEW e, IsEntry(e), e.server \in Server, NEW c \in BOOLEAN
  PROVE  Same(e, [e EXCEPT !.connected = c])
<1> DEFINE f == [e EXCEPT !.connected = c]
<1>1. f = [addr |-> e.addr, server |-> e.server, socket |-> e.socket,
           connected |-> c, locked |-> e.locked, lockedAt |-> e.lockedAt,
           requests |-> e.requests]
  BY DEF IsEntry
<1> HIDE DEF f
<1>2. Same(e, f)
  BY <1>1 DEF Same, IsEntry
<1> QED BY <1>2 DEF f

\* An entry that is locked, or not, is for the same peer.
LEMMA WithLock ==
  ASSUME NEW e, IsEntry(e), NEW c \in BOOLEAN, NEW s \in {0} \cup Server
  PROVE  LET f == [e EXCEPT !.locked = c, !.lockedAt = s]
         IN  IsEntry(f) /\ f.addr = e.addr /\ f.lockedAt = s
<1> DEFINE g == [e EXCEPT !.locked = c]
           f == [g EXCEPT !.lockedAt = s]
<1>1. g = [addr |-> e.addr, server |-> e.server, socket |-> e.socket,
           connected |-> e.connected, locked |-> c, lockedAt |-> e.lockedAt,
           requests |-> e.requests]
  BY DEF IsEntry
<1> HIDE DEF g
<1>2. f = [addr |-> e.addr, server |-> e.server, socket |-> e.socket,
           connected |-> e.connected, locked |-> c, lockedAt |-> s,
           requests |-> e.requests]
  BY <1>1
<1>3. f = [e EXCEPT !.locked = c, !.lockedAt = s]
  BY DEF g
<1> HIDE DEF f
<1>4. IsEntry(f) /\ f.addr = e.addr /\ f.lockedAt = s
  BY <1>2 DEF IsEntry
<1> QED BY <1>3, <1>4

\* AllocateRequest::OnResponse keeps the address.
LEMMA ResponseIs ==
  ASSUME NEW m, NEW e, IsEntry(e), e.server \in Server
  PROVE  Same(e, OnResponse(m, e))
<1> DEFINE g == [e EXCEPT !.connected = TRUE]
<1>1. PICK x : OnResponse(m, e) = NewRequest([g EXCEPT !.requests = x], m.entry, TRUE)
  <2> DEFINE y == LET r == CHOOSE r \in e.requests : r.id = m.id IN e.requests \ {r}
  <2>1. g.requests = e.requests
    BY DEF IsEntry
  <2>2. OnResponse(m, e) = NewRequest([g EXCEPT !.requests = y], m.entry, TRUE)
    BY <2>1 DEF OnResponse
  <2> QED BY <2>2
<1>2. Same(e, g)
  <2>1. TRUE \in BOOLEAN
    OBVIOUS
  <2> QED BY <2>1, WithConnected
<1> HIDE DEF g
<1>3. Same(g, [g EXCEPT !.requests = x])
  BY <1>2, WithRequests DEF Same
<1>4. Same([g EXCEPT !.requests = x], NewRequest([g EXCEPT !.requests = x], m.entry, TRUE))
  BY <1>3, NewRequestIs DEF Same
<1> QED BY <1>1, <1>2, <1>3, <1>4 DEF Same

\* RelayEntry::OnReadPacket takes a packet for one of the peer it is of.
LEMMA TakesKeeps ==
  ASSUME RelayInv, NEW m \in net, m.entry \in Nat \ {0}, Has(m.entry), NEW e, IsEntry(e),
         e.addr = port.entries[m.entry].addr,
         e.lockedAt # 0 /\ e.lockedAt # port.entries[m.entry].lockedAt
           => Held(e.lockedAt, m.entry, e.addr),
         e.connected => e.server \in Server,
         Takes(m, e, m.peer)
  PROVE  RelayInv'
<1> DEFINE P == port.published \cup IF e.connected THEN {e.server} ELSE {}
<1>1. m.entry \in DOMAIN port.entries
  BY HasIs DEF RelayInv
<1>2. port' = [open |-> port.open, published |-> P,
               entries |-> [port.entries EXCEPT ![m.entry] = e]]
  <2>1. port' = [port EXCEPT !.entries[m.entry] = e, !.published = P]
    BY DEF Takes
  <2> HIDE DEF P
  <2> QED BY <2>1 DEF RelayInv, Shape
<1>3. P \in SUBSET Server
  BY DEF RelayInv, Shape
<1>4. UNCHANGED relay /\ ~astray' /\ net' \subseteq net
  BY DEF Takes, RelayInv
<1>5. CaseOK'
  BY DEF Takes, RelayInv, Shape, CaseOK
<1> HIDE DEF P
<1> QED BY <1>1, <1>2, <1>3, <1>4, <1>5, EntryKeeps

\* A packet that is dropped tells nobody anything.
LEMMA IgnoresKeeps ==
  ASSUME RelayInv, NEW m, Ignores(m)
  PROVE  RelayInv'
<1>1. net' \subseteq net /\ UNCHANGED <<port, relay, astray>>
  BY DEF Ignores
<1>2. CaseOK'
  BY DEF Ignores, RelayInv, Shape, CaseOK
<1> QED BY <1>1, <1>2, LessNet

\* RelayEntry::OnReadPacket: what comes unwrapped is of the entry's own peer, and a lock
\* is one that the server still holds, unless it has said otherwise.
LEMMA OnReadPacketKeeps ==
  ASSUME RelayInv, NEW m \in net, OnReadPacket(m)
  PROVE  RelayInv'
<1> DEFINE i == m.entry
           e == port.entries[i]
<1>1. IsPacket(m) /\ m.kind \in Outward
  BY DEF OnReadPacket, RelayInv, Shape
<1>2. i \in Nat \ {0} /\ m.server \in Server /\ m.peer \in Address
  BY <1>1 DEF IsPacket, Outward, External
<1>3. CASE ~Has(i) \/ e.server # m.server \/ e.socket # "open"
  <2>1. Ignores(m)
    BY <1>3 DEF OnReadPacket
  <2> QED BY <2>1, IgnoresKeeps
<1>4. CASE Has(i) /\ e.server = m.server /\ e.socket = "open"
  <2>1. IsEntry(e) /\ i \in DOMAIN port.entries
    BY <1>2, <1>4, HasIs DEF RelayInv
  <2>2. port.open
    BY <1>4 DEF Has
  <2>3. Known(i, m.peer) => e.addr = m.peer
    BY <1>2, <2>2 DEF RelayInv, Agreed
  <2>4. e.server \in Server
    BY <1>2, <1>4
  <2>5. CASE m.kind = "allocated"
    <3>1. Ignores(m) \/ Takes(m, OnResponse(m, e), m.peer)
      BY <1>4, <2>5 DEF OnReadPacket
    <3>2. Same(e, OnResponse(m, e))
      BY <2>1, <2>4, ResponseIs
    <3> DEFINE f == OnResponse(m, e)
    <3>3. IsEntry(f) /\ f.addr = e.addr /\ f.lockedAt = e.lockedAt
          /\ (f.connected => f.server \in Server)
      BY <3>2 DEF Same, IsEntry
    <3> HIDE DEF f
    <3>4. ASSUME Takes(m, f, m.peer) PROVE RelayInv'
      BY <1>2, <1>4, <3>3, <3>4, TakesKeeps
    <3> QED BY <3>1, <3>4, IgnoresKeeps DEF f
  <2>6. CASE m.kind = "locked"
    <3> DEFINE s == IF m.lock THEN m.server ELSE e.lockedAt
               f == [e EXCEPT !.locked = TRUE, !.lockedAt = s]
    <3>1. Takes(m, f, m.peer)
      <4>1. Takes(m, [e EXCEPT !.locked = TRUE,
                               !.lockedAt = IF m.lock THEN m.server ELSE @], m.peer)
        BY <1>4, <2>6 DEF OnReadPacket
      <4>2. [e EXCEPT !.locked = TRUE, !.lockedAt = IF m.lock THEN m.server ELSE @] = f
        OBVIOUS
      <4> HIDE DEF e, f
      <4> QED BY <4>1, <4>2
    <3>2. s \in {0} \cup Server
      BY <1>2, <2>1 DEF IsEntry
    <3>3. IsEntry(f) /\ f.addr = e.addr /\ f.lockedAt = s
      <4>1. TRUE \in BOOLEAN
        OBVIOUS
      <4> HIDE DEF s, e
      <4> QED BY <2>1, <3>2, <4>1, WithLock
    <3>4. m.lock => Held(m.server, i, e.addr)
      <4>1. m.lock => Held(m.server, i, m.peer)
        BY <2>6 DEF RelayInv, StillHeld
      <4>2. m.lock => Known(i, m.peer)
        BY DEF Known, Tells
      <4> QED BY <2>3, <4>1, <4>2
    <3>5. f.lockedAt # 0 /\ f.lockedAt # e.lockedAt => Held(f.lockedAt, i, f.addr)
      <4> HIDE DEF f, e
      <4> QED BY <3>3, <3>4
    <3> HIDE DEF f, s
    <3>6. f.connected => f.server \in Server
      BY <3>3 DEF IsEntry
    <3> QED BY <1>2, <1>4, <3>1, <3>3, <3>5, <3>6, TakesKeeps
  <2>7. CASE m.kind = "data"
    <3>1. Takes(m, e, m.peer)
      BY <1>4, <2>7 DEF OnReadPacket
    <3> QED BY <1>2, <1>4, <2>1, <2>4, <3>1, TakesKeeps
  <2>8. CASE m.kind = "rawdata"
    <3>1. Ignores(m) \/ Takes(m, e, e.addr)
      BY <1>4, <2>8 DEF OnReadPacket
    <3>2. e.addr = m.peer
      BY <2>3, <2>8 DEF Known, Tells
    <3>3. Ignores(m) \/ Takes(m, e, m.peer)
      BY <3>1, <3>2
    <3> QED BY <1>2, <1>4, <2>1, <2>4, <3>3, TakesKeeps, IgnoresKeeps
  <2> QED BY <1>1, <2>5, <2>6, <2>7, <2>8 DEF Outward
<1> QED BY <1>3, <1>4

-----------------------------------------------------------------------------
(* What a server does                                                        *)

\* A handler may leave b, these replies and data to these peers: it keeps the locks there
\* are, knows of no peer but from the packet or from what the server holds, and says that
\* it has locked what it has locked.
Proper(s, m, b, replies, to) ==
  /\ b \in Bound /\ b.internal # <<>>
  /\ \A i \in Nat, p \in Address :
       /\ Held(s, i, p) => Holds(b, i, p)
       /\ Holds(b, i, p) => Known(i, p)
  /\ \A r \in replies : /\ IsPacket(r)
                        /\ Tells(r) => Known(r.entry, r.peer)
                        /\ r.kind = "locked" => r.server = s /\ Holds(b, r.entry, r.peer)
  /\ \A p \in to : p = m.peer

\* A handler that leaves what it may keeps the invariant.
LEMMA DoesKeeps ==
  ASSUME RelayInv, NEW s \in Server, NEW m \in net, NEW b, NEW replies, NEW to,
         Does(s, m, b, replies, to), Proper(s, m, b, replies, to)
  PROVE  RelayInv'
<1>0. /\ b \in Bound /\ b.internal # <<>>
      /\ \A i \in Nat, p \in Address : /\ Held(s, i, p) => Holds(b, i, p)
                                       /\ Holds(b, i, p) => Known(i, p)
      /\ \A r \in replies : /\ IsPacket(r)
                            /\ Tells(r) => Known(r.entry, r.peer)
                            /\ r.kind = "locked" => r.server = s /\ Holds(b, r.entry, r.peer)
      /\ \A p \in to : p = m.peer
  BY DEF Proper
<1>1. relay' = [relay EXCEPT ![s].binding = b] /\ net' = (net \ {m}) \cup replies
      /\ UNCHANGED <<port, case>> /\ ~astray'
  BY <1>0 DEF Does, RelayInv
<1>2. relay \in [Server -> [up : BOOLEAN, binding : Bound]]
  BY DEF RelayInv, Shape
<1>3. /\ relay' \in [Server -> [up : BOOLEAN, binding : Bound]]
      /\ relay'[s].binding = b
      /\ \A t \in Server : t # s => relay'[t] = relay[t]
  BY <1>0, <1>1, <1>2
<1>4. Shape'
  <2>1. CaseOK'
    BY <1>1 DEF RelayInv, Shape, CaseOK
  <2>2. \A r \in net' : IsPacket(r)
    BY <1>0, <1>1 DEF RelayInv, Shape
  <2>3. \A t \in Server : relay'[t].binding = NoBinding \/ relay'[t].binding.internal # <<>>
    BY <1>0, <1>3 DEF RelayInv, Shape
  <2> QED BY <1>1, <1>3, <2>1, <2>2, <2>3 DEF RelayInv, Shape
<1>5. \A t \in Server, i \in Nat, p \in Address :
        /\ Held(t, i, p) => Holds(relay'[t].binding, i, p)
        /\ Holds(relay'[t].binding, i, p) => Known(i, p)
  BY <1>0, <1>3 DEF Held, Known
<1>6. \A i \in Nat, p \in Address : Known(i, p)' => Known(i, p)
  <2> SUFFICES ASSUME NEW i \in Nat, NEW p \in Address, Known(i, p)' PROVE Known(i, p)
    OBVIOUS
  <2>1. CASE \E r \in net' : Tells(r) /\ r.entry = i /\ r.peer = p
    BY <1>0, <1>1, <2>1 DEF Known
  <2>2. CASE \E t \in Server : Held(t, i, p)'
    BY <1>5, <2>2 DEF Held
  <2> QED BY <2>1, <2>2 DEF Known, Tells
<1>7. Agreed'
  BY <1>1, <1>6, AgreedKeeps DEF RelayInv
<1>8. StillHeld'
  <2>1. ASSUME NEW r \in net', r.kind = "locked", r.lock
        PROVE  Holds(relay'[r.server].binding, r.entry, r.peer)
    <3>1. CASE r \in replies
      BY <1>0, <1>3, <2>1, <3>1
    <3>2. CASE r \in net
      <4>1. Held(r.server, r.entry, r.peer)
        BY <2>1, <3>2 DEF RelayInv, StillHeld
      <4>2. r.server \in Server /\ r.entry \in Nat /\ r.peer \in Address
        BY <3>2 DEF RelayInv, Shape, IsPacket
      <4> QED BY <1>5, <4>1, <4>2
    <3> QED BY <1>1, <3>1, <3>2
  <2>2. ASSUME NEW i \in DOMAIN port.entries, port.entries[i].lockedAt # 0
        PROVE  Holds(relay'[port.entries[i].lockedAt].binding, i, port.entries[i].addr)
    <3>1. Held(port.entries[i].lockedAt, i, port.entries[i].addr)
      BY <2>2 DEF RelayInv, StillHeld
    <3>2. IsEntry(port.entries[i]) /\ i \in Nat
      BY ListedIs DEF RelayInv, Shape
    <3>3. port.entries[i].lockedAt \in Server /\ port.entries[i].addr \in Address
      BY <2>2, <3>2 DEF IsEntry
    <3> QED BY <1>5, <3>1, <3>2, <3>3
  <2>3. port' = port
    BY <1>1
  <2> QED BY <2>1, <2>2, <2>3 DEF StillHeld, Held
<1> QED BY <1>1, <1>4, <1>7, <1>8 DEF RelayInv

\* The connection that a handler finds is the entry's.
LEMMA ConnOfIs ==
  ASSUME NEW b \in Bound, NEW i, ConnOf(b, i) # {}
  PROVE  LET k == Min(ConnOf(b, i))
         IN  k \in DOMAIN b.internal /\ b.internal[k].entry = i
<1>1. ConnOf(b, i) \in SUBSET Nat
  BY DEF ConnOf, Bound
<1>2. Min(ConnOf(b, i)) \in ConnOf(b, i)
  BY <1>1, LeastOf
<1> QED BY <1>2 DEF ConnOf

\* A server's binding is what it should be.
LEMMA BindingIs ==
  ASSUME RelayInv, NEW s \in Server
  PROVE  /\ relay[s].binding \in Bound
         /\ \A i \in Nat, p \in Address : Held(s, i, p) => Known(i, p)
BY DEF RelayInv, Shape, Known

\* A binding with the same connections holds the same locks.
LEMMA SameHolds ==
  ASSUME NEW b, NEW c, b.internal = c.internal
  PROVE  \A i, p : Holds(b, i, p) <=> Holds(c, i, p)
BY DEF Holds

\* RelayServer::HandleStunAllocate adds a connection that is not locked.
LEMMA AllocateKeeps ==
  ASSUME RelayInv, NEW m \in net, m.kind = "allocate", Allocate(m.server, m)
  PROVE  RelayInv'
<1> DEFINE s == m.server
           b == relay[s].binding
           c == [entry |-> m.entry, locked |-> FALSE, dest |-> AnyAddress]
           known == IF ConnOf(b, m.entry) # {} THEN b
                    ELSE [b EXCEPT !.internal = Append(@, c)]
           f == [known EXCEPT !.used = TRUE, !.checked = TRUE]
           q == Reply("allocated", m, AnyAddress)
<1>1. IsPacket(m)
  BY DEF RelayInv, Shape
<1>2. s \in Server /\ m.entry \in Nat \ {0}
  BY <1>1 DEF IsPacket, External
<1>3. b \in Bound /\ \A i \in Nat, p \in Address : Held(s, i, p) => Known(i, p)
  BY <1>2, BindingIs
<1>4. c \in Connection
  BY <1>2 DEF Connection, Address
<1>5. known \in Bound /\ known.internal # <<>>
      /\ \A i \in Nat, p \in Address : Holds(known, i, p) <=> Holds(b, i, p)
  <2>1. CASE ConnOf(b, m.entry) # {}
    <3>1. b.internal # <<>>
      BY <2>1, <1>3 DEF ConnOf
    <3> QED BY <1>3, <2>1, <3>1
  <2>2. CASE ConnOf(b, m.entry) = {}
    <3> HIDE DEF c, b
    <3>1. known = [b EXCEPT !.internal = Append(b.internal, c)]
      BY <2>2
    <3>2. b.internal \in Seq(Connection)
      BY <1>3 DEF Bound
    <3> DEFINE z == Append(b.internal, c)
    <3>3. z \in Seq(Connection) /\ z # <<>> /\ Len(z) = Len(b.internal) + 1
          /\ (\A k \in 1 .. Len(b.internal) : z[k] = b.internal[k])
          /\ z[Len(b.internal) + 1] = c
      BY <1>4, <3>2
    <3> HIDE DEF z, known
    <3>4. known \in Bound /\ known.internal = z
      BY <1>3, <3>1, <3>3 DEF Bound, z
    <3>5. ~c.locked
      BY DEF c
    <3>6. DOMAIN z = 1 .. Len(b.internal) + 1 /\ DOMAIN b.internal = 1 .. Len(b.internal)
          /\ Len(b.internal) \in Nat
      BY <3>2, <3>3
    <3>7. \A k \in DOMAIN z : k \in DOMAIN b.internal \/ z[k] = c
      BY <3>3, <3>6
    <3> QED BY <3>3, <3>4, <3>5, <3>6, <3>7 DEF Holds
  <2> QED BY <2>1, <2>2
<1> HIDE DEF known
<1>6. f \in Bound /\ f.internal = known.internal
  <2>1. TRUE \in BOOLEAN
    OBVIOUS
  <2> QED BY <1>5, <2>1 DEF Bound
<1>7. Does(s, m, f, {q}, {})
  BY DEF Allocate, known
<1> HIDE DEF f
<1>8. \A i \in Nat, p \in Address :
           /\ Held(s, i, p) => Holds(f, i, p)
           /\ Holds(f, i, p) => Known(i, p)
  BY <1>3, <1>5, <1>6, SameHolds DEF Held
<1>9. IsPacket(q) /\ ~Tells(q) /\ q.kind # "locked"
  BY <1>1, <1>2 DEF IsPacket, Reply, Tells, Inward, Outward, External, Address
<1> HIDE DEF q, b
<1>10. Proper(s, m, f, {q}, {})
  BY <1>5, <1>6, <1>8, <1>9 DEF Proper
<1> QED BY <1>2, <1>7, <1>10, DoesKeeps

\* A packet tells of a peer that is one.
LEMMA TellsIs ==
  ASSUME RelayInv, NEW m \in net
  PROVE  /\ IsPacket(m) /\ m.server \in Server /\ m.entry \in Nat /\ m.peer \in Address
         /\ Tells(m) => Known(m.entry, m.peer)
<1>1. IsPacket(m)
  BY DEF RelayInv, Shape
<1>2. Tells(m) => Known(m.entry, m.peer)
  BY DEF Known
<1> QED BY <1>1, <1>2 DEF IsPacket

\* A connection that is locked for the first time, or again, is locked to the peer that
\* the packet names.
LEMMA LockKeeps ==
  ASSUME RelayInv, NEW m \in net, m.lock, NEW b \in Bound,
         b.internal = relay[m.server].binding.internal,
         NEW k \in DOMAIN b.internal, b.internal[k].entry = m.entry,
         NEW c \in Connection, c.entry = m.entry, c.locked, c.dest = m.peer
  PROVE  LET f == [b EXCEPT !.internal = [@ EXCEPT ![k] = c]]
         IN  /\ f \in Bound /\ f.internal # <<>>
             /\ Holds(f, m.entry, m.peer)
             /\ \A i \in Nat, p \in Address : /\ Held(m.server, i, p) => Holds(f, i, p)
                                              /\ Holds(f, i, p) => Known(i, p)
<1> DEFINE z == [b.internal EXCEPT ![k] = c]
           f == [b EXCEPT !.internal = z]
<1>1. /\ IsPacket(m) /\ m.server \in Server /\ m.entry \in Nat /\ m.peer \in Address
      /\ Known(m.entry, m.peer)
  BY TellsIs DEF Tells
<1>3. b.internal \in Seq(Connection)
  BY DEF Bound
<1>4. z \in Seq(Connection) /\ z # <<>> /\ DOMAIN z = DOMAIN b.internal /\ z[k] = c
      /\ \A j \in DOMAIN z : j # k => z[j] = b.internal[j]
  BY <1>3
<1> HIDE DEF z
<1>5. f \in Bound /\ f.internal = z
  BY <1>4 DEF Bound
<1> HIDE DEF f
<1>6. \A j \in DOMAIN b.internal :
        b.internal[j].locked => Known(b.internal[j].entry, b.internal[j].dest)
  BY <1>1 DEF Known, Held, Holds
<1>7. b.internal[k].locked => b.internal[k].dest = m.peer
  <2>1. b.internal[k] \in Connection
    BY <1>3
  <2>2. b.internal[k].dest \in Address
    BY <2>1 DEF Connection
  <2> QED BY <1>1, <1>6, <2>2 DEF RelayInv, Agreed
<1>9. Holds(f, m.entry, m.peer)
  BY <1>4, <1>5 DEF Holds
<1>10. ASSUME NEW i \in Nat, NEW p \in Address, Held(m.server, i, p) PROVE Holds(f, i, p)
  <2>1. PICK j \in DOMAIN b.internal :
          b.internal[j].entry = i /\ b.internal[j].locked /\ b.internal[j].dest = p
    BY <1>10 DEF Held, Holds
  <2>2. CASE j = k
    BY <1>7, <1>9, <2>1, <2>2
  <2>3. CASE j # k
    BY <1>4, <1>5, <2>1, <2>3 DEF Holds
  <2> QED BY <2>2, <2>3
<1>11. ASSUME NEW i \in Nat, NEW p \in Address, Holds(f, i, p) PROVE Known(i, p)
  <2>1. PICK j \in DOMAIN z : z[j].entry = i /\ z[j].locked /\ z[j].dest = p
    BY <1>5, <1>11 DEF Holds
  <2>2. CASE j = k
    BY <1>1, <1>4, <2>1, <2>2
  <2>3. CASE j # k
    BY <1>4, <1>6, <2>1, <2>3
  <2> QED BY <2>2, <2>3
<1>12. f = [b EXCEPT !.internal = [@ EXCEPT ![k] = c]]
  BY DEF f, z
<1> QED BY <1>4, <1>5, <1>9, <1>10, <1>11, <1>12

\* RelayServer::HandleStunSend locks a connection to the peer that all agree on.
LEMMA HandleStunSendKeeps ==
  ASSUME RelayInv, NEW m \in net, m.kind = "send",
         ConnOf(relay[m.server].binding, m.entry) # {},
         HandleStunSend(m.server, m)
  PROVE  RelayInv'
<1> DEFINE s == m.server
           b == relay[s].binding
           k == Min(ConnOf(b, m.entry))
           out == {m.peer} \cap b.open
           X == b.external \cup {m.peer}
           u == b.used \/ m.peer \notin b.external \/ out # {} \/ m.lock
           known == [b EXCEPT !.external = @ \cup {m.peer},
                              !.used = @ \/ m.peer \notin b.external \/ out # {} \/ m.lock]
           c == [entry |-> m.entry, locked |-> TRUE, dest |-> m.peer]
           f == [known EXCEPT !.internal = [@ EXCEPT ![k] = c]]
           q == Reply("locked", m, m.peer)
<1>1. /\ IsPacket(m) /\ s \in Server /\ m.entry \in Nat \ {0} /\ m.peer \in Address
      /\ m.lock \in BOOLEAN
      /\ Tells(m) => Known(m.entry, m.peer)
  BY TellsIs DEF IsPacket, External
<1>2. b \in Bound /\ \A i \in Nat, p \in Address : Held(s, i, p) => Known(i, p)
  BY <1>1, BindingIs
<1>3. k \in DOMAIN b.internal /\ b.internal[k].entry = m.entry
  BY <1>2, ConnOfIs
<1>4. known \in Bound /\ known.internal = b.internal
  <2>1. X \in SUBSET Address
    BY <1>1, <1>2 DEF Bound
  <2>2. u \in BOOLEAN
    OBVIOUS
  <2>3. known = [b EXCEPT !.external = X, !.used = u]
    OBVIOUS
  <2> HIDE DEF b, X, u, known
  <2> QED BY <1>2, <2>1, <2>2, <2>3 DEF Bound
<1>5. \A p \in out : p = m.peer
  OBVIOUS
<1>6. CASE m.lock
  <2>1. /\ f \in Bound /\ f.internal # <<>>
        /\ Holds(f, m.entry, m.peer)
        /\ \A i \in Nat, p \in Address : /\ Held(s, i, p) => Holds(f, i, p)
                                         /\ Holds(f, i, p) => Known(i, p)
    <3>0. c \in Connection /\ c.entry = m.entry /\ c.locked /\ c.dest = m.peer
      <4>1. TRUE \in BOOLEAN
        OBVIOUS
      <4> QED BY <1>1, <4>1 DEF Connection
    <3> HIDE DEF known, k, c
    <3>1. k \in DOMAIN known.internal /\ known.internal[k].entry = m.entry
      BY <1>3, <1>4
    <3>3. known.internal = relay[m.server].binding.internal
      BY <1>4
    <3> QED BY <1>4, <1>6, <3>0, <3>1, <3>3, LockKeeps
  <2>2. Does(s, m, f, {q}, out)
    <3>1. Does(s, m, [known EXCEPT !.internal[k].locked = TRUE, !.internal[k].dest = m.peer],
               {q}, out)
      BY <1>6 DEF HandleStunSend
    <3>2. [known EXCEPT !.internal[k].locked = TRUE, !.internal[k].dest = m.peer] = f
      <4> HIDE DEF known, k, b
      <4>1. known.internal \in Seq(Connection) /\ k \in DOMAIN known.internal
            /\ known.internal[k].entry = m.entry
        BY <1>3, <1>4 DEF Bound
      <4>2. known.internal[k] \in Connection
        BY <4>1
      <4>3. [[known.internal[k] EXCEPT !.locked = TRUE] EXCEPT !.dest = m.peer] = c
        <5> DEFINE y(x) == [known.internal[k] EXCEPT !.locked = x]
                   z(x) == [y(x) EXCEPT !.dest = m.peer]
        <5>1. \A x : y(x) = [entry |-> m.entry, locked |-> x, dest |-> known.internal[k].dest]
          BY <4>1, <4>2 DEF Connection
        <5> HIDE DEF y
        <5>2. \A x : z(x) = [entry |-> m.entry, locked |-> x, dest |-> m.peer]
          BY <5>1
        <5>3. z(TRUE) = [[known.internal[k] EXCEPT !.locked = TRUE] EXCEPT !.dest = m.peer]
          BY DEF y
        <5> HIDE DEF z
        <5> QED BY <5>2, <5>3, Zenon
      <4> HIDE DEF c
      <4> QED BY <1>4, <4>1, <4>3 DEF Bound
    <3> QED BY <3>1, <3>2
  <2>3. IsPacket(q) /\ q.entry = m.entry /\ q.peer = m.peer /\ q.server = s
    <3>1. ("locked" = "locked") \in BOOLEAN
      OBVIOUS
    <3> QED BY <1>1, <3>1 DEF IsPacket, Reply, Inward, Outward, External
  <2>4. Known(m.entry, m.peer)
    BY <1>1, <1>6 DEF Tells
  <2> HIDE DEF f, q, b, out
  <2>5. Proper(s, m, f, {q}, out)
    BY <1>5, <2>1, <2>3, <2>4 DEF Proper
  <2> QED BY <1>1, <2>2, <2>5, DoesKeeps
<1>7. CASE ~m.lock
  <2>1. Does(s, m, known, {}, out)
    BY <1>7 DEF HandleStunSend
  <2> HIDE DEF known
  <2>2. \A i \in Nat, p \in Address : /\ Held(s, i, p) => Holds(known, i, p)
                                      /\ Holds(known, i, p) => Known(i, p)
    BY <1>2, <1>4, SameHolds DEF Held
  <2>3. known.internal # <<>>
    BY <1>3, <1>4
  <2>4. Proper(s, m, known, {}, out)
    BY <1>4, <1>5, <2>2, <2>3 DEF Proper
  <2> QED BY <1>1, <2>1, <2>4, DoesKeeps
<1> QED BY <1>6, <1>7

\* What goes unwrapped to a locked connection's default destination is for that peer.
LEMMA ForwardKeeps ==
  ASSUME RelayInv, NEW m \in net, m.kind = "raw",
         ConnOf(relay[m.server].binding, m.entry) # {},
         Forward(m.server, m)
  PROVE  RelayInv'
<1> DEFINE s == m.server
           b == relay[s].binding
           k == Min(ConnOf(b, m.entry))
           c == b.internal[k]
           out == IF c.locked THEN {c.dest} \cap b.open ELSE {}
           u == b.used \/ out # {}
           f == [b EXCEPT !.used = u]
<1>1. /\ IsPacket(m) /\ s \in Server /\ m.entry \in Nat /\ m.peer \in Address
      /\ Known(m.entry, m.peer)
  BY TellsIs DEF Tells
<1>2. b \in Bound /\ \A i \in Nat, p \in Address : Held(s, i, p) => Known(i, p)
  BY <1>1, BindingIs
<1>3. k \in DOMAIN b.internal /\ c.entry = m.entry
  BY <1>2, ConnOfIs
<1>4. Does(s, m, f, {}, out)
  BY DEF Forward
<1>5. f \in Bound /\ f.internal = b.internal
  <2>1. u \in BOOLEAN
    OBVIOUS
  <2> HIDE DEF u, b
  <2> QED BY <1>2, <2>1 DEF Bound
<1>6. \A p \in out : p = m.peer
  <2>1. c.dest \in Address
    <3> HIDE DEF k, b
    <3>1. b.internal \in Seq(Connection)
      BY <1>2 DEF Bound
    <3>2. b.internal[k] \in Connection
      BY <1>3, <3>1
    <3> QED BY <3>2 DEF Connection
  <2>2. c.locked => Held(s, m.entry, c.dest)
    <3> HIDE DEF k
    <3> QED BY <1>3 DEF Held, Holds
  <2>3. c.locked => Known(m.entry, c.dest)
    BY <1>1, <1>2, <2>1, <2>2
  <2>4. c.locked => c.dest = m.peer
    BY <1>1, <2>1, <2>3 DEF RelayInv, Agreed
  <2> QED BY <2>4
<1> HIDE DEF f
<1>7. \A i \in Nat, p \in Address : /\ Held(s, i, p) => Holds(f, i, p)
                                    /\ Holds(f, i, p) => Known(i, p)
  BY <1>2, <1>5, SameHolds DEF Held
<1>8. f.internal # <<>>
  BY <1>3, <1>5
<1> HIDE DEF b, out
<1>9. Proper(s, m, f, {}, out)
  BY <1>5, <1>6, <1>7, <1>8 DEF Proper
<1> QED BY <1>1, <1>4, <1>9, DoesKeeps

\* RelayServer::OnInternalPacket calls one of the three.
LEMMA OnInternalPacketKeeps ==
  ASSUME RelayInv, NEW m \in net, OnInternalPacket(m)
  PROVE  RelayInv'
<1> DEFINE stranger == ConnOf(relay[m.server].binding, m.entry) = {}
<1>1. m.kind \in Inward
  BY DEF OnInternalPacket
<1>2. CASE Ignores(m)
  BY <1>2, IgnoresKeeps
<1>3. CASE ~Ignores(m)
  <2>1. ~(stranger /\ m.kind # "allocate")
    BY <1>3 DEF OnInternalPacket
  <2>2. CASE m.kind = "allocate"
    <3>1. Allocate(m.server, m)
      BY <1>3, <2>2 DEF OnInternalPacket
    <3> QED BY <2>2, <3>1, AllocateKeeps
  <2>3. CASE m.kind = "send"
    <3>1. HandleStunSend(m.server, m)
      BY <1>3, <2>3 DEF OnInternalPacket
    <3> QED BY <2>1, <2>3, <3>1, HandleStunSendKeeps
  <2>4. CASE m.kind = "raw"
    <3>1. Forward(m.server, m)
      BY <1>3, <2>4 DEF OnInternalPacket
    <3> QED BY <2>1, <2>4, <3>1, ForwardKeeps
  <2> QED BY <1>1, <2>2, <2>3, <2>4 DEF Inward
<1> QED BY <1>2, <1>3

\* Data of a peer goes to a connection of the binding, unwrapped only to its own peer.
LEMMA OnExternalPacketKeeps ==
  ASSUME RelayInv, NEW m \in net, OnExternalPacket(m)
  PROVE  RelayInv'
<1> DEFINE s == m.server
           b == relay[s].binding
           mine == {k \in DOMAIN b.internal : b.internal[k].locked /\ b.internal[k].dest = m.peer}
           k == IF mine # {} THEN Min(mine) ELSE 1
           c == b.internal[k]
           X == b.external \cup {m.peer}
           O == b.open \cup {m.peer}
           f == [b EXCEPT !.external = @ \cup {m.peer}, !.open = @ \cup {m.peer}, !.used = TRUE]
           q == Indication(m, c)
<1>1. CASE Ignores(m)
  BY <1>1, IgnoresKeeps
<1>2. CASE ~Ignores(m)
  <2>1. /\ IsPacket(m) /\ s \in Server /\ m.entry \in Nat /\ m.peer \in Address
    BY TellsIs
  <2>2. b \in Bound /\ \A i \in Nat, p \in Address : Held(s, i, p) => Known(i, p)
    BY <2>1, BindingIs
  <2>3. b # NoBinding /\ Does(s, m, f, {q}, {})
    BY <1>2 DEF OnExternalPacket, GetInternalConnection
  <2>4. b.internal # <<>>
    BY <2>1, <2>3 DEF RelayInv, Shape
  <2>5. k \in DOMAIN b.internal
    <3>1. b.internal \in Seq(Connection)
      BY <2>2 DEF Bound
    <3> HIDE DEF b
    <3>2. DOMAIN b.internal = 1 .. Len(b.internal) /\ Len(b.internal) \in Nat
          /\ 1 \in DOMAIN b.internal
      BY <2>4, <3>1
    <3>3. mine \in SUBSET Nat
      BY <3>2
    <3>4. mine # {} => Min(mine) \in mine
      <4> HIDE DEF mine
      <4> QED BY <3>3, LeastOf
    <3>5. mine \subseteq DOMAIN b.internal
      OBVIOUS
    <3> HIDE DEF mine
    <3> QED BY <3>2, <3>4, <3>5
  <2> HIDE DEF k
  <2>6. c \in Connection
    <3>1. b.internal \in Seq(Connection)
      BY <2>2 DEF Bound
    <3> HIDE DEF b
    <3> QED BY <2>5, <3>1
  <2>7. f \in Bound /\ f.internal = b.internal
    <3>1. X \in SUBSET Address /\ O \in SUBSET Address
      BY <2>1, <2>2 DEF Bound
    <3>2. TRUE \in BOOLEAN
      OBVIOUS
    <3>3. f = [b EXCEPT !.external = X, !.open = O, !.used = TRUE]
      OBVIOUS
    <3> HIDE DEF b, X, O, f
    <3> QED BY <2>2, <3>1, <3>2, <3>3 DEF Bound
  <2>8. IsPacket(q) /\ q.kind # "locked" /\ q.entry = c.entry /\ q.peer = m.peer /\ ~q.lock
        /\ (q.kind = "rawdata" => c.locked /\ c.dest = m.peer)
        /\ q.kind \in {"data", "rawdata"}
    <3> HIDE DEF c
    <3>1. c.entry \in Nat \ {0}
      BY <2>6 DEF Connection
    <3>2. (c.locked /\ c.dest = m.peer) \/ ~(c.locked /\ c.dest = m.peer)
      OBVIOUS
    <3>3. CASE c.locked /\ c.dest = m.peer
      BY <2>1, <3>1, <3>3 DEF IsPacket, Indication, Inward, Outward, External
    <3>4. CASE ~(c.locked /\ c.dest = m.peer)
      BY <2>1, <3>1, <3>4 DEF IsPacket, Indication, Inward, Outward, External
    <3> QED BY <3>2, <3>3, <3>4
  <2>9. Tells(q) => Known(q.entry, q.peer)
    <3>1. c.locked /\ c.dest = m.peer => Held(s, c.entry, m.peer)
      BY <2>5 DEF Held, Holds
    <3>2. c.entry \in Nat
      BY <2>6 DEF Connection
    <3> HIDE DEF c, q
    <3> QED BY <2>1, <2>2, <2>8, <3>1, <3>2 DEF Tells
  <2> HIDE DEF f, q
  <2>10. \A i \in Nat, p \in Address : /\ Held(s, i, p) => Holds(f, i, p)
                                       /\ Holds(f, i, p) => Known(i, p)
    BY <2>2, <2>7, SameHolds DEF Held
  <2>11. Proper(s, m, f, {q}, {})
    BY <2>4, <2>7, <2>8, <2>9, <2>10 DEF Proper
  <2> QED BY <2>1, <2>3, <2>11, DoesKeeps
<1> QED BY <1>1, <1>2

\* A peer's packet is for a server, and tells of no entry.
LEMMA PeerSendsKeeps ==
  ASSUME RelayInv, NEW p \in case.peers, NEW s \in Server, NEW kind \in External,
         PeerSends(p, s, kind)
  PROVE  RelayInv'
<1> DEFINE q == [kind |-> kind, server |-> s, entry |-> 0, peer |-> p, id |-> 0, lock |-> FALSE]
<1>1. net' = net \cup {q} /\ UNCHANGED <<port, relay, case, astray>>
  BY DEF PeerSends
<1>2. p \in Address
  BY DEF RelayInv, Shape, CaseOK, Address
<1>3. IsPacket(q) /\ ~Tells(q) /\ q.kind # "locked"
  BY <1>2 DEF IsPacket, Tells, External
<1> HIDE DEF q
<1>4. Shape'
  BY <1>1, <1>3 DEF RelayInv, Shape, CaseOK
<1>5. \A t, i, r : Held(t, i, r)' <=> Held(t, i, r)
  BY <1>1 DEF Held, Holds
<1>6. \A i \in Nat, r \in Address : Known(i, r)' => Known(i, r)
  BY <1>1, <1>3, <1>5 DEF Known, Tells
<1>7. Agreed'
  BY <1>1, <1>6, AgreedKeeps DEF RelayInv
<1>8. StillHeld'
  BY <1>1, <1>3, <1>5 DEF RelayInv, StillHeld
<1> QED BY <1>1, <1>4, <1>7, <1>8 DEF RelayInv

\* A server that loses its binding forgets, and with it the port what it remembers of it.
LEMMA LostKeeps ==
  ASSUME RelayInv, NEW s \in Server, NEW up \in BOOLEAN, Lost(s, up), UNCHANGED astray, CaseOK'
  PROVE  RelayInv'
<1> DEFINE still(m) == IF m.kind = "locked" /\ m.server = s THEN [m EXCEPT !.lock = FALSE] ELSE m
           z == [i \in DOMAIN port.entries |->
                   IF port.entries[i].lockedAt = s THEN [port.entries[i] EXCEPT !.lockedAt = 0]
                   ELSE port.entries[i]]
<1>1. relay' = [relay EXCEPT ![s] = [up |-> up, binding |-> NoBinding]]
      /\ net' = {still(m) : m \in net}
      /\ port' = [port EXCEPT !.entries = z]
  BY DEF Lost
<1>2. port' = [open |-> port.open, published |-> port.published, entries |-> z]
  <2> HIDE DEF z
  <2> QED BY <1>1 DEF RelayInv, Shape
<1>3. port'.open = port.open /\ port'.published = port.published /\ port'.entries = z
  <2> HIDE DEF z
  <2> QED BY <1>2
<1>4. DOMAIN z = DOMAIN port.entries
  OBVIOUS
<1>5. ASSUME NEW i \in DOMAIN port.entries
      PROVE  /\ IsEntry(z[i]) /\ z[i].addr = port.entries[i].addr
             /\ z[i].lockedAt # 0 => z[i].lockedAt = port.entries[i].lockedAt /\ z[i].lockedAt # s
  <2> DEFINE e == port.entries[i]
             f == [e EXCEPT !.lockedAt = 0]
  <2>1. z[i] = IF e.lockedAt = s THEN f ELSE e
    BY <1>5
  <2>2. IsEntry(e)
    BY DEF RelayInv, Shape
  <2> HIDE DEF z, e
  <2>3. f = [addr |-> e.addr, server |-> e.server, socket |-> e.socket,
             connected |-> e.connected, locked |-> e.locked, lockedAt |-> 0,
             requests |-> e.requests]
    BY <2>2 DEF IsEntry
  <2> HIDE DEF f
  <2>4. IsEntry(f) /\ f.addr = e.addr /\ f.lockedAt = 0
    BY <2>2, <2>3 DEF IsEntry
  <2> QED BY <2>1, <2>2, <2>4 DEF e
<1>6. Listed(z) /\ (z # <<>> <=> port.entries # <<>>)
  <2>1. /\ Len(port.entries) \in Nat /\ DOMAIN port.entries = 1 .. Len(port.entries)
        /\ port.entries = [i \in 1 .. Len(port.entries) |-> port.entries[i]]
    BY ListedIs DEF RelayInv, Shape
  <2>2. z = [i \in 1 .. Len(port.entries) |-> z[i]]
    BY <2>1
  <2> HIDE DEF z
  <2> QED BY <2>1, <2>2, ListedWhen
<1> HIDE DEF z
<1>7. ASSUME NEW m \in net
      PROVE  /\ IsPacket(still(m)) /\ still(m).kind = m.kind /\ still(m).server = m.server
             /\ still(m).entry = m.entry /\ still(m).peer = m.peer
             /\ still(m).lock => m.lock /\ ~(m.kind = "locked" /\ m.server = s)
  <2> DEFINE g == [m EXCEPT !.lock = FALSE]
  <2>1. IsPacket(m)
    BY DEF RelayInv, Shape
  <2>2. g = [kind |-> m.kind, server |-> m.server, entry |-> m.entry, peer |-> m.peer,
             id |-> m.id, lock |-> FALSE]
    <3> DEFINE y(x) == [m EXCEPT !.lock = x]
    <3>1. \A x : y(x) = [kind |-> m.kind, server |-> m.server, entry |-> m.entry,
                         peer |-> m.peer, id |-> m.id, lock |-> x]
      BY <2>1 DEF IsPacket
    <3>2. g = y(FALSE)
      OBVIOUS
    <3> HIDE DEF g, y
    <3> QED BY <3>1, <3>2, Zenon
  <2> HIDE DEF g
  <2>3. IsPacket(g) /\ g.kind = m.kind /\ g.server = m.server /\ g.entry = m.entry
        /\ g.peer = m.peer /\ ~g.lock
    BY <2>1, <2>2 DEF IsPacket
  <2>4. still(m) = IF m.kind = "locked" /\ m.server = s THEN g ELSE m
    BY DEF g
  <2> HIDE DEF still
  <2> QED BY <2>1, <2>3, <2>4
<1> HIDE DEF still
<1>8. relay \in [Server -> [up : BOOLEAN, binding : Bound]] /\ NoBinding \in Bound
  <2>1. FALSE \in BOOLEAN /\ <<>> \in Seq(Connection) /\ {} \in SUBSET Address
    OBVIOUS
  <2> QED BY <2>1 DEF RelayInv, Shape, NoBinding, Bound
<1>9. /\ relay' \in [Server -> [up : BOOLEAN, binding : Bound]]
      /\ relay'[s].binding = NoBinding
      /\ \A t \in Server : t # s => relay'[t] = relay[t]
  BY <1>1, <1>8
<1>10. Shape'
  <2>1. \A m \in net' : IsPacket(m)
    BY <1>1, <1>7
  <2>2. \A t \in Server : relay'[t].binding = NoBinding \/ relay'[t].binding.internal # <<>>
    BY <1>9 DEF RelayInv, Shape
  <2>3. \A i \in DOMAIN z : IsEntry(z[i])
    BY <1>4, <1>5
  <2> QED BY <1>2, <1>3, <1>6, <1>9, <2>1, <2>2, <2>3 DEF RelayInv, Shape
<1>11. \A i, p : ~Holds(NoBinding, i, p)
  BY DEF Holds, NoBinding
<1>12. \A t \in Server : \A i, p : Holds(relay'[t].binding, i, p) <=> Held(t, i, p) /\ t # s
  BY <1>9, <1>11 DEF Held
<1>13. \A i \in Nat, p \in Address : Known(i, p)' => Known(i, p)
  <2> SUFFICES ASSUME NEW i \in Nat, NEW p \in Address, Known(i, p)' PROVE Known(i, p)
    OBVIOUS
  <2>1. CASE \E r \in net' : Tells(r) /\ r.entry = i /\ r.peer = p
    BY <1>1, <1>7, <2>1 DEF Known, Tells
  <2>2. CASE \E t \in Server : Held(t, i, p)'
    BY <1>12, <2>2 DEF Held, Known
  <2> QED BY <2>1, <2>2 DEF Known, Tells
<1>14. Agreed'
  BY <1>3, <1>4, <1>5, <1>13, AgreedKeeps DEF RelayInv
<1>15. StillHeld'
  <2>1. ASSUME NEW r \in net', r.kind = "locked", r.lock
        PROVE  Holds(relay'[r.server].binding, r.entry, r.peer)
    <3>1. PICK m \in net : r = still(m)
      BY <1>1
    <3>2. /\ m.kind = "locked" /\ m.lock /\ m.server # s
          /\ r.server = m.server /\ r.entry = m.entry /\ r.peer = m.peer
      BY <1>7, <2>1, <3>1
    <3>3. Held(m.server, m.entry, m.peer) /\ m.server \in Server
      BY <3>2, TellsIs DEF RelayInv, StillHeld
    <3> QED BY <1>12, <3>2, <3>3
  <2>2. ASSUME NEW i \in DOMAIN z, z[i].lockedAt # 0
        PROVE  Holds(relay'[z[i].lockedAt].binding, i, z[i].addr)
    <3>1. Held(z[i].lockedAt, i, z[i].addr)
      BY <1>4, <1>5, <2>2 DEF RelayInv, StillHeld
    <3>2. z[i].lockedAt \in Server /\ z[i].lockedAt # s
      BY <1>4, <1>5, <2>2 DEF IsEntry
    <3> QED BY <1>12, <3>1, <3>2
  <2> QED BY <1>3, <2>1, <2>2 DEF StillHeld, Held
<1> QED BY <1>10, <1>14, <1>15 DEF RelayInv

\* A binding that nobody used is dropped, as any that is lost.
LEMMA OnLifetimeTimerKeeps ==
  ASSUME RelayInv, NEW s \in Server, OnLifetimeTimer(s)
  PROVE  RelayInv'
<1>1. UNCHANGED <<case, astray>> /\ CaseOK'
  BY DEF OnLifetimeTimer, RelayInv, Shape, CaseOK
<1>2. CASE Lost(s, TRUE)
  <2>1. TRUE \in BOOLEAN
    OBVIOUS
  <2> QED BY <1>1, <1>2, <2>1, LostKeeps
<1>3. CASE /\ relay' = [relay EXCEPT ![s].binding.used = FALSE]
           /\ UNCHANGED <<port, net>>
  <2> DEFINE b == [relay[s].binding EXCEPT !.used = FALSE]
  <2>1. relay[s].binding \in Bound /\ relay \in [Server -> [up : BOOLEAN, binding : Bound]]
    BY DEF RelayInv, Shape
  <2>2. b \in Bound /\ b.internal = relay[s].binding.internal
    <3>1. FALSE \in BOOLEAN
      OBVIOUS
    <3> QED BY <2>1, <3>1 DEF Bound
  <2>3. relay' = [relay EXCEPT ![s] = [@ EXCEPT !.binding = b]]
    BY <1>3
  <2>5. relay[s].binding = NoBinding => b = NoBinding
    <3> DEFINE none(x, i, e) == [used |-> x, checked |-> x, internal |-> i, external |-> e,
                                 open |-> e]
               unused(x, i, e) == [none(x, i, e) EXCEPT !.used = x]
    <3>1. \A x, i, e : unused(x, i, e) = none(x, i, e)
      OBVIOUS
    <3>2. NoBinding = none(FALSE, <<>>, {})
          /\ [NoBinding EXCEPT !.used = FALSE] = unused(FALSE, <<>>, {})
      BY DEF NoBinding
    <3> HIDE DEF none, unused
    <3> QED BY <3>1, <3>2, Zenon
  <2> HIDE DEF b
  <2>6. /\ relay' \in [Server -> [up : BOOLEAN, binding : Bound]]
        /\ relay'[s].binding = b
        /\ \A t \in Server : t # s => relay'[t] = relay[t]
    BY <2>1, <2>2, <2>3
  <2>7. Shape'
    <3>1. \A t \in Server : relay'[t].binding = NoBinding \/ relay'[t].binding.internal # <<>>
      BY <2>2, <2>5, <2>6 DEF RelayInv, Shape
    <3> QED BY <1>1, <1>3, <2>6, <3>1 DEF RelayInv, Shape
  <2>8. \A t \in Server : \A i, p : Holds(relay'[t].binding, i, p) <=> Held(t, i, p)
    BY <2>2, <2>6 DEF Held, Holds
  <2>9. \A i \in Nat, p \in Address : Known(i, p)' => Known(i, p)
    BY <1>3, <2>8 DEF Known, Held, Tells
  <2>10. Agreed'
    BY <1>3, <2>9, AgreedKeeps DEF RelayInv
  <2>11. StillHeld'
    <3>1. \A m \in net : m.server \in Server
      BY TellsIs
    <3>2. \A i \in DOMAIN port.entries : port.entries[i].lockedAt \in {0} \cup Server
      BY DEF RelayInv, Shape, IsEntry
    <3> QED BY <1>3, <2>8, <3>1, <3>2 DEF RelayInv, StillHeld, Held
  <2> QED BY <1>1, <2>7, <2>10, <2>11 DEF RelayInv
<1> QED BY <1>2, <1>3 DEF OnLifetimeTimer

\* When the port goes, what is on its way and what servers hold still agree.
LEMMA CloseKeeps ==
  ASSUME RelayInv, Close
  PROVE  RelayInv'
<1>1. port' = [port EXCEPT !.open = FALSE, !.entries = <<>>]
      /\ UNCHANGED <<relay, net, case, astray>>
  BY DEF Close
<1>2. port' = [open |-> FALSE, published |-> port.published, entries |-> <<>>]
  <2> DEFINE o(x) == [port EXCEPT !.open = x]
             c(x) == [o(x) EXCEPT !.entries = <<>>]
  <2>1. \A x : o(x) = [open |-> x, published |-> port.published, entries |-> port.entries]
    BY DEF RelayInv, Shape
  <2> HIDE DEF o
  <2>2. \A x : c(x) = [open |-> x, published |-> port.published, entries |-> <<>>]
    BY <2>1
  <2>3. port' = c(FALSE)
    BY <1>1 DEF o
  <2> HIDE DEF c
  <2> QED BY <2>2, <2>3, Zenon
<1>3. ~port'.open /\ port'.published = port.published /\ port'.entries = <<>>
  BY <1>2
<1>4. port' = [open |-> port'.open, published |-> port'.published, entries |-> port'.entries]
      /\ port'.open \in BOOLEAN
  BY <1>2
<1>5. Listed(<<>>) /\ DOMAIN <<>> = {}
  BY DEF Listed
<1>6. Shape'
  BY <1>1, <1>3, <1>4, <1>5 DEF RelayInv, Shape, CaseOK
<1>7. \A t, i, r : Held(t, i, r)' <=> Held(t, i, r)
  BY <1>1 DEF Held, Holds
<1>8. \A i \in Nat, r \in Address : Known(i, r)' => Known(i, r)
  BY <1>1, <1>7 DEF Known, Tells
<1>9. Agreed'
  BY <1>3, <1>8, AgreedKeeps DEF RelayInv
<1>10. StillHeld'
  BY <1>1, <1>3, <1>5, <1>7 DEF RelayInv, StillHeld
<1> QED BY <1>1, <1>6, <1>9, <1>10 DEF RelayInv

\* A packet that is lost is one fewer.
LEMMA LoseKeeps ==
  ASSUME RelayInv, NEW m \in net, Lose(m)
  PROVE  RelayInv'
<1>1. CaseOK'
  BY FaultOK DEF Lose, RelayInv, Shape
<1> QED BY <1>1, LessNet DEF Lose

\* A server that goes down loses its binding,
LEMMA GoesDownKeeps ==
  ASSUME RelayInv, NEW s \in Server, GoesDown(s)
  PROVE  RelayInv'
<1>1. CaseOK'
  BY FaultOK DEF GoesDown, RelayInv, Shape
<1>2. FALSE \in BOOLEAN
  OBVIOUS
<1> QED BY <1>1, <1>2, LostKeeps DEF GoesDown

\* and so does one that is restarted.
LEMMA ForgetKeeps ==
  ASSUME RelayInv, NEW s \in Server, Forget(s)
  PROVE  RelayInv'
<1>1. CaseOK'
  BY FaultOK DEF Forget, RelayInv, Shape
<1>2. TRUE \in BOOLEAN
  OBVIOUS
<1> QED BY <1>1, <1>2, LostKeeps DEF Forget

-----------------------------------------------------------------------------
(* What the port sends                                                       *)

\* A new entry has its address, and no lock.
LEMMA NewEntryIs ==
  ASSUME NEW addr \in Address, NEW s \in Nat \ {0}
  PROVE  IsEntry(NewEntry(addr, s)) /\ NewEntry(addr, s).addr = addr
         /\ NewEntry(addr, s).lockedAt = 0
<1>1. FALSE \in BOOLEAN
  OBVIOUS
<1> QED BY <1>1 DEF NewEntry, IsEntry

\* The port's entries are es, or these with an address or an entry more.
More(es) ==
  /\ Listed(es) /\ es # <<>> /\ DOMAIN port.entries \subseteq DOMAIN es
  /\ \A i \in DOMAIN es :
       /\ IsEntry(es[i])
       /\ IF i \in DOMAIN port.entries
          THEN /\ es[i].lockedAt = port.entries[i].lockedAt
               /\ port.entries[i].addr # AnyAddress => es[i].addr = port.entries[i].addr
          ELSE es[i].lockedAt = 0

\* "it can be set to the first address that comes along"
LEMMA AddressGiven ==
  ASSUME RelayInv, port.open, NEW p \in Peer, NEW k \in DOMAIN port.entries,
         port.entries[k].addr \in {AnyAddress, p}
  PROVE  More([port.entries EXCEPT ![k].addr = p])
<1> DEFINE e == port.entries[k]
           f == [e EXCEPT !.addr = p]
           es == [port.entries EXCEPT ![k] = f]
<1>1. /\ Len(port.entries) \in Nat /\ DOMAIN port.entries = 1 .. Len(port.entries)
      /\ port.entries = [i \in 1 .. Len(port.entries) |-> port.entries[i]]
      /\ \A i \in DOMAIN port.entries : IsEntry(port.entries[i])
  BY ListedIs DEF RelayInv, Shape
<1>2. f = [addr |-> p, server |-> e.server, socket |-> e.socket,
           connected |-> e.connected, locked |-> e.locked, lockedAt |-> e.lockedAt,
           requests |-> e.requests]
  <2>1. IsEntry(e)
    BY <1>1
  <2> HIDE DEF e
  <2> QED BY <2>1 DEF IsEntry
<1> HIDE DEF f
<1>3. IsEntry(f) /\ f.addr = p /\ f.lockedAt = e.lockedAt
  <2>1. IsEntry(e)
    BY <1>1
  <2> HIDE DEF e
  <2> QED BY <1>2, <2>1 DEF IsEntry, Address
<1>4. DOMAIN es = DOMAIN port.entries /\ es[k] = f
      /\ \A i \in DOMAIN port.entries : i # k => es[i] = port.entries[i]
  OBVIOUS
<1>5. Listed(es) /\ es # <<>>
  <2>1. es = [i \in 1 .. Len(port.entries) |-> es[i]]
    BY <1>1
  <2>2. k \in 1 .. Len(port.entries)
    BY <1>1
  <2>3. Len(port.entries) # 0
    BY <1>1, <2>2
  <2> HIDE DEF es
  <2> QED BY <1>1, <2>1, <2>3, ListedWhen
<1>6. es = [port.entries EXCEPT ![k].addr = p]
  BY DEF f
<1> HIDE DEF es
<1>7. More(es)
  BY <1>1, <1>3, <1>4, <1>5 DEF More
<1> QED BY <1>6, <1>7

\* A new entry comes last.
LEMMA EntryAdded ==
  ASSUME RelayInv, port.open, NEW f, IsEntry(f), f.lockedAt = 0
  PROVE  More(Append(port.entries, f))
<1> DEFINE n == Len(port.entries)
           S == {port.entries[i] : i \in DOMAIN port.entries} \cup {f}
           es == Append(port.entries, f)
<1>1. /\ n \in Nat /\ DOMAIN port.entries = 1 .. n
      /\ port.entries = [i \in 1 .. n |-> port.entries[i]]
      /\ \A i \in DOMAIN port.entries : IsEntry(port.entries[i])
  BY ListedIs DEF RelayInv, Shape
<1>2. \A i \in 1 .. n : port.entries[i] \in S
  BY <1>1
<1>3. f \in S
  OBVIOUS
<1> HIDE DEF S
<1>4. port.entries \in Seq(S)
  <2>1. port.entries \in [1 .. n -> S]
    <3> HIDE DEF n
    <3> QED BY <1>1, <1>2
  <2> HIDE DEF n
  <2> QED BY <1>1, <2>1
<1>5. es \in Seq(S) /\ Len(es) = n + 1 /\ es[n + 1] = f
      /\ \A i \in 1 .. n : es[i] = port.entries[i]
  BY <1>3, <1>4
<1> HIDE DEF es
<1>6. DOMAIN es = 1 .. n + 1 /\ es = [i \in 1 .. n + 1 |-> es[i]]
  BY <1>5
<1>7. Listed(es) /\ es # <<>>
  <2>1. n + 1 \in Nat /\ n + 1 # 0
    BY <1>1
  <2> HIDE DEF n
  <2> QED BY <1>6, <2>1, ListedWhen
<1>8. \A i \in DOMAIN es : (i \in DOMAIN port.entries /\ es[i] = port.entries[i])
                           \/ (i \notin DOMAIN port.entries /\ es[i] = f)
  BY <1>1, <1>5, <1>6
<1>9. DOMAIN port.entries \subseteq DOMAIN es
  BY <1>1, <1>6
<1>10. More(es)
  BY <1>1, <1>7, <1>8, <1>9 DEF More
<1> QED BY <1>10 DEF es

\* RelayPort::SendTo gives the first entry its address, or adds one.
LEMMA PreparedIs ==
  ASSUME RelayInv, port.open, NEW p \in Peer, NEW payload \in BOOLEAN
  PROVE  More(Prepared(p, payload))
<1> DEFINE found == Matches(p, payload)
           fresh == NewEntry(p, port.entries[1].server)
<1>1. /\ Len(port.entries) \in Nat /\ DOMAIN port.entries = 1 .. Len(port.entries)
      /\ port.entries = [i \in 1 .. Len(port.entries) |-> port.entries[i]]
      /\ \A i \in DOMAIN port.entries : IsEntry(port.entries[i])
      /\ port.entries # <<>>
  BY ListedIs DEF RelayInv, Shape
<1>2. 1 \in DOMAIN port.entries
  BY <1>1
<1>3. CASE found # {}
  <2>1. found \in SUBSET Nat
    BY <1>1 DEF Matches
  <2>2. Min(found) \in found
    BY <1>3, <2>1, LeastOf
  <2>3. Min(found) \in DOMAIN port.entries
        /\ port.entries[Min(found)].addr \in {AnyAddress, p}
    BY <2>2 DEF Matches
  <2>4. Prepared(p, payload) = [port.entries EXCEPT ![Min(found)].addr = p]
    BY <1>3 DEF Prepared
  <2> HIDE DEF found
  <2> QED BY <2>3, <2>4, AddressGiven
<1>4. CASE found = {} /\ payload
  <2> DEFINE i == Len(port.entries) + 1
  <2>1. Prepared(p, payload) = Append(port.entries, Connect(fresh, i))
    BY <1>4 DEF Prepared
  <2>2. IsEntry(fresh) /\ fresh.lockedAt = 0
    <3>1. port.entries[1].server \in Nat \ {0} /\ p \in Address
      BY <1>1, <1>2 DEF IsEntry, Address
    <3> QED BY <3>1, NewEntryIs
  <2>3. Same(fresh, Connect(fresh, i))
    BY <2>2, ConnectIs
  <2> QED BY <2>1, <2>2, <2>3, EntryAdded DEF Same
<1>5. CASE found = {} /\ ~payload
  <2>1. Prepared(p, payload) = port.entries
    BY <1>5 DEF Prepared
  <2>2. Listed(port.entries)
    BY DEF RelayInv, Shape
  <2>3. More(port.entries)
    BY <1>1, <2>2 DEF More
  <2> QED BY <2>1, <2>3
<1> QED BY <1>3, <1>4, <1>5

\* There is always an entry that sends.
LEMMA SenderIs ==
  ASSUME NEW es, Listed(es), es # <<>>, NEW p
  PROVE  Sender(es, p) \in DOMAIN es /\ Sender(es, p) \in Nat \ {0}
<1> DEFINE own == {i \in DOMAIN es : es[i].addr = p /\ es[i].connected}
<1>1. Len(es) \in Nat /\ DOMAIN es = 1 .. Len(es) /\ es = [i \in 1 .. Len(es) |-> es[i]]
  BY ListedIs
<1>2. 1 \in DOMAIN es
  BY <1>1
<1>3. own \in SUBSET Nat /\ own \subseteq DOMAIN es
  BY <1>1
<1>4. Sender(es, p) = IF own # {} THEN Min(own) ELSE 1
  BY DEF Sender
<1> HIDE DEF own
<1>5. Sender(es, p) \in DOMAIN es
  BY <1>2, <1>3, <1>4, LeastOf
<1> QED BY <1>1, <1>5

\* RelayPort::SendTo: only what goes to an entry's own peer is unwrapped, or locks.
LEMMA SendToKeeps ==
  ASSUME RelayInv, NEW p \in case.peers, NEW payload \in BOOLEAN, SendTo(p, payload)
  PROVE  RelayInv'
<1> DEFINE es == Prepared(p, payload)
           i == Sender(es, p)
           e == es[i]
           q == Wrapped(e, i, p)
<1>1. port.open /\ port' = [port EXCEPT !.entries = es]
      /\ UNCHANGED <<relay, case, astray>>
      /\ net' = IF e.connected THEN net \cup {q} ELSE net
  BY DEF SendTo
<1>2. p \in Peer /\ p \in Address /\ p # AnyAddress
  BY RelayAssumption DEF RelayInv, Shape, CaseOK, Address
<1>3. More(es)
  BY <1>1, <1>2, PreparedIs
<1>4. i \in DOMAIN es /\ i \in Nat \ {0} /\ IsEntry(e)
  <2>1. Listed(es) /\ es # <<>>
    BY <1>3 DEF More
  <2>2. i \in DOMAIN es /\ i \in Nat \ {0}
    <3> HIDE DEF es
    <3> QED BY <2>1, SenderIs
  <2> QED BY <1>3, <2>2 DEF More
<1>5. e.connected => /\ IsPacket(q) /\ q.entry = i /\ q.peer = p /\ q.kind # "locked"
                     /\ Tells(q) => e.addr = p
  <2> HIDE DEF e, i
  <2>1. SUFFICES ASSUME e.connected
                 PROVE  /\ IsPacket(q) /\ q.entry = i /\ q.peer = p /\ q.kind # "locked"
                        /\ Tells(q) => e.addr = p
    OBVIOUS
  <2>2. e.server \in Server
    BY <1>4, <2>1 DEF IsEntry
  <2>3. CASE e.addr = p
    BY <1>2, <1>4, <2>2, <2>3 DEF Wrapped, IsPacket, Tells, Inward, Outward, External
  <2>4. CASE e.addr # p
    BY <1>2, <1>4, <2>2, <2>4 DEF Wrapped, IsPacket, Tells, Inward, Outward, External
  <2> QED BY <2>3, <2>4
<1> HIDE DEF es
<1>6. port' = [open |-> port.open, published |-> port.published, entries |-> es]
  BY <1>1 DEF RelayInv, Shape
<1>7. port'.open = port.open /\ port'.published = port.published /\ port'.entries = es
  BY <1>6
<1> HIDE DEF q, e, i
<1>8. Shape'
  <2>1. \A m \in net' : IsPacket(m)
    BY <1>1, <1>5 DEF RelayInv, Shape
  <2>2. CaseOK'
    BY <1>1 DEF RelayInv, Shape, CaseOK
  <2>3. port' = [open |-> port'.open, published |-> port'.published, entries |-> port'.entries]
    BY <1>6
  <2>4. Listed(es) /\ es # <<>> /\ \A j \in DOMAIN es : IsEntry(es[j])
    BY <1>3 DEF More
  <2> QED BY <1>1, <1>7, <2>1, <2>2, <2>3, <2>4 DEF RelayInv, Shape
<1>9. \A t, j, r : Held(t, j, r)' <=> Held(t, j, r)
  BY <1>1 DEF Held, Holds
<1>10. \A j \in Nat, r \in Address :
         Known(j, r)' => \/ Known(j, r)
                         \/ /\ port'.open /\ j \in DOMAIN port'.entries
                            /\ port'.entries[j].addr = r /\ r # AnyAddress
  <2> SUFFICES ASSUME NEW j \in Nat, NEW r \in Address, Known(j, r)', ~Known(j, r)
               PROVE  /\ port'.open /\ j \in DOMAIN port'.entries
                      /\ port'.entries[j].addr = r /\ r # AnyAddress
    OBVIOUS
  <2>1. PICK m \in net' : Tells(m) /\ m.entry = j /\ m.peer = r
    BY <1>9 DEF Known, Tells
  <2>2. m \notin net
    BY <2>1 DEF Known
  <2>3. e.connected /\ m = q
    BY <1>1, <2>2
  <2>4. j = i /\ r = p /\ e.addr = p
    BY <1>5, <2>1, <2>3
  <2> QED BY <1>1, <1>2, <1>4, <1>7, <2>4 DEF e
<1>11. Agreed'
  <2>1. \A j \in DOMAIN port.entries :
          /\ j \in DOMAIN es
          /\ port.entries[j].addr # AnyAddress => es[j].addr = port.entries[j].addr
    BY <1>3 DEF More
  <2> QED BY <1>7, <1>10, <2>1, AgreedKeeps DEF RelayInv
<1>12. StillHeld'
  <2>1. ASSUME NEW m \in net', m.kind = "locked", m.lock
        PROVE  Held(m.server, m.entry, m.peer)
    BY <1>1, <1>5, <2>1 DEF RelayInv, StillHeld
  <2>2. ASSUME NEW j \in DOMAIN es, es[j].lockedAt # 0
        PROVE  Held(es[j].lockedAt, j, es[j].addr)
    <3>1. j \in DOMAIN port.entries /\ es[j].lockedAt = port.entries[j].lockedAt
      BY <1>3, <2>2 DEF More
    <3>2. Held(port.entries[j].lockedAt, j, port.entries[j].addr)
      BY <2>2, <3>1 DEF RelayInv, StillHeld
    <3>3. IsEntry(port.entries[j]) /\ j \in Nat
      BY <3>1, ListedIs DEF RelayInv, Shape
    <3>4. Known(j, port.entries[j].addr) /\ port.entries[j].addr \in Address
      BY <2>2, <3>1, <3>2, <3>3 DEF Known, IsEntry
    <3>5. port.entries[j].addr # AnyAddress
      BY <3>3, <3>4 DEF RelayInv, Agreed
    <3>6. es[j].addr = port.entries[j].addr
      BY <1>3, <2>2, <3>1, <3>5 DEF More
    <3> QED BY <3>1, <3>2, <3>6
  <2> QED BY <1>1, <1>7, <2>1, <2>2 DEF StillHeld, Held
<1> QED BY <1>1, <1>8, <1>11, <1>12 DEF RelayInv

-----------------------------------------------------------------------------
(* The theorems                                                              *)

\* At the start nobody knows of any peer.
LEMMA InitKeeps == Init => RelayInv
<1> SUFFICES ASSUME Init PROVE RelayInv
  OBVIOUS
<1> DEFINE e == Connect(NewEntry(AnyAddress, case.first), 1)
<1>1. CaseOK
  BY RelayAssumption DEF Init, CaseOK, Server
<1>2. IsEntry(e) /\ e.lockedAt = 0
  <2>1. AnyAddress \in Address /\ case.first \in Nat \ {0}
    BY <1>1 DEF CaseOK, Address, Server
  <2>2. IsEntry(NewEntry(AnyAddress, case.first)) /\ NewEntry(AnyAddress, case.first).lockedAt = 0
    BY <2>1, NewEntryIs
  <2> QED BY <2>2, ConnectIs DEF Same
<1>3. port = [open |-> TRUE, published |-> {}, entries |-> <<e>>] /\ net = {} /\ astray = FALSE
      /\ relay = [s \in Server |-> [up |-> TRUE, binding |-> NoBinding]]
  BY DEF Init
<1> HIDE DEF e
<1>4. Listed(<<e>>) /\ DOMAIN <<e>> = {1} /\ <<e>>[1] = e /\ <<e>> # <<>>
  BY DEF Listed
<1>5. TRUE \in BOOLEAN /\ FALSE \in BOOLEAN /\ <<>> \in Seq(Connection)
      /\ {} \in SUBSET Address /\ {} \in SUBSET Server
  OBVIOUS
<1>6. NoBinding \in Bound /\ \A i, p : ~Holds(NoBinding, i, p)
  BY <1>5 DEF NoBinding, Bound, Holds
<1>7. port.open /\ port.published = {} /\ port.entries = <<e>>
      /\ port = [open |-> port.open, published |-> port.published, entries |-> port.entries]
      /\ port.open \in BOOLEAN
  BY <1>3
<1>8. relay \in [Server -> [up : BOOLEAN, binding : Bound]]
      /\ \A s \in Server : relay[s].binding = NoBinding
  BY <1>3, <1>5, <1>6
<1>9. Shape
  BY <1>1, <1>2, <1>3, <1>4, <1>7, <1>8 DEF Shape
<1>10. \A i, p : ~Known(i, p)
  BY <1>3, <1>6, <1>8 DEF Known, Held
<1>11. Agreed /\ StillHeld
  BY <1>2, <1>3, <1>4, <1>7, <1>10 DEF Agreed, StillHeld
<1> QED BY <1>3, <1>9, <1>11 DEF RelayInv

\* Nothing happens.
LEMMA StutterKeeps ==
  ASSUME RelayInv, UNCHANGED vars
  PROVE  RelayInv'
<1>1. UNCHANGED <<port, relay, astray>> /\ net' \subseteq net /\ CaseOK'
  BY DEF vars, RelayInv, Shape, CaseOK
<1> QED BY <1>1, LessNet

\* Every step keeps the invariant.
LEMMA NextKeeps == RelayInv /\ [Next]_vars => RelayInv'
<1> SUFFICES ASSUME RelayInv, [Next]_vars PROVE RelayInv'
  OBVIOUS
<1>1. CASE Close
  BY <1>1, CloseKeeps
<1>2. CASE \E i \in Entry : OnSocketConnect(i)
  BY <1>2, OnSocketConnectKeeps
<1>3. CASE \E i \in Entry : OnSocketClose(i)
  BY <1>3, OnSocketCloseKeeps
<1>4. CASE \E i \in Entry : \E r \in Requests(i) : SendRequest(i, r)
  BY <1>4, SendRequestKeeps
<1>5. CASE \E i \in Entry : \E r \in Requests(i) : RequestTimesOut(i, r)
  BY <1>5, RequestTimesOutKeeps
<1>6. CASE \E p \in case.peers, payload \in BOOLEAN : SendTo(p, payload)
  BY <1>6, SendToKeeps
<1>7. CASE \E p \in case.peers, s \in Server, kind \in External : PeerSends(p, s, kind)
  BY <1>7, PeerSendsKeeps
<1>8. CASE \E m \in net : OnInternalPacket(m)
  BY <1>8, OnInternalPacketKeeps
<1>9. CASE \E m \in net : OnExternalPacket(m)
  BY <1>9, OnExternalPacketKeeps
<1>10. CASE \E m \in net : OnReadPacket(m)
  BY <1>10, OnReadPacketKeeps
<1>11. CASE \E m \in net : Lose(m)
  BY <1>11, LoseKeeps
<1>12. CASE \E s \in Server : OnLifetimeTimer(s)
  BY <1>12, OnLifetimeTimerKeeps
<1>13. CASE \E s \in Server : GoesDown(s)
  BY <1>13, GoesDownKeeps
<1>14. CASE \E s \in Server : Forget(s)
  BY <1>14, ForgetKeeps
<1>15. CASE UNCHANGED vars
  BY <1>15, StutterKeeps
<1> QED BY <1>1, <1>2, <1>3, <1>4, <1>5, <1>6, <1>7, <1>8, <1>9, <1>10, <1>11, <1>12,
           <1>13, <1>14, <1>15 DEF Next

\* In every state all who know of an entry's peer know of the same, and a server still
\* holds what it says, or is remembered, to have locked.
THEOREM RelayInvariant == Spec => []RelayInv
BY InitKeeps, NextKeeps, PTL DEF Spec

\* No packet is taken for one of another peer, or goes to another: the wrapper is left
\* out only where both ends mean the same.
THEOREM PacketsFindTheirPeer == Spec => []RightPeer
<1>1. RelayInv => RightPeer
  BY DEF RelayInv, RightPeer
<1> QED BY <1>1, RelayInvariant, PTL

\* An entry that is locked by the server it is at, and which that server has not
\* forgotten, has a connection there that is locked to the entry's peer.
THEOREM LocksAreMutual == Spec => []LockIsMutual
<1>1. RelayInv => LockIsMutual
  <2>1. SUFFICES ASSUME RelayInv, NEW i \in DOMAIN port.entries,
                        port.entries[i].lockedAt = port.entries[i].server
                 PROVE  Held(port.entries[i].server, i, port.entries[i].addr)
    BY DEF LockIsMutual, Held, Holds
  <2>2. port.entries[i].server # 0
    <3>1. IsEntry(port.entries[i])
      BY <2>1 DEF RelayInv, Shape
    <3> QED BY <3>1 DEF IsEntry
  <2> QED BY <2>1, <2>2 DEF RelayInv, StillHeld
<1> QED BY <1>1, RelayInvariant, PTL

==============================================================================
