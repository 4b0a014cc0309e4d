---------------------------- MODULE P2PChannel_proofs ----------------------------
(* Theorems about P2PChannel.  A step makes one world of the channel, its        *)
(* connections and its ports of another, by one operator after the other: what   *)
(* is good of a world is said of any, and each operator is shown to keep it.     *)
EXTENDS P2PChannel, FiniteSetTheorems, WellFoundedInduction, TLAPS

-----------------------------------------------------------------------------
(* The invariant                                                             *)

Write == {"writable", "connect", "timeout"}

Connection ==
  [on : BOOLEAN, read : {"timeout", "readable"}, write : Write, pruned : BOOLEAN,
   asked : BOOLEAN, unanswered : BOOLEAN, delete : BOOLEAN, made : BOOLEAN]

Channel ==
  [list : SUBSET Port, best : Pair \cup {NoPair}, writable : BOOLEAN, readable : BOOLEAN,
   was_writable : BOOLEAN, was_timed_out : BOOLEAN, sort : BOOLEAN,
   waiting : BOOLEAN, allocate : BOOLEAN, pinging : BOOLEAN,
   remote : SUBSET Remote, getting : Seq(BOOLEAN), order : Seq(Pair), rested : BOOLEAN]

\* What the channel, its connections and its ports are.
Worlds ==
  [chan : Channel, conn : [Pair -> Connection],
   port : [Port -> {"none", "prestart", "pretimeout", "posttimeout", "gone"}]]

\* A connection that is not there can do nothing.
Off(w) ==
  \A c \in Pair : /\ w.conn[c].on => w.conn[c].made
                  /\ w.conn[c].write = "writable" => w.conn[c].on

\* The flags that new ports are asked by tell what the channel went through.
Flags(w) ==
  /\ w.chan.was_writable = w.chan.writable
  /\ w.chan.was_timed_out => ~w.chan.writable
  /\ ~w.chan.writable => w.chan.waiting \/ w.chan.allocate

Tried(w) == \A p \in w.chan.list, r \in w.chan.remote : w.conn[<<p, r>>].made

\* The ports that the channel and the connections use are there.
Held(w) ==
  /\ \A p \in w.chan.list : PortLives(w, p)
  /\ \A c \in Live(w) : PortLives(w, c[1])

\* The best connection is there.
BestHeld(w) == w.chan.best \in Live(w) \cup {NoPair}

\* The pings go round the connections.
Ordered(w) == ToSet(w.chan.order) = Live(w) /\ IsInjective(w.chan.order)

\* The channel says it is writable when its best connection is.
Follows(w) ==
  w.chan.writable # (w.chan.best # NoPair /\ w.conn[w.chan.best].write = "writable") => w.chan.sort

\* What holds of a world to which ports or candidates were added, ...
Sound(w) == w \in Worlds /\ Off(w) /\ Flags(w) /\ Held(w) /\ Ordered(w)

\* ... of one that is to be sorted, ...
Sane(w) == Sound(w) /\ Tried(w)

\* ... and of what a step ends with.

Good(w) == Sane(w) /\ BestHeld(w) /\ Follows(w)

-----------------------------------------------------------------------------
(* Types                                                                     *)

\* The fields of a world.
LEMMA WorldFields ==
  ASSUME NEW w \in Worlds
  PROVE  /\ w.chan \in Channel /\ w.conn \in [Pair -> Connection]
         /\ w.port \in [Port -> {"none", "prestart", "pretimeout", "posttimeout", "gone"}]
         /\ w = [chan |-> w.chan, conn |-> w.conn, port |-> w.port]
BY DEF Worlds

\* The fields of a connection.
LEMMA ConnectionFields ==
  ASSUME NEW k \in Connection
  PROVE  /\ k.on \in BOOLEAN /\ k.made \in BOOLEAN /\ k.delete \in BOOLEAN
         /\ k.read \in {"timeout", "readable"} /\ k.write \in Write /\ k.pruned \in BOOLEAN
BY DEF Connection

\* No pair is none.
LEMMA NoPairIsNone == NoPair \notin Pair
BY DEF NoPair, Pair

-----------------------------------------------------------------------------
(* What changes connections, and asks for a sort                              *)

\* x is w with other states of connections, and perhaps a sort that is asked for; none
\* comes or goes.
Alike(w, x) ==
  /\ x \in Worlds /\ x.port = w.port
  /\ \E sort \in BOOLEAN : x.chan = [w.chan EXCEPT !.sort = sort] /\ (w.chan.sort => sort)
  /\ \A c \in Pair : /\ x.conn[c].on = w.conn[c].on /\ x.conn[c].made = w.conn[c].made
                     /\ w.conn[c].delete => x.conn[c].delete

\* x is w but for the connection c, which cannot be written on if it could not, and
\* a sort if its state is another.
OnlyOn(w, x, c) ==
  /\ Alike(w, x)
  /\ \A d \in Pair \ {c} : x.conn[d] = w.conn[d]
  /\ x.conn[c].write # w.conn[c].write => x.chan.sort

\* A connection gets to a state, and the channel knows.
LEMMA SetWriteOnly ==
  ASSUME NEW w \in Worlds, NEW c \in Pair, NEW value \in Write
  PROVE  OnlyOn(w, SetWrite(w, c, value), c) /\ SetWrite(w, c, value).conn[c].write = value
<1> DEFINE k == [w.conn[c] EXCEPT !.write = value]
           l == [k EXCEPT !.delete = @ \/ (k.read = "timeout" /\ k.write = "timeout")]
           ch == [w.chan EXCEPT !.sort = TRUE]
           x == [chan |-> ch, conn |-> [w.conn EXCEPT ![c] = l], port |-> w.port]
<1>1. w.conn[c] \in Connection /\ w.chan \in Channel
  BY WorldFields
<1>2. CASE w.conn[c].write = value
  <2>1. SetWrite(w, c, value) = w
    BY <1>2 DEF SetWrite
  <2>2. w.chan.sort \in BOOLEAN /\ w.chan = [w.chan EXCEPT !.sort = w.chan.sort]
    BY <1>1 DEF Channel
  <2> QED BY <1>2, <2>1, <2>2 DEF OnlyOn, Alike
<1>3. CASE w.conn[c].write # value
  <2>1. SetWrite(w, c, value) = x
    BY <1>1, <1>3, WorldFields DEF SetWrite, CheckTimeout, RequestSort, Worlds
  <2>2. k \in Connection /\ k.write = value /\ k.on = w.conn[c].on /\ k.made = w.conn[c].made
        /\ k.delete = w.conn[c].delete
    BY <1>1 DEF Connection
  <2> HIDE DEF k
  <2>3. l \in Connection /\ l.write = value /\ l.on = k.on /\ l.made = k.made
        /\ (k.delete => l.delete)
    BY <2>2 DEF Connection
  <2> HIDE DEF l
  <2>4. ch \in Channel /\ ch.sort
    BY <1>1 DEF Channel
  <2>5. x \in Worlds /\ x.conn[c] = l /\ \A d \in Pair \ {c} : x.conn[d] = w.conn[d]
    BY <2>3, <2>4, WorldFields DEF Worlds
  <2>6. x.port = w.port /\ x.chan = [w.chan EXCEPT !.sort = TRUE] /\ x.chan.sort
    BY <2>4
  <2> HIDE DEF x
  <2>7. Alike(w, x)
    BY <2>2, <2>3, <2>5, <2>6 DEF Alike
  <2> QED BY <2>1, <2>2, <2>3, <2>5, <2>6, <2>7 DEF OnlyOn
<1> QED BY <1>2, <1>3

\* The same when the peer is heard of, or not for long.
LEMMA SetReadOnly ==
  ASSUME NEW w \in Worlds, NEW c \in Pair, NEW value \in {"timeout", "readable"}
  PROVE  OnlyOn(w, SetRead(w, c, value), c)
         /\ SetRead(w, c, value).conn[c].write = w.conn[c].write
<1> DEFINE k == [w.conn[c] EXCEPT !.read = value]
           l == [k EXCEPT !.delete = @ \/ (k.read = "timeout" /\ k.write = "timeout")]
           ch == [w.chan EXCEPT !.sort = TRUE]
           x == [chan |-> ch, conn |-> [w.conn EXCEPT ![c] = l], port |-> w.port]
<1>1. w.conn[c] \in Connection /\ w.chan \in Channel
  BY WorldFields
<1>2. CASE w.conn[c].read = value
  <2>1. SetRead(w, c, value) = w
    BY <1>2 DEF SetRead
  <2>2. w.chan.sort \in BOOLEAN /\ w.chan = [w.chan EXCEPT !.sort = w.chan.sort]
    BY <1>1 DEF Channel
  <2> QED BY <1>2, <2>1, <2>2 DEF OnlyOn, Alike
<1>3. CASE w.conn[c].read # value
  <2>1. SetRead(w, c, value) = x
    BY <1>1, <1>3, WorldFields DEF SetRead, CheckTimeout, RequestSort, Worlds
  <2>2. k \in Connection /\ k.write = w.conn[c].write /\ k.on = w.conn[c].on
        /\ k.made = w.conn[c].made /\ k.delete = w.conn[c].delete
    BY <1>1 DEF Connection
  <2> HIDE DEF k
  <2>3. l \in Connection /\ l.write = k.write /\ l.on = k.on /\ l.made = k.made
        /\ (k.delete => l.delete)
    BY <2>2 DEF Connection
  <2> HIDE DEF l
  <2>4. ch \in Channel /\ ch.sort
    BY <1>1 DEF Channel
  <2>5. x \in Worlds /\ x.conn[c] = l /\ \A d \in Pair \ {c} : x.conn[d] = w.conn[d]
    BY <2>3, <2>4, WorldFields DEF Worlds
  <2>6. x.port = w.port /\ x.chan = [w.chan EXCEPT !.sort = TRUE] /\ x.chan.sort
    BY <2>4
  <2> HIDE DEF x
  <2>7. Alike(w, x)
    BY <2>2, <2>3, <2>5, <2>6 DEF Alike
  <2> QED BY <2>1, <2>2, <2>3, <2>5, <2>6, <2>7 DEF OnlyOn
<1> QED BY <1>2, <1>3

\* A connection is different in what tells neither that it is there nor its state.
LEMMA ConnectionOnly ==
  ASSUME NEW w \in Worlds, NEW c \in Pair, NEW k \in Connection, k.on = w.conn[c].on,
         k.made = w.conn[c].made, w.conn[c].delete => k.delete, k.write = w.conn[c].write
  PROVE  LET x == [w EXCEPT !.conn[c] = k]
         IN OnlyOn(w, x, c) /\ x.conn[c] = k /\ x.chan = w.chan
<1> DEFINE x == [w EXCEPT !.conn[c] = k]
<1>1. /\ x \in Worlds /\ x.port = w.port /\ x.chan = w.chan /\ x.conn[c] = k
      /\ \A d \in Pair \ {c} : x.conn[d] = w.conn[d]
  BY WorldFields DEF Worlds
<1>2. w.chan.sort \in BOOLEAN /\ w.chan = [w.chan EXCEPT !.sort = w.chan.sort]
  BY WorldFields DEF Channel
<1> HIDE DEF x
<1>3. Alike(w, x)
  BY <1>1, <1>2 DEF Alike
<1>4. OnlyOn(w, x, c)
  BY <1>1, <1>3 DEF OnlyOn
<1> QED BY <1>1, <1>4 DEF x

\* A world is like itself.
LEMMA AlikeSelf ==
  ASSUME NEW w \in Worlds
  PROVE  Alike(w, w) /\ \A c \in Pair : OnlyOn(w, w, c)
<1>1. w.chan.sort \in BOOLEAN /\ w.chan = [w.chan EXCEPT !.sort = w.chan.sort]
  BY WorldFields DEF Channel
<1>2. Alike(w, w)
  BY <1>1 DEF Alike
<1> QED BY <1>2 DEF OnlyOn

\* What is like a world is like what that is like.
LEMMA AlikeAgain ==
  ASSUME NEW w \in Worlds, NEW x, NEW y, Alike(w, x), Alike(x, y)
  PROVE  Alike(w, y)
<1>1. PICK s \in BOOLEAN : x.chan = [w.chan EXCEPT !.sort = s] /\ (w.chan.sort => s)
  BY DEF Alike
<1>2. PICK t \in BOOLEAN : y.chan = [x.chan EXCEPT !.sort = t] /\ (x.chan.sort => t)
  BY DEF Alike
<1>3. y.chan = [w.chan EXCEPT !.sort = t] /\ (w.chan.sort => t)
  BY <1>1, <1>2, WorldFields DEF Channel
<1> QED BY <1>3 DEF Alike

\* Two changes of one connection.
LEMMA OnlyOnAgain ==
  ASSUME NEW w \in Worlds, NEW x, NEW y, NEW c \in Pair, OnlyOn(w, x, c), OnlyOn(x, y, c)
  PROVE  OnlyOn(w, y, c)
<1>1. Alike(w, y)
  BY AlikeAgain DEF OnlyOn
<1>2. x.chan.sort => y.chan.sort
  <2>1. x \in Worlds /\ Alike(x, y)
    BY DEF OnlyOn, Alike
  <2>2. PICK t \in BOOLEAN : y.chan = [x.chan EXCEPT !.sort = t] /\ (x.chan.sort => t)
    BY <2>1 DEF Alike
  <2>3. x.chan \in Channel
    BY <2>1, WorldFields
  <2> QED BY <2>2, <2>3 DEF Channel
<1> QED BY <1>1, <1>2 DEF OnlyOn

\* A connection is given up.
LEMMA PruneOnly ==
  ASSUME NEW w \in Worlds, NEW c \in Pair
  PROVE  OnlyOn(w, Prune(w, c), c) /\ Prune(w, c).conn[c].write \in {w.conn[c].write, "timeout"}
<1> DEFINE k == [w.conn[c] EXCEPT !.pruned = TRUE, !.asked = FALSE]
           x == [w EXCEPT !.conn[c] = k]
<1>1. CASE w.conn[c].pruned
  BY <1>1, AlikeSelf DEF Prune
<1>2. CASE ~w.conn[c].pruned
  <2>1. [w EXCEPT !.conn[c].pruned = TRUE, !.conn[c].asked = FALSE] = x
    BY WorldFields
  <2>2. /\ k \in Connection /\ k.on = w.conn[c].on /\ k.made = w.conn[c].made
        /\ k.delete = w.conn[c].delete /\ k.write = w.conn[c].write
    <3>1. w.conn[c] \in Connection
      BY WorldFields
    <3> QED BY <3>1 DEF Connection
  <2> HIDE DEF k
  <2>3. OnlyOn(w, x, c) /\ x.conn[c] = k
    BY <2>2, ConnectionOnly
  <2> HIDE DEF x
  <2>4. OnlyOn(x, SetWrite(x, c, "timeout"), c) /\ SetWrite(x, c, "timeout").conn[c].write = "timeout"
    <3>1. x \in Worlds /\ "timeout" \in Write
      BY <2>3 DEF Write, OnlyOn, Alike
    <3> QED BY <3>1, SetWriteOnly
  <2>5. OnlyOn(w, SetWrite(x, c, "timeout"), c)
    BY <2>2, <2>3, <2>4, OnlyOnAgain
  <2> QED BY <1>2, <2>1, <2>4, <2>5 DEF Prune
<1> QED BY <1>1, <1>2

\* The peer pings.
LEMMA ReceivedPingOnly ==
  ASSUME NEW w \in Worlds, NEW c \in Pair
  PROVE  OnlyOn(w, ReceivedPing(w, c), c)
         /\ ReceivedPing(w, c).conn[c].write = w.conn[c].write
BY SetReadOnly DEF ReceivedPing

\* Something arrives on a connection that was given up for want of answers.
LEMMA StartAgainOnly ==
  ASSUME NEW w \in Worlds, NEW c \in Pair
  PROVE  OnlyOn(w, StartAgain(w, c), c)
         /\ StartAgain(w, c).conn[c].write \in {w.conn[c].write, "connect"}
         /\ (w.conn[c].write # "timeout" => StartAgain(w, c) = w)
BY AlikeSelf, SetWriteOnly DEF StartAgain, Write

\* All of S are given up.
LEMMA PruneAll ==
  ASSUME NEW w \in Worlds, NEW S \in SUBSET Pair
  PROVE  LET x == Each(w, S, Prune)
         IN /\ Alike(w, x) /\ \A c \in Pair \ S : x.conn[c] = w.conn[c]
            /\ \A c \in Pair : x.conn[c].write \in {w.conn[c].write, "timeout"}
<1> DEFINE done == [c \in S |-> Prune(w, c)]
           k == [c \in Pair |-> IF c \in S THEN done[c].conn[c] ELSE w.conn[c]]
           sort == (w.chan.sort \/ \E c \in S : done[c].chan.sort)
           x == Each(w, S, Prune)
<1>1. \A c \in S : OnlyOn(w, done[c], c)
  BY PruneOnly
<1>2. \A c \in S : done[c].conn[c].write \in {w.conn[c].write, "timeout"}
  BY PruneOnly
<1>3. x = [w EXCEPT !.conn = k, !.chan.sort = sort]
  BY DEF Each
<1> HIDE DEF done, x
<1>4. \A c \in S : done[c] \in Worlds
  BY <1>1 DEF OnlyOn, Alike
<1>5. \A c \in S : done[c].conn[c] \in Connection
  BY <1>4, WorldFields
<1>6. \A c \in Pair : w.conn[c] \in Connection
  BY WorldFields
<1>7. k \in [Pair -> Connection]
  BY <1>5, <1>6
<1>8. \A c \in S : /\ done[c].conn[c].on = w.conn[c].on /\ done[c].conn[c].made = w.conn[c].made
                   /\ w.conn[c].delete => done[c].conn[c].delete
  BY <1>1 DEF OnlyOn, Alike
<1>9. \A c \in Pair : k[c] = IF c \in S THEN done[c].conn[c] ELSE w.conn[c]
  OBVIOUS
<1>10. sort \in BOOLEAN /\ (w.chan.sort => sort)
  BY WorldFields DEF Channel
<1> HIDE DEF k, sort
<1>11. \A c \in Pair : /\ k[c].on = w.conn[c].on /\ k[c].made = w.conn[c].made
                       /\ w.conn[c].delete => k[c].delete
  BY <1>8, <1>9
<1>12. x \in Worlds /\ x = [chan |-> [w.chan EXCEPT !.sort = sort], conn |-> k, port |-> w.port]
  <2>1. x = [chan |-> [w.chan EXCEPT !.sort = sort], conn |-> k, port |-> w.port]
    BY <1>3, WorldFields DEF Worlds
  <2>2. w.chan \in Channel
    BY WorldFields
  <2>3. [w.chan EXCEPT !.sort = sort] \in Channel
    BY <1>10, <2>2 DEF Channel
  <2> QED BY <1>7, <2>1, <2>3, WorldFields DEF Worlds
<1>13. x.conn = k /\ x.port = w.port /\ x.chan = [w.chan EXCEPT !.sort = sort]
  BY <1>12
<1>14. Alike(w, x)
  BY <1>10, <1>11, <1>12, <1>13 DEF Alike
<1> QED BY <1>2, <1>9, <1>13, <1>14 DEF x

\* All of S are pinged.
LEMMA PingedAll ==
  ASSUME NEW w \in Worlds, NEW S \in SUBSET Pair
  PROVE  LET x == Each(w, S, ReceivedPing)
         IN Alike(w, x) /\ \A c \in Pair : x.conn[c].write = w.conn[c].write
<1> DEFINE done == [c \in S |-> ReceivedPing(w, c)]
           k == [c \in Pair |-> IF c \in S THEN done[c].conn[c] ELSE w.conn[c]]
           sort == (w.chan.sort \/ \E c \in S : done[c].chan.sort)
           x == Each(w, S, ReceivedPing)
<1>1. \A c \in S : OnlyOn(w, done[c], c)
  BY ReceivedPingOnly
<1>2. \A c \in S : done[c].conn[c].write = w.conn[c].write
  BY ReceivedPingOnly
<1>3. x = [w EXCEPT !.conn = k, !.chan.sort = sort]
  BY DEF Each
<1> HIDE DEF done, x
<1>4. \A c \in S : done[c] \in Worlds
  BY <1>1 DEF OnlyOn, Alike
<1>5. \A c \in S : done[c].conn[c] \in Connection
  BY <1>4, WorldFields
<1>6. \A c \in Pair : w.conn[c] \in Connection
  BY WorldFields
<1>7. k \in [Pair -> Connection]
  BY <1>5, <1>6
<1>8. \A c \in S : /\ done[c].conn[c].on = w.conn[c].on /\ done[c].conn[c].made = w.conn[c].made
                   /\ w.conn[c].delete => done[c].conn[c].delete
  BY <1>1 DEF OnlyOn, Alike
<1>9. \A c \in Pair : k[c] = IF c \in S THEN done[c].conn[c] ELSE w.conn[c]
  OBVIOUS
<1>10. sort \in BOOLEAN /\ (w.chan.sort => sort)
  BY WorldFields DEF Channel
<1> HIDE DEF k, sort
<1>11. \A c \in Pair : /\ k[c].on = w.conn[c].on /\ k[c].made = w.conn[c].made
                       /\ w.conn[c].delete => k[c].delete
  BY <1>8, <1>9
<1>12. x \in Worlds /\ x = [chan |-> [w.chan EXCEPT !.sort = sort], conn |-> k, port |-> w.port]
  <2>1. x = [chan |-> [w.chan EXCEPT !.sort = sort], conn |-> k, port |-> w.port]
    BY <1>3, WorldFields DEF Worlds
  <2>2. w.chan \in Channel
    BY WorldFields
  <2>3. [w.chan EXCEPT !.sort = sort] \in Channel
    BY <1>10, <2>2 DEF Channel
  <2> QED BY <1>7, <2>1, <2>3, WorldFields DEF Worlds
<1>13. x.conn = k /\ x.port = w.port /\ x.chan = [w.chan EXCEPT !.sort = sort]
  BY <1>12
<1>14. Alike(w, x)
  BY <1>10, <1>11, <1>12, <1>13 DEF Alike
<1> QED BY <1>2, <1>9, <1>13, <1>14 DEF x

-----------------------------------------------------------------------------
(* The order of the pings                                                    *)

\* A set of numbers has a least one.
LEMMA LeastOf ==
  ASSUME NEW S \in SUBSET Nat, S # {}
  PROVE  Min(S) \in S /\ \A n \in S : Min(S) <= n
<1>1. PICK m \in S : \A n \in S : <<n, m>> \notin OpToRel(<, Nat)
  BY WFMin, NatLessThanWellFounded
<1>2. \A n \in S : m <= n
  <2> SUFFICES ASSUME NEW n \in S, n < m PROVE FALSE
    OBVIOUS
  <2>1. <<n, m>> \in OpToRel(<, Nat)
    BY DEF OpToRel
  <2> QED BY <1>1, <2>1
<1> QED BY <1>1, <1>2 DEF Min

\* A sequence without repetitions after another one, with other elements.
LEMMA JoinIsOrdered ==
  ASSUME NEW T, NEW s \in Seq(T), NEW t \in Seq(T), IsInjective(s), IsInjective(t),
         \A i \in 1..Len(s), j \in 1..Len(t) : s[i] # t[j]
  PROVE  /\ s \o t \in Seq(T) /\ IsInjective(s \o t)
         /\ ToSet(s \o t) = ToSet(s) \cup ToSet(t)
<1> DEFINE u == s \o t
           m == Len(s)
           n == Len(t)
<1>1. /\ u \in Seq(T) /\ m \in Nat /\ n \in Nat /\ Len(u) = m + n /\ DOMAIN u = 1..(m + n)
      /\ DOMAIN s = 1..m /\ DOMAIN t = 1..n
      /\ \A i \in 1..m : u[i] = s[i]
      /\ \A i \in (m + 1)..(m + n) : u[i] = t[i - m]
  OBVIOUS
<1> HIDE DEF u, m, n
<1>2. \A i \in 1..m : i \in DOMAIN u /\ i \in DOMAIN s /\ u[i] = s[i]
  BY <1>1
<1>3. \A j \in 1..n : /\ j + m \in DOMAIN u /\ j + m \in (m + 1)..(m + n)
                       /\ j \in DOMAIN t /\ u[j + m] = t[j]
  BY <1>1
<1>4. \A i \in DOMAIN u : i \in 1..m \/ (i - m \in 1..n /\ i = (i - m) + m /\ u[i] = t[i - m])
  BY <1>1
<1>5. ToSet(u) = ToSet(s) \cup ToSet(t)
  <2>1. ASSUME NEW e \in ToSet(u) PROVE e \in ToSet(s) \cup ToSet(t)
    <3>1. PICK i \in DOMAIN u : e = u[i]
      BY DEF ToSet
    <3>2. i \in 1..m \/ (i - m \in 1..n /\ u[i] = t[i - m])
      BY <1>4
    <3> QED BY <1>1, <1>2, <3>1, <3>2 DEF ToSet
  <2>2. ASSUME NEW e \in ToSet(s) PROVE e \in ToSet(u)
    BY <1>1, <1>2 DEF ToSet
  <2>3. ASSUME NEW e \in ToSet(t) PROVE e \in ToSet(u)
    <3>1. PICK j \in 1..n : e = t[j]
      BY <1>1 DEF ToSet
    <3> QED BY <1>3, <3>1 DEF ToSet
  <2> QED BY <2>1, <2>2, <2>3
<1>6. IsInjective(u)
  <2> SUFFICES ASSUME NEW a \in DOMAIN u, NEW b \in DOMAIN u, u[a] = u[b] PROVE a = b
    BY DEF IsInjective
  <2>1. CASE a \in 1..m /\ b \in 1..m
    BY <1>1, <1>2, <2>1 DEF IsInjective
  <2>2. CASE a \notin 1..m /\ b \notin 1..m
    <3>1. a - m = b - m
      BY <1>1, <1>4, <2>2 DEF IsInjective
    <3> QED BY <1>1, <3>1
  <2>3. CASE a \in 1..m /\ b \notin 1..m
    BY <1>2, <1>4, <2>3 DEF m, n
  <2>4. CASE a \notin 1..m /\ b \in 1..m
    BY <1>2, <1>4, <2>4 DEF m, n
  <2> QED BY <2>1, <2>2, <2>3, <2>4
<1> QED BY <1>1, <1>5, <1>6 DEF u

\* What is taken out of a sequence without repetitions is not in it any more.
LEMMA RemoveIsOrdered ==
  ASSUME NEW T, NEW s \in Seq(T), IsInjective(s), NEW e
  PROVE  LET t == RemoveFirst(s, e)
         IN t \in Seq(T) /\ IsInjective(t) /\ ToSet(t) = ToSet(s) \ {e}
<1> DEFINE I == {i \in 1..Len(s) : s[i] = e}
           k == Min(I)
           u == SubSeq(s, 1, k - 1)
           v == SubSeq(s, k + 1, Len(s))
<1>1. CASE I = {}
  <2>1. RemoveFirst(s, e) = s
    BY <1>1 DEF RemoveFirst
  <2>2. e \notin ToSet(s)
    BY <1>1 DEF ToSet
  <2> QED BY <2>1, <2>2
<1>2. CASE I # {}
  <2>1. k \in 1..Len(s) /\ s[k] = e /\ Len(s) \in Nat
    <3>1. I \in SUBSET Nat
      OBVIOUS
    <3> HIDE DEF I
    <3>2. k \in I
      BY <1>2, <3>1, LeastOf
    <3> HIDE DEF k
    <3> QED BY <3>2 DEF I
  <2>2. RemoveFirst(s, e) = u \o v
    BY <1>2 DEF RemoveFirst, RemoveAt, SelectInSeq
  <2> HIDE DEF k
  <2>3. /\ u \in Seq(T) /\ Len(u) = k - 1 /\ \A i \in 1..(k - 1) : u[i] = s[i]
    BY <2>1
  <2>4. /\ v \in Seq(T) /\ Len(v) = Len(s) - k
        /\ \A i \in 1..(Len(s) - k) : v[i] = s[i + k]
    BY <2>1
  <2> HIDE DEF u, v
  <2>5. DOMAIN s = 1..Len(s) /\ DOMAIN u = 1..(k - 1) /\ DOMAIN v = 1..(Len(s) - k)
    BY <2>3, <2>4
  <2>6. IsInjective(u)
    <3> SUFFICES ASSUME NEW a \in DOMAIN u, NEW b \in DOMAIN u, u[a] = u[b] PROVE a = b
      BY DEF IsInjective
    <3> QED BY <2>1, <2>3, <2>5 DEF IsInjective
  <2>7. IsInjective(v)
    <3> SUFFICES ASSUME NEW a \in DOMAIN v, NEW b \in DOMAIN v, v[a] = v[b] PROVE a = b
      BY DEF IsInjective
    <3>1. /\ s[a + k] = s[b + k] /\ a + k \in DOMAIN s /\ b + k \in DOMAIN s
          /\ a \in Int /\ b \in Int /\ k \in Int
      BY <2>1, <2>4, <2>5
    <3>2. a + k = b + k
      BY <3>1 DEF IsInjective
    <3> QED BY <3>1, <3>2
  <2>8. \A i \in 1..Len(u), j \in 1..Len(v) : u[i] # v[j]
    <3> SUFFICES ASSUME NEW i \in 1..Len(u), NEW j \in 1..Len(v) PROVE s[i] # s[j + k]
      BY <2>1, <2>3, <2>4
    <3>1. i \in DOMAIN s /\ j + k \in DOMAIN s /\ i # j + k
      BY <2>1, <2>3, <2>4, <2>5
    <3> QED BY <3>1 DEF IsInjective
  <2>9. /\ u \o v \in Seq(T) /\ IsInjective(u \o v) /\ ToSet(u \o v) = ToSet(u) \cup ToSet(v)
    BY <2>3, <2>4, <2>6, <2>7, <2>8, JoinIsOrdered
  <2>10. ToSet(u) \cup ToSet(v) = ToSet(s) \ {e}
    <3>1. ASSUME NEW d \in ToSet(u) PROVE d \in ToSet(s) \ {e}
      <4>1. PICK i \in 1..(k - 1) : d = s[i]
        BY <2>3, <2>5 DEF ToSet
      <4>2. i \in DOMAIN s /\ k \in DOMAIN s /\ i # k
        BY <2>1, <2>5
      <4> QED BY <2>1, <4>1, <4>2 DEF ToSet, IsInjective
    <3>2. ASSUME NEW d \in ToSet(v) PROVE d \in ToSet(s) \ {e}
      <4>1. PICK i \in 1..(Len(s) - k) : d = s[i + k]
        BY <2>4, <2>5 DEF ToSet
      <4>2. i + k \in DOMAIN s /\ k \in DOMAIN s /\ i + k # k
        BY <2>1, <2>5
      <4> QED BY <2>1, <4>1, <4>2 DEF ToSet, IsInjective
    <3>3. ASSUME NEW d \in ToSet(s) \ {e} PROVE d \in ToSet(u) \cup ToSet(v)
      <4>1. PICK i \in 1..Len(s) : d = s[i]
        BY <2>5 DEF ToSet
      <4>2. i # k
        BY <2>1, <4>1
      <4>3. CASE i < k
        <5>1. i \in 1..(k - 1)
          BY <2>1, <4>3
        <5> QED BY <2>3, <2>5, <4>1, <5>1 DEF ToSet
      <4>4. CASE i > k
        <5>1. i - k \in 1..(Len(s) - k) /\ (i - k) + k = i
          BY <2>1, <4>4
        <5>2. v[i - k] = s[i]
          BY <2>4, <5>1
        <5> QED BY <2>5, <4>1, <5>1, <5>2 DEF ToSet
      <4> QED BY <2>1, <4>2, <4>3, <4>4
    <3> QED BY <3>1, <3>2, <3>3
  <2> QED BY <2>2, <2>9, <2>10
<1> QED BY <1>1, <1>2

\* A finite set as a sequence.
LEMMA SetIsOrdered ==
  ASSUME NEW S, IsFiniteSet(S)
  PROVE  LET t == SetToSeq(S) IN t \in Seq(S) /\ IsInjective(t) /\ ToSet(t) = S
<1> DEFINE n == Cardinality(S)
           t == SetToSeq(S)
<1>1. n \in Nat /\ \E f \in [1..n -> S] : IsInjective(f)
  <2>1. n \in Nat /\ ExistsBijection(1..n, S)
    BY FS_CardinalityType
  <2> HIDE DEF n
  <2> QED BY <2>1 DEF ExistsBijection, Bijection, Injection
<1>2. t \in [1..n -> S] /\ IsInjective(t)
  BY <1>1 DEF SetToSeq
<1> HIDE DEF t
<1>3. Cardinality(1..n) = n /\ t \in Injection(1..n, S)
  BY <1>1, <1>2, FS_Interval DEF Injection
<1>4. t \in Surjection(1..n, S)
  BY <1>3, FS_Injection
<1> HIDE DEF n
<1>5. t \in Seq(S)
  BY <1>1, <1>2
<1>6. ToSet(t) = S
  BY <1>2, <1>4 DEF Surjection, ToSet
<1> QED BY <1>2, <1>5, <1>6 DEF t

-----------------------------------------------------------------------------
(* The best of the connections                                               *)

\* A finite set of numbers has a greatest one.
LEMMA GreatestOf ==
  ASSUME NEW S \in SUBSET Nat, IsFiniteSet(S), S # {}
  PROVE  \E m \in S : \A n \in S : n <= m
<1> DEFINE Lacks(T) == T # {} /\ IsFiniteSet(T) /\ ~\E m \in T : \A n \in T : n <= m
           Sizes == {k \in Nat : \E T \in SUBSET Nat : Lacks(T) /\ Cardinality(T) = k}
<1> SUFFICES ASSUME Lacks(S) PROVE FALSE
  OBVIOUS
<1>1. Sizes \subseteq Nat /\ Sizes # {}
  BY FS_CardinalityType
<1>2. PICK k \in Sizes : \A j \in Sizes : <<j, k>> \notin OpToRel(<, Nat)
  <2> HIDE DEF Sizes
  <2> QED BY <1>1, WFMin, NatLessThanWellFounded
<1>3. PICK T \in SUBSET Nat : Lacks(T) /\ Cardinality(T) = k
  OBVIOUS
<1>4. PICK x \in T : TRUE
  BY <1>3
<1> DEFINE U == T \ {x}
<1>5. IsFiniteSet(U) /\ Cardinality(U) = k - 1 /\ k \in Nat
  BY <1>3, <1>4, FS_RemoveElement
<1>6. k - 1 \in Nat /\ k - 1 < k
  <2>1. k # 0
    BY <1>3, FS_EmptySet
  <2> QED BY <1>5, <2>1
<1>7. ~Lacks(U)
  <2>1. k - 1 \notin Sizes
    BY <1>2, <1>6 DEF OpToRel
  <2> QED BY <1>5, <1>6, <2>1
<1>8. CASE U = {}
  BY <1>3, <1>4, <1>8
<1>9. CASE U # {}
  <2>1. PICK m \in U : \A n \in U : n <= m
    BY <1>5, <1>7, <1>9
  <2>2. x \in Nat /\ m \in Nat /\ U \subseteq Nat /\ m \in T
    BY <1>4
  <2>3. CASE x <= m
    BY <1>3, <2>1, <2>2, <2>3
  <2>4. CASE m <= x
    <3>1. \A n \in T : n <= x
      BY <2>1, <2>2, <2>4
    <3> QED BY <1>3, <1>4, <3>1
  <2> QED BY <2>2, <2>3, <2>4
<1> QED BY <1>8, <1>9

\* There are finitely many pairs.
LEMMA PairsAreFinite ==
  ASSUME NEW S \in SUBSET Pair
  PROVE  IsFiniteSet(S)
BY P2PChannelAssumption, FS_Product, FS_Subset DEF Pair

\* Of some pairs one has the greatest number.
LEMMA GreatestPair ==
  ASSUME NEW S \in SUBSET Pair, S # {}, NEW f \in [S -> Nat]
  PROVE  \E a \in S : \A b \in S : f[b] <= f[a]
<1> DEFINE T == {f[c] : c \in S}
<1>1. T \in SUBSET Nat /\ T # {}
  OBVIOUS
<1>2. IsFiniteSet(T)
  <2>1. f \in Surjection(S, T)
    BY DEF Surjection
  <2> QED BY <2>1, PairsAreFinite, FS_Surjection
<1>3. PICK m \in T : \A n \in T : n <= m
  BY <1>1, <1>2, GreatestOf
<1> QED BY <1>3

\* Where there are connections, none comes before the top one.
LEMMA TopIsFirst ==
  ASSUME NEW w \in Worlds, NEW quick, NEW S \in SUBSET Pair, S # {}
  PROVE  Top(w, quick, S) \in S /\ \A b \in S : ~Before(w, quick, b, Top(w, quick, S))
<1> DEFINE weight == [c \in S |-> Weight(w.conn[c].write)]
           combined == [c \in S |-> Combined(c)]
<1>1. weight \in [S -> Nat]
  BY DEF Weight
<1>2. combined \in [S -> Nat]
  <2> SUFFICES ASSUME NEW c \in S PROVE Combined(c) \in Nat
    OBVIOUS
  <2>1. c[1] \in Port /\ c[2] \in Remote
    BY DEF Pair
  <2>2. Preference[c[1]] \in Nat /\ Preference[c[2]] \in Nat
    BY <2>1, P2PChannelAssumption
  <2> QED BY <2>2 DEF Combined
<1>3. PICK a \in S : \A b \in S : weight[b] <= weight[a]
  BY <1>1, GreatestPair
<1> DEFINE S1 == {c \in S : weight[c] = weight[a]}
<1>4. PICK d \in S1 : \A b \in S1 : combined[b] <= combined[d]
  <2>1. [c \in S1 |-> combined[c]] \in [S1 -> Nat] /\ S1 \in SUBSET Pair /\ S1 # {}
    BY <1>2
  <2>2. PICK d \in S1 : \A b \in S1 : [c \in S1 |-> combined[c]][b] <= [c \in S1 |-> combined[c]][d]
    BY <2>1, GreatestPair
  <2> QED BY <2>2
<1>5. PICK e \in S1 : combined[e] = combined[d]
                      /\ \A b \in S1 : combined[b] = combined[d] /\ b \in quick => e \in quick
  BY <1>4
<1>6. ASSUME NEW b \in S PROVE ~Before(w, quick, b, e)
  <2>1. /\ weight[b] \in Nat /\ weight[e] \in Nat /\ weight[b] <= weight[e]
        /\ combined[b] \in Nat /\ combined[e] \in Nat
    BY <1>1, <1>2, <1>3, <1>5
  <2>2. weight[b] = weight[e] => combined[b] <= combined[e]
    BY <1>4, <1>5
  <2>3. weight[b] = weight[e] /\ combined[b] = combined[e] /\ b \in quick => e \in quick
    BY <1>5
  <2>4. /\ weight[b] = Weight(w.conn[b].write) /\ weight[e] = Weight(w.conn[e].write)
        /\ combined[b] = Combined(b) /\ combined[e] = Combined(e)
    OBVIOUS
  <2> HIDE DEF weight, combined
  <2> QED BY <2>1, <2>2, <2>3, <2>4 DEF Before
<1> QED BY <1>6 DEF Top

-----------------------------------------------------------------------------
(* Sorting                                                                   *)

\* What may be found too old.
Ages == {NoPair} \cup (Pair \X {"read", "write"})

\* What UpdateState looks at are the pairs there are.
LEMMA AgesOfPairs == Ageing \subseteq Ages
BY DEF Ageing, Ages, Live

\* A connection that is found too old cannot be written on after that, nor can another
\* that could not.
LEMMA UpdateStateOnly ==
  ASSUME NEW w \in Worlds, NEW age \in Ages
  PROVE  LET x == UpdateState(w, age)
         IN /\ Alike(w, x)
            /\ \A c \in Pair :
                 /\ age # <<c, "write">> => x.conn[c].write = w.conn[c].write
                 /\ x.conn[c].write = "writable" => w.conn[c].write = "writable"
                 /\ x.conn[c].write # w.conn[c].write => x.chan.sort
<1> DEFINE x == UpdateState(w, age)
<1>1. CASE age = NoPair
  <2>1. x = w
    BY <1>1 DEF UpdateState
  <2> HIDE DEF x
  <2>2. Alike(w, x)
    BY <2>1, AlikeSelf
  <2> QED BY <2>1, <2>2 DEF x
<1>2. CASE age # NoPair
  <2>1. PICK c \in Pair, of \in {"read", "write"} : age = <<c, of>>
    BY <1>2 DEF Ages
  <2>2. CASE of = "read"
    <3>1. x = SetRead(w, c, "timeout")
      BY <1>2, <2>1, <2>2 DEF UpdateState
    <3>2. OnlyOn(w, x, c) /\ x.conn[c].write = w.conn[c].write
      BY <3>1, SetReadOnly
    <3> HIDE DEF x
    <3>3. Alike(w, x) /\ \A d \in Pair : x.conn[d].write = w.conn[d].write
      BY <3>2 DEF OnlyOn
    <3> QED BY <3>3 DEF x
  <2>3. CASE of = "write" /\ w.conn[c].unanswered
    <3> DEFINE value == IF w.conn[c].write = "writable" THEN "connect" ELSE "timeout"
    <3>1. x = SetWrite(w, c, value)
      BY <1>2, <2>1, <2>3 DEF UpdateState
    <3>2. value \in Write /\ value # "writable"
      BY DEF Write
    <3> HIDE DEF value
    <3>3. OnlyOn(w, x, c) /\ x.conn[c].write = value
      BY <3>1, <3>2, SetWriteOnly
    <3> HIDE DEF x
    <3>4. /\ Alike(w, x) /\ \A d \in Pair \ {c} : x.conn[d].write = w.conn[d].write
          /\ x.conn[c].write # w.conn[c].write => x.chan.sort
      BY <3>3 DEF OnlyOn
    <3>5. age = <<c, "write">>
      BY <2>1, <2>3
    <3> QED BY <3>2, <3>3, <3>4, <3>5 DEF x
  <2>4. CASE of = "write" /\ ~w.conn[c].unanswered
    <3>1. x = w
      BY <1>2, <2>1, <2>4 DEF UpdateState
    <3> HIDE DEF x
    <3>2. Alike(w, x)
      BY <3>1, AlikeSelf
    <3> QED BY <3>1, <3>2 DEF x
  <2> QED BY <2>1, <2>2, <2>3, <2>4
<1> QED BY <1>1, <1>2

\* x is w with other flags.
Flagged(w, x) ==
  /\ x \in Worlds /\ x.conn = w.conn /\ x.port = w.port
  /\ x.chan.list = w.chan.list /\ x.chan.best = w.chan.best /\ x.chan.remote = w.chan.remote
  /\ x.chan.order = w.chan.order

\* A world with other flags of the channel.
LEMMA FlagsSet ==
  ASSUME NEW w \in Worlds, NEW ch \in Channel,
         ch.list = w.chan.list, ch.best = w.chan.best, ch.remote = w.chan.remote,
         ch.order = w.chan.order, ch.was_writable => ch.writable, ch.writable => ch.was_writable,
         ch.was_timed_out => ~ch.writable,
         ~ch.writable => ch.waiting \/ ch.allocate,
         NEW x, x = [chan |-> ch, conn |-> w.conn, port |-> w.port]
  PROVE  Flagged(w, x) /\ Flags(x) /\ x.chan = ch
<1>1. x \in Worlds /\ x.chan = ch /\ x.conn = w.conn /\ x.port = w.port
  BY WorldFields DEF Worlds
<1>2. ch.was_writable = ch.writable
  BY DEF Channel
<1> QED BY <1>1, <1>2 DEF Flagged, Flags

\* The channel found a connection it can write on.
LEMMA HandleWritableFlags ==
  ASSUME NEW w \in Worlds, Flags(w)
  PROVE  LET x == HandleWritable(w) IN Flagged(w, x) /\ Flags(x) /\ x.chan.writable
<1> DEFINE x == HandleWritable(w)
           getting == [g \in DOMAIN w.chan.getting |-> FALSE]
           old == [w.chan EXCEPT !.was_writable = TRUE, !.was_timed_out = FALSE, !.writable = TRUE]
           new == [w.chan EXCEPT !.getting = getting, !.allocate = FALSE,
                                 !.was_writable = TRUE, !.was_timed_out = FALSE, !.writable = TRUE]
<1>1. w.chan \in Channel /\ w.chan.getting \in Seq(BOOLEAN)
  <2>1. w.chan \in Channel
    BY WorldFields
  <2> QED BY <2>1 DEF Channel
<1>2. w = [chan |-> w.chan, conn |-> w.conn, port |-> w.port]
  BY WorldFields
<1>3. CASE w.chan.writable
  <2>1. x = [chan |-> old, conn |-> w.conn, port |-> w.port]
    <3>1. x = [w EXCEPT !.chan.was_writable = TRUE, !.chan.was_timed_out = FALSE,
                      !.chan.writable = TRUE]
      BY <1>3 DEF HandleWritable
    <3> HIDE DEF x
    <3> QED BY <3>1, WorldFields DEF Worlds
  <2>2. /\ old \in Channel /\ old.writable /\ old.was_writable /\ ~old.was_timed_out
        /\ old.list = w.chan.list /\ old.best = w.chan.best /\ old.remote = w.chan.remote
        /\ old.order = w.chan.order
    BY <1>1 DEF Channel
  <2> HIDE DEF x, old
  <2>3. Flagged(w, x) /\ Flags(x) /\ x.chan = old
    BY <2>1, <2>2, FlagsSet
  <2> QED BY <2>2, <2>3 DEF x
<1>4. CASE ~w.chan.writable
  <2>1. [w.chan EXCEPT !.getting = [g \in DOMAIN @ |-> FALSE]] = [w.chan EXCEPT !.getting = getting]
    OBVIOUS
  <2>2. getting \in Seq(BOOLEAN)
    <3>1. DOMAIN w.chan.getting = 1..Len(w.chan.getting) /\ Len(w.chan.getting) \in Nat
      BY <1>1
    <3>2. getting \in [1..Len(w.chan.getting) -> BOOLEAN]
      BY <3>1
    <3> HIDE DEF getting
    <3> QED BY <3>1, <3>2
  <2>3. StopGetAllPorts(w) = [w EXCEPT !.chan.getting = getting]
    BY <2>1 DEF StopGetAllPorts
  <2> HIDE DEF getting
  <2>4. x = [chan |-> new, conn |-> w.conn, port |-> w.port]
    <3>1. x = [[w EXCEPT !.chan.getting = getting, !.chan.allocate = FALSE] EXCEPT !.chan.was_writable = TRUE, !.chan.was_timed_out = FALSE,
                      !.chan.writable = TRUE]
      BY <1>4, <2>3 DEF HandleWritable
    <3> HIDE DEF x
    <3> QED BY <3>1, WorldFields DEF Worlds
  <2>5. /\ new \in Channel /\ new.writable /\ new.was_writable /\ ~new.was_timed_out
        /\ new.list = w.chan.list /\ new.best = w.chan.best /\ new.remote = w.chan.remote
        /\ new.order = w.chan.order
    BY <1>1, <2>2 DEF Channel
  <2> HIDE DEF x, new
  <2>6. Flagged(w, x) /\ Flags(x) /\ x.chan = new
    BY <2>4, <2>5, FlagsSet
  <2> QED BY <2>5, <2>6 DEF x
<1> QED BY <1>3, <1>4

\* It found connections that may come to be, and asks for ports if it had one.
LEMMA HandleNotWritableFlags ==
  ASSUME NEW w \in Worlds, Flags(w)
  PROVE  LET x == HandleNotWritable(w) IN Flagged(w, x) /\ Flags(x) /\ ~x.chan.writable
<1> DEFINE x == HandleNotWritable(w)
           old == [w.chan EXCEPT !.was_writable = FALSE, !.was_timed_out = FALSE, !.writable = FALSE]
           new == [w.chan EXCEPT !.waiting = TRUE,
                                 !.was_writable = FALSE, !.was_timed_out = FALSE, !.writable = FALSE]
<1>1. w.chan \in Channel
  BY WorldFields
<1>2. w = [chan |-> w.chan, conn |-> w.conn, port |-> w.port]
  BY WorldFields
<1>3. CASE ~w.chan.was_writable
  <2>1. x = [chan |-> old, conn |-> w.conn, port |-> w.port]
    <3>1. x = [w EXCEPT !.chan.was_writable = FALSE, !.chan.was_timed_out = FALSE,
                      !.chan.writable = FALSE]
      BY <1>3 DEF HandleNotWritable
    <3> HIDE DEF x
    <3> QED BY <3>1, WorldFields DEF Worlds
  <2>2. /\ old \in Channel /\ ~old.writable /\ ~old.was_writable /\ ~old.was_timed_out
        /\ old.waiting = w.chan.waiting /\ old.allocate = w.chan.allocate
        /\ old.list = w.chan.list /\ old.best = w.chan.best /\ old.remote = w.chan.remote
        /\ old.order = w.chan.order
    BY <1>1 DEF Channel
  <2>3. old.waiting \/ old.allocate
    BY <1>3, <2>2 DEF Flags
  <2> HIDE DEF x, old
  <2>4. Flagged(w, x) /\ Flags(x) /\ x.chan = old
    BY <2>1, <2>2, <2>3, FlagsSet
  <2> QED BY <2>2, <2>4 DEF x
<1>4. CASE w.chan.was_writable
  <2>1. x = [chan |-> new, conn |-> w.conn, port |-> w.port]
    <3>1. x = [[w EXCEPT !.chan.waiting = TRUE] EXCEPT !.chan.was_writable = FALSE, !.chan.was_timed_out = FALSE,
                      !.chan.writable = FALSE]
      BY <1>4 DEF HandleNotWritable, OnAllocate
    <3> HIDE DEF x
    <3> QED BY <3>1, WorldFields DEF Worlds
  <2>2. /\ new \in Channel /\ ~new.writable /\ ~new.was_writable /\ ~new.was_timed_out /\ new.waiting
        /\ new.list = w.chan.list /\ new.best = w.chan.best /\ new.remote = w.chan.remote
        /\ new.order = w.chan.order
    BY <1>1 DEF Channel
  <2> HIDE DEF x, new
  <2>3. Flagged(w, x) /\ Flags(x) /\ x.chan = new
    BY <2>1, <2>2, FlagsSet
  <2> QED BY <2>2, <2>3 DEF x
<1> QED BY <1>3, <1>4

\* It found nothing, and asks for ports if that is new.
LEMMA HandleAllTimedOutFlags ==
  ASSUME NEW w \in Worlds, Flags(w)
  PROVE  LET x == HandleAllTimedOut(w) IN Flagged(w, x) /\ Flags(x) /\ ~x.chan.writable
<1> DEFINE x == HandleAllTimedOut(w)
           old == [w.chan EXCEPT !.was_timed_out = TRUE, !.was_writable = FALSE, !.writable = FALSE]
           new == [w.chan EXCEPT !.waiting = TRUE,
                                 !.was_timed_out = TRUE, !.was_writable = FALSE, !.writable = FALSE]
<1>1. w.chan \in Channel
  BY WorldFields
<1>2. w = [chan |-> w.chan, conn |-> w.conn, port |-> w.port]
  BY WorldFields
<1>3. CASE w.chan.was_timed_out
  <2>1. x = [chan |-> old, conn |-> w.conn, port |-> w.port]
    <3>1. x = [w EXCEPT !.chan.was_timed_out = TRUE, !.chan.was_writable = FALSE,
                      !.chan.writable = FALSE]
      BY <1>3 DEF HandleAllTimedOut
    <3> HIDE DEF x
    <3> QED BY <3>1, WorldFields DEF Worlds
  <2>2. /\ old \in Channel /\ ~old.writable /\ ~old.was_writable /\ old.was_timed_out
        /\ old.waiting = w.chan.waiting /\ old.allocate = w.chan.allocate
        /\ old.list = w.chan.list /\ old.best = w.chan.best /\ old.remote = w.chan.remote
        /\ old.order = w.chan.order
    BY <1>1 DEF Channel
  <2>3. old.waiting \/ old.allocate
    BY <1>3, <2>2 DEF Flags
  <2> HIDE DEF x, old
  <2>4. Flagged(w, x) /\ Flags(x) /\ x.chan = old
    BY <2>1, <2>2, <2>3, FlagsSet
  <2> QED BY <2>2, <2>4 DEF x
<1>4. CASE ~w.chan.was_timed_out
  <2>1. x = [chan |-> new, conn |-> w.conn, port |-> w.port]
    <3>1. x = [[w EXCEPT !.chan.waiting = TRUE] EXCEPT !.chan.was_timed_out = TRUE, !.chan.was_writable = FALSE,
                      !.chan.writable = FALSE]
      BY <1>4 DEF HandleAllTimedOut, OnAllocate
    <3> HIDE DEF x
    <3> QED BY <3>1, WorldFields DEF Worlds
  <2>2. /\ new \in Channel /\ ~new.writable /\ ~new.was_writable /\ new.was_timed_out /\ new.waiting
        /\ new.list = w.chan.list /\ new.best = w.chan.best /\ new.remote = w.chan.remote
        /\ new.order = w.chan.order
    BY <1>1 DEF Channel
  <2> HIDE DEF x, new
  <2>3. Flagged(w, x) /\ Flags(x) /\ x.chan = new
    BY <2>1, <2>2, FlagsSet
  <2> QED BY <2>2, <2>3 DEF x
<1> QED BY <1>3, <1>4

\* x has the connections, ports and candidates that w has.
Kept(w, x) ==
  /\ x \in Worlds /\ x.port = w.port
  /\ x.chan.list = w.chan.list /\ x.chan.remote = w.chan.remote /\ x.chan.order = w.chan.order
  /\ \A c \in Pair : x.conn[c].on = w.conn[c].on /\ x.conn[c].made = w.conn[c].made

\* A world with the connections of a sound one is sound if its flags are.
LEMMA KeptIsSound ==
  ASSUME NEW w, Sound(w), NEW x, Kept(w, x), Flags(x),
         \A c \in Pair : x.conn[c].write = "writable" => x.conn[c].on
  PROVE  Sound(x) /\ Live(x) = Live(w)
<1>1. Live(x) = Live(w)
  BY DEF Live, Kept
<1>2. Off(x)
  BY DEF Sound, Off, Kept
<1>3. Held(x)
  BY <1>1 DEF Held, Kept, Sound, PortLives
<1>4. Ordered(x)
  BY <1>1 DEF Ordered, Kept, Sound
<1> QED BY <1>1, <1>2, <1>3, <1>4 DEF Sound, Kept

\* So is it with a sane one.
LEMMA KeptIsSane ==
  ASSUME NEW w, Sane(w), NEW x, Kept(w, x), Flags(x),
         \A c \in Pair : x.conn[c].write = "writable" => x.conn[c].on
  PROVE  Sane(x) /\ Live(x) = Live(w)
<1>1. Sound(x) /\ Live(x) = Live(w)
  BY KeptIsSound DEF Sane
<1>2. Tried(x)
  <2> SUFFICES ASSUME NEW p \in x.chan.list, NEW r \in x.chan.remote
               PROVE  x.conn[<<p, r>>].made
    BY DEF Tried
  <2>1. p \in w.chan.list /\ r \in w.chan.remote
    BY DEF Kept
  <2>2. <<p, r>> \in Pair
    <3>1. x.chan \in Channel
      BY WorldFields DEF Kept
    <3> QED BY <3>1 DEF Channel, Pair
  <2> QED BY <2>1, <2>2 DEF Kept, Sane, Tried
<1> QED BY <1>1, <1>2 DEF Sane

\* Likeness and other flags leave what there is.
LEMMA AlikeIsKept ==
  ASSUME NEW w \in Worlds, NEW x, Alike(w, x)
  PROVE  /\ Kept(w, x) /\ x.chan.best = w.chan.best /\ x.chan.writable = w.chan.writable
         /\ Flags(w) => Flags(x)
         /\ w.chan.sort => x.chan.sort
<1>1. PICK s \in BOOLEAN : x.chan = [w.chan EXCEPT !.sort = s] /\ (w.chan.sort => s)
  BY DEF Alike
<1>2. w.chan \in Channel
  BY WorldFields
<1>3. /\ x.chan.list = w.chan.list /\ x.chan.remote = w.chan.remote /\ x.chan.order = w.chan.order
      /\ x.chan.best = w.chan.best /\ x.chan.writable = w.chan.writable
      /\ x.chan.was_writable = w.chan.was_writable /\ x.chan.was_timed_out = w.chan.was_timed_out
      /\ x.chan.waiting = w.chan.waiting /\ x.chan.allocate = w.chan.allocate
      /\ (w.chan.sort => x.chan.sort)
  BY <1>1, <1>2 DEF Channel
<1>4. Kept(w, x)
  BY <1>3 DEF Kept, Alike
<1> QED BY <1>3, <1>4 DEF Flags

\* Connections change, and a sort follows if a state does.
LEMMA AlikeIsGood ==
  ASSUME NEW w, Good(w), NEW x, Alike(w, x),
         \A c \in Pair : /\ x.conn[c].write # w.conn[c].write => x.chan.sort
                         /\ x.conn[c].write = "writable" => w.conn[c].on
  PROVE  Good(x)
<1>1. w \in Worlds /\ Flags(w)
  BY DEF Good, Sane, Sound
<1>2. /\ Kept(w, x) /\ x.chan.best = w.chan.best /\ Flags(x) /\ x.chan.writable = w.chan.writable
      /\ w.chan.sort => x.chan.sort
  BY <1>1, AlikeIsKept
<1>3. \A c \in Pair : x.conn[c].write = "writable" => x.conn[c].on
  BY DEF Alike
<1>4. Sane(x) /\ Live(x) = Live(w)
  BY <1>2, <1>3, KeptIsSane DEF Good
<1>5. Follows(x)
  <2>1. CASE x.chan.sort
    BY <2>1 DEF Follows
  <2>2. CASE ~x.chan.sort
    <3>1. \A c \in Pair : x.conn[c].write = w.conn[c].write
      BY <2>2
    <3>2. w.chan.best \in Pair \cup {NoPair}
      BY DEF Good, BestHeld, Live
    <3> QED BY <1>2, <2>2, <3>1, <3>2 DEF Follows, Good
  <2> QED BY <2>1, <2>2
<1> QED BY <1>2, <1>4, <1>5 DEF Good, BestHeld

\* The best connection is not one that is outdone.
LEMMA BestIsSpared ==
  ASSUME NEW w, NEW quick, w.chan.best \in Live(w), w.chan.best # NoPair
  PROVE  w.chan.best \notin Outdone(w, quick)
<1> DEFINE best == w.chan.best
           primier == [n \in {NetworkOf[c[1]] : c \in Live(w)} |-> Primier(w, quick, n)]
<1>1. NetworkOf[best[1]] \in {NetworkOf[c[1]] : c \in Live(w)}
  OBVIOUS
<1>2. primier[NetworkOf[best[1]]] = best
  BY <1>1 DEF Primier
<1> HIDE DEF primier
<1>3. Outdone(w, quick) = {c \in Live(w) : LET d == primier[NetworkOf[c[1]]]
                          IN c # d /\ w.conn[d].write = "writable" /\ Combined(d) >= Combined(c)}
  BY DEF Outdone, primier
<1> QED BY <1>2, <1>3

\* The first two steps of a sort: what is too old, and the best connection.
Chosen(w, quick, age) ==
  LET w0 == [UpdateState(w, age) EXCEPT !.chan.sort = FALSE]
  IN [w0 EXCEPT !.chan.best = Top(w0, quick, Live(w0))]

\* The best connection can be written on if any could.
LEMMA BestIsFound ==
  ASSUME NEW w, Sane(w), NEW quick, NEW age \in Ages
  PROVE  LET w1 == Chosen(w, quick, age)
         IN /\ Kept(w, w1) /\ Sane(w1) /\ BestHeld(w1)
            /\ \A c \in Pair : w1.conn[c].write = "writable" =>
                  w1.chan.best # NoPair /\ w1.conn[w1.chan.best].write = "writable"
            /\ \A c \in Pair : age # <<c, "write">> => w1.conn[c].write = w.conn[c].write
<1> DEFINE a == UpdateState(w, age)
           w0 == [a EXCEPT !.chan.sort = FALSE]
           top == Top(w0, quick, Live(w0))
           w1 == [w0 EXCEPT !.chan.best = top]
           ch0 == [a.chan EXCEPT !.sort = FALSE]
           ch1 == [ch0 EXCEPT !.best = top]
<1>1. /\ Alike(w, a) /\ Kept(w, a) /\ Flags(a)
      /\ \A c \in Pair : /\ a.conn[c].write = "writable" => w.conn[c].write = "writable"
                         /\ age # <<c, "write">> => a.conn[c].write = w.conn[c].write
  <2>1. w \in Worlds /\ Flags(w)
    BY DEF Sane, Sound
  <2>2. /\ Alike(w, a)
        /\ \A c \in Pair : /\ a.conn[c].write = "writable" => w.conn[c].write = "writable"
                           /\ age # <<c, "write">> => a.conn[c].write = w.conn[c].write
    BY <2>1, UpdateStateOnly
  <2> HIDE DEF a
  <2> QED BY <2>1, <2>2, AlikeIsKept
<1>2. w0 = [a EXCEPT !.chan.sort = FALSE]
  OBVIOUS
<1> HIDE DEF a, w0, top, w1
<1>3. a \in Worlds /\ a.chan \in Channel
  BY <1>1, WorldFields DEF Kept
<1>4. w0 = [chan |-> ch0, conn |-> a.conn, port |-> a.port]
  BY <1>2, <1>3, WorldFields DEF Worlds
<1>5. w0.chan = ch0 /\ w0.conn = a.conn /\ w0.port = a.port
  BY <1>4
<1>6. \A c \in Pair : w0.conn[c].write = "writable" => c \in Live(w0)
  BY <1>1, <1>5 DEF Sane, Sound, Off, Kept, Live
<1>7. Live(w0) \in SUBSET Pair
  BY DEF Live
<1>8. w0 \in Worlds
  <2>1. ch0 \in Channel
    BY <1>3 DEF Channel
  <2> QED BY <1>3, <1>4, <2>1, WorldFields DEF Worlds
<1>9. top \in Live(w0) \cup {NoPair} /\ top \in Pair \cup {NoPair}
  <2>1. Live(w0) # {} => top \in Live(w0)
    BY <1>7, <1>8, TopIsFirst DEF top
  <2>2. Live(w0) = {} => top = NoPair
    BY DEF Top, top
  <2> QED BY <1>7, <2>1, <2>2
<1>10. ASSUME NEW c \in Pair, w0.conn[c].write = "writable"
       PROVE  top # NoPair /\ w0.conn[top].write = "writable"
  <2>1. c \in Live(w0)
    BY <1>6, <1>10
  <2>2. top \in Live(w0) /\ ~Before(w0, quick, c, top)
    BY <1>7, <1>8, <2>1, TopIsFirst DEF top
  <2>3. ~(Weight(w0.conn[c].write) > Weight(w0.conn[top].write))
    BY <2>2 DEF Before
  <2>4. w0.conn[top].write = "writable"
    BY <1>10, <2>3 DEF Weight
  <2> QED BY <1>7, <2>2, <2>4, NoPairIsNone
<1>11. w1 = [w0 EXCEPT !.chan.best = top]
  BY DEF w1
<1>12. w1 = [chan |-> ch1, conn |-> a.conn, port |-> a.port]
  BY <1>4, <1>11
<1>13. /\ ch1 \in Channel /\ ch1.best = top
       /\ ch1.list = a.chan.list /\ ch1.remote = a.chan.remote /\ ch1.order = a.chan.order
       /\ ch1.was_writable = a.chan.was_writable /\ ch1.writable = a.chan.writable
       /\ ch1.was_timed_out = a.chan.was_timed_out
       /\ ch1.waiting = a.chan.waiting /\ ch1.allocate = a.chan.allocate
  BY <1>3, <1>9 DEF Channel
<1> HIDE DEF ch1, ch0
<1>14. w1.chan = ch1 /\ w1.conn = a.conn /\ w1.port = a.port
  BY <1>12
<1>15. w1 \in Worlds
  BY <1>3, <1>12, <1>13, WorldFields DEF Worlds
<1>16. Flags(w1)
  BY <1>1, <1>13, <1>14 DEF Flags
<1>17. Kept(w, w1)
  BY <1>1, <1>13, <1>14, <1>15 DEF Kept
<1>18. \A c \in Pair : w1.conn[c].write = "writable" => w1.conn[c].on
  BY <1>5, <1>6, <1>14 DEF Live
<1>19. Sane(w1)
  BY <1>16, <1>17, <1>18, KeptIsSane
<1>20. BestHeld(w1)
  BY <1>5, <1>9, <1>13, <1>14 DEF BestHeld, Live
<1>21. \A c \in Pair : w1.conn[c].write = "writable" =>
         w1.chan.best # NoPair /\ w1.conn[w1.chan.best].write = "writable"
  BY <1>5, <1>10, <1>13, <1>14
<1> QED BY <1>1, <1>14, <1>17, <1>19, <1>20, <1>21 DEF w1, top, w0, a, Chosen

\* A sort makes a sane world good, and loses no state but that of what is too old, while
\* there is a connection that can be written on.
LEMMA SortIsGood ==
  ASSUME NEW w, Sane(w), NEW quick, NEW age \in Ages
  PROVE  LET x == SortConnections(w, quick, age)
         IN /\ Good(x)
            /\ \A c \in Pair : w.conn[c].write = "writable" /\ age # <<c, "write">> =>
                  \E d \in Pair : x.conn[d].write = "writable"
            /\ \A c \in Pair : x.conn[c].on = w.conn[c].on
<1> DEFINE w0 == [UpdateState(w, age) EXCEPT !.chan.sort = FALSE]
           w1 == [w0 EXCEPT !.chan.best = Top(w0, quick, Live(w0))]
           w2 == Each(w1, Outdone(w1, quick), Prune)
           some(state) == \E c \in Live(w2) : w2.conn[c].write = state
           w3 == IF some("writable") THEN HandleWritable(w2)
                 ELSE IF some("connect") THEN HandleNotWritable(w2)
                 ELSE HandleAllTimedOut(w2)
           readable == \E c \in Live(w3) : w3.conn[c].read = "readable"
           x == SortConnections(w, quick, age)
<1>1. x = [w3 EXCEPT !.chan.readable = readable]
  BY DEF SortConnections
<1>2. /\ Kept(w, w1) /\ Sane(w1) /\ BestHeld(w1)
      /\ \A c \in Pair : w1.conn[c].write = "writable" =>
            w1.chan.best # NoPair /\ w1.conn[w1.chan.best].write = "writable"
      /\ \A c \in Pair : age # <<c, "write">> => w1.conn[c].write = w.conn[c].write
  <2>1. w1 = Chosen(w, quick, age)
    BY DEF Chosen
  <2> HIDE DEF w1
  <2> QED BY <2>1, BestIsFound
<1> HIDE DEF w0, w1
<1>3. /\ Alike(w1, w2) /\ \A c \in Pair \ Outdone(w1, quick) : w2.conn[c] = w1.conn[c]
      /\ \A c \in Pair : w2.conn[c].write \in {w1.conn[c].write, "timeout"}
  <2>1. Outdone(w1, quick) \in SUBSET Pair /\ w1 \in Worlds
    BY <1>2 DEF Outdone, Live, Sane, Sound
  <2> QED BY <2>1, PruneAll
<1> HIDE DEF w2
<1>4. Kept(w1, w2) /\ Flags(w2) /\ w2.chan.best = w1.chan.best
  BY <1>2, <1>3, AlikeIsKept DEF Sane, Sound
<1>5. \A c \in Pair : w2.conn[c].write = "writable" => w1.conn[c].write = "writable" /\ w2.conn[c].on
  BY <1>2, <1>3, <1>4 DEF Sane, Sound, Off, Kept
<1>6. Sane(w2) /\ Live(w2) = Live(w1)
  BY <1>2, <1>4, <1>5, KeptIsSane
<1>7. \A c \in Pair : w1.conn[c].write = "writable" =>
         w2.chan.best # NoPair /\ w2.conn[w2.chan.best].write = "writable" /\ w2.chan.best \in Pair
  <2> SUFFICES ASSUME NEW c \in Pair, w1.conn[c].write = "writable"
               PROVE  w1.chan.best # NoPair /\ w2.conn[w1.chan.best].write = "writable"
                      /\ w1.chan.best \in Pair
    BY <1>4
  <2>1. w1.chan.best # NoPair /\ w1.conn[w1.chan.best].write = "writable"
    BY <1>2
  <2>2. w1.chan.best \in Live(w1)
    BY <1>2, <2>1 DEF BestHeld
  <2>3. w1.chan.best \notin Outdone(w1, quick)
    BY <2>1, <2>2, BestIsSpared
  <2>4. w1.chan.best \in Pair
    BY <2>2 DEF Live
  <2>5. w2.conn[w1.chan.best] = w1.conn[w1.chan.best]
    BY <1>3, <2>3, <2>4
  <2> QED BY <2>1, <2>4, <2>5
<1>8. some("writable") <=> w2.chan.best # NoPair /\ w2.conn[w2.chan.best].write = "writable"
  <2>1. some("writable") => w2.chan.best # NoPair /\ w2.conn[w2.chan.best].write = "writable"
    BY <1>5, <1>7 DEF Live
  <2>2. ASSUME w2.chan.best # NoPair, w2.conn[w2.chan.best].write = "writable"
        PROVE  some("writable")
    BY <1>2, <1>4, <1>6, <2>2 DEF BestHeld
  <2> QED BY <2>1, <2>2
<1>9. Flagged(w2, w3) /\ Flags(w3) /\ (w3.chan.writable <=> some("writable"))
  <2>1. w2 \in Worlds /\ Flags(w2)
    BY <1>6 DEF Sane, Sound
  <2> HIDE DEF some
  <2>2. CASE some("writable")
    BY <2>1, <2>2, HandleWritableFlags
  <2>3. CASE ~some("writable") /\ some("connect")
    BY <2>1, <2>3, HandleNotWritableFlags
  <2>4. CASE ~some("writable") /\ ~some("connect")
    BY <2>1, <2>4, HandleAllTimedOutFlags
  <2> QED BY <2>2, <2>3, <2>4
<1> HIDE DEF w3, some
<1>10. readable \in BOOLEAN
  OBVIOUS
<1> HIDE DEF x, readable
<1> DEFINE ch == [w3.chan EXCEPT !.readable = readable]
<1>11. w3 \in Worlds /\ w3.chan \in Channel
  BY <1>9, WorldFields DEF Flagged
<1>12. x = [chan |-> ch, conn |-> w3.conn, port |-> w3.port]
  BY <1>1, <1>11, WorldFields DEF Worlds
<1>13. /\ ch \in Channel /\ ch.best = w3.chan.best /\ ch.sort = w3.chan.sort
       /\ ch.list = w3.chan.list /\ ch.remote = w3.chan.remote /\ ch.order = w3.chan.order
       /\ ch.was_writable = w3.chan.was_writable /\ ch.writable = w3.chan.writable
       /\ ch.was_timed_out = w3.chan.was_timed_out
       /\ ch.waiting = w3.chan.waiting /\ ch.allocate = w3.chan.allocate
  BY <1>10, <1>11 DEF Channel
<1> HIDE DEF ch
<1>14. x.chan = ch /\ x.conn = w3.conn /\ x.port = w3.port
  BY <1>12
<1>15. x \in Worlds
  BY <1>11, <1>12, <1>13, WorldFields DEF Worlds
<1>16. Flags(x)
  BY <1>9, <1>13, <1>14 DEF Flags
<1>17. Kept(w2, x) /\ x.conn = w2.conn /\ x.chan.best = w2.chan.best
  BY <1>9, <1>13, <1>14, <1>15 DEF Kept, Flagged
<1>18. Sane(x) /\ Live(x) = Live(w2)
  BY <1>5, <1>6, <1>16, <1>17, KeptIsSane
<1>19. BestHeld(x)
  BY <1>2, <1>4, <1>6, <1>17, <1>18 DEF BestHeld
<1>20. Follows(x)
  <2>1. x.chan.writable <=> x.chan.best # NoPair /\ x.conn[x.chan.best].write = "writable"
    BY <1>8, <1>9, <1>13, <1>14, <1>17
  <2>2. x.chan.writable \in BOOLEAN
    <3>1. x.chan \in Channel
      BY <1>15, WorldFields
    <3> QED BY <3>1 DEF Channel
  <2> QED BY <2>1, <2>2 DEF Follows
<1>21. Good(x)
  BY <1>18, <1>19, <1>20 DEF Good
<1>22. \A c \in Pair : w.conn[c].write = "writable" /\ age # <<c, "write">> =>
          \E d \in Pair : x.conn[d].write = "writable"
  BY <1>2, <1>7, <1>17
<1>23. \A c \in Pair : x.conn[c].on = w.conn[c].on
  BY <1>2, <1>4, <1>17 DEF Kept
<1> QED BY <1>21, <1>22, <1>23 DEF x

-----------------------------------------------------------------------------
(* Ports and candidates                                                      *)

\* Connections are made where there is none and the port is there.
LEMMA CreateConnectionIsSound ==
  ASSUME NEW w, Sound(w), NEW S \in SUBSET Pair, \A c \in S : PortLives(w, c[1]),
         NEW readable \in BOOLEAN
  PROVE  LET x == CreateConnection(w, S, readable)
         IN /\ Sound(x) /\ x.chan.list = w.chan.list /\ x.chan.remote = w.chan.remote
            /\ x.port = w.port
            /\ \A c \in Pair : /\ w.conn[c].made \/ c \in S => x.conn[c].made
                               /\ w.conn[c].write = "writable" => x.conn[c].write = "writable"
<1> DEFINE new == {c \in S : ~w.conn[c].on}
           one == [NoConnection EXCEPT !.on = TRUE, !.made = TRUE]
           k == [c \in Pair |-> IF c \in new THEN one ELSE w.conn[c]]
           order == SetToSeq(new) \o w.chan.order
           ch == [w.chan EXCEPT !.order = order]
           made == [w EXCEPT !.conn = k, !.chan.order = order]
           x == CreateConnection(w, S, readable)
<1>1. x = IF readable THEN Each(made, S, ReceivedPing) ELSE made
  BY DEF CreateConnection
<1>2. w \in Worlds /\ w.chan \in Channel /\ w.chan.order \in Seq(Pair)
  <2>1. w \in Worlds /\ w.chan \in Channel
    BY WorldFields DEF Sound
  <2> QED BY <2>1 DEF Channel
<1>3. /\ one \in Connection /\ one.on /\ one.made /\ one.write = "connect"
  BY DEF NoConnection, Connection, Write
<1> HIDE DEF one
<1>4. new \in SUBSET Pair /\ IsFiniteSet(new)
  BY PairsAreFinite
<1>5. SetToSeq(new) \in Seq(new) /\ IsInjective(SetToSeq(new)) /\ ToSet(SetToSeq(new)) = new
  <2> HIDE DEF new
  <2> QED BY <1>4, SetIsOrdered
<1>6. SetToSeq(new) \in Seq(Pair)
  <2> HIDE DEF new
  <2> QED BY <1>4, <1>5
<1>7. \A i \in 1..Len(SetToSeq(new)), j \in 1..Len(w.chan.order) :
        SetToSeq(new)[i] # w.chan.order[j]
  <2> SUFFICES ASSUME NEW i \in 1..Len(SetToSeq(new)), NEW j \in 1..Len(w.chan.order)
               PROVE  SetToSeq(new)[i] \in new /\ w.chan.order[j] \in Live(w)
    BY DEF Live
  <2>1. w.chan.order[j] \in Live(w)
    BY <1>2 DEF Sound, Ordered, ToSet
  <2> HIDE DEF new
  <2>2. SetToSeq(new)[i] \in new
    BY <1>5
  <2> QED BY <2>1, <2>2
<1>8. order \in Seq(Pair) /\ IsInjective(order) /\ ToSet(order) = new \cup Live(w)
  <2> HIDE DEF new
  <2> QED BY <1>2, <1>5, <1>6, <1>7, JoinIsOrdered DEF Sound, Ordered
<1> HIDE DEF order
<1>9. k \in [Pair -> Connection]
  <2>1. w.conn \in [Pair -> Connection]
    BY <1>2, WorldFields
  <2> QED BY <1>3, <2>1
<1>10. \A c \in Pair : k[c] = IF c \in new THEN one ELSE w.conn[c]
  OBVIOUS
<1> HIDE DEF k
<1>11. made = [w EXCEPT !.conn = k, !.chan.order = order]
  OBVIOUS
<1> HIDE DEF x, made
<1>12. made = [chan |-> ch, conn |-> k, port |-> w.port]
  BY <1>2, <1>11, WorldFields DEF Worlds
<1>13. /\ ch \in Channel /\ ch.order = order
       /\ ch.list = w.chan.list /\ ch.remote = w.chan.remote
       /\ ch.was_writable = w.chan.was_writable /\ ch.writable = w.chan.writable
       /\ ch.was_timed_out = w.chan.was_timed_out
       /\ ch.waiting = w.chan.waiting /\ ch.allocate = w.chan.allocate
  BY <1>2, <1>8 DEF Channel
<1> HIDE DEF ch
<1>14. made.chan = ch /\ made.conn = k /\ made.port = w.port
  BY <1>12
<1>15. made \in Worlds
  BY <1>2, <1>9, <1>12, <1>13, WorldFields DEF Worlds
<1>16. Live(made) = new \cup Live(w) /\ Live(made) = S \cup Live(w)
  BY <1>3, <1>10, <1>14 DEF Live
<1>17. Off(made)
  BY <1>3, <1>10, <1>14 DEF Off, Sound
<1>18. Flags(made)
  BY <1>13, <1>14 DEF Flags, Sound
<1>19. Held(made)
  BY <1>13, <1>14, <1>16 DEF Held, PortLives, Sound
<1>20. Ordered(made)
  BY <1>8, <1>13, <1>14, <1>16 DEF Ordered
<1>21. Sound(made)
  BY <1>15, <1>17, <1>18, <1>19, <1>20 DEF Sound
<1>22. \A c \in Pair : /\ w.conn[c].made \/ c \in S => made.conn[c].made
                       /\ w.conn[c].write = "writable" => made.conn[c].write = "writable"
  BY <1>3, <1>10, <1>14 DEF Sound, Off
<1>23. CASE ~readable
  <2>1. x = made
    BY <1>1, <1>23
  <2> QED BY <1>13, <1>14, <1>21, <1>22, <2>1 DEF x
<1>24. CASE readable
  <2>1. x = Each(made, S, ReceivedPing)
    BY <1>1, <1>24
  <2>2. Alike(made, x) /\ \A c \in Pair : x.conn[c].write = made.conn[c].write
    BY <1>15, <2>1, PingedAll
  <2>3. Kept(made, x) /\ Flags(x)
    BY <1>15, <1>18, <2>2, AlikeIsKept
  <2>4. Sound(x)
    <3>1. \A c \in Pair : x.conn[c].write = "writable" => x.conn[c].on
      BY <1>17, <2>2, <2>3 DEF Off, Kept
    <3> QED BY <1>21, <2>3, <3>1, KeptIsSound
  <2> QED BY <1>13, <1>14, <1>22, <2>2, <2>3, <2>4 DEF x, Kept
<1> QED BY <1>23, <1>24

\* All the ports are started; none that was there goes.
LEMMA StartIsSound ==
  ASSUME NEW w, Sound(w)
  PROVE  LET x == StartGetAllPorts(w)
         IN /\ Sound(x) /\ x.chan.list = w.chan.list /\ x.chan.remote = w.chan.remote
            /\ x.conn = w.conn
<1> DEFINE getting == [g \in DOMAIN w.chan.getting |-> TRUE]
           ports == [p \in Port |-> IF w.port[p] = "prestart" THEN "pretimeout" ELSE w.port[p]]
           ch == [w.chan EXCEPT !.getting = getting]
           x == StartGetAllPorts(w)
<1>1. x = [w EXCEPT !.chan.getting = getting, !.port = ports]
  BY DEF StartGetAllPorts
<1>2. /\ w \in Worlds /\ w.chan \in Channel /\ w.chan.getting \in Seq(BOOLEAN)
      /\ w.port \in [Port -> {"none", "prestart", "pretimeout", "posttimeout", "gone"}]
  <2>1. w \in Worlds /\ w.chan \in Channel
    BY WorldFields DEF Sound
  <2> QED BY <2>1, WorldFields DEF Channel
<1>3. getting \in Seq(BOOLEAN)
  <2>1. DOMAIN w.chan.getting = 1..Len(w.chan.getting) /\ Len(w.chan.getting) \in Nat
    BY <1>2
  <2>2. getting \in [1..Len(w.chan.getting) -> BOOLEAN]
    BY <2>1
  <2> HIDE DEF getting
  <2> QED BY <2>1, <2>2
<1>4. ports \in [Port -> {"none", "prestart", "pretimeout", "posttimeout", "gone"}]
  BY <1>2
<1>5. \A p \in Port : w.port[p] \notin {"none", "gone"} => ports[p] \notin {"none", "gone"}
  OBVIOUS
<1> HIDE DEF x, getting, ports
<1>6. x = [chan |-> ch, conn |-> w.conn, port |-> ports]
  BY <1>1, <1>2, WorldFields DEF Worlds
<1>7. /\ ch \in Channel /\ ch.order = w.chan.order
      /\ ch.list = w.chan.list /\ ch.remote = w.chan.remote
      /\ ch.was_writable = w.chan.was_writable /\ ch.writable = w.chan.writable
      /\ ch.was_timed_out = w.chan.was_timed_out
      /\ ch.waiting = w.chan.waiting /\ ch.allocate = w.chan.allocate
  BY <1>2, <1>3 DEF Channel
<1> HIDE DEF ch
<1>8. x.chan = ch /\ x.conn = w.conn /\ x.port = ports
  BY <1>6
<1>9. x \in Worlds
  BY <1>2, <1>4, <1>6, <1>7, WorldFields DEF Worlds
<1>10. Live(x) = Live(w) /\ Off(x) /\ Flags(x) /\ Ordered(x)
  BY <1>7, <1>8 DEF Live, Off, Flags, Ordered, Sound
<1>11. Held(x)
  <2>1. w.chan.list \subseteq Port /\ \A c \in Live(w) : c[1] \in Port
    BY <1>2 DEF Channel, Live, Pair
  <2> QED BY <1>5, <1>7, <1>8, <1>10, <2>1 DEF Held, PortLives, Sound
<1> QED BY <1>7, <1>8, <1>9, <1>10, <1>11 DEF x, Sound

\* A sound world whose channel has other flags, and perhaps fewer ports.
LEMMA ChannelIsSound ==
  ASSUME NEW w, Sound(w), NEW ch \in Channel, ch.list \subseteq w.chan.list, ch.order = w.chan.order,
         NEW x, x = [chan |-> ch, conn |-> w.conn, port |-> w.port], Flags(x)
  PROVE  /\ Sound(x) /\ Live(x) = Live(w)
         /\ x.chan = ch /\ x.conn = w.conn /\ x.port = w.port
<1>1. x \in Worlds /\ x.chan = ch /\ x.conn = w.conn /\ x.port = w.port
  BY WorldFields DEF Worlds, Sound
<1>2. Live(x) = Live(w) /\ Off(x) /\ Ordered(x)
  BY <1>1 DEF Live, Off, Ordered, Sound
<1>3. Held(x)
  BY <1>1, <1>2 DEF Held, PortLives, Sound
<1> QED BY <1>1, <1>2, <1>3 DEF Sound

\* A candidate is remembered; every port of the channel has been tried with it.
LEMMA CreateConnectionsIsSane ==
  ASSUME NEW w, Sane(w), NEW r \in Remote, NEW origin \in SUBSET Port,
         \A p \in origin : PortLives(w, p), NEW readable \in BOOLEAN
  PROVE  LET x == CreateConnections(w, r, origin, readable)
         IN /\ Sane(x)
            /\ \A c \in Pair : w.conn[c].write = "writable" => x.conn[c].write = "writable"
<1> DEFINE S == (w.chan.list \cup origin) \X {r}
           y == CreateConnection(w, S, readable)
           remote == {q \in y.chan.remote : GenerationOf[q] >= GenerationOf[r]} \cup {r}
           y1 == [y EXCEPT !.chan.remote = {q \in @ : GenerationOf[q] >= GenerationOf[r]} \cup {r}]
           z == StartGetAllPorts(y1)
           x == CreateConnections(w, r, origin, readable)
           ch1 == [y.chan EXCEPT !.remote = remote]
           ch2 == [z.chan EXCEPT !.pinging = TRUE]
<1>1. x = IF y.chan.pinging THEN y1 ELSE [z EXCEPT !.chan.pinging = TRUE]
  BY DEF CreateConnections, RememberRemoteCandidate
<1>2. y1 = [y EXCEPT !.chan.remote = remote]
  OBVIOUS
<1>3. w.chan \in Channel /\ w.chan.list \subseteq Port
  <2>1. w.chan \in Channel
    BY WorldFields DEF Sane, Sound
  <2> QED BY <2>1 DEF Channel
<1>4. S \in SUBSET Pair /\ \A c \in S : PortLives(w, c[1])
  BY <1>3 DEF Pair, Sane, Sound, Held
<1>5. \A p \in w.chan.list : <<p, r>> \in S
  OBVIOUS
<1> HIDE DEF S
<1>6. /\ Sound(y) /\ y.chan.list = w.chan.list /\ y.chan.remote = w.chan.remote
      /\ \A c \in Pair : /\ w.conn[c].made \/ c \in S => y.conn[c].made
                         /\ w.conn[c].write = "writable" => y.conn[c].write = "writable"
  BY <1>4, CreateConnectionIsSound DEF Sane
<1> HIDE DEF y
<1>7. y \in Worlds /\ y.chan \in Channel
  BY <1>6, WorldFields DEF Sound
<1>8. remote \subseteq y.chan.remote \cup {r} /\ remote \subseteq Remote
  BY <1>7 DEF Channel
<1> HIDE DEF remote, y1, z, x
<1>9. y1 = [chan |-> ch1, conn |-> y.conn, port |-> y.port]
  BY <1>2, <1>7, WorldFields DEF Worlds
<1>10. /\ ch1 \in Channel /\ ch1.list = y.chan.list /\ ch1.order = y.chan.order /\ ch1.remote = remote
       /\ ch1.was_writable = y.chan.was_writable /\ ch1.writable = y.chan.writable
       /\ ch1.was_timed_out = y.chan.was_timed_out
       /\ ch1.waiting = y.chan.waiting /\ ch1.allocate = y.chan.allocate
  BY <1>7, <1>8 DEF Channel
<1> HIDE DEF ch1
<1>11. Sound(y1) /\ y1.chan = ch1 /\ y1.conn = y.conn
  <2>1. ch1.list \subseteq y.chan.list
    BY <1>10
  <2>2. y1.chan = ch1
    BY <1>9
  <2>3. Flags(y1)
    BY <1>6, <1>10, <2>2 DEF Flags, Sound
  <2> QED BY <1>6, <1>9, <1>10, <2>1, <2>3, ChannelIsSound
<1>12. Sound(z) /\ z.chan.list = y1.chan.list /\ z.chan.remote = y1.chan.remote /\ z.conn = y1.conn
  BY <1>11, StartIsSound DEF z
<1>13. Sound(x) /\ x.chan.list = w.chan.list /\ x.chan.remote = remote /\ x.conn = y.conn
  <2>1. CASE y.chan.pinging
    BY <1>1, <1>6, <1>10, <1>11, <2>1
  <2>2. CASE ~y.chan.pinging
    <3>1. z \in Worlds /\ z.chan \in Channel
      BY <1>12, WorldFields DEF Sound
    <3>2. x = [chan |-> ch2, conn |-> z.conn, port |-> z.port]
      BY <1>1, <2>2, <3>1, WorldFields DEF Worlds
    <3>3. /\ ch2 \in Channel /\ ch2.list = z.chan.list /\ ch2.order = z.chan.order
          /\ ch2.remote = z.chan.remote
          /\ ch2.was_writable = z.chan.was_writable /\ ch2.writable = z.chan.writable
          /\ ch2.was_timed_out = z.chan.was_timed_out
          /\ ch2.waiting = z.chan.waiting /\ ch2.allocate = z.chan.allocate
      BY <3>1 DEF Channel
    <3> HIDE DEF ch2
    <3>4. Sound(x) /\ x.chan = ch2 /\ x.conn = z.conn
      <4>1. ch2.list \subseteq z.chan.list
        BY <3>3
      <4>2. x.chan = ch2
        BY <3>2
      <4>3. Flags(x)
        BY <1>12, <3>3, <4>2 DEF Flags, Sound
      <4> QED BY <1>12, <3>2, <3>3, <4>1, <4>3, ChannelIsSound
    <3> QED BY <1>6, <1>10, <1>11, <1>12, <3>3, <3>4
  <2> QED BY <2>1, <2>2
<1>14. Tried(x)
  <2> SUFFICES ASSUME NEW p \in w.chan.list, NEW q \in remote
               PROVE  y.conn[<<p, q>>].made
    BY <1>13 DEF Tried
  <2>1. <<p, q>> \in Pair
    BY <1>3, <1>8 DEF Pair
  <2>2. CASE q = r
    BY <1>5, <1>6, <2>1, <2>2
  <2>3. CASE q # r
    <3>1. q \in w.chan.remote
      BY <1>6, <1>8, <2>3
    <3>2. w.conn[<<p, q>>].made
      BY <3>1 DEF Sane, Tried
    <3> QED BY <1>6, <2>1, <3>2
  <2> QED BY <2>2, <2>3
<1> QED BY <1>6, <1>13, <1>14 DEF x, Sane

-----------------------------------------------------------------------------
(* The steps                                                                 *)

\* The inductive invariant.
PInv == Good(World) /\ up \subseteq Pair

\* What NeverStranded says of a step.
Spared ==
  \A c \in up \ Refused :
    conn[c].write = "writable" /\ ~conn[c].delete /\ chan' # Fresh =>
      \E d \in Pair : conn'[d].write = "writable"

\* The world that a step ends with.
LEMMA StepIsGood ==
  ASSUME NEW x, Good(x), Becomes(x), up \subseteq Pair, UNCHANGED up
  PROVE  PInv' /\ conn' = x.conn /\ chan' = x.chan
<1>1. x \in Worlds
  BY DEF Good, Sane, Sound
<1>2. x = [chan |-> chan', conn |-> conn', port |-> port']
  BY <1>1, WorldFields DEF Becomes
<1> QED BY <1>2 DEF Becomes, PInv, World

\* The fields of the world that there is.
LEMMA Here ==
  ASSUME PInv
  PROVE  /\ World \in Worlds /\ Good(World) /\ Sane(World) /\ Sound(World) /\ up \subseteq Pair
         /\ World.chan = chan /\ World.conn = conn /\ World.port = port
         /\ chan \in Channel /\ conn \in [Pair -> Connection]
         /\ port \in [Port -> {"none", "prestart", "pretimeout", "posttimeout", "gone"}]
<1>1. World \in Worlds /\ Good(World) /\ Sane(World) /\ Sound(World) /\ up \subseteq Pair
  BY DEF PInv, Good, Sane, Sound
<1>2. World.chan = chan /\ World.conn = conn /\ World.port = port
  BY DEF World
<1> QED BY <1>1, <1>2, WorldFields

\* What is too old is not a ping on a path that is up.
LEMMA UpIsYoung ==
  ASSUME NEW c \in up, NEW age \in Ageing
  PROVE  age # <<c, "write">> /\ age \in Ages
BY AgesOfPairs DEF Ageing, NoPair

\* A sort ends a step.
LEMMA SortedIsGood ==
  ASSUME NEW w, Sane(w), Sorted(w), up \subseteq Pair, UNCHANGED <<up, failures>>
  PROVE  PInv' /\ \A c \in up : w.conn[c].write = "writable" =>
                    \E d \in Pair : conn'[d].write = "writable"
<1>1. PICK quick \in Latencies(w), age \in Ageing : Becomes(SortConnections(w, quick, age))
  BY DEF Sorted
<1> DEFINE x == SortConnections(w, quick, age)
<1>2. age \in Ages /\ \A c \in up : age # <<c, "write">>
  BY AgesOfPairs, UpIsYoung
<1>3. /\ Good(x)
      /\ \A c \in Pair : w.conn[c].write = "writable" /\ age # <<c, "write">> =>
            \E d \in Pair : x.conn[d].write = "writable"
  BY <1>2, SortIsGood
<1>4. Becomes(x)
  BY <1>1
<1> HIDE DEF x
<1>5. PInv' /\ conn' = x.conn
  BY <1>3, <1>4, StepIsGood
<1> QED BY <1>2, <1>3, <1>5

\* MSG_SORT.
LEMMA OnSortStep ==
  ASSUME PInv, OnSort
  PROVE  PInv' /\ Spared
<1>1. Sorted(World) /\ UNCHANGED <<up, failures>>
  BY DEF OnSort
<1> QED BY <1>1, Here, SortedIsGood DEF Spared

\* A candidate with the signaling.
LEMMA OnChannelMessageStep ==
  ASSUME PInv, NEW r \in Remote, OnChannelMessage(r)
  PROVE  PInv' /\ Spared
<1> DEFINE w == CreateConnections(World, r, {}, FALSE)
<1>1. Sorted(w) /\ UNCHANGED <<up, failures>>
  BY DEF OnChannelMessage
<1>2. Sane(w) /\ \A c \in Pair : conn[c].write = "writable" => w.conn[c].write = "writable"
  BY Here, CreateConnectionsIsSane
<1> HIDE DEF w
<1> QED BY <1>1, <1>2, Here, SortedIsGood DEF Spared

\* A port is ready: it is tried with every candidate.
LEMMA OnPortReadyStep ==
  ASSUME PInv, NEW p \in Port, OnPortReady(p)
  PROVE  PInv' /\ Spared
<1> DEFINE life == IF chan.getting[SessionOf[p] + 1] THEN "pretimeout" ELSE "prestart"
           w == [World EXCEPT !.port[p] = life, !.chan.list = @ \cup {p}]
           S == {p} \X chan.remote
           x == CreateConnection(w, S, FALSE)
           ch == [chan EXCEPT !.list = chan.list \cup {p}]
           pt == [port EXCEPT ![p] = life]
<1>1. Sorted(x) /\ UNCHANGED <<up, failures>>
  BY DEF OnPortReady
<1>2. life \in {"prestart", "pretimeout"}
  OBVIOUS
<1> HIDE DEF life, x
<1>3. w = [chan |-> ch, conn |-> conn, port |-> pt]
  <2>1. w = [[chan |-> chan, conn |-> conn, port |-> port] EXCEPT
               !.port[p] = life, !.chan.list = chan.list \cup {p}]
    BY DEF World
  <2> HIDE DEF w
  <2> QED BY <2>1
<1>4. /\ ch \in Channel /\ ch.list = chan.list \cup {p} /\ ch.order = chan.order
      /\ ch.remote = chan.remote /\ chan.remote \subseteq Remote /\ chan.list \subseteq Port
      /\ ch.was_writable = chan.was_writable /\ ch.writable = chan.writable
      /\ ch.was_timed_out = chan.was_timed_out
      /\ ch.waiting = chan.waiting /\ ch.allocate = chan.allocate
  <2>1. chan \in Channel
    BY Here
  <2> QED BY <2>1 DEF Channel
<1>5. /\ pt \in [Port -> {"none", "prestart", "pretimeout", "posttimeout", "gone"}]
      /\ pt[p] = life /\ \A q \in Port \ {p} : pt[q] = port[q]
  BY <1>2, Here
<1> HIDE DEF w, ch, pt
<1>6. w.chan = ch /\ w.conn = conn /\ w.port = pt /\ Live(w) = Live(World)
  BY <1>3, Here DEF Live
<1>7. w \in Worlds
  BY <1>3, <1>4, <1>5, Here DEF Worlds
<1>8. PortLives(w, p) /\ \A q \in Port : PortLives(World, q) => PortLives(w, q)
  BY <1>2, <1>5, <1>6, Here DEF PortLives
<1>9. Sound(w)
  <2>1. Off(w) /\ Ordered(w)
    BY <1>4, <1>6, Here DEF Sound, Off, Ordered
  <2>2. Flags(w)
    BY <1>4, <1>6, Here DEF Sound, Flags
  <2>3. Held(w)
    <3>1. \A c \in Live(World) : c[1] \in Port
      BY DEF Live, Pair
    <3> QED BY <1>4, <1>6, <1>8, <3>1, Here DEF Sound, Held
  <2> QED BY <1>7, <2>1, <2>2, <2>3 DEF Sound
<1>10. S \in SUBSET Pair /\ \A c \in S : PortLives(w, c[1])
  BY <1>4, <1>8 DEF Pair
<1>11. \A r \in chan.remote : <<p, r>> \in S
  OBVIOUS
<1> HIDE DEF S
<1>12. /\ Sound(x) /\ x.chan.list = w.chan.list /\ x.chan.remote = w.chan.remote
       /\ \A c \in Pair : /\ w.conn[c].made \/ c \in S => x.conn[c].made
                          /\ w.conn[c].write = "writable" => x.conn[c].write = "writable"
  BY <1>9, <1>10, CreateConnectionIsSound DEF x
<1>13. Tried(x)
  <2> SUFFICES ASSUME NEW q \in chan.list \cup {p}, NEW r \in chan.remote
               PROVE  x.conn[<<q, r>>].made
    BY <1>4, <1>6, <1>12 DEF Tried
  <2>1. <<q, r>> \in Pair
    BY <1>4 DEF Pair
  <2>2. q = p \/ conn[<<q, r>>].made
    BY Here DEF Sane, Tried
  <2> QED BY <1>6, <1>11, <1>12, <2>1, <2>2
<1>14. Sane(x)
  BY <1>12, <1>13 DEF Sane
<1> QED BY <1>1, <1>6, <1>12, <1>14, Here, SortedIsGood DEF Spared

\* One connection changes.
LEMMA OnlyOnIsGood ==
  ASSUME NEW w, Good(w), NEW c \in Pair, NEW x, OnlyOn(w, x, c),
         x.conn[c].write = "writable" => w.conn[c].on
  PROVE  Good(x) /\ \A d \in Pair \ {c} : x.conn[d] = w.conn[d]
<1>1. Alike(w, x) /\ \A d \in Pair \ {c} : x.conn[d] = w.conn[d]
  BY DEF OnlyOn
<1>2. \A d \in Pair : x.conn[d].write # w.conn[d].write => x.chan.sort
  BY <1>1 DEF OnlyOn
<1>3. \A d \in Pair : x.conn[d].write = "writable" => w.conn[d].on
  BY <1>1 DEF Good, Sane, Sound, Off
<1>4. Good(x)
  BY <1>1, <1>2, <1>3, AlikeIsGood
<1> QED BY <1>1, <1>4

\* The peer pings.
LEMMA PingArrivesStep ==
  ASSUME PInv, NEW c \in Pair, PingArrives(c)
  PROVE  PInv' /\ Spared
<1>1. c \in up /\ PortLives(World, c[1]) /\ UNCHANGED <<up, failures>>
  BY DEF PingArrives
<1>2. CASE conn[c].on
  <2> DEFINE y == ReceivedPing(World, c)
             x == StartAgain(y, c)
  <2>1. Becomes(x)
    BY <1>2 DEF PingArrives
  <2>2. OnlyOn(World, y, c) /\ y.conn[c].write = conn[c].write /\ y \in Worlds
    <3>1. OnlyOn(World, y, c) /\ y.conn[c].write = conn[c].write
      BY Here, ReceivedPingOnly
    <3> HIDE DEF y
    <3> QED BY <3>1 DEF OnlyOn, Alike
  <2> HIDE DEF y
  <2>3. /\ OnlyOn(y, x, c) /\ x.conn[c].write \in {y.conn[c].write, "connect"}
        /\ y.conn[c].write # "timeout" => x = y
    BY <2>2, StartAgainOnly
  <2> HIDE DEF x
  <2>4. OnlyOn(World, x, c)
    BY <2>2, <2>3, Here, OnlyOnAgain
  <2>5. x.conn[c].write = "writable" => conn[c].on
    BY <1>2
  <2>6. Good(x) /\ \A d \in Pair \ {c} : x.conn[d] = conn[d]
    BY <2>4, <2>5, Here, OnlyOnIsGood
  <2>7. PInv' /\ conn' = x.conn
    BY <1>1, <2>1, <2>6, Here, StepIsGood
  <2>8. conn[c].write = "writable" => x.conn[c].write = "writable"
    BY <2>2, <2>3
  <2> QED BY <2>6, <2>7, <2>8, Here DEF Spared
<1>3. CASE ~conn[c].on
  <2> DEFINE w == CreateConnections(World, c[2], {c[1]}, TRUE)
  <2>1. Sorted(w)
    BY <1>3 DEF PingArrives
  <2>2. c[2] \in Remote /\ {c[1]} \in SUBSET Port /\ \A p \in {c[1]} : PortLives(World, p)
    BY <1>1 DEF Pair
  <2>3. Sane(w) /\ \A d \in Pair : conn[d].write = "writable" => w.conn[d].write = "writable"
    <3>1. /\ Sane(w)
          /\ \A d \in Pair : World.conn[d].write = "writable" => w.conn[d].write = "writable"
      BY <2>2, Here, CreateConnectionsIsSane
    <3> QED BY <3>1, Here
  <2> HIDE DEF w
  <2> QED BY <1>1, <2>1, <2>3, Here, SortedIsGood DEF Spared
<1> QED BY <1>2, <1>3

\* Data arrives.
LEMMA OnReadPacketStep ==
  ASSUME PInv, NEW c \in Pair, OnReadPacket(c)
  PROVE  PInv' /\ Spared
<1> DEFINE x == StartAgain(World, c)
<1>1. Becomes(x) /\ conn[c].on /\ UNCHANGED <<up, failures>>
  BY DEF OnReadPacket
<1>2. /\ OnlyOn(World, x, c) /\ x.conn[c].write \in {conn[c].write, "connect"}
      /\ conn[c].write # "timeout" => x = World
  BY Here, StartAgainOnly
<1> HIDE DEF x
<1>3. Good(x) /\ \A d \in Pair \ {c} : x.conn[d] = conn[d]
  BY <1>1, <1>2, Here, OnlyOnIsGood
<1>4. PInv' /\ conn' = x.conn
  BY <1>1, <1>3, Here, StepIsGood
<1>5. conn[c].write = "writable" => x.conn[c].write = "writable"
  BY <1>2, Here
<1> QED BY <1>3, <1>4, <1>5, Here DEF Spared

\* A ping is answered.
LEMMA OnConnectionRequestResponseStep ==
  ASSUME PInv, NEW c \in Pair, OnConnectionRequestResponse(c)
  PROVE  PInv' /\ Spared
<1> DEFINE y == SetWrite(World, c, "writable")
           k == [y.conn[c] EXCEPT !.asked = FALSE, !.unanswered = FALSE]
           x == [y EXCEPT !.conn[c] = k]
<1>1. OnlyOn(World, y, c) /\ y.conn[c].write = "writable"
  BY Here, SetWriteOnly DEF Write
<1>2. conn[c].on /\ UNCHANGED <<up, failures>>
  BY DEF OnConnectionRequestResponse, Answerable
<1>3. Becomes([y EXCEPT !.conn[c].asked = FALSE, !.conn[c].unanswered = FALSE])
  BY DEF OnConnectionRequestResponse
<1> HIDE DEF y
<1>4. y \in Worlds /\ y.conn[c] \in Connection
  BY <1>1, WorldFields DEF OnlyOn, Alike
<1>5. Becomes(x)
  <2>1. [y EXCEPT !.conn[c].asked = FALSE, !.conn[c].unanswered = FALSE] = x
    BY <1>4, WorldFields
  <2> QED BY <1>3, <2>1
<1>6. /\ k \in Connection /\ k.on = y.conn[c].on /\ k.made = y.conn[c].made
      /\ (y.conn[c].delete => k.delete) /\ k.write = y.conn[c].write
  BY <1>4 DEF Connection
<1> HIDE DEF k
<1>7. OnlyOn(y, x, c) /\ x.conn[c] = k
  BY <1>4, <1>6, ConnectionOnly
<1> HIDE DEF x
<1>8. OnlyOn(World, x, c)
  BY <1>1, <1>7, Here, OnlyOnAgain
<1>9. Good(x)
  BY <1>2, <1>8, Here, OnlyOnIsGood
<1>10. PInv' /\ conn' = x.conn
  BY <1>2, <1>5, <1>9, Here, StepIsGood
<1> QED BY <1>1, <1>6, <1>7, <1>10 DEF Spared

\* A ping is refused for good.
LEMMA OnConnectionRequestErrorResponseStep ==
  ASSUME PInv, NEW c \in Pair, OnConnectionRequestErrorResponse(c)
  PROVE  PInv' /\ Spared
<1> DEFINE y == SetWrite(World, c, "timeout")
           k == [y.conn[c] EXCEPT !.asked = FALSE]
           x == [y EXCEPT !.conn[c] = k]
<1>1. OnlyOn(World, y, c)
  BY Here, SetWriteOnly DEF Write
<1>2. conn[c].on /\ c \in Refused /\ UNCHANGED up
  BY DEF OnConnectionRequestErrorResponse, Answerable
<1>3. Becomes([y EXCEPT !.conn[c].asked = FALSE])
  BY DEF OnConnectionRequestErrorResponse
<1> HIDE DEF y
<1>4. y \in Worlds /\ y.conn[c] \in Connection
  BY <1>1, WorldFields DEF OnlyOn, Alike
<1>5. Becomes(x)
  <2>1. [y EXCEPT !.conn[c].asked = FALSE] = x
    BY <1>4, WorldFields
  <2> QED BY <1>3, <2>1
<1>6. /\ k \in Connection /\ k.on = y.conn[c].on /\ k.made = y.conn[c].made
      /\ (y.conn[c].delete => k.delete) /\ k.write = y.conn[c].write
  BY <1>4 DEF Connection
<1> HIDE DEF k
<1>7. OnlyOn(y, x, c) /\ x.conn[c] = k
  BY <1>4, <1>6, ConnectionOnly
<1> HIDE DEF x
<1>8. OnlyOn(World, x, c)
  BY <1>1, <1>7, Here, OnlyOnAgain
<1>9. Good(x) /\ \A d \in Pair \ {c} : x.conn[d] = conn[d]
  BY <1>2, <1>8, Here, OnlyOnIsGood
<1>10. PInv' /\ conn' = x.conn
  BY <1>2, <1>5, <1>9, Here, StepIsGood
<1> QED BY <1>2, <1>9, <1>10, Here DEF Spared

\* What is pinged next is there.
LEMMA NextIsLive ==
  ASSUME NEW w, Good(w)
  PROVE  FindNextPingableConnection(w) \in Live(w) \cup {NoPair}
<1> DEFINE I == {i \in 1..Len(w.chan.order) :
                   w.conn[w.chan.order[i]].on /\ IsPingable(w, w.chan.order[i])}
<1>1. Oldest(w) = IF I # {} THEN w.chan.order[Min(I)] ELSE NoPair
  <2>1. SelectInSeq(w.chan.order, LAMBDA c : w.conn[c].on /\ IsPingable(w, c))
        = IF I # {} THEN Min(I) ELSE 0
    BY DEF SelectInSeq
  <2>2. I # {} => Min(I) # 0
    <3>1. I \in SUBSET Nat /\ 0 \notin I
      OBVIOUS
    <3> HIDE DEF I
    <3> QED BY <3>1, LeastOf
  <2> HIDE DEF I
  <2> QED BY <2>1, <2>2 DEF Oldest
<1>2. I # {} => w.chan.order[Min(I)] \in Live(w)
  <2>1. I \in SUBSET Nat
    OBVIOUS
  <2>2. w.chan.order \in Seq(Pair)
    <3>1. w.chan \in Channel
      BY WorldFields DEF Good, Sane, Sound
    <3> QED BY <3>1 DEF Channel
  <2>3. \A i \in I : w.chan.order[i] \in Live(w)
    BY <2>2 DEF Live
  <2> HIDE DEF I
  <2> QED BY <2>1, <2>3, LeastOf
<1> HIDE DEF I
<1> QED BY <1>1, <1>2 DEF FindNextPingableConnection, Good, BestHeld

\* A connection is pinged and goes to the end of the line.
LEMMA PingIsGood ==
  ASSUME NEW w, Good(w), NEW c \in Live(w)
  PROVE  Good(Ping(w, c)) /\ \A d \in Pair : Ping(w, c).conn[d].write = w.conn[d].write
<1> DEFINE l == [w.conn[c] EXCEPT !.asked = TRUE, !.unanswered = TRUE]
           k == [w.conn EXCEPT ![c] = l]
           o == Append(RemoveFirst(w.chan.order, c), c)
           rested == (c # w.chan.best)
           ch == [w.chan EXCEPT !.order = o, !.rested = rested]
           x == Ping(w, c)
<1>1. /\ w \in Worlds /\ Sane(w) /\ Sound(w) /\ c \in Pair /\ w.chan \in Channel
      /\ w.conn \in [Pair -> Connection] /\ w.chan.order \in Seq(Pair)
  <2>1. w \in Worlds /\ Sane(w) /\ Sound(w) /\ c \in Pair
    BY DEF Good, Sane, Sound, Live
  <2> QED BY <2>1, WorldFields DEF Channel
<1>2. x = [chan |-> ch, conn |-> k, port |-> w.port]
  <2>1. x = [w EXCEPT !.conn = k, !.chan = ch]
    <3>1. x = [w EXCEPT !.conn[c].asked = TRUE, !.conn[c].unanswered = TRUE,
                        !.chan.order = o, !.chan.rested = rested]
      BY DEF Ping
    <3> HIDE DEF x, o, rested
    <3> QED BY <1>1, <3>1, WorldFields DEF Worlds
  <2> HIDE DEF x, k, ch
  <2> QED BY <1>1, <2>1, WorldFields DEF Worlds
<1>3. /\ l \in Connection /\ l.on = w.conn[c].on /\ l.made = w.conn[c].made
      /\ l.write = w.conn[c].write
  <2>1. w.conn[c] \in Connection
    BY <1>1
  <2> QED BY <2>1 DEF Connection
<1> HIDE DEF l
<1>4. /\ k \in [Pair -> Connection]
      /\ \A d \in Pair : /\ k[d].on = w.conn[d].on /\ k[d].made = w.conn[d].made
                         /\ k[d].write = w.conn[d].write
  BY <1>1, <1>3
<1>5. o \in Seq(Pair) /\ IsInjective(o) /\ ToSet(o) = Live(w)
  <2> DEFINE s == RemoveFirst(w.chan.order, c)
             t == <<c>>
  <2>1. s \in Seq(Pair) /\ IsInjective(s) /\ ToSet(s) = Live(w) \ {c}
    BY <1>1, RemoveIsOrdered DEF Sound, Ordered
  <2>2. t \in Seq(Pair) /\ IsInjective(t) /\ ToSet(t) = {c} /\ Len(t) = 1 /\ t[1] = c
    BY <1>1 DEF IsInjective, ToSet
  <2>3. o = s \o t
    BY <1>1, <2>1
  <2> HIDE DEF s, t, o
  <2>4. \A i \in 1..Len(s), j \in 1..Len(t) : s[i] # t[j]
    <3> SUFFICES ASSUME NEW i \in 1..Len(s), s[i] = c PROVE FALSE
      BY <2>2
    <3> QED BY <2>1 DEF ToSet
  <2>5. s \o t \in Seq(Pair) /\ IsInjective(s \o t) /\ ToSet(s \o t) = ToSet(s) \cup ToSet(t)
    BY <2>1, <2>2, <2>4, JoinIsOrdered
  <2> QED BY <2>1, <2>2, <2>3, <2>5
<1> HIDE DEF k, o, x
<1>6. /\ ch \in Channel /\ ch.order = o /\ ch.list = w.chan.list /\ ch.remote = w.chan.remote
      /\ ch.best = w.chan.best /\ ch.sort = w.chan.sort
      /\ ch.was_writable = w.chan.was_writable /\ ch.writable = w.chan.writable
      /\ ch.was_timed_out = w.chan.was_timed_out
      /\ ch.waiting = w.chan.waiting /\ ch.allocate = w.chan.allocate
  <2>1. rested \in BOOLEAN
    OBVIOUS
  <2> HIDE DEF rested
  <2> QED BY <1>1, <1>5, <2>1 DEF Channel
<1> HIDE DEF ch
<1>7. x.chan = ch /\ x.conn = k /\ x.port = w.port
  BY <1>2
<1>8. x \in Worlds
  BY <1>1, <1>2, <1>4, <1>6, WorldFields DEF Worlds
<1>9. Live(x) = Live(w)
  BY <1>4, <1>7 DEF Live
<1>10. Off(x)
  BY <1>1, <1>4, <1>7 DEF Off, Sound
<1>11. Flags(x)
  BY <1>1, <1>6, <1>7 DEF Flags, Sound
<1>12. Held(x)
  BY <1>1, <1>6, <1>7, <1>9 DEF Held, PortLives, Sound
<1>13. Ordered(x)
  BY <1>5, <1>6, <1>7, <1>9 DEF Ordered
<1>14. Tried(x)
  <2> SUFFICES ASSUME NEW p \in w.chan.list, NEW r \in w.chan.remote
               PROVE  k[<<p, r>>].made
    BY <1>6, <1>7 DEF Tried
  <2>1. <<p, r>> \in Pair
    BY <1>1 DEF Channel, Pair
  <2> QED BY <1>1, <1>4, <2>1 DEF Sane, Tried
<1>15. BestHeld(x)
  BY <1>6, <1>7, <1>9 DEF BestHeld, Good
<1>16. Follows(x)
  <2>1. w.chan.best \in Pair \cup {NoPair}
    BY DEF Good, BestHeld, Live
  <2> QED BY <1>4, <1>6, <1>7, <2>1 DEF Follows, Good
<1> QED BY <1>4, <1>7, <1>8, <1>10, <1>11, <1>12, <1>13, <1>14, <1>15, <1>16 DEF Good, Sane, Sound, x

\* MSG_PING.
LEMMA OnPingStep ==
  ASSUME PInv, NEW age \in Ageing, OnPing(age)
  PROVE  PInv' /\ Spared
<1> DEFINE w == UpdateState(World, age)
           c == FindNextPingableConnection(w)
           x == IF c = NoPair THEN w ELSE Ping(w, c)
<1>1. Becomes(x) /\ UNCHANGED <<up, failures>>
  BY DEF OnPing
<1>2. /\ Alike(World, w)
      /\ \A d \in Pair : /\ age # <<d, "write">> => w.conn[d].write = conn[d].write
                         /\ w.conn[d].write = "writable" => conn[d].write = "writable"
                         /\ w.conn[d].write # conn[d].write => w.chan.sort
  BY Here, AgesOfPairs, UpdateStateOnly
<1> HIDE DEF w
<1>3. Good(w)
  <2>1. \A d \in Pair : w.conn[d].write = "writable" => conn[d].on
    BY <1>2, Here DEF Sound, Off
  <2> QED BY <1>2, <2>1, Here, AlikeIsGood
<1>4. c \in Live(w) \cup {NoPair}
  BY <1>3, NextIsLive
<1> HIDE DEF c
<1>5. Good(x) /\ \A d \in Pair : x.conn[d].write = w.conn[d].write
  BY <1>3, <1>4, PingIsGood
<1> HIDE DEF x
<1>6. PInv' /\ conn' = x.conn
  BY <1>1, <1>5, Here, StepIsGood
<1>7. \A d \in up : age # <<d, "write">>
  BY UpIsYoung
<1> QED BY <1>2, <1>5, <1>6, <1>7, Here DEF Spared

\* A world whose channel has other flags, and perhaps fewer ports, is good if they are.
LEMMA ChannelIsGood ==
  ASSUME NEW w, Good(w), NEW ch \in Channel, ch.list \subseteq w.chan.list, ch.order = w.chan.order,
         ch.remote = w.chan.remote, ch.best = w.chan.best, ch.sort = w.chan.sort,
         ch.writable = w.chan.writable,
         NEW x, x = [chan |-> ch, conn |-> w.conn, port |-> w.port], Flags(x)
  PROVE  Good(x) /\ x.conn = w.conn
<1>1. Sound(w) /\ Sane(w)
  BY DEF Good, Sane
<1>2. Sound(x) /\ Live(x) = Live(w) /\ x.chan = ch /\ x.conn = w.conn
  BY <1>1, ChannelIsSound
<1>3. Tried(x)
  BY <1>1, <1>2 DEF Tried, Sane
<1>4. BestHeld(x)
  BY <1>2 DEF BestHeld, Good
<1>5. Follows(x)
  BY <1>2 DEF Follows, Good
<1> QED BY <1>2, <1>3, <1>4, <1>5 DEF Good, Sane

\* MSG_ALLOCATE.
LEMMA OnAllocateMessageStep ==
  ASSUME PInv, OnAllocateMessage
  PROVE  PInv' /\ Spared
<1> DEFINE ch == [chan EXCEPT !.waiting = TRUE, !.allocate = FALSE]
           x == [chan |-> ch, conn |-> conn, port |-> port]
<1>1. Becomes(x) /\ UNCHANGED <<up, failures>>
  <2> DEFINE y == [OnAllocate(World) EXCEPT !.chan.allocate = FALSE]
             y1 == [World EXCEPT !.chan.waiting = TRUE]
  <2>1. Becomes(y) /\ UNCHANGED <<up, failures>>
    BY DEF OnAllocateMessage
  <2>2. y = [y1 EXCEPT !.chan.allocate = FALSE]
    BY DEF OnAllocate
  <2>3. y1 = [[chan |-> chan, conn |-> conn, port |-> port] EXCEPT !.chan.waiting = TRUE]
    BY DEF World
  <2> HIDE DEF y, y1
  <2>4. y1 = [chan |-> [chan EXCEPT !.waiting = TRUE], conn |-> conn, port |-> port]
    BY <2>3
  <2>5. y = x
    BY <2>2, <2>4
  <2> QED BY <2>1, <2>5
<1>2. /\ ch \in Channel /\ ch.list = chan.list /\ ch.order = chan.order /\ ch.remote = chan.remote
      /\ ch.best = chan.best /\ ch.sort = chan.sort /\ ch.writable = chan.writable
      /\ ch.was_writable = chan.was_writable /\ ch.was_timed_out = chan.was_timed_out /\ ch.waiting
  BY Here DEF Channel
<1> HIDE DEF ch
<1>3. x.chan = ch /\ x = [chan |-> ch, conn |-> World.conn, port |-> World.port]
  BY Here
<1> HIDE DEF x
<1>4. Flags(x)
  BY <1>2, <1>3, Here DEF Flags, Sound
<1>5. Good(x) /\ x.conn = World.conn
  <2>1. ch.list \subseteq World.chan.list
    BY <1>2, Here
  <2> QED BY <1>2, <1>3, <1>4, <2>1, Here, ChannelIsGood
<1>6. PInv' /\ conn' = x.conn
  BY <1>1, <1>5, Here, StepIsGood
<1> QED BY <1>5, <1>6, Here DEF Spared

\* The signaling is ready: a session is added.
LEMMA OnSignalingReadyStep ==
  ASSUME PInv, OnSignalingReady
  PROVE  PInv' /\ Spared
<1> DEFINE getting == Append(chan.getting, chan.pinging)
           ch == [chan EXCEPT !.waiting = FALSE, !.allocate = TRUE, !.list = {}, !.getting = getting]
           x == [chan |-> ch, conn |-> conn, port |-> port]
<1>1. Becomes(x) /\ UNCHANGED <<up, failures>>
  <2> DEFINE y == [World EXCEPT !.chan.waiting = FALSE, !.chan.allocate = TRUE, !.chan.list = {},
                               !.chan.getting = getting]
  <2>1. Becomes(y) /\ UNCHANGED <<up, failures>>
    <3>1. World.chan.getting = chan.getting
      BY DEF World
    <3>2. Becomes([World EXCEPT !.chan.waiting = FALSE, !.chan.allocate = TRUE, !.chan.list = {},
                                !.chan.getting = Append(@, chan.pinging)])
      BY DEF OnSignalingReady
    <3> QED BY <3>1, <3>2 DEF OnSignalingReady
  <2> HIDE DEF getting
  <2>2. y = [[chan |-> chan, conn |-> conn, port |-> port] EXCEPT
               !.chan.waiting = FALSE, !.chan.allocate = TRUE, !.chan.list = {}, !.chan.getting = getting]
    BY DEF World
  <2> HIDE DEF y
  <2>3. y = x
    BY <2>2
  <2> QED BY <2>1, <2>3
<1>2. getting \in Seq(BOOLEAN)
  <2>1. chan.getting \in Seq(BOOLEAN) /\ chan.pinging \in BOOLEAN
    BY Here DEF Channel
  <2> QED BY <2>1
<1> HIDE DEF getting
<1>3. /\ ch \in Channel /\ ch.list = {} /\ ch.order = chan.order /\ ch.remote = chan.remote
      /\ ch.best = chan.best /\ ch.sort = chan.sort /\ ch.writable = chan.writable
      /\ ch.was_writable = chan.was_writable /\ ch.was_timed_out = chan.was_timed_out /\ ch.allocate
  BY <1>2, Here DEF Channel
<1> HIDE DEF ch
<1>4. x.chan = ch /\ x = [chan |-> ch, conn |-> World.conn, port |-> World.port]
  BY Here
<1> HIDE DEF x
<1>5. Flags(x)
  BY <1>3, <1>4, Here DEF Flags, Sound
<1>6. Good(x) /\ x.conn = World.conn
  <2>1. ch.list \subseteq World.chan.list
    BY <1>3
  <2> QED BY <1>3, <1>4, <1>5, <2>1, Here, ChannelIsGood
<1>7. PInv' /\ conn' = x.conn
  BY <1>1, <1>6, Here, StepIsGood
<1> QED BY <1>6, <1>7, Here DEF Spared

\* A port goes when it is old and no connection uses it.
LEMMA CheckPortIsGood ==
  ASSUME NEW w, Good(w), NEW p \in Port
  PROVE  Good(CheckPort(w, p)) /\ CheckPort(w, p).conn = w.conn
<1> DEFINE x == CheckPort(w, p)
           ch == [w.chan EXCEPT !.list = w.chan.list \ {p}]
           pt == [w.port EXCEPT ![p] = "gone"]
<1>1. CASE ~(w.port[p] = "posttimeout" /\ \A c \in Live(w) : c[1] # p)
  BY <1>1 DEF CheckPort
<1>2. CASE w.port[p] = "posttimeout" /\ \A c \in Live(w) : c[1] # p
  <2>1. x = [w EXCEPT !.port[p] = "gone", !.chan.list = @ \ {p}]
    BY <1>2 DEF CheckPort
  <2> HIDE DEF x
  <2>2. w \in Worlds /\ Sound(w) /\ Sane(w) /\ w.chan \in Channel
    BY WorldFields DEF Good, Sane, Sound
  <2>3. x = [chan |-> ch, conn |-> w.conn, port |-> pt]
    BY <2>1, <2>2, WorldFields DEF Worlds
  <2>4. /\ ch \in Channel /\ ch.list = w.chan.list \ {p} /\ w.chan.list \subseteq Port
        /\ ch.order = w.chan.order /\ ch.remote = w.chan.remote
        /\ ch.best = w.chan.best /\ ch.sort = w.chan.sort /\ ch.writable = w.chan.writable
        /\ ch.was_writable = w.chan.was_writable /\ ch.was_timed_out = w.chan.was_timed_out
        /\ ch.waiting = w.chan.waiting /\ ch.allocate = w.chan.allocate
    BY <2>2 DEF Channel
  <2> HIDE DEF ch
  <2>5. /\ pt \in [Port -> {"none", "prestart", "pretimeout", "posttimeout", "gone"}]
        /\ \A q \in Port \ {p} : pt[q] = w.port[q]
    BY <2>2, WorldFields
  <2> HIDE DEF pt
  <2>6. x.chan = ch /\ x.conn = w.conn /\ x.port = pt
    BY <2>3
  <2>7. x \in Worlds
    BY <2>2, <2>3, <2>4, <2>5, WorldFields DEF Worlds
  <2>8. Live(x) = Live(w) /\ Off(x) /\ Flags(x) /\ Ordered(x) /\ BestHeld(x) /\ Follows(x)
    BY <2>2, <2>4, <2>6 DEF Live, Off, Flags, Ordered, BestHeld, Follows, Sound, Good
  <2>9. Held(x)
    <3>1. \A c \in Live(w) : c[1] \in Port
      BY DEF Live, Pair
    <3> QED BY <1>2, <2>2, <2>4, <2>5, <2>6, <2>8, <3>1 DEF Held, PortLives, Sound
  <2>10. Tried(x)
    BY <2>2, <2>4, <2>6 DEF Tried, Sane
  <2> QED BY <2>6, <2>7, <2>8, <2>9, <2>10 DEF x, Good, Sane, Sound
<1> QED BY <1>1, <1>2

\* MSG_CHECKTIMEOUT of a port.
LEMMA OnPortTimeoutStep ==
  ASSUME PInv, NEW p \in Port, OnPortTimeout(p)
  PROVE  PInv' /\ Spared
<1> DEFINE pt == [port EXCEPT ![p] = "posttimeout"]
           w == [World EXCEPT !.port[p] = "posttimeout"]
           x == CheckPort(w, p)
<1>1. port[p] = "pretimeout" /\ Becomes(x) /\ UNCHANGED <<up, failures>>
  BY DEF OnPortTimeout
<1>2. w = [chan |-> chan, conn |-> conn, port |-> pt]
  BY DEF World
<1>3. /\ pt \in [Port -> {"none", "prestart", "pretimeout", "posttimeout", "gone"}]
      /\ pt[p] = "posttimeout" /\ \A q \in Port \ {p} : pt[q] = port[q]
  BY Here
<1> HIDE DEF x, w, pt
<1>4. w.chan = chan /\ w.conn = conn /\ w.port = pt
  BY <1>2
<1>5. w \in Worlds
  BY <1>2, <1>3, Here DEF Worlds
<1>6. Live(w) = Live(World) /\ Off(w) /\ Flags(w) /\ Ordered(w) /\ BestHeld(w) /\ Follows(w) /\ Tried(w)
  BY <1>4, Here DEF Live, Off, Flags, Ordered, BestHeld, Follows, Tried, Sound, Sane, Good
<1>7. Held(w)
  <2>1. chan.list \subseteq Port /\ \A c \in Live(World) : c[1] \in Port
    BY Here DEF Live, Pair, Channel
  <2> QED BY <1>3, <1>4, <1>6, <2>1, Here DEF Held, PortLives, Sound
<1>8. Good(w)
  BY <1>5, <1>6, <1>7 DEF Good, Sane, Sound
<1>9. Good(x) /\ x.conn = conn
  BY <1>4, <1>8, CheckPortIsGood DEF x
<1>10. PInv' /\ conn' = x.conn
  BY <1>1, <1>9, Here, StepIsGood
<1> QED BY <1>9, <1>10, Here DEF Spared

\* MSG_DELETE of a connection: the channel looks for a new best one if it was that.
LEMMA OnDeleteStep ==
  ASSUME PInv, NEW c \in Pair, OnDelete(c)
  PROVE  PInv' /\ Spared
<1> DEFINE dead == [NoConnection EXCEPT !.made = TRUE]
           k == [conn EXCEPT ![c] = dead]
           o == RemoveFirst(chan.order, c)
           ch1 == [chan EXCEPT !.order = o]
           ch2 == [ch1 EXCEPT !.best = NoPair, !.sort = TRUE]
           ch == IF chan.best = c THEN ch2 ELSE ch1
           w1 == [World EXCEPT !.conn[c] = dead, !.chan.order = RemoveFirst(@, c)]
           w2 == IF chan.best = c THEN RequestSort([w1 EXCEPT !.chan.best = NoPair]) ELSE w1
           x == CheckPort(w2, c[1])
<1>1. conn[c].delete /\ Becomes(x) /\ UNCHANGED <<up, failures>>
  BY DEF OnDelete
<1>2. w2 = [chan |-> ch, conn |-> k, port |-> port]
  <2>1. w1 = [World EXCEPT !.conn[c] = dead, !.chan.order = o]
    BY DEF World
  <2> HIDE DEF w1, o, dead
  <2>2. w1 = [[chan |-> chan, conn |-> conn, port |-> port] EXCEPT !.conn[c] = dead, !.chan.order = o]
    BY <2>1 DEF World
  <2>3. w1 = [chan |-> ch1, conn |-> k, port |-> port]
    BY <2>2
  <2>4. CASE chan.best = c
    <3> DEFINE y == [w1 EXCEPT !.chan.best = NoPair]
    <3>1. w2 = [y EXCEPT !.chan.sort = TRUE]
      BY <2>4 DEF RequestSort
    <3>2. y = [chan |-> [ch1 EXCEPT !.best = NoPair], conn |-> k, port |-> port]
      BY <2>3
    <3> HIDE DEF w2, y, ch1, k
    <3>3. w2 = [chan |-> ch2, conn |-> k, port |-> port]
      BY <3>1, <3>2
    <3> QED BY <2>4, <3>3
  <2>5. CASE chan.best # c
    BY <2>3, <2>5
  <2> QED BY <2>4, <2>5
<1>3. dead \in Connection /\ ~dead.on /\ dead.made /\ dead.write = "connect"
  BY DEF NoConnection, Connection, Write
<1> HIDE DEF dead
<1>4. /\ k \in [Pair -> Connection] /\ k[c] = dead
      /\ \A d \in Pair \ {c} : k[d] = conn[d]
  BY <1>3, Here
<1> HIDE DEF k
<1>5. o \in Seq(Pair) /\ IsInjective(o) /\ ToSet(o) = Live(World) \ {c}
  <2>1. chan.order \in Seq(Pair)
    BY Here DEF Channel
  <2> QED BY <2>1, Here, RemoveIsOrdered DEF Sound, Ordered
<1> HIDE DEF o
<1>6. /\ ch \in Channel /\ ch.order = o /\ ch.list = chan.list /\ ch.remote = chan.remote
      /\ ch.best = IF chan.best = c THEN NoPair ELSE chan.best
      /\ chan.best = c => ch.sort
      /\ chan.best # c => ch.sort = chan.sort
      /\ ch.was_writable = chan.was_writable /\ ch.writable = chan.writable
      /\ ch.was_timed_out = chan.was_timed_out
      /\ ch.waiting = chan.waiting /\ ch.allocate = chan.allocate
  <2>1. ch1 \in Channel
    BY <1>5, Here DEF Channel
  <2>2. ch2 \in Channel
    BY <2>1 DEF Channel
  <2>3. chan \in Channel
    BY Here
  <2>4. CASE chan.best = c
    <3>1. ch = ch2
      BY <2>4
    <3> QED BY <2>2, <2>3, <2>4, <3>1 DEF Channel
  <2>5. CASE chan.best # c
    <3>1. ch = ch1
      BY <2>5
    <3> QED BY <2>1, <2>3, <2>5, <3>1 DEF Channel
  <2> QED BY <2>4, <2>5
<1> HIDE DEF ch, w2, x
<1>7. w2.chan = ch /\ w2.conn = k /\ w2.port = port
  BY <1>2
<1>8. w2 \in Worlds
  BY <1>2, <1>4, <1>6, Here DEF Worlds
<1>9. Live(w2) = Live(World) \ {c}
  BY <1>3, <1>4, <1>7, Here DEF Live
<1>10. Off(w2)
  BY <1>3, <1>4, <1>7, Here DEF Off, Sound
<1>11. Flags(w2)
  BY <1>6, <1>7, Here DEF Flags, Sound
<1>12. Held(w2)
  BY <1>6, <1>7, <1>9, Here DEF Held, PortLives, Sound
<1>13. Ordered(w2)
  BY <1>5, <1>6, <1>7, <1>9 DEF Ordered
<1>14. Tried(w2)
  <2> SUFFICES ASSUME NEW p \in chan.list, NEW r \in chan.remote
               PROVE  k[<<p, r>>].made
    BY <1>6, <1>7 DEF Tried
  <2>1. <<p, r>> \in Pair
    BY Here DEF Channel, Pair
  <2>2. conn[<<p, r>>].made
    BY Here DEF Sane, Tried
  <2> QED BY <1>3, <1>4, <2>1, <2>2
<1>15. BestHeld(w2)
  BY <1>6, <1>7, <1>9, Here DEF BestHeld, Good
<1>16. Follows(w2)
  <2>1. chan.best \in Pair \cup {NoPair}
    BY Here DEF Good, BestHeld, Live
  <2> QED BY <1>4, <1>6, <1>7, <2>1, Here DEF Follows, Good
<1>17. Good(w2)
  BY <1>8, <1>10, <1>11, <1>12, <1>13, <1>14, <1>15, <1>16 DEF Good, Sane, Sound
<1>18. Good(x) /\ x.conn = k
  <2>1. c[1] \in Port
    BY DEF Pair
  <2> QED BY <1>7, <1>17, <2>1, CheckPortIsGood DEF x
<1>19. PInv' /\ conn' = k
  BY <1>1, <1>18, Here, StepIsGood
<1> QED BY <1>1, <1>4, <1>19, Here DEF Spared

\* The world after Connect, and after Reset.
LEMMA FreshIsGood ==
  Good([chan |-> Fresh, conn |-> [c \in Pair |-> NoConnection], port |-> [p \in Port |-> "none"]])
<1> DEFINE k == [c \in Pair |-> NoConnection]
           x == [chan |-> Fresh, conn |-> k, port |-> [p \in Port |-> "none"]]
<1>1. Fresh \in Channel
  BY DEF Fresh, Channel
<1>2. NoConnection \in Connection
  BY DEF NoConnection, Connection, Write
<1>3. x \in Worlds
  BY <1>1, <1>2 DEF Worlds
<1>4. /\ Fresh.list = {} /\ Fresh.best = NoPair /\ Fresh.order = <<>> /\ ~Fresh.writable
      /\ Fresh.was_writable = FALSE /\ Fresh.writable = FALSE /\ Fresh.waiting
  BY DEF Fresh
<1>5. \A c \in Pair : ~k[c].on /\ k[c].write = "connect"
  BY DEF NoConnection
<1>6. x.chan = Fresh /\ x.conn = k
  OBVIOUS
<1> HIDE DEF x, k
<1>7. Live(x) = {}
  BY <1>5, <1>6 DEF Live
<1>8. Off(x) /\ Flags(x) /\ Held(x) /\ Tried(x) /\ BestHeld(x) /\ Follows(x)
  BY <1>4, <1>5, <1>6, <1>7 DEF Off, Flags, Held, Tried, BestHeld, Follows
<1>9. Ordered(x)
  BY <1>4, <1>6, <1>7 DEF Ordered, ToSet, IsInjective
<1>10. Good(x)
  BY <1>3, <1>8, <1>9 DEF Good, Sane, Sound
<1> QED BY <1>10 DEF x, k

\* The invariant holds at first, and after every step, which spares the last connection
\* that can be written on.
LEMMA InitIsGood == Init => PInv
BY FreshIsGood DEF Init, PInv, World

\* Every step makes of a good channel a good one, and spares the last connection
\* that can be written on (every method of P2PTransportChannel and Connection).
LEMMA NextIsGood == PInv /\ [Next]_vars => PInv' /\ (Next => Spared)
<1> SUFFICES ASSUME PInv, [Next]_vars PROVE PInv' /\ (Next => Spared)
  OBVIOUS
<1>1. CASE Next
  <2>1. ASSUME NEW p \in Port, OnPortReady(p) PROVE PInv' /\ Spared
    BY <2>1, OnPortReadyStep
  <2>2. ASSUME NEW p \in Port, OnPortTimeout(p) PROVE PInv' /\ Spared
    BY <2>2, OnPortTimeoutStep
  <2>3. ASSUME NEW r \in Remote, OnChannelMessage(r) PROVE PInv' /\ Spared
    BY <2>3, OnChannelMessageStep
  <2>4. ASSUME NEW c \in Pair, PingArrives(c) PROVE PInv' /\ Spared
    BY <2>4, PingArrivesStep
  <2>5. ASSUME NEW c \in Pair, OnReadPacket(c) PROVE PInv' /\ Spared
    BY <2>5, OnReadPacketStep
  <2>6. ASSUME NEW c \in Pair, OnDelete(c) PROVE PInv' /\ Spared
    BY <2>6, OnDeleteStep
  <2>7. ASSUME NEW c \in Pair, PathFails(c) PROVE PInv' /\ Spared
    <3>1. up' \subseteq Pair /\ UNCHANGED <<chan, conn, port>>
      BY <2>7, Here DEF PathFails
    <3> QED BY <3>1, Here DEF PInv, World, Spared
  <2>8. ASSUME NEW c \in Pair, OnConnectionRequestResponse(c) PROVE PInv' /\ Spared
    BY <2>8, OnConnectionRequestResponseStep
  <2>9. ASSUME NEW c \in Pair, OnConnectionRequestErrorResponse(c) PROVE PInv' /\ Spared
    BY <2>9, OnConnectionRequestErrorResponseStep
  <2>10. ASSUME NEW age \in Ageing, OnPing(age) PROVE PInv' /\ Spared
    BY <2>10, OnPingStep
  <2>11. CASE OnSort
    BY <2>11, OnSortStep
  <2>12. CASE OnAllocateMessage
    BY <2>12, OnAllocateMessageStep
  <2>13. CASE OnSignalingReady
    BY <2>13, OnSignalingReadyStep
  <2>14. CASE Reset
    <3> DEFINE x == [chan |-> Fresh, conn |-> [c \in Pair |-> NoConnection],
                     port |-> [p \in Port |-> "none"]]
    <3>1. Becomes(x) /\ UNCHANGED <<up, failures>> /\ x.chan = Fresh
      BY <2>14 DEF Reset
    <3>2. Good(x)
      BY FreshIsGood
    <3> HIDE DEF x
    <3> QED BY <3>1, <3>2, Here, StepIsGood DEF Spared
  <2> QED BY <1>1, <2>1, <2>2, <2>3, <2>4, <2>5, <2>6, <2>7, <2>8, <2>9, <2>10, <2>11, <2>12,
             <2>13, <2>14 DEF Next
<1>2. CASE UNCHANGED vars /\ ~Next
  BY <1>2 DEF vars, PInv, World
<1> QED BY <1>1, <1>2

-----------------------------------------------------------------------------
(* Theorems                                                                  *)

\* The channel, its connections and its ports are good in every state.
THEOREM ChannelInvariant == Spec => []PInv
<1> QED BY InitIsGood, NextIsGood, PTL DEF Spec

\* What the channel points to is there: its ports, its best connection, the line of
\* those to be pinged (DestroyConnection, OnConnectionDestroyed, OnPortDestroyed).
THEOREM NothingIsLeftDangling == Spec => []NothingDangles
<1>1. PInv => NothingDangles
  <2> SUFFICES ASSUME PInv PROVE NothingDangles
    OBVIOUS
  <2>1. chan.list \subseteq Port /\ chan.remote \subseteq Remote
    BY Here DEF Channel
  <2> QED BY <2>1, Here DEF NothingDangles, Good, BestHeld, Sound, Held, Ordered
<1> QED BY <1>1, ChannelInvariant, PTL

\* Whatever order ports and candidates come in, each port was tried with each candidate
\* (OnPortReady, OnChannelMessage, CreateConnections).
THEOREM PairsAreAllTried == Spec => []EveryPairTried
<1>1. PInv => EveryPairTried
  BY Here DEF EveryPairTried, Sane, Tried
<1> QED BY <1>1, ChannelInvariant, PTL

\* A channel that is not writable has asked the signaling for ports, or will when its
\* timer fires (HandleNotWritable, HandleAllTimedOut, OnAllocate).
THEOREM AllocationGoesOn == Spec => []NeverGivesUp
<1>1. PInv => NeverGivesUp
  BY Here DEF NeverGivesUp, Sound, Flags
<1> QED BY <1>1, ChannelInvariant, PTL

\* The channel says it is writable when its best connection is, or a sort is posted
\* (UpdateChannelState).
THEOREM WritabilityFollows == Spec => []WritableFollows
<1>1. PInv => WritableFollows
  BY Here DEF WritableFollows, BestIsWritable, Good, Follows
<1> QED BY <1>1, ChannelInvariant, PTL

\* No sort, no pruning, no deletion takes the last connection that can be written on and
\* whose path is up (SortConnections, PruneConnections).
THEOREM LastOneIsSpared == Spec => NeverStranded
<1>1. PInv /\ [Next]_vars => [Spared]_vars
  BY NextIsGood
<1>2. [][Spared]_vars => NeverStranded
  BY PTL DEF NeverStranded, Spared
<1> QED BY <1>1, <1>2, ChannelInvariant, PTL DEF Spec

=============================================================================
