--------------------------- MODULE FileShare_proofs ---------------------------
(* Theorems about FileShare, for every manifest and all cases.  A turn of a     *)
(* peer makes one entry (what Here gives) of another, by functions that call    *)
(* one another: a lemma for each says that what is right of an entry stays so,  *)
(* and what of it the other peer may rely on.  The first half is about the      *)
(* share and its session (ShareInv), the second about what has been transferred *)
(* and how both peers have counted it (AccountInv).                             *)
EXTENDS FileShare, SequenceTheorems, WellFoundedInduction, TLAPS

-----------------------------------------------------------------------------
(* The invariant                                                             *)

Entry ==
  [p : Peer, me : ShareRecord, out : Seq(Stanza), wire : [Conn -> Wire],
   place : [Item -> {"absent", "whole", "broken"}]]

\* The session has begun and is not any more, or is not wanted.
Quit(me) == me.session \notin Live \cup {"INIT"}

\* The session had an error, or the user gave it up.
Blamed(me) == me.failed \/ me.localCancel

\* What is right of a share whatever its session has just come to.
Fit(me) ==
  /\ me.closed => me.state \in Complete
  /\ me.session = "NULL" => me.closed /\ me.posted = <<>> /\ me.proxies = {}
  /\ me.session = "INIT" => me.state = "NONE" /\ me.posted = <<>>
  /\ \A i \in DOMAIN me.posted : me.posted[i] = "error" => me.failed
  /\ me.serving # "none" => me.item < Len(Sizes)

\* What is right of an entry while its share is being closed: the receiver serves
\* nobody, and asks for nothing before it has accepted.
Loose(e) ==
  /\ e \in Entry /\ Fit(e.me)
  /\ e.p = "receiver" =>
       /\ e.me.serving = "none"
       /\ e.me.state \in {"NONE", "OFFER"} => e.wire["private"].phase = "idle"

\* Who fetches has not completed; a completed share is closed when no proxy needs it.
Settled(e) ==
  e.p = "receiver" =>
    /\ e.me.counter => e.me.state = "TRANSFER" /\ e.me.item < Len(Sizes)
    /\ e.me.state = "COMPLETE" /\ e.me.closed => e.me.proxies = {}

\* What is right in the midst of a turn, and at its end.
Sound(e) == Loose(e) /\ Settled(e)

Good(e) == Sound(e) /\ (Quit(e.me) => e.me.state \in Complete)

NoOffer(s) == \A i \in DOMAIN s : s[i].type # "initiate"

\* Nothing but the first stanza is an offer.
Late(s) == \A i \in DOMAIN s : i > 1 => s[i].type # "initiate"

\* The peer that has sent this has ended the session.
Ends(s) == \E i \in DOMAIN s : s[i].type \in {"terminate", "reject"}

\* Originals go over the private channel, one at a time, and no ASSERT fails.
OneOriginal ==
  "original" \notin case.browsing =>
    /\ \A p \in Peer : "share" \notin share[p].asserted
    /\ sender.counter => sender.serving = "private" /\ wire["private"].phase = "serving"
    /\ wire["proxy"].phase # "idle" => wire["proxy"].kind = "preview"

\* Somebody is to blame when a session ends, or the receiver has closed it.
Reason == (\E p \in Peer : Blamed(share[p])) \/ receiver.closed

Case == [users : SUBSET {"decline", "cancel"}, browsing : SUBSET {"original", "preview"},
         kinds : SUBSET {"disk", "session", "loss", "stream"}, faults : Nat]

\* What the browser may fetch is as it was in one of the cases.
CaseOK == case \in Case /\ \E k \in Cases : case.browsing = k.browsing

ShareInv ==
  /\ TypeOK /\ CaseOK
  /\ \A p \in Peer : Good(Here(p))
  /\ NoOffer(net["sender"]) /\ Late(net["receiver"])
  /\ receiver.session # "INIT" => NoOffer(net["receiver"])
  /\ sender.session = "INIT" => receiver.session = "INIT" /\ net["receiver"] = <<>>
  /\ \A p \in Peer : /\ Ends(net[Other(p)]) => Quit(share[p])
                     /\ Quit(share[p]) => Reason
  /\ OneOriginal

-----------------------------------------------------------------------------
(* Entries                                                                   *)

\* The two peers.
LEMMA Others ==
  /\ Other("sender") = "receiver" /\ Other("receiver") = "sender"
  /\ \A p \in Peer : Other(p) \in Peer /\ Other(p) # p /\ Other(Other(p)) = p
<1>1. \A q \in Peer : q # "sender" <=> q = "receiver"
  BY DEF Peer
<1>2. \A q \in Peer : q # "receiver" <=> q = "sender"
  BY DEF Peer
<1>3. Other("sender") = "receiver"
  BY <1>1 DEF Other, Peer
<1>4. Other("receiver") = "sender"
  BY <1>2 DEF Other, Peer
<1> QED BY <1>3, <1>4 DEF Peer

\* The fields of an entry.
LEMMA EntryFields ==
  ASSUME NEW e \in Entry
  PROVE  /\ e.p \in Peer /\ e.me \in ShareRecord /\ e.out \in Seq(Stanza)
         /\ e.wire \in [Conn -> Wire] /\ e.place \in [Item -> {"absent", "whole", "broken"}]
BY DEF Entry

\* The fields of a share.
LEMMA ShareFields ==
  ASSUME NEW me \in ShareRecord
  PROVE  /\ me.session \in Live \cup Refused \cup Terminated \cup {"INIT", "NULL"}
         /\ me.posted \in Seq({"state", "error"}) /\ me.unanswered \in Nat
         /\ me.failed \in BOOLEAN /\ me.closed \in BOOLEAN /\ me.localCancel \in BOOLEAN
         /\ me.state \in Complete \cup {"NONE", "OFFER", "TRANSFER"}
         /\ me.item \in 0 .. Len(Sizes) /\ me.bytes \in Nat /\ me.counter \in BOOLEAN
         /\ me.serving \in Conn \cup {"none"} /\ me.proxies \in SUBSET {"proxy"}
         /\ me.wait \in BOOLEAN /\ me.asserted \in SUBSET {"share", "http"}
BY DEF ShareRecord

\* An entry with another share.
LEMMA WithShare ==
  ASSUME NEW e \in Entry, NEW me \in ShareRecord
  PROVE  LET x == [e EXCEPT !.me = me]
         IN /\ x \in Entry /\ x.p = e.p /\ x.me = me /\ x.out = e.out
            /\ x.wire = e.wire /\ x.place = e.place
BY DEF Entry

\* An entry with a stanza more to send.
LEMMA SendIs ==
  ASSUME NEW e \in Entry, NEW type, NEW conn \in Conn,
         type \in {"initiate", "accept", "reject", "terminate", "channel", "complete"}
  PROVE  LET x == Send(e, type, conn)
             m == [type |-> type, conn |-> conn]
         IN /\ x \in Entry /\ x.p = e.p /\ x.me = e.me /\ x.wire = e.wire /\ x.place = e.place
            /\ x.out = Append(e.out, m) /\ m \in Stanza
<1> DEFINE m == [type |-> type, conn |-> conn]
           out == Append(e.out, m)
<1>1. m \in Stanza
  BY DEF Stanza
<1>2. out \in Seq(Stanza)
  BY <1>1, EntryFields, AppendProperties
<1>3. Send(e, type, conn) = [e EXCEPT !.out = out]
  BY DEF Send
<1> HIDE DEF out
<1>4. LET x == [e EXCEPT !.out = out]
      IN /\ x \in Entry /\ x.p = e.p /\ x.me = e.me /\ x.wire = e.wire /\ x.place = e.place
         /\ x.out = out
  BY <1>2 DEF Entry
<1> QED BY <1>1, <1>3, <1>4 DEF out

\* A message is posted to the session.
LEMMA PostIs ==
  ASSUME NEW e \in Entry, NEW msg \in {"state", "error"}
  PROVE  LET x == Post(e, msg)
         IN /\ x \in Entry /\ x.p = e.p /\ x.out = e.out /\ x.wire = e.wire /\ x.place = e.place
            /\ x.me = [e.me EXCEPT !.posted = Append(@, msg)]
            /\ x.me.posted = Append(e.me.posted, msg)
            /\ \A i \in DOMAIN x.me.posted :
                 x.me.posted[i] = msg \/ (i \in DOMAIN e.me.posted /\ x.me.posted[i] = e.me.posted[i])
<1> DEFINE q == Append(e.me.posted, msg)
           me == [e.me EXCEPT !.posted = q]
<1>1. e.me \in ShareRecord /\ e.me.posted \in Seq({"state", "error"})
  BY EntryFields, ShareFields
<1>2. /\ q \in Seq({"state", "error"})
      /\ \A i \in DOMAIN q : q[i] = msg \/ (i \in DOMAIN e.me.posted /\ q[i] = e.me.posted[i])
  BY <1>1, AppendProperties
<1>3. Post(e, msg) = [e EXCEPT !.me = me]
  BY DEF Post
<1> HIDE DEF q
<1>4. me \in ShareRecord /\ me.posted = q
  BY <1>1, <1>2 DEF ShareRecord
<1> HIDE DEF me
<1>5. LET x == [e EXCEPT !.me = me]
      IN /\ x \in Entry /\ x.p = e.p /\ x.me = me /\ x.out = e.out
         /\ x.wire = e.wire /\ x.place = e.place
  BY <1>4, WithShare
<1> QED BY <1>2, <1>3, <1>4, <1>5 DEF me, q

-----------------------------------------------------------------------------
(* What a turn does, that the other peer can tell                            *)

\* No ASSERT fails; the sender serves nothing that it did not serve, and the receiver
\* asks for no item while one is served; what the browser asks for may be asked for.
Served(e, f) ==
  /\ "share" \in f.me.asserted => "share" \in e.me.asserted
  /\ f.p = "sender" /\ f.me.counter => e.me.counter /\ f.me.serving = e.me.serving
  /\ e.wire["private"].phase = "serving" <=> f.wire["private"].phase = "serving"
  /\ f.wire["proxy"].phase # "idle" =>
       \/ f.wire["proxy"].kind \in case.browsing
       \/ e.wire["proxy"].phase # "idle" /\ f.wire["proxy"].kind = e.wire["proxy"].kind

\* What is over stays over; an offer is not sent, and the end only of what has ended.
Went(e, f) ==
  /\ f.p = e.p
  /\ e.me.session # "INIT" => f.me.session # "INIT"
  /\ Quit(e.me) => Quit(f.me)
  /\ Blamed(e.me) => Blamed(f.me)
  /\ e.me.closed => f.me.closed
  /\ NoOffer(e.out) => NoOffer(f.out)
  /\ Late(e.out) => Late(f.out)
  /\ Ends(f.out) => Ends(e.out) \/ Quit(f.me)
  /\ e.p = "sender" /\ e.wire["private"].phase = "idle" => f.wire["private"].phase = "idle"

\* f is what became of e, whatever the session has come to.
Moved(e, f) == Went(e, f) /\ Served(e, f)

\* The session was not ended for nothing.
Justly(e, f) == Quit(f.me) => Quit(e.me) \/ Blamed(f.me) \/ (f.p = "receiver" /\ f.me.closed)

\* What two parts of a turn do, it does.
LEMMA MovedTrans ==
  ASSUME NEW e, NEW f, NEW g, Moved(e, f), Moved(f, g)
  PROVE  Moved(e, g) /\ (Justly(e, f) /\ Justly(f, g) => Justly(e, g))
BY DEF Moved, Went, Served, Justly

\* Nothing is something, too.
LEMMA MovedSelf ==
  ASSUME NEW e
  PROVE  Moved(e, e) /\ Justly(e, e)
BY DEF Moved, Went, Served, Justly

\* What a stanza more says.
LEMMA SaidMore ==
  ASSUME NEW s \in Seq(Stanza), NEW m \in Stanza, m.type # "initiate"
  PROVE  /\ NoOffer(s) => NoOffer(Append(s, m))
         /\ Late(s) => Late(Append(s, m))
         /\ Ends(Append(s, m)) => Ends(s) \/ m.type \in {"terminate", "reject"}
<1>1. /\ Append(s, m) \in Seq(Stanza) /\ Len(Append(s, m)) = Len(s) + 1
      /\ \A i \in DOMAIN Append(s, m) :
           Append(s, m)[i] = m \/ (i \in DOMAIN s /\ Append(s, m)[i] = s[i])
  BY AppendProperties
<1> QED BY <1>1 DEF NoOffer, Late, Ends

\* A share that is as it was, but for what is posted, what fails and what it has counted.
Alike(a, b) ==
  /\ b.session = a.session /\ b.state = a.state /\ b.closed = a.closed
  /\ b.counter = a.counter /\ b.item = a.item /\ b.serving = a.serving
  /\ b.proxies = a.proxies /\ b.asserted = a.asserted
  /\ a.failed => b.failed
  /\ b.localCancel = a.localCancel

\* f has what e has, and such a share.
LEMMA AlikeKeeps ==
  ASSUME NEW e, Loose(e), NEW f \in Entry, f.p = e.p, f.wire = e.wire, Alike(e.me, f.me), Fit(f.me)
  PROVE  Loose(f) /\ (Settled(e) => Settled(f))
BY DEF Loose, Settled, Alike

\* Posting keeps all of that.
LEMMA PostKeeps ==
  ASSUME NEW e, Loose(e), NEW msg \in {"state", "error"},
         e.me.session \notin {"NULL", "INIT"}, msg = "error" => e.me.failed
  PROVE  /\ Loose(Post(e, msg)) /\ (Settled(e) => Settled(Post(e, msg)))
         /\ Moved(e, Post(e, msg)) /\ Justly(e, Post(e, msg))
         /\ Alike(e.me, Post(e, msg).me) /\ Post(e, msg).wire = e.wire
         /\ Post(e, msg).out = e.out /\ Post(e, msg).p = e.p
<1> DEFINE x == Post(e, msg)
<1>1. /\ x \in Entry /\ x.p = e.p /\ x.out = e.out /\ x.wire = e.wire /\ x.place = e.place
      /\ x.me = [e.me EXCEPT !.posted = Append(@, msg)]
      /\ \A i \in DOMAIN x.me.posted :
           x.me.posted[i] = msg \/ (i \in DOMAIN e.me.posted /\ x.me.posted[i] = e.me.posted[i])
  BY PostIs DEF Loose
<1> HIDE DEF x
<1>2. e.me \in ShareRecord
  BY EntryFields DEF Loose
<1>3. Alike(e.me, x.me) /\ x.me.failed = e.me.failed
  BY <1>1, <1>2 DEF Alike, ShareRecord
<1>4. Fit(x.me)
  BY <1>1, <1>3 DEF Loose, Fit, Alike
<1>5. Loose(x) /\ (Settled(e) => Settled(x))
  BY <1>1, <1>3, <1>4, AlikeKeeps
<1>6. Moved(e, x) /\ Justly(e, x)
  BY <1>1, <1>3 DEF Moved, Went, Served, Justly, Quit, Blamed, Alike
<1> QED BY <1>1, <1>3, <1>5, <1>6 DEF x

\* Sending anything but an offer keeps it, too, if what ends the session is sent by who has.
LEMMA SendKeeps ==
  ASSUME NEW e, Loose(e), NEW conn \in Conn,
         NEW type \in {"accept", "reject", "terminate", "channel", "complete"}
  PROVE  LET x == Send(e, type, conn)
         IN /\ Loose(x) /\ (Settled(e) => Settled(x))
            /\ x.p = e.p /\ x.me = e.me /\ x.wire = e.wire /\ Justly(e, x)
            /\ type \notin {"terminate", "reject"} \/ Quit(e.me) => Moved(e, x)
            /\ NoOffer(e.out) => NoOffer(x.out)
            /\ Late(e.out) => Late(x.out)
<1> DEFINE x == Send(e, type, conn)
           m == [type |-> type, conn |-> conn]
<1>1. /\ x \in Entry /\ x.p = e.p /\ x.me = e.me /\ x.wire = e.wire
      /\ x.out = Append(e.out, m) /\ m \in Stanza /\ m.type = type
  BY SendIs DEF Loose
<1> HIDE DEF x, m
<1>2. e.out \in Seq(Stanza)
  BY EntryFields DEF Loose
<1>3. /\ NoOffer(e.out) => NoOffer(x.out)
      /\ Late(e.out) => Late(x.out)
      /\ Ends(x.out) => Ends(e.out) \/ m.type \in {"terminate", "reject"}
  BY <1>1, <1>2, SaidMore
<1>4. Loose(x) /\ (Settled(e) => Settled(x))
  BY <1>1 DEF Loose, Settled
<1>5. Justly(e, x) /\ (type \notin {"terminate", "reject"} \/ Quit(e.me) => Moved(e, x))
  BY <1>1, <1>3 DEF Moved, Went, Served, Justly
<1> QED BY <1>1, <1>3, <1>4, <1>5 DEF x

-----------------------------------------------------------------------------
(* Closing                                                                   *)

\* No request is other than it was.
Requests(e, f) ==
  \A c \in Conn : f.wire[c].phase = e.wire[c].phase /\ f.wire[c].kind = e.wire[c].kind

\* Who leaves a channel leaves the request.
LEMMA Leaving ==
  ASSUME NEW w \in Wire, NEW p \in Peer
  PROVE  Leave(w, p) \in Wire /\ Leave(w, p).phase = w.phase /\ Leave(w, p).kind = w.kind
BY DEF Wire, Leave

\* A share that counts nothing.
LEMMA Hung ==
  ASSUME NEW me \in ShareRecord
  PROVE  LET h == [me EXCEPT !.counter = FALSE, !.serving = "none"]
         IN /\ h \in ShareRecord /\ h.session = me.session /\ h.posted = me.posted
            /\ h.failed = me.failed /\ h.state = me.state /\ h.closed = me.closed
            /\ h.localCancel = me.localCancel /\ h.item = me.item /\ ~h.counter
            /\ h.serving = "none" /\ h.proxies = me.proxies /\ h.asserted = me.asserted
BY DEF ShareRecord

\* The streams are closed, and nothing is counted any more.
LEMMA HangUpIs ==
  ASSUME NEW e \in Entry
  PROVE  LET x == HangUp(e)
         IN /\ x \in Entry /\ x.p = e.p /\ x.out = e.out /\ Requests(e, x)
            /\ x.me = [e.me EXCEPT !.counter = FALSE, !.serving = "none"]
<1> DEFINE a == AbortDownload(e)
           b == CloseAll(a)
           me == [e.me EXCEPT !.counter = FALSE, !.serving = "none"]
<1>1. a \in Entry /\ a.p = e.p /\ a.out = e.out /\ a.me = e.me /\ Requests(e, a)
  <2>1. CASE e.p = "sender" \/ ~e.me.counter
    BY <2>1 DEF AbortDownload, Requests
  <2>2. CASE ~(e.p = "sender" \/ ~e.me.counter)
    <3> DEFINE folder == [e.place EXCEPT ![e.wire["private"].want] = "broken"]
               w == [e.wire["private"] EXCEPT !.gone = @ \cup {"receiver"}]
               wires == [e.wire EXCEPT !["private"] = w]
    <3>1. e.wire["private"] \in Wire
      BY EntryFields DEF Conn
    <3>2. /\ w \in Wire /\ w.phase = e.wire["private"].phase
          /\ w.kind = e.wire["private"].kind
      BY <3>1, Leaving DEF Leave, Peer
    <3> HIDE DEF w
    <3>3. wires \in [Conn -> Wire] /\ wires["private"] = w /\ wires["proxy"] = e.wire["proxy"]
      BY <3>2, EntryFields DEF Conn
    <3>4. folder \in [Item -> {"absent", "whole", "broken"}]
      BY EntryFields
    <3>5. a = [e EXCEPT !.place = folder, !.wire = wires]
      BY <2>2 DEF AbortDownload, w
    <3> HIDE DEF folder, wires, a
    <3>6. a \in Entry /\ a.p = e.p /\ a.out = e.out /\ a.me = e.me /\ a.wire = wires
      BY <3>3, <3>4, <3>5 DEF Entry
    <3> QED BY <3>2, <3>3, <3>6 DEF Requests, Conn
  <2> QED BY <2>1, <2>2
<1> HIDE DEF a
<1>2. b \in Entry /\ b.p = a.p /\ b.out = a.out /\ b.me = a.me /\ Requests(a, b)
  <2>1. CASE a.p = "receiver"
    BY <1>1, <2>1 DEF CloseAll, Requests
  <2>2. CASE a.p # "receiver"
    <3> DEFINE wires == [c \in Conn |-> IF a.wire[c].channel \in {"opening", "open"}
                                        THEN Leave(a.wire[c], "sender") ELSE a.wire[c]]
    <3>1. ASSUME NEW c \in Conn
          PROVE  /\ wires[c] \in Wire /\ wires[c].phase = a.wire[c].phase
                 /\ wires[c].kind = a.wire[c].kind
      <4>1. a.wire[c] \in Wire
        BY <1>1, EntryFields
      <4>2. CASE a.wire[c].channel \in {"opening", "open"}
        BY <4>1, <4>2, Leaving DEF Peer
      <4>3. CASE a.wire[c].channel \notin {"opening", "open"}
        BY <4>1, <4>3
      <4> QED BY <4>2, <4>3
    <3>2. b = [a EXCEPT !.wire = wires]
      BY <2>2 DEF CloseAll
    <3>3. wires \in [Conn -> Wire]
      BY <3>1
    <3> HIDE DEF wires, b
    <3>4. b \in Entry /\ b.p = a.p /\ b.out = a.out /\ b.me = a.me /\ b.wire = wires
      BY <1>1, <3>2, <3>3 DEF Entry
    <3> QED BY <3>1, <3>4 DEF Requests
  <2> QED BY <2>1, <2>2
<1> HIDE DEF b
<1>3. me \in ShareRecord
  BY EntryFields, Hung
<1>4. HangUp(e) = [b EXCEPT !.me = me]
  BY <1>1, <1>2 DEF HangUp, a, b, Entry
<1> HIDE DEF me
<1>5. LET x == [b EXCEPT !.me = me]
      IN x \in Entry /\ x.p = b.p /\ x.me = me /\ x.out = b.out /\ x.wire = b.wire
  BY <1>2, <1>3, WithShare
<1> QED BY <1>1, <1>2, <1>4, <1>5 DEF Requests, me

\* An entry whose session has come to v.
LEMMA SessionIs ==
  ASSUME NEW e \in Entry,
         NEW v \in Live \cup Refused \cup Terminated \cup {"INIT", "NULL"}
  PROVE  LET x == [e EXCEPT !.me.session = v]
         IN /\ x \in Entry /\ x.p = e.p /\ x.out = e.out /\ x.wire = e.wire /\ x.place = e.place
            /\ x.me.session = v /\ x.me.posted = e.me.posted /\ x.me.failed = e.me.failed
            /\ x.me.state = e.me.state /\ x.me.closed = e.me.closed
            /\ x.me.localCancel = e.me.localCancel /\ x.me.item = e.me.item
            /\ x.me.counter = e.me.counter /\ x.me.serving = e.me.serving
            /\ x.me.proxies = e.me.proxies /\ x.me.asserted = e.me.asserted
<1> DEFINE me == [e.me EXCEPT !.session = v]
<1>1. e.me \in ShareRecord
  BY EntryFields
<1>2. /\ me \in ShareRecord
      /\ me.session = v /\ me.posted = e.me.posted /\ me.failed = e.me.failed
      /\ me.state = e.me.state /\ me.closed = e.me.closed
      /\ me.localCancel = e.me.localCancel /\ me.item = e.me.item
      /\ me.counter = e.me.counter /\ me.serving = e.me.serving
      /\ me.proxies = e.me.proxies /\ me.asserted = e.me.asserted
  BY <1>1 DEF ShareRecord
<1> HIDE DEF me
<1> DEFINE x == [e EXCEPT !.me = me]
<1>3. [e EXCEPT !.me.session = v] = x
  BY DEF me
<1>4. /\ x \in Entry /\ x.p = e.p /\ x.me = me /\ x.out = e.out
      /\ x.wire = e.wire /\ x.place = e.place
  BY <1>2, WithShare
<1> HIDE DEF x
<1> QED BY <1>2, <1>3, <1>4

\* A session that has begun comes to what is not its beginning.
LEMMA SessionKeeps ==
  ASSUME NEW e, Loose(e), NEW v \in Live \cup Refused \cup Terminated,
         Quit(e.me) => v \notin Live
  PROVE  LET x == [e EXCEPT !.me.session = v]
         IN /\ Loose(x) /\ (Settled(e) => Settled(x)) /\ Moved(e, x)
            /\ x.p = e.p /\ x.me.session = v /\ (Quit(x.me) <=> v \notin Live)
            /\ x.me.state = e.me.state /\ x.me.closed = e.me.closed
            /\ x.me.proxies = e.me.proxies /\ x.me.item = e.me.item
            /\ x.me.counter = e.me.counter
            /\ x.me.failed = e.me.failed /\ x.me.localCancel = e.me.localCancel
            /\ x.wire = e.wire /\ x.out = e.out
<1> DEFINE x == [e EXCEPT !.me.session = v]
<1>1. /\ x \in Entry /\ x.p = e.p /\ x.out = e.out /\ x.wire = e.wire
      /\ x.me.session = v /\ x.me.posted = e.me.posted /\ x.me.failed = e.me.failed
      /\ x.me.state = e.me.state /\ x.me.closed = e.me.closed
      /\ x.me.localCancel = e.me.localCancel /\ x.me.item = e.me.item
      /\ x.me.counter = e.me.counter /\ x.me.serving = e.me.serving
      /\ x.me.proxies = e.me.proxies /\ x.me.asserted = e.me.asserted
  BY SessionIs DEF Loose
<1> HIDE DEF x
<1>2. v \notin {"NULL", "INIT"}
  BY DEF Live, Refused, Terminated
<1>3. Quit(x.me) <=> v \notin Live
  BY <1>1, <1>2 DEF Quit
<1>4. Fit(x.me)
  BY <1>1, <1>2 DEF Loose, Fit
<1>5. Loose(x) /\ (Settled(e) => Settled(x))
  BY <1>1, <1>4 DEF Loose, Settled
<1>6. Moved(e, x)
  BY <1>1, <1>2, <1>3 DEF Moved, Went, Served, Blamed
<1> QED BY <1>1, <1>3, <1>5, <1>6 DEF x

\* It is the same to send a stanza before and after.
LEMMA SendBefore ==
  ASSUME NEW e \in Entry, NEW type, NEW conn, NEW v
  PROVE  [Send(e, type, conn) EXCEPT !.me.session = v]
           = Send([e EXCEPT !.me.session = v], type, conn)
BY DEF Send, Entry

\* Terminate, by who closes.
LEMMA EndSessionKeeps ==
  ASSUME NEW e, Loose(e), e.me.session \notin {"NULL", "INIT"}
  PROVE  LET x == EndSession(e)
         IN /\ Loose(x) /\ (Settled(e) => Settled(x)) /\ Moved(e, x) /\ x.p = e.p
            /\ x.me.session \in Terminated
            /\ x.me.state = e.me.state /\ x.me.closed = e.me.closed
            /\ x.me.proxies = e.me.proxies /\ x.me.item = e.me.item
            /\ x.me.counter = e.me.counter
            /\ x.me.localCancel = e.me.localCancel
<1>1. CASE e.me.session \in Terminated
  BY <1>1, MovedSelf DEF EndSession
<1>2. CASE e.me.session \notin Terminated
  <2> DEFINE y == [e EXCEPT !.me.session = "SENTTERMINATE"]
             z == IF e.me.session \in Refused THEN y ELSE Send(y, "terminate", "private")
             x == Post(z, "state")
  <2>1. EndSession(e) = x
    <3>1. CASE e.me.session \in Refused
      BY <1>2, <3>1 DEF EndSession
    <3>2. CASE e.me.session \notin Refused
      BY <1>2, <3>2, SendBefore DEF EndSession, Loose
    <3> QED BY <3>1, <3>2
  <2>2. "SENTTERMINATE" \in Terminated /\ "SENTTERMINATE" \notin Live
    BY DEF Terminated, Live
  <2>3. /\ Loose(y) /\ (Settled(e) => Settled(y)) /\ Moved(e, y) /\ y.p = e.p
        /\ y.me.session = "SENTTERMINATE" /\ Quit(y.me)
        /\ y.me.state = e.me.state /\ y.me.closed = e.me.closed
        /\ y.me.proxies = e.me.proxies /\ y.me.item = e.me.item
        /\ y.me.counter = e.me.counter
        /\ y.me.localCancel = e.me.localCancel
    BY <2>2, SessionKeeps
  <2> HIDE DEF y
  <2>4. Loose(z) /\ (Settled(y) => Settled(z)) /\ Moved(y, z) /\ z.me = y.me /\ z.p = y.p
    <3>1. CASE e.me.session \in Refused
      BY <2>3, <3>1, MovedSelf
    <3>2. CASE e.me.session \notin Refused
      <4>1. "private" \in Conn
        BY DEF Conn
      <4> QED BY <2>3, <3>2, <4>1, SendKeeps
    <3> QED BY <3>1, <3>2
  <2> HIDE DEF z
  <2>5. /\ Loose(x) /\ (Settled(z) => Settled(x)) /\ Moved(z, x) /\ Alike(z.me, x.me) /\ x.p = z.p
    BY <2>3, <2>4, PostKeeps
  <2> HIDE DEF x
  <2>6. Moved(e, x)
    BY <2>3, <2>4, <2>5, MovedTrans
  <2> QED BY <2>1, <2>2, <2>3, <2>4, <2>5, <2>6 DEF Alike
<1> QED BY <1>1, <1>2

\* DoClose, of who has completed and has a session.
LEMMA DoCloseKeeps ==
  ASSUME NEW e, Loose(e), NEW terminate \in BOOLEAN,
         ~e.me.closed, e.me.state \in Complete, e.me.session \notin {"NULL", "INIT"}
  PROVE  LET x == DoClose(e, terminate)
         IN /\ Loose(x) /\ Moved(e, x) /\ x.p = e.p
            /\ x.me.state = e.me.state /\ x.me.closed /\ ~x.me.counter
            /\ x.me.proxies = e.me.proxies /\ x.me.item = e.me.item
            /\ x.me.localCancel = e.me.localCancel
            /\ IF terminate THEN x.me.session \in Terminated ELSE x.me.session = e.me.session
<1> DEFINE k == [e.me EXCEPT !.closed = TRUE]
           y == [e EXCEPT !.me = k]
           z == HangUp(y)
<1>1. e \in Entry /\ e.me \in ShareRecord
  BY EntryFields DEF Loose
<1>2. /\ k \in ShareRecord /\ k.session = e.me.session /\ k.posted = e.me.posted
      /\ k.failed = e.me.failed /\ k.state = e.me.state /\ k.closed
      /\ k.localCancel = e.me.localCancel /\ k.item = e.me.item /\ k.serving = e.me.serving
      /\ k.proxies = e.me.proxies /\ k.asserted = e.me.asserted
  BY <1>1 DEF ShareRecord
<1>3. DoClose(e, terminate) = IF terminate THEN EndSession(z) ELSE z
  BY DEF DoClose, Assert
<1> HIDE DEF k
<1>4. y \in Entry /\ y.p = e.p /\ y.me = k /\ y.out = e.out /\ y.wire = e.wire
  BY <1>1, <1>2, WithShare
<1> HIDE DEF y
<1>5. /\ z \in Entry /\ z.p = e.p /\ z.out = e.out /\ Requests(y, z)
      /\ z.me = [k EXCEPT !.counter = FALSE, !.serving = "none"]
  BY <1>4, HangUpIs
<1> HIDE DEF z
<1> DEFINE h == [k EXCEPT !.counter = FALSE, !.serving = "none"]
<1>14. /\ h.session = k.session /\ h.posted = k.posted /\ h.failed = k.failed
       /\ h.state = k.state /\ h.closed = k.closed /\ h.localCancel = k.localCancel
       /\ h.item = k.item /\ ~h.counter /\ h.serving = "none"
       /\ h.proxies = k.proxies /\ h.asserted = k.asserted
  BY <1>2, Hung
<1>15. z.me = h
  BY <1>5
<1> HIDE DEF h
<1>6. /\ z.me.session = e.me.session /\ z.me.posted = e.me.posted /\ z.me.failed = e.me.failed
      /\ z.me.state = e.me.state /\ z.me.closed /\ z.me.localCancel = e.me.localCancel
      /\ z.me.item = e.me.item /\ ~z.me.counter /\ z.me.serving = "none"
      /\ z.me.proxies = e.me.proxies /\ z.me.asserted = e.me.asserted
  BY <1>2, <1>14, <1>15
<1>7. \A c \in Conn : z.wire[c].phase = e.wire[c].phase /\ z.wire[c].kind = e.wire[c].kind
  BY <1>4, <1>5 DEF Requests
<1>8. "private" \in Conn /\ "proxy" \in Conn
  BY DEF Conn
<1>9. Fit(z.me)
  BY <1>6 DEF Loose, Fit
<1>10. Loose(z)
  BY <1>5, <1>6, <1>7, <1>8, <1>9 DEF Loose
<1>11. Moved(e, z)
  BY <1>5, <1>6, <1>7, <1>8 DEF Moved, Went, Served, Quit, Blamed
<1>12. CASE ~terminate
  BY <1>3, <1>5, <1>6, <1>10, <1>11, <1>12
<1>13. CASE terminate
  <2>1. z.me.session \notin {"NULL", "INIT"}
    BY <1>6
  <2> DEFINE x == EndSession(z)
  <2>2. /\ Loose(x) /\ Moved(z, x) /\ x.p = z.p /\ x.me.session \in Terminated
        /\ x.me.state = z.me.state /\ x.me.closed = z.me.closed
        /\ x.me.proxies = z.me.proxies /\ x.me.item = z.me.item
        /\ x.me.counter = z.me.counter
        /\ x.me.localCancel = z.me.localCancel
    BY <1>10, <2>1, EndSessionKeeps
  <2> HIDE DEF x
  <2>3. Moved(e, x)
    BY <1>11, <2>2, MovedTrans
  <2> QED BY <1>3, <1>5, <1>6, <1>13, <2>2, <2>3 DEF x
<1> QED BY <1>12, <1>13

\* SetState, of who has not completed: who completes is closed, unless the receiver
\* still has proxies or the sender was told that the receiver is done.
LEMMA SetStateKeeps ==
  ASSUME NEW e, Sound(e), e.me.session \notin {"NULL", "INIT"}, e.me.state \notin Complete,
         NEW preventClose \in BOOLEAN,
         NEW state \in Complete \cup {"OFFER", "TRANSFER"},
         state = "OFFER" => e.me.state \in {"NONE", "OFFER"},
         e.p = "receiver" /\ state = "COMPLETE" =>
           ~e.me.counter /\ (preventClose <=> e.me.proxies # {}),
         e.p = "sender" /\ state \in Complete => Quit(e.me) \/ (state = "COMPLETE" /\ preventClose)
  PROVE  LET x == SetState(e, state, preventClose)
         IN /\ Sound(x) /\ Moved(e, x) /\ Justly(e, x) /\ x.p = e.p /\ x.me.state = state
            /\ (x.me.counter => e.me.counter)
            /\ x.me.session # e.me.session => x.me.session \in Terminated
            /\ state \notin Complete => x.me.session = e.me.session
<1>1. CASE state = e.me.state
  BY <1>1, MovedSelf DEF SetState
<1>2. CASE state # e.me.state
  <2> DEFINE k == [e.me EXCEPT !.state = state]
             y == [e EXCEPT !.me = k]
             closes == state \in Complete /\ (state # "COMPLETE" \/ ~preventClose)
             x == IF closes THEN DoClose(y, TRUE) ELSE y
  <2>1. SetState(e, state, preventClose) = x
    BY <1>2 DEF SetState
  <2>2. e \in Entry /\ e.me \in ShareRecord
    BY EntryFields DEF Loose, Sound
  <2>3. /\ k \in ShareRecord /\ k.session = e.me.session /\ k.posted = e.me.posted
        /\ k.failed = e.me.failed /\ k.state = state /\ k.closed = e.me.closed
        /\ k.localCancel = e.me.localCancel /\ k.item = e.me.item /\ k.serving = e.me.serving
        /\ k.counter = e.me.counter
        /\ k.proxies = e.me.proxies /\ k.asserted = e.me.asserted
    BY <2>2 DEF ShareRecord
  <2> HIDE DEF k
  <2>4. y \in Entry /\ y.p = e.p /\ y.me = k /\ y.out = e.out /\ y.wire = e.wire
    BY <2>2, <2>3, WithShare
  <2> HIDE DEF y
  <2>5. ~e.me.closed
    BY DEF Sound, Loose, Fit
  <2>6. Fit(y.me)
    BY <2>3, <2>4, <2>5 DEF Sound, Loose, Fit
  <2>7. state \in {"NONE", "OFFER"} => e.me.state \in {"NONE", "OFFER"}
    BY DEF Complete
  <2>8. Loose(y)
    BY <2>3, <2>4, <2>6, <2>7 DEF Sound, Loose
  <2>9. Moved(e, y)
    BY <2>3, <2>4 DEF Moved, Went, Served, Quit, Blamed
  <2>10. CASE closes
    <3>1. y.me.session \notin {"NULL", "INIT"} /\ ~y.me.closed /\ y.me.state \in Complete
      BY <2>3, <2>4, <2>5, <2>10
    <3>2. /\ Loose(x) /\ Moved(y, x) /\ x.p = y.p
          /\ x.me.state = y.me.state /\ x.me.closed /\ ~x.me.counter
          /\ x.me.proxies = y.me.proxies
          /\ x.me.session \in Terminated
      BY <2>8, <2>10, <3>1, DoCloseKeeps
    <3> HIDE DEF x
    <3>3. Moved(e, x)
      BY <2>9, <3>2, MovedTrans
    <3>4. Settled(x)
      BY <2>3, <2>4, <2>10, <3>2 DEF Settled
    <3>5. Justly(e, x)
      BY <2>2, <2>4, <2>10, <3>2, EntryFields DEF Justly, Peer
    <3> QED BY <2>1, <2>3, <2>4, <2>10, <3>2, <3>3, <3>4, <3>5 DEF Sound
  <2>11. CASE ~closes
    <3>1. x = y
      BY <2>11
    <3>2. state \in {"OFFER", "TRANSFER"} \/ (state = "COMPLETE" /\ preventClose)
      BY <2>11
    <3>3. Settled(y)
      BY <2>3, <2>4, <2>5, <3>2 DEF Sound, Settled, Complete
    <3>4. Justly(e, y)
      BY <2>3, <2>4 DEF Justly, Quit
    <3> QED BY <2>1, <2>3, <2>4, <2>8, <2>9, <3>1, <3>3, <3>4 DEF Sound
  <2> QED BY <2>10, <2>11
<1> QED BY <1>1, <1>2

\* SetState, of who begins.
LEMMA BeginKeeps ==
  ASSUME NEW e, Sound(e), e.me.session \notin {"NULL", "INIT"}, e.me.state \notin Complete,
         NEW state \in {"OFFER", "TRANSFER"},
         state = "OFFER" => e.me.state \in {"NONE", "OFFER"}
  PROVE  LET x == SetState(e, state, FALSE)
         IN /\ Sound(x) /\ Moved(e, x) /\ Justly(e, x) /\ x.p = e.p /\ x.me.state = state
            /\ (x.me.counter => e.me.counter) /\ x.me.session = e.me.session
<1>1. state \notin Complete /\ state # "COMPLETE" /\ state \in Complete \cup {"OFFER", "TRANSFER"}
  BY DEF Complete
<1>2. e.p = "receiver" /\ state = "COMPLETE" => ~e.me.counter /\ (FALSE <=> e.me.proxies # {})
  BY <1>1
<1>3. e.p = "sender" /\ state \in Complete => Quit(e.me) \/ (state = "COMPLETE" /\ FALSE)
  BY <1>1
<1>4. FALSE \in BOOLEAN
  OBVIOUS
<1> QED BY <1>1, <1>2, <1>3, <1>4, SetStateKeeps

\* SetState, of who ends, but for the receiver's completion.
LEMMA FinishKeeps ==
  ASSUME NEW e, Sound(e), e.me.session \notin {"NULL", "INIT"}, e.me.state \notin Complete,
         NEW state \in Complete, e.p = "receiver" => state # "COMPLETE",
         e.p = "sender" => Quit(e.me)
  PROVE  LET x == SetState(e, state, FALSE)
         IN /\ Sound(x) /\ Moved(e, x) /\ Justly(e, x) /\ x.p = e.p /\ x.me.state = state
            /\ (x.me.counter => e.me.counter)
            /\ x.me.session # e.me.session => x.me.session \in Terminated
<1>1. state # "OFFER" /\ state \in Complete \cup {"OFFER", "TRANSFER"}
  BY DEF Complete
<1>2. e.p = "receiver" /\ state = "COMPLETE" => ~e.me.counter /\ (FALSE <=> e.me.proxies # {})
  OBVIOUS
<1>3. e.p = "sender" /\ state \in Complete => Quit(e.me) \/ (state = "COMPLETE" /\ FALSE)
  OBVIOUS
<1>4. FALSE \in BOOLEAN
  OBVIOUS
<1> QED BY <1>1, <1>2, <1>3, <1>4, SetStateKeeps

-----------------------------------------------------------------------------
(* The session and its share                                                 *)

\* What a share makes of the state that its session has just come to.
LEMMA OnSessionStateKeeps ==
  ASSUME NEW e, Sound(e), NEW state \in Live \cup Refused \cup Terminated,
         e.me.session = state,
         state \in {"SENTINITIATE", "RECEIVEDINITIATE"} => e.me.state \in Complete \cup {"NONE"}
  PROVE  LET x == OnSessionState(e, state)
         IN /\ Good(x) /\ Moved(e, x) /\ Justly(e, x) /\ x.p = e.p
            /\ x.me.session = state \/ x.me.session \in Terminated
            /\ (x.me.counter => e.me.counter)
            /\ (e.me.state = "NONE" /\ state = "RECEIVEDINITIATE" => x.me.state = "OFFER")
<1> DEFINE x == OnSessionState(e, state)
<1>1. e.me.session \notin {"NULL", "INIT"} /\ (Quit(e.me) <=> state \notin Live)
  BY DEF Live, Refused, Terminated, Quit
<1>2. CASE e.me.state \in Complete
  <2>1. x = e
    BY <1>2 DEF OnSessionState
  <2> QED BY <1>1, <1>2, <2>1, MovedSelf DEF Good, Complete
<1>3. CASE e.me.state \notin Complete /\ state \in {"SENTINITIATE", "RECEIVEDINITIATE"}
  <2>1. x = SetState(e, "OFFER", FALSE)
    BY <1>3 DEF OnSessionState
  <2>2. state \in Live /\ "OFFER" \notin Complete
    BY <1>3 DEF Live, Complete
  <2>3. /\ Sound(x) /\ Moved(e, x) /\ Justly(e, x) /\ x.p = e.p /\ x.me.state = "OFFER"
        /\ (x.me.counter => e.me.counter) /\ x.me.session = e.me.session
    BY <1>1, <1>3, <2>1, BeginKeeps
  <2> HIDE DEF x
  <2> QED BY <1>1, <1>3, <2>2, <2>3 DEF Good, Quit, x
<1>4. CASE e.me.state \notin Complete /\ state \in {"SENTACCEPT", "RECEIVEDACCEPT", "INPROGRESS"}
  <2>1. x = SetState(e, "TRANSFER", FALSE)
    BY <1>4 DEF OnSessionState
  <2>2. state \in Live /\ "TRANSFER" \notin Complete
    BY <1>4 DEF Live, Complete
  <2>3. /\ Sound(x) /\ Moved(e, x) /\ Justly(e, x) /\ x.p = e.p /\ x.me.state = "TRANSFER"
        /\ (x.me.counter => e.me.counter) /\ x.me.session = e.me.session
    BY <1>1, <1>4, <2>1, BeginKeeps
  <2> HIDE DEF x
  <2> QED BY <1>1, <1>4, <2>2, <2>3 DEF Good, Quit, x
<1>5. CASE e.me.state \notin Complete /\ state \in Refused \cup Terminated
  <2> DEFINE done == IF state \in {"SENTREJECT", "SENTTERMINATE"}
                     THEN (IF e.me.localCancel THEN "LOCAL_CANCEL" ELSE "REMOTE_CANCEL")
                     ELSE IF state = "RECEIVEDTERMINATE" /\ e.p = "sender" /\ e.me.bytes >= TotalSize
                     THEN "COMPLETE" ELSE "REMOTE_CANCEL"
  <2>1. x = SetState(e, done, FALSE)
    BY <1>5 DEF OnSessionState, Cancelled, Refused, Terminated
  <2>2. state \notin Live /\ done \in Complete
    BY <1>5 DEF Live, Complete, Refused, Terminated
  <2>3. e.p = "receiver" => done # "COMPLETE"
    BY DEF Peer
  <2> HIDE DEF done
  <2>4. /\ Sound(x) /\ Moved(e, x) /\ Justly(e, x) /\ x.p = e.p /\ x.me.state = done
        /\ (x.me.counter => e.me.counter)
        /\ x.me.session # e.me.session => x.me.session \in Terminated
    <3>1. e.p = "sender" => Quit(e.me)
      BY <1>1, <2>2
    <3>2. e.me.session \notin {"NULL", "INIT"} /\ e.me.state \notin Complete
      BY <1>1, <1>5
    <3>3. done \in Complete
      BY <2>2
    <3> HIDE DEF x
    <3> QED BY <2>1, <2>3, <3>1, <3>2, <3>3, FinishKeeps
  <2> HIDE DEF x
  <2>5. state \notin {"SENTINITIATE", "RECEIVEDINITIATE", "SENTACCEPT", "RECEIVEDACCEPT", "INPROGRESS"}
    BY <2>2 DEF Live
  <2> QED BY <1>5, <2>2, <2>4, <2>5 DEF Good, x
<1>6. state \in {"SENTINITIATE", "RECEIVEDINITIATE"} \cup {"SENTACCEPT", "RECEIVEDACCEPT", "INPROGRESS"}
               \cup (Refused \cup Terminated)
  BY DEF Live
<1> QED BY <1>2, <1>3, <1>4, <1>5, <1>6

\* The state is posted after that.
LEMMA Entered ==
  ASSUME NEW e, Sound(e), NEW state \in Live \cup Refused \cup Terminated,
         e.me.session = state,
         state \in {"SENTINITIATE", "RECEIVEDINITIATE"} => e.me.state \in Complete \cup {"NONE"}
  PROVE  LET x == Post(OnSessionState(e, state), "state")
         IN /\ Good(x) /\ Moved(e, x) /\ Justly(e, x) /\ x.p = e.p
            /\ x.me.session \notin {"NULL", "INIT"}
            /\ x.me.session = state \/ x.me.session \in Terminated
            /\ (x.me.counter => e.me.counter)
            /\ x.me.state = OnSessionState(e, state).me.state
<1> DEFINE y == OnSessionState(e, state)
           x == Post(y, "state")
<1>1. /\ Good(y) /\ Moved(e, y) /\ Justly(e, y) /\ y.p = e.p
      /\ y.me.session = state \/ y.me.session \in Terminated
      /\ (y.me.counter => e.me.counter)
  BY OnSessionStateKeeps
<1> HIDE DEF y
<1>2. y.me.session \notin {"NULL", "INIT"}
  BY <1>1 DEF Live, Refused, Terminated
<1>3. /\ Loose(x) /\ (Settled(y) => Settled(x)) /\ Moved(y, x) /\ Justly(y, x)
      /\ Alike(y.me, x.me) /\ x.p = y.p
  BY <1>1, <1>2, PostKeeps DEF Good, Sound
<1> HIDE DEF x
<1>4. Moved(e, x) /\ Justly(e, x)
  BY <1>1, <1>3, MovedTrans
<1>5. Good(x)
  BY <1>1, <1>3 DEF Good, Sound, Alike, Quit
<1> QED BY <1>1, <1>2, <1>3, <1>4, <1>5 DEF Alike, x, y

\* Session::SetState, to a state that is none of its beginning.
LEMMA EnterKeeps ==
  ASSUME NEW e, Good(e), NEW state \in Live \cup Refused \cup Terminated,
         e.me.session # "NULL", e.me.session # "INIT" \/ e.me.state \in Complete \cup {"NONE"},
         state \in {"SENTINITIATE", "RECEIVEDINITIATE"} => e.me.session = "INIT",
         Quit(e.me) => state \notin Live
  PROVE  LET x == Enter(e, state)
         IN /\ Good(x) /\ Moved(e, x) /\ x.p = e.p
            /\ state \in Live => Justly(e, x)
            /\ x.me.session \notin {"NULL", "INIT"} \/ e.me.session = state
            /\ x.me.session = state \/ x.me.session \in Terminated
            /\ (x.me.counter => e.me.counter)
<1>1. CASE e.me.session = state
  BY <1>1, MovedSelf DEF Enter, Live, Refused, Terminated
<1>2. CASE e.me.session # state
  <2> DEFINE y == [e EXCEPT !.me.session = state]
             x == Post(OnSessionState(y, state), "state")
  <2>1. Enter(e, state) = x
    BY <1>2 DEF Enter
  <2>2. /\ Loose(y) /\ (Settled(e) => Settled(y)) /\ Moved(e, y)
        /\ y.p = e.p /\ y.me.session = state /\ (Quit(y.me) <=> state \notin Live)
        /\ y.me.state = e.me.state /\ (y.me.counter => e.me.counter)
    BY SessionKeeps DEF Good, Sound
  <2> HIDE DEF y
  <2>3. state \in {"SENTINITIATE", "RECEIVEDINITIATE"} => y.me.state \in Complete \cup {"NONE"}
    BY <2>2
  <2>4. /\ Good(x) /\ Moved(y, x) /\ Justly(y, x) /\ x.p = y.p
        /\ x.me.session \notin {"NULL", "INIT"}
        /\ x.me.session = state \/ x.me.session \in Terminated
        /\ (x.me.counter => y.me.counter)
    BY <2>2, <2>3, Entered DEF Good, Sound
  <2> HIDE DEF x
  <2>5. Moved(e, x) /\ (state \in Live => Justly(e, x))
    <3>1. state \in Live => Justly(e, y)
      BY <2>2 DEF Justly
    <3> QED BY <2>2, <2>4, <3>1, MovedTrans
  <2> QED BY <2>1, <2>2, <2>4, <2>5
<1> QED BY <1>1, <1>2

\* Session::Terminate and Reject: the stanza is sent before the state is entered.
LEMMA EndKeeps ==
  ASSUME NEW e, Good(e), NEW state \in {"SENTTERMINATE", "SENTREJECT"},
         e.me.session \notin {"NULL", "INIT", state},
         NEW type \in {"terminate", "reject"}
  PROVE  LET x == Enter(Send(e, type, "private"), state)
         IN Good(x) /\ Moved(e, x) /\ x.p = e.p
<1> DEFINE s == Send(e, type, "private")
           y == [e EXCEPT !.me.session = state]
           z == Send(y, type, "private")
           x == Post(OnSessionState(z, state), "state")
<1>1. "private" \in Conn /\ state \in Refused \cup Terminated /\ state \notin Live
  BY DEF Conn, Refused, Terminated, Live
<1>2. s.me = e.me
  BY <1>1, SendKeeps DEF Good, Sound
<1>3. Enter(s, state) = x
  <2>1. s.me.session # state
    BY <1>2
  <2>2. Enter(s, state) = Post(OnSessionState([s EXCEPT !.me.session = state], state), "state")
    BY <2>1 DEF Enter
  <2>4. e \in Entry
    BY DEF Good, Sound, Loose
  <2>3. [s EXCEPT !.me.session = state] = z
    BY <2>4 DEF Send, Entry
  <2> HIDE DEF s, z
  <2> QED BY <2>2, <2>3
<1>4. /\ Loose(y) /\ (Settled(e) => Settled(y)) /\ Moved(e, y)
      /\ y.p = e.p /\ y.me.session = state /\ Quit(y.me)
  BY <1>1, SessionKeeps DEF Good, Sound
<1> HIDE DEF s, y
<1>5. /\ Loose(z) /\ (Settled(y) => Settled(z)) /\ z.p = y.p /\ z.me = y.me /\ Moved(y, z)
  <2>1. type \in {"accept", "reject", "terminate", "channel", "complete"}
    OBVIOUS
  <2> QED BY <1>1, <1>4, <2>1, SendKeeps
<1> HIDE DEF z
<1>6. Good(x) /\ Moved(z, x) /\ x.p = z.p
  BY <1>1, <1>4, <1>5, Entered DEF Good, Sound
<1> HIDE DEF x
<1>7. Moved(e, x)
  BY <1>4, <1>5, <1>6, MovedTrans
<1> QED BY <1>3, <1>4, <1>5, <1>6, <1>7 DEF s

\* Session::Terminate, of a session that has begun.
LEMMA TerminateKeeps ==
  ASSUME NEW e, Good(e), e.me.session \notin {"NULL", "INIT"}
  PROVE  Good(Terminate(e)) /\ Moved(e, Terminate(e)) /\ Terminate(e).p = e.p
<1>1. CASE e.me.session \in Terminated
  BY <1>1, MovedSelf DEF Terminate
<1>2. CASE e.me.session \in Refused
  <2> DEFINE x == Enter(e, "SENTTERMINATE")
  <2>1. Terminate(e) = x
    BY <1>2 DEF Terminate, Terminated, Refused
  <2>2. "SENTTERMINATE" \in Terminated /\ "SENTTERMINATE" \notin Live
    BY DEF Terminated, Live
  <2>3. Good(x) /\ Moved(e, x) /\ x.p = e.p
    BY <2>2, EnterKeeps
  <2> QED BY <2>1, <2>3
<1>3. CASE e.me.session \notin Terminated \cup Refused
  <2> DEFINE x == Enter(Send(e, "terminate", "private"), "SENTTERMINATE")
  <2>1. Terminate(e) = x
    BY <1>3 DEF Terminate
  <2>2. e.me.session \notin {"NULL", "INIT", "SENTTERMINATE"}
    BY <1>3 DEF Terminated
  <2>3. Good(x) /\ Moved(e, x) /\ x.p = e.p
    BY <2>2, EndKeeps
  <2> QED BY <2>1, <2>3
<1> QED BY <1>1, <1>2, <1>3

\* An error ends nothing at once, and will be the reason.
LEMMA SetErrorKeeps ==
  ASSUME NEW e, Good(e)
  PROVE  LET x == SetError(e)
         IN /\ Good(x) /\ Moved(e, x) /\ Justly(e, x) /\ x.p = e.p
            /\ x.out = e.out /\ x.me.session = e.me.session
<1>1. CASE e.me.session \notin Live
  BY <1>1, MovedSelf DEF SetError
<1>2. CASE e.me.session \in Live
  <2> DEFINE k == [e.me EXCEPT !.failed = TRUE]
             y == [e EXCEPT !.me = k]
             x == Post(y, "error")
  <2>1. SetError(e) = x
    BY <1>2 DEF SetError
  <2>2. e \in Entry /\ e.me \in ShareRecord
    BY EntryFields DEF Good, Sound, Loose
  <2>3. /\ k \in ShareRecord /\ k.session = e.me.session /\ k.posted = e.me.posted
        /\ k.failed /\ k.state = e.me.state /\ k.closed = e.me.closed
        /\ k.localCancel = e.me.localCancel /\ k.item = e.me.item /\ k.serving = e.me.serving
        /\ k.counter = e.me.counter
        /\ k.proxies = e.me.proxies /\ k.asserted = e.me.asserted
    BY <2>2 DEF ShareRecord
  <2> HIDE DEF k
  <2>4. y \in Entry /\ y.p = e.p /\ y.me = k /\ y.out = e.out /\ y.wire = e.wire
    BY <2>2, <2>3, WithShare
  <2> HIDE DEF y
  <2>5. Alike(e.me, y.me)
    BY <2>3, <2>4 DEF Alike
  <2>6. Fit(y.me)
    BY <2>3, <2>4 DEF Good, Sound, Loose, Fit
  <2>7. Loose(y) /\ Settled(y)
    BY <2>4, <2>5, <2>6, AlikeKeeps DEF Good, Sound
  <2>8. Moved(e, y) /\ Justly(e, y)
    BY <2>3, <2>4 DEF Moved, Went, Served, Justly, Quit, Blamed
  <2>9. y.me.session \notin {"NULL", "INIT"} /\ y.me.failed
    BY <1>2, <2>3, <2>4 DEF Live
  <2>10. /\ Loose(x) /\ (Settled(y) => Settled(x)) /\ Moved(y, x) /\ Justly(y, x)
         /\ Alike(y.me, x.me) /\ x.p = y.p /\ x.out = y.out
    BY <2>7, <2>9, PostKeeps
  <2> HIDE DEF x
  <2>11. Moved(e, x) /\ Justly(e, x)
    BY <2>8, <2>10, MovedTrans
  <2>12. Good(x)
    BY <2>3, <2>4, <2>7, <2>10 DEF Good, Sound, Alike, Quit
  <2> QED BY <2>1, <2>3, <2>4, <2>10, <2>11, <2>12 DEF Alike
<1> QED BY <1>1, <1>2

\* ~Session, of a session that has ended.
LEMMA DestroyKeeps ==
  ASSUME NEW e, Good(e), e.me.session \in Terminated
  PROVE  Good(Destroy(e)) /\ Moved(e, Destroy(e)) /\ Destroy(e).p = e.p
<1> DEFINE d == IF e.me.closed THEN e ELSE DoClose(e, FALSE)
           k == [d.me EXCEPT !.session = "NULL", !.posted = <<>>, !.unanswered = 0,
                             !.proxies = {}, !.wait = FALSE]
           wires == [c \in Conn |-> IF d.wire[c].channel = "none" THEN d.wire[c]
                                    ELSE Leave(d.wire[c], e.p)]
           x == [d EXCEPT !.me = k, !.wire = wires]
<1>1. e.me.session \notin {"NULL", "INIT"} /\ Quit(e.me) /\ e.me.state \in Complete
  BY DEF Good, Quit, Terminated, Live
<1>2. Loose(d) /\ Moved(e, d) /\ d.p = e.p /\ d.me.closed /\ d.me.state = e.me.state
      /\ (d.p = "receiver" => ~d.me.counter)
  <2>1. CASE e.me.closed
    <3>1. e.p = "receiver" => ~e.me.counter
      BY <1>1 DEF Good, Sound, Settled, Complete
    <3> QED BY <2>1, <3>1, MovedSelf DEF Good, Sound
  <2>2. CASE ~e.me.closed
    <3>1. FALSE \in BOOLEAN
      OBVIOUS
    <3> QED BY <1>1, <2>2, <3>1, DoCloseKeeps DEF Good, Sound
  <2> QED BY <2>1, <2>2
<1>3. Destroy(e) = [d EXCEPT !.me.session = "NULL", !.me.posted = <<>>, !.me.unanswered = 0,
                             !.me.proxies = {}, !.me.wait = FALSE, !.wire = wires]
  BY DEF Destroy
<1> HIDE DEF d
<1>4. d \in Entry /\ d.me \in ShareRecord /\ d.wire \in [Conn -> Wire] /\ d.p \in Peer
  BY <1>2, EntryFields DEF Loose
<1>5. Destroy(e) = x
  BY <1>3
<1>6. /\ k \in ShareRecord /\ k.session = "NULL" /\ k.posted = <<>> /\ k.proxies = {}
      /\ k.failed = d.me.failed /\ k.state = d.me.state /\ k.closed = d.me.closed
      /\ k.localCancel = d.me.localCancel /\ k.item = d.me.item /\ k.serving = d.me.serving
      /\ k.counter = d.me.counter /\ k.asserted = d.me.asserted
  <2> DEFINE a == [d.me EXCEPT !.session = "NULL", !.posted = <<>>]
  <2>1. <<>> \in Seq({"state", "error"})
    OBVIOUS
  <2>2. /\ a \in ShareRecord /\ a.session = "NULL" /\ a.posted = <<>>
        /\ a.failed = d.me.failed /\ a.state = d.me.state /\ a.closed = d.me.closed
        /\ a.localCancel = d.me.localCancel /\ a.item = d.me.item /\ a.serving = d.me.serving
        /\ a.counter = d.me.counter /\ a.asserted = d.me.asserted
    BY <1>4, <2>1 DEF ShareRecord
  <2>3. k = [a EXCEPT !.unanswered = 0, !.proxies = {}, !.wait = FALSE]
    OBVIOUS
  <2> HIDE DEF a, k
  <2> QED BY <2>2, <2>3 DEF ShareRecord
<1> HIDE DEF k
<1>7. ASSUME NEW c \in Conn
      PROVE  /\ wires[c] \in Wire /\ wires[c].phase = d.wire[c].phase
             /\ wires[c].kind = d.wire[c].kind
  BY <1>2, <1>4, Leaving
<1>8. wires \in [Conn -> Wire]
  BY <1>7
<1> HIDE DEF wires
<1>9. /\ x \in Entry /\ x.p = d.p /\ x.me = k /\ x.out = d.out /\ x.wire = wires
  BY <1>4, <1>6, <1>8 DEF Entry
<1> HIDE DEF x
<1>10. "private" \in Conn /\ "proxy" \in Conn
  BY DEF Conn
<1>11. Fit(x.me)
  <2>1. x.me.session = "NULL" /\ x.me.closed /\ x.me.state \in Complete
    BY <1>1, <1>2, <1>6, <1>9
  <2>2. x.me.posted = <<>> /\ x.me.proxies = {}
    BY <1>6, <1>9
  <2>3. x.me.serving # "none" => x.me.item < Len(Sizes)
    BY <1>2, <1>6, <1>9 DEF Loose, Fit
  <2> QED BY <2>1, <2>2, <2>3 DEF Fit
<1>12. Loose(x) /\ Settled(x)
  BY <1>1, <1>2, <1>6, <1>7, <1>9, <1>10, <1>11 DEF Loose, Settled, Complete
<1>13. Moved(d, x)
  BY <1>6, <1>7, <1>9, <1>10 DEF Moved, Went, Served, Quit, Blamed, Live
<1>14. Moved(e, x)
  BY <1>2, <1>13, MovedTrans
<1>15. Good(x)
  BY <1>1, <1>2, <1>6, <1>9, <1>12 DEF Good, Sound
<1> QED BY <1>2, <1>5, <1>9, <1>14, <1>15

-----------------------------------------------------------------------------
(* The receiver's downloads                                                  *)

\* An entry with another private channel.
LEMMA WithPrivate ==
  ASSUME NEW e \in Entry, NEW w \in Wire
  PROVE  LET x == [e EXCEPT !.wire["private"] = w]
         IN /\ x \in Entry /\ x.p = e.p /\ x.me = e.me /\ x.out = e.out /\ x.place = e.place
            /\ x.wire["private"] = w /\ x.wire["proxy"] = e.wire["proxy"]
<1> DEFINE wires == [e.wire EXCEPT !["private"] = w]
           x == [e EXCEPT !.wire = wires]
<1>1. wires \in [Conn -> Wire] /\ wires["private"] = w /\ wires["proxy"] = e.wire["proxy"]
  BY EntryFields DEF Conn
<1>2. [e EXCEPT !.wire["private"] = w] = x
  OBVIOUS
<1> HIDE DEF wires
<1>3. /\ x \in Entry /\ x.p = e.p /\ x.me = e.me /\ x.out = e.out /\ x.place = e.place
      /\ x.wire = wires
  BY <1>1 DEF Entry
<1> HIDE DEF x
<1> QED BY <1>1, <1>2, <1>3

\* The next item is asked for, when none is served.
LEMMA AskKeeps ==
  ASSUME NEW e, Good(e), e.p = "receiver", e.me.state = "TRANSFER", e.me.item < Len(Sizes),
         e.wire["private"].phase # "serving"
  PROVE  LET x == Ask(e)
         IN /\ Good(x) /\ Moved(e, x) /\ Justly(e, x) /\ x.p = e.p
            /\ x.me.session = e.me.session
<1> DEFINE s == Send(e, "channel", "private")
           w == [s.wire["private"] EXCEPT !.channel = "announced"]
           a == IF e.wire["private"].channel # "none" THEN e
                ELSE [s EXCEPT !.wire["private"] = w]
           k == [e.me EXCEPT !.counter = TRUE]
           v == [a.wire["private"] EXCEPT !.kind = "original", !.want = e.me.item + 1,
                                          !.phase = "asked"]
           y == [a EXCEPT !.me = k]
           x == [y EXCEPT !.wire["private"] = v]
<1>1. e \in Entry /\ e.me \in ShareRecord /\ e.wire["private"] \in Wire /\ e.me.item \in Nat
  BY EntryFields, ShareFields DEF Good, Sound, Loose, Conn
<1>2. /\ a \in Entry /\ a.p = e.p /\ a.me = e.me /\ Moved(e, a)
      /\ a.wire["private"].phase = e.wire["private"].phase
      /\ a.wire["proxy"] = e.wire["proxy"]
  <2>1. CASE e.wire["private"].channel # "none"
    BY <1>1, <2>1, MovedSelf
  <2>2. CASE e.wire["private"].channel = "none"
    <3>1. "private" \in Conn /\ "channel" \in {"accept", "reject", "terminate", "channel", "complete"}
          /\ "channel" \notin {"terminate", "reject"}
      BY DEF Conn
    <3>2. Loose(s) /\ s.p = e.p /\ s.me = e.me /\ s.wire = e.wire /\ Moved(e, s)
      BY <3>1, SendKeeps DEF Good, Sound
    <3> HIDE DEF s
    <3>3. w \in Wire /\ w.phase = e.wire["private"].phase /\ w.kind = e.wire["private"].kind
      BY <1>1, <3>2 DEF Wire
    <3> HIDE DEF w
    <3>4. a = [s EXCEPT !.wire["private"] = w]
      BY <2>2
    <3> HIDE DEF a
    <3>5. /\ a \in Entry /\ a.p = s.p /\ a.me = s.me /\ a.out = s.out
          /\ a.wire["private"] = w /\ a.wire["proxy"] = s.wire["proxy"]
      BY <3>2, <3>3, <3>4, WithPrivate DEF Loose
    <3>6. Moved(s, a)
      BY <3>2, <3>3, <3>5 DEF Moved, Went, Served
    <3> QED BY <3>2, <3>3, <3>5, <3>6, MovedTrans
  <2> QED BY <2>1, <2>2
<1>3. Ask(e) = [[a EXCEPT !.me.counter = TRUE] EXCEPT
                  !.wire["private"] = [@ EXCEPT !.kind = "original", !.want = e.me.item + 1,
                                                !.phase = "asked"]]
  BY DEF Ask
<1> HIDE DEF a
<1>4. /\ k \in ShareRecord /\ k.session = e.me.session /\ k.posted = e.me.posted
      /\ k.failed = e.me.failed /\ k.state = e.me.state /\ k.closed = e.me.closed
      /\ k.localCancel = e.me.localCancel /\ k.item = e.me.item /\ k.serving = e.me.serving
      /\ k.proxies = e.me.proxies /\ k.asserted = e.me.asserted
  BY <1>1 DEF ShareRecord
<1>5. [a EXCEPT !.me.counter = TRUE] = y
  BY <1>2
<1> HIDE DEF k
<1>6. y \in Entry /\ y.p = a.p /\ y.me = k /\ y.out = a.out /\ y.wire = a.wire
  BY <1>2, <1>4, WithShare
<1> HIDE DEF y
<1>7. Ask(e) = x
  BY <1>3, <1>5, <1>6
<1>8. a.wire["private"] \in Wire /\ e.me.item + 1 \in Item
  BY <1>1, <1>2, EntryFields DEF Conn, Item
<1>9. v \in Wire /\ v.phase = "asked"
  BY <1>8 DEF Wire
<1> HIDE DEF v
<1>10. /\ x \in Entry /\ x.p = y.p /\ x.me = y.me /\ x.out = y.out
       /\ x.wire["private"] = v /\ x.wire["proxy"] = y.wire["proxy"]
  BY <1>6, <1>9, WithPrivate
<1> HIDE DEF x
<1>11. Fit(x.me)
  BY <1>4, <1>6, <1>10 DEF Good, Sound, Loose, Fit
<1>12. Loose(x) /\ Settled(x)
  BY <1>2, <1>4, <1>6, <1>10, <1>11 DEF Good, Sound, Loose, Settled, Complete
<1>13. Moved(a, x)
  BY <1>2, <1>4, <1>6, <1>9, <1>10 DEF Moved, Went, Served, Quit, Blamed
<1>14. Moved(e, x)
  BY <1>2, <1>13, MovedTrans
<1>15. Good(x) /\ Justly(e, x)
  BY <1>4, <1>6, <1>10, <1>12 DEF Good, Sound, Quit, Justly
<1> QED BY <1>2, <1>4, <1>6, <1>7, <1>10, <1>14, <1>15

\* The receiver, that counts nothing, goes on to the next item, completes, or fails.
LEMMA NextDownloadKeeps ==
  ASSUME NEW e, Good(e), e.p = "receiver", e.me.session \notin {"NULL", "INIT"},
         ~e.me.counter, e.wire["private"].phase # "serving",
         NEW x \in NextDownload(e)
  PROVE  /\ Good(x) /\ Moved(e, x) /\ Justly(e, x) /\ x.p = e.p
         /\ x.me.session = e.me.session \/ x.me.session \in Terminated
<1>1. CASE e.me.state # "TRANSFER"
  BY <1>1, MovedSelf DEF NextDownload
<1>2. CASE e.me.state = "TRANSFER" /\ e.me.item >= Len(Sizes)
  <2> DEFINE y == Send(e, "complete", "private")
             prevent == e.me.proxies # {}
             z == SetState(y, "COMPLETE", prevent)
  <2>1. x = z
    BY <1>2 DEF NextDownload
  <2>2. /\ "private" \in Conn /\ "complete" \in {"accept", "reject", "terminate", "channel", "complete"}
        /\ "complete" \notin {"terminate", "reject"}
    BY DEF Conn
  <2>3. /\ Loose(y) /\ (Settled(e) => Settled(y)) /\ y.p = e.p /\ y.me = e.me
        /\ Moved(e, y) /\ Justly(e, y)
    BY <2>2, SendKeeps DEF Good, Sound
  <2>4. Sound(y)
    BY <2>3 DEF Good, Sound
  <2>5. y.me.session \notin {"NULL", "INIT"} /\ y.me.state \notin Complete
    BY <1>2, <2>3 DEF Complete
  <2>6. prevent \in BOOLEAN /\ (prevent <=> y.me.proxies # {}) /\ ~y.me.counter
        /\ y.p # "sender"
    BY <2>3
  <2>7. "COMPLETE" \in Complete \cup {"OFFER", "TRANSFER"} /\ "COMPLETE" # "OFFER"
        /\ "COMPLETE" \in Complete
    BY DEF Complete
  <2> HIDE DEF y, prevent
  <2>8. /\ Sound(z) /\ Moved(y, z) /\ Justly(y, z) /\ z.p = y.p /\ z.me.state = "COMPLETE"
        /\ z.me.session # y.me.session => z.me.session \in Terminated
    BY <2>4, <2>5, <2>6, <2>7, SetStateKeeps
  <2> HIDE DEF z
  <2>9. Moved(e, z) /\ Justly(e, z)
    BY <2>3, <2>8, MovedTrans
  <2> QED BY <2>1, <2>3, <2>7, <2>8, <2>9 DEF Good
<1>3. CASE e.me.state = "TRANSFER" /\ ~(e.me.item >= Len(Sizes))
  <2>1. x = Ask(e) \/ x = SetState(e, "FAILURE", FALSE)
    BY <1>3 DEF NextDownload
  <2>2. CASE x = Ask(e)
    <3>1. e.me \in ShareRecord
      BY EntryFields DEF Good, Sound, Loose
    <3>2. e.me.item < Len(Sizes)
      BY <1>3, <3>1, ShareFields, FileShareAssumption, LenProperties
    <3> QED BY <1>3, <2>2, <3>2, AskKeeps
  <2>3. CASE x = SetState(e, "FAILURE", FALSE)
    <3>1. "FAILURE" \in Complete /\ "FAILURE" # "COMPLETE" /\ e.me.state \notin Complete
      BY <1>3 DEF Complete
    <3>2. e.p = "sender" => Quit(e.me)
      OBVIOUS
    <3>3. /\ Sound(x) /\ Moved(e, x) /\ Justly(e, x) /\ x.p = e.p /\ x.me.state = "FAILURE"
          /\ x.me.session # e.me.session => x.me.session \in Terminated
      BY <2>3, <3>1, <3>2, FinishKeeps DEF Good
    <3> QED BY <3>1, <3>3 DEF Good
  <2> QED BY <2>1, <2>2, <2>3
<1> QED BY <1>1, <1>2, <1>3

\* The receiver stops counting an item that is not served any more.
LEMMA IdleKeeps ==
  ASSUME NEW e, Good(e), e.p = "receiver", e.wire["private"].phase # "serving"
  PROVE  LET x == Idle(e)
         IN /\ Good(x) /\ Moved(e, x) /\ Justly(e, x) /\ x.p = e.p /\ x.place = e.place
            /\ ~x.me.counter /\ x.me.session = e.me.session /\ x.me.state = e.me.state
            /\ x.me.item = e.me.item /\ x.me.bytes = e.me.bytes
            /\ x.wire["private"].phase = "idle"
<1> DEFINE k == [e.me EXCEPT !.counter = FALSE]
           w == [e.wire["private"] EXCEPT !.phase = "idle"]
           y == [e EXCEPT !.me = k]
           x == [y EXCEPT !.wire["private"] = w]
<1>1. e \in Entry /\ e.me \in ShareRecord /\ e.wire["private"] \in Wire
  BY EntryFields DEF Good, Sound, Loose, Conn
<1>2. Idle(e) = x
  BY <1>1 DEF Idle, Entry
<1>3. /\ k \in ShareRecord /\ k.session = e.me.session /\ k.posted = e.me.posted
      /\ k.failed = e.me.failed /\ k.state = e.me.state /\ k.closed = e.me.closed
      /\ k.localCancel = e.me.localCancel /\ k.item = e.me.item /\ k.serving = e.me.serving
      /\ k.proxies = e.me.proxies /\ k.asserted = e.me.asserted /\ ~k.counter
      /\ k.bytes = e.me.bytes
  BY <1>1 DEF ShareRecord
<1>4. w \in Wire /\ w.phase = "idle"
  BY <1>1 DEF Wire
<1> HIDE DEF k, w
<1>5. /\ y \in Entry /\ y.p = e.p /\ y.me = k /\ y.out = e.out /\ y.wire = e.wire
      /\ y.place = e.place
  BY <1>1, <1>3, WithShare
<1> HIDE DEF y
<1>6. /\ x \in Entry /\ x.p = y.p /\ x.me = y.me /\ x.out = y.out /\ x.place = y.place
      /\ x.wire["private"] = w /\ x.wire["proxy"] = y.wire["proxy"]
  BY <1>4, <1>5, WithPrivate
<1> HIDE DEF x
<1>7. Fit(x.me)
  BY <1>3, <1>5, <1>6 DEF Good, Sound, Loose, Fit
<1>8. Good(x)
  BY <1>3, <1>4, <1>5, <1>6, <1>7 DEF Good, Sound, Loose, Settled, Quit
<1>9. Moved(e, x) /\ Justly(e, x)
  BY <1>3, <1>4, <1>5, <1>6 DEF Moved, Went, Served, Justly, Quit, Blamed
<1> QED BY <1>2, <1>3, <1>4, <1>5, <1>6, <1>8, <1>9

\* The receiver with another folder, and another count of what is in it.
Counted(e, folder, bytes, item) ==
  [e EXCEPT !.place = folder, !.me = [e.me EXCEPT !.bytes = bytes, !.item = item]]

\* That is as good.
LEMMA CountKeeps ==
  ASSUME NEW e, Good(e), e.p = "receiver", ~e.me.counter,
         NEW folder \in [Item -> {"absent", "whole", "broken"}],
         NEW bytes \in Nat, NEW item \in 0 .. Len(Sizes)
  PROVE  LET x == Counted(e, folder, bytes, item)
         IN /\ Good(x) /\ Moved(e, x) /\ Justly(e, x) /\ x.p = e.p
            /\ ~x.me.counter /\ x.me.session = e.me.session /\ x.me.state = e.me.state
            /\ x.wire = e.wire
<1> DEFINE k == [e.me EXCEPT !.bytes = bytes, !.item = item]
           x == [e EXCEPT !.place = folder, !.me = k]
<1>1. e \in Entry /\ e.me \in ShareRecord
  BY EntryFields DEF Good, Sound, Loose
<1>2. /\ k \in ShareRecord /\ k.session = e.me.session /\ k.posted = e.me.posted
      /\ k.failed = e.me.failed /\ k.state = e.me.state /\ k.closed = e.me.closed
      /\ k.localCancel = e.me.localCancel /\ k.serving = e.me.serving
      /\ k.proxies = e.me.proxies /\ k.asserted = e.me.asserted /\ k.counter = e.me.counter
  BY <1>1 DEF ShareRecord
<1> HIDE DEF k
<1>3. /\ x \in Entry /\ x.p = e.p /\ x.me = k /\ x.out = e.out /\ x.wire = e.wire
  BY <1>1, <1>2 DEF Entry
<1> HIDE DEF x
<1>4. Fit(x.me)
  BY <1>2, <1>3 DEF Good, Sound, Loose, Fit
<1>5. Good(x)
  BY <1>2, <1>3, <1>4 DEF Good, Sound, Loose, Settled, Quit
<1>6. Moved(e, x) /\ Justly(e, x)
  BY <1>2, <1>3 DEF Moved, Went, Served, Justly, Quit, Blamed
<1> QED BY <1>2, <1>3, <1>5, <1>6 DEF Counted, x, k

\* What the receiver makes of the answer to its request.
LEMMA CompleteKeeps ==
  ASSUME NEW e, Good(e), e.p = "receiver", e.me.counter,
         e.wire["private"].phase \in {"sent", "denied"},
         NEW x \in OnHttpClientComplete(e)
  PROVE  /\ Good(x) /\ Moved(e, x) /\ Justly(e, x) /\ x.p = e.p
         /\ x.me.session # "INIT" /\ e.me.session # "INIT"
<1> DEFINE i == Idle(e)
<1>1. /\ e \in Entry /\ e.me \in ShareRecord /\ e.wire["private"] \in Wire
      /\ e.place \in [Item -> {"absent", "whole", "broken"}]
  BY EntryFields DEF Good, Sound, Loose, Conn
<1>2. e.me.state = "TRANSFER" /\ e.me.item < Len(Sizes) /\ e.me.session \notin {"NULL", "INIT"}
  BY DEF Good, Sound, Loose, Fit, Settled, Complete
<1>3. /\ Good(i) /\ Moved(e, i) /\ Justly(e, i) /\ i.p = e.p /\ i.place = e.place
      /\ ~i.me.counter /\ i.me.session = e.me.session /\ i.me.state = e.me.state
      /\ i.me.item = e.me.item /\ i.me.bytes = e.me.bytes
      /\ i.wire["private"].phase = "idle"
  BY IdleKeeps
<1>4. x \in ItemStored(e) \/ x = SetState(i, "FAILURE", FALSE) \/ x = DownloadFailed(e)
  BY DEF OnHttpClientComplete
<1> HIDE DEF i
<1>5. ASSUME NEW f, Good(f), Moved(e, f), Justly(e, f), f.p = e.p,
             f.me.session = e.me.session, f.me.state = e.me.state,
             x = SetState(f, "FAILURE", FALSE)
      PROVE  Good(x) /\ Moved(e, x) /\ Justly(e, x) /\ x.p = e.p /\ x.me.session # "INIT"
  <2>1. "FAILURE" \in Complete /\ "FAILURE" # "COMPLETE" /\ f.me.state \notin Complete
    BY <1>2, <1>5 DEF Complete
  <2>2. f.p = "sender" => Quit(f.me)
    BY <1>5
  <2>3. Sound(f) /\ f.me.session \notin {"NULL", "INIT"}
    BY <1>2, <1>5 DEF Good
  <2>4. /\ Sound(x) /\ Moved(f, x) /\ Justly(f, x) /\ x.p = f.p /\ x.me.state = "FAILURE"
        /\ x.me.session # f.me.session => x.me.session \in Terminated
    BY <1>5, <2>1, <2>2, <2>3, FinishKeeps
  <2>5. Moved(e, x) /\ Justly(e, x)
    BY <1>5, <2>4, MovedTrans
  <2> QED BY <1>2, <1>5, <2>1, <2>4, <2>5 DEF Good, Terminated
<1>6. CASE x = SetState(i, "FAILURE", FALSE)
  BY <1>2, <1>3, <1>5, <1>6
<1>7. CASE x = DownloadFailed(e)
  <2> DEFINE folder == [i.place EXCEPT ![e.wire["private"].want] = "broken"]
             f == [i EXCEPT !.place = folder]
             g == Counted(i, folder, e.me.bytes, e.me.item)
  <2>1. folder \in [Item -> {"absent", "whole", "broken"}]
    BY <1>1, <1>3
  <2>2. i \in Entry /\ i.me \in ShareRecord
    BY <1>3, EntryFields DEF Good, Sound, Loose
  <2>3. [i.me EXCEPT !.bytes = e.me.bytes, !.item = e.me.item] = i.me
    BY <1>3, <2>2 DEF ShareRecord
  <2>4. e.me.bytes \in Nat /\ e.me.item \in 0 .. Len(Sizes)
    BY <1>1, ShareFields
  <2>5. x = SetState(f, "FAILURE", FALSE)
    BY <1>7 DEF DownloadFailed, i
  <2> HIDE DEF folder
  <2>6. /\ Good(g) /\ Moved(i, g) /\ Justly(i, g) /\ g.p = i.p
        /\ g.me.session = i.me.session /\ g.me.state = i.me.state
    BY <1>3, <2>1, <2>4, CountKeeps
  <2>7. f = g
    BY <2>2, <2>3 DEF Counted, Entry
  <2> HIDE DEF f, g
  <2>8. Moved(e, f) /\ Justly(e, f)
    BY <1>3, <2>6, <2>7, MovedTrans
  <2> QED BY <1>2, <1>3, <1>5, <2>5, <2>6, <2>7, <2>8
<1>8. CASE x \in ItemStored(e)
  <2> DEFINE folder == [i.place EXCEPT ![e.me.item + 1] = "whole"]
             bytes == i.me.bytes + Sizes[e.me.item + 1]
             item == i.me.item + 1
             f == Counted(i, folder, bytes, item)
  <2>1. folder \in [Item -> {"absent", "whole", "broken"}]
    BY <1>1, <1>3
  <2>2. i \in Entry /\ i.me \in ShareRecord
    BY <1>3, EntryFields DEF Good, Sound, Loose
  <2>3. e.me.bytes \in Nat /\ e.me.item \in Nat
    BY <1>1, ShareFields
  <2>4. Sizes[e.me.item + 1] \in Nat
    BY <1>2, <2>3, FileShareAssumption, LenProperties, ElementOfSeq
  <2>5. bytes \in Nat /\ item \in 0 .. Len(Sizes)
    <3>1. Len(Sizes) \in Nat
      BY FileShareAssumption, LenProperties
    <3>2. i.me.bytes = e.me.bytes /\ i.me.item = e.me.item /\ e.me.item < Len(Sizes)
      BY <1>2, <1>3
    <3>3. bytes \in Nat
      BY <2>3, <2>4, <3>2
    <3>4. item \in 0 .. Len(Sizes)
      BY <2>3, <3>1, <3>2
    <3> QED BY <3>3, <3>4
  <2>6. x \in NextDownload(f)
    BY <1>8, <2>2 DEF ItemStored, Counted, i, Entry
  <2> HIDE DEF folder, bytes, item
  <2>7. /\ Good(f) /\ Moved(i, f) /\ Justly(i, f) /\ f.p = i.p /\ f.wire = i.wire
        /\ f.me.session = i.me.session /\ f.me.state = i.me.state /\ ~f.me.counter
    BY <1>3, <2>1, <2>5, CountKeeps
  <2> HIDE DEF f
  <2>8. f.wire["private"].phase # "serving" /\ f.me.session \notin {"NULL", "INIT"} /\ f.p = "receiver"
    BY <1>2, <1>3, <2>7
  <2>9. /\ Good(x) /\ Moved(f, x) /\ Justly(f, x) /\ x.p = f.p
        /\ x.me.session = f.me.session \/ x.me.session \in Terminated
    BY <2>6, <2>7, <2>8, NextDownloadKeeps
  <2>10. Moved(i, x) /\ Justly(i, x)
    BY <2>7, <2>9, MovedTrans
  <2>11. Moved(e, x) /\ Justly(e, x)
    BY <1>3, <2>10, MovedTrans
  <2> QED BY <1>2, <1>3, <2>7, <2>9, <2>11 DEF Terminated
<1> QED BY <1>2, <1>4, <1>6, <1>7, <1>8

-----------------------------------------------------------------------------
(* A turn                                                                    *)

\* The turn of p makes f, and leaves queue of what was on its way to p.
Makes(p, f, queue) ==
  /\ share' = [share EXCEPT ![p] = f.me]
  /\ net' = [net EXCEPT ![p] = queue, ![Other(p)] = f.out]
  /\ wire' = f.wire /\ place' = f.place
  /\ case' \in Case /\ case'.browsing = case.browsing

\* What p's turn starts from, with the offer sent or not.
Ready(p, g) ==
  /\ g.p = p /\ g.me = share[p] /\ g.wire = wire
  /\ Late(g.out) /\ (Ends(g.out) => Quit(g.me))
  /\ NoOffer(g.out) \/ (p = "sender" /\ receiver.session = "INIT")

\* What is left of a queue says no more than it did.
LEMMA TailSays ==
  ASSUME NEW s \in Seq(Stanza), s # <<>>
  PROVE  /\ Tail(s) \in Seq(Stanza) /\ Tail(s) # s
         /\ NoOffer(s) => NoOffer(Tail(s))
         /\ Late(s) => NoOffer(Tail(s)) /\ Late(Tail(s))
         /\ Ends(Tail(s)) => Ends(s)
<1>1. /\ Tail(s) \in Seq(Stanza) /\ Len(Tail(s)) = Len(s) - 1 /\ Len(s) \in Nat \ {0}
      /\ \A i \in 1 .. Len(Tail(s)) : Tail(s)[i] = s[i + 1]
  BY HeadTailProperties, EmptySeq, LenProperties
<1>2. DOMAIN s = 1 .. Len(s) /\ DOMAIN Tail(s) = 1 .. Len(Tail(s))
  BY <1>1, LenProperties
<1>3. \A i \in DOMAIN Tail(s) : i + 1 \in DOMAIN s /\ i + 1 > 1 /\ Tail(s)[i] = s[i + 1]
  BY <1>1, <1>2
<1>4. NoOffer(s) => NoOffer(Tail(s))
  BY <1>3 DEF NoOffer
<1>5. Late(s) => NoOffer(Tail(s))
  BY <1>3 DEF NoOffer, Late
<1>6. NoOffer(Tail(s)) => Late(Tail(s))
  BY DEF NoOffer, Late
<1>7. Ends(Tail(s)) => Ends(s)
  BY <1>3 DEF Ends
<1>8. Tail(s) # s
  <2> DEFINE n == Len(s)
             k == Len(Tail(s))
  <2>1. n \in Nat /\ k = n - 1
    BY <1>1
  <2>2. Tail(s) = s => k = n
    OBVIOUS
  <2> HIDE DEF n, k
  <2>3. k # n
    BY <2>1
  <2> QED BY <2>2, <2>3
<1> QED BY <1>1, <1>4, <1>5, <1>6, <1>7, <1>8

\* A turn starts from what is right.
LEMMA HereIsReady ==
  ASSUME ShareInv, NEW p \in Peer
  PROVE  Good(Here(p)) /\ Ready(p, Here(p))
<1>1. Here(p).p = p /\ Here(p).me = share[p] /\ Here(p).wire = wire /\ Here(p).out = net[Other(p)]
  BY DEF Here
<1>2. p = "sender" \/ p = "receiver"
  BY DEF Peer
<1>3. Late(net[Other(p)])
  BY <1>2, Others DEF ShareInv, NoOffer, Late
<1>4. NoOffer(net[Other(p)]) \/ (p = "sender" /\ receiver.session = "INIT")
  BY <1>2, Others DEF ShareInv
<1>5. Ends(net[Other(p)]) => Quit(share[p])
  BY DEF ShareInv
<1>6. Good(Here(p))
  BY DEF ShareInv
<1> QED BY <1>1, <1>3, <1>4, <1>5, <1>6 DEF Ready

\* A turn that is sound, just and without a new original leaves all of it right.
LEMMA TurnKeeps ==
  ASSUME ShareInv, NEW p \in Peer, NEW g, NEW f, NEW queue,
         Ready(p, g), Good(f), Went(g, f), Makes(p, f, queue),
         queue = net[p] \/ (net[p] # <<>> /\ queue = Tail(net[p])),
         p = "receiver" /\ share[p].session = "INIT" /\ f.me.session # "INIT" => queue # net[p],
         p = "sender" /\ f.me.session = "INIT" => f.out = <<>>,
         Justly(g, f) \/ Reason, OneOriginal'
  PROVE  ShareInv'
<1> DEFINE q == Other(p)
<1>1. q \in Peer /\ q # p /\ Other(q) = p /\ Peer = {p, q}
  BY Others DEF Peer
<1>2. share \in [Peer -> ShareRecord] /\ net \in [Peer -> Seq(Stanza)]
  BY DEF ShareInv, TypeOK
<1>3. /\ f \in Entry /\ f.p = p /\ f.me \in ShareRecord /\ f.out \in Seq(Stanza)
      /\ f.wire \in [Conn -> Wire] /\ f.place \in [Item -> {"absent", "whole", "broken"}]
  BY EntryFields DEF Good, Sound, Loose, Went, Ready
<1> HIDE DEF q
<1>4. /\ share'[p] = f.me /\ share'[q] = share[q] /\ net'[p] = queue /\ net'[q] = f.out
      /\ share' \in [Peer -> ShareRecord]
  BY <1>1, <1>2, <1>3 DEF Makes, q
<1>5. /\ queue \in Seq(Stanza)
      /\ NoOffer(net[p]) => NoOffer(queue)
      /\ Late(net[p]) => Late(queue)
      /\ Late(net[p]) /\ queue # net[p] => NoOffer(queue)
      /\ Ends(queue) => Ends(net[p])
  BY <1>2, TailSays
<1>6. TypeOK'
  <2>1. net' \in [Peer -> Seq(Stanza)]
    BY <1>1, <1>2, <1>3, <1>5 DEF Makes
  <2> QED BY <1>3, <1>4, <2>1 DEF Makes, TypeOK
<1>7. CaseOK'
  BY DEF Makes, ShareInv, CaseOK
<1>8. /\ share[p].session # "INIT" => f.me.session # "INIT"
      /\ Quit(share[p]) => Quit(f.me)
      /\ Blamed(share[p]) => Blamed(f.me)
      /\ share[p].closed => f.me.closed
  BY DEF Went, Ready
<1>9. Good(Here(p))'
  <2>1. Here(p)' = f
    <3>1. f = [p |-> f.p, me |-> f.me, out |-> f.out, wire |-> f.wire, place |-> f.place]
      BY <1>3 DEF Entry
    <3>2. Here(p)' = [p |-> p, me |-> share'[p], out |-> net'[Other(p)],
                      wire |-> wire', place |-> place']
      BY DEF Here
    <3>3. net'[Other(p)] = f.out /\ wire' = f.wire /\ place' = f.place
      BY <1>4 DEF Makes, q
    <3> QED BY <1>3, <1>4, <3>1, <3>2, <3>3
  <2> QED BY <2>1
<1>10. Good(Here(q))'
  <2> DEFINE h == Here(q)
             k == [p |-> q, me |-> share[q], out |-> queue, wire |-> f.wire, place |-> f.place]
  <2>1. h' = k
    BY <1>1, <1>4 DEF Makes, Here
  <2>2. Good(h) /\ h.p = q /\ h.me = share[q] /\ h.wire = wire
    BY <1>1 DEF ShareInv, Here
  <2>3. k \in Entry /\ k.p = q /\ k.me = share[q] /\ k.wire = f.wire
    BY <1>1, <1>2, <1>3, <1>5 DEF Entry
  <2>4. q = "receiver" /\ wire["private"].phase = "idle" => f.wire["private"].phase = "idle"
    BY <1>1 DEF Went, Ready, Peer
  <2> HIDE DEF h, k
  <2>5. Good(k)
    BY <2>2, <2>3, <2>4 DEF Good, Sound, Loose, Settled
  <2> QED BY <2>1, <2>5 DEF h
<1>11. NoOffer(net'["sender"]) /\ Late(net'["receiver"])
  <2>1. CASE p = "sender"
    <3>1. q = "receiver" /\ NoOffer(net[p])
      BY <2>1, Others DEF ShareInv, q
    <3> QED BY <1>4, <1>5, <2>1, <3>1 DEF Went, Ready
  <2>2. CASE p = "receiver"
    <3>1. q = "sender" /\ Late(net[p])
      BY <2>2, Others DEF ShareInv, q
    <3> QED BY <1>4, <1>5, <2>2, <3>1 DEF Went, Ready
  <2> QED BY <2>1, <2>2 DEF Peer
<1>12. share'["receiver"].session # "INIT" => NoOffer(net'["receiver"])
  <2>1. CASE p = "sender"
    <3>1. q = "receiver"
      BY <2>1, Others DEF q
    <3>2. share[q].session # "INIT" => NoOffer(g.out)
      BY <3>1 DEF Ready, receiver
    <3> QED BY <1>4, <2>1, <3>1, <3>2 DEF Went
  <2>2. CASE p = "receiver"
    <3>1. Late(net[p]) /\ (share[p].session # "INIT" => NoOffer(net[p]))
      BY <2>2 DEF ShareInv, receiver
    <3> QED BY <1>4, <1>5, <2>2, <3>1
  <2> QED BY <2>1, <2>2 DEF Peer
<1>13. share'["sender"].session = "INIT" =>
         share'["receiver"].session = "INIT" /\ net'["receiver"] = <<>>
  <2>1. share["sender"].session = "INIT" =>
          share["receiver"].session = "INIT" /\ net["receiver"] = <<>>
    BY DEF ShareInv, sender, receiver
  <2>2. CASE p = "sender"
    <3>1. q = "receiver"
      BY <2>2, Others DEF q
    <3> QED BY <1>4, <1>8, <2>1, <2>2, <3>1
  <2>3. CASE p = "receiver"
    <3>1. q = "sender"
      BY <2>3, Others DEF q
    <3> QED BY <1>4, <2>1, <2>3, <3>1
  <2> QED BY <2>2, <2>3 DEF Peer
<1>14. /\ Ends(net'[q]) => Quit(share'[p])
       /\ Ends(net'[p]) => Quit(share'[q])
  <2>1. Ends(net[p]) => Quit(share[q])
    BY <1>1 DEF ShareInv
  <2> QED BY <1>4, <1>5, <1>8, <2>1 DEF Went, Ready
<1>15. /\ Reason => Reason'
       /\ Blamed(f.me) => Reason'
       /\ p = "receiver" /\ f.me.closed => Reason'
  <2>1. Reason' <=> (\E r \in Peer : Blamed(share'[r])) \/ share'["receiver"].closed
    BY DEF Reason, receiver
  <2>2. Blamed(f.me) => Reason'
    BY <1>4, <2>1
  <2>3. p = "receiver" /\ f.me.closed => Reason'
    BY <1>4, <2>1
  <2>4. ASSUME NEW r \in Peer, Blamed(share[r]) PROVE Reason'
    BY <1>1, <1>4, <1>8, <2>1, <2>2, <2>4
  <2>5. share["receiver"].closed => Reason'
    BY <1>1, <1>4, <1>8, <2>1, <2>3 DEF Peer
  <2> QED BY <2>2, <2>3, <2>4, <2>5 DEF Reason, receiver
<1>16. Quit(share'[p]) => Reason'
  <2>1. Quit(share[p]) => Reason
    BY DEF ShareInv
  <2> QED BY <1>3, <1>4, <1>15, <2>1 DEF Justly, Ready
<1>17. Quit(share'[q]) => Reason'
  <2>1. Quit(share[q]) => Reason
    BY <1>1 DEF ShareInv
  <2> QED BY <1>4, <1>15, <2>1
<1>18. \A r \in Peer : Good(Here(r))'
  BY <1>1, <1>9, <1>10
<1>19. \A r \in Peer : (Ends(net'[Other(r)]) => Quit(share'[r])) /\ (Quit(share'[r]) => Reason')
  BY <1>1, <1>14, <1>16, <1>17 DEF q
<1> QED BY <1>6, <1>7, <1>11, <1>12, <1>13, <1>18, <1>19 DEF ShareInv, sender, receiver

\* A turn that serves nothing new.
LEMMA ServedKeeps ==
  ASSUME ShareInv, NEW p \in Peer, NEW f, NEW queue, NEW g,
         Ready(p, g), Served(g, f), f.p = p, Makes(p, f, queue)
  PROVE  OneOriginal'
<1> DEFINE q == Other(p)
<1>1. q \in Peer /\ q # p /\ Peer = {p, q} /\ share \in [Peer -> ShareRecord]
  BY Others DEF Peer, ShareInv, TypeOK
<1> HIDE DEF q
<1>2. share'[p] = f.me /\ share'[q] = share[q] /\ wire' = f.wire /\ case'.browsing = case.browsing
  BY <1>1 DEF Makes
<1>3. SUFFICES ASSUME "original" \notin case.browsing
      PROVE  /\ \A r \in Peer : "share" \notin share'[r].asserted
             /\ share'["sender"].counter =>
                  share'["sender"].serving = "private" /\ wire'["private"].phase = "serving"
             /\ wire'["proxy"].phase # "idle" => wire'["proxy"].kind = "preview"
  BY <1>2 DEF OneOriginal, sender
<1>4. /\ \A r \in Peer : "share" \notin share[r].asserted
      /\ share["sender"].counter =>
           share["sender"].serving = "private" /\ wire["private"].phase = "serving"
      /\ wire["proxy"].phase # "idle" => wire["proxy"].kind = "preview"
      /\ case.browsing \subseteq {"original", "preview"}
  BY <1>3 DEF ShareInv, CaseOK, Case, OneOriginal, sender
<1>5. "share" \notin share'[p].asserted /\ "share" \notin share'[q].asserted
  BY <1>1, <1>2, <1>4 DEF Served, Ready
<1>6. share'["sender"].counter =>
        share'["sender"].serving = "private" /\ wire'["private"].phase = "serving"
  <2>1. CASE p = "sender"
    BY <1>2, <1>4, <2>1 DEF Served, Ready
  <2>2. CASE p # "sender"
    <3>1. q = "sender"
      BY <1>1, <2>2 DEF Peer
    <3> QED BY <1>2, <1>4, <3>1 DEF Served, Ready
  <2> QED BY <2>1, <2>2
<1>7. wire'["proxy"].phase # "idle" => wire'["proxy"].kind = "preview"
  BY <1>2, <1>3, <1>4 DEF Served, Ready
<1> QED BY <1>1, <1>5, <1>6, <1>7

\* A turn takes nothing from what is on its way to p.
LEMMA TurnMakes ==
  ASSUME ShareInv, NEW p \in Peer, NEW f, Turn(p, f), case' \in Case, case'.browsing = case.browsing
  PROVE  Makes(p, f, net[p])
<1>1. [net EXCEPT ![p] = net[p], ![Other(p)] = f.out] = [net EXCEPT ![Other(p)] = f.out]
  BY Others DEF ShareInv, TypeOK
<1> QED BY <1>1 DEF Turn, Makes

\* A turn of a peer whose session has begun, or that does not begin it.
LEMMA QuietTurn ==
  ASSUME ShareInv, NEW p \in Peer, NEW f, Good(f), Moved(Here(p), f),
         Justly(Here(p), f) \/ Reason, Turn(p, f),
         case' \in Case, case'.browsing = case.browsing,
         share[p].session # "INIT" \/ (f.me.session = "INIT" /\ f.out = net[Other(p)])
  PROVE  ShareInv'
<1> DEFINE g == Here(p)
<1>1. Ready(p, g) /\ Makes(p, f, net[p])
  BY HereIsReady, TurnMakes
<1>2. g.p = p /\ g.me = share[p]
  BY DEF Here
<1>3. p = "sender" /\ f.me.session = "INIT" => f.out = <<>>
  <2>1. share[p].session # "INIT" => f.me.session # "INIT"
    BY <1>2 DEF Moved, Went
  <2>2. sender.session = "INIT" => net["receiver"] = <<>>
    BY DEF ShareInv
  <2> QED BY <2>1, <2>2, Others DEF sender
<1> HIDE DEF g
<1>4. Went(g, f) /\ Served(g, f) /\ f.p = p
  BY <1>2 DEF Moved, Went, g
<1>5. OneOriginal'
  BY <1>1, <1>4, ServedKeeps
<1>6. Justly(g, f) \/ Reason
  BY DEF g
<1>7. p = "receiver" /\ share[p].session = "INIT" /\ f.me.session # "INIT" => net[p] # net[p]
  OBVIOUS
<1> QED BY <1>1, <1>3, <1>4, <1>5, <1>6, <1>7, TurnKeeps

\* A fault more leaves the rest of the case.
LEMMA FaultKeeps ==
  ASSUME ShareInv, NEW kind, Fault(kind)
  PROVE  case' \in Case /\ case'.browsing = case.browsing
<1>1. case \in Case
  BY DEF ShareInv, CaseOK
<1>2. case.faults - 1 \in Nat
  BY <1>1 DEF Fault, Case
<1> QED BY <1>1, <1>2 DEF Fault, Case

\* No fault leaves it, too.
LEMMA NoFault ==
  ASSUME ShareInv, UNCHANGED case
  PROVE  case' \in Case /\ case'.browsing = case.browsing
BY DEF ShareInv, CaseOK

-----------------------------------------------------------------------------
(* The stanzas                                                               *)

\* A share that is as good as it was, but for what it counts.
LEMMA AlikeGood ==
  ASSUME NEW e, Good(e), NEW k \in ShareRecord, Alike(e.me, k), Fit(k)
  PROVE  LET x == [e EXCEPT !.me = k]
         IN /\ Good(x) /\ Moved(e, x) /\ Justly(e, x) /\ x.p = e.p /\ x.out = e.out
            /\ x.me = k /\ x.wire = e.wire /\ x.place = e.place
<1> DEFINE x == [e EXCEPT !.me = k]
<1>1. e \in Entry
  BY DEF Good, Sound, Loose
<1>2. x \in Entry /\ x.p = e.p /\ x.me = k /\ x.out = e.out /\ x.wire = e.wire /\ x.place = e.place
  BY <1>1, WithShare
<1> HIDE DEF x
<1>3. Loose(x) /\ Settled(x)
  BY <1>2, AlikeKeeps DEF Good, Sound
<1>4. Good(x) /\ Moved(e, x) /\ Justly(e, x)
  <2>1. k.failed \/ ~e.me.failed
    BY DEF Alike
  <2> QED BY <1>2, <1>3, <2>1 DEF Good, Sound, Moved, Went, Served, Justly, Quit, Blamed, Alike
<1> QED BY <1>2, <1>4 DEF x

\* Another count of failing requests.
LEMMA UnansweredIs ==
  ASSUME NEW e, Good(e), NEW n \in Nat
  PROVE  LET x == [e EXCEPT !.me = [e.me EXCEPT !.unanswered = n]]
         IN /\ Good(x) /\ Moved(e, x) /\ Justly(e, x) /\ x.p = e.p /\ x.out = e.out
            /\ x.me.session = e.me.session /\ x.wire = e.wire /\ x.place = e.place
<1> DEFINE k == [e.me EXCEPT !.unanswered = n]
<1>1. e.me \in ShareRecord
  BY EntryFields DEF Good, Sound, Loose
<1>2. k \in ShareRecord /\ Alike(e.me, k) /\ k.posted = e.me.posted /\ k.failed = e.me.failed
  BY <1>1 DEF ShareRecord, Alike
<1> HIDE DEF k
<1>3. Fit(k)
  BY <1>2 DEF Good, Sound, Loose, Fit, Alike
<1>4. k.session = e.me.session
  BY <1>2 DEF Alike
<1>5. LET x == [e EXCEPT !.me = k]
      IN /\ Good(x) /\ Moved(e, x) /\ Justly(e, x) /\ x.p = e.p /\ x.out = e.out
         /\ x.me = k /\ x.wire = e.wire /\ x.place = e.place
  BY <1>2, <1>3, AlikeGood
<1> QED BY <1>4, <1>5 DEF k

\* A request that is refused or lost: the peer that sent it will hear of it.
LEMMA RefusedKeeps ==
  ASSUME ShareInv, NEW p \in Peer, net[p] # <<>>,
         share' = [share EXCEPT ![Other(p)] = Unanswered(Other(p))],
         net' = [net EXCEPT ![p] = Tail(@)],
         UNCHANGED <<wire, place>>,
         case' \in Case, case'.browsing = case.browsing
  PROVE  ShareInv'
<1> DEFINE q == Other(p)
           h == Here(q)
           n == share[q].unanswered + 1
           k == [h.me EXCEPT !.unanswered = n]
           u == IF share[q].session = "NULL" THEN h ELSE [h EXCEPT !.me = k]
           f == [u EXCEPT !.out = Tail(net[p])]
<1>1. q \in Peer /\ Other(q) = p /\ q # p
  BY Others
<1>2. /\ h.p = q /\ h.me = share[q] /\ h.out = net[p] /\ h.wire = wire /\ h.place = place
      /\ Good(h) /\ Ready(q, h)
  BY <1>1, HereIsReady DEF Here
<1>3. share[q] \in ShareRecord /\ net[p] \in Seq(Stanza) /\ n \in Nat
  BY <1>1, ShareFields DEF ShareInv, TypeOK
<1>4. u.me = Unanswered(q)
  BY <1>2 DEF Unanswered
<1> HIDE DEF q, n
<1>5. /\ Good(u) /\ Moved(h, u) /\ Justly(h, u) /\ u.p = q /\ u.out = net[p]
      /\ u.me.session = share[q].session /\ u.wire = wire /\ u.place = place
  <2>1. CASE share[q].session = "NULL"
    BY <1>2, <2>1, MovedSelf
  <2>2. CASE share[q].session # "NULL"
    BY <1>2, <1>3, <2>2, UnansweredIs
  <2> QED BY <2>1, <2>2
<1> HIDE DEF u, h
<1>6. /\ Tail(net[p]) \in Seq(Stanza)
      /\ NoOffer(net[p]) => NoOffer(Tail(net[p]))
      /\ Late(net[p]) => Late(Tail(net[p]))
      /\ Ends(Tail(net[p])) => Ends(net[p])
  BY <1>3, TailSays
<1>7. /\ f \in Entry /\ f.p = q /\ f.me = u.me /\ f.out = Tail(net[p]) /\ f.wire = wire
      /\ f.place = place
  BY <1>5, <1>6 DEF Good, Sound, Loose, Entry
<1> HIDE DEF f
<1>8. Good(f) /\ Moved(u, f) /\ Justly(u, f)
  BY <1>5, <1>6, <1>7 DEF Good, Sound, Loose, Settled, Moved, Went, Served, Justly
<1>9. Moved(h, f) /\ Justly(h, f)
  BY <1>5, <1>8, MovedTrans
<1>10. Makes(q, f, net[q])
  <2>1. [net EXCEPT ![q] = net[q], ![p] = Tail(net[p])] = [net EXCEPT ![p] = Tail(net[p])]
    BY <1>1 DEF ShareInv, TypeOK
  <2> QED BY <1>1, <1>4, <1>7, <2>1 DEF Makes, q
<1>11. q = "sender" /\ f.me.session = "INIT" => f.out = <<>>
  <2>1. sender.session = "INIT" => net["receiver"] = <<>>
    BY DEF ShareInv
  <2>2. q = "sender" => p = "receiver"
    BY <1>1 DEF Peer
  <2> QED BY <1>5, <1>7, <2>1, <2>2 DEF sender
<1>12. Went(h, f) /\ Served(h, f)
  BY <1>9 DEF Moved
<1>13. OneOriginal'
  BY <1>1, <1>2, <1>7, <1>10, <1>12, ServedKeeps
<1>14. q = "receiver" /\ share[q].session = "INIT" /\ f.me.session # "INIT" => net[q] # net[q]
  BY <1>5, <1>7
<1> QED BY <1>1, <1>2, <1>8, <1>9, <1>10, <1>11, <1>12, <1>13, <1>14, TurnKeeps

\* A message posted to a session that is as it should be.
LEMMA PostGood ==
  ASSUME NEW e, Good(e), e.me.session \notin {"NULL", "INIT"}
  PROVE  LET x == Post(e, "state")
         IN /\ Good(x) /\ Moved(e, x) /\ Justly(e, x) /\ x.p = e.p
            /\ x.me.session = e.me.session
<1> DEFINE x == Post(e, "state")
<1>1. "state" \in {"state", "error"} /\ "state" # "error"
  OBVIOUS
<1>2. /\ Loose(x) /\ (Settled(e) => Settled(x)) /\ Moved(e, x) /\ Justly(e, x)
      /\ Alike(e.me, x.me) /\ x.p = e.p
  BY <1>1, PostKeeps DEF Good, Sound
<1> HIDE DEF x
<1>3. Good(x)
  BY <1>2 DEF Good, Sound, Alike, Quit
<1> QED BY <1>2, <1>3 DEF Alike, x

\* The client that accepts: session-accept goes out after what the callback did.
LEMMA ChooseKeeps ==
  ASSUME NEW e, Good(e), e.me.session \notin {"NULL", "INIT"}
  PROVE  LET x == ChooseTransport(e)
         IN Good(x) /\ Moved(e, x) /\ Justly(e, x) /\ x.p = e.p /\ x.me.session # "INIT"
<1>1. CASE e.me.session # "RECEIVEDINITIATE"
  BY <1>1, MovedSelf DEF ChooseTransport
<1>2. CASE e.me.session = "RECEIVEDINITIATE"
  <2> DEFINE s == Send(e, "accept", "private")
             x == Enter(s, "SENTACCEPT")
  <2>1. ChooseTransport(e) = x
    BY <1>2 DEF ChooseTransport
  <2>2. /\ "private" \in Conn /\ "accept" \in {"accept", "reject", "terminate", "channel", "complete"}
        /\ "accept" \notin {"terminate", "reject"}
    BY DEF Conn
  <2>3. /\ Loose(s) /\ (Settled(e) => Settled(s)) /\ s.p = e.p /\ s.me = e.me
        /\ Moved(e, s) /\ Justly(e, s)
    BY <2>2, SendKeeps DEF Good, Sound
  <2>4. Good(s)
    BY <2>3 DEF Good, Sound
  <2>5. "SENTACCEPT" \in Live /\ ~Quit(s.me) /\ s.me.session # "SENTACCEPT"
    BY <1>2, <2>3 DEF Live, Quit
  <2> HIDE DEF s
  <2>6. s.me.session \notin {"NULL", "INIT"}
    BY <1>2, <2>3
  <2>7. /\ Good(x) /\ Moved(s, x) /\ x.p = s.p /\ Justly(s, x)
        /\ x.me.session \notin {"NULL", "INIT"}
    BY <2>4, <2>5, <2>6, EnterKeeps
  <2> HIDE DEF x
  <2>8. Moved(e, x) /\ Justly(e, x)
    BY <2>3, <2>7, MovedTrans
  <2> QED BY <2>1, <2>3, <2>7, <2>8
<1> QED BY <1>1, <1>2

\* The offer arrives at a receiver whose session has not begun.
LEMMA OfferKeeps ==
  ASSUME NEW e, Good(e), e.p = "receiver", e.me.session = "INIT",
         NEW x \in OnInitiateMessage(e)
  PROVE  /\ Good(x) /\ Moved(e, x) /\ Justly(e, x) /\ x.p = e.p /\ x.me.session # "INIT"
<1> DEFINE y == [e EXCEPT !.me.session = "RECEIVEDINITIATE"]
           o == OnSessionState(y, "RECEIVEDINITIATE")
           t == SetState(o, "TRANSFER", FALSE)
<1>1. x \in (IF AcceptsAtOnce THEN {ChooseTransport(Post(f, "state")) : f \in NextDownload(t)}
             ELSE {Post(o, "state")})
  BY DEF OnInitiateMessage
<1>2. "RECEIVEDINITIATE" \in Live /\ ~Quit(e.me)
  BY DEF Live, Quit
<1>3. /\ e.me.state = "NONE" /\ ~e.me.counter /\ e.wire["private"].phase = "idle"
  BY DEF Good, Sound, Loose, Settled, Fit
<1>4. /\ Loose(y) /\ (Settled(e) => Settled(y)) /\ Moved(e, y)
      /\ y.p = e.p /\ y.me.session = "RECEIVEDINITIATE" /\ ~Quit(y.me)
      /\ y.me.state = e.me.state /\ y.me.counter = e.me.counter
  BY <1>2, SessionKeeps DEF Good, Sound
<1> HIDE DEF y
<1>5. Sound(y) /\ Justly(e, y)
  BY <1>4 DEF Good, Sound, Justly
<1>6. /\ Good(o) /\ Moved(y, o) /\ Justly(y, o) /\ o.p = y.p
      /\ o.me.session = "RECEIVEDINITIATE" \/ o.me.session \in Terminated
      /\ (o.me.counter => y.me.counter)
      /\ (y.me.state = "NONE" => o.me.state = "OFFER")
  BY <1>2, <1>3, <1>4, <1>5, OnSessionStateKeeps
<1> HIDE DEF o
<1>7. o.me.state = "OFFER" /\ o.me.session \notin {"NULL", "INIT"} /\ ~Quit(o.me)
  BY <1>3, <1>4, <1>6 DEF Good, Complete, Terminated
<1>8. Moved(e, o) /\ Justly(e, o)
  BY <1>4, <1>5, <1>6, MovedTrans
<1>9. CASE ~AcceptsAtOnce
  <2>1. x = Post(o, "state")
    BY <1>1, <1>9
  <2>2. Good(x) /\ Moved(o, x) /\ Justly(o, x) /\ x.p = o.p /\ x.me.session = o.me.session
    BY <1>6, <1>7, <2>1, PostGood
  <2>3. Moved(e, x) /\ Justly(e, x)
    BY <1>8, <2>2, MovedTrans
  <2> QED BY <1>4, <1>6, <1>7, <2>2, <2>3
<1>10. CASE AcceptsAtOnce
  <2>1. "TRANSFER" \in {"OFFER", "TRANSFER"} /\ "TRANSFER" # "OFFER"
    OBVIOUS
  <2>2. o.me.state \notin Complete /\ Sound(o)
    BY <1>6, <1>7 DEF Complete, Good
  <2>3. /\ Sound(t) /\ Moved(o, t) /\ Justly(o, t) /\ t.p = o.p /\ t.me.state = "TRANSFER"
        /\ (t.me.counter => o.me.counter) /\ t.me.session = o.me.session
    BY <1>7, <2>1, <2>2, BeginKeeps
  <2> HIDE DEF t
  <2>4. Moved(e, t) /\ Justly(e, t)
    BY <1>8, <2>3, MovedTrans
  <2>5. Good(t) /\ t.p = "receiver" /\ t.me.session \notin {"NULL", "INIT"} /\ ~t.me.counter
    BY <1>3, <1>4, <1>6, <1>7, <2>3 DEF Good, Quit
  <2>6. t.wire["private"].phase # "serving"
    BY <1>3, <2>4 DEF Moved, Served
  <2>7. PICK f \in NextDownload(t) : x = ChooseTransport(Post(f, "state"))
    BY <1>1, <1>10
  <2>8. /\ Good(f) /\ Moved(t, f) /\ Justly(t, f) /\ f.p = t.p
        /\ f.me.session = t.me.session \/ f.me.session \in Terminated
    BY <2>5, <2>6, NextDownloadKeeps
  <2>9. f.me.session \notin {"NULL", "INIT"}
    BY <2>5, <2>8 DEF Terminated
  <2> DEFINE g == Post(f, "state")
  <2>10. Good(g) /\ Moved(f, g) /\ Justly(f, g) /\ g.p = f.p /\ g.me.session = f.me.session
    BY <2>8, <2>9, PostGood
  <2>11. x = ChooseTransport(g)
    BY <2>7
  <2> HIDE DEF g
  <2>12. g.me.session \notin {"NULL", "INIT"}
    BY <2>9, <2>10
  <2>13. Good(x) /\ Moved(g, x) /\ Justly(g, x) /\ x.p = g.p /\ x.me.session # "INIT"
    BY <2>10, <2>11, <2>12, ChooseKeeps
  <2>14. Moved(t, g) /\ Justly(t, g)
    BY <2>8, <2>10, MovedTrans
  <2>15. Moved(t, x) /\ Justly(t, x)
    BY <2>13, <2>14, MovedTrans
  <2>16. Moved(e, x) /\ Justly(e, x)
    BY <2>4, <2>15, MovedTrans
  <2> QED BY <1>4, <1>6, <2>3, <2>8, <2>10, <2>13, <2>16
<1> QED BY <1>9, <1>10

\* A channel of the receiver's, or its QN_SHARE_COMPLETE, arrives.
LEMMA InfoKeeps ==
  ASSUME NEW e, Good(e), e.me.session \notin {"NULL", "INIT"},
         NEW m \in Stanza, m.type \in {"channel", "complete"}
  PROVE  LET x == OnSessionInfoMessage(e, m)
         IN Good(x) /\ Moved(e, x) /\ Justly(e, x) /\ x.p = e.p /\ x.me.session # "INIT"
<1> DEFINE x == OnSessionInfoMessage(e, m)
<1>1. CASE e.me.closed \/ e.p = "receiver"
  BY <1>1, MovedSelf DEF OnSessionInfoMessage
<1>2. CASE ~(e.me.closed \/ e.p = "receiver") /\ m.type = "channel"
  <2> DEFINE c == m.conn
             w == [e.wire[c] EXCEPT !.channel = "opening"]
             wires == [e.wire EXCEPT ![c] = w]
             y == [e EXCEPT !.wire = wires]
  <2>1. x = y
    BY <1>2 DEF OnSessionInfoMessage
  <2>2. e \in Entry /\ c \in Conn /\ e.wire \in [Conn -> Wire] /\ e.wire[c] \in Wire
    BY EntryFields DEF Stanza, Good, Sound, Loose
  <2>3. w \in Wire /\ w.phase = e.wire[c].phase /\ w.kind = e.wire[c].kind
    BY <2>2 DEF Wire
  <2> HIDE DEF c, w
  <2>4. /\ wires \in [Conn -> Wire]
        /\ \A d \in Conn : wires[d].phase = e.wire[d].phase /\ wires[d].kind = e.wire[d].kind
    BY <2>2, <2>3
  <2> HIDE DEF wires
  <2>5. y \in Entry /\ y.p = e.p /\ y.me = e.me /\ y.out = e.out /\ y.wire = wires
    BY <2>2, <2>4 DEF Entry
  <2> HIDE DEF y
  <2>6. "private" \in Conn /\ "proxy" \in Conn
    BY DEF Conn
  <2>7. Good(y)
    BY <2>4, <2>5, <2>6 DEF Good, Sound, Loose, Settled
  <2>8. Moved(e, y) /\ Justly(e, y)
    BY <2>4, <2>5, <2>6 DEF Moved, Went, Served, Justly
  <2> QED BY <2>1, <2>5, <2>7, <2>8
<1>3. CASE ~(e.me.closed \/ e.p = "receiver") /\ m.type = "complete" /\ e.me.state \in Complete
  BY <1>3, MovedSelf DEF OnSessionInfoMessage
<1>4. CASE ~(e.me.closed \/ e.p = "receiver") /\ m.type = "complete" /\ e.me.state \notin Complete
  <2>1. x = SetState(e, "COMPLETE", TRUE)
    BY <1>4 DEF OnSessionInfoMessage
  <2>2. "COMPLETE" \in Complete /\ "COMPLETE" # "OFFER" /\ "COMPLETE" \in Complete \cup {"OFFER", "TRANSFER"}
    BY DEF Complete
  <2>3. e.p = "receiver" /\ "COMPLETE" = "COMPLETE" => ~e.me.counter /\ (TRUE <=> e.me.proxies # {})
    BY <1>4
  <2>5. "COMPLETE" = "OFFER" => e.me.state \in {"NONE", "OFFER"}
    OBVIOUS
  <2>6. e.p = "sender" /\ "COMPLETE" \in Complete => Quit(e.me) \/ ("COMPLETE" = "COMPLETE" /\ TRUE)
    OBVIOUS
  <2>7. TRUE \in BOOLEAN /\ Sound(e) /\ e.me.state \notin Complete
    BY <1>4 DEF Good
  <2> HIDE DEF x
  <2>4. /\ Sound(x) /\ Moved(e, x) /\ Justly(e, x) /\ x.p = e.p /\ x.me.state = "COMPLETE"
        /\ x.me.session # e.me.session => x.me.session \in Terminated
    BY <2>1, <2>2, <2>3, <2>5, <2>6, <2>7, SetStateKeeps
  <2> QED BY <2>2, <2>4 DEF Good, Terminated, x
<1> QED BY <1>1, <1>2, <1>3, <1>4

\* A stanza is taken.
LEMMA ReceiveKeeps ==
  ASSUME ShareInv, NEW p \in Peer, Receive(p)
  PROVE  ShareInv'
<1> DEFINE m == Head(net[p])
           h == Here(p)
<1>1. net[p] \in Seq(Stanza) /\ net[p] # <<>> /\ m \in Stanza /\ m = net[p][1] /\ 1 \in DOMAIN net[p]
  <2>1. net[p] \in Seq(Stanza) /\ net[p] # <<>>
    BY DEF ShareInv, TypeOK, Receive
  <2> QED BY <2>1, HeadTailProperties, EmptySeq, LenProperties
<1>2. case' \in Case /\ case'.browsing = case.browsing
  BY NoFault DEF Receive
<1> HIDE DEF m
<1>3. CASE Refuses(p, m)
  <2>1. /\ share' = [share EXCEPT ![Other(p)] = Unanswered(Other(p))]
        /\ net' = [net EXCEPT ![p] = Tail(@)]
        /\ UNCHANGED <<wire, place>>
    BY <1>3 DEF Receive, m
  <2> QED BY <1>1, <1>2, <2>1, RefusedKeeps
<1>4. CASE ~Refuses(p, m)
  <2>1. PICK x \in Handle(h, m) :
          /\ share' = [share EXCEPT ![p] = x.me]
          /\ net' = [net EXCEPT ![p] = Tail(net[p]), ![Other(p)] = x.out]
          /\ wire' = x.wire
          /\ place' = x.place
    BY <1>4 DEF Receive, m
  <2>2. /\ share[p].session # "NULL"
        /\ share[p].session = "INIT" => m.type = "initiate"
        /\ m.type \in {"accept", "reject"} => share[p].session = "SENTINITIATE"
    BY <1>4 DEF Refuses
  <2>3. Good(h) /\ Ready(p, h) /\ h.p = p /\ h.me = share[p]
    BY HereIsReady DEF Here
  <2> HIDE DEF h
  <2>4. m.type \in {"initiate", "accept", "reject", "terminate", "channel", "complete"}
    BY <1>1 DEF Stanza
  <2>5. m.type = "initiate" => p = "receiver" /\ share[p].session = "INIT"
    BY <1>1 DEF ShareInv, NoOffer, receiver, m, Peer
  <2>6. m.type \in {"reject", "terminate"} => Reason
    <3>1. m.type \in {"reject", "terminate"} => Ends(net[p])
      BY <1>1 DEF Ends
    <3> QED BY <3>1, Others DEF ShareInv
  <2>7. /\ Good(x) /\ Moved(h, x) /\ x.p = p /\ x.me.session # "INIT"
        /\ Justly(h, x) \/ Reason
    <3>1. CASE m.type = "initiate"
      <4>1. x \in OnInitiateMessage(h)
        BY <2>1, <3>1 DEF Handle
      <4> QED BY <2>3, <2>5, <3>1, <4>1, OfferKeeps
    <3>2. CASE m.type = "accept"
      <4>1. x = Enter(h, "RECEIVEDACCEPT")
        BY <2>1, <3>2 DEF Handle
      <4>2. "RECEIVEDACCEPT" \in Live /\ ~Quit(h.me) /\ h.me.session = "SENTINITIATE"
        BY <2>2, <2>3, <3>2 DEF Live, Quit
      <4> QED BY <2>3, <4>1, <4>2, EnterKeeps
    <3>3. CASE m.type \in {"reject", "terminate"}
      <4>1. PICK state \in {"RECEIVEDREJECT", "RECEIVEDTERMINATE"} : x = Enter(h, state)
        BY <2>1, <3>3 DEF Handle
      <4>2. state \in Refused \cup Terminated /\ state \notin {"SENTINITIATE", "RECEIVEDINITIATE", "INIT"}
            /\ state \notin Live
        BY DEF Refused, Terminated, Live
      <4>3. h.me.session \notin {"NULL", "INIT"}
        BY <2>2, <2>3, <3>3
      <4>4. Good(x) /\ Moved(h, x) /\ x.p = h.p
            /\ (x.me.session \notin {"NULL", "INIT"} \/ h.me.session = state)
            /\ (x.me.session = state \/ x.me.session \in Terminated)
        BY <2>3, <4>1, <4>2, <4>3, EnterKeeps
      <4> QED BY <2>3, <2>6, <3>3, <4>2, <4>4 DEF Terminated
    <3>4. CASE m.type \in {"channel", "complete"}
      <4>1. x = OnSessionInfoMessage(h, m)
        BY <2>1, <3>4 DEF Handle
      <4>2. h.me.session \notin {"NULL", "INIT"}
        BY <2>2, <2>3, <3>4
      <4> QED BY <1>1, <2>3, <3>4, <4>1, <4>2, InfoKeeps
    <3> QED BY <2>4, <3>1, <3>2, <3>3, <3>4
  <2>8. Makes(p, x, Tail(net[p]))
    BY <1>2, <2>1 DEF Makes
  <2>9. Tail(net[p]) # net[p]
    BY <1>1, TailSays
  <2>10. Went(h, x) /\ Served(h, x)
    BY <2>7 DEF Moved
  <2>11. OneOriginal'
    BY <2>3, <2>7, <2>8, <2>10, ServedKeeps
  <2> QED BY <1>1, <2>3, <2>7, <2>8, <2>9, <2>10, <2>11, TurnKeeps
<1> QED BY <1>3, <1>4

-----------------------------------------------------------------------------
(* The session's own messages and timers                                     *)

\* A request fails.
LEMMA RequestFailsKeeps ==
  ASSUME ShareInv, NEW p \in Peer, RequestFails(p)
  PROVE  ShareInv'
<1> DEFINE h == Here(p)
           n == share[p].unanswered - 1
           e == [h EXCEPT !.me = [h.me EXCEPT !.unanswered = n]]
           x == SetError(e)
<1>1. Good(h) /\ h.p = p /\ h.me = share[p] /\ h.out = net[Other(p)]
  BY HereIsReady DEF Here
<1>2. n \in Nat
  <2>1. share[p].unanswered \in Nat
    BY ShareFields DEF ShareInv, TypeOK
  <2> QED BY <2>1 DEF RequestFails
<1>3. [Here(p) EXCEPT !.me.unanswered = @ - 1] = e
  BY <1>1
<1>4. Turn(p, x)
  BY <1>3 DEF RequestFails
<1>5. case' \in Case /\ case'.browsing = case.browsing
  BY NoFault DEF RequestFails
<1> HIDE DEF n, h
<1>6. /\ Good(e) /\ Moved(h, e) /\ Justly(h, e) /\ e.p = h.p /\ e.out = h.out
      /\ e.me.session = h.me.session
  BY <1>1, <1>2, UnansweredIs
<1> HIDE DEF e
<1>7. /\ Good(x) /\ Moved(e, x) /\ Justly(e, x) /\ x.p = e.p
      /\ x.out = e.out /\ x.me.session = e.me.session
  BY <1>6, SetErrorKeeps
<1> HIDE DEF x
<1>8. Moved(h, x) /\ Justly(h, x)
  BY <1>6, <1>7, MovedTrans
<1>9. share[p].session # "INIT" \/ (x.me.session = "INIT" /\ x.out = net[Other(p)])
  BY <1>1, <1>6, <1>7
<1>10. Moved(Here(p), x) /\ (Justly(Here(p), x) \/ Reason)
  BY <1>8 DEF h
<1> QED BY <1>4, <1>5, <1>7, <1>9, <1>10, QuietTurn

\* The session has an error.
LEMMA ErrorTurn ==
  ASSUME ShareInv, NEW p \in Peer, share[p].session \in Live, Turn(p, SetError(Here(p))),
         case' \in Case, case'.browsing = case.browsing
  PROVE  ShareInv'
<1> DEFINE x == SetError(Here(p))
<1>1. Good(Here(p))
  BY HereIsReady
<1>2. Good(x) /\ Moved(Here(p), x) /\ Justly(Here(p), x)
  BY <1>1, SetErrorKeeps
<1>3. share[p].session # "INIT" /\ Turn(p, x)
  BY DEF Live
<1> HIDE DEF x
<1> QED BY <1>2, <1>3, QuietTurn

\* A message taken out of the session's queue.
LEMMA TakenIs ==
  ASSUME NEW e, Good(e), e.me.posted # <<>>
  PROVE  LET x == [e EXCEPT !.me = [e.me EXCEPT !.posted = Tail(e.me.posted)]]
         IN /\ Good(x) /\ Moved(e, x) /\ Justly(e, x) /\ x.p = e.p
            /\ x.me.session = e.me.session /\ e.me.session \notin {"NULL", "INIT"}
            /\ Head(e.me.posted) \in {"state", "error"}
            /\ Head(e.me.posted) = "error" => e.me.failed
<1> DEFINE s == e.me.posted
           q == Tail(s)
           k == [e.me EXCEPT !.posted = q]
<1>1. e.me \in ShareRecord /\ s \in Seq({"state", "error"})
  BY EntryFields, ShareFields DEF Good, Sound, Loose
<1>2. /\ q \in Seq({"state", "error"}) /\ Len(q) = Len(s) - 1 /\ Len(s) \in Nat \ {0}
      /\ \A i \in 1 .. Len(q) : q[i] = s[i + 1]
      /\ Head(s) \in {"state", "error"} /\ Head(s) = s[1]
  BY <1>1, HeadTailProperties, EmptySeq, LenProperties
<1>3. DOMAIN s = 1 .. Len(s) /\ DOMAIN q = 1 .. Len(q)
  BY <1>1, <1>2, LenProperties
<1>4. (\A i \in DOMAIN q : i + 1 \in DOMAIN s /\ q[i] = s[i + 1]) /\ 1 \in DOMAIN s
  BY <1>2, <1>3
<1>5. (\A i \in DOMAIN s : s[i] = "error" => e.me.failed) /\ e.me.session \notin {"NULL", "INIT"}
  BY DEF Good, Sound, Loose, Fit
<1>6. /\ \A i \in DOMAIN q : q[i] = "error" => e.me.failed
      /\ Head(s) = "error" => e.me.failed
  BY <1>2, <1>4, <1>5
<1> HIDE DEF q
<1>7. k \in ShareRecord /\ Alike(e.me, k) /\ k.posted = q /\ k.failed = e.me.failed
  BY <1>1, <1>2 DEF ShareRecord, Alike
<1> HIDE DEF k
<1>8. Fit(k)
  BY <1>5, <1>6, <1>7 DEF Good, Sound, Loose, Fit, Alike
<1>9. k.session = e.me.session
  BY <1>7 DEF Alike
<1>10. LET x == [e EXCEPT !.me = k]
       IN Good(x) /\ Moved(e, x) /\ Justly(e, x) /\ x.p = e.p /\ x.me = k
  BY <1>7, <1>8, AlikeGood
<1> QED BY <1>2, <1>5, <1>6, <1>9, <1>10 DEF k, q

\* MSG_STATE, of a session that has begun and exists.
LEMMA StateMessageKeeps ==
  ASSUME NEW e, Good(e), e.me.session \notin {"NULL", "INIT"}
  PROVE  LET x == OnStateMessage(e)
         IN Good(x) /\ Moved(e, x) /\ Justly(e, x) /\ x.p = e.p
<1> DEFINE x == OnStateMessage(e)
<1>1. CASE e.me.session \in {"SENTACCEPT", "RECEIVEDACCEPT"}
  <2>1. x = Enter(e, "INPROGRESS")
    BY <1>1 DEF OnStateMessage, Refused, Terminated
  <2>2. "INPROGRESS" \in Live /\ ~Quit(e.me)
    BY <1>1 DEF Live, Quit
  <2> HIDE DEF x
  <2>3. Good(x) /\ Moved(e, x) /\ Justly(e, x) /\ x.p = e.p
    BY <2>1, <2>2, EnterKeeps
  <2> QED BY <2>3 DEF x
<1>2. CASE e.me.session \in Refused
  <2>1. x = Terminate(e)
    BY <1>2 DEF OnStateMessage, Refused, Terminated
  <2>2. Quit(e.me)
    BY <1>2 DEF Quit, Refused, Live
  <2>3. Good(x) /\ Moved(e, x) /\ x.p = e.p
    BY <2>1, TerminateKeeps
  <2> QED BY <2>2, <2>3 DEF Justly
<1>3. CASE e.me.session \in Terminated
  <2>1. x = Destroy(e)
    BY <1>3 DEF OnStateMessage, Refused, Terminated
  <2>2. Quit(e.me)
    BY <1>3 DEF Quit, Terminated, Live
  <2>3. Good(x) /\ Moved(e, x) /\ x.p = e.p
    BY <1>3, <2>1, DestroyKeeps
  <2> QED BY <2>2, <2>3 DEF Justly
<1>4. CASE e.me.session \notin {"SENTACCEPT", "RECEIVEDACCEPT"} \cup Refused \cup Terminated
  <2>1. x = e
    BY <1>4 DEF OnStateMessage
  <2> QED BY <2>1, MovedSelf
<1> QED BY <1>1, <1>2, <1>3, <1>4

\* A message of the session is dispatched.
LEMMA MessageKeeps ==
  ASSUME ShareInv, NEW p \in Peer, OnSessionMessage(p)
  PROVE  ShareInv'
<1> DEFINE h == Here(p)
           e == [h EXCEPT !.me = [h.me EXCEPT !.posted = Tail(h.me.posted)]]
           x == IF Head(share[p].posted) = "state" THEN OnStateMessage(e) ELSE Terminate(e)
<1>1. Good(h) /\ h.p = p /\ h.me = share[p] /\ h.out = net[Other(p)]
  BY HereIsReady DEF Here
<1>2. [Here(p) EXCEPT !.me.posted = Tail(@)] = e
  OBVIOUS
<1>3. Turn(p, x) /\ share[p].posted # <<>>
  BY <1>2 DEF OnSessionMessage
<1>4. case' \in Case /\ case'.browsing = case.browsing
  BY NoFault DEF OnSessionMessage
<1>5. h.me.posted # <<>>
  BY <1>1, <1>3
<1> HIDE DEF h
<1>6. /\ Good(e) /\ Moved(h, e) /\ Justly(h, e) /\ e.p = h.p
      /\ e.me.session = h.me.session /\ h.me.session \notin {"NULL", "INIT"}
      /\ Head(h.me.posted) \in {"state", "error"}
      /\ Head(h.me.posted) = "error" => h.me.failed
  BY <1>1, <1>5, TakenIs
<1> HIDE DEF e
<1>7. Good(x) /\ Moved(e, x) /\ (Justly(e, x) \/ Reason)
  <2>1. CASE Head(share[p].posted) = "state"
    BY <1>6, <2>1, StateMessageKeeps
  <2>2. CASE Head(share[p].posted) # "state"
    <3>1. Reason
      BY <1>1, <1>6, <2>2 DEF Reason, Blamed
    <3> QED BY <1>6, <2>2, <3>1, TerminateKeeps
  <2> QED BY <2>1, <2>2
<1> HIDE DEF x
<1>8. Moved(Here(p), x) /\ (Justly(Here(p), x) \/ Reason)
  BY <1>6, <1>7, MovedTrans DEF h
<1>9. share[p].session # "INIT"
  BY <1>1, <1>6
<1> QED BY <1>3, <1>4, <1>7, <1>8, <1>9, QuietTurn

-----------------------------------------------------------------------------
(* The users                                                                 *)

\* The offer.
LEMMA ShareKeeps ==
  ASSUME ShareInv, Share
  PROVE  ShareInv'
<1> DEFINE h == Here("sender")
           m == [type |-> "initiate", conn |-> "private"]
           g == Send(h, "initiate", "private")
           x == Enter(g, "SENTINITIATE")
<1>1. "sender" \in Peer /\ "private" \in Conn /\ Other("sender") = "receiver"
  BY Others DEF Peer, Conn
<1>2. /\ Good(h) /\ h.p = "sender" /\ h.me = share["sender"] /\ h.out = net["receiver"]
      /\ h.wire = wire /\ h.place = place
  BY <1>1, HereIsReady DEF Here
<1>3. Turn("sender", x) /\ share["sender"].session = "INIT"
  BY DEF Share
<1>4. case' \in Case /\ case'.browsing = case.browsing
  BY NoFault DEF Share
<1>5. net["receiver"] = <<>> /\ receiver.session = "INIT"
  BY <1>3 DEF ShareInv, sender
<1> HIDE DEF h
<1>6. h \in Entry
  BY <1>2 DEF Good, Sound, Loose
<1>7. /\ g \in Entry /\ g.p = h.p /\ g.me = h.me /\ g.wire = h.wire /\ g.place = h.place
      /\ g.out = Append(h.out, m)
  BY <1>1, <1>6, SendIs
<1> HIDE DEF g
<1>8. \A i \in DOMAIN g.out : i = 1 /\ g.out[i].type = "initiate"
  <2>1. h.out = <<>> /\ h.out \in Seq(Stanza) /\ Len(h.out) = 0 /\ m \in Stanza
    BY <1>1, <1>2, <1>5, <1>6, EntryFields, EmptySeq DEF Stanza
  <2>2. /\ Len(Append(h.out, m)) = 1 /\ Append(h.out, m)[1] = m
        /\ DOMAIN Append(h.out, m) = 1 .. 1
    BY <2>1, AppendProperties, LenProperties
  <2> QED BY <1>7, <2>2
<1>9. Ready("sender", g)
  <2>1. Late(g.out) /\ ~Ends(g.out)
    BY <1>8 DEF Late, Ends
  <2> QED BY <1>2, <1>5, <1>7, <2>1 DEF Ready
<1>10. Good(g)
  BY <1>2, <1>7 DEF Good, Sound, Loose, Settled
<1>11. g.me.session = "INIT" /\ g.me.state = "NONE" /\ ~Quit(g.me)
  BY <1>2, <1>3, <1>7 DEF Good, Sound, Loose, Fit, Quit
<1>12. "SENTINITIATE" \in Live
  BY DEF Live
<1>13. /\ Good(x) /\ Moved(g, x) /\ x.p = g.p /\ Justly(g, x)
       /\ x.me.session = "SENTINITIATE" \/ x.me.session \in Terminated
  BY <1>10, <1>11, <1>12, EnterKeeps
<1> HIDE DEF x
<1>14. Makes("sender", x, net["sender"])
  BY <1>1, <1>3, <1>4, TurnMakes
<1>15. Went(g, x) /\ Served(g, x) /\ x.p = "sender" /\ x.me.session # "INIT"
  BY <1>2, <1>7, <1>13 DEF Moved, Terminated
<1>16. OneOriginal'
  BY <1>1, <1>9, <1>14, <1>15, ServedKeeps
<1>17. /\ "sender" = "receiver" /\ share["sender"].session = "INIT" /\ x.me.session # "INIT"
            => net["sender"] # net["sender"]
       /\ "sender" = "sender" /\ x.me.session = "INIT" => x.out = <<>>
  BY <1>15
<1> QED BY <1>1, <1>9, <1>13, <1>14, <1>15, <1>16, <1>17, TurnKeeps

\* The user accepts.
LEMMA AcceptKeeps ==
  ASSUME ShareInv, Accept
  PROVE  ShareInv'
<1> DEFINE h == Here("receiver")
           s == Send(h, "accept", "private")
           n == Enter(s, "SENTACCEPT")
<1>1. "receiver" \in Peer /\ "private" \in Conn
  BY DEF Peer, Conn
<1>2. Good(h) /\ h.p = "receiver" /\ h.me = share["receiver"]
  BY <1>1, HereIsReady DEF Here
<1>3. h.me.state = "OFFER" /\ case' \in Case /\ case'.browsing = case.browsing
  BY <1>2, NoFault DEF Accept
<1>4. PICK x \in NextDownload(n) : Turn("receiver", x)
  BY DEF Accept
<1> HIDE DEF h
<1>5. /\ h.me.session \notin {"NULL", "INIT"} /\ ~Quit(h.me) /\ ~h.me.counter
      /\ h.wire["private"].phase = "idle"
  BY <1>2, <1>3 DEF Good, Sound, Loose, Settled, Fit, Complete
<1>6. /\ Loose(s) /\ (Settled(h) => Settled(s)) /\ s.p = h.p /\ s.me = h.me
      /\ Moved(h, s) /\ Justly(h, s)
  <2>1. /\ "accept" \in {"accept", "reject", "terminate", "channel", "complete"}
        /\ "accept" \notin {"terminate", "reject"} /\ Loose(h)
    BY <1>2 DEF Good, Sound
  <2> QED BY <1>1, <2>1, SendKeeps
<1> HIDE DEF s
<1>7. Good(s)
  BY <1>2, <1>6 DEF Good, Sound
<1>8. "SENTACCEPT" \in Live /\ ~Quit(s.me) /\ s.me.session \notin {"NULL", "INIT"}
  BY <1>5, <1>6 DEF Live
<1>9. /\ Good(n) /\ Moved(s, n) /\ n.p = s.p /\ Justly(s, n)
      /\ n.me.session = "SENTACCEPT" \/ n.me.session \in Terminated
      /\ (n.me.counter => s.me.counter)
  BY <1>7, <1>8, EnterKeeps
<1> HIDE DEF n
<1>10. Moved(h, n) /\ Justly(h, n)
  BY <1>6, <1>9, MovedTrans
<1>11. /\ n.p = "receiver" /\ n.me.session \notin {"NULL", "INIT"} /\ ~n.me.counter
       /\ n.wire["private"].phase # "serving"
  BY <1>2, <1>5, <1>6, <1>9, <1>10 DEF Terminated, Moved, Served
<1>12. Good(x) /\ Moved(n, x) /\ Justly(n, x)
  BY <1>4, <1>9, <1>11, NextDownloadKeeps
<1>13. Moved(Here("receiver"), x) /\ (Justly(Here("receiver"), x) \/ Reason)
  BY <1>10, <1>12, MovedTrans DEF h
<1>14. share["receiver"].session # "INIT"
  BY <1>2, <1>5
<1> QED BY <1>1, <1>3, <1>4, <1>12, <1>13, <1>14, QuietTurn

\* A share that its user has given up.
LEMMA GivenUp ==
  ASSUME NEW e, Good(e)
  PROVE  LET x == [e EXCEPT !.me = [e.me EXCEPT !.localCancel = TRUE]]
         IN /\ Good(x) /\ Moved(e, x) /\ Justly(e, x) /\ x.p = e.p
            /\ Blamed(x.me) /\ x.me.session = e.me.session /\ x.me.state = e.me.state
<1> DEFINE k == [e.me EXCEPT !.localCancel = TRUE]
           x == [e EXCEPT !.me = k]
<1>1. e \in Entry /\ e.me \in ShareRecord
  BY EntryFields DEF Good, Sound, Loose
<1>2. /\ k \in ShareRecord /\ k.session = e.me.session /\ k.posted = e.me.posted
      /\ k.failed = e.me.failed /\ k.state = e.me.state /\ k.closed = e.me.closed
      /\ k.localCancel /\ k.item = e.me.item /\ k.serving = e.me.serving
      /\ k.counter = e.me.counter
      /\ k.proxies = e.me.proxies /\ k.asserted = e.me.asserted
  BY <1>1 DEF ShareRecord
<1> HIDE DEF k
<1>3. x \in Entry /\ x.p = e.p /\ x.me = k /\ x.out = e.out /\ x.wire = e.wire
  BY <1>1, <1>2, WithShare
<1> HIDE DEF x
<1>4. Fit(x.me)
  BY <1>2, <1>3 DEF Good, Sound, Loose, Fit
<1>5. Good(x)
  BY <1>2, <1>3, <1>4 DEF Good, Sound, Loose, Settled, Quit
<1>6. Moved(e, x) /\ Justly(e, x) /\ Blamed(x.me)
  BY <1>2, <1>3 DEF Moved, Went, Served, Justly, Quit, Blamed
<1> QED BY <1>2, <1>3, <1>5, <1>6 DEF x, k

\* The user declines.
LEMMA DeclineKeeps ==
  ASSUME ShareInv, Decline
  PROVE  ShareInv'
<1> DEFINE h == Here("receiver")
           e == [h EXCEPT !.me = [h.me EXCEPT !.localCancel = TRUE]]
           x == Enter(Send(e, "reject", "private"), "SENTREJECT")
<1>1. "receiver" \in Peer
  BY DEF Peer
<1>2. Good(h) /\ h.p = "receiver" /\ h.me = share["receiver"] /\ h \in Entry
  BY <1>1, HereIsReady DEF Here, Good, Sound, Loose
<1>3. h.me.state = "OFFER" /\ case' \in Case /\ case'.browsing = case.browsing
  BY <1>2, NoFault DEF Decline
<1>4. [Send(h, "reject", "private") EXCEPT !.me.localCancel = TRUE] = Send(e, "reject", "private")
  <2> HIDE DEF h
  <2> QED BY <1>2 DEF Send, Entry
<1>5. Turn("receiver", x)
  BY <1>4 DEF Decline
<1> HIDE DEF h
<1>6. /\ Good(e) /\ Moved(h, e) /\ Justly(h, e) /\ e.p = h.p
      /\ Blamed(e.me) /\ e.me.session = h.me.session /\ e.me.state = h.me.state
  BY <1>2, GivenUp
<1>7. h.me.session \notin {"NULL", "INIT", "SENTREJECT"}
  BY <1>2, <1>3 DEF Good, Sound, Loose, Fit, Complete, Quit, Live
<1> HIDE DEF e
<1>8. /\ "SENTREJECT" \in {"SENTTERMINATE", "SENTREJECT"} /\ "reject" \in {"terminate", "reject"}
      /\ e.me.session \notin {"NULL", "INIT", "SENTREJECT"}
  BY <1>6, <1>7
<1>9. Good(x) /\ Moved(e, x) /\ x.p = e.p
  BY <1>6, <1>8, EndKeeps
<1> HIDE DEF x
<1>10. Justly(e, x)
  BY <1>6, <1>9 DEF Justly, Moved, Went
<1>11. Moved(Here("receiver"), x) /\ (Justly(Here("receiver"), x) \/ Reason)
  BY <1>6, <1>9, <1>10, MovedTrans DEF h
<1>12. share["receiver"].session # "INIT"
  BY <1>2, <1>7
<1> QED BY <1>1, <1>3, <1>5, <1>9, <1>11, <1>12, QuietTurn

\* A user cancels.
LEMMA CancelKeeps ==
  ASSUME ShareInv, NEW p \in Peer, Cancel(p)
  PROVE  ShareInv'
<1> DEFINE h == Here(p)
           e == [h EXCEPT !.me = [h.me EXCEPT !.localCancel = TRUE]]
           x == Terminate(e)
<1>1. Good(h) /\ h.me = share[p]
  BY HereIsReady DEF Here
<1>2. h.me.state \in {"OFFER", "TRANSFER"} /\ case' \in Case /\ case'.browsing = case.browsing
  BY <1>1, NoFault DEF Cancel
<1>3. [Here(p) EXCEPT !.me.localCancel = TRUE] = e
  OBVIOUS
<1>4. Turn(p, x)
  BY <1>3 DEF Cancel
<1> HIDE DEF h
<1>5. /\ Good(e) /\ Moved(h, e) /\ Justly(h, e) /\ e.p = h.p
      /\ Blamed(e.me) /\ e.me.session = h.me.session
  BY <1>1, GivenUp
<1>6. h.me.session \notin {"NULL", "INIT"}
  BY <1>1, <1>2 DEF Good, Sound, Loose, Fit, Complete
<1> HIDE DEF e
<1>7. Good(x) /\ Moved(e, x) /\ x.p = e.p
  BY <1>5, <1>6, TerminateKeeps
<1> HIDE DEF x
<1>8. Justly(e, x)
  BY <1>5, <1>7 DEF Justly, Moved, Went
<1>9. Moved(Here(p), x) /\ (Justly(Here(p), x) \/ Reason)
  BY <1>5, <1>7, <1>8, MovedTrans DEF h
<1>10. share[p].session # "INIT"
  BY <1>1, <1>6
<1> QED BY <1>2, <1>4, <1>7, <1>9, <1>10, QuietTurn

\* A share with other proxies, open where no close forbids it.
LEMMA ProxiesIs ==
  ASSUME NEW e, Good(e), NEW proxies \in SUBSET {"proxy"}, NEW wait \in BOOLEAN,
         proxies = {} \/ (e.me.session # "NULL" /\ ~e.me.closed)
  PROVE  LET x == [e EXCEPT !.me = [e.me EXCEPT !.proxies = proxies, !.wait = wait]]
         IN /\ Good(x) /\ Moved(e, x) /\ Justly(e, x) /\ x.p = e.p /\ x.out = e.out
            /\ x.wire = e.wire /\ x.place = e.place
            /\ x.me.session = e.me.session /\ x.me.state = e.me.state
            /\ x.me.closed = e.me.closed /\ x.me.proxies = proxies
<1> DEFINE k == [e.me EXCEPT !.proxies = proxies, !.wait = wait]
           x == [e EXCEPT !.me = k]
<1>1. e \in Entry /\ e.me \in ShareRecord
  BY EntryFields DEF Good, Sound, Loose
<1>2. /\ k \in ShareRecord /\ k.session = e.me.session /\ k.posted = e.me.posted
      /\ k.failed = e.me.failed /\ k.state = e.me.state /\ k.closed = e.me.closed
      /\ k.localCancel = e.me.localCancel /\ k.item = e.me.item /\ k.serving = e.me.serving
      /\ k.counter = e.me.counter /\ k.proxies = proxies /\ k.asserted = e.me.asserted
  BY <1>1 DEF ShareRecord
<1> HIDE DEF k
<1>3. /\ x \in Entry /\ x.p = e.p /\ x.me = k /\ x.out = e.out /\ x.wire = e.wire
      /\ x.place = e.place
  BY <1>1, <1>2, WithShare
<1> HIDE DEF x
<1>4. Fit(x.me)
  BY <1>2, <1>3 DEF Good, Sound, Loose, Fit
<1>5. Good(x)
  BY <1>2, <1>3, <1>4 DEF Good, Sound, Loose, Settled, Quit
<1>6. Moved(e, x) /\ Justly(e, x)
  BY <1>2, <1>3 DEF Moved, Went, Served, Justly, Quit, Blamed
<1> QED BY <1>2, <1>3, <1>5, <1>6 DEF x, k

\* An entry with another proxy channel, on which nothing is asked that may not be.
LEMMA WithProxy ==
  ASSUME NEW e, Good(e), NEW w \in Wire,
         (w.kind = e.wire["proxy"].kind /\ w.phase = e.wire["proxy"].phase) \/ w.kind \in case.browsing
  PROVE  LET x == [e EXCEPT !.wire = [e.wire EXCEPT !["proxy"] = w]]
         IN /\ Good(x) /\ Moved(e, x) /\ Justly(e, x) /\ x.p = e.p /\ x.out = e.out
            /\ x.me = e.me /\ x.place = e.place
<1> DEFINE wires == [e.wire EXCEPT !["proxy"] = w]
           x == [e EXCEPT !.wire = wires]
<1>1. e \in Entry /\ e.wire \in [Conn -> Wire]
  BY EntryFields DEF Good, Sound, Loose
<1>2. /\ wires \in [Conn -> Wire]
      /\ wires["private"] = e.wire["private"] /\ wires["proxy"] = w
  BY <1>1 DEF Conn
<1> HIDE DEF wires
<1>3. /\ x \in Entry /\ x.p = e.p /\ x.me = e.me /\ x.out = e.out /\ x.wire = wires
      /\ x.place = e.place
  BY <1>1, <1>2 DEF Entry
<1> HIDE DEF x
<1>4. Good(x) /\ Moved(e, x) /\ Justly(e, x)
  BY <1>2, <1>3 DEF Good, Sound, Loose, Settled, Moved, Went, Served, Justly
<1> QED BY <1>3, <1>4 DEF x, wires

\* The browser asks for an item.
LEMMA BrowseKeeps ==
  ASSUME ShareInv, NEW kind \in {"original", "preview"}, NEW i \in Item, Browse(kind, i)
  PROVE  ShareInv'
<1> DEFINE h == Here("receiver")
           s == Send(h, "channel", "proxy")
           k == [s.me EXCEPT !.proxies = {"proxy"}, !.wait = FALSE]
           b == [s EXCEPT !.me = k]
           w == [Unused EXCEPT !.channel = "announced", !.kind = kind, !.want = i, !.phase = "asked"]
           x == [b EXCEPT !.wire = [b.wire EXCEPT !["proxy"] = w]]
<1>1. "receiver" \in Peer /\ "proxy" \in Conn
  BY DEF Peer, Conn
<1>2. Good(h) /\ h.p = "receiver" /\ h.me = share["receiver"] /\ h \in Entry
  BY <1>1, HereIsReady DEF Here, Good, Sound, Loose
<1>3. /\ kind \in case.browsing /\ h.me.session \in Live /\ ~h.me.closed
      /\ case' \in Case /\ case'.browsing = case.browsing
  BY NoFault DEF Browse
<1>4. Turn("receiver", [s EXCEPT !.me.proxies = {"proxy"}, !.me.wait = FALSE, !.wire["proxy"] = w])
  BY DEF Browse
<1> HIDE DEF h, w
<1>5. /\ Loose(s) /\ (Settled(h) => Settled(s)) /\ s.p = h.p /\ s.me = h.me
      /\ Moved(h, s) /\ Justly(h, s)
  <2>1. /\ "channel" \in {"accept", "reject", "terminate", "channel", "complete"}
        /\ "channel" \notin {"terminate", "reject"} /\ Loose(h)
    BY <1>2 DEF Good, Sound
  <2> QED BY <1>1, <2>1, SendKeeps
<1>6. Good(s) /\ s \in Entry
  BY <1>2, <1>5 DEF Good, Sound, Loose
<1> HIDE DEF s
<1>7. Turn("receiver", x)
  <2>1. [s EXCEPT !.me.proxies = {"proxy"}, !.me.wait = FALSE, !.wire["proxy"] = w]
          = [b EXCEPT !.wire["proxy"] = w]
    OBVIOUS
  <2>2. [b EXCEPT !.wire["proxy"] = w] = x
    OBVIOUS
  <2> QED BY <1>4, <2>1, <2>2
<1>8. /\ {"proxy"} \in SUBSET {"proxy"} /\ FALSE \in BOOLEAN
      /\ s.me.session # "NULL" /\ ~s.me.closed
  BY <1>3, <1>5 DEF Live
<1>9. Good(b) /\ Moved(s, b) /\ Justly(s, b) /\ b.p = s.p /\ b.me.session = s.me.session
  BY <1>6, <1>8, ProxiesIs
<1> HIDE DEF b
<1>10. w \in Wire /\ w.kind \in case.browsing
  <2>1. Unused \in Wire
    BY FileShareAssumption DEF Unused, Wire, Item, Peer
  <2> QED BY <1>3, <2>1 DEF w, Wire
<1>11. Good(x) /\ Moved(b, x) /\ Justly(b, x)
  BY <1>9, <1>10, WithProxy
<1> HIDE DEF x
<1>12. Moved(h, b) /\ Justly(h, b)
  BY <1>5, <1>9, MovedTrans
<1>13. Moved(Here("receiver"), x) /\ (Justly(Here("receiver"), x) \/ Reason)
  BY <1>11, <1>12, MovedTrans DEF h
<1>14. share["receiver"].session # "INIT"
  BY <1>2, <1>3 DEF Live
<1> QED BY <1>1, <1>3, <1>7, <1>11, <1>13, <1>14, QuietTurn

\* The browser closes its connection.
LEMMA ProxyClosedKeeps ==
  ASSUME ShareInv, OnProxyClosed
  PROVE  ShareInv'
<1> DEFINE h == Here("receiver")
           wait == share["receiver"].state \in Complete /\ ~share["receiver"].closed
           k == [h.me EXCEPT !.proxies = {}, !.wait = wait]
           b == [h EXCEPT !.me = k]
           w == [wire["proxy"] EXCEPT !.gone = @ \cup {"receiver"}]
           x == [b EXCEPT !.wire = [b.wire EXCEPT !["proxy"] = w]]
<1>1. "receiver" \in Peer /\ Other("receiver") = "sender"
  BY Others DEF Peer
<1>2. /\ Good(h) /\ h.p = "receiver" /\ h.me = share["receiver"] /\ h.wire = wire
      /\ h.out = net["sender"] /\ h.place = place
  BY <1>1, HereIsReady DEF Here
<1>3. case' \in Case /\ case'.browsing = case.browsing
  BY NoFault DEF OnProxyClosed
<1>4. /\ wait \in BOOLEAN /\ {} \in SUBSET {"proxy"}
      /\ {} = {} \/ (h.me.session # "NULL" /\ ~h.me.closed)
  OBVIOUS
<1>5. /\ share' = [share EXCEPT !["receiver"] = k]
      /\ wire' = [wire EXCEPT !["proxy"] = w] /\ net' = net /\ place' = place
  BY <1>2 DEF OnProxyClosed
<1> HIDE DEF h, wait
<1>6. /\ Good(b) /\ Moved(h, b) /\ Justly(h, b) /\ b.p = h.p /\ b.out = h.out
      /\ b.wire = h.wire /\ b.place = h.place /\ b.me.session = h.me.session
  BY <1>2, <1>4, ProxiesIs
<1>7. b.me = k
  <2>1. h \in Entry
    BY <1>2 DEF Good, Sound, Loose
  <2> QED BY <2>1 DEF Entry
<1> HIDE DEF k, b
<1>8. w \in Wire /\ w.phase = wire["proxy"].phase /\ w.kind = wire["proxy"].kind
  <2>1. wire["proxy"] \in Wire
    BY DEF ShareInv, TypeOK, Conn
  <2> QED BY <1>1, <2>1, Leaving DEF Leave
<1> HIDE DEF w
<1>9. /\ Good(x) /\ Moved(b, x) /\ Justly(b, x) /\ x.out = b.out /\ x.me = b.me
      /\ x.place = b.place
  BY <1>2, <1>6, <1>8, WithProxy
<1>10. x.wire = [wire EXCEPT !["proxy"] = w]
  <2>1. b \in Entry
    BY <1>6 DEF Good, Sound, Loose
  <2> QED BY <1>2, <1>6, <2>1 DEF Entry
<1> HIDE DEF x
<1>11. Turn("receiver", x)
  <2>1. [net EXCEPT !["sender"] = net["sender"]] = net
    BY DEF ShareInv, TypeOK
  <2> QED BY <1>1, <1>2, <1>5, <1>6, <1>7, <1>9, <1>10, <2>1 DEF Turn
<1>12. Moved(Here("receiver"), x) /\ (Justly(Here("receiver"), x) \/ Reason)
  BY <1>6, <1>9, MovedTrans DEF h
<1>13. share["receiver"].session # "INIT"
         \/ (x.me.session = "INIT" /\ x.out = net[Other("receiver")])
  BY <1>1, <1>2, <1>6, <1>9
<1> QED BY <1>1, <1>3, <1>9, <1>11, <1>12, <1>13, QuietTurn

\* The timer of the last proxy.
LEMMA ProxyWaitKeeps ==
  ASSUME ShareInv, OnProxyWait
  PROVE  ShareInv'
<1> DEFINE h == Here("receiver")
           e == [h EXCEPT !.me = [h.me EXCEPT !.wait = FALSE]]
           closes == e.me.proxies = {} /\ e.me.state \in Complete /\ ~e.me.closed
           x == IF closes THEN DoClose(e, TRUE) ELSE e
<1>1. "receiver" \in Peer /\ Other("receiver") = "sender"
  BY Others DEF Peer
<1>2. /\ Good(h) /\ h.p = "receiver" /\ h.me = share["receiver"] /\ h.out = net["sender"]
  BY <1>1, HereIsReady DEF Here
<1>3. case' \in Case /\ case'.browsing = case.browsing
  BY NoFault DEF OnProxyWait
<1>4. [Here("receiver") EXCEPT !.me.wait = FALSE] = e
  OBVIOUS
<1>5. Turn("receiver", x)
  BY <1>4 DEF OnProxyWait
<1> HIDE DEF h
<1>6. /\ Good(e) /\ Moved(h, e) /\ Justly(h, e) /\ e.p = h.p /\ e.out = h.out
      /\ e.me.session = h.me.session
  <2> DEFINE k == [h.me EXCEPT !.wait = FALSE]
  <2>1. h.me \in ShareRecord
    BY <1>2, EntryFields DEF Good, Sound, Loose
  <2>2. k \in ShareRecord /\ Alike(h.me, k) /\ k.posted = h.me.posted /\ k.failed = h.me.failed
    BY <2>1 DEF ShareRecord, Alike
  <2> HIDE DEF k
  <2>3. Fit(k) /\ k.session = h.me.session
    BY <1>2, <2>2 DEF Good, Sound, Loose, Fit, Alike
  <2>4. LET y == [h EXCEPT !.me = k]
        IN Good(y) /\ Moved(h, y) /\ Justly(h, y) /\ y.p = h.p /\ y.out = h.out /\ y.me = k
    BY <1>2, <2>2, <2>3, AlikeGood
  <2> QED BY <2>3, <2>4 DEF k
<1> HIDE DEF e
<1>7. CASE ~closes
  <2>1. Moved(Here("receiver"), x) /\ (Justly(Here("receiver"), x) \/ Reason) /\ Good(x)
    BY <1>6, <1>7 DEF h
  <2>2. share["receiver"].session # "INIT"
         \/ (x.me.session = "INIT" /\ x.out = net[Other("receiver")])
    BY <1>1, <1>2, <1>6, <1>7
  <2> HIDE DEF x
  <2> QED BY <1>1, <1>3, <1>5, <2>1, <2>2, QuietTurn
<1>8. CASE closes
  <2>1. e.me.session \notin {"NULL", "INIT"} /\ Loose(e) /\ TRUE \in BOOLEAN
    BY <1>6, <1>8 DEF Good, Sound, Loose, Fit, Complete
  <2>2. /\ Loose(x) /\ Moved(e, x) /\ x.p = e.p
        /\ x.me.state = e.me.state /\ x.me.closed /\ ~x.me.counter
        /\ x.me.proxies = e.me.proxies
    BY <1>8, <2>1, DoCloseKeeps
  <2>3. closes
    BY <1>8
  <2> HIDE DEF x
  <2>4. Good(x) /\ Justly(e, x)
    BY <1>2, <1>6, <2>2, <2>3 DEF Good, Sound, Settled, Justly
  <2>5. Moved(Here("receiver"), x) /\ (Justly(Here("receiver"), x) \/ Reason)
    BY <1>6, <2>2, <2>4, MovedTrans DEF h
  <2>6. share["receiver"].session # "INIT"
    BY <1>2, <1>6, <2>1
  <2> QED BY <1>1, <1>3, <1>5, <2>4, <2>5, <2>6, QuietTurn
<1> QED BY <1>7, <1>8

-----------------------------------------------------------------------------
(* The channels and HTTP                                                     *)

\* An item, or what came instead, has arrived.
LEMMA DownloadedKeeps ==
  ASSUME ShareInv, Downloaded
  PROVE  ShareInv'
<1> DEFINE h == Here("receiver")
<1>1. "receiver" \in Peer
  BY DEF Peer
<1>2. Good(h) /\ h.p = "receiver" /\ h.me = share["receiver"] /\ h.wire = wire
  BY <1>1, HereIsReady DEF Here
<1>3. case' \in Case /\ case'.browsing = case.browsing
  BY NoFault DEF Downloaded
<1>4. h.me.counter /\ h.wire["private"].phase \in {"sent", "denied"}
  BY <1>2 DEF Downloaded
<1>5. PICK x \in OnHttpClientComplete(h) : Turn("receiver", x)
  BY DEF Downloaded
<1> HIDE DEF h
<1>6. Good(x) /\ Moved(h, x) /\ Justly(h, x) /\ h.me.session # "INIT"
  BY <1>2, <1>4, <1>5, CompleteKeeps
<1>7. Moved(Here("receiver"), x) /\ (Justly(Here("receiver"), x) \/ Reason)
  BY <1>6 DEF h
<1>8. share["receiver"].session # "INIT"
  BY <1>2, <1>6
<1> QED BY <1>1, <1>3, <1>5, <1>6, <1>7, <1>8, QuietTurn

\* The download breaks.
LEMMA BreaksKeeps ==
  ASSUME ShareInv, DownloadBreaks
  PROVE  ShareInv'
<1> DEFINE h == Here("receiver")
           b == HangUp(h)
           x == SetState(b, "FAILURE", FALSE)
<1>1. "receiver" \in Peer /\ "private" \in Conn /\ "proxy" \in Conn
  BY DEF Peer, Conn
<1>2. Good(h) /\ h.p = "receiver" /\ h.me = share["receiver"] /\ h \in Entry /\ h.me \in ShareRecord
  BY <1>1, HereIsReady, EntryFields DEF Here, Good, Sound, Loose
<1>3. case' \in Case /\ case'.browsing = case.browsing
  BY FaultKeeps DEF DownloadBreaks
<1>4. h.me.counter /\ Turn("receiver", x)
  BY <1>2 DEF DownloadBreaks
<1> HIDE DEF h
<1>5. h.me.state = "TRANSFER" /\ h.me.session \notin {"NULL", "INIT"}
  BY <1>2, <1>4 DEF Good, Sound, Loose, Fit, Settled, Complete
<1> DEFINE k == [h.me EXCEPT !.counter = FALSE, !.serving = "none"]
<1>6. /\ b \in Entry /\ b.p = h.p /\ b.out = h.out /\ Requests(h, b) /\ b.me = k
  BY <1>2, HangUpIs
<1>7. /\ k.session = h.me.session /\ k.posted = h.me.posted /\ k.failed = h.me.failed
      /\ k.state = h.me.state /\ k.closed = h.me.closed /\ k.localCancel = h.me.localCancel
      /\ k.item = h.me.item /\ ~k.counter /\ k.serving = "none"
      /\ k.proxies = h.me.proxies /\ k.asserted = h.me.asserted
  BY <1>2, Hung
<1> HIDE DEF b, k
<1>8. Fit(b.me)
  BY <1>2, <1>6, <1>7 DEF Good, Sound, Loose, Fit
<1>9. /\ b.wire["private"].phase = h.wire["private"].phase
      /\ b.wire["proxy"].phase = h.wire["proxy"].phase
      /\ b.wire["proxy"].kind = h.wire["proxy"].kind
  BY <1>1, <1>6 DEF Requests
<1>10. Sound(b)
  BY <1>2, <1>6, <1>7, <1>8, <1>9 DEF Good, Sound, Loose, Settled
<1>11. Moved(h, b) /\ Justly(h, b)
  BY <1>6, <1>7, <1>9 DEF Moved, Went, Served, Justly, Quit, Blamed
<1>12. /\ "FAILURE" \in Complete /\ "FAILURE" # "COMPLETE" /\ b.me.state \notin Complete
       /\ b.me.session \notin {"NULL", "INIT"} /\ b.p = "receiver"
  BY <1>2, <1>5, <1>6, <1>7 DEF Complete
<1>13. b.p = "sender" => Quit(b.me)
  BY <1>12
<1>14. Sound(x) /\ Moved(b, x) /\ Justly(b, x) /\ x.me.state = "FAILURE"
  BY <1>10, <1>12, <1>13, FinishKeeps
<1> HIDE DEF x
<1>15. Good(x)
  BY <1>12, <1>14 DEF Good
<1>16. Moved(Here("receiver"), x) /\ (Justly(Here("receiver"), x) \/ Reason)
  BY <1>11, <1>14, MovedTrans DEF h
<1>17. share["receiver"].session # "INIT"
  BY <1>2, <1>5
<1> QED BY <1>1, <1>3, <1>4, <1>15, <1>16, <1>17, QuietTurn

\* What the server does to the sender's share and the channels, when one original is
\* served at a time.
LEMMA ServerKeeps ==
  ASSUME ShareInv, NEW me \in ShareRecord, NEW wires \in [Conn -> Wire],
         share' = [share EXCEPT !["sender"] = me], wire' = wires, UNCHANGED <<net, place>>,
         case' \in Case, case'.browsing = case.browsing,
         me.session = sender.session, me.posted = sender.posted, me.failed = sender.failed,
         me.state = sender.state, me.closed = sender.closed,
         me.localCancel = sender.localCancel, me.proxies = sender.proxies,
         me.serving # "none" => me.item < Len(Sizes),
         wire["private"].phase = "idle" => wires["private"].phase = "idle",
         OneOriginal'
  PROVE  ShareInv'
<1> DEFINE h == Here("sender")
           b == [h EXCEPT !.me = me]
           x == [b EXCEPT !.wire = wires]
<1>1. "sender" \in Peer /\ Other("sender") = "receiver"
  BY Others DEF Peer
<1>2. /\ Good(h) /\ Ready("sender", h) /\ h.p = "sender" /\ h.me = sender /\ h.wire = wire
      /\ h.out = net["receiver"] /\ h.place = place /\ h \in Entry
  BY <1>1, HereIsReady DEF Here, sender, Good, Sound, Loose
<1> HIDE DEF h
<1>3. b \in Entry /\ b.p = h.p /\ b.me = me /\ b.out = h.out /\ b.place = h.place
  BY <1>2, WithShare
<1> HIDE DEF b
<1>4. x \in Entry /\ x.p = b.p /\ x.me = me /\ x.out = b.out /\ x.place = b.place /\ x.wire = wires
  BY <1>3 DEF Entry
<1> HIDE DEF x
<1>5. Fit(x.me)
  BY <1>2, <1>4 DEF Good, Sound, Loose, Fit
<1>6. Good(x)
  BY <1>2, <1>3, <1>4, <1>5 DEF Good, Sound, Loose, Settled, Quit
<1>7. Went(h, x) /\ Justly(h, x)
  BY <1>2, <1>3, <1>4 DEF Went, Justly, Quit, Blamed
<1>8. Turn("sender", x)
  <2>1. [net EXCEPT !["receiver"] = net["receiver"]] = net
    BY DEF ShareInv, TypeOK
  <2> QED BY <1>1, <1>2, <1>3, <1>4, <2>1 DEF Turn
<1>9. Makes("sender", x, net["sender"])
  BY <1>1, <1>8, TurnMakes
<1>10. x.me.session = "INIT" => x.out = <<>>
  BY <1>2, <1>3, <1>4 DEF ShareInv
<1>11. /\ "sender" = "receiver" /\ share["sender"].session = "INIT" /\ x.me.session # "INIT"
            => net["sender"] # net["sender"]
       /\ "sender" = "sender" /\ x.me.session = "INIT" => x.out = <<>>
  BY <1>10
<1> QED BY <1>1, <1>2, <1>6, <1>7, <1>9, <1>11, TurnKeeps

\* The sender's share, and what is asked on the channels.
LEMMA SenderFields ==
  ASSUME ShareInv
  PROVE  /\ sender \in ShareRecord /\ wire \in [Conn -> Wire] /\ share \in [Peer -> ShareRecord]
         /\ sender.serving # "none" => sender.item < Len(Sizes)
         /\ "sender" \in Peer /\ "private" \in Conn /\ "proxy" \in Conn
<1>1. "sender" \in Peer /\ "private" \in Conn /\ "proxy" \in Conn
  BY DEF Peer, Conn
<1>2. sender \in ShareRecord /\ wire \in [Conn -> Wire] /\ share \in [Peer -> ShareRecord]
  BY <1>1 DEF ShareInv, TypeOK, sender
<1>3. Fit(sender)
  BY <1>1 DEF ShareInv, Good, Sound, Loose, Here, sender
<1> QED BY <1>1, <1>2, <1>3 DEF Fit

\* A channel opens.
LEMMA OpensKeeps ==
  ASSUME ShareInv, NEW c \in Conn, ChannelOpens(c)
  PROVE  ShareInv'
<1> DEFINE w == [wire[c] EXCEPT !.channel = "open"]
           wires == [wire EXCEPT ![c] = w]
<1>1. /\ wire' = wires /\ UNCHANGED <<share, net, place>>
      /\ case' \in Case /\ case'.browsing = case.browsing
  BY NoFault DEF ChannelOpens
<1>2. w \in Wire /\ w.phase = wire[c].phase /\ w.kind = wire[c].kind
  BY SenderFields DEF Wire
<1> HIDE DEF w
<1>3. /\ wires \in [Conn -> Wire]
      /\ \A d \in Conn : wires[d].phase = wire[d].phase /\ wires[d].kind = wire[d].kind
  BY <1>2, SenderFields
<1> HIDE DEF wires
<1>4. share' = [share EXCEPT !["sender"] = sender]
  BY <1>1, SenderFields DEF sender
<1>5. OneOriginal'
  BY <1>1, <1>3, SenderFields DEF ShareInv, OneOriginal, sender
<1>6. wire["private"].phase = "idle" => wires["private"].phase = "idle"
  BY <1>3, SenderFields
<1> QED BY <1>1, <1>3, <1>4, <1>5, <1>6, SenderFields, ServerKeeps

\* An original is asked for: it is the only one, or there is no such item any more.
LEMMA RequestKeeps ==
  ASSUME ShareInv, NEW c \in Conn, OnHttpRequest(c)
  PROVE  ShareInv'
<1>1. /\ UNCHANGED <<net, place>> /\ case' \in Case /\ case'.browsing = case.browsing
  BY NoFault DEF OnHttpRequest
<1>2. wire[c] \in Wire /\ wire[c].phase = "asked" /\ wire[c].kind = "original"
  BY SenderFields DEF OnHttpRequest, Asked
<1>3. "original" \notin case.browsing =>
        c = "private" /\ ~sender.counter
  BY <1>2, SenderFields DEF ShareInv, OneOriginal, Conn
<1>4. CASE share' = share /\ wire' = [wire EXCEPT ![c].phase = "denied"]
  <2> DEFINE w == [wire[c] EXCEPT !.phase = "denied"]
             wires == [wire EXCEPT ![c] = w]
  <2>1. wire' = wires
    BY <1>4
  <2>2. w \in Wire /\ w.phase = "denied" /\ w.kind = "original"
    BY <1>2 DEF Wire
  <2> HIDE DEF w
  <2>3. wires \in [Conn -> Wire] /\ wires[c] = w /\ \A d \in Conn \ {c} : wires[d] = wire[d]
    BY <2>2, SenderFields
  <2> HIDE DEF wires
  <2>4. share' = [share EXCEPT !["sender"] = sender]
    BY <1>4, SenderFields DEF sender
  <2>5. OneOriginal'
    BY <1>1, <1>3, <1>4, <2>1, <2>3, SenderFields DEF ShareInv, OneOriginal, sender
  <2>6. wire["private"].phase = "idle" => wires["private"].phase = "idle"
    BY <1>2, <2>3, SenderFields
  <2> QED BY <1>1, <2>1, <2>3, <2>4, <2>5, <2>6, SenderFields, ServerKeeps
<1>5. CASE /\ share' = [share EXCEPT !["sender"].asserted =
                                        IF share["sender"].counter THEN @ \cup {"share"} ELSE @,
                                     !["sender"].counter = TRUE, !["sender"].serving = c,
                                     !["sender"].item = wire[c].want - 1]
           /\ wire' = [wire EXCEPT ![c].phase = "serving"]
  <2> DEFINE w == [wire[c] EXCEPT !.phase = "serving"]
             wires == [wire EXCEPT ![c] = w]
             asserted == IF sender.counter THEN sender.asserted \cup {"share"} ELSE sender.asserted
             item == wire[c].want - 1
             me == [sender EXCEPT !.asserted = asserted, !.counter = TRUE, !.serving = c, !.item = item]
  <2>1. wire' = wires
    BY <1>5
  <2>2. share' = [share EXCEPT !["sender"] = me]
    BY <1>5, SenderFields DEF sender
  <2>3. w \in Wire /\ w.phase = "serving" /\ w.kind = "original"
    BY <1>2 DEF Wire
  <2> HIDE DEF w
  <2>4. wires \in [Conn -> Wire] /\ wires[c] = w /\ \A d \in Conn \ {c} : wires[d] = wire[d]
    BY <2>3, SenderFields
  <2> HIDE DEF wires
  <2>5. item \in 0 .. Len(Sizes) /\ item < Len(Sizes)
    <3>1. wire[c].want \in 1 .. Len(Sizes) /\ Len(Sizes) \in Nat
      BY <1>2, FileShareAssumption, LenProperties DEF Wire, Item
    <3> QED BY <3>1
  <2>6. asserted \in SUBSET {"share", "http"}
        /\ (~sender.counter => asserted = sender.asserted)
    BY SenderFields, ShareFields
  <2> HIDE DEF asserted, item
  <2>7. /\ me \in ShareRecord /\ me.session = sender.session /\ me.posted = sender.posted
        /\ me.failed = sender.failed /\ me.state = sender.state /\ me.closed = sender.closed
        /\ me.localCancel = sender.localCancel /\ me.proxies = sender.proxies
        /\ me.serving = c /\ me.item = item /\ me.asserted = asserted
    BY <2>5, <2>6, SenderFields DEF ShareRecord
  <2> HIDE DEF me
  <2>8. share'["sender"] = me /\ \A p \in Peer \ {"sender"} : share'[p] = share[p]
    BY <2>2, SenderFields
  <2>9. OneOriginal'
    <3>1. SUFFICES ASSUME "original" \notin case.browsing
          PROVE  /\ \A p \in Peer : "share" \notin share'[p].asserted
                 /\ share'["sender"].serving = "private" /\ wire'["private"].phase = "serving"
                 /\ wire'["proxy"].phase # "idle" => wire'["proxy"].kind = "preview"
      BY <1>1 DEF OneOriginal, sender
    <3>2. /\ c = "private" /\ asserted = sender.asserted
      BY <1>3, <2>6, <3>1
    <3>3. /\ \A p \in Peer : "share" \notin share[p].asserted
          /\ wire["proxy"].phase # "idle" => wire["proxy"].kind = "preview"
      BY <3>1 DEF ShareInv, OneOriginal
    <3> QED BY <2>1, <2>3, <2>4, <2>7, <2>8, <3>2, <3>3, SenderFields DEF sender
  <2>10. wire["private"].phase = "idle" => wires["private"].phase = "idle"
    BY <1>2, <2>4, SenderFields
  <2>11. me.serving # "none" => me.item < Len(Sizes)
    BY <2>5, <2>7
  <2> QED BY <1>1, <2>1, <2>2, <2>4, <2>7, <2>9, <2>10, <2>11, ServerKeeps
<1> QED BY <1>4, <1>5 DEF OnHttpRequest

\* A preview is answered, twice.
LEMMA PreviewKeeps ==
  ASSUME ShareInv, NEW c \in Conn, OnPreviewRequest(c)
  PROVE  ShareInv'
<1> DEFINE w == [wire[c] EXCEPT !.phase = "sent"]
           wires == [wire EXCEPT ![c] = w]
           asserted == sender.asserted \cup {"http"}
           me == [sender EXCEPT !.asserted = asserted]
<1>1. /\ UNCHANGED <<net, place>> /\ case' \in Case /\ case'.browsing = case.browsing
      /\ wire' = wires
  BY NoFault DEF OnPreviewRequest
<1>2. wire[c] \in Wire /\ wire[c].phase = "asked" /\ wire[c].kind = "preview"
  BY SenderFields DEF OnPreviewRequest, Asked
<1>3. share' = [share EXCEPT !["sender"] = me]
  BY SenderFields DEF OnPreviewRequest, sender
<1>4. w \in Wire /\ w.phase = "sent" /\ w.kind = "preview"
  BY <1>2 DEF Wire
<1> HIDE DEF w
<1>5. wires \in [Conn -> Wire] /\ wires[c] = w /\ \A d \in Conn \ {c} : wires[d] = wire[d]
  BY <1>4, SenderFields
<1> HIDE DEF wires
<1>6. asserted \in SUBSET {"share", "http"} /\ ("share" \in asserted => "share" \in sender.asserted)
  BY SenderFields, ShareFields
<1> HIDE DEF asserted
<1>7. /\ me \in ShareRecord /\ me.session = sender.session /\ me.posted = sender.posted
      /\ me.failed = sender.failed /\ me.state = sender.state /\ me.closed = sender.closed
      /\ me.localCancel = sender.localCancel /\ me.proxies = sender.proxies
      /\ me.serving = sender.serving /\ me.item = sender.item /\ me.asserted = asserted
      /\ me.counter = sender.counter
  BY <1>6, SenderFields DEF ShareRecord
<1> HIDE DEF me
<1>8. share'["sender"] = me /\ \A p \in Peer \ {"sender"} : share'[p] = share[p]
  BY <1>3, SenderFields
<1>9. OneOriginal'
  <2>1. SUFFICES ASSUME "original" \notin case.browsing
        PROVE  /\ \A p \in Peer : "share" \notin share'[p].asserted
               /\ share'["sender"].counter =>
                    share'["sender"].serving = "private" /\ wire'["private"].phase = "serving"
               /\ wire'["proxy"].phase # "idle" => wire'["proxy"].kind = "preview"
    BY <1>1 DEF OneOriginal, sender
  <2>2. /\ \A p \in Peer : "share" \notin share[p].asserted
        /\ sender.counter => sender.serving = "private" /\ wire["private"].phase = "serving"
        /\ wire["proxy"].phase # "idle" => wire["proxy"].kind = "preview"
    BY <2>1 DEF ShareInv, OneOriginal
  <2>3. \A p \in Peer : "share" \notin share'[p].asserted
    BY <1>6, <1>7, <1>8, <2>2, SenderFields DEF sender
  <2>4. sender.counter => c # "private"
    BY <1>2, <2>2
  <2>5. share'["sender"].counter =>
          share'["sender"].serving = "private" /\ wire'["private"].phase = "serving"
    BY <1>1, <1>5, <1>7, <1>8, <2>2, <2>4, SenderFields
  <2>6. wire'["proxy"].phase # "idle" => wire'["proxy"].kind = "preview"
    BY <1>1, <1>4, <1>5, <2>2, SenderFields
  <2> QED BY <2>3, <2>5, <2>6
<1>10. wire["private"].phase = "idle" => wires["private"].phase = "idle"
  BY <1>2, <1>5, SenderFields
<1>11. me.serving # "none" => me.item < Len(Sizes)
  BY <1>7, SenderFields
<1> QED BY <1>1, <1>3, <1>5, <1>7, <1>9, <1>10, <1>11, ServerKeeps

\* The sender's share when a request is over.
LEMMA DoneIs ==
  ASSUME ShareInv, NEW c \in Conn, NEW complete \in BOOLEAN
  PROVE  LET me == RequestDone(sender, c, complete)
         IN /\ me \in ShareRecord /\ me.session = sender.session /\ me.posted = sender.posted
            /\ me.failed = sender.failed /\ me.state = sender.state /\ me.closed = sender.closed
            /\ me.localCancel = sender.localCancel /\ me.proxies = sender.proxies
            /\ me.asserted = sender.asserted
            /\ me.serving # "none" => me.item < Len(Sizes)
            /\ me.counter => sender.counter /\ me.serving = sender.serving /\ sender.serving # c
<1> DEFINE me == RequestDone(sender, c, complete)
<1>1. CASE sender.serving # c
  <2>1. me = sender
    BY <1>1 DEF RequestDone
  <2> QED BY <1>1, <2>1, SenderFields
<1>2. CASE sender.serving = c
  <2> DEFINE bytes == IF complete THEN sender.bytes + Sizes[sender.item + 1] ELSE sender.bytes
             k == [sender EXCEPT !.counter = FALSE, !.serving = "none", !.bytes = bytes]
  <2>1. me = k
    BY <1>2 DEF RequestDone
  <2>2. c # "none"
    BY DEF Conn
  <2>3. bytes \in Nat
    <3>1. sender.item \in 0 .. Len(Sizes) /\ sender.item < Len(Sizes) /\ sender.bytes \in Nat
      BY <1>2, <2>2, SenderFields, ShareFields
    <3>2. Len(Sizes) \in Nat
      BY FileShareAssumption, LenProperties
    <3>3. Sizes[sender.item + 1] \in Nat
      BY <3>1, <3>2, FileShareAssumption, ElementOfSeq
    <3> QED BY <3>1, <3>3
  <2> HIDE DEF bytes
  <2>4. /\ k \in ShareRecord /\ k.session = sender.session /\ k.posted = sender.posted
        /\ k.failed = sender.failed /\ k.state = sender.state /\ k.closed = sender.closed
        /\ k.localCancel = sender.localCancel /\ k.proxies = sender.proxies
        /\ k.asserted = sender.asserted /\ ~k.counter /\ k.serving = "none"
    BY <2>3, SenderFields DEF ShareRecord
  <2> HIDE DEF k, me
  <2> QED BY <2>1, <2>4 DEF me
<1> QED BY <1>1, <1>2

\* A request is over, by which nothing is served that was not.
LEMMA OverKeeps ==
  ASSUME ShareInv, NEW c \in Conn, NEW complete \in BOOLEAN, NEW w \in Wire,
         share' = [share EXCEPT !["sender"] = RequestDone(sender, c, complete)],
         wire' = [wire EXCEPT ![c] = w], UNCHANGED <<net, place>>,
         case' \in Case, case'.browsing = case.browsing,
         w.kind = wire[c].kind, w.phase = wire[c].phase \/ wire[c].phase # "idle"
  PROVE  ShareInv'
<1> DEFINE me == RequestDone(sender, c, complete)
           wires == [wire EXCEPT ![c] = w]
<1>1. /\ me \in ShareRecord /\ me.session = sender.session /\ me.posted = sender.posted
      /\ me.failed = sender.failed /\ me.state = sender.state /\ me.closed = sender.closed
      /\ me.localCancel = sender.localCancel /\ me.proxies = sender.proxies
      /\ me.asserted = sender.asserted
      /\ me.serving # "none" => me.item < Len(Sizes)
      /\ me.counter => sender.counter /\ me.serving = sender.serving /\ sender.serving # c
  BY DoneIs
<1>2. wires \in [Conn -> Wire] /\ wires[c] = w /\ \A d \in Conn \ {c} : wires[d] = wire[d]
  BY SenderFields
<1>3. share' = [share EXCEPT !["sender"] = me] /\ wire' = wires
  OBVIOUS
<1> HIDE DEF me, wires
<1>4. share'["sender"] = me /\ \A p \in Peer \ {"sender"} : share'[p] = share[p]
  BY <1>3, SenderFields
<1>5. OneOriginal'
  <2>1. SUFFICES ASSUME "original" \notin case.browsing
        PROVE  /\ \A p \in Peer : "share" \notin share'[p].asserted
               /\ share'["sender"].counter =>
                    share'["sender"].serving = "private" /\ wire'["private"].phase = "serving"
               /\ wire'["proxy"].phase # "idle" => wire'["proxy"].kind = "preview"
    BY DEF OneOriginal, sender
  <2>2. /\ \A p \in Peer : "share" \notin share[p].asserted
        /\ sender.counter => sender.serving = "private" /\ wire["private"].phase = "serving"
        /\ wire["proxy"].phase # "idle" => wire["proxy"].kind = "preview"
    BY <2>1 DEF ShareInv, OneOriginal
  <2>3. \A p \in Peer : "share" \notin share'[p].asserted
    BY <1>1, <1>4, <2>2, SenderFields DEF sender
  <2>4. share'["sender"].counter =>
          share'["sender"].serving = "private" /\ wire'["private"].phase = "serving"
    BY <1>1, <1>2, <1>3, <1>4, <2>2, SenderFields
  <2>5. wire'["proxy"].phase # "idle" => wire'["proxy"].kind = "preview"
    BY <1>2, <1>3, <2>2, SenderFields
  <2> QED BY <2>3, <2>4, <2>5
<1>6. wire["private"].phase = "idle" => wires["private"].phase = "idle"
  BY <1>2, SenderFields
<1> QED BY <1>1, <1>2, <1>3, <1>5, <1>6, ServerKeeps

\* The last byte of an answer is written.
LEMMA RequestCompleteKeeps ==
  ASSUME ShareInv, NEW c \in Conn, OnHttpRequestComplete(c)
  PROVE  ShareInv'
<1> DEFINE w == [wire[c] EXCEPT !.phase = "sent"]
<1>1. /\ UNCHANGED <<net, place>> /\ case' \in Case /\ case'.browsing = case.browsing
      /\ wire' = [wire EXCEPT ![c] = w] /\ wire[c].phase # "idle"
  BY NoFault DEF OnHttpRequestComplete
<1>2. w \in Wire /\ w.kind = wire[c].kind
  BY SenderFields DEF Wire
<1>3. share' = [share EXCEPT !["sender"] = RequestDone(sender, c, TRUE)]
  BY DEF OnHttpRequestComplete, sender
<1> HIDE DEF w
<1>4. TRUE \in BOOLEAN /\ (w.phase = wire[c].phase \/ wire[c].phase # "idle")
  BY <1>1
<1> QED BY <1>1, <1>2, <1>3, <1>4, OverKeeps

\* A stream breaks at the sender.
LEMMA StreamClosedKeeps ==
  ASSUME ShareInv, NEW c \in Conn, OnServerStreamClosed(c)
  PROVE  ShareInv'
<1> DEFINE w == [wire[c] EXCEPT !.gone = @ \cup {"sender"}]
<1>1. UNCHANGED <<net, place>> /\ wire' = [wire EXCEPT ![c] = w]
  BY DEF OnServerStreamClosed
<1>2. case' \in Case /\ case'.browsing = case.browsing
  BY NoFault, FaultKeeps DEF OnServerStreamClosed
<1>3. w \in Wire /\ w.kind = wire[c].kind /\ w.phase = wire[c].phase
  BY SenderFields, Leaving DEF Leave
<1>4. share' = [share EXCEPT !["sender"] = RequestDone(sender, c, FALSE)]
  BY DEF OnServerStreamClosed, sender
<1> HIDE DEF w
<1>5. FALSE \in BOOLEAN /\ (w.phase = wire[c].phase \/ wire[c].phase # "idle")
  BY <1>3
<1> QED BY <1>1, <1>2, <1>3, <1>4, <1>5, OverKeeps

-----------------------------------------------------------------------------
(* Every step keeps it                                                        *)

\* Nothing has happened.
LEMMA InitIsFit ==
  ASSUME Init
  PROVE  ShareInv
<1>1. Blank \in ShareRecord
  <2>1. <<>> \in Seq({"state", "error"}) /\ 0 \in 0 .. Len(Sizes)
    BY FileShareAssumption, LenProperties
  <2> QED BY <2>1 DEF Blank, ShareRecord
<1>2. Unused \in Wire
  BY FileShareAssumption, LenProperties, EmptySeq DEF Unused, Wire, Item, Peer
<1>3. TypeOK
  <2>1. <<>> \in Seq(Stanza)
    OBVIOUS
  <2> QED BY <1>1, <1>2, <2>1 DEF Init, TypeOK
<1>4. CaseOK
  BY FileShareAssumption DEF Init, CaseOK, Case
<1>5. ASSUME NEW p \in Peer
      PROVE  /\ share[p] = Blank /\ net[p] = <<>> /\ Good(Here(p))
             /\ "share" \notin share[p].asserted /\ ~Quit(share[p]) /\ ~Ends(net[Other(p)])
  <2>1. Other(p) \in Peer
    BY Others
  <2>2. share[p] = Blank /\ net[p] = <<>> /\ net[Other(p)] = <<>>
    BY <2>1 DEF Init
  <2>3. Here(p) \in Entry
    BY <1>3, <2>1 DEF TypeOK, Here, Entry
  <2>4. Fit(Blank)
    BY DEF Fit, Blank
  <2>5. wire["private"].phase = "idle"
    BY DEF Init, Conn, Unused
  <2>6. Good(Here(p))
    BY <2>2, <2>3, <2>4, <2>5 DEF Good, Sound, Loose, Settled, Here, Blank, Quit
  <2>7. "share" \notin share[p].asserted /\ ~Quit(share[p])
    BY <2>2 DEF Blank, Quit
  <2>8. ~Ends(net[Other(p)])
    BY <2>2 DEF Ends
  <2> QED BY <2>2, <2>6, <2>7, <2>8
<1>6. "sender" \in Peer /\ "receiver" \in Peer
  BY DEF Peer
<1>7. NoOffer(<<>>) /\ Late(<<>>)
  BY DEF NoOffer, Late
<1>8. OneOriginal
  BY <1>5, <1>6 DEF OneOriginal, Init, Unused, Conn, sender, Blank
<1>9. receiver.session = "INIT" /\ net["receiver"] = <<>> /\ net["sender"] = <<>>
  BY <1>5, <1>6 DEF receiver, Blank
<1> QED BY <1>3, <1>4, <1>5, <1>7, <1>8, <1>9 DEF ShareInv

\* Nothing happens.
LEMMA StutterKeeps ==
  ASSUME ShareInv, UNCHANGED vars
  PROVE  ShareInv'
BY DEF ShareInv, vars, TypeOK, CaseOK, Here, OneOriginal, Reason, sender, receiver

\* Whatever happens.
LEMMA NextKeeps ==
  ASSUME ShareInv, [Next]_vars
  PROVE  ShareInv'
<1>1. CASE Share
  BY <1>1, ShareKeeps
<1>2. CASE Accept
  BY <1>2, AcceptKeeps
<1>3. CASE Decline
  BY <1>3, DeclineKeeps
<1>4. CASE OnProxyClosed
  BY <1>4, ProxyClosedKeeps
<1>5. CASE OnProxyWait
  BY <1>5, ProxyWaitKeeps
<1>6. CASE Downloaded
  BY <1>6, DownloadedKeeps
<1>7. CASE DownloadBreaks
  BY <1>7, BreaksKeeps
<1>8. ASSUME NEW p \in Peer, Receive(p) PROVE ShareInv'
  BY <1>8, ReceiveKeeps
<1>9. ASSUME NEW p \in Peer, RequestFails(p) PROVE ShareInv'
  BY <1>9, RequestFailsKeeps
<1>10. ASSUME NEW p \in Peer, Lose(p) PROVE ShareInv'
  BY <1>10, FaultKeeps, RefusedKeeps DEF Lose
<1>11. ASSUME NEW p \in Peer, OnSessionMessage(p) PROVE ShareInv'
  BY <1>11, MessageKeeps
<1>12. ASSUME NEW p \in Peer, Unwritable(p) PROVE ShareInv'
  BY <1>12, NoFault, ErrorTurn DEF Unwritable
<1>13. ASSUME NEW p \in Peer, SessionFails(p) PROVE ShareInv'
  BY <1>13, FaultKeeps, ErrorTurn DEF SessionFails
<1>14. ASSUME NEW p \in Peer, Cancel(p) PROVE ShareInv'
  BY <1>14, CancelKeeps
<1>15. ASSUME NEW kind \in {"original", "preview"}, NEW i \in Item, Browse(kind, i) PROVE ShareInv'
  BY <1>15, BrowseKeeps
<1>16. ASSUME NEW c \in Conn, ChannelOpens(c) PROVE ShareInv'
  BY <1>16, OpensKeeps
<1>17. ASSUME NEW c \in Conn, OnHttpRequest(c) PROVE ShareInv'
  BY <1>17, RequestKeeps
<1>18. ASSUME NEW c \in Conn, OnPreviewRequest(c) PROVE ShareInv'
  BY <1>18, PreviewKeeps
<1>19. ASSUME NEW c \in Conn, OnHttpRequestComplete(c) PROVE ShareInv'
  BY <1>19, RequestCompleteKeeps
<1>20. ASSUME NEW c \in Conn, OnServerStreamClosed(c) PROVE ShareInv'
  BY <1>20, StreamClosedKeeps
<1>21. CASE UNCHANGED vars
  BY <1>21, StutterKeeps
<1> QED BY <1>1, <1>2, <1>3, <1>4, <1>5, <1>6, <1>7, <1>8, <1>9, <1>10, <1>11, <1>12, <1>13,
           <1>14, <1>15, <1>16, <1>17, <1>18, <1>19, <1>20, <1>21 DEF Next

\* In every state each share is as its session and its downloads allow, one peer's ends
\* and offers are no news to what the other has kept of them, and sessions end for a
\* reason.
THEOREM ShareInvariant == Spec => []ShareInv
BY InitIsFit, NextKeeps, PTL DEF Spec

\* Every variable keeps its type.
THEOREM TypeInvariant == Spec => []TypeOK
<1>1. ShareInv => TypeOK
  BY DEF ShareInv
<1> QED BY <1>1, ShareInvariant, PTL

\* When the browser is shown previews only, none of the share's own assertions fails:
\* a completion is entered once, the share is closed once, complete and with its
\* session, and one original is served at a time.
THEOREM NoAssertFails ==
  ASSUME \A k \in Cases : "original" \notin k.browsing
  PROVE  Spec => []NoAssert
<1>1. ShareInv => NoAssert
  <2>1. SUFFICES ASSUME ShareInv PROVE NoAssert
    OBVIOUS
  <2>2. "original" \notin case.browsing
    BY <2>1 DEF ShareInv, CaseOK
  <2> QED BY <2>1, <2>2 DEF ShareInv, OneOriginal, NoAssert
<1> QED BY <1>1, ShareInvariant, PTL

\* While a proxy of a receiver that has completed is open, both sessions live on, unless
\* one of them had an error or its user gave it up.
THEOREM PreviewsAreKept == Spec => []PreviewsSurvive
<1>1. ShareInv => PreviewsSurvive
  <2>1. SUFFICES ASSUME ShareInv, receiver.state = "COMPLETE", receiver.proxies # {},
                        \A p \in Peer : ~share[p].failed /\ ~share[p].localCancel
                 PROVE  \A p \in Peer : share[p].session \in Live
    BY DEF PreviewsSurvive
  <2>2. "receiver" \in Peer /\ Peer = {"sender", "receiver"}
    BY DEF Peer
  <2>3. Good(Here("receiver")) /\ Here("receiver").p = "receiver"
        /\ Here("receiver").me = receiver
    BY <2>1, <2>2 DEF ShareInv, Here, receiver
  <2>4. ~receiver.closed /\ receiver.session # "INIT"
    BY <2>1, <2>3 DEF Good, Sound, Loose, Settled, Fit
  <2>5. sender.session # "INIT"
    BY <2>1, <2>4 DEF ShareInv
  <2>6. ~Reason
    BY <2>1, <2>4 DEF Reason, Blamed
  <2>7. \A p \in Peer : share[p].session \in Live \cup {"INIT"}
    BY <2>1, <2>6 DEF ShareInv, Quit
  <2> QED BY <2>2, <2>4, <2>5, <2>7 DEF sender, receiver
<1> QED BY <1>1, ShareInvariant, PTL

-----------------------------------------------------------------------------
(* What is accounted for                                                      *)

\* Stanzas of this type are among them.
Says(s, type) == \E i \in DOMAIN s : s[i].type = type

\* A share that has ended otherwise than well.
Failed == Complete \ {"COMPLETE"}

\* A share that has not transferred anything since, nor lost the blame.
Steady(a, b) ==
  /\ b.item = a.item /\ b.bytes = a.bytes
  /\ b.counter => a.counter
  /\ Blamed(a) => Blamed(b)
  /\ a.state \in Complete => b.state = a.state

\* An entry that has not: who stops serving an open channel has closed it, and who gives
\* up a download spoils the item's place.
Still(e, f) ==
  /\ f.p = e.p /\ Steady(e.me, f.me)
  /\ LET v == e.wire["private"] w == f.wire["private"]
     IN /\ w.phase = v.phase /\ w.want = v.want /\ w.kind = v.kind /\ v.gone \subseteq w.gone
        /\ v.channel \in {"opening", "open"} => w.channel \in {"opening", "open"}
        /\ \/ f.me.serving = e.me.serving
           \/ /\ f.me.serving = "none"
              /\ e.p = "sender" /\ v.channel \in {"opening", "open"} => "sender" \in w.gone
  /\ \A i \in Item : \/ f.place[i] = e.place[i]
                     \/ e.p = "receiver" /\ e.me.counter /\ i = e.wire["private"].want

\* Nor has it said so.
Silent(e, f) == \A type \in {"reject", "complete"} : Says(f.out, type) => Says(e.out, type)

\* An entry that has done neither.
Calm(e, f) == Still(e, f) /\ Silent(e, f)

\* What is still twice is still.
LEMMA StillTrans ==
  ASSUME NEW e, NEW f, NEW g, Still(e, f), Still(f, g)
  PROVE  Still(e, g)
<1>1. f.p = e.p /\ g.p = f.p /\ Steady(e.me, f.me) /\ Steady(f.me, g.me)
  BY DEF Still
<1>2. Steady(e.me, g.me)
  BY <1>1 DEF Steady
<1> DEFINE u == e.wire["private"]
           v == f.wire["private"]
           w == g.wire["private"]
<1>3. /\ v.phase = u.phase /\ v.want = u.want /\ v.kind = u.kind /\ u.gone \subseteq v.gone
      /\ u.channel \in {"opening", "open"} => v.channel \in {"opening", "open"}
      /\ f.me.serving = e.me.serving
           \/ (f.me.serving = "none"
                /\ (e.p = "sender" /\ u.channel \in {"opening", "open"} => "sender" \in v.gone))
  BY DEF Still
<1>4. /\ w.phase = v.phase /\ w.want = v.want /\ w.kind = v.kind /\ v.gone \subseteq w.gone
      /\ v.channel \in {"opening", "open"} => w.channel \in {"opening", "open"}
      /\ g.me.serving = f.me.serving
           \/ (g.me.serving = "none"
                /\ (f.p = "sender" /\ v.channel \in {"opening", "open"} => "sender" \in w.gone))
  BY DEF Still
<1>5. /\ w.phase = u.phase /\ w.want = u.want /\ w.kind = u.kind /\ u.gone \subseteq w.gone
      /\ u.channel \in {"opening", "open"} => w.channel \in {"opening", "open"}
      /\ g.me.serving = e.me.serving
           \/ (g.me.serving = "none"
                /\ (e.p = "sender" /\ u.channel \in {"opening", "open"} => "sender" \in w.gone))
  <2> HIDE DEF u, v, w
  <2> QED BY <1>1, <1>3, <1>4
<1>6. \A i \in Item : \/ g.place[i] = e.place[i]
                      \/ e.p = "receiver" /\ e.me.counter /\ i = u.want
  <2>1. \A i \in Item : \/ f.place[i] = e.place[i]
                        \/ e.p = "receiver" /\ e.me.counter /\ i = u.want
    BY DEF Still
  <2>2. \A i \in Item : \/ g.place[i] = f.place[i]
                        \/ f.p = "receiver" /\ f.me.counter /\ i = v.want
    BY DEF Still
  <2> HIDE DEF u, v, w
  <2> QED BY <1>1, <1>3, <2>1, <2>2 DEF Steady
<1> QED BY <1>1, <1>2, <1>5, <1>6 DEF Still

\* And what is calm twice is calm.
LEMMA CalmTrans ==
  ASSUME NEW e, NEW f, NEW g, Calm(e, f), Calm(f, g)
  PROVE  Calm(e, g)
BY StillTrans DEF Calm, Silent

\* So is what has not changed.
LEMMA CalmSelf ==
  ASSUME NEW e
  PROVE  Calm(e, e)
BY DEF Calm, Silent, Still, Steady

\* A stanza more.
LEMMA SendStill ==
  ASSUME NEW e \in Entry, NEW conn \in Conn,
         NEW type \in {"initiate", "accept", "reject", "terminate", "channel", "complete"}
  PROVE  LET x == Send(e, type, conn)
         IN /\ x \in Entry /\ Still(e, x) /\ x.p = e.p /\ x.me = e.me
            /\ x.wire = e.wire /\ x.place = e.place
            /\ \A t \in {"reject", "complete"} : Says(x.out, t) => Says(e.out, t) \/ t = type
            /\ type \notin {"reject", "complete"} => Calm(e, x)
<1> DEFINE x == Send(e, type, conn)
           m == [type |-> type, conn |-> conn]
<1>1. /\ x \in Entry /\ x.p = e.p /\ x.me = e.me /\ x.wire = e.wire /\ x.place = e.place
      /\ x.out = Append(e.out, m) /\ m \in Stanza /\ m.type = type
  BY SendIs
<1> HIDE DEF x, m
<1>2. \A i \in DOMAIN x.out : x.out[i] = m \/ (i \in DOMAIN e.out /\ x.out[i] = e.out[i])
  BY <1>1, EntryFields, AppendProperties
<1>3. \A t \in {"reject", "complete"} : Says(x.out, t) => Says(e.out, t) \/ t = type
  BY <1>1, <1>2 DEF Says
<1>4. Still(e, x)
  BY <1>1 DEF Still, Steady
<1> QED BY <1>1, <1>3, <1>4 DEF Calm, Silent, x

\* Another share that has transferred nothing.
LEMMA ShareCalm ==
  ASSUME NEW e \in Entry, NEW k \in ShareRecord, Steady(e.me, k), k.serving = e.me.serving
  PROVE  LET x == [e EXCEPT !.me = k]
         IN x \in Entry /\ Calm(e, x) /\ x.p = e.p /\ x.me = k /\ x.out = e.out /\ x.wire = e.wire
<1> DEFINE x == [e EXCEPT !.me = k]
<1>1. /\ x \in Entry /\ x.p = e.p /\ x.me = k /\ x.out = e.out
      /\ x.wire = e.wire /\ x.place = e.place
  BY WithShare
<1> HIDE DEF x
<1> QED BY <1>1 DEF Calm, Silent, Still, x

\* What is as it was of a share that only its session, or a timer, has touched.
Same(a, b) == /\ Steady(a, b) /\ b.state = a.state /\ b.serving = a.serving
              /\ b.failed = a.failed /\ b.localCancel = a.localCancel

\* A message posted.
LEMMA PostCalm ==
  ASSUME NEW e \in Entry, NEW msg \in {"state", "error"}
  PROVE  LET x == Post(e, msg)
         IN /\ x \in Entry /\ Calm(e, x) /\ Same(e.me, x.me) /\ x.p = e.p
            /\ x.me.session = e.me.session
<1> DEFINE x == Post(e, msg)
           q == Append(e.me.posted, msg)
           k == [e.me EXCEPT !.posted = q]
<1>1. e.me \in ShareRecord /\ q \in Seq({"state", "error"})
  BY EntryFields, ShareFields, AppendProperties
<1>2. x = [e EXCEPT !.me = k]
  BY DEF Post
<1> HIDE DEF q, x
<1>3. k \in ShareRecord /\ Same(e.me, k) /\ k.session = e.me.session
  BY <1>1 DEF ShareRecord, Same, Steady, Blamed
<1> HIDE DEF k
<1> QED BY <1>2, <1>3, ShareCalm DEF Same, x

\* The session has come to v.
LEMMA SessionCalm ==
  ASSUME NEW e \in Entry, NEW v \in Live \cup Refused \cup Terminated \cup {"INIT", "NULL"}
  PROVE  LET x == [e EXCEPT !.me.session = v]
         IN x \in Entry /\ Calm(e, x) /\ Same(e.me, x.me) /\ x.p = e.p /\ x.me.session = v
<1> DEFINE k == [e.me EXCEPT !.session = v]
           x == [e EXCEPT !.me = k]
<1>1. e.me \in ShareRecord
  BY EntryFields
<1>2. k \in ShareRecord /\ Same(e.me, k) /\ k.session = v
  BY <1>1 DEF ShareRecord, Same, Steady, Blamed
<1>3. [e EXCEPT !.me.session = v] = x
  OBVIOUS
<1> HIDE DEF k
<1>4. x \in Entry /\ Calm(e, x) /\ x.p = e.p /\ x.me = k
  BY <1>2, ShareCalm DEF Same
<1> HIDE DEF x
<1> QED BY <1>2, <1>3, <1>4

\* A download is given up.
LEMMA AbortStill ==
  ASSUME NEW e \in Entry
  PROVE  LET x == AbortDownload(e)
         IN /\ x \in Entry /\ Calm(e, x) /\ x.p = e.p /\ x.me = e.me /\ x.out = e.out
<1> DEFINE x == AbortDownload(e)
<1>1. CASE e.p = "sender" \/ ~e.me.counter
  BY <1>1, CalmSelf DEF AbortDownload
<1>2. CASE ~(e.p = "sender" \/ ~e.me.counter)
  <2> DEFINE v == e.wire["private"]
             folder == [e.place EXCEPT ![v.want] = "broken"]
             w == [v EXCEPT !.gone = @ \cup {"receiver"}]
             y == [e EXCEPT !.place = folder]
  <2>1. v \in Wire
    BY EntryFields DEF Conn
  <2>2. /\ w \in Wire /\ w.phase = v.phase /\ w.want = v.want /\ w.kind = v.kind /\ v.gone \subseteq w.gone
        /\ w.channel = v.channel
    BY <2>1 DEF Wire, Peer
  <2>3. x = [y EXCEPT !.wire["private"] = w]
    BY <1>2 DEF AbortDownload
  <2> HIDE DEF w, x
  <2>4. /\ folder \in [Item -> {"absent", "whole", "broken"}]
        /\ \A i \in Item : folder[i] = e.place[i] \/ i = v.want
    BY <2>1, EntryFields
  <2> HIDE DEF folder
  <2>5. /\ y \in Entry /\ y.p = e.p /\ y.me = e.me /\ y.out = e.out /\ y.wire = e.wire
        /\ y.place = folder
    BY <2>4 DEF Entry
  <2> HIDE DEF y
  <2>6. /\ x \in Entry /\ x.p = y.p /\ x.me = y.me /\ x.out = y.out /\ x.place = y.place
        /\ x.wire["private"] = w
    BY <2>2, <2>3, <2>5, WithPrivate
  <2>7. e.p = "receiver" /\ e.me.counter
    BY <1>2, EntryFields DEF Peer
  <2>8. Still(e, x)
    BY <2>2, <2>4, <2>5, <2>6, <2>7 DEF Still, Steady
  <2> QED BY <2>5, <2>6, <2>8 DEF Calm, Silent, x
<1> QED BY <1>1, <1>2

\* The server closes what it serves.
LEMMA CloseAllStill ==
  ASSUME NEW e \in Entry
  PROVE  LET x == CloseAll(e)
         IN /\ x \in Entry /\ Calm(e, x) /\ x.p = e.p /\ x.me = e.me /\ x.out = e.out
            /\ e.p = "sender" /\ e.wire["private"].channel \in {"opening", "open"}
                 => "sender" \in x.wire["private"].gone
<1> DEFINE x == CloseAll(e)
<1>1. CASE e.p = "receiver"
  BY <1>1, CalmSelf DEF CloseAll
<1>2. CASE e.p # "receiver"
  <2> DEFINE wires == [c \in Conn |-> IF e.wire[c].channel \in {"opening", "open"}
                                      THEN Leave(e.wire[c], "sender") ELSE e.wire[c]]
             v == e.wire["private"]
             w == wires["private"]
  <2>1. ASSUME NEW u \in Wire
        PROVE  LET l == Leave(u, "sender")
               IN /\ l \in Wire /\ l.phase = u.phase /\ l.want = u.want /\ l.kind = u.kind /\ u.gone \subseteq l.gone
                  /\ l.channel = u.channel /\ "sender" \in l.gone
    BY DEF Leave, Wire, Peer
  <2>2. \A c \in Conn : e.wire[c] \in Wire /\ wires[c] \in Wire
    BY <2>1, EntryFields
  <2>3. "private" \in Conn /\ v \in Wire
    BY <2>2 DEF Conn
  <2>4. /\ w.phase = v.phase /\ w.want = v.want /\ w.kind = v.kind /\ v.gone \subseteq w.gone
        /\ w.channel = v.channel
        /\ v.channel \in {"opening", "open"} => "sender" \in w.gone
    BY <2>1, <2>3
  <2>5. wires \in [Conn -> Wire]
    BY <2>2
  <2>6. x = [e EXCEPT !.wire = wires]
    BY <1>2 DEF CloseAll
  <2> HIDE DEF wires, x
  <2>7. x \in Entry /\ x.p = e.p /\ x.me = e.me /\ x.out = e.out /\ x.wire = wires /\ x.place = e.place
    BY <2>5, <2>6 DEF Entry
  <2>8. Still(e, x)
    BY <2>4, <2>7 DEF Still, Steady
  <2> QED BY <2>4, <2>7, <2>8 DEF Calm, Silent, x
<1> QED BY <1>1, <1>2

\* Both streams are closed.
LEMMA HangUpCalm ==
  ASSUME NEW e \in Entry
  PROVE  LET x == HangUp(e)
         IN /\ x \in Entry /\ Calm(e, x) /\ x.p = e.p /\ x.me.state = e.me.state
            /\ x.me.session = e.me.session
<1> DEFINE a == AbortDownload(e)
           b == CloseAll(a)
           k == [b.me EXCEPT !.counter = FALSE, !.serving = "none"]
           x == [b EXCEPT !.me = k]
<1>1. /\ a \in Entry /\ Calm(e, a) /\ a.p = e.p /\ a.me = e.me
      /\ b \in Entry /\ Calm(a, b) /\ b.p = a.p /\ b.me = a.me
      /\ a.p = "sender" /\ a.wire["private"].channel \in {"opening", "open"}
           => "sender" \in b.wire["private"].gone
  BY AbortStill, CloseAllStill
<1>2. HangUp(e) = [b EXCEPT !.me.counter = FALSE, !.me.serving = "none"]
  BY DEF HangUp
<1> HIDE DEF a, b
<1>3. HangUp(e) = x
  BY <1>2
<1>4. /\ k \in ShareRecord /\ k.serving = "none" /\ k.state = b.me.state
      /\ k.session = b.me.session /\ Steady(b.me, k)
  <2>1. b.me \in ShareRecord
    BY <1>1, EntryFields
  <2>2. k.bytes = b.me.bytes
    BY <2>1 DEF ShareRecord
  <2> QED BY <2>1, <2>2, Hung DEF Steady, Blamed
<1> HIDE DEF k
<1>5. /\ x \in Entry /\ x.p = b.p /\ x.me = k /\ x.out = b.out
      /\ x.wire = b.wire /\ x.place = b.place
  BY <1>1, <1>4, WithShare
<1> HIDE DEF x
<1>6. Calm(e, b)
  BY <1>1, CalmTrans
<1>7. e.p = "sender" /\ e.wire["private"].channel \in {"opening", "open"}
        => "sender" \in b.wire["private"].gone
  BY <1>1 DEF Calm, Still
<1>8. Still(e, x)
  <2>1. Steady(e.me, x.me)
    BY <1>1, <1>4, <1>5 DEF Steady
  <2> QED BY <1>4, <1>5, <1>6, <1>7, <2>1 DEF Calm, Still
<1> QED BY <1>1, <1>3, <1>4, <1>5, <1>6, <1>8 DEF Calm, Silent, x

\* Terminate, by who closes.
LEMMA EndSessionCalm ==
  ASSUME NEW e \in Entry
  PROVE  LET x == EndSession(e)
         IN x \in Entry /\ Calm(e, x) /\ Same(e.me, x.me) /\ x.p = e.p
<1>1. CASE e.me.session \in Terminated
  <2>1. Same(e.me, e.me)
    BY DEF Same, Steady
  <2> QED BY <1>1, <2>1, CalmSelf DEF EndSession
<1>2. CASE e.me.session \notin Terminated
  <2> DEFINE s == IF e.me.session \in Refused THEN e ELSE Send(e, "terminate", "private")
             y == [s EXCEPT !.me.session = "SENTTERMINATE"]
             x == Post(y, "state")
  <2>1. s \in Entry /\ Calm(e, s) /\ s.p = e.p /\ s.me = e.me
    <3>1. CASE e.me.session \in Refused
      BY <3>1, CalmSelf
    <3>2. CASE e.me.session \notin Refused
      <4>1. "private" \in Conn /\ "terminate" \notin {"reject", "complete"}
        BY DEF Conn
      <4> QED BY <3>2, <4>1, SendStill
    <3> QED BY <3>1, <3>2
  <2>2. EndSession(e) = x
    BY <1>2 DEF EndSession
  <2> HIDE DEF s
  <2>3. "SENTTERMINATE" \in Live \cup Refused \cup Terminated \cup {"INIT", "NULL"}
    BY DEF Terminated
  <2>4. y \in Entry /\ Calm(s, y) /\ Same(s.me, y.me) /\ y.p = s.p
    BY <2>1, <2>3, SessionCalm
  <2> HIDE DEF y
  <2>5. x \in Entry /\ Calm(y, x) /\ Same(y.me, x.me) /\ x.p = y.p
    BY <2>4, PostCalm
  <2> HIDE DEF x
  <2>6. Calm(e, x)
    BY <2>1, <2>4, <2>5, CalmTrans
  <2>7. Same(e.me, x.me)
    BY <2>1, <2>4, <2>5 DEF Same, Steady
  <2> QED BY <2>1, <2>2, <2>4, <2>5, <2>6, <2>7
<1> QED BY <1>1, <1>2

\* What an ASSERT notes.
LEMMA AssertCalm ==
  ASSUME NEW e \in Entry, NEW holds \in BOOLEAN
  PROVE  LET x == Assert(e, holds)
         IN x \in Entry /\ Calm(e, x) /\ Same(e.me, x.me) /\ x.p = e.p
<1>1. CASE holds
  <2>1. Same(e.me, e.me)
    BY DEF Same, Steady
  <2> QED BY <1>1, <2>1, CalmSelf DEF Assert
<1>2. CASE ~holds
  <2> DEFINE s == e.me.asserted \cup {"share"}
             k == [e.me EXCEPT !.asserted = s]
  <2>1. e.me \in ShareRecord /\ s \in SUBSET {"share", "http"}
    BY EntryFields, ShareFields
  <2>2. Assert(e, holds) = [e EXCEPT !.me = k]
    BY <1>2 DEF Assert
  <2> HIDE DEF s
  <2>3. k \in ShareRecord /\ Same(e.me, k)
    BY <2>1 DEF ShareRecord, Same, Steady, Blamed
  <2> HIDE DEF k
  <2> QED BY <2>2, <2>3, ShareCalm DEF Same
<1> QED BY <1>1, <1>2

\* DoClose.
LEMMA DoCloseCalm ==
  ASSUME NEW e \in Entry, NEW terminate \in BOOLEAN
  PROVE  LET x == DoClose(e, terminate)
         IN x \in Entry /\ Calm(e, x) /\ x.p = e.p /\ x.me.state = e.me.state
<1> DEFINE ok == ~e.me.closed /\ e.me.state \in Complete /\ e.me.session # "NULL"
           a == Assert(e, ok)
           k == [a.me EXCEPT !.closed = TRUE]
           b == [a EXCEPT !.me = k]
           c == HangUp(b)
           x == IF terminate THEN EndSession(c) ELSE c
<1>1. DoClose(e, terminate) = x
  BY DEF DoClose
<1>2. ok \in BOOLEAN
  BY DEF Complete
<1> HIDE DEF ok
<1>3. a \in Entry /\ Calm(e, a) /\ Same(e.me, a.me) /\ a.p = e.p
  BY <1>2, AssertCalm
<1> HIDE DEF a
<1>4. k \in ShareRecord /\ Same(a.me, k)
  <2>1. a.me \in ShareRecord
    BY <1>3, EntryFields
  <2> QED BY <2>1 DEF ShareRecord, Same, Steady, Blamed
<1> HIDE DEF k
<1>5. b \in Entry /\ Calm(a, b) /\ b.p = a.p /\ b.me = k
  BY <1>3, <1>4, ShareCalm DEF Same
<1> HIDE DEF b
<1>6. c \in Entry /\ Calm(b, c) /\ c.p = b.p /\ c.me.state = b.me.state
  BY <1>5, HangUpCalm
<1> HIDE DEF c
<1>7. x \in Entry /\ Calm(c, x) /\ x.p = c.p /\ x.me.state = c.me.state
  BY <1>6, EndSessionCalm, CalmSelf DEF Same
<1> HIDE DEF x
<1>8. Calm(a, c)
  BY <1>5, <1>6, CalmTrans
<1>9. Calm(e, x)
  BY <1>3, <1>7, <1>8, CalmTrans
<1> QED BY <1>1, <1>3, <1>4, <1>5, <1>6, <1>7, <1>9 DEF Same

\* SetState: a completion is final.
LEMMA SetStateCalm ==
  ASSUME NEW e \in Entry, NEW state \in Complete \cup {"OFFER", "TRANSFER"},
         NEW preventClose \in BOOLEAN
  PROVE  LET x == SetState(e, state, preventClose)
         IN /\ x \in Entry /\ Calm(e, x) /\ x.p = e.p
            /\ x.me.state = IF e.me.state \in Complete THEN e.me.state ELSE state
<1>1. CASE state = e.me.state
  BY <1>1, CalmSelf DEF SetState
<1>2. CASE state # e.me.state /\ e.me.state \in Complete
  <2>1. SetState(e, state, preventClose) = Assert(e, FALSE) /\ FALSE \in BOOLEAN
    BY <1>2 DEF SetState
  <2> QED BY <1>2, <2>1, AssertCalm DEF Same
<1>3. CASE state # e.me.state /\ e.me.state \notin Complete
  <2> DEFINE k == [e.me EXCEPT !.state = state]
             y == [e EXCEPT !.me = k]
             closes == state \in Complete /\ (state # "COMPLETE" \/ ~preventClose)
             x == IF closes THEN DoClose(y, TRUE) ELSE y
  <2>1. SetState(e, state, preventClose) = x
    BY <1>3 DEF SetState
  <2>2. k \in ShareRecord /\ Steady(e.me, k) /\ k.serving = e.me.serving /\ k.state = state
    <3>1. e.me \in ShareRecord
      BY EntryFields
    <3> QED BY <1>3, <3>1 DEF ShareRecord, Steady, Blamed
  <2> HIDE DEF k
  <2>3. y \in Entry /\ Calm(e, y) /\ y.p = e.p /\ y.me.state = state
    BY <2>2, ShareCalm
  <2> HIDE DEF y
  <2>4. x \in Entry /\ Calm(y, x) /\ x.p = y.p /\ x.me.state = y.me.state
    <3>1. TRUE \in BOOLEAN
      OBVIOUS
    <3> QED BY <2>3, <3>1, DoCloseCalm, CalmSelf
  <2> HIDE DEF x, closes
  <2> QED BY <1>3, <2>1, <2>3, <2>4, CalmTrans
<1> QED BY <1>1, <1>2, <1>3

\* What a share that had not completed comes to, with what its session comes to.
Turned(e, state, f) ==
  e.me.state \notin Complete =>
    /\ state \in Live => f.me.state \notin Complete
    /\ state \in {"SENTREJECT", "SENTTERMINATE", "RECEIVEDREJECT"} => f.me.state \in Failed
    /\ state = "RECEIVEDTERMINATE" =>
         IF e.p = "sender" /\ e.me.bytes >= TotalSize THEN f.me.state = "COMPLETE"
         ELSE f.me.state \in Failed

\* The share hears of its session.
LEMMA OnSessionStateCalm ==
  ASSUME NEW e \in Entry, NEW state \in Live \cup Refused \cup Terminated
  PROVE  LET x == OnSessionState(e, state)
         IN x \in Entry /\ Calm(e, x) /\ x.p = e.p /\ Turned(e, state, x)
<1> DEFINE x == OnSessionState(e, state)
<1>1. CASE e.me.state \in Complete
  <2>1. x = e
    BY <1>1 DEF OnSessionState
  <2> QED BY <1>1, <2>1, CalmSelf DEF Turned
<1>2. CASE e.me.state \notin Complete
  <2> DEFINE came ==
        IF state \in {"SENTINITIATE", "RECEIVEDINITIATE"} THEN "OFFER"
        ELSE IF state \in {"SENTACCEPT", "RECEIVEDACCEPT", "INPROGRESS"} THEN "TRANSFER"
        ELSE IF state \in {"SENTREJECT", "SENTTERMINATE"}
             THEN (IF e.me.localCancel THEN "LOCAL_CANCEL" ELSE "REMOTE_CANCEL")
        ELSE IF state = "RECEIVEDTERMINATE" /\ e.p = "sender" /\ e.me.bytes >= TotalSize
             THEN "COMPLETE" ELSE "REMOTE_CANCEL"
  <2>1. x = SetState(e, came, FALSE)
    <3>1. CASE state \in {"SENTINITIATE", "RECEIVEDINITIATE"}
      BY <1>2, <3>1 DEF OnSessionState
    <3>2. CASE state \in {"SENTACCEPT", "RECEIVEDACCEPT", "INPROGRESS"}
      BY <1>2, <3>2 DEF OnSessionState
    <3>3. CASE state \in Refused \cup Terminated
      BY <1>2, <3>3 DEF OnSessionState, Cancelled, Refused, Terminated
    <3> QED BY <3>1, <3>2, <3>3 DEF Live
  <2>2. came \in Complete \cup {"OFFER", "TRANSFER"} /\ FALSE \in BOOLEAN
    BY DEF Complete
  <2>3. /\ state \in Live => came \notin Complete
        /\ state \in {"SENTREJECT", "SENTTERMINATE", "RECEIVEDREJECT"} => came \in Failed
        /\ state = "RECEIVEDTERMINATE" =>
             IF e.p = "sender" /\ e.me.bytes >= TotalSize THEN came = "COMPLETE"
             ELSE came \in Failed
    BY DEF Live, Complete, Failed
  <2> HIDE DEF came, x
  <2>4. x \in Entry /\ Calm(e, x) /\ x.p = e.p /\ x.me.state = came
    BY <1>2, <2>1, <2>2, SetStateCalm
  <2> QED BY <2>3, <2>4 DEF Turned, x
<1> QED BY <1>1, <1>2

\* Session::SetState: nothing happens, or the share is told.
LEMMA EnterCalm ==
  ASSUME NEW e \in Entry, NEW state \in Live \cup Refused \cup Terminated
  PROVE  LET x == Enter(e, state)
         IN x \in Entry /\ Calm(e, x) /\ x.p = e.p /\ (e.me.session # state => Turned(e, state, x))
<1>1. CASE e.me.session = state
  BY <1>1, CalmSelf DEF Enter
<1>2. CASE e.me.session # state
  <2> DEFINE y == [e EXCEPT !.me.session = state]
             z == OnSessionState(y, state)
             x == Post(z, "state")
  <2>1. Enter(e, state) = x
    BY <1>2 DEF Enter
  <2>2. y \in Entry /\ Calm(e, y) /\ Same(e.me, y.me) /\ y.p = e.p
    BY SessionCalm
  <2> HIDE DEF y
  <2>3. z \in Entry /\ Calm(y, z) /\ z.p = y.p /\ Turned(y, state, z)
    BY <2>2, OnSessionStateCalm
  <2> HIDE DEF z
  <2>4. x \in Entry /\ Calm(z, x) /\ Same(z.me, x.me) /\ x.p = z.p
    BY <2>3, PostCalm
  <2> HIDE DEF x
  <2>5. Calm(e, x)
    BY <2>2, <2>3, <2>4, CalmTrans
  <2>6. Turned(e, state, x)
    BY <2>2, <2>3, <2>4 DEF Turned, Same, Steady
  <2> QED BY <2>1, <2>2, <2>3, <2>4, <2>5, <2>6
<1> QED BY <1>1, <1>2

\* Session::Terminate: what had not completed has failed.
LEMMA TerminateCalm ==
  ASSUME NEW e \in Entry
  PROVE  LET x == Terminate(e)
         IN /\ x \in Entry /\ Calm(e, x) /\ x.p = e.p
            /\ x.me.state = "COMPLETE" => e.me.state = "COMPLETE"
<1>1. CASE e.me.session \in Terminated
  BY <1>1, CalmSelf DEF Terminate
<1>2. CASE e.me.session \notin Terminated
  <2> DEFINE s == IF e.me.session \in Refused THEN e ELSE Send(e, "terminate", "private")
             x == Enter(s, "SENTTERMINATE")
  <2>1. s \in Entry /\ Calm(e, s) /\ s.p = e.p /\ s.me = e.me
    <3>1. CASE e.me.session \in Refused
      BY <3>1, CalmSelf
    <3>2. CASE e.me.session \notin Refused
      <4>1. "private" \in Conn /\ "terminate" \notin {"reject", "complete"}
        BY DEF Conn
      <4> QED BY <3>2, <4>1, SendStill
    <3> QED BY <3>1, <3>2
  <2>2. Terminate(e) = x
    BY <1>2 DEF Terminate
  <2> HIDE DEF s
  <2>3. "SENTTERMINATE" \in Live \cup Refused \cup Terminated /\ s.me.session # "SENTTERMINATE"
    BY <1>2, <2>1 DEF Terminated
  <2>4. x \in Entry /\ Calm(s, x) /\ x.p = s.p /\ Turned(s, "SENTTERMINATE", x)
    BY <2>1, <2>3, EnterCalm
  <2> HIDE DEF x
  <2>5. Calm(e, x)
    BY <2>1, <2>4, CalmTrans
  <2>6. x.me.state = "COMPLETE" => e.me.state = "COMPLETE"
    BY <2>1, <2>4 DEF Turned, Calm, Still, Steady, Failed, Complete
  <2> QED BY <2>1, <2>2, <2>4, <2>5, <2>6
<1> QED BY <1>1, <1>2

\* An error changes nothing yet.
LEMMA SetErrorCalm ==
  ASSUME NEW e \in Entry
  PROVE  LET x == SetError(e)
         IN x \in Entry /\ Calm(e, x) /\ x.p = e.p /\ x.me.state = e.me.state
<1>1. CASE e.me.session \notin Live
  BY <1>1, CalmSelf DEF SetError
<1>2. CASE e.me.session \in Live
  <2> DEFINE k == [e.me EXCEPT !.failed = TRUE]
             y == [e EXCEPT !.me = k]
             x == Post(y, "error")
  <2>1. SetError(e) = x
    BY <1>2 DEF SetError
  <2>2. k \in ShareRecord /\ Steady(e.me, k) /\ k.serving = e.me.serving /\ k.state = e.me.state
    <3>1. e.me \in ShareRecord
      BY EntryFields
    <3> QED BY <3>1 DEF ShareRecord, Steady, Blamed
  <2> HIDE DEF k
  <2>3. y \in Entry /\ Calm(e, y) /\ y.p = e.p /\ y.me = k
    BY <2>2, ShareCalm
  <2> HIDE DEF y
  <2>4. x \in Entry /\ Calm(y, x) /\ Same(y.me, x.me) /\ x.p = y.p
    BY <2>3, PostCalm
  <2> HIDE DEF x
  <2>5. Calm(e, x)
    BY <2>3, <2>4, CalmTrans
  <2> QED BY <2>1, <2>2, <2>3, <2>4, <2>5 DEF Same
<1> QED BY <1>1, <1>2

\* ~Session.
LEMMA DestroyCalm ==
  ASSUME NEW e \in Entry
  PROVE  LET x == Destroy(e)
         IN x \in Entry /\ Calm(e, x) /\ x.p = e.p /\ x.me.state = e.me.state
<1> DEFINE d == IF e.me.closed THEN e ELSE DoClose(e, FALSE)
           k == [d.me EXCEPT !.session = "NULL", !.posted = <<>>, !.unanswered = 0,
                             !.proxies = {}, !.wait = FALSE]
           y == [d EXCEPT !.me = k]
           wires == [c \in Conn |-> IF d.wire[c].channel = "none" THEN d.wire[c]
                                    ELSE Leave(d.wire[c], e.p)]
           x == [y EXCEPT !.wire = wires]
<1>1. d \in Entry /\ Calm(e, d) /\ d.p = e.p /\ d.me.state = e.me.state
  <2>1. FALSE \in BOOLEAN
    OBVIOUS
  <2> QED BY <2>1, DoCloseCalm, CalmSelf
<1>2. Destroy(e) = [d EXCEPT !.me.session = "NULL", !.me.posted = <<>>, !.me.unanswered = 0,
                             !.me.proxies = {}, !.me.wait = FALSE, !.wire = wires]
  BY DEF Destroy
<1> HIDE DEF d
<1>3. Destroy(e) = [d EXCEPT !.me = k, !.wire = wires]
  BY <1>2
<1>4. /\ k \in ShareRecord /\ Steady(d.me, k) /\ k.serving = d.me.serving /\ k.state = d.me.state
  <2> DEFINE a == [d.me EXCEPT !.session = "NULL", !.posted = <<>>]
  <2>1. <<>> \in Seq({"state", "error"}) /\ d.me \in ShareRecord
    BY <1>1, EntryFields
  <2>2. a \in ShareRecord /\ Same(d.me, a)
    BY <2>1 DEF ShareRecord, Same, Steady, Blamed
  <2>3. k = [a EXCEPT !.unanswered = 0, !.proxies = {}, !.wait = FALSE]
    OBVIOUS
  <2> HIDE DEF a, k
  <2>4. k \in ShareRecord /\ Same(a, k)
    BY <2>2, <2>3 DEF ShareRecord, Same, Steady, Blamed
  <2> QED BY <2>2, <2>4 DEF Same, Steady
<1> HIDE DEF k
<1>5. y \in Entry /\ Calm(d, y) /\ y.p = d.p /\ y.me = k /\ y.out = d.out /\ y.wire = d.wire
  BY <1>1, <1>4, ShareCalm
<1>6. x = [d EXCEPT !.me = k, !.wire = wires]
  OBVIOUS
<1> HIDE DEF y
<1>7. ASSUME NEW c \in Conn
      PROVE  LET v == d.wire[c] w == wires[c]
             IN /\ w \in Wire /\ w.phase = v.phase /\ w.want = v.want /\ w.kind = v.kind
                /\ v.gone \subseteq w.gone /\ w.channel = v.channel
  <2>1. d.wire[c] \in Wire /\ e.p \in Peer
    BY <1>1, EntryFields
  <2>2. LET v == d.wire[c] w == Leave(d.wire[c], e.p)
        IN /\ w \in Wire /\ w.phase = v.phase /\ w.want = v.want /\ w.kind = v.kind
           /\ v.gone \subseteq w.gone /\ w.channel = v.channel
    BY <2>1 DEF Leave, Wire
  <2> QED BY <2>1, <2>2
<1>8. wires \in [Conn -> Wire] /\ "private" \in Conn
  BY <1>7 DEF Conn
<1> HIDE DEF wires
<1>9. x \in Entry /\ x.p = y.p /\ x.me = y.me /\ x.out = y.out /\ x.wire = wires /\ x.place = y.place
  BY <1>5, <1>8 DEF Entry
<1> HIDE DEF x
<1>10. Calm(y, x)
  BY <1>5, <1>7, <1>8, <1>9 DEF Calm, Silent, Still, Steady
<1>11. Calm(e, x)
  BY <1>1, <1>5, <1>10, CalmTrans
<1> QED BY <1>1, <1>3, <1>4, <1>5, <1>6, <1>9, <1>11

-----------------------------------------------------------------------------
(* Sizes                                                                      *)

\* Numbers have a least one among them.
LEMMA LeastOf ==
  ASSUME NEW S \in SUBSET Nat, S # {}
  PROVE  \E m \in S : \A n \in S : m <= n
<1>1. PICK m \in S : \A n \in S : <<n, m>> \notin OpToRel(<, Nat)
  BY WFMin, NatLessThanWellFounded
<1>2. \A n \in S : m <= n
  <2> SUFFICES ASSUME NEW n \in S, n < m PROVE FALSE
    OBVIOUS
  <2>1. <<n, m>> \in OpToRel(<, Nat)
    BY DEF OpToRel
  <2> QED BY <1>1, <2>1
<1> QED BY <1>2

\* g adds up the first m sizes.
Sums(g, m) == g = [n \in 0 .. m |-> IF n = 0 THEN 0 ELSE g[n - 1] + Sizes[n]]

\* The sizes are natural numbers, and there is one at least.
LEMMA SizesAre ==
  /\ Len(Sizes) \in Nat /\ Len(Sizes) # 0
  /\ \A n \in 1 .. Len(Sizes) : Sizes[n] \in Nat
BY FileShareAssumption, LenProperties, EmptySeq, ElementOfSeq

\* There is such a sum.
LEMMA SumsExist == \E g : Sums(g, Len(Sizes))
<1> DEFINE S == {m \in 0 .. Len(Sizes) : ~\E g : Sums(g, m)}
<1>1. SUFFICES ASSUME S # {} PROVE FALSE
  BY SizesAre
<1>2. S \in SUBSET Nat
  BY SizesAre
<1>3. PICK k \in S : \A m \in S : k <= m
  BY <1>1, <1>2, LeastOf
<1>4. k \in 0 .. Len(Sizes) /\ ~\E g : Sums(g, k)
  BY <1>3
<1>5. k # 0
  <2> DEFINE g == [n \in 0 .. 0 |-> 0]
  <2>1. Sums(g, 0)
    <3>1. \A n \in 0 .. 0 : n = 0
      OBVIOUS
    <3> QED BY <3>1 DEF Sums
  <2> QED BY <1>4, <2>1
<1>6. k - 1 \in 0 .. Len(Sizes) /\ k - 1 \notin S
  BY <1>2, <1>3, <1>4, <1>5, SizesAre
<1>7. PICK g : Sums(g, k - 1)
  BY <1>6
<1> DEFINE h == [n \in 0 .. k |-> IF n = k THEN g[k - 1] + Sizes[k] ELSE g[n]]
<1>8. ASSUME NEW n \in 0 .. k
      PROVE  h[n] = IF n = 0 THEN 0 ELSE h[n - 1] + Sizes[n]
  <2>1. k \in Nat
    BY <1>4, SizesAre
  <2>2. \A i \in 0 .. k - 1 : g[i] = IF i = 0 THEN 0 ELSE g[i - 1] + Sizes[i]
    BY <1>7 DEF Sums
  <2>3. CASE n = k
    <3>1. n # 0 /\ n - 1 \in 0 .. k /\ n - 1 # k
      BY <1>5, <2>1, <2>3
    <3> QED BY <2>3, <3>1
  <2>4. CASE n # k /\ n # 0
    <3>1. n \in 0 .. k - 1 /\ n - 1 \in 0 .. k /\ n - 1 # k
      BY <2>1, <2>4
    <3> QED BY <2>2, <2>4, <3>1
  <2>5. CASE n # k /\ n = 0
    <3>1. n \in 0 .. k - 1
      BY <2>1, <2>5
    <3> QED BY <2>2, <2>5, <3>1
  <2> QED BY <2>3, <2>4, <2>5
<1>9. Sums(h, k)
  <2>1. h = [n \in 0 .. k |-> h[n]]
    OBVIOUS
  <2> HIDE DEF h
  <2> QED BY <1>8, <2>1 DEF Sums
<1> QED BY <1>4, <1>9

\* What the first n items come to, one by one.
LEMMA SizeOfIs ==
  /\ SizeOf[0] = 0
  /\ \A n \in 0 .. Len(Sizes) - 1 : SizeOf[n + 1] = SizeOf[n] + Sizes[n + 1]
<1>1. SizeOf = CHOOSE g : Sums(g, Len(Sizes))
  BY DEF SizeOf, Sums
<1>2. Sums(SizeOf, Len(Sizes))
  BY <1>1, SumsExist
<1>3. \A n \in 0 .. Len(Sizes) : SizeOf[n] = IF n = 0 THEN 0 ELSE SizeOf[n - 1] + Sizes[n]
  BY <1>2 DEF Sums
<1>4. ASSUME NEW n \in 0 .. Len(Sizes) - 1
      PROVE  SizeOf[n + 1] = SizeOf[n] + Sizes[n + 1]
  <2>1. n + 1 \in 0 .. Len(Sizes) /\ n + 1 # 0 /\ (n + 1) - 1 = n
    BY SizesAre
  <2> QED BY <1>3, <2>1
<1> QED BY <1>3, <1>4, SizesAre

\* It is a number.
LEMMA SizeOfType == \A n \in 0 .. Len(Sizes) : SizeOf[n] \in Nat
<1> DEFINE S == {n \in 0 .. Len(Sizes) : SizeOf[n] \notin Nat}
<1>1. SUFFICES ASSUME S # {} PROVE FALSE
  OBVIOUS
<1>2. S \in SUBSET Nat
  BY SizesAre
<1>3. PICK k \in S : \A m \in S : k <= m
  BY <1>1, <1>2, LeastOf
<1>4. k \in 0 .. Len(Sizes) /\ SizeOf[k] \notin Nat /\ k # 0
  BY <1>3, SizeOfIs
<1>5. k - 1 \in 0 .. Len(Sizes) - 1 /\ k - 1 \notin S /\ (k - 1) + 1 = k
  BY <1>2, <1>3, <1>4, SizesAre
<1>6. SizeOf[k - 1] \in Nat /\ SizeOf[k] = SizeOf[k - 1] + Sizes[k] /\ Sizes[k] \in Nat
  <2>1. k - 1 \in 0 .. Len(Sizes) /\ k \in 1 .. Len(Sizes)
    BY <1>4, SizesAre
  <2> QED BY <1>5, <2>1, SizeOfIs, SizesAre
<1> QED BY <1>4, <1>6

\* Of items that are not empty, a part comes to less than the whole.
LEMMA SizeOfGrows ==
  ASSUME \A n \in 1 .. Len(Sizes) : Sizes[n] > 0
  PROVE  \A n \in 0 .. Len(Sizes) - 1 : SizeOf[n] < SizeOf[Len(Sizes)]
<1> DEFINE N == Len(Sizes)
           S == {d \in 1 .. N : ~(SizeOf[N - d] < SizeOf[N])}
<1>1. SUFFICES ASSUME S # {} PROVE FALSE
  <2>1. SUFFICES ASSUME NEW n \in 0 .. N - 1, ~(SizeOf[n] < SizeOf[N]) PROVE N - n \in S
    BY <1>1
  <2>2. N - n \in 1 .. N /\ N - (N - n) = n
    BY SizesAre
  <2> QED BY <2>1, <2>2
<1>2. S \in SUBSET Nat
  BY SizesAre
<1>3. PICK k \in S : \A m \in S : k <= m
  BY <1>1, <1>2, LeastOf
<1>4. k \in 1 .. N /\ ~(SizeOf[N - k] < SizeOf[N])
  BY <1>3
<1> DEFINE n == N - k
<1>5. /\ n \in 0 .. N - 1 /\ n \in 0 .. N /\ n + 1 \in 0 .. N /\ n + 1 \in 1 .. N /\ N \in 0 .. N
      /\ n + 1 = N - (k - 1)
  BY <1>4, SizesAre
<1>6. /\ SizeOf[n + 1] = SizeOf[n] + Sizes[n + 1] /\ Sizes[n + 1] \in Nat /\ Sizes[n + 1] > 0
      /\ SizeOf[n] \in Nat /\ SizeOf[n + 1] \in Nat /\ SizeOf[N] \in Nat
  BY <1>5, SizeOfIs, SizeOfType, SizesAre
<1>7. SizeOf[n] < SizeOf[n + 1]
  <2> HIDE DEF n, N
  <2> QED BY <1>6
<1>8. CASE k = 1
  <2>1. n + 1 = N
    BY <1>5, <1>8, SizesAre
  <2> QED BY <1>4, <1>7, <2>1
<1>9. CASE k # 1
  <2>1. k - 1 \in 1 .. N /\ k - 1 \notin S
    <3>1. k - 1 \in 1 .. N /\ ~(k <= k - 1)
      BY <1>4, <1>9, SizesAre
    <3> QED BY <1>3, <3>1
  <2>2. SizeOf[n + 1] < SizeOf[N]
    BY <1>5, <2>1
  <2>3. SizeOf[n] < SizeOf[N]
    <3> HIDE DEF n, N
    <3> QED BY <1>6, <1>7, <2>2
  <2> QED BY <1>4, <2>3
<1> QED BY <1>8, <1>9

-----------------------------------------------------------------------------
(* The account of a transfer                                                  *)

\* What the receiver has: every item it has counted is whole, what it asks for is the
\* next, it completes with the last, and says what it has come to.
Has(e) ==
  /\ \A i \in 1 .. e.me.item : e.place[i] = "whole"
  /\ e.me.counter => e.wire["private"].phase # "idle"
  /\ e.wire["private"].phase # "idle" =>
       e.wire["private"].want = e.me.item + 1 /\ e.wire["private"].kind = "original"
  /\ e.me.state = "COMPLETE" => e.me.item = Len(Sizes)
  /\ Says(e.out, "reject") => e.me.state \in Failed
  /\ Says(e.out, "complete") => e.me.item = Len(Sizes)

\* How the sender's share s counts it.  A request that is served is counted when it is
\* over, unless the sender has closed the channel; a receiver that did not count what was
\* sent has failed.  A sender that fails unblamed was told so by one that had failed.
Counts(w, me, s) ==
  LET n == me.item
  IN  /\ s.serving # "proxy"
      /\ w.phase = "serving" =>
           /\ w.channel \in {"opening", "open"}
           /\ "sender" \in w.gone \/ (s.serving = "private" /\ s.item + 1 = w.want)
      /\ w.phase \in {"asked", "serving"} => s.bytes = SizeOf[n]
      /\ w.phase = "sent" => s.bytes = SizeOf[n + 1]
      /\ w.phase \in {"idle", "denied"} =>
           \/ s.bytes = SizeOf[n]
           \/ me.state \in Complete /\ n < Len(Sizes) /\ s.bytes = SizeOf[n + 1]
      /\ s.state \in Failed /\ ~Blamed(s) => me.state \in Failed
      /\ s.state = "COMPLETE" => n = Len(Sizes) \/ s.bytes >= TotalSize

\* The same, of a receiver's entry.
CountedBy(e, s) == Counts(e.wire["private"], e.me, s)

\* The sender's count is good when the browser gets no originals.
Accounted(e, s) == Has(e) /\ ("original" \notin case.browsing => CountedBy(e, s))

\* What is still is accounted for as it was, when it has not completed.
LEMMA StillAccounted ==
  ASSUME NEW e \in Entry, NEW f \in Entry, NEW s, e.p = "receiver",
         Accounted(e, s), Still(e, f),
         f.me.state = "COMPLETE" => e.me.state = "COMPLETE" \/ e.me.item = Len(Sizes),
         Says(f.out, "reject") => Says(e.out, "reject") \/ f.me.state \in Failed,
         Says(f.out, "complete") => Says(e.out, "complete") \/ e.me.item = Len(Sizes)
  PROVE  Accounted(f, s)
<1> DEFINE v == e.wire["private"]
           w == f.wire["private"]
<1>1. /\ f.me.item = e.me.item /\ (f.me.counter => e.me.counter)
      /\ e.me.state \in Complete => f.me.state = e.me.state
      /\ w.phase = v.phase /\ w.want = v.want /\ w.kind = v.kind /\ v.gone \subseteq w.gone
      /\ v.channel \in {"opening", "open"} => w.channel \in {"opening", "open"}
      /\ \A i \in Item : f.place[i] = e.place[i] \/ (e.me.counter /\ i = v.want)
  BY DEF Still, Steady
<1>2. /\ e.me.item \in 0 .. Len(Sizes) /\ Len(Sizes) \in Nat
      /\ v.phase \in {"idle", "asked", "serving", "sent", "denied"}
  <2>1. e.me \in ShareRecord /\ v \in Wire
    BY EntryFields DEF Conn
  <2> QED BY <2>1, ShareFields, SizesAre DEF Wire
<1>3. Failed \subseteq Complete /\ "COMPLETE" \in Complete
  BY DEF Failed, Complete
<1>4. Has(f)
  <2>1. \A i \in 1 .. f.me.item : f.place[i] = "whole"
    <3>1. SUFFICES ASSUME NEW i \in 1 .. e.me.item PROVE f.place[i] = "whole"
      BY <1>1
    <3>2. i \in Item /\ i # e.me.item + 1 /\ e.place[i] = "whole"
      BY <1>2 DEF Item, Accounted, Has
    <3>3. ~(e.me.counter /\ i = v.want)
      BY <3>2 DEF Accounted, Has
    <3> QED BY <1>1, <3>2, <3>3
  <2> HIDE DEF w
  <2>2. /\ f.me.counter => w.phase # "idle"
        /\ w.phase # "idle" => w.want = f.me.item + 1 /\ w.kind = "original"
    BY <1>1 DEF Accounted, Has
  <2>3. /\ f.me.state = "COMPLETE" => f.me.item = Len(Sizes)
        /\ Says(f.out, "reject") => f.me.state \in Failed
        /\ Says(f.out, "complete") => f.me.item = Len(Sizes)
    BY <1>1, <1>3 DEF Accounted, Has
  <2> QED BY <2>1, <2>2, <2>3 DEF Has, w
<1>5. ASSUME "original" \notin case.browsing PROVE CountedBy(f, s)
  <2>1. CountedBy(e, s)
    BY <1>5 DEF Accounted
  <2> DEFINE n == e.me.item
  <2>2. /\ s.serving # "proxy"
        /\ v.phase = "serving" =>
             /\ v.channel \in {"opening", "open"}
             /\ "sender" \in v.gone \/ (s.serving = "private" /\ s.item + 1 = v.want)
        /\ v.phase \in {"asked", "serving"} => s.bytes = SizeOf[n]
        /\ v.phase = "sent" => s.bytes = SizeOf[n + 1]
        /\ v.phase \in {"idle", "denied"} =>
             \/ s.bytes = SizeOf[n]
             \/ e.me.state \in Complete /\ n < Len(Sizes) /\ s.bytes = SizeOf[n + 1]
        /\ s.state \in Failed /\ ~Blamed(s) => e.me.state \in Failed
        /\ s.state = "COMPLETE" => n = Len(Sizes) \/ s.bytes >= TotalSize
    BY <2>1 DEF CountedBy, Counts
  <2> HIDE DEF v, w
  <2>3. /\ w.phase = "serving" =>
             /\ w.channel \in {"opening", "open"}
             /\ "sender" \in w.gone \/ (s.serving = "private" /\ s.item + 1 = w.want)
        /\ w.phase \in {"asked", "serving"} => s.bytes = SizeOf[n]
        /\ w.phase = "sent" => s.bytes = SizeOf[n + 1]
        /\ w.phase \in {"idle", "denied"} =>
             \/ s.bytes = SizeOf[n]
             \/ f.me.state \in Complete /\ n < Len(Sizes) /\ s.bytes = SizeOf[n + 1]
        /\ s.state \in Failed /\ ~Blamed(s) => f.me.state \in Failed
    BY <1>1, <1>3, <2>2
  <2>4. f.me.item = n
    BY <1>1
  <2> HIDE DEF n
  <2> QED BY <2>2, <2>3, <2>4 DEF CountedBy, Counts, w
<1> QED BY <1>4, <1>5 DEF Accounted

\* And calm is still.
LEMMA CalmAccounted ==
  ASSUME NEW e \in Entry, NEW f \in Entry, NEW s, e.p = "receiver",
         Accounted(e, s), Calm(e, f), f.me.state = "COMPLETE" => e.me.state = "COMPLETE"
  PROVE  Accounted(f, s)
<1>1. /\ Says(f.out, "reject") => Says(e.out, "reject")
      /\ Says(f.out, "complete") => Says(e.out, "complete")
  BY DEF Calm, Silent
<1> QED BY <1>1, StillAccounted DEF Calm

\* What the receiver says of a channel.
LEMMA SendChannel ==
  ASSUME NEW e \in Entry
  PROVE  LET x == Send(e, "channel", "private")
         IN x \in Entry /\ Calm(e, x) /\ x.p = e.p /\ x.me = e.me /\ x.wire = e.wire /\ x.place = e.place
<1>1. "private" \in Conn /\ "channel" \notin {"reject", "complete"}
  BY DEF Conn
<1> QED BY <1>1, SendStill

\* What the receiver says at the end.
LEMMA SendComplete ==
  ASSUME NEW e \in Entry
  PROVE  LET x == Send(e, "complete", "private")
         IN /\ x \in Entry /\ Still(e, x) /\ x.p = e.p /\ x.me = e.me
            /\ Says(x.out, "reject") => Says(e.out, "reject")
<1>1. "private" \in Conn /\ "complete" # "reject"
  BY DEF Conn
<1> QED BY <1>1, SendStill

\* The next item is asked for when nothing is.
LEMMA AskAccounted ==
  ASSUME NEW e \in Entry, NEW s, e.p = "receiver", Accounted(e, s), e.me.item < Len(Sizes),
         e.wire["private"].phase = "idle", e.me.state = "TRANSFER"
  PROVE  Ask(e) \in Entry /\ Accounted(Ask(e), s)
<1> DEFINE t == Send(e, "channel", "private")
           u == [t.wire["private"] EXCEPT !.channel = "announced"]
           a == IF e.wire["private"].channel # "none" THEN e
                ELSE [t EXCEPT !.wire["private"] = u]
           k == [e.me EXCEPT !.counter = TRUE]
           v == [a.wire["private"] EXCEPT !.kind = "original", !.want = e.me.item + 1,
                                          !.phase = "asked"]
           y == [a EXCEPT !.me = k]
           x == [y EXCEPT !.wire["private"] = v]
<1>1. /\ e.me \in ShareRecord /\ e.wire["private"] \in Wire /\ e.me.item \in Nat
      /\ e.me.item + 1 \in Item
  <2>1. e.me \in ShareRecord /\ e.wire["private"] \in Wire
    BY EntryFields DEF Conn
  <2> QED BY <2>1, ShareFields, SizesAre DEF Item
<1>2. /\ a \in Entry /\ a.p = e.p /\ a.me = e.me /\ a.place = e.place
      /\ \A type \in {"reject", "complete"} : Says(a.out, type) => Says(e.out, type)
  <2>1. CASE e.wire["private"].channel # "none"
    BY <2>1
  <2>2. CASE e.wire["private"].channel = "none"
    <3>2. t \in Entry /\ t.p = e.p /\ t.me = e.me /\ t.wire = e.wire /\ t.place = e.place
          /\ Calm(e, t)
      BY SendChannel
    <3> HIDE DEF t
    <3>3. u \in Wire
      BY <1>1, <3>2 DEF Wire
    <3> HIDE DEF u
    <3>4. a = [t EXCEPT !.wire["private"] = u]
      BY <2>2
    <3> HIDE DEF a
    <3>5. a \in Entry /\ a.p = t.p /\ a.me = t.me /\ a.out = t.out /\ a.place = t.place
      BY <3>2, <3>3, <3>4, WithPrivate
    <3> QED BY <3>2, <3>5 DEF Calm, Silent
  <2> QED BY <2>1, <2>2
<1>3. Ask(e) = [[a EXCEPT !.me.counter = TRUE] EXCEPT
                  !.wire["private"] = [@ EXCEPT !.kind = "original", !.want = e.me.item + 1,
                                                !.phase = "asked"]]
  BY DEF Ask
<1> HIDE DEF a
<1>4. k \in ShareRecord /\ k.item = e.me.item /\ k.state = e.me.state
  BY <1>1 DEF ShareRecord
<1>5. [a EXCEPT !.me.counter = TRUE] = y
  BY <1>2
<1> HIDE DEF k
<1>6. y \in Entry /\ y.p = a.p /\ y.me = k /\ y.out = a.out /\ y.wire = a.wire /\ y.place = a.place
  BY <1>2, <1>4, WithShare
<1> HIDE DEF y
<1>7. Ask(e) = x
  BY <1>3, <1>5, <1>6
<1>8. a.wire["private"] \in Wire
  BY <1>2, EntryFields DEF Conn
<1>9. v \in Wire /\ v.phase = "asked" /\ v.want = e.me.item + 1 /\ v.kind = "original"
  BY <1>1, <1>8 DEF Wire
<1> HIDE DEF v
<1>10. /\ x \in Entry /\ x.p = y.p /\ x.me = y.me /\ x.out = y.out /\ x.place = y.place
       /\ x.wire["private"] = v
  BY <1>6, <1>9, WithPrivate
<1> HIDE DEF x
<1>11. Has(x)
  BY <1>2, <1>4, <1>6, <1>9, <1>10 DEF Accounted, Has, Silent, Calm
<1>12. ASSUME "original" \notin case.browsing PROVE CountedBy(x, s)
  <2>1. CountedBy(e, s) /\ e.me.state \notin Complete
    BY <1>12 DEF Accounted, Complete
  <2>2. s.bytes = SizeOf[e.me.item]
    BY <2>1 DEF CountedBy, Counts
  <2>3. x.wire["private"] = v /\ x.me.item = e.me.item /\ x.me.state = e.me.state
    BY <1>4, <1>6, <1>10
  <2> QED BY <1>9, <2>1, <2>2, <2>3 DEF CountedBy, Counts
<1> QED BY <1>7, <1>10, <1>11, <1>12 DEF Accounted

\* The receiver, that asks for nothing, goes on, completes with the last item, or fails.
LEMMA NextAccounted ==
  ASSUME NEW e \in Entry, NEW s, e.p = "receiver", Accounted(e, s),
         e.wire["private"].phase = "idle", NEW x \in NextDownload(e)
  PROVE  x \in Entry /\ x.p = "receiver" /\ Accounted(x, s)
<1>1. CASE e.me.state # "TRANSFER"
  BY <1>1 DEF NextDownload
<1>2. CASE e.me.state = "TRANSFER" /\ e.me.item >= Len(Sizes)
  <2> DEFINE y == Send(e, "complete", "private")
             prevent == e.me.proxies # {}
             z == SetState(y, "COMPLETE", prevent)
  <2>1. x = z
    BY <1>2 DEF NextDownload
  <2>2. /\ "COMPLETE" \in Complete \cup {"OFFER", "TRANSFER"}
        /\ prevent \in BOOLEAN
    BY DEF Complete
  <2>3. /\ y \in Entry /\ Still(e, y) /\ y.p = e.p /\ y.me = e.me
        /\ Says(y.out, "reject") => Says(e.out, "reject")
    BY SendComplete
  <2> HIDE DEF y, prevent
  <2>4. z \in Entry /\ Calm(y, z) /\ z.p = y.p
    BY <2>2, <2>3, SetStateCalm
  <2> HIDE DEF z
  <2>5. e.me.item = Len(Sizes)
    <3>1. e.me \in ShareRecord
      BY EntryFields
    <3>2. e.me.item \in 0 .. Len(Sizes)
      BY <3>1, ShareFields
    <3> QED BY <1>2, <3>2, SizesAre
  <2>6. Still(e, z)
    BY <2>3, <2>4, StillTrans DEF Calm
  <2>7. /\ Says(z.out, "reject") => Says(e.out, "reject")
        /\ Says(z.out, "complete") => Says(e.out, "complete") \/ e.me.item = Len(Sizes)
    BY <2>3, <2>4, <2>5 DEF Calm, Silent
  <2>8. Accounted(z, s)
    BY <2>4, <2>5, <2>6, <2>7, StillAccounted
  <2> QED BY <2>1, <2>3, <2>4, <2>8
<1>3. CASE e.me.state = "TRANSFER" /\ ~(e.me.item >= Len(Sizes))
  <2>1. x = Ask(e) \/ x = SetState(e, "FAILURE", FALSE)
    BY <1>3 DEF NextDownload
  <2>2. CASE x = Ask(e)
    <3>1. e.me.item < Len(Sizes)
      <4>1. e.me \in ShareRecord
        BY EntryFields
      <4> QED BY <1>3, <4>1, ShareFields, SizesAre
    <3>2. Ask(e).p = e.p
      BY DEF Ask, Send, Entry
    <3> QED BY <1>3, <2>2, <3>1, <3>2, AskAccounted
  <2>3. CASE x = SetState(e, "FAILURE", FALSE)
    <3>1. "FAILURE" \in Complete \cup {"OFFER", "TRANSFER"} /\ FALSE \in BOOLEAN
          /\ e.me.state \notin Complete
      BY <1>3 DEF Complete
    <3>2. x \in Entry /\ Calm(e, x) /\ x.p = e.p /\ x.me.state = "FAILURE"
      BY <2>3, <3>1, SetStateCalm
    <3> QED BY <3>2, CalmAccounted
  <2> QED BY <2>1, <2>2, <2>3
<1> QED BY <1>1, <1>2, <1>3

\* A receiver that has failed at a download.
LEMMA FailureAccounted ==
  ASSUME NEW e \in Entry, NEW s, e.p = "receiver", Accounted(e, s)
  PROVE  LET x == SetState(e, "FAILURE", FALSE)
         IN x \in Entry /\ x.p = "receiver" /\ Accounted(x, s)
<1> DEFINE x == SetState(e, "FAILURE", FALSE)
<1>1. "FAILURE" \in Complete \cup {"OFFER", "TRANSFER"} /\ FALSE \in BOOLEAN
      /\ "FAILURE" # "COMPLETE"
  BY DEF Complete
<1>2. x \in Entry /\ Calm(e, x) /\ x.p = e.p /\ (x.me.state = "COMPLETE" => e.me.state = "COMPLETE")
  BY <1>1, SetStateCalm
<1> HIDE DEF x
<1>3. Accounted(x, s)
  BY <1>2, CalmAccounted
<1> QED BY <1>2, <1>3 DEF x

\* The receiver's request is over, with the folder and the count as given.
Got(e, folder, bytes, item) ==
  [e EXCEPT !.me = [e.me EXCEPT !.counter = FALSE, !.bytes = bytes, !.item = item],
            !.wire = [e.wire EXCEPT !["private"] = [e.wire["private"] EXCEPT !.phase = "idle"]],
            !.place = folder]

\* It is an entry, with what was given.
LEMMA GotIs ==
  ASSUME NEW e \in Entry, NEW folder \in [Item -> {"absent", "whole", "broken"}],
         NEW bytes \in Nat, NEW item \in 0 .. Len(Sizes)
  PROVE  LET x == Got(e, folder, bytes, item)
         IN /\ x \in Entry /\ x.p = e.p /\ x.out = e.out /\ x.place = folder
            /\ x.me.item = item /\ x.me.state = e.me.state /\ ~x.me.counter
            /\ x.wire["private"].phase = "idle"
<1> DEFINE k == [e.me EXCEPT !.counter = FALSE, !.bytes = bytes, !.item = item]
           w == [e.wire["private"] EXCEPT !.phase = "idle"]
           wires == [e.wire EXCEPT !["private"] = w]
           x == [e EXCEPT !.me = k, !.wire = wires, !.place = folder]
<1>1. e.me \in ShareRecord /\ e.wire["private"] \in Wire /\ "private" \in Conn
  BY EntryFields DEF Conn
<1>2. k \in ShareRecord /\ k.item = item /\ k.state = e.me.state /\ ~k.counter
  BY <1>1 DEF ShareRecord
<1>3. w \in Wire /\ w.phase = "idle"
  BY <1>1 DEF Wire
<1> HIDE DEF k, w
<1>4. wires \in [Conn -> Wire] /\ wires["private"] = w
  BY <1>1, <1>3, EntryFields
<1> HIDE DEF wires
<1>5. x \in Entry /\ x.p = e.p /\ x.out = e.out /\ x.place = folder /\ x.me = k /\ x.wire = wires
  BY <1>2, <1>4 DEF Entry
<1> HIDE DEF x
<1> QED BY <1>2, <1>3, <1>4, <1>5 DEF Got, x, wires, w, k

\* The receiver makes of the answer what it makes of it.
LEMMA AnswerAccounted ==
  ASSUME NEW e \in Entry, NEW s, e.p = "receiver", Accounted(e, s),
         e.me.state = "TRANSFER", e.me.item < Len(Sizes),
         e.wire["private"].phase \in {"sent", "denied"},
         NEW x \in OnHttpClientComplete(e)
  PROVE  x \in Entry /\ x.p = "receiver" /\ Accounted(x, s)
<1> DEFINE n == e.me.item
           want == e.wire["private"].want
           i == Idle(e)
           same == Got(e, e.place, e.me.bytes, n)
           broken == Got(e, [e.place EXCEPT ![want] = "broken"], e.me.bytes, n)
           stored == Got(e, [e.place EXCEPT ![n + 1] = "whole"],
                         e.me.bytes + Sizes[n + 1], n + 1)
<1>1. /\ e.me \in ShareRecord /\ e.wire["private"] \in Wire
      /\ e.place \in [Item -> {"absent", "whole", "broken"}]
      /\ n \in 0 .. Len(Sizes) /\ n \in Nat /\ e.me.bytes \in Nat
  <2>1. /\ e.me \in ShareRecord /\ e.wire["private"] \in Wire
        /\ e.place \in [Item -> {"absent", "whole", "broken"}]
    BY EntryFields DEF Conn
  <2> QED BY <2>1, ShareFields, SizesAre
<1>2. /\ want = n + 1 /\ n + 1 \in Item /\ n + 1 \in 0 .. Len(Sizes)
      /\ Sizes[n + 1] \in Nat /\ e.me.bytes + Sizes[n + 1] \in Nat
  <2>1. want = n + 1
    BY DEF Accounted, Has
  <2>2. n + 1 \in 1 .. Len(Sizes)
    BY <1>1, SizesAre
  <2>3. Sizes[n + 1] \in Nat
    BY <2>2, SizesAre
  <2> QED BY <1>1, <2>1, <2>2, <2>3, SizesAre DEF Item
<1>3. ~Says(e.out, "reject") /\ ~Says(e.out, "complete") /\ e.me.state \notin Complete
      /\ \A j \in 1 .. n : e.place[j] = "whole"
  BY DEF Accounted, Has, Failed, Complete
<1>4. i = same /\ [i EXCEPT !.place[want] = "broken"] = broken
  BY <1>1 DEF Idle, Got, Entry, ShareRecord
<1>5. [i EXCEPT !.place[n + 1] = "whole", !.me.bytes = @ + Sizes[n + 1], !.me.item = @ + 1] = stored
  BY <1>1 DEF Idle, Got, Entry, ShareRecord
<1>6. CASE e.wire["private"].phase = "denied"
  <2>1. x = SetState(broken, "FAILURE", FALSE)
    BY <1>4, <1>6 DEF OnHttpClientComplete, DownloadFailed
  <2> DEFINE folder == [e.place EXCEPT ![want] = "broken"]
  <2>2. folder \in [Item -> {"absent", "whole", "broken"}] /\ \A j \in 1 .. n : folder[j] = "whole"
    <3>1. \A j \in 1 .. n : j \in Item /\ j # want
      BY <1>1, <1>2, SizesAre DEF Item
    <3> QED BY <1>1, <1>2, <1>3, <3>1
  <2> HIDE DEF folder, n, i, want
  <2>3. /\ broken \in Entry /\ broken.p = e.p /\ broken.out = e.out /\ broken.place = folder
        /\ broken.me.item = n /\ broken.me.state = e.me.state /\ ~broken.me.counter
        /\ broken.wire["private"].phase = "idle"
    <3>1. broken = Got(e, folder, e.me.bytes, n)
      BY DEF folder, want
    <3>2. e.me.bytes \in Nat /\ n \in 0 .. Len(Sizes)
      BY <1>1
    <3> HIDE DEF broken, same, stored
    <3> QED BY <2>2, <3>1, <3>2, GotIs
  <2> HIDE DEF broken
  <2>4. Has(broken)
    BY <1>3, <2>2, <2>3 DEF Has, Complete
  <2>5. ASSUME "original" \notin case.browsing PROVE CountedBy(broken, s)
    <3>1. CountedBy(e, s)
      BY <2>5 DEF Accounted
    <3>2. s.bytes = SizeOf[n]
      BY <1>3, <1>6, <3>1 DEF CountedBy, Counts, n
    <3> QED BY <2>3, <3>1, <3>2 DEF CountedBy, Counts, n
  <2> QED BY <2>1, <2>3, <2>4, <2>5, FailureAccounted DEF Accounted
<1>7. CASE e.wire["private"].phase = "sent"
  <2>1. x \in NextDownload(stored) \/ x = SetState(same, "FAILURE", FALSE)
    BY <1>4, <1>5, <1>7 DEF OnHttpClientComplete, ItemStored
  <2>2. ASSUME "original" \notin case.browsing
        PROVE  CountedBy(e, s) /\ s.bytes = SizeOf[n + 1]
    BY <1>7, <2>2 DEF Accounted, CountedBy, Counts
  <2>3. CASE x \in NextDownload(stored)
    <3> DEFINE folder == [e.place EXCEPT ![n + 1] = "whole"]
               bytes == e.me.bytes + Sizes[n + 1]
               m == n + 1
    <3>1. folder \in [Item -> {"absent", "whole", "broken"}] /\ \A j \in 1 .. m : folder[j] = "whole"
      <4>1. \A j \in 1 .. m : j \in Item /\ (j # m => j \in 1 .. n)
        BY <1>1, <1>2, SizesAre DEF Item
      <4> QED BY <1>1, <1>2, <1>3, <4>1
    <3>2. bytes \in Nat /\ m \in 0 .. Len(Sizes)
      BY <1>2
    <3>3. stored = Got(e, folder, bytes, m)
      OBVIOUS
    <3> HIDE DEF folder, bytes, stored
    <3>4. /\ stored \in Entry /\ stored.p = e.p /\ stored.out = e.out /\ stored.place = folder
          /\ stored.me.item = m /\ stored.me.state = e.me.state /\ ~stored.me.counter
          /\ stored.wire["private"].phase = "idle"
      BY <3>1, <3>2, <3>3, GotIs
    <3>5. s.bytes = SizeOf[m] \/ "original" \in case.browsing
      BY <2>2
    <3>6. TotalSize = SizeOf[Len(Sizes)] /\ m = n + 1
      BY DEF TotalSize
    <3>7. ASSUME "original" \notin case.browsing PROVE CountedBy(stored, s)
      <4>1. CountedBy(e, s)
        BY <2>2, <3>7
      <4>2. s.state = "COMPLETE" => s.bytes >= TotalSize
        <5>1. n # Len(Sizes)
          BY <1>1, SizesAre
        <5> QED BY <4>1, <5>1 DEF CountedBy, Counts
      <4>3. /\ s.serving # "proxy"
            /\ s.state \in Failed /\ ~Blamed(s) => e.me.state \in Failed
        BY <4>1 DEF CountedBy, Counts
      <4> HIDE DEF m
      <4> QED BY <3>4, <3>5, <3>7, <4>2, <4>3 DEF CountedBy, Counts
    <3> HIDE DEF m
    <3>8. Has(stored)
      BY <1>3, <3>1, <3>4 DEF Has, Complete
    <3> HIDE DEF n
    <3> QED BY <2>3, <3>4, <3>7, <3>8, NextAccounted DEF Accounted
  <2>4. CASE x = SetState(same, "FAILURE", FALSE)
    <3> HIDE DEF n, i, stored, broken
    <3>1. /\ same \in Entry /\ same.p = e.p /\ same.out = e.out /\ same.place = e.place
          /\ same.me.item = n /\ same.me.state = e.me.state /\ ~same.me.counter
          /\ same.wire["private"].phase = "idle"
      BY <1>1, GotIs
    <3> HIDE DEF same
    <3>2. "FAILURE" \in Complete \cup {"OFFER", "TRANSFER"} /\ FALSE \in BOOLEAN
          /\ "FAILURE" \in Complete /\ "FAILURE" # "COMPLETE"
      BY DEF Complete
    <3>3. x \in Entry /\ Calm(same, x) /\ x.p = same.p /\ x.me.state = "FAILURE"
      BY <1>3, <2>4, <3>1, <3>2, SetStateCalm
    <3> DEFINE k == [same.me EXCEPT !.state = "FAILURE"]
               y == [same EXCEPT !.me = k]
    <3>4. /\ k \in ShareRecord /\ k.item = n /\ k.state = "FAILURE" /\ ~k.counter
          /\ k.bytes = same.me.bytes /\ k.counter = same.me.counter /\ k.serving = same.me.serving
          /\ (Blamed(k) <=> Blamed(same.me)) /\ k.item = same.me.item
      <4>1. same.me \in ShareRecord
        BY <3>1, EntryFields
      <4> QED BY <3>1, <3>2, <4>1 DEF ShareRecord, Blamed
    <3> HIDE DEF k
    <3>5. /\ y \in Entry /\ y.p = same.p /\ y.me = k /\ y.out = same.out
          /\ y.wire = same.wire /\ y.place = same.place
      BY <3>1, <3>4, WithShare
    <3> HIDE DEF y
    <3>6. Calm(y, x)
      <4>1. Steady(y.me, x.me)
        BY <3>3, <3>4, <3>5 DEF Calm, Still, Steady
      <4> QED BY <3>3, <3>4, <3>5, <4>1 DEF Calm, Still, Silent
    <3>7. Has(y)
      BY <1>3, <3>1, <3>4, <3>5 DEF Has
    <3>8. ASSUME "original" \notin case.browsing PROVE CountedBy(y, s)
      <4>1. CountedBy(e, s) /\ s.bytes = SizeOf[n + 1] /\ n < Len(Sizes)
        BY <2>2, <3>8 DEF n
      <4>2. y.me.state \in Failed /\ y.me.state \in Complete /\ y.me.item = n
            /\ y.wire["private"].phase = "idle"
        BY <3>1, <3>2, <3>4, <3>5 DEF Failed
      <4> QED BY <4>1, <4>2 DEF CountedBy, Counts, n
    <3> QED BY <3>1, <3>2, <3>3, <3>5, <3>6, <3>7, <3>8, CalmAccounted DEF Accounted
  <2> QED BY <2>1, <2>3, <2>4
<1> QED BY <1>6, <1>7

-----------------------------------------------------------------------------
(* One peer, then the other                                                   *)

AccountInv == Accounted(Here("receiver"), sender)

\* What a turn of p leaves to p, and to the other.
LEMMA HereTurns ==
  ASSUME ShareInv, NEW p \in Peer, NEW f \in Entry, NEW queue, f.p = p, Makes(p, f, queue)
  PROVE  /\ Here(p)' = f /\ share'[p] = f.me /\ share'[Other(p)] = share[Other(p)]
         /\ Here(Other(p))' = [p |-> Other(p), me |-> share[Other(p)], out |-> queue,
                               wire |-> f.wire, place |-> f.place]
<1>1. Other(p) \in Peer /\ Other(p) # p /\ Other(Other(p)) = p
  BY Others
<1>2. share \in [Peer -> ShareRecord] /\ net \in [Peer -> Seq(Stanza)]
  BY DEF ShareInv, TypeOK
<1>3. /\ share'[p] = f.me /\ share'[Other(p)] = share[Other(p)]
      /\ net'[p] = queue /\ net'[Other(p)] = f.out /\ wire' = f.wire /\ place' = f.place
  BY <1>1, <1>2 DEF Makes
<1>4. Here(p)' = [p |-> p, me |-> share'[p], out |-> net'[Other(p)], wire |-> wire', place |-> place']
  BY DEF Here
<1>5. f = [p |-> f.p, me |-> f.me, out |-> f.out, wire |-> f.wire, place |-> f.place]
  BY DEF Entry
<1>6. Here(p)' = f
  BY <1>3, <1>4, <1>5
<1>7. Here(Other(p))' = [p |-> Other(p), me |-> share'[Other(p)], out |-> net'[Other(Other(p))],
                         wire |-> wire', place |-> place']
  BY DEF Here
<1> QED BY <1>1, <1>3, <1>6, <1>7

\* The account holds of what the receiver has come to.
LEMMA ReceiverTurn ==
  ASSUME ShareInv, NEW f \in Entry, NEW queue, f.p = "receiver", Makes("receiver", f, queue),
         Accounted(f, sender)
  PROVE  AccountInv'
<1>1. "receiver" \in Peer /\ Other("receiver") = "sender"
  BY Others DEF Peer
<1>2. Here("receiver")' = f /\ share'["sender"] = share["sender"]
  BY <1>1, HereTurns
<1>3. sender' = sender /\ case'.browsing = case.browsing
  BY <1>2 DEF sender, Makes
<1> QED BY <1>2, <1>3 DEF AccountInv, Accounted

\* What the sender may come to.
Tells(f) ==
  "original" \notin case.browsing =>
    /\ f.me.state = "COMPLETE" =>
         sender.state = "COMPLETE" \/ receiver.item = Len(Sizes) \/ sender.bytes >= TotalSize
    /\ f.me.state \in Failed /\ ~Blamed(f.me) => sender.state \in Failed \/ receiver.state \in Failed

\* The account holds of what the sender has come to.
LEMMA SenderTurn ==
  ASSUME ShareInv, AccountInv, NEW f \in Entry, NEW queue, Makes("sender", f, queue),
         Still(Here("sender"), f), Tells(f),
         \A type \in {"reject", "complete"} : Says(queue, type) => Says(net["sender"], type)
  PROVE  AccountInv'
<1> DEFINE h == Here("receiver")
           x == [p |-> "receiver", me |-> receiver, out |-> queue, wire |-> f.wire, place |-> f.place]
           v == wire["private"]
           w == f.wire["private"]
           n == receiver.item
<1>1. /\ "sender" \in Peer /\ Other("sender") = "receiver" /\ Other("receiver") = "sender"
  BY Others DEF Peer
<1>2. /\ h.me = receiver /\ h.out = net["sender"] /\ h.wire = wire /\ h.place = place
      /\ Here("sender").p = "sender" /\ Here("sender").me = sender
      /\ Here("sender").wire = wire /\ Here("sender").place = place
  BY <1>1 DEF Here, sender, receiver
<1>3. /\ f.p = "sender" /\ Steady(sender, f.me)
      /\ w.phase = v.phase /\ w.want = v.want /\ w.kind = v.kind /\ v.gone \subseteq w.gone
      /\ v.channel \in {"opening", "open"} => w.channel \in {"opening", "open"}
      /\ f.me.serving = sender.serving
           \/ (f.me.serving = "none" /\ (v.channel \in {"opening", "open"} => "sender" \in w.gone))
      /\ \A i \in Item : f.place[i] = place[i]
  BY <1>2 DEF Still
<1>4. h' = x /\ sender' = f.me
  BY <1>1, <1>3, HereTurns DEF sender, receiver
<1>5. case'.browsing = case.browsing
  BY DEF Makes
<1>6. Has(h) /\ ("original" \notin case.browsing => CountedBy(h, sender))
  BY DEF AccountInv, Accounted
<1>7. n \in 0 .. Len(Sizes) /\ Len(Sizes) \in Nat /\ v.phase \in {"idle", "asked", "serving", "sent", "denied"}
  <2>1. receiver \in ShareRecord /\ v \in Wire
    BY DEF ShareInv, TypeOK, receiver, Peer, Conn
  <2> QED BY <2>1, ShareFields, SizesAre DEF Wire
<1> HIDE DEF h
<1>8. Has(x)
  <2>1. \A i \in 1 .. n : i \in Item
    BY <1>7 DEF Item
  <2> HIDE DEF v, w, n
  <2>2. /\ \A i \in 1 .. n : f.place[i] = "whole"
        /\ receiver.counter => w.phase # "idle"
        /\ w.phase # "idle" => w.want = n + 1 /\ w.kind = "original"
        /\ receiver.state = "COMPLETE" => n = Len(Sizes)
        /\ Says(queue, "reject") => receiver.state \in Failed
        /\ Says(queue, "complete") => n = Len(Sizes)
    BY <1>2, <1>3, <1>6, <2>1 DEF Has, n, v
  <2> QED BY <2>2 DEF Has, n, w
<1>9. ASSUME "original" \notin case.browsing PROVE CountedBy(x, f.me)
  <2>1. /\ sender.serving # "proxy"
        /\ v.phase = "serving" =>
             /\ v.channel \in {"opening", "open"}
             /\ "sender" \in v.gone \/ (sender.serving = "private" /\ sender.item + 1 = v.want)
        /\ v.phase \in {"asked", "serving"} => sender.bytes = SizeOf[n]
        /\ v.phase = "sent" => sender.bytes = SizeOf[n + 1]
        /\ v.phase \in {"idle", "denied"} =>
             \/ sender.bytes = SizeOf[n]
             \/ receiver.state \in Complete /\ n < Len(Sizes) /\ sender.bytes = SizeOf[n + 1]
        /\ sender.state \in Failed /\ ~Blamed(sender) => receiver.state \in Failed
        /\ sender.state = "COMPLETE" => n = Len(Sizes) \/ sender.bytes >= TotalSize
    BY <1>2, <1>6, <1>9 DEF CountedBy, Counts
  <2>2. /\ f.me.item = sender.item /\ f.me.bytes = sender.bytes /\ (Blamed(sender) => Blamed(f.me))
    BY <1>3 DEF Steady
  <2>3. /\ f.me.state = "COMPLETE" => sender.state = "COMPLETE" \/ n = Len(Sizes) \/ sender.bytes >= TotalSize
        /\ f.me.state \in Failed /\ ~Blamed(f.me) => sender.state \in Failed \/ receiver.state \in Failed
    BY <1>9 DEF Tells
  <2> HIDE DEF v, w, n
  <2>4. /\ f.me.serving # "proxy"
        /\ w.phase = "serving" =>
             /\ w.channel \in {"opening", "open"}
             /\ "sender" \in w.gone \/ (f.me.serving = "private" /\ f.me.item + 1 = w.want)
        /\ w.phase \in {"asked", "serving"} => f.me.bytes = SizeOf[n]
        /\ w.phase = "sent" => f.me.bytes = SizeOf[n + 1]
        /\ w.phase \in {"idle", "denied"} =>
             \/ f.me.bytes = SizeOf[n]
             \/ receiver.state \in Complete /\ n < Len(Sizes) /\ f.me.bytes = SizeOf[n + 1]
        /\ f.me.state \in Failed /\ ~Blamed(f.me) => receiver.state \in Failed
        /\ f.me.state = "COMPLETE" => n = Len(Sizes) \/ f.me.bytes >= TotalSize
    BY <1>3, <2>1, <2>2, <2>3
  <2> QED BY <2>4 DEF CountedBy, Counts, n, w
<1> HIDE DEF x
<1> QED BY <1>4, <1>5, <1>8, <1>9 DEF AccountInv, Accounted, h

-----------------------------------------------------------------------------
(* What tells the other peer nothing                                          *)

\* A turn that neither completes nor, without blame, fails.
Loyal(e, f) ==
  /\ Calm(e, f)
  /\ f.me.state = "COMPLETE" => e.me.state = "COMPLETE"
  /\ f.me.state \in Failed => e.me.state \in Failed \/ Blamed(f.me)

\* What is loyal twice is loyal.
LEMMA LoyalTrans ==
  ASSUME NEW e, NEW f, NEW g, Loyal(e, f), Loyal(f, g)
  PROVE  Loyal(e, g)
<1>1. Calm(e, g)
  BY CalmTrans DEF Loyal
<1>2. Blamed(f.me) => Blamed(g.me)
  BY DEF Loyal, Calm, Still, Steady
<1> QED BY <1>1, <1>2 DEF Loyal

\* What is calm and in the state it was in is loyal.
LEMMA CalmLoyal ==
  ASSUME NEW e, NEW f, Calm(e, f), f.me.state = e.me.state
  PROVE  Loyal(e, f)
BY DEF Loyal

\* A state of the session that is no end of it.
LEMMA LiveLoyal ==
  ASSUME NEW e \in Entry, NEW state \in Live
  PROVE  LET x == Enter(e, state) IN x \in Entry /\ x.p = e.p /\ Loyal(e, x)
<1> DEFINE x == Enter(e, state)
<1>1. x \in Entry /\ Calm(e, x) /\ x.p = e.p /\ (e.me.session # state => Turned(e, state, x))
  BY EnterCalm
<1>2. Failed \subseteq Complete /\ "COMPLETE" \in Complete
  BY DEF Failed, Complete
<1>3. CASE e.me.session = state
  <2>1. x = e
    BY <1>3 DEF Enter
  <2> QED BY <1>1, <2>1, CalmLoyal
<1>4. CASE e.me.session # state /\ e.me.state \in Complete
  <2>1. x.me.state = e.me.state
    BY <1>1, <1>4 DEF Calm, Still, Steady
  <2> QED BY <1>1, <2>1, CalmLoyal
<1>5. CASE e.me.session # state /\ e.me.state \notin Complete
  <2>1. x.me.state \notin Complete
    BY <1>1, <1>5 DEF Turned
  <2> QED BY <1>1, <1>2, <2>1 DEF Loyal
<1> QED BY <1>3, <1>4, <1>5

\* What is left of a queue says no more.
LEMMA TailSilent ==
  ASSUME NEW s \in Seq(Stanza), s # <<>>, NEW type, Says(Tail(s), type)
  PROVE  Says(s, type)
<1>1. /\ Tail(s) \in Seq(Stanza) /\ Len(Tail(s)) = Len(s) - 1 /\ Len(s) \in Nat \ {0}
      /\ \A i \in 1 .. Len(Tail(s)) : Tail(s)[i] = s[i + 1]
  BY HeadTailProperties, EmptySeq, LenProperties
<1>2. DOMAIN s = 1 .. Len(s) /\ DOMAIN Tail(s) = 1 .. Len(Tail(s))
  BY <1>1, LenProperties
<1>3. \A i \in DOMAIN Tail(s) : i + 1 \in DOMAIN s /\ Tail(s)[i] = s[i + 1]
  BY <1>1, <1>2
<1> QED BY <1>3 DEF Says

\* Such a turn leaves the account right.
LEMMA LoyalAccount ==
  ASSUME ShareInv, AccountInv, NEW p \in Peer, NEW f \in Entry, NEW queue,
         Loyal(Here(p), f), Makes(p, f, queue),
         queue = net[p] \/ (net[p] # <<>> /\ queue = Tail(net[p]))
  PROVE  AccountInv'
<1>1. Here(p) \in Entry /\ Here(p).p = p
  BY HereIsReady DEF Good, Sound, Loose, Ready
<1>2. CASE p = "receiver"
  <2>1. Accounted(f, sender)
    BY <1>1, <1>2, CalmAccounted DEF AccountInv, Loyal
  <2>2. f.p = "receiver"
    BY <1>1, <1>2 DEF Loyal, Calm, Still
  <2> QED BY <1>2, <2>1, <2>2, ReceiverTurn
<1>3. CASE p = "sender"
  <2>1. net[p] \in Seq(Stanza)
    BY DEF ShareInv, TypeOK
  <2>2. \A type \in {"reject", "complete"} : Says(queue, type) => Says(net["sender"], type)
    BY <1>3, <2>1, TailSilent
  <2>3. Here(p).me = sender
    BY <1>3 DEF Here, sender
  <2>4. Tells(f)
    BY <2>3 DEF Tells, Loyal
  <2>5. Still(Here("sender"), f) /\ Makes("sender", f, queue)
    BY <1>3 DEF Loyal, Calm
  <2> QED BY <2>2, <2>4, <2>5, SenderTurn
<1> QED BY <1>2, <1>3 DEF Peer

\* As a turn in which p takes nothing.
LEMMA LoyalTurn ==
  ASSUME ShareInv, AccountInv, NEW p \in Peer, NEW f \in Entry, Loyal(Here(p), f), Turn(p, f),
         case' \in Case, case'.browsing = case.browsing
  PROVE  AccountInv'
BY TurnMakes, LoyalAccount

\* A request is refused or lost.
LEMMA RefusedAccount ==
  ASSUME ShareInv, AccountInv, NEW p \in Peer, net[p] # <<>>,
         share' = [share EXCEPT ![Other(p)] = Unanswered(Other(p))],
         net' = [net EXCEPT ![p] = Tail(@)],
         UNCHANGED <<wire, place>>,
         case' \in Case, case'.browsing = case.browsing
  PROVE  AccountInv'
<1> DEFINE q == Other(p)
           h == Here(q)
           n == share[q].unanswered + 1
           k == [h.me EXCEPT !.unanswered = n]
           u == IF share[q].session = "NULL" THEN h ELSE [h EXCEPT !.me = k]
           f == [u EXCEPT !.out = Tail(net[p])]
<1>1. q \in Peer /\ Other(q) = p /\ q # p
  BY Others
<1>2. /\ h.p = q /\ h.me = share[q] /\ h.out = net[p] /\ h.wire = wire /\ h.place = place
      /\ h \in Entry
  BY <1>1, HereIsReady DEF Here, Good, Sound, Loose
<1>3. share[q] \in ShareRecord /\ net[p] \in Seq(Stanza) /\ n \in Nat
  BY <1>1, ShareFields DEF ShareInv, TypeOK
<1>4. u.me = Unanswered(q)
  BY <1>2 DEF Unanswered
<1> HIDE DEF q, n
<1>5. /\ u \in Entry /\ u.p = q /\ Calm(h, u) /\ u.out = net[p] /\ u.me.state = h.me.state
      /\ u.wire = wire /\ u.place = place
  <2>1. CASE share[q].session = "NULL"
    BY <1>2, <2>1, CalmSelf
  <2>2. CASE share[q].session # "NULL"
    <3>1. k \in ShareRecord /\ Steady(h.me, k) /\ k.serving = h.me.serving /\ k.state = h.me.state
      BY <1>2, <1>3 DEF ShareRecord, Steady, Blamed
    <3> DEFINE y == [h EXCEPT !.me = k]
    <3>2. u = y
      BY <2>2
    <3> HIDE DEF k, h
    <3>3. /\ y \in Entry /\ Calm(h, y) /\ y.p = h.p /\ y.me = k /\ y.out = h.out /\ y.wire = h.wire
          /\ y.place = h.place
      BY <1>2, <3>1, ShareCalm, WithShare
    <3> HIDE DEF y, u
    <3> QED BY <1>2, <3>1, <3>2, <3>3
  <2> QED BY <2>1, <2>2
<1> HIDE DEF u, h
<1>6. Tail(net[p]) \in Seq(Stanza)
  BY <1>3, TailSays
<1>7. /\ f \in Entry /\ f.p = q /\ f.me = u.me /\ f.out = Tail(net[p]) /\ f.wire = wire
      /\ f.place = place
  BY <1>5, <1>6 DEF Entry
<1> HIDE DEF f
<1>8. Calm(u, f)
  <2>1. \A type : Says(f.out, type) => Says(u.out, type)
    BY <1>3, <1>5, <1>7, TailSilent
  <2> QED BY <1>5, <1>7, <2>1 DEF Calm, Still, Steady, Silent
<1>9. Loyal(h, f)
  BY <1>5, <1>7, <1>8, CalmTrans, CalmLoyal
<1>10. Makes(q, f, net[q])
  <2>1. [net EXCEPT ![q] = net[q], ![p] = Tail(net[p])] = [net EXCEPT ![p] = Tail(net[p])]
    BY <1>1 DEF ShareInv, TypeOK
  <2> QED BY <1>1, <1>4, <1>7, <2>1 DEF Makes, q
<1> QED BY <1>1, <1>7, <1>9, <1>10, LoyalAccount DEF h

\* The session has an error.
LEMMA ErrorAccount ==
  ASSUME ShareInv, AccountInv, NEW p \in Peer, Turn(p, SetError(Here(p))),
         case' \in Case, case'.browsing = case.browsing
  PROVE  AccountInv'
<1> DEFINE h == Here(p)
           x == SetError(h)
<1>1. h \in Entry
  BY HereIsReady DEF Good, Sound, Loose
<1>2. Turn(p, x)
  OBVIOUS
<1> HIDE DEF h
<1>3. x \in Entry /\ Loyal(h, x)
  BY <1>1, SetErrorCalm, CalmLoyal
<1> HIDE DEF x
<1> QED BY <1>2, <1>3, LoyalTurn DEF h

\* A share touched where it has nothing to do with the transfer.
LEMMA TouchedLoyal ==
  ASSUME NEW e \in Entry, NEW k \in ShareRecord, Same(e.me, k)
  PROVE  LET x == [e EXCEPT !.me = k]
         IN x \in Entry /\ Loyal(e, x) /\ x.p = e.p /\ x.me = k
<1> DEFINE x == [e EXCEPT !.me = k]
<1>1. Steady(e.me, k) /\ k.serving = e.me.serving /\ k.state = e.me.state
  BY DEF Same
<1>2. x \in Entry /\ Calm(e, x) /\ x.p = e.p /\ x.me = k
  BY <1>1, ShareCalm
<1> HIDE DEF x
<1> QED BY <1>1, <1>2, CalmLoyal DEF x

\* A request fails.
LEMMA RequestFailsAccount ==
  ASSUME ShareInv, AccountInv, NEW p \in Peer, RequestFails(p)
  PROVE  AccountInv'
<1> DEFINE h == Here(p)
           n == share[p].unanswered - 1
           k == [h.me EXCEPT !.unanswered = n]
           e == [h EXCEPT !.me = k]
           x == SetError(e)
<1>1. h \in Entry /\ h.me = share[p]
  BY HereIsReady DEF Here, Good, Sound, Loose
<1>2. n \in Nat
  <2>1. share[p].unanswered \in Nat
    BY ShareFields DEF ShareInv, TypeOK
  <2> QED BY <2>1 DEF RequestFails
<1>3. [Here(p) EXCEPT !.me.unanswered = @ - 1] = e
  BY <1>1
<1>4. Turn(p, x)
  BY <1>3 DEF RequestFails
<1>5. case' \in Case /\ case'.browsing = case.browsing
  BY NoFault DEF RequestFails
<1> HIDE DEF n, h
<1>6. k \in ShareRecord /\ Same(h.me, k)
  <2>1. h.me \in ShareRecord
    BY <1>1, EntryFields
  <2> QED BY <1>2, <2>1 DEF ShareRecord, Same, Steady, Blamed
<1> HIDE DEF k
<1>7. e \in Entry /\ Loyal(h, e)
  BY <1>1, <1>6, TouchedLoyal
<1> HIDE DEF e
<1>8. x \in Entry /\ Loyal(e, x)
  BY <1>7, SetErrorCalm, CalmLoyal
<1> HIDE DEF x
<1>9. Loyal(Here(p), x)
  BY <1>7, <1>8, LoyalTrans DEF h
<1> QED BY <1>4, <1>5, <1>8, <1>9, LoyalTurn

\* A session ends that is over, or whose share is to blame.
LEMMA TerminateLoyal ==
  ASSUME NEW e \in Entry, Blamed(e.me) \/ e.me.state \in Complete
  PROVE  LET x == Terminate(e) IN x \in Entry /\ Loyal(e, x) /\ x.p = e.p
<1> DEFINE x == Terminate(e)
<1>1. x \in Entry /\ Calm(e, x) /\ x.p = e.p /\ (x.me.state = "COMPLETE" => e.me.state = "COMPLETE")
  BY TerminateCalm
<1> HIDE DEF x
<1>2. /\ Blamed(e.me) => Blamed(x.me)
      /\ e.me.state \in Complete => x.me.state = e.me.state
  BY <1>1 DEF Calm, Still, Steady
<1> QED BY <1>1, <1>2 DEF Loyal, x

\* A message of the session is dispatched.
LEMMA MessageAccount ==
  ASSUME ShareInv, AccountInv, NEW p \in Peer, OnSessionMessage(p)
  PROVE  AccountInv'
<1> DEFINE h == Here(p)
           k == [h.me EXCEPT !.posted = Tail(h.me.posted)]
           e == [h EXCEPT !.me = k]
           x == IF Head(share[p].posted) = "state" THEN OnStateMessage(e) ELSE Terminate(e)
<1>1. Good(h) /\ h \in Entry /\ h.p = p /\ h.me = share[p]
  BY HereIsReady DEF Here, Good, Sound, Loose
<1>2. [Here(p) EXCEPT !.me.posted = Tail(@)] = e
  OBVIOUS
<1>3. Turn(p, x) /\ share[p].posted # <<>>
  BY <1>2 DEF OnSessionMessage
<1>4. case' \in Case /\ case'.browsing = case.browsing
  BY NoFault DEF OnSessionMessage
<1>5. h.me.posted # <<>>
  BY <1>1, <1>3
<1> HIDE DEF h
<1>6. /\ Good(e) /\ e.me.session = h.me.session
      /\ Head(h.me.posted) = "error" => h.me.failed
      /\ Head(h.me.posted) \in {"state", "error"}
  BY <1>1, <1>5, TakenIs
<1>7. k \in ShareRecord /\ Same(h.me, k) /\ k.failed = h.me.failed /\ k.state = h.me.state
  <2>1. h.me \in ShareRecord
    BY <1>1, EntryFields
  <2>2. Tail(h.me.posted) \in Seq({"state", "error"})
    BY <1>5, <2>1, ShareFields, HeadTailProperties
  <2> QED BY <2>1, <2>2 DEF ShareRecord, Same, Steady, Blamed
<1> HIDE DEF k
<1>8. e \in Entry /\ Loyal(h, e) /\ e.me = k
  BY <1>1, <1>7, TouchedLoyal
<1> HIDE DEF e
<1>9. x \in Entry /\ Loyal(e, x)
  <2>1. CASE Head(share[p].posted) # "state"
    <3>1. Blamed(e.me)
      BY <1>1, <1>6, <1>7, <1>8, <2>1 DEF Blamed
    <3> QED BY <1>8, <2>1, <3>1, TerminateLoyal
  <2>2. CASE Head(share[p].posted) = "state"
    <3>1. CASE e.me.session \in {"SENTACCEPT", "RECEIVEDACCEPT"}
      <4>1. x = Enter(e, "INPROGRESS")
        BY <2>2, <3>1 DEF OnStateMessage, Refused, Terminated
      <4>2. "INPROGRESS" \in Live
        BY DEF Live
      <4> QED BY <1>8, <4>1, <4>2, LiveLoyal
    <3>2. CASE e.me.session \in Refused
      <4>1. x = Terminate(e)
        BY <2>2, <3>2 DEF OnStateMessage, Refused, Terminated
      <4>2. Quit(e.me)
        BY <3>2 DEF Quit, Refused, Live
      <4>3. e.me.state \in Complete
        BY <1>6, <4>2 DEF Good
      <4> QED BY <1>8, <4>1, <4>3, TerminateLoyal
    <3>3. CASE e.me.session \in Terminated
      <4>1. x = Destroy(e)
        BY <2>2, <3>3 DEF OnStateMessage, Refused, Terminated
      <4> QED BY <1>8, <4>1, DestroyCalm, CalmLoyal
    <3>4. CASE e.me.session \notin {"SENTACCEPT", "RECEIVEDACCEPT"} \cup Refused \cup Terminated
      <4>1. x = e
        BY <2>2, <3>4 DEF OnStateMessage
      <4> QED BY <1>8, <4>1, CalmSelf, CalmLoyal
    <3> QED BY <3>1, <3>2, <3>3, <3>4
  <2> QED BY <2>1, <2>2
<1> HIDE DEF x
<1>10. Loyal(Here(p), x)
  BY <1>8, <1>9, LoyalTrans DEF h
<1> QED BY <1>3, <1>4, <1>9, <1>10, LoyalTurn

\* A user cancels.
LEMMA CancelAccount ==
  ASSUME ShareInv, AccountInv, NEW p \in Peer, Cancel(p)
  PROVE  AccountInv'
<1> DEFINE h == Here(p)
           k == [h.me EXCEPT !.localCancel = TRUE]
           e == [h EXCEPT !.me = k]
           x == Terminate(e)
<1>1. h \in Entry
  BY HereIsReady DEF Good, Sound, Loose
<1>2. Turn(p, x) /\ case' \in Case /\ case'.browsing = case.browsing
  BY NoFault DEF Cancel
<1> HIDE DEF h
<1>3. k \in ShareRecord /\ Steady(h.me, k) /\ k.serving = h.me.serving /\ Blamed(k) /\ k.state = h.me.state
  <2>1. h.me \in ShareRecord
    BY <1>1, EntryFields
  <2> QED BY <2>1 DEF ShareRecord, Steady, Blamed
<1> HIDE DEF k
<1>4. e \in Entry /\ Calm(h, e) /\ e.me = k
  BY <1>1, <1>3, ShareCalm
<1> HIDE DEF e
<1>5. Loyal(h, e) /\ Blamed(e.me)
  BY <1>3, <1>4, CalmLoyal
<1>6. x \in Entry /\ Loyal(e, x)
  BY <1>4, <1>5, TerminateLoyal
<1> HIDE DEF x
<1>7. Loyal(Here(p), x)
  BY <1>5, <1>6, LoyalTrans DEF h
<1> QED BY <1>2, <1>6, <1>7, LoyalTurn

\* The offer is made.
LEMMA ShareAccount ==
  ASSUME ShareInv, AccountInv, Share
  PROVE  AccountInv'
<1> DEFINE h == Here("sender")
           g == Send(h, "initiate", "private")
           x == Enter(g, "SENTINITIATE")
<1>1. "sender" \in Peer /\ "private" \in Conn /\ "initiate" \notin {"reject", "complete"}
  BY DEF Peer, Conn
<1>2. h \in Entry
  BY <1>1, HereIsReady DEF Good, Sound, Loose
<1>3. Turn("sender", x) /\ case' \in Case /\ case'.browsing = case.browsing
  BY NoFault DEF Share
<1> HIDE DEF h
<1>4. g \in Entry /\ Calm(h, g) /\ g.me = h.me
  BY <1>1, <1>2, SendStill
<1> HIDE DEF g
<1>5. Loyal(h, g)
  BY <1>4, CalmLoyal
<1>6. "SENTINITIATE" \in Live
  BY DEF Live
<1>7. x \in Entry /\ Loyal(g, x)
  BY <1>4, <1>6, LiveLoyal
<1> HIDE DEF x
<1>8. Loyal(Here("sender"), x)
  BY <1>5, <1>7, LoyalTrans DEF h
<1> QED BY <1>1, <1>3, <1>7, <1>8, LoyalTurn

-----------------------------------------------------------------------------
(* What the receiver does                                                     *)

\* Another proxy channel.
LEMMA ProxyLoyal ==
  ASSUME NEW e \in Entry, NEW w \in Wire
  PROVE  LET x == [e EXCEPT !.wire = [e.wire EXCEPT !["proxy"] = w]]
         IN x \in Entry /\ Loyal(e, x) /\ x.p = e.p /\ x.me = e.me
<1> DEFINE wires == [e.wire EXCEPT !["proxy"] = w]
           x == [e EXCEPT !.wire = wires]
<1>1. e.wire \in [Conn -> Wire]
  BY EntryFields
<1>2. wires \in [Conn -> Wire] /\ wires["private"] = e.wire["private"]
  BY <1>1 DEF Conn
<1> HIDE DEF wires
<1>3. /\ x \in Entry /\ x.p = e.p /\ x.me = e.me /\ x.out = e.out /\ x.wire = wires
      /\ x.place = e.place
  BY <1>2 DEF Entry
<1> HIDE DEF x
<1>4. Calm(e, x)
  BY <1>2, <1>3 DEF Calm, Silent, Still, Steady
<1> QED BY <1>3, <1>4, CalmLoyal DEF x, wires

\* The browser asks for an item.
LEMMA BrowseAccount ==
  ASSUME ShareInv, AccountInv, NEW kind \in {"original", "preview"}, NEW i \in Item,
         Browse(kind, i)
  PROVE  AccountInv'
<1> DEFINE h == Here("receiver")
           s == Send(h, "channel", "proxy")
           k == [s.me EXCEPT !.proxies = {"proxy"}, !.wait = FALSE]
           b == [s EXCEPT !.me = k]
           w == [Unused EXCEPT !.channel = "announced", !.kind = kind, !.want = i, !.phase = "asked"]
           x == [b EXCEPT !.wire = [b.wire EXCEPT !["proxy"] = w]]
<1>1. "receiver" \in Peer /\ "proxy" \in Conn /\ "channel" \notin {"reject", "complete"}
  BY DEF Peer, Conn
<1>2. h \in Entry
  BY <1>1, HereIsReady DEF Good, Sound, Loose
<1>3. /\ Turn("receiver", [s EXCEPT !.me.proxies = {"proxy"}, !.me.wait = FALSE, !.wire["proxy"] = w])
      /\ case' \in Case /\ case'.browsing = case.browsing
  BY NoFault DEF Browse
<1> HIDE DEF h, w
<1>4. s \in Entry /\ Calm(h, s) /\ s.me = h.me
  BY <1>1, <1>2, SendStill
<1> HIDE DEF s
<1>5. Turn("receiver", x)
  <2>1. [s EXCEPT !.me.proxies = {"proxy"}, !.me.wait = FALSE, !.wire["proxy"] = w]
          = [b EXCEPT !.wire["proxy"] = w]
    OBVIOUS
  <2>2. [b EXCEPT !.wire["proxy"] = w] = x
    OBVIOUS
  <2> QED BY <1>3, <2>1, <2>2
<1>6. k \in ShareRecord /\ Same(s.me, k)
  <2>1. s.me \in ShareRecord
    BY <1>4, EntryFields
  <2> QED BY <2>1 DEF ShareRecord, Same, Steady, Blamed
<1> HIDE DEF k
<1>7. b \in Entry /\ Loyal(s, b)
  BY <1>4, <1>6, TouchedLoyal
<1> HIDE DEF b
<1>8. w \in Wire
  <2>1. Unused \in Wire
    BY FileShareAssumption DEF Unused, Wire, Item, Peer
  <2> QED BY <2>1 DEF w, Wire
<1>9. x \in Entry /\ Loyal(b, x)
  BY <1>7, <1>8, ProxyLoyal
<1> HIDE DEF x
<1>10. Loyal(h, b)
  BY <1>4, <1>7, CalmLoyal, LoyalTrans
<1>11. Loyal(Here("receiver"), x)
  BY <1>9, <1>10, LoyalTrans DEF h
<1> QED BY <1>1, <1>3, <1>5, <1>9, <1>11, LoyalTurn

\* The browser closes its connection.
LEMMA ProxyClosedAccount ==
  ASSUME ShareInv, AccountInv, OnProxyClosed
  PROVE  AccountInv'
<1> DEFINE h == Here("receiver")
           wait == share["receiver"].state \in Complete /\ ~share["receiver"].closed
           k == [h.me EXCEPT !.proxies = {}, !.wait = wait]
           b == [h EXCEPT !.me = k]
           w == [wire["proxy"] EXCEPT !.gone = @ \cup {"receiver"}]
           x == [b EXCEPT !.wire = [b.wire EXCEPT !["proxy"] = w]]
<1>1. "receiver" \in Peer /\ Other("receiver") = "sender"
  BY Others DEF Peer
<1>2. /\ h.p = "receiver" /\ h.me = share["receiver"] /\ h.wire = wire
      /\ h.out = net["sender"] /\ h.place = place /\ h \in Entry
  BY <1>1, HereIsReady DEF Here, Good, Sound, Loose
<1>3. case' \in Case /\ case'.browsing = case.browsing
  BY NoFault DEF OnProxyClosed
<1>4. wait \in BOOLEAN /\ {} \in SUBSET {"proxy"}
  OBVIOUS
<1>5. /\ share' = [share EXCEPT !["receiver"] = k]
      /\ wire' = [wire EXCEPT !["proxy"] = w] /\ net' = net /\ place' = place
  BY <1>2 DEF OnProxyClosed
<1> HIDE DEF h, wait
<1>6. k \in ShareRecord /\ Same(h.me, k)
  <2>1. h.me \in ShareRecord
    BY <1>2, EntryFields
  <2> QED BY <1>4, <2>1 DEF ShareRecord, Same, Steady, Blamed
<1> HIDE DEF k
<1>7. b \in Entry /\ Loyal(h, b) /\ b.me = k /\ b.out = h.out /\ b.wire = h.wire /\ b.place = h.place
  BY <1>2, <1>6, TouchedLoyal, WithShare
<1> HIDE DEF b
<1>8. w \in Wire
  <2>1. wire["proxy"] \in Wire
    BY DEF ShareInv, TypeOK, Conn
  <2> QED BY <1>1, <2>1, Leaving DEF Leave
<1> HIDE DEF w
<1>9. x \in Entry /\ Loyal(b, x) /\ x.me = b.me
  BY <1>7, <1>8, ProxyLoyal
<1>10. x.wire = [wire EXCEPT !["proxy"] = w] /\ x.out = b.out /\ x.place = b.place
  BY <1>2, <1>7 DEF Entry
<1> HIDE DEF x
<1>11. Turn("receiver", x)
  <2>1. [net EXCEPT !["sender"] = net["sender"]] = net
    BY DEF ShareInv, TypeOK
  <2> QED BY <1>1, <1>2, <1>5, <1>7, <1>9, <1>10, <2>1 DEF Turn
<1>12. Loyal(Here("receiver"), x)
  BY <1>7, <1>9, LoyalTrans DEF h
<1> QED BY <1>1, <1>3, <1>9, <1>11, <1>12, LoyalTurn

\* The timer of the last proxy.
LEMMA ProxyWaitAccount ==
  ASSUME ShareInv, AccountInv, OnProxyWait
  PROVE  AccountInv'
<1> DEFINE h == Here("receiver")
           k == [h.me EXCEPT !.wait = FALSE]
           e == [h EXCEPT !.me = k]
           closes == e.me.proxies = {} /\ e.me.state \in Complete /\ ~e.me.closed
           x == IF closes THEN DoClose(e, TRUE) ELSE e
<1>1. "receiver" \in Peer
  BY DEF Peer
<1>2. h \in Entry
  BY <1>1, HereIsReady DEF Good, Sound, Loose
<1>3. Turn("receiver", x) /\ case' \in Case /\ case'.browsing = case.browsing
  BY NoFault DEF OnProxyWait
<1> HIDE DEF h
<1>4. k \in ShareRecord /\ Same(h.me, k)
  <2>1. h.me \in ShareRecord
    BY <1>2, EntryFields
  <2> QED BY <2>1 DEF ShareRecord, Same, Steady, Blamed
<1> HIDE DEF k
<1>5. e \in Entry /\ Loyal(h, e)
  BY <1>2, <1>4, TouchedLoyal
<1> HIDE DEF e
<1>6. x \in Entry /\ Loyal(e, x)
  <2>1. CASE closes
    <3>1. TRUE \in BOOLEAN
      OBVIOUS
    <3> QED BY <1>5, <2>1, <3>1, DoCloseCalm, CalmLoyal
  <2>2. CASE ~closes
    BY <1>5, <2>2, CalmSelf, CalmLoyal
  <2> QED BY <2>1, <2>2
<1> HIDE DEF x
<1>7. Loyal(Here("receiver"), x)
  BY <1>5, <1>6, LoyalTrans DEF h
<1> QED BY <1>1, <1>3, <1>6, <1>7, LoyalTurn

\* The receiver's turn starts from what is accounted for.
LEMMA HereAccounted ==
  ASSUME ShareInv, AccountInv
  PROVE  LET h == Here("receiver")
         IN /\ Good(h) /\ h \in Entry /\ h.p = "receiver" /\ h.me = receiver /\ h.wire = wire
            /\ h.out = net["sender"] /\ Accounted(h, sender)
BY HereIsReady, Others DEF Peer, Here, receiver, AccountInv, Good, Sound, Loose

\* A turn of the receiver's, as it is made.
LEMMA ReceiverMakes ==
  ASSUME ShareInv, NEW f \in Entry, f.p = "receiver", Turn("receiver", f), Accounted(f, sender),
         case' \in Case, case'.browsing = case.browsing
  PROVE  AccountInv'
<1>1. Makes("receiver", f, net["receiver"])
  BY TurnMakes DEF Peer
<1> QED BY <1>1, ReceiverTurn

\* An item, or what came instead, has arrived.
LEMMA DownloadedAccount ==
  ASSUME ShareInv, AccountInv, Downloaded
  PROVE  AccountInv'
<1> DEFINE h == Here("receiver")
<1>1. /\ Good(h) /\ h \in Entry /\ h.p = "receiver" /\ h.me = receiver /\ h.wire = wire
      /\ Accounted(h, sender)
  BY HereAccounted
<1>2. case' \in Case /\ case'.browsing = case.browsing
  BY NoFault DEF Downloaded
<1>3. h.me.counter /\ h.wire["private"].phase \in {"sent", "denied"}
  BY <1>1 DEF Downloaded, receiver
<1>4. PICK x \in OnHttpClientComplete(h) : Turn("receiver", x)
  BY DEF Downloaded
<1> HIDE DEF h
<1>5. h.me.state = "TRANSFER" /\ h.me.item < Len(Sizes)
  BY <1>1, <1>3 DEF Good, Sound, Settled
<1>6. x \in Entry /\ x.p = "receiver" /\ Accounted(x, sender)
  BY <1>1, <1>3, <1>4, <1>5, AnswerAccounted
<1> QED BY <1>2, <1>4, <1>6, ReceiverMakes

\* The download breaks.
LEMMA BreaksAccount ==
  ASSUME ShareInv, AccountInv, DownloadBreaks
  PROVE  AccountInv'
<1> DEFINE h == Here("receiver")
           b == HangUp(h)
           x == SetState(b, "FAILURE", FALSE)
<1>1. h \in Entry /\ h.p = "receiver" /\ Accounted(h, sender)
  BY HereAccounted
<1>2. Turn("receiver", x) /\ case' \in Case /\ case'.browsing = case.browsing
  BY FaultKeeps DEF DownloadBreaks
<1> HIDE DEF h
<1>3. b \in Entry /\ Calm(h, b) /\ b.p = h.p /\ b.me.state = h.me.state
  BY <1>1, HangUpCalm
<1> HIDE DEF b
<1>4. Accounted(b, sender)
  BY <1>1, <1>3, CalmAccounted
<1>5. x \in Entry /\ x.p = "receiver" /\ Accounted(x, sender)
  BY <1>1, <1>3, <1>4, FailureAccounted
<1> QED BY <1>2, <1>5, ReceiverMakes

\* The user accepts.
LEMMA AcceptAccount ==
  ASSUME ShareInv, AccountInv, Accept
  PROVE  AccountInv'
<1> DEFINE h == Here("receiver")
           s == Send(h, "accept", "private")
           n == Enter(s, "SENTACCEPT")
<1>1. "private" \in Conn /\ "accept" \notin {"reject", "complete"}
  BY DEF Conn
<1>2. Good(h) /\ h \in Entry /\ h.p = "receiver" /\ h.me = receiver /\ Accounted(h, sender)
  BY HereAccounted
<1>3. h.me.state = "OFFER" /\ case' \in Case /\ case'.browsing = case.browsing
  BY <1>2, NoFault DEF Accept, receiver
<1>4. PICK x \in NextDownload(n) : Turn("receiver", x)
  BY DEF Accept
<1> HIDE DEF h
<1>5. h.wire["private"].phase = "idle"
  BY <1>2, <1>3 DEF Good, Sound, Loose
<1>6. s \in Entry /\ Calm(h, s) /\ s.me = h.me
  BY <1>1, <1>2, SendStill
<1> HIDE DEF s
<1>7. "SENTACCEPT" \in Live
  BY DEF Live
<1>8. n \in Entry /\ Loyal(s, n)
  BY <1>6, <1>7, LiveLoyal
<1> HIDE DEF n
<1>9. Loyal(h, n)
  BY <1>6, <1>8, CalmLoyal, LoyalTrans
<1>10. n.p = "receiver" /\ n.wire["private"].phase = "idle"
  BY <1>2, <1>5, <1>9 DEF Loyal, Calm, Still
<1>11. Accounted(n, sender)
  BY <1>2, <1>8, <1>9, CalmAccounted DEF Loyal
<1>12. x \in Entry /\ x.p = "receiver" /\ Accounted(x, sender)
  BY <1>4, <1>8, <1>10, <1>11, NextAccounted
<1> QED BY <1>3, <1>4, <1>12, ReceiverMakes

\* The user declines.
LEMMA DeclineAccount ==
  ASSUME ShareInv, AccountInv, Decline
  PROVE  AccountInv'
<1> DEFINE h == Here("receiver")
           k == [h.me EXCEPT !.localCancel = TRUE]
           e == [h EXCEPT !.me = k]
           s == Send(e, "reject", "private")
           x == Enter(s, "SENTREJECT")
<1>1. Good(h) /\ h \in Entry /\ h.p = "receiver" /\ h.me = receiver /\ Accounted(h, sender)
  BY HereAccounted
<1>2. h.me.state = "OFFER" /\ case' \in Case /\ case'.browsing = case.browsing
  BY <1>1, NoFault DEF Decline, receiver
<1>3. [Send(h, "reject", "private") EXCEPT !.me.localCancel = TRUE] = s
  <2> HIDE DEF h
  <2> QED BY <1>1 DEF Send, Entry
<1>4. Turn("receiver", x)
  BY <1>3 DEF Decline
<1> HIDE DEF h
<1>5. k \in ShareRecord /\ Steady(h.me, k) /\ k.serving = h.me.serving /\ k.state = h.me.state
      /\ k.session = h.me.session
  <2>1. h.me \in ShareRecord
    BY <1>1, EntryFields
  <2> QED BY <2>1 DEF ShareRecord, Steady, Blamed
<1> HIDE DEF k
<1>6. e \in Entry /\ Calm(h, e) /\ e.p = h.p /\ e.me = k
  BY <1>1, <1>5, ShareCalm
<1> HIDE DEF e
<1>7. Accounted(e, sender)
  BY <1>1, <1>2, <1>5, <1>6, CalmAccounted
<1>8. "private" \in Conn /\ "reject" # "complete"
  BY DEF Conn
<1>9. s \in Entry /\ Still(e, s) /\ s.me = e.me /\ (Says(s.out, "complete") => Says(e.out, "complete"))
  BY <1>6, <1>8, SendStill
<1> HIDE DEF s
<1>10. /\ "SENTREJECT" \in Live \cup Refused \cup Terminated
       /\ s.me.session # "SENTREJECT" /\ s.me.state \notin Complete
  <2>1. h.me.session # "SENTREJECT" /\ h.me.state \notin Complete
    BY <1>1, <1>2 DEF Good, Complete, Quit, Live
  <2> QED BY <1>5, <1>6, <1>9, <2>1 DEF Refused
<1>11. x \in Entry /\ Calm(s, x) /\ Turned(s, "SENTREJECT", x)
  BY <1>9, <1>10, EnterCalm
<1> HIDE DEF x
<1>12. x.me.state \in Failed
  BY <1>10, <1>11 DEF Turned
<1>13. Still(e, x)
  BY <1>9, <1>11, StillTrans DEF Calm
<1>14. /\ x.me.state = "COMPLETE" => e.me.state = "COMPLETE" \/ e.me.item = Len(Sizes)
       /\ Says(x.out, "reject") => Says(e.out, "reject") \/ x.me.state \in Failed
       /\ Says(x.out, "complete") => Says(e.out, "complete") \/ e.me.item = Len(Sizes)
  BY <1>9, <1>11, <1>12 DEF Calm, Silent, Failed
<1>15. Accounted(x, sender)
  BY <1>1, <1>6, <1>7, <1>11, <1>13, <1>14, StillAccounted
<1>16. x.p = "receiver"
  BY <1>1, <1>6, <1>13 DEF Still
<1> QED BY <1>2, <1>4, <1>11, <1>15, <1>16, ReceiverMakes

-----------------------------------------------------------------------------
(* What arrives                                                               *)

\* The offer arrives at a receiver that asks for nothing.
LEMMA OfferAccounted ==
  ASSUME NEW e \in Entry, NEW s, e.p = "receiver", Accounted(e, s), e.me.state = "NONE",
         e.wire["private"].phase = "idle", NEW x \in OnInitiateMessage(e)
  PROVE  x \in Entry /\ x.p = "receiver" /\ Accounted(x, s)
<1> DEFINE y == [e EXCEPT !.me.session = "RECEIVEDINITIATE"]
           o == OnSessionState(y, "RECEIVEDINITIATE")
           t == SetState(o, "TRANSFER", FALSE)
<1>1. x \in (IF AcceptsAtOnce THEN {ChooseTransport(Post(f, "state")) : f \in NextDownload(t)}
             ELSE {Post(o, "state")})
  BY DEF OnInitiateMessage
<1>2. "RECEIVEDINITIATE" \in Live
  BY DEF Live
<1>3. y \in Entry /\ Calm(e, y) /\ Same(e.me, y.me) /\ y.p = e.p
  <2>1. "RECEIVEDINITIATE" \in Live \cup Refused \cup Terminated \cup {"INIT", "NULL"}
    BY <1>2
  <2> QED BY <2>1, SessionCalm
<1> HIDE DEF y
<1>4. y.me.state = "NONE" /\ y.me.state \notin Complete
  BY <1>3 DEF Same, Complete
<1>5. o \in Entry /\ Calm(y, o) /\ o.p = y.p /\ o.me.state \notin Complete
  <2>1. "RECEIVEDINITIATE" \in Live \cup Refused \cup Terminated
    BY <1>2
  <2>2. o \in Entry /\ Calm(y, o) /\ o.p = y.p /\ Turned(y, "RECEIVEDINITIATE", o)
    BY <1>3, <2>1, OnSessionStateCalm
  <2> HIDE DEF o
  <2> QED BY <1>2, <1>4, <2>2 DEF Turned
<1> HIDE DEF o
<1>6. "COMPLETE" \in Complete
  BY DEF Complete
<1>7. Calm(e, o) /\ Accounted(o, s) /\ o.p = "receiver" /\ o.wire["private"].phase = "idle"
  <2>1. Calm(e, o)
    BY <1>3, <1>5, CalmTrans
  <2> QED BY <1>3, <1>5, <1>6, <2>1, CalmAccounted DEF Calm, Still
<1>8. ASSUME NEW f \in Entry, f.p = "receiver", Accounted(f, s)
      PROVE  Post(f, "state") \in Entry /\ Post(f, "state").p = "receiver"
             /\ Accounted(Post(f, "state"), s)
  <2> DEFINE z == Post(f, "state")
  <2>1. z \in Entry /\ Calm(f, z) /\ Same(f.me, z.me) /\ z.p = f.p
    BY PostCalm
  <2> HIDE DEF z
  <2>2. Accounted(z, s)
    BY <1>8, <2>1, CalmAccounted DEF Same
  <2> QED BY <1>8, <2>1, <2>2 DEF z
<1>9. ASSUME NEW f \in Entry, f.p = "receiver", Accounted(f, s)
      PROVE  ChooseTransport(f) \in Entry /\ ChooseTransport(f).p = "receiver"
             /\ Accounted(ChooseTransport(f), s)
  <2> DEFINE a == Send(f, "accept", "private")
             z == Enter(a, "SENTACCEPT")
  <2>1. CASE f.me.session # "RECEIVEDINITIATE"
    BY <1>9, <2>1 DEF ChooseTransport
  <2>2. CASE f.me.session = "RECEIVEDINITIATE"
    <3>1. ChooseTransport(f) = z
      BY <2>2 DEF ChooseTransport
    <3>2. "private" \in Conn /\ "accept" \notin {"reject", "complete"} /\ "SENTACCEPT" \in Live
      BY DEF Conn, Live
    <3>3. a \in Entry /\ Calm(f, a) /\ a.p = f.p /\ a.me = f.me
      BY <3>2, SendStill
    <3> HIDE DEF a
    <3>4. z \in Entry /\ z.p = a.p /\ Loyal(a, z)
      BY <3>2, <3>3, LiveLoyal
    <3> HIDE DEF z
    <3>5. Accounted(a, s)
      BY <1>9, <3>3, CalmAccounted
    <3>6. Accounted(z, s)
      BY <1>9, <3>3, <3>4, <3>5, CalmAccounted DEF Loyal
    <3> QED BY <1>9, <3>1, <3>3, <3>4, <3>6
  <2> QED BY <2>1, <2>2
<1>10. CASE AcceptsAtOnce
  <2>1. PICK f \in NextDownload(t) : x = ChooseTransport(Post(f, "state"))
    BY <1>1, <1>10
  <2>2. t \in Entry /\ Calm(o, t) /\ t.p = o.p /\ t.me.state = "TRANSFER"
    <3>1. "TRANSFER" \in Complete \cup {"OFFER", "TRANSFER"} /\ FALSE \in BOOLEAN
      OBVIOUS
    <3> QED BY <1>5, <3>1, SetStateCalm
  <2> HIDE DEF t
  <2>3. t.p = "receiver" /\ t.wire["private"].phase = "idle" /\ Accounted(t, s)
    BY <1>5, <1>7, <2>2, CalmAccounted DEF Calm, Still
  <2>4. f \in Entry /\ f.p = "receiver" /\ Accounted(f, s)
    BY <2>1, <2>2, <2>3, NextAccounted
  <2>5. Post(f, "state") \in Entry /\ Post(f, "state").p = "receiver" /\ Accounted(Post(f, "state"), s)
    BY <1>8, <2>4
  <2> QED BY <1>9, <2>1, <2>5
<1>11. CASE ~AcceptsAtOnce
  BY <1>1, <1>5, <1>7, <1>8, <1>11
<1> QED BY <1>10, <1>11

\* A session that the other has ended, of a receiver.
LEMMA EndedAccounted ==
  ASSUME NEW e \in Entry, NEW s, Good(e), e.p = "receiver", Accounted(e, s),
         NEW state \in {"RECEIVEDREJECT", "RECEIVEDTERMINATE"}
  PROVE  LET x == Enter(e, state) IN x \in Entry /\ x.p = "receiver" /\ Accounted(x, s)
<1> DEFINE x == Enter(e, state)
<1>1. state \in Live \cup Refused \cup Terminated
  BY DEF Refused, Terminated
<1>2. x \in Entry /\ Calm(e, x) /\ x.p = e.p /\ (e.me.session # state => Turned(e, state, x))
  BY <1>1, EnterCalm
<1>3. x.me.state = "COMPLETE" => e.me.state = "COMPLETE"
  <2>1. CASE e.me.session = state
    BY <2>1 DEF Enter
  <2>2. CASE e.me.state \in Complete
    BY <1>2, <2>2 DEF Calm, Still, Steady
  <2>3. CASE e.me.session # state /\ e.me.state \notin Complete
    <3> HIDE DEF x
    <3>1. x.me.state \in Failed
      BY <1>2, <2>3 DEF Turned
    <3> QED BY <3>1 DEF Failed
  <2> QED BY <2>1, <2>2, <2>3
<1> HIDE DEF x
<1> QED BY <1>2, <1>3, CalmAccounted DEF x

\* Who sees the receiver end the session has served everything, or the receiver failed.
LEMMA ReceiverEnded ==
  ASSUME ShareInv, AccountInv, Ends(net["sender"]), "original" \notin case.browsing
  PROVE  receiver.state \in Failed \/ (sender.bytes \in Nat /\ sender.bytes >= TotalSize)
<1> DEFINE h == Here("receiver")
           w == wire["private"]
           n == receiver.item
<1>1. /\ Good(h) /\ h.me = receiver /\ h.wire = wire /\ Accounted(h, sender)
      /\ "receiver" \in Peer /\ Other("receiver") = "sender"
  BY HereAccounted, Others DEF Peer
<1>2. receiver.state \in Complete
  <2>1. Quit(receiver)
    BY <1>1 DEF ShareInv, receiver
  <2> QED BY <1>1, <2>1 DEF Good
<1> HIDE DEF h
<1>3. CASE receiver.state = "COMPLETE"
  <2>1. Has(h) /\ CountedBy(h, sender)
    BY <1>1 DEF Accounted
  <2>2. n = Len(Sizes) /\ (w.phase # "idle" => w.want = n + 1)
    BY <1>1, <1>3, <2>1 DEF Has
  <2>3. w.phase = "idle"
    <3>1. w \in Wire /\ Len(Sizes) \in Nat
      BY SizesAre DEF ShareInv, TypeOK, Conn
    <3>2. w.want \in 1 .. Len(Sizes)
      BY <3>1 DEF Wire, Item
    <3> QED BY <2>2, <3>1, <3>2
  <2>4. sender.bytes = SizeOf[n]
    <3>1. w.phase \in {"idle", "denied"} =>
             \/ sender.bytes = SizeOf[n]
             \/ receiver.state \in Complete /\ n < Len(Sizes) /\ sender.bytes = SizeOf[n + 1]
      BY <1>1, <2>1 DEF CountedBy, Counts
    <3> HIDE DEF w, n
    <3> QED BY <2>2, <2>3, <3>1, SizesAre
  <2>5. sender.bytes = TotalSize
    BY <2>2, <2>4 DEF TotalSize
  <2>6. TotalSize \in Nat
    BY SizeOfType, SizesAre DEF TotalSize
  <2> QED BY <2>5, <2>6
<1> QED BY <1>2, <1>3 DEF Failed

\* What the sender makes of what the receiver says.
LEMMA HeardTells ==
  ASSUME ShareInv, AccountInv, NEW m \in Stanza, NEW i \in DOMAIN net["sender"], net["sender"][i] = m,
         m.type \in {"accept", "reject", "terminate", "channel", "complete"},
         m.type \in {"accept", "reject"} => sender.session = "SENTINITIATE",
         NEW x \in Handle(Here("sender"), m)
  PROVE  x \in Entry /\ Still(Here("sender"), x) /\ Tells(x)
<1> DEFINE h == Here("sender")
<1>1. h \in Entry /\ Good(h) /\ h.me = sender /\ h.p = "sender"
  BY HereIsReady DEF Here, sender, Peer, Good, Sound, Loose
<1>2. Says(net["sender"], m.type)
  BY DEF Says
<1>3. Has(Here("receiver")) /\ Here("receiver").out = net["sender"] /\ Here("receiver").me = receiver
  BY HereAccounted DEF Accounted
<1> HIDE DEF h
<1>4. Failed \subseteq Complete /\ "COMPLETE" \in Complete /\ "COMPLETE" \notin Failed
  BY DEF Failed, Complete
<1>5. ASSUME Loyal(h, x) PROVE Still(h, x) /\ Tells(x)
  BY <1>1, <1>5 DEF Loyal, Calm, Tells
<1>6. ASSUME Calm(h, x), sender.state \in Complete PROVE Still(h, x) /\ Tells(x)
  <2>1. x.me.state = h.me.state
    BY <1>1, <1>6 DEF Calm, Still, Steady
  <2> QED BY <1>5, <1>6, <2>1, CalmLoyal
<1>7. CASE m.type = "accept"
  <2>1. x = Enter(h, "RECEIVEDACCEPT")
    BY <1>7 DEF Handle, h
  <2>2. "RECEIVEDACCEPT" \in Live
    BY DEF Live
  <2>3. x \in Entry /\ Loyal(h, x)
    BY <1>1, <2>1, <2>2, LiveLoyal
  <2> QED BY <1>5, <2>3 DEF h
<1>8. CASE m.type = "reject"
  <2>1. x = Enter(h, "RECEIVEDREJECT")
    BY <1>8 DEF Handle, h
  <2>2. "RECEIVEDREJECT" \in Live \cup Refused \cup Terminated /\ h.me.session # "RECEIVEDREJECT"
    BY <1>1, <1>8 DEF Refused
  <2>3. x \in Entry /\ Calm(h, x) /\ Turned(h, "RECEIVEDREJECT", x)
    BY <1>1, <2>1, <2>2, EnterCalm
  <2>4. receiver.state \in Failed
    BY <1>2, <1>3, <1>8 DEF Has
  <2>5. CASE sender.state \notin Complete
    <3>1. x.me.state \in Failed
      BY <1>1, <2>3, <2>5 DEF Turned
    <3> QED BY <1>4, <2>3, <2>4, <3>1 DEF Tells, Calm, h
  <2> QED BY <1>6, <2>3, <2>5 DEF h
<1>9. CASE m.type = "terminate"
  <2>1. x = Enter(h, "RECEIVEDTERMINATE")
    BY <1>9 DEF Handle, h
  <2>2. "RECEIVEDTERMINATE" \in Live \cup Refused \cup Terminated
    BY DEF Terminated
  <2>3. x \in Entry /\ Calm(h, x) /\ (h.me.session # "RECEIVEDTERMINATE" => Turned(h, "RECEIVEDTERMINATE", x))
    BY <1>1, <2>1, <2>2, EnterCalm
  <2>4. h.me.session = "RECEIVEDTERMINATE" => sender.state \in Complete
    BY <1>1 DEF Good, Quit, Live
  <2>5. CASE sender.state \notin Complete
    <3>1. IF sender.bytes >= TotalSize THEN x.me.state = "COMPLETE" ELSE x.me.state \in Failed
      BY <1>1, <2>3, <2>4, <2>5 DEF Turned
    <3>2. Ends(net["sender"])
      BY <1>9 DEF Ends
    <3>3. Tells(x)
      BY <1>4, <3>1, <3>2, ReceiverEnded DEF Tells
    <3> QED BY <2>3, <3>3 DEF Calm, h
  <2> QED BY <1>6, <2>3, <2>5 DEF h
<1>10. CASE m.type = "channel"
  <2>1. x = OnSessionInfoMessage(h, m)
    BY <1>10 DEF Handle, h
  <2>2. CASE h.me.closed
    <3>1. x = h
      BY <2>1, <2>2 DEF OnSessionInfoMessage
    <3> QED BY <1>1, <1>5, <3>1, CalmSelf, CalmLoyal DEF h
  <2>3. CASE ~h.me.closed
    <3> DEFINE v == h.wire[m.conn]
               w == [v EXCEPT !.channel = "opening"]
               wires == [h.wire EXCEPT ![m.conn] = w]
               y == [h EXCEPT !.wire = wires]
    <3>1. x = y
      BY <1>1, <1>10, <2>1, <2>3 DEF OnSessionInfoMessage
    <3>2. h.wire \in [Conn -> Wire] /\ m.conn \in Conn
      BY <1>1, EntryFields DEF Stanza
    <3>3. /\ w \in Wire /\ w.phase = v.phase /\ w.want = v.want /\ w.kind = v.kind /\ w.gone = v.gone
          /\ w.channel = "opening"
      BY <3>2 DEF Wire
    <3> HIDE DEF w
    <3>4. /\ wires \in [Conn -> Wire]
          /\ m.conn = "private" => wires["private"] = w
          /\ m.conn # "private" => wires["private"] = h.wire["private"]
      BY <3>2, <3>3 DEF Conn
    <3> HIDE DEF wires
    <3>5. y \in Entry /\ y.p = h.p /\ y.me = h.me /\ y.out = h.out /\ y.wire = wires /\ y.place = h.place
      BY <1>1, <3>4 DEF Entry
    <3> HIDE DEF y
    <3>6. LET a == h.wire["private"] b == wires["private"]
          IN /\ b.phase = a.phase /\ b.want = a.want /\ b.kind = a.kind /\ a.gone \subseteq b.gone
             /\ a.channel \in {"opening", "open"} => b.channel \in {"opening", "open"}
      <4>1. CASE m.conn = "private"
        BY <3>3, <3>4, <4>1
      <4>2. CASE m.conn # "private"
        BY <3>4, <4>2
      <4> QED BY <4>1, <4>2
    <3>7. Calm(h, y)
      BY <3>5, <3>6 DEF Calm, Silent, Still, Steady
    <3>8. Loyal(h, y)
      BY <3>5, <3>7, CalmLoyal
    <3> QED BY <1>5, <3>1, <3>5, <3>8 DEF h
  <2> QED BY <2>2, <2>3
<1>11. CASE m.type = "complete"
  <2>1. x = OnSessionInfoMessage(h, m)
    BY <1>11 DEF Handle, h
  <2>2. CASE h.me.closed \/ h.me.state \in Complete
    <3>1. x = h
      BY <1>11, <2>1, <2>2 DEF OnSessionInfoMessage
    <3> QED BY <1>1, <1>5, <3>1, CalmSelf, CalmLoyal DEF h
  <2>3. CASE ~(h.me.closed \/ h.me.state \in Complete)
    <3>1. x = SetState(h, "COMPLETE", TRUE)
      BY <1>1, <1>11, <2>1, <2>3 DEF OnSessionInfoMessage
    <3>2. "COMPLETE" \in Complete \cup {"OFFER", "TRANSFER"} /\ TRUE \in BOOLEAN
      BY <1>4
    <3>3. x \in Entry /\ Calm(h, x) /\ x.me.state = "COMPLETE"
      BY <1>1, <2>3, <3>1, <3>2, SetStateCalm
    <3>4. receiver.item = Len(Sizes)
      BY <1>2, <1>3, <1>11 DEF Has
    <3> QED BY <1>4, <3>3, <3>4 DEF Tells, Calm, h
  <2> QED BY <2>2, <2>3
<1> QED BY <1>7, <1>8, <1>9, <1>10, <1>11

\* A stanza is taken.
LEMMA ReceiveAccount ==
  ASSUME ShareInv, AccountInv, NEW p \in Peer, Receive(p)
  PROVE  AccountInv'
<1> DEFINE m == Head(net[p])
           h == Here(p)
<1>1. net[p] \in Seq(Stanza) /\ net[p] # <<>> /\ m \in Stanza /\ m = net[p][1] /\ 1 \in DOMAIN net[p]
  <2>1. net[p] \in Seq(Stanza) /\ net[p] # <<>>
    BY DEF ShareInv, TypeOK, Receive
  <2> QED BY <2>1, HeadTailProperties, EmptySeq, LenProperties
<1>2. case' \in Case /\ case'.browsing = case.browsing
  BY NoFault DEF Receive
<1> HIDE DEF m
<1>3. CASE Refuses(p, m)
  <2>1. /\ share' = [share EXCEPT ![Other(p)] = Unanswered(Other(p))]
        /\ net' = [net EXCEPT ![p] = Tail(@)]
        /\ UNCHANGED <<wire, place>>
    BY <1>3 DEF Receive, m
  <2> QED BY <1>1, <1>2, <2>1, RefusedAccount
<1>4. CASE ~Refuses(p, m)
  <2>1. PICK x \in Handle(h, m) :
          /\ share' = [share EXCEPT ![p] = x.me]
          /\ net' = [net EXCEPT ![p] = Tail(net[p]), ![Other(p)] = x.out]
          /\ wire' = x.wire
          /\ place' = x.place
    BY <1>4 DEF Receive, m
  <2>2. /\ m.type \in {"accept", "reject"} => share[p].session = "SENTINITIATE"
        /\ share[p].session = "INIT" => m.type = "initiate"
    BY <1>4 DEF Refuses
  <2>3. m.type \in {"initiate", "accept", "reject", "terminate", "channel", "complete"}
    BY <1>1 DEF Stanza
  <2>4. m.type = "initiate" => p = "receiver" /\ share[p].session = "INIT"
    BY <1>1 DEF ShareInv, NoOffer, receiver, m, Peer
  <2>5. Makes(p, x, Tail(net[p]))
    BY <1>2, <2>1 DEF Makes
  <2>6. CASE p = "sender"
    <3>1. x \in Entry /\ Still(Here("sender"), x) /\ Tells(x)
      BY <1>1, <2>1, <2>2, <2>3, <2>4, <2>6, HeardTells DEF sender
    <3>2. \A type \in {"reject", "complete"} : Says(Tail(net[p]), type) => Says(net["sender"], type)
      BY <1>1, <2>6, TailSilent
    <3> QED BY <2>5, <2>6, <3>1, <3>2, SenderTurn
  <2>7. CASE p = "receiver"
    <3>1. Good(h) /\ h \in Entry /\ h.p = "receiver" /\ h.me = receiver /\ Accounted(h, sender)
      BY <2>7, HereAccounted
    <3> HIDE DEF h
    <3>2. x \in Entry /\ x.p = "receiver" /\ Accounted(x, sender)
      <4>1. CASE m.type = "initiate"
        <5>1. x \in OnInitiateMessage(h)
          BY <2>1, <4>1 DEF Handle
        <5>2. h.me.state = "NONE" /\ h.wire["private"].phase = "idle"
          BY <2>4, <3>1, <4>1 DEF Good, Sound, Loose, Fit, receiver
        <5> QED BY <3>1, <5>1, <5>2, OfferAccounted
      <4>2. CASE m.type = "accept"
        <5>1. x = Enter(h, "RECEIVEDACCEPT") /\ "RECEIVEDACCEPT" \in Live
          BY <2>1, <4>2 DEF Handle, Live
        <5>2. x \in Entry /\ x.p = h.p /\ Loyal(h, x)
          BY <3>1, <5>1, LiveLoyal
        <5> QED BY <3>1, <5>2, CalmAccounted DEF Loyal
      <4>3. CASE m.type \in {"reject", "terminate"}
        <5>1. PICK state \in {"RECEIVEDREJECT", "RECEIVEDTERMINATE"} : x = Enter(h, state)
          BY <2>1, <4>3 DEF Handle
        <5> QED BY <3>1, <5>1, EndedAccounted
      <4>4. CASE m.type \in {"channel", "complete"}
        <5>1. x = h
          BY <2>1, <3>1, <4>4 DEF Handle, OnSessionInfoMessage
        <5> QED BY <3>1, <5>1
      <4> QED BY <2>3, <4>1, <4>2, <4>3, <4>4
    <3> QED BY <2>5, <2>7, <3>2, ReceiverTurn
  <2> QED BY <2>6, <2>7 DEF Peer
<1> QED BY <1>3, <1>4

-----------------------------------------------------------------------------
(* What the sender's server does                                              *)

\* The account holds when the server leaves the receiver its count.
LEMMA ServerAccount ==
  ASSUME ShareInv, AccountInv, NEW me \in ShareRecord, NEW wires \in [Conn -> Wire],
         share' = [share EXCEPT !["sender"] = me], wire' = wires, UNCHANGED <<net, place>>,
         case'.browsing = case.browsing,
         wires["private"].want = wire["private"].want,
         wires["private"].kind = wire["private"].kind,
         wires["private"].phase = "idle" <=> wire["private"].phase = "idle",
         "original" \notin case.browsing => Counts(wires["private"], receiver, me)
  PROVE  AccountInv'
<1> DEFINE h == Here("receiver")
           x == [p |-> "receiver", me |-> receiver, out |-> net["sender"], wire |-> wires, place |-> place]
<1>1. h.me = receiver /\ h.wire = wire /\ h.out = net["sender"] /\ h.place = place /\ Has(h)
  BY HereAccounted DEF Here, Accounted
<1>2. h' = x /\ sender' = me
  <2>1. share'["sender"] = me /\ share'["receiver"] = receiver
    BY SenderFields DEF Peer, receiver
  <2> QED BY <2>1, Others DEF Here, sender
<1> HIDE DEF h
<1>3. Has(x)
  BY <1>1 DEF Has
<1>4. "original" \notin case.browsing => CountedBy(x, me)
  BY DEF CountedBy
<1> HIDE DEF x
<1> QED BY <1>2, <1>3, <1>4 DEF AccountInv, Accounted, h

\* The account, as the server finds it.
LEMMA Counting ==
  ASSUME ShareInv, AccountInv
  PROVE  /\ "original" \notin case.browsing => Counts(wire["private"], receiver, sender)
         /\ wire["private"].phase # "idle" =>
              wire["private"].want = receiver.item + 1 /\ wire["private"].kind = "original"
         /\ wire["private"] \in Wire /\ receiver \in ShareRecord
<1> DEFINE h == Here("receiver")
<1>1. h \in Entry /\ h.me = receiver /\ h.wire = wire /\ Accounted(h, sender)
  BY HereAccounted
<1> HIDE DEF h
<1>2. wire["private"] \in Wire /\ receiver \in ShareRecord
  BY <1>1, EntryFields DEF Conn
<1> QED BY <1>1, <1>2 DEF Accounted, Has, CountedBy

\* A channel opens.
LEMMA OpensAccount ==
  ASSUME ShareInv, AccountInv, NEW c \in Conn, ChannelOpens(c)
  PROVE  AccountInv'
<1> DEFINE w == [wire[c] EXCEPT !.channel = "open"]
           wires == [wire EXCEPT ![c] = w]
           v == wire["private"]
<1>1. /\ wire' = wires /\ UNCHANGED <<share, net, place>> /\ case'.browsing = case.browsing
  BY NoFault DEF ChannelOpens
<1>2. /\ w \in Wire /\ w.phase = wire[c].phase /\ w.kind = wire[c].kind /\ w.want = wire[c].want
      /\ w.gone = wire[c].gone /\ w.channel = "open"
  BY SenderFields DEF Wire
<1> HIDE DEF w
<1>3. /\ wires \in [Conn -> Wire]
      /\ wires["private"] = IF c = "private" THEN w ELSE v
  BY <1>2, SenderFields
<1> HIDE DEF wires
<1> DEFINE u == wires["private"]
<1>4. /\ u.phase = v.phase /\ u.kind = v.kind /\ u.want = v.want /\ u.gone = v.gone
      /\ u.channel = "open" \/ u.channel = v.channel
  BY <1>2, <1>3
<1> HIDE DEF u
<1>5. "original" \notin case.browsing => Counts(u, receiver, sender)
  BY <1>4, Counting DEF Counts
<1>6. share' = [share EXCEPT !["sender"] = sender]
  BY <1>1, SenderFields DEF sender
<1> QED BY <1>1, <1>3, <1>4, <1>5, <1>6, SenderFields, ServerAccount DEF u

\* An original is asked for.
LEMMA RequestAccount ==
  ASSUME ShareInv, AccountInv, NEW c \in Conn, OnHttpRequest(c)
  PROVE  AccountInv'
<1> DEFINE v == wire["private"]
           n == receiver.item
<1>1. /\ UNCHANGED <<net, place>> /\ case'.browsing = case.browsing
  BY NoFault DEF OnHttpRequest
<1>2. /\ wire[c] \in Wire /\ wire[c].phase = "asked" /\ wire[c].kind = "original"
      /\ wire[c].channel = "open"
  BY SenderFields DEF OnHttpRequest, Asked
<1>3. "original" \notin case.browsing => c = "private"
  BY <1>2, SenderFields DEF ShareInv, OneOriginal, Conn
<1>4. CASE share' = share /\ wire' = [wire EXCEPT ![c].phase = "denied"]
  <2> DEFINE w == [wire[c] EXCEPT !.phase = "denied"]
             wires == [wire EXCEPT ![c] = w]
             u == wires["private"]
  <2>1. wire' = wires
    BY <1>4
  <2>2. w \in Wire /\ w.phase = "denied" /\ w.kind = wire[c].kind /\ w.want = wire[c].want
    BY <1>2 DEF Wire
  <2> HIDE DEF w
  <2>3. wires \in [Conn -> Wire] /\ u = IF c = "private" THEN w ELSE v
    BY <2>2, SenderFields
  <2> HIDE DEF wires, u
  <2>4. share' = [share EXCEPT !["sender"] = sender]
    BY <1>4, SenderFields DEF sender
  <2>5. u.want = v.want /\ u.kind = v.kind /\ (u.phase = "idle" <=> v.phase = "idle")
    BY <1>2, <2>2, <2>3
  <2>6. ASSUME "original" \notin case.browsing PROVE Counts(u, receiver, sender)
    <3>1. Counts(v, receiver, sender) /\ v.phase = "asked" /\ u.phase = "denied"
      BY <1>2, <1>3, <2>2, <2>3, <2>6, Counting
    <3> HIDE DEF v
    <3> QED BY <3>1 DEF Counts
  <2> QED BY <1>1, <2>1, <2>3, <2>4, <2>5, <2>6, SenderFields, ServerAccount DEF u
<1>5. CASE /\ share' = [share EXCEPT !["sender"].asserted =
                                        IF share["sender"].counter THEN @ \cup {"share"} ELSE @,
                                     !["sender"].counter = TRUE, !["sender"].serving = c,
                                     !["sender"].item = wire[c].want - 1]
           /\ wire' = [wire EXCEPT ![c].phase = "serving"]
  <2> DEFINE w == [wire[c] EXCEPT !.phase = "serving"]
             wires == [wire EXCEPT ![c] = w]
             u == wires["private"]
             asserted == IF sender.counter THEN sender.asserted \cup {"share"} ELSE sender.asserted
             item == wire[c].want - 1
             me == [sender EXCEPT !.asserted = asserted, !.counter = TRUE, !.serving = c, !.item = item]
  <2>1. wire' = wires
    BY <1>5
  <2>2. share' = [share EXCEPT !["sender"] = me]
    BY <1>5, SenderFields DEF sender
  <2>3. /\ w \in Wire /\ w.phase = "serving" /\ w.kind = wire[c].kind /\ w.want = wire[c].want
        /\ w.channel = wire[c].channel
    BY <1>2 DEF Wire
  <2> HIDE DEF w
  <2>4. wires \in [Conn -> Wire] /\ u = IF c = "private" THEN w ELSE v
    BY <2>3, SenderFields
  <2> HIDE DEF wires, u
  <2>5. item \in 0 .. Len(Sizes) /\ item + 1 = wire[c].want
    <3>1. wire[c].want \in 1 .. Len(Sizes) /\ Len(Sizes) \in Nat
      BY <1>2, SizesAre DEF Wire, Item
    <3> QED BY <3>1
  <2>6. asserted \in SUBSET {"share", "http"}
    BY SenderFields, ShareFields
  <2> HIDE DEF asserted, item
  <2>7. /\ me \in ShareRecord /\ me.state = sender.state /\ me.bytes = sender.bytes
        /\ me.failed = sender.failed /\ me.localCancel = sender.localCancel
        /\ me.serving = c /\ me.item = item
    BY <2>5, <2>6, SenderFields DEF ShareRecord
  <2> HIDE DEF me
  <2>8. u.want = v.want /\ u.kind = v.kind /\ (u.phase = "idle" <=> v.phase = "idle")
    BY <1>2, <2>3, <2>4
  <2>9. ASSUME "original" \notin case.browsing PROVE Counts(u, receiver, me)
    <3>1. /\ Counts(v, receiver, sender) /\ v.phase = "asked" /\ u.phase = "serving"
          /\ u.channel = "open" /\ me.serving = "private" /\ me.item + 1 = u.want
      BY <1>2, <1>3, <2>3, <2>4, <2>5, <2>7, <2>9, Counting
    <3>2. Blamed(me) <=> Blamed(sender)
      BY <2>7 DEF Blamed
    <3> HIDE DEF v
    <3> QED BY <2>7, <3>1, <3>2 DEF Counts
  <2> QED BY <1>1, <2>1, <2>2, <2>4, <2>7, <2>8, <2>9, ServerAccount DEF u
<1> QED BY <1>4, <1>5 DEF OnHttpRequest

\* A preview is answered: not on the channel of the share itself.
LEMMA PreviewAccount ==
  ASSUME ShareInv, AccountInv, NEW c \in Conn, OnPreviewRequest(c)
  PROVE  AccountInv'
<1> DEFINE w == [wire[c] EXCEPT !.phase = "sent"]
           wires == [wire EXCEPT ![c] = w]
           asserted == sender.asserted \cup {"http"}
           me == [sender EXCEPT !.asserted = asserted]
           v == wire["private"]
<1>1. /\ UNCHANGED <<net, place>> /\ case'.browsing = case.browsing /\ wire' = wires
  BY NoFault DEF OnPreviewRequest
<1>2. wire[c] \in Wire /\ wire[c].phase = "asked" /\ wire[c].kind = "preview"
  BY SenderFields DEF OnPreviewRequest, Asked
<1>3. share' = [share EXCEPT !["sender"] = me]
  BY SenderFields DEF OnPreviewRequest, sender
<1>4. w \in Wire
  BY <1>2 DEF Wire
<1>5. c # "private"
  BY <1>2, Counting
<1> HIDE DEF w
<1>6. wires \in [Conn -> Wire] /\ wires["private"] = v
  BY <1>4, <1>5, SenderFields
<1> HIDE DEF wires
<1>7. asserted \in SUBSET {"share", "http"}
  BY SenderFields, ShareFields
<1> HIDE DEF asserted
<1>8. /\ me \in ShareRecord /\ me.state = sender.state /\ me.bytes = sender.bytes
      /\ me.failed = sender.failed /\ me.localCancel = sender.localCancel
      /\ me.serving = sender.serving /\ me.item = sender.item
  BY <1>7, SenderFields DEF ShareRecord
<1> HIDE DEF me
<1>9. "original" \notin case.browsing => Counts(v, receiver, me)
  <2>1. Blamed(me) <=> Blamed(sender)
    BY <1>8 DEF Blamed
  <2> HIDE DEF v
  <2>2. "original" \notin case.browsing => Counts(v, receiver, sender)
    BY Counting DEF v
  <2> QED BY <1>8, <2>1, <2>2 DEF Counts
<1> QED BY <1>1, <1>3, <1>6, <1>8, <1>9, ServerAccount

\* The sender's share when a request is over.
LEMMA DoneCounts ==
  ASSUME ShareInv, NEW c \in Conn, NEW complete \in BOOLEAN
  PROVE  LET me == RequestDone(sender, c, complete)
         IN IF sender.serving # c THEN me = sender
            ELSE /\ me.serving = "none" /\ me.item = sender.item
                 /\ me.bytes = IF complete THEN sender.bytes + Sizes[sender.item + 1] ELSE sender.bytes
<1> DEFINE bytes == IF complete THEN sender.bytes + Sizes[sender.item + 1] ELSE sender.bytes
           me == [sender EXCEPT !.counter = FALSE, !.serving = "none", !.bytes = bytes]
<1>1. CASE sender.serving # c
  BY <1>1 DEF RequestDone
<1>2. CASE sender.serving = c
  <2>1. RequestDone(sender, c, complete) = me
    BY <1>2 DEF RequestDone
  <2> HIDE DEF bytes
  <2>2. me.serving = "none" /\ me.item = sender.item /\ me.bytes = bytes
    BY SenderFields DEF ShareRecord
  <2> HIDE DEF me
  <2> QED BY <1>2, <2>1, <2>2 DEF bytes
<1> QED BY <1>1, <1>2

\* The last byte of an answer is written.
LEMMA RequestCompleteAccount ==
  ASSUME ShareInv, AccountInv, NEW c \in Conn, OnHttpRequestComplete(c)
  PROVE  AccountInv'
<1> DEFINE w == [wire[c] EXCEPT !.phase = "sent"]
           wires == [wire EXCEPT ![c] = w]
           me == RequestDone(sender, c, TRUE)
           v == wire["private"]
           u == wires["private"]
           n == receiver.item
<1>1. /\ UNCHANGED <<net, place>> /\ case'.browsing = case.browsing
      /\ wire' = wires /\ wire[c].phase = "serving" /\ "sender" \notin wire[c].gone
      /\ share' = [share EXCEPT !["sender"] = me]
  BY NoFault DEF OnHttpRequestComplete, sender
<1>2. w \in Wire /\ w.kind = wire[c].kind /\ w.want = wire[c].want /\ w.phase = "sent"
  BY SenderFields DEF Wire
<1> HIDE DEF w
<1>3. wires \in [Conn -> Wire] /\ u = IF c = "private" THEN w ELSE v
  BY <1>2, SenderFields
<1> HIDE DEF wires, u
<1>4. u.want = v.want /\ u.kind = v.kind /\ (u.phase = "idle" <=> v.phase = "idle")
  BY <1>1, <1>2, <1>3
<1>5. /\ me \in ShareRecord /\ me.state = sender.state
      /\ me.failed = sender.failed /\ me.localCancel = sender.localCancel
  BY DoneIs
<1>6. IF sender.serving # c THEN me = sender
      ELSE /\ me.serving = "none" /\ me.item = sender.item
           /\ me.bytes = sender.bytes + Sizes[sender.item + 1]
  <2>1. TRUE \in BOOLEAN
    OBVIOUS
  <2> QED BY <2>1, DoneCounts
<1> HIDE DEF me
<1>7. ASSUME "original" \notin case.browsing PROVE Counts(u, receiver, me)
  <2>1. Counts(v, receiver, sender)
    BY <1>7, Counting
  <2>2. CASE c = "proxy"
    <3>1. me = sender /\ u = v
      BY <1>3, <1>6, <2>1, <2>2 DEF Counts
    <3> QED BY <2>1, <3>1
  <2>3. CASE c = "private"
    <3>1. /\ v.phase = "serving" /\ u.phase = "sent" /\ sender.serving = "private"
          /\ sender.item + 1 = v.want /\ v.want = n + 1 /\ sender.bytes = SizeOf[n]
      BY <1>1, <1>2, <1>3, <2>1, <2>3, Counting DEF Counts
    <3>2. n \in 0 .. Len(Sizes) - 1
      <4>1. v.want \in 1 .. Len(Sizes) /\ n \in 0 .. Len(Sizes)
        BY Counting, ShareFields DEF Wire, Item
      <4> HIDE DEF v, n
      <4> QED BY <3>1, <4>1, SizesAre
    <3>3. me.bytes = SizeOf[n + 1] /\ me.serving = "none"
      <4>1. SizeOf[n + 1] = SizeOf[n] + Sizes[n + 1]
        BY <3>2, SizeOfIs
      <4> QED BY <1>6, <2>3, <3>1, <4>1
    <3>4. SizeOf[n] \in Nat /\ SizeOf[n + 1] \in Nat /\ SizeOf[n] <= SizeOf[n + 1]
      <4>1. n \in 0 .. Len(Sizes) /\ n + 1 \in 0 .. Len(Sizes) /\ n + 1 \in 1 .. Len(Sizes)
        BY <3>2, SizesAre
      <4>2. SizeOf[n + 1] = SizeOf[n] + Sizes[n + 1]
        BY <3>2, SizeOfIs
      <4>3. SizeOf[n] \in Nat /\ SizeOf[n + 1] \in Nat /\ Sizes[n + 1] \in Nat
        BY <4>1, SizeOfType, SizesAre
      <4> HIDE DEF n
      <4> QED BY <4>2, <4>3
    <3>5. Blamed(me) <=> Blamed(sender)
      BY <1>5 DEF Blamed
    <3>6. me.state = "COMPLETE" => n = Len(Sizes) \/ me.bytes >= TotalSize
      <4>1. sender.state = "COMPLETE" => n = Len(Sizes) \/ sender.bytes >= TotalSize
        BY <2>1 DEF Counts
      <4>2. TotalSize \in Nat
        BY SizeOfType, SizesAre DEF TotalSize
      <4> HIDE DEF n
      <4> QED BY <1>5, <3>1, <3>3, <3>4, <4>1, <4>2
    <3>7. sender.state \in Failed /\ ~Blamed(sender) => receiver.state \in Failed
      BY <2>1 DEF Counts
    <3> HIDE DEF v
    <3> QED BY <1>5, <3>1, <3>3, <3>5, <3>6, <3>7 DEF Counts
  <2> QED BY <2>2, <2>3 DEF Conn
<1> QED BY <1>1, <1>3, <1>4, <1>5, <1>7, ServerAccount DEF u

\* A stream breaks at the sender.
LEMMA StreamClosedAccount ==
  ASSUME ShareInv, AccountInv, NEW c \in Conn, OnServerStreamClosed(c)
  PROVE  AccountInv'
<1> DEFINE w == [wire[c] EXCEPT !.gone = @ \cup {"sender"}]
           wires == [wire EXCEPT ![c] = w]
           me == RequestDone(sender, c, FALSE)
           v == wire["private"]
           u == wires["private"]
<1>1. /\ UNCHANGED <<net, place>> /\ wire' = wires
      /\ share' = [share EXCEPT !["sender"] = me]
  BY DEF OnServerStreamClosed, sender
<1>2. case'.browsing = case.browsing
  BY NoFault, FaultKeeps DEF OnServerStreamClosed
<1>3. /\ w \in Wire /\ w.kind = wire[c].kind /\ w.want = wire[c].want /\ w.phase = wire[c].phase
      /\ w.channel = wire[c].channel /\ w.gone = wire[c].gone \cup {"sender"}
  BY SenderFields DEF Wire
<1> HIDE DEF w
<1>4. wires \in [Conn -> Wire] /\ u = IF c = "private" THEN w ELSE v
  BY <1>3, SenderFields
<1> HIDE DEF wires, u
<1>5. /\ u.want = v.want /\ u.kind = v.kind /\ u.phase = v.phase /\ u.channel = v.channel
      /\ c = "private" => "sender" \in u.gone
      /\ c # "private" => u = v
  BY <1>3, <1>4
<1>6. /\ me \in ShareRecord /\ me.state = sender.state
      /\ me.failed = sender.failed /\ me.localCancel = sender.localCancel
  <2>1. FALSE \in BOOLEAN
    OBVIOUS
  <2> QED BY <2>1, DoneIs
<1>7. IF sender.serving # c THEN me = sender
      ELSE me.serving = "none" /\ me.item = sender.item /\ me.bytes = sender.bytes
  <2>1. FALSE \in BOOLEAN
    OBVIOUS
  <2> QED BY <2>1, DoneCounts
<1> HIDE DEF me
<1>8. ASSUME "original" \notin case.browsing PROVE Counts(u, receiver, me)
  <2>1. Counts(v, receiver, sender)
    BY <1>8, Counting
  <2>2. CASE c = "proxy"
    <3>1. me = sender /\ u = v
      BY <1>5, <1>7, <2>1, <2>2 DEF Counts
    <3> QED BY <2>1, <3>1
  <2>3. CASE c = "private"
    <3>1. /\ me.bytes = sender.bytes /\ me.serving # "proxy" /\ "sender" \in u.gone
      BY <1>5, <1>7, <2>1, <2>3 DEF Counts
    <3>2. Blamed(me) <=> Blamed(sender)
      BY <1>6 DEF Blamed
    <3> HIDE DEF v
    <3> QED BY <1>5, <1>6, <2>1, <3>1, <3>2 DEF Counts
  <2> QED BY <2>2, <2>3 DEF Conn
<1> QED BY <1>1, <1>2, <1>4, <1>5, <1>6, <1>8, ServerAccount DEF u

-----------------------------------------------------------------------------
(* The whole transfer                                                         *)

\* Nothing has been transferred.
LEMMA InitAccount ==
  ASSUME Init
  PROVE  AccountInv
<1> DEFINE h == Here("receiver")
<1>1. /\ h.me = Blank /\ sender = Blank /\ h.out = <<>> /\ h.wire["private"] = Unused
  BY Others DEF Init, Here, sender, Peer, Conn
<1> HIDE DEF h
<1>2. Has(h)
  BY <1>1, SizesAre DEF Has, Blank, Unused, Says
<1>3. Counts(Unused, Blank, Blank)
  BY SizeOfIs DEF Counts, Blank, Unused, Failed, Complete
<1> QED BY <1>1, <1>2, <1>3 DEF AccountInv, Accounted, CountedBy, h

\* Nothing happens.
LEMMA StutterAccount ==
  ASSUME AccountInv, UNCHANGED vars
  PROVE  AccountInv'
BY DEF AccountInv, Accounted, vars, Here, sender

\* Whatever happens.
LEMMA NextAccount ==
  ASSUME ShareInv, AccountInv, [Next]_vars
  PROVE  AccountInv'
<1>1. CASE Share
  BY <1>1, ShareAccount
<1>2. CASE Accept
  BY <1>2, AcceptAccount
<1>3. CASE Decline
  BY <1>3, DeclineAccount
<1>4. CASE OnProxyClosed
  BY <1>4, ProxyClosedAccount
<1>5. CASE OnProxyWait
  BY <1>5, ProxyWaitAccount
<1>6. CASE Downloaded
  BY <1>6, DownloadedAccount
<1>7. CASE DownloadBreaks
  BY <1>7, BreaksAccount
<1>8. ASSUME NEW p \in Peer, Receive(p) PROVE AccountInv'
  BY <1>8, ReceiveAccount
<1>9. ASSUME NEW p \in Peer, RequestFails(p) PROVE AccountInv'
  BY <1>9, RequestFailsAccount
<1>10. ASSUME NEW p \in Peer, Lose(p) PROVE AccountInv'
  BY <1>10, FaultKeeps, RefusedAccount DEF Lose
<1>11. ASSUME NEW p \in Peer, OnSessionMessage(p) PROVE AccountInv'
  BY <1>11, MessageAccount
<1>12. ASSUME NEW p \in Peer, Unwritable(p) PROVE AccountInv'
  BY <1>12, NoFault, ErrorAccount DEF Unwritable
<1>13. ASSUME NEW p \in Peer, SessionFails(p) PROVE AccountInv'
  BY <1>13, FaultKeeps, ErrorAccount DEF SessionFails
<1>14. ASSUME NEW p \in Peer, Cancel(p) PROVE AccountInv'
  BY <1>14, CancelAccount
<1>15. ASSUME NEW kind \in {"original", "preview"}, NEW i \in Item, Browse(kind, i) PROVE AccountInv'
  BY <1>15, BrowseAccount
<1>16. ASSUME NEW c \in Conn, ChannelOpens(c) PROVE AccountInv'
  BY <1>16, OpensAccount
<1>17. ASSUME NEW c \in Conn, OnHttpRequest(c) PROVE AccountInv'
  BY <1>17, RequestAccount
<1>18. ASSUME NEW c \in Conn, OnPreviewRequest(c) PROVE AccountInv'
  BY <1>18, PreviewAccount
<1>19. ASSUME NEW c \in Conn, OnHttpRequestComplete(c) PROVE AccountInv'
  BY <1>19, RequestCompleteAccount
<1>20. ASSUME NEW c \in Conn, OnServerStreamClosed(c) PROVE AccountInv'
  BY <1>20, StreamClosedAccount
<1>21. CASE UNCHANGED vars
  BY <1>21, StutterAccount
<1> QED BY <1>1, <1>2, <1>3, <1>4, <1>5, <1>6, <1>7, <1>8, <1>9, <1>10, <1>11, <1>12, <1>13,
           <1>14, <1>15, <1>16, <1>17, <1>18, <1>19, <1>20, <1>21 DEF Next

\* In every state the receiver has what it has counted, and the sender has counted what
\* the receiver has or is getting, if no browser gets originals.
THEOREM AccountInvariant == Spec => []AccountInv
BY InitAccount, NextAccount, ShareInvariant, PTL DEF Spec

\* A receiver that completes has every item whole in its place, whatever goes wrong.
THEOREM CompleteHasAll == Spec => []ReceiverHasAll
<1>1. AccountInv => ReceiverHasAll
  <2>1. SUFFICES ASSUME AccountInv, receiver.state = "COMPLETE", NEW i \in Item
                 PROVE  place[i] = "whole"
    BY DEF ReceiverHasAll
  <2>2. Has(Here("receiver")) /\ Here("receiver").me = receiver /\ Here("receiver").place = place
    BY <2>1 DEF AccountInv, Accounted, Here, receiver
  <2> QED BY <2>1, <2>2 DEF Has, Item
<1> QED BY <1>1, AccountInvariant, PTL

\* When the receiver has completed, a sender with no error of its session, that has not
\* cancelled, has not failed: if the browser is shown previews only.
THEOREM SuccessReachesSender ==
  ASSUME \A k \in Cases : "original" \notin k.browsing
  PROVE  Spec => []SuccessIsShared
<1>1. ShareInv /\ AccountInv => SuccessIsShared
  <2>1. SUFFICES ASSUME ShareInv, AccountInv, receiver.state = "COMPLETE",
                        ~sender.failed, ~sender.localCancel, sender.state \in Failed
                 PROVE  FALSE
    BY DEF SuccessIsShared, Failed
  <2>2. "original" \notin case.browsing
    BY <2>1 DEF ShareInv, CaseOK
  <2>3. Counts(wire["private"], receiver, sender) /\ ~Blamed(sender)
    BY <2>1, <2>2, Counting DEF Blamed
  <2> QED BY <2>1, <2>3 DEF Counts, Failed
<1> QED BY <1>1, ShareInvariant, AccountInvariant, PTL

\* A sender completes when the receiver has asked for the last item at least: if no item
\* is empty and the browser is shown previews only.
THEOREM CompleteWasAsked ==
  ASSUME \A k \in Cases : "original" \notin k.browsing,
         \A n \in 1 .. Len(Sizes) : Sizes[n] > 0
  PROVE  Spec => []AskedForAll
<1>1. ShareInv /\ AccountInv => AskedForAll
  <2> DEFINE n == receiver.item
             N == Len(Sizes)
             w == wire["private"]
  <2>1. SUFFICES ASSUME ShareInv, AccountInv, sender.state = "COMPLETE"
                 PROVE  n + 1 >= N
    BY DEF AskedForAll
  <2>2. "original" \notin case.browsing
    BY <2>1 DEF ShareInv, CaseOK
  <2>3. Counts(w, receiver, sender) /\ n \in 0 .. N /\ N \in Nat
        /\ w.phase \in {"idle", "asked", "serving", "sent", "denied"}
    BY <2>1, <2>2, Counting, ShareFields, SizesAre DEF Wire
  <2>4. n = N \/ sender.bytes >= TotalSize
    BY <2>1, <2>3 DEF Counts
  <2>5. CASE n = N
    <3> HIDE DEF n, N
    <3> QED BY <2>3, <2>5
  <2>6. CASE n # N /\ sender.bytes >= TotalSize
    <3>1. sender.bytes = SizeOf[n] \/ sender.bytes = SizeOf[n + 1]
      BY <2>3 DEF Counts
    <3>2. ~(n + 1 < N)
      <4>1. SUFFICES ASSUME n + 1 < N PROVE FALSE
        OBVIOUS
      <4>2. n \in 0 .. N - 1 /\ n + 1 \in 0 .. N - 1 /\ n \in 0 .. N /\ n + 1 \in 0 .. N /\ N \in 0 .. N
        <5> HIDE DEF n, N
        <5> QED BY <2>3, <4>1
      <4>3. SizeOf[n] < SizeOf[N] /\ SizeOf[n + 1] < SizeOf[N]
        BY <4>2, SizeOfGrows
      <4>4. SizeOf[n] \in Nat /\ SizeOf[n + 1] \in Nat /\ SizeOf[N] \in Nat
        BY <4>2, SizeOfType
      <4>5. TotalSize = SizeOf[N]
        BY DEF TotalSize
      <4> HIDE DEF n, N
      <4> QED BY <2>6, <3>1, <4>3, <4>4, <4>5
    <3> HIDE DEF n, N
    <3> QED BY <2>3, <3>2
  <2> QED BY <2>4, <2>5, <2>6
<1> QED BY <1>1, ShareInvariant, AccountInvariant, PTL
=============================================================================
