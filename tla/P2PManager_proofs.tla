--------------------------- MODULE P2PManager_proofs ---------------------------
(* Theorems about P2PManager and its FileShareClients.  The application's call  *)
(* and the turns of the signalling threads share send_to_jid_ and manifest_:    *)
(* the invariant says what the two are to each other between any two accesses.  *)
EXTENDS P2PManager, TLAPS

-----------------------------------------------------------------------------
(* The invariant                                                             *)

\* A turn that looks after a friend knows whom, and on which client.
TurnOk(turn) ==
  /\ turn.pc # "idle" => turn.friend \in Friend
  /\ turn.pc \in {"offer", "clear"} => turn.client # 0

\* How the connections follow each other, and what is told of calls of sendFiles.
Structure ==
  /\ manager.client = IF app.pc \in {"delete", "renew"} THEN 0 ELSE manager.epoch
  /\ manager.connected \/ app.pc \in {"forget", "delete", "renew"} => manager.epoch <= MaxLogins
  /\ manager.connected => app.pc \notin {"forget", "delete", "renew"}
  /\ app.pc \in {"address", "search", "offer", "clear"} => sent # <<>>
  /\ \A g \in Epoch :
       /\ epoch[g].thread = "running" => g = manager.epoch /\ app.pc # "renew"
       /\ g > manager.epoch => epoch[g].sendTo = None
       /\ epoch[g].manifest <= Len(sent)
       /\ TurnOk(epoch[g].turn)
  /\ \A s \in DOMAIN shares : shares[s].out => shares[s].file \in 1..Len(sent)

\* The files sent last are offered to nobody.
Unoffered == \A s \in DOMAIN shares : shares[s].out => shares[s].file # Len(sent)

\* The files of n, if any, wait for the friend they were sent to last.
Pending(manifest) == sent # <<>> /\ Unoffered /\ manifest \in {0, Len(sent)}

\* Where calls come from the callbacks, a call or a turn runs, never both, and
\* what waits is what was sent last and has not been offered.
InCallbacks ==
  ~app.host.overlap =>
    LET c == manager.epoch IN
    /\ \A g \in Epoch :
         /\ epoch[g].turn.pc # "idle" => app.pc = "idle" /\ g = c
         /\ epoch[g].turn.pc \in {"offer", "clear"} => epoch[g].turn.client = g
         /\ epoch[g].turn.pc = "offer" => epoch[g].sendTo = epoch[g].turn.friend
    /\ app.pc \in {"address", "search", "offer"} => Unoffered /\ epoch[c].manifest = Len(sent)
    /\ app.pc \in {"search", "offer"} => epoch[c].sendTo = Addressee
    /\ app.pc = "idle" /\ epoch[c].sendTo # None /\ epoch[c].turn.pc # "clear"
         => Pending(epoch[c].manifest) /\ epoch[c].sendTo = Addressee

\* A call has named f, and not a later one than that of the manifest, if there is one.
NamedFor(f, manifest) ==
  \E m \in 1..Len(sent) : sent[m] = f /\ (manifest = 0 \/ m <= manifest)

\* However calls and turns overlap, who waits was named before the files that wait were
\* taken or with them; a call that goes on has its own files, or none.
NamedBefore ==
  /\ \A g \in Epoch :
       /\ epoch[g].sendTo # None => NamedFor(epoch[g].sendTo, epoch[g].manifest)
       /\ epoch[g].turn.pc = "offer" =>
            NamedFor(epoch[g].turn.friend, epoch[epoch[g].turn.client].manifest)
  /\ app.pc \in {"address", "search", "offer"} => epoch[manager.epoch].manifest \in {0, Len(sent)}

ManagerInv == TypeOK /\ Structure /\ InCallbacks /\ NamedBefore /\ OfferedOnce /\ RightAddressee

-----------------------------------------------------------------------------
(* Types                                                                     *)

\* What a connection is made of.
LEMMA EpochFields ==
  ASSUME NEW e \in EpochRecord
  PROVE  /\ e.link \in {"new", "login", "open", "closed"}
         /\ e.thread \in {"new", "running", "stopped"}
         /\ e.turn \in Turn /\ e.turn.friend \in Friend \cup {None}
         /\ e.turn.client \in {0} \cup Epoch /\ e.turn.status \in Presence
         /\ e.inbox \in [Friend -> Seq(Presence)]
         /\ e.posted \in Seq([type : {"stop", "accept", "decline"}, about : {0} \cup ShareId])
         /\ e.manifest \in {0} \cup File /\ e.manifest \in Nat
         /\ e.sendTo \in Friend \cup {None} /\ e.session \in {0} \cup ShareId
<1>1. File \subseteq Nat
  BY P2PManagerAssumption DEF File, Host
<1>2. e.turn \in Turn /\ e.manifest \in {0} \cup File
  BY DEF EpochRecord
<1>3. /\ e.turn.friend \in Friend \cup {None}
      /\ e.turn.client \in {0} \cup Epoch /\ e.turn.status \in Presence
  BY <1>2 DEF Turn
<1>4. e.manifest \in Nat
  <2>1. CASE e.manifest = 0
    BY <2>1
  <2>2. CASE e.manifest \in File
    BY <1>1, <2>2
  <2> QED BY <1>2, <2>1, <2>2
<1> QED BY <1>2, <1>3, <1>4 DEF EpochRecord

\* One connection changes.
LEMMA EpochSet ==
  ASSUME epoch \in [Epoch -> EpochRecord], NEW g \in Epoch, NEW x \in EpochRecord,
         epoch' = [epoch EXCEPT ![g] = x]
  PROVE  /\ epoch' \in [Epoch -> EpochRecord] /\ epoch'[g] = x
         /\ \A h \in Epoch \ {g} : epoch'[h] = epoch[h]
OBVIOUS

\* The bounds of a run are those of its application.
LEMMA HostFields ==
  ASSUME TypeOK
  PROVE  /\ app.host \in Hosts /\ app.host.sends \in Nat /\ app.host.changes \in Nat
         /\ app.host.overlap \in BOOLEAN /\ app \in App
         /\ 1..app.host.sends \subseteq File
         /\ manager \in Manager /\ manager.epoch \in Epoch /\ MaxLogins \in Nat \ {0}
         /\ Epoch \subseteq Nat /\ shares \in Seq(Share) /\ sent \in Seq(Friend)
<1>1. app.host \in Hosts /\ app \in App
  BY DEF TypeOK, App
<1>2. app.host \in Host
  BY <1>1, P2PManagerAssumption
<1>3. 1..app.host.sends \subseteq File
  BY <1>1 DEF File
<1> QED BY <1>1, <1>2, <1>3, P2PManagerAssumption DEF TypeOK, Host, Manager, Epoch

\* The call of the application goes on.
LEMMA AppGoesOn ==
  ASSUME NEW a \in App, NEW b,
         NEW pc \in {"idle", "address", "search", "offer", "clear", "forget", "delete", "renew"},
         b = [a EXCEPT !.pc = pc]
  PROVE  b \in App /\ b.pc = pc /\ b.host = a.host /\ b.asked = a.asked
BY DEF App

\* The screen of the application changes.
LEMMA AppAsks ==
  ASSUME NEW a \in App, NEW b, NEW s \in {0} \cup ShareId, b = [a EXCEPT !.asked = s]
  PROVE  b \in App /\ b.pc = a.pc /\ b.host = a.host
BY DEF App

-----------------------------------------------------------------------------
(* Steps that leave the files to be sent alone                                *)

\* A step that names nobody and takes no files leaves who was named before as it was.
LEMMA NamedStays ==
  ASSUME ManagerInv, sent' = sent,
         app'.pc \in {"address", "search", "offer"} =>
           app.pc \in {"address", "search", "offer"} /\ manager'.epoch = manager.epoch,
         \A h \in Epoch :
           /\ epoch'[h].sendTo \in {None, epoch[h].sendTo}
           /\ epoch'[h].manifest \in {0, epoch[h].manifest}
           /\ \/ epoch'[h].turn.pc # "offer"
              \/ epoch'[h].turn = epoch[h].turn
              \/ /\ epoch'[h].turn.client \in Epoch /\ epoch'[h].turn.friend # None
                 /\ epoch[epoch'[h].turn.client].sendTo = epoch'[h].turn.friend
  PROVE  NamedBefore'
<1>1. ASSUME NEW f, NEW i, NEW j \in {0, i}, NamedFor(f, i)
      PROVE  \E m \in 1..Len(sent') : sent'[m] = f /\ (j = 0 \/ m <= j)
  BY <1>1 DEF NamedFor
<1>2. manager.epoch \in Epoch /\ TypeOK
  BY HostFields DEF ManagerInv
<1>3. ASSUME NEW h \in Epoch, epoch'[h].sendTo # None
      PROVE  \E m \in 1..Len(sent') :
               sent'[m] = epoch'[h].sendTo /\ (epoch'[h].manifest = 0 \/ m <= epoch'[h].manifest)
  <2>1. epoch'[h].sendTo = epoch[h].sendTo /\ epoch'[h].manifest \in {0, epoch[h].manifest}
    BY <1>3
  <2>2. NamedFor(epoch[h].sendTo, epoch[h].manifest)
    BY <1>3, <2>1 DEF ManagerInv, NamedBefore
  <2> QED BY <1>1, <2>1, <2>2
<1>4. ASSUME NEW h \in Epoch, epoch'[h].turn.pc = "offer"
      PROVE  \E m \in 1..Len(sent') :
               /\ sent'[m] = epoch'[h].turn.friend
               /\ \/ epoch'[epoch'[h].turn.client].manifest = 0
                  \/ m <= epoch'[epoch'[h].turn.client].manifest
  <2> DEFINE t == epoch'[h].turn
  <2>1. t.client \in Epoch /\ NamedFor(t.friend, epoch[t.client].manifest)
    <3>1. CASE t = epoch[h].turn
      <4>1. epoch[h] \in EpochRecord
        BY <1>2 DEF TypeOK
      <4>2. t.client \in {0} \cup Epoch
        BY <3>1, <4>1, EpochFields
      <4>3. t.client # 0
        BY <1>4, <3>1 DEF ManagerInv, Structure, TurnOk
      <4> QED BY <1>4, <3>1, <4>2, <4>3 DEF ManagerInv, NamedBefore
    <3>2. CASE /\ t.client \in Epoch /\ t.friend # None
               /\ epoch[t.client].sendTo = t.friend
      BY <3>2 DEF ManagerInv, NamedBefore
    <3> QED BY <1>4, <3>1, <3>2
  <2>2. epoch'[t.client].manifest \in {0, epoch[t.client].manifest}
    BY <2>1
  <2> HIDE DEF t
  <2>3. \E m \in 1..Len(sent') :
          sent'[m] = t.friend /\ (epoch'[t.client].manifest = 0 \/ m <= epoch'[t.client].manifest)
    BY <1>1, <2>1, <2>2
  <2> QED BY <2>3 DEF t
<1>5. app'.pc \in {"address", "search", "offer"} => epoch'[manager'.epoch].manifest \in {0, Len(sent')}
  BY <1>2 DEF ManagerInv, NamedBefore
<1> QED BY <1>3, <1>4, <1>5 DEF NamedBefore, NamedFor

\* Nothing happens to what waits to be sent, nor to what has been offered.
Calm ==
  /\ manager'.client = manager.client /\ manager'.epoch = manager.epoch
  /\ manager'.connected = manager.connected
  /\ app'.pc = app.pc /\ app'.host = app.host /\ sent' = sent
  /\ \A g \in Epoch :
       /\ epoch'[g].turn = epoch[g].turn /\ epoch'[g].sendTo = epoch[g].sendTo
       /\ epoch'[g].thread = "running" => epoch[g].thread = "running"
       /\ \/ epoch'[g].manifest = epoch[g].manifest
          \/ epoch'[g].manifest = 0 /\ (app.host.overlap \/ app.pc = "idle")
  /\ \A s \in DOMAIN shares' :
       shares'[s].out => /\ s \in DOMAIN shares /\ shares[s].out
                         /\ shares'[s].file = shares[s].file
                         /\ shares'[s].friend = shares[s].friend

\* A step that gives no client a new address or manifest keeps the invariant.
LEMMA CalmKeeps ==
  ASSUME ManagerInv, TypeOK', Calm
  PROVE  ManagerInv'
<1>1. manager.epoch \in Epoch /\ Len(sent) \in Nat
  BY HostFields DEF ManagerInv
<1>2. Structure'
  <2>1. ASSUME NEW g \in Epoch
        PROVE  /\ epoch'[g].thread = "running" => g = manager.epoch /\ app.pc # "renew"
               /\ g > manager.epoch => epoch'[g].sendTo = None
               /\ epoch'[g].manifest <= Len(sent)
               /\ TurnOk(epoch'[g].turn)
    BY <1>1 DEF ManagerInv, Structure, Calm
  <2> QED BY <2>1 DEF ManagerInv, Structure, Calm
<1>3. InCallbacks'
  <2> SUFFICES ASSUME ~app.host.overlap PROVE InCallbacks'
    BY DEF InCallbacks, Calm
  <2> DEFINE c == manager.epoch
  <2>1. Unoffered => Unoffered'
    BY DEF Unoffered, Calm
  <2>2. \A g \in Epoch :
          /\ epoch'[g].turn.pc # "idle" => app.pc = "idle" /\ g = c
          /\ epoch'[g].turn.pc \in {"offer", "clear"} => epoch'[g].turn.client = g
          /\ epoch'[g].turn.pc = "offer" => epoch'[g].sendTo = epoch'[g].turn.friend
    BY DEF ManagerInv, InCallbacks, Calm
  <2>3. epoch'[c].sendTo = epoch[c].sendTo /\ epoch'[c].turn = epoch[c].turn
    BY <1>1 DEF Calm
  <2>4. /\ app.pc \in {"address", "search", "offer"} => epoch'[c].manifest = epoch[c].manifest
        /\ epoch'[c].manifest \in {0, epoch[c].manifest}
    BY <1>1 DEF Calm
  <2> HIDE DEF c
  <2>5. manager'.epoch = c /\ app'.pc = app.pc /\ sent' = sent /\ Addressee' = Addressee
    BY DEF Calm, Addressee, c
  <2>6. app.pc \in {"address", "search", "offer"} => Unoffered' /\ epoch'[c].manifest = Len(sent)
    BY <2>1, <2>4 DEF ManagerInv, InCallbacks, c
  <2>7. app.pc \in {"search", "offer"} => epoch'[c].sendTo = Addressee
    BY <2>3 DEF ManagerInv, InCallbacks, c
  <2>8. app.pc = "idle" /\ epoch'[c].sendTo # None /\ epoch'[c].turn.pc # "clear"
          => /\ sent # <<>> /\ Unoffered' /\ epoch'[c].manifest \in {0, Len(sent)}
             /\ epoch'[c].sendTo = Addressee
    BY <2>1, <2>3, <2>4 DEF ManagerInv, InCallbacks, Pending, c
  <2> QED BY <2>2, <2>5, <2>6, <2>7, <2>8 DEF InCallbacks, Pending
<1>4. NamedBefore'
  <2>1. \A h \in Epoch : /\ epoch'[h].sendTo \in {None, epoch[h].sendTo}
                         /\ epoch'[h].manifest \in {0, epoch[h].manifest}
                         /\ epoch'[h].turn = epoch[h].turn
    BY DEF Calm
  <2>2. /\ sent' = sent /\ app'.pc = app.pc /\ manager'.epoch = manager.epoch
    BY DEF Calm
  <2> QED BY <2>1, <2>2, NamedStays
<1>5. OfferedOnce'
  BY DEF ManagerInv, OfferedOnce, Calm
<1>6. RightAddressee'
  BY DEF ManagerInv, RightAddressee, Calm
<1> QED BY <1>2, <1>3, <1>4, <1>5, <1>6 DEF ManagerInv

-----------------------------------------------------------------------------
(* The calm steps                                                            *)

\* A step of connection g that takes nothing but a message, or changes what it
\* has of the stream, is calm where the rest is.
LEMMA CalmSet ==
  ASSUME ManagerInv, NEW g \in Epoch, NEW x \in EpochRecord,
         epoch' = [epoch EXCEPT ![g] = x], x.turn = epoch[g].turn, x.sendTo = epoch[g].sendTo,
         x.thread = "running" => epoch[g].thread = "running",
         \/ x.manifest = epoch[g].manifest
         \/ x.manifest = 0 /\ (app.host.overlap \/ app.pc = "idle")
  PROVE  /\ epoch' \in [Epoch -> EpochRecord]
         /\ \A h \in Epoch :
              /\ epoch'[h].turn = epoch[h].turn /\ epoch'[h].sendTo = epoch[h].sendTo
              /\ epoch'[h].thread = "running" => epoch[h].thread = "running"
              /\ \/ epoch'[h].manifest = epoch[h].manifest
                 \/ epoch'[h].manifest = 0 /\ (app.host.overlap \/ app.pc = "idle")
BY EpochSet DEF ManagerInv, TypeOK

\* The answer of the user is posted.
LEMMA AnswerKeeps ==
  ASSUME ManagerInv, NEW type \in {"accept", "decline"}, Answer(type)
  PROVE  ManagerInv'
<1> DEFINE g == manager.epoch
           posted == Append(epoch[g].posted, [type |-> type, about |-> app.asked])
           x == [epoch[g] EXCEPT !.posted = posted]
<1>1. g \in Epoch /\ epoch[g] \in EpochRecord /\ app \in App /\ TypeOK
  BY HostFields DEF ManagerInv, TypeOK
<1>2. epoch' = [epoch EXCEPT ![g] = x]
  BY DEF Answer
<1>3. posted \in Seq([type : {"stop", "accept", "decline"}, about : {0} \cup ShareId])
  <2>1. app.asked \in {0} \cup ShareId
    BY <1>1 DEF App
  <2>2. [type |-> type, about |-> app.asked] \in
          [type : {"stop", "accept", "decline"}, about : {0} \cup ShareId]
    BY <2>1
  <2>3. epoch[g].posted \in Seq([type : {"stop", "accept", "decline"}, about : {0} \cup ShareId])
    BY <1>1, EpochFields
  <2> QED BY <2>2, <2>3
<1> HIDE DEF posted
<1>4. /\ x \in EpochRecord /\ x.turn = epoch[g].turn /\ x.sendTo = epoch[g].sendTo
      /\ x.thread = epoch[g].thread /\ x.manifest = epoch[g].manifest
  BY <1>1, <1>3 DEF EpochRecord
<1> HIDE DEF x, g
<1>5. app' \in App /\ app'.pc = app.pc /\ app'.host = app.host
  <2>1. app' = [app EXCEPT !.asked = 0]
    BY DEF Answer
  <2> QED BY <1>1, <2>1, AppAsks
<1>6. TypeOK'
  BY <1>1, <1>2, <1>4, <1>5, CalmSet DEF TypeOK, Answer
<1>7. Calm
  BY <1>1, <1>2, <1>4, <1>5, CalmSet DEF Calm, Answer
<1> QED BY <1>6, <1>7, CalmKeeps

\* The stream is open.
LEMMA OnSignonKeeps ==
  ASSUME ManagerInv, NEW g \in Epoch, OnSignon(g)
  PROVE  ManagerInv'
<1> DEFINE inbox == [f \in Friend |-> IF server[f] = "offline" THEN <<>> ELSE <<server[f]>>]
           x == [epoch[g] EXCEPT !.link = "open", !.inbox = inbox]
<1>1. epoch[g] \in EpochRecord /\ TypeOK
  BY DEF ManagerInv, TypeOK
<1>2. epoch' = [epoch EXCEPT ![g] = x]
  BY DEF OnSignon
<1>3. inbox \in [Friend -> Seq(Presence)]
  BY <1>1 DEF TypeOK
<1> HIDE DEF inbox
<1>4. /\ x \in EpochRecord /\ x.turn = epoch[g].turn /\ x.sendTo = epoch[g].sendTo
      /\ x.thread = epoch[g].thread /\ x.manifest = epoch[g].manifest
  BY <1>1, <1>3 DEF EpochRecord
<1> HIDE DEF x
<1>5. /\ manager' \in Manager /\ manager'.client = manager.client
      /\ manager'.epoch = manager.epoch /\ manager'.connected = manager.connected
  BY <1>1 DEF OnSignon, TypeOK, Manager
<1>6. TypeOK'
  BY <1>1, <1>2, <1>4, <1>5, CalmSet DEF TypeOK, OnSignon
<1>7. Calm
  <2>1. UNCHANGED <<shares, app, sent>>
    BY DEF OnSignon
  <2> QED BY <1>2, <1>4, <1>5, <2>1, CalmSet DEF Calm
<1> QED BY <1>6, <1>7, CalmKeeps

\* The presence of a friend changes, and goes to who is connected.
LEMMA PresenceChangesKeeps ==
  ASSUME ManagerInv, NEW f \in Friend, PresenceChanges(f)
  PROVE  ManagerInv'
<1>1. epoch \in [Epoch -> EpochRecord] /\ TypeOK /\ app.host.changes \in Nat
  BY HostFields DEF ManagerInv, TypeOK
<1>2. PICK status \in Presence :
        /\ server' = [server EXCEPT ![f] = status]
        /\ epoch' = [g \in Epoch |-> IF epoch[g].link # "open" THEN epoch[g]
                                     ELSE [epoch[g] EXCEPT !.inbox[f] = Append(@, status)]]
  BY DEF PresenceChanges
<1>3. ASSUME NEW g \in Epoch
      PROVE  /\ epoch'[g] \in EpochRecord /\ epoch'[g].turn = epoch[g].turn
             /\ epoch'[g].sendTo = epoch[g].sendTo /\ epoch'[g].thread = epoch[g].thread
             /\ epoch'[g].manifest = epoch[g].manifest
  <2> DEFINE inbox == [epoch[g].inbox EXCEPT ![f] = Append(@, status)]
             x == [epoch[g] EXCEPT !.inbox = inbox]
  <2>1. epoch[g] \in EpochRecord
    BY <1>1
  <2>2. epoch'[g] = IF epoch[g].link # "open" THEN epoch[g] ELSE x
    BY <1>2
  <2>3. inbox \in [Friend -> Seq(Presence)]
    BY <2>1, EpochFields
  <2> HIDE DEF inbox
  <2>4. /\ x \in EpochRecord /\ x.turn = epoch[g].turn /\ x.sendTo = epoch[g].sendTo
        /\ x.thread = epoch[g].thread /\ x.manifest = epoch[g].manifest
    BY <2>1, <2>3 DEF EpochRecord
  <2> HIDE DEF x
  <2> QED BY <2>1, <2>2, <2>4
<1>4. epoch' \in [Epoch -> EpochRecord]
  BY <1>2, <1>3
<1>5. TypeOK'
  BY <1>1, <1>2, <1>4 DEF TypeOK, PresenceChanges
<1>6. Calm
  BY <1>3 DEF Calm, PresenceChanges
<1> QED BY <1>5, <1>6, CalmKeeps

\* The stream is closed.
LEMMA LinkClosesKeeps ==
  ASSUME ManagerInv, NEW g \in Epoch, LinkCloses(g)
  PROVE  ManagerInv'
<1> DEFINE x == [epoch[g] EXCEPT !.link = "closed", !.inbox = Fresh.inbox]
<1>1. epoch[g] \in EpochRecord /\ TypeOK /\ app.host.changes \in Nat
  BY HostFields DEF ManagerInv, TypeOK
<1>2. epoch' = [epoch EXCEPT ![g] = x]
  BY DEF LinkCloses
<1>3. Fresh.inbox \in [Friend -> Seq(Presence)]
  BY DEF Fresh
<1>4. /\ x \in EpochRecord /\ x.turn = epoch[g].turn /\ x.sendTo = epoch[g].sendTo
      /\ x.thread = epoch[g].thread /\ x.manifest = epoch[g].manifest
  BY <1>1, <1>3 DEF EpochRecord
<1> HIDE DEF x
<1>5. TypeOK'
  <2>1. epoch' \in [Epoch -> EpochRecord]
    BY <1>1, <1>2, <1>4, CalmSet
  <2>2. changes' \in 0..app.host.changes
    BY <1>1 DEF LinkCloses, TypeOK
  <2> QED BY <1>1, <2>1, <2>2 DEF TypeOK, LinkCloses
<1>6. Calm
  <2>1. \A h \in Epoch :
          /\ epoch'[h].turn = epoch[h].turn /\ epoch'[h].sendTo = epoch[h].sendTo
          /\ epoch'[h].thread = "running" => epoch[h].thread = "running"
          /\ \/ epoch'[h].manifest = epoch[h].manifest
             \/ epoch'[h].manifest = 0 /\ (app.host.overlap \/ app.pc = "idle")
    BY <1>2, <1>4, CalmSet
  <2> QED BY <2>1 DEF Calm, LinkCloses
<1> QED BY <1>5, <1>6, CalmKeeps

\* A NULL client is used.
LEMMA NoClientKeeps ==
  ASSUME ManagerInv, NEW g \in Epoch, NoClient(g)
  PROVE  ManagerInv'
<1>1. TypeOK'
  BY DEF ManagerInv, TypeOK, NoClient
<1>2. Calm
  BY DEF Calm, NoClient
<1> QED BY <1>1, <1>2, CalmKeeps

\* What is a share stays one when its state changes.
LEMMA ShareFields ==
  ASSUME NEW s \in Share
  PROVE  /\ s.out \in BOOLEAN /\ s.epoch \in Epoch
         /\ \A state \in Ended \cup {"OFFER", "TRANSFER"} :
              LET t == [s EXCEPT !.state = state]
              IN t \in Share /\ t.out = s.out /\ t.file = s.file /\ t.friend = s.friend
BY DEF Share

\* A friend offers files.
LEMMA OnOfferKeeps ==
  ASSUME ManagerInv, NEW g \in Epoch, NEW f \in Friend, OnOffer(g, f)
  PROVE  ManagerInv'
<1> DEFINE n == Len(shares) + 1
           x == [epoch[g] EXCEPT !.session = n]
           s == [out |-> FALSE, friend |-> f, file |-> 0, epoch |-> g, state |-> "OFFER"]
<1>1. epoch[g] \in EpochRecord /\ TypeOK /\ shares \in Seq(Share) /\ app \in App
  BY HostFields DEF ManagerInv, TypeOK
<1>2. /\ epoch' = [epoch EXCEPT ![g] = x] /\ shares' = Append(shares, s)
      /\ app' = [app EXCEPT !.asked = n]
  BY DEF OnOffer
<1>3. n \in ShareId
  BY <1>1 DEF ShareId
<1>4. s \in Share
  BY DEF Share
<1>5. shares' \in Seq(Share) /\ \A i \in DOMAIN shares' : shares'[i].out => i \in DOMAIN shares /\ shares'[i] = shares[i]
  <2>1. shares' \in Seq(Share) /\ DOMAIN shares = 1..Len(shares)
        /\ DOMAIN shares' = 1..Len(shares) + 1
    BY <1>1, <1>2, <1>4
  <2>2. \A i \in 1..Len(shares) : shares'[i] = shares[i]
    BY <1>1, <1>2, <1>4
  <2>3. shares'[Len(shares) + 1] = s
    BY <1>1, <1>2, <1>4
  <2>4. 1..Len(shares) + 1 = 1..Len(shares) \cup {Len(shares) + 1}
    BY <1>1
  <2> QED BY <2>1, <2>2, <2>3, <2>4
<1> HIDE DEF n
<1>6. /\ x \in EpochRecord /\ x.turn = epoch[g].turn /\ x.sendTo = epoch[g].sendTo
      /\ x.thread = epoch[g].thread /\ x.manifest = epoch[g].manifest
  BY <1>1, <1>3 DEF EpochRecord
<1> HIDE DEF x, s
<1>7. app' \in App /\ app'.pc = app.pc /\ app'.host = app.host
  BY <1>1, <1>2, <1>3, AppAsks
<1>8. TypeOK'
  BY <1>1, <1>2, <1>5, <1>6, <1>7, CalmSet DEF TypeOK, OnOffer
<1>9. Calm
  BY <1>2, <1>5, <1>6, <1>7, CalmSet DEF Calm, OnOffer
<1> QED BY <1>8, <1>9, CalmKeeps

\* The connections e differ from epoch in what is posted, the session or the stream.
Alike(e) ==
  /\ e \in [Epoch -> EpochRecord]
  /\ \A h \in Epoch : /\ e[h].turn = epoch[h].turn /\ e[h].sendTo = epoch[h].sendTo
                      /\ e[h].thread = "running" => epoch[h].thread = "running"
                      /\ e[h].manifest = epoch[h].manifest

\* A message is taken, and the session may be deleted and the thread stopped.
LEMMA TakenAlike ==
  ASSUME ManagerInv, NEW g \in Epoch, epoch[g].posted # <<>>
  PROVE  Alike(Taken(g)) /\ Alike([Taken(g) EXCEPT ![g].session = 0, ![g].thread = "stopped"])
<1> DEFINE posted == Tail(epoch[g].posted)
           x == [epoch[g] EXCEPT !.posted = posted]
           y == [x EXCEPT !.session = 0, !.thread = "stopped"]
<1>1. epoch[g] \in EpochRecord /\ epoch \in [Epoch -> EpochRecord]
  BY DEF ManagerInv, TypeOK
<1>2. posted \in Seq([type : {"stop", "accept", "decline"}, about : {0} \cup ShareId])
  <2> DEFINE S == [type : {"stop", "accept", "decline"}, about : {0} \cup ShareId]
  <2>1. epoch[g].posted \in Seq(S)
    BY <1>1, EpochFields
  <2> HIDE DEF S
  <2>2. Tail(epoch[g].posted) \in Seq(S)
    BY <2>1
  <2> QED BY <2>2 DEF S
<1>3. Taken(g) = [epoch EXCEPT ![g] = x]
  BY DEF Taken
<1> HIDE DEF posted
<1>4. /\ x \in EpochRecord /\ x.turn = epoch[g].turn /\ x.sendTo = epoch[g].sendTo
      /\ x.thread = epoch[g].thread /\ x.manifest = epoch[g].manifest
  BY <1>1, <1>2 DEF EpochRecord
<1> HIDE DEF x
<1>5. /\ y \in EpochRecord /\ y.turn = x.turn /\ y.sendTo = x.sendTo
      /\ y.thread = "stopped" /\ y.manifest = x.manifest
  BY <1>4 DEF EpochRecord
<1>6. [Taken(g) EXCEPT ![g].session = 0, ![g].thread = "stopped"] = [epoch EXCEPT ![g] = y]
  BY <1>1, <1>3
<1> HIDE DEF y
<1> QED BY <1>1, <1>3, <1>4, <1>5, <1>6 DEF Alike

\* A transfer gets to a state; its end may make the client forget its manifest.
LEMMA SessionStateKeeps ==
  ASSUME ManagerInv, NEW e, Alike(e), NEW s \in DOMAIN shares,
         NEW state \in Ended \cup {"OFFER", "TRANSFER"}, OnSessionState(e, s, state),
         app.host.overlap \/ app.pc = "idle", UNCHANGED <<manager, server, sent, changes, crashed>>
  PROVE  ManagerInv'
<1> DEFINE g == shares[s].epoch
           y == [shares[s] EXCEPT !.state = state]
           x == [e[g] EXCEPT !.manifest = 0]
<1>1. TypeOK /\ shares \in Seq(Share) /\ shares[s] \in Share /\ app \in App
  BY HostFields DEF ManagerInv
<1>2. g \in Epoch /\ y \in Share /\ y.out = shares[s].out /\ y.file = shares[s].file
      /\ y.friend = shares[s].friend
  BY <1>1, ShareFields
<1>3. shares' = [shares EXCEPT ![s] = y]
  BY DEF OnSessionState
<1> HIDE DEF y
<1>4. /\ shares' \in Seq(Share) /\ DOMAIN shares' = DOMAIN shares /\ shares'[s] = y
      /\ \A i \in DOMAIN shares \ {s} : shares'[i] = shares[i]
  BY <1>1, <1>2, <1>3
<1>5. \A i \in DOMAIN shares' :
        /\ i \in DOMAIN shares /\ shares'[i].out = shares[i].out
        /\ shares'[i].file = shares[i].file /\ shares'[i].friend = shares[i].friend
  BY <1>2, <1>4
<1>6. app' \in App /\ app'.pc = app.pc /\ app'.host = app.host
  <2>1. app' = app \/ app' = [app EXCEPT !.asked = 0]
    BY DEF OnSessionState
  <2> QED BY <1>1, <2>1, AppAsks
<1>7. epoch' = e \/ epoch' = [e EXCEPT ![g] = x]
  BY DEF OnSessionState
<1> HIDE DEF g
<1>8. /\ x \in EpochRecord /\ x.turn = e[g].turn /\ x.sendTo = e[g].sendTo
      /\ x.thread = e[g].thread /\ x.manifest = 0
  <2>1. e[g] \in EpochRecord
    BY <1>2 DEF Alike
  <2> QED BY <2>1 DEF EpochRecord
<1> HIDE DEF x
<1>9. /\ epoch' \in [Epoch -> EpochRecord]
      /\ \A h \in Epoch :
           /\ epoch'[h].turn = epoch[h].turn /\ epoch'[h].sendTo = epoch[h].sendTo
           /\ epoch'[h].thread = "running" => epoch[h].thread = "running"
           /\ epoch'[h].manifest = epoch[h].manifest \/ epoch'[h].manifest = 0
  BY <1>2, <1>7, <1>8 DEF Alike
<1>10. TypeOK'
  BY <1>1, <1>4, <1>6, <1>9 DEF TypeOK
<1>11. Calm
  BY <1>5, <1>6, <1>9 DEF Calm
<1> QED BY <1>10, <1>11, CalmKeeps

\* The other side, or the network, does something to a transfer.
LEMMA ProgressKeeps ==
  ASSUME ManagerInv, NEW s \in DOMAIN shares, Progress(s)
  PROVE  ManagerInv'
<1>1. PICK state \in {"TRANSFER", "COMPLETE", "REMOTE_CANCEL", "FAILURE"} :
        OnSessionState(epoch, s, state)
  BY DEF Progress
<1>2. Alike(epoch)
  BY DEF Alike, ManagerInv, TypeOK
<1>3. state \in Ended \cup {"OFFER", "TRANSFER"}
  BY DEF Ended
<1> QED BY <1>1, <1>2, <1>3, SessionStateKeeps DEF Progress, BeginTurn

\* A step that leaves the transfers and the application where they are.
LEMMA AlikeKeeps ==
  ASSUME ManagerInv, Alike(epoch'), UNCHANGED <<manager, server, sent, changes, app>>,
         crashed' \in BOOLEAN, shares' \in Seq(Share),
         \A i \in DOMAIN shares' :
           /\ i \in DOMAIN shares /\ shares'[i].out = shares[i].out
           /\ shares'[i].file = shares[i].file /\ shares'[i].friend = shares[i].friend
  PROVE  ManagerInv'
<1>1. TypeOK'
  BY DEF Alike, ManagerInv, TypeOK
<1>2. Calm
  BY DEF Alike, Calm
<1> QED BY <1>1, <1>2, CalmKeeps

\* MSG_STOP.
LEMMA OnStopKeeps ==
  ASSUME ManagerInv, NEW g \in Epoch, OnStop(g)
  PROVE  ManagerInv'
<1>1. PICK s \in {0} \cup DOMAIN shares :
        /\ Takes(g, s, "stop")
        /\ shares' = IF s = 0 \/ shares[s].state \in Ended THEN shares
                     ELSE [shares EXCEPT ![s].state = "FAILURE"]
  BY DEF OnStop
<1>2. /\ shares \in Seq(Share) /\ \A i \in DOMAIN shares : shares[i] \in Share
      /\ 0 \notin DOMAIN shares
  BY HostFields DEF ManagerInv
<1>3. Alike(epoch')
  BY <1>1, TakenAlike DEF OnStop, Takes
<1>4. /\ shares' \in Seq(Share)
      /\ \A i \in DOMAIN shares' :
           /\ i \in DOMAIN shares /\ shares'[i].out = shares[i].out
           /\ shares'[i].file = shares[i].file /\ shares'[i].friend = shares[i].friend
  <2>1. CASE shares' = shares
    BY <1>2, <2>1
  <2>2. CASE s \in DOMAIN shares /\ shares' = [shares EXCEPT ![s].state = "FAILURE"]
    <3> DEFINE y == [shares[s] EXCEPT !.state = "FAILURE"]
    <3>1. /\ y \in Share /\ y.out = shares[s].out /\ y.file = shares[s].file
          /\ y.friend = shares[s].friend
      BY <1>2, <2>2, ShareFields DEF Ended
    <3>2. shares' = [shares EXCEPT ![s] = y]
      BY <2>2
    <3> HIDE DEF y
    <3> QED BY <1>2, <2>2, <3>1, <3>2
  <2> QED BY <1>1, <2>1, <2>2
<1>5. UNCHANGED <<manager, server, sent, changes, app>> /\ crashed' \in BOOLEAN
  BY <1>1 DEF OnStop, Takes, ManagerInv, TypeOK
<1> QED BY <1>3, <1>4, <1>5, AlikeKeeps

\* An answer of the user is taken.
LEMMA OnAnswerKeeps ==
  ASSUME ManagerInv, NEW g \in Epoch, OnAccept(g) \/ OnDecline(g) \/ OnAnswerToNone(g)
  PROVE  ManagerInv'
<1>1. /\ \A i \in DOMAIN shares : shares[i] \in Share
      /\ shares \in Seq(Share)
  BY HostFields DEF ManagerInv
<1>2. /\ epoch[g].posted # <<>> /\ (app.host.overlap \/ app.pc = "idle")
      /\ UNCHANGED <<manager, server, sent, changes>>
  BY DEF OnAccept, OnDecline, OnAnswerToNone, Takes, BeginTurn
<1>3. Alike(Taken(g))
  BY <1>2, TakenAlike
<1>4. CASE epoch' = Taken(g) /\ UNCHANGED <<shares, app>> /\ crashed' \in BOOLEAN
  BY <1>1, <1>2, <1>3, <1>4, AlikeKeeps
<1>5. CASE /\ crashed' = crashed
           /\ \E s \in DOMAIN shares, state \in {"TRANSFER", "LOCAL_CANCEL"} :
                OnSessionState(Taken(g), s, state)
  BY <1>2, <1>3, <1>5, SessionStateKeeps DEF Ended
<1>6. crashed \in BOOLEAN
  BY DEF ManagerInv, TypeOK
<1> QED BY <1>4, <1>5, <1>6 DEF OnAccept, OnDecline, OnAnswerToNone

-----------------------------------------------------------------------------
(* Calls                                                                     *)

\* The types the invariant implies.
LEMMA InvParts ==
  ASSUME ManagerInv
  PROVE  /\ TypeOK /\ epoch \in [Epoch -> EpochRecord] /\ manager \in Manager /\ app \in App
         /\ manager.epoch \in Epoch /\ Len(sent) \in Nat /\ Epoch = 1..MaxLogins + 1
         /\ MaxLogins \in Nat \ {0} /\ sent \in Seq(Friend) /\ shares \in Seq(Share)
         /\ app.pc \in {"idle", "address", "search", "offer", "clear", "forget", "delete", "renew"}
         /\ epoch[manager.epoch] \in EpochRecord /\ None \notin Friend
         /\ app.host.sends \in Nat /\ app.host.overlap \in BOOLEAN
<1>1. TypeOK
  BY DEF ManagerInv
<1> QED BY <1>1, HostFields, P2PManagerAssumption DEF TypeOK, Epoch, App

\* A step of a call, or its beginning, that leaves what waits and what runs as it
\* is: the call goes on, the connection is given up or another is made.
Shift ==
  /\ sent' = sent /\ shares' = shares /\ app'.host = app.host
  /\ \A g \in Epoch :
       /\ epoch'[g].turn = epoch[g].turn /\ epoch'[g].sendTo = epoch[g].sendTo
       /\ epoch'[g].manifest = epoch[g].manifest
       /\ epoch'[g].thread = "running" => g = manager'.epoch /\ app'.pc # "renew"
       /\ ~app.host.overlap => epoch[g].turn.pc = "idle"
  /\ manager'.client = IF app'.pc \in {"delete", "renew"} THEN 0 ELSE manager'.epoch
  /\ manager'.connected \/ app'.pc \in {"forget", "delete", "renew"} => manager'.epoch <= MaxLogins
  /\ manager'.connected => app'.pc \notin {"forget", "delete", "renew"}
  /\ app'.pc \in {"address", "search", "offer", "clear"} => app.pc = "search" /\ app'.pc = "offer"
  /\ \/ manager'.epoch = manager.epoch /\ (app'.pc = "idle" => app.pc \in {"idle", "search"})
     \/ manager'.epoch = manager.epoch + 1 /\ app'.pc # "offer"

\* A step that moves the application's call or the connection on, and leaves the
\* clients as they are, keeps the invariant.
LEMMA ShiftKeeps ==
  ASSUME ManagerInv, TypeOK', Shift
  PROVE  ManagerInv'
<1>1. /\ manager.epoch \in Epoch /\ manager'.epoch \in Epoch /\ Epoch \subseteq Nat
      /\ Len(sent) \in Nat
  BY InvParts DEF TypeOK, Manager, Epoch
<1>7. /\ manager.epoch \in Nat /\ manager'.epoch \in Nat
      /\ manager'.epoch = manager.epoch \/ manager'.epoch = manager.epoch + 1
  BY <1>1 DEF Shift
<1>2. Structure'
  <2>1. ASSUME NEW g \in Epoch
        PROVE  /\ epoch'[g].thread = "running" => g = manager'.epoch /\ app'.pc # "renew"
               /\ g > manager'.epoch => epoch'[g].sendTo = None
               /\ epoch'[g].manifest <= Len(sent)
               /\ TurnOk(epoch'[g].turn)
    <3>1. g > manager'.epoch => g > manager.epoch
      <4>1. g \in Nat
        BY <1>1
      <4> QED BY <1>7, <4>1
    <3> QED BY <3>1 DEF ManagerInv, Structure, Shift
  <2>2. app'.pc \in {"address", "search", "offer", "clear"} => sent # <<>>
    BY DEF ManagerInv, Structure, Shift
  <2>3. \A s \in DOMAIN shares : shares[s].out => shares[s].file \in 1..Len(sent)
    BY DEF ManagerInv, Structure
  <2>4. sent' = sent /\ shares' = shares
    BY DEF Shift
  <2>5. /\ manager'.client = IF app'.pc \in {"delete", "renew"} THEN 0 ELSE manager'.epoch
        /\ manager'.connected \/ app'.pc \in {"forget", "delete", "renew"} => manager'.epoch <= MaxLogins
        /\ manager'.connected => app'.pc \notin {"forget", "delete", "renew"}
    BY DEF Shift
  <2> QED BY <2>1, <2>2, <2>3, <2>4, <2>5 DEF Structure
<1>3. InCallbacks'
  <2> SUFFICES ASSUME ~app.host.overlap PROVE InCallbacks'
    BY DEF InCallbacks, Shift
  <2> DEFINE c == manager.epoch
             d == manager'.epoch
  <2>1. sent' = sent /\ (Unoffered => Unoffered') /\ Addressee' = Addressee /\ c \in Epoch /\ d \in Epoch
    BY <1>1 DEF Shift, Unoffered, Addressee
  <2>2. \A g \in Epoch : epoch'[g].turn.pc = "idle"
    BY DEF Shift
  <2>3. app'.pc \in {"address", "search", "offer"} => app'.pc = "offer" /\ app.pc = "search" /\ d = c
    BY DEF Shift
  <2>4. app.pc = "search" => /\ sent # <<>> /\ Unoffered /\ epoch[c].manifest = Len(sent)
                             /\ epoch[c].sendTo = Addressee
    BY DEF ManagerInv, InCallbacks, Structure
  <2>5. ASSUME app'.pc = "idle", epoch'[d].sendTo # None
        PROVE  /\ sent # <<>> /\ Unoffered' /\ epoch'[d].manifest \in {0, Len(sent)}
               /\ epoch'[d].sendTo = Addressee
    <3>1. epoch'[d].sendTo = epoch[d].sendTo /\ epoch'[d].manifest = epoch[d].manifest
      BY <2>1 DEF Shift
    <3>2. d = c /\ app.pc \in {"idle", "search"}
      <4>1. d > c => epoch[d].sendTo = None
        BY <2>1 DEF ManagerInv, Structure
      <4>2. ~(d > c)
        BY <2>5, <3>1, <4>1
      <4>3. d = c
        BY <1>7, <4>2
      <4> QED BY <1>7, <2>5, <4>3 DEF Shift
    <3>3. epoch[c].turn.pc = "idle"
      BY <2>1 DEF Shift
    <3>4. Pending(epoch[c].manifest) /\ epoch[c].sendTo = Addressee
      BY <2>4, <2>5, <3>1, <3>2, <3>3 DEF ManagerInv, InCallbacks, Pending
    <3> QED BY <2>1, <3>1, <3>2, <3>4 DEF Pending
  <2>6. app'.pc = "offer" => epoch'[d].sendTo = epoch[c].sendTo /\ epoch'[d].manifest = epoch[c].manifest
    BY <2>1, <2>3 DEF Shift
  <2> HIDE DEF c
  <2> QED BY <2>1, <2>2, <2>3, <2>4, <2>5, <2>6 DEF InCallbacks, Pending
<1>4. NamedBefore'
  <2>1. \A h \in Epoch : /\ epoch'[h].sendTo \in {None, epoch[h].sendTo}
                         /\ epoch'[h].manifest \in {0, epoch[h].manifest}
                         /\ epoch'[h].turn = epoch[h].turn
    BY DEF Shift
  <2>2. sent' = sent
    BY DEF Shift
  <2>3. app'.pc \in {"address", "search", "offer"} =>
          app.pc \in {"address", "search", "offer"} /\ manager'.epoch = manager.epoch
    BY DEF Shift
  <2> QED BY <2>1, <2>2, <2>3, NamedStays
<1>5. OfferedOnce'
  BY DEF ManagerInv, OfferedOnce, Shift
<1>6. RightAddressee'
  BY DEF ManagerInv, RightAddressee, Shift
<1> QED BY <1>2, <1>3, <1>4, <1>5, <1>6 DEF ManagerInv

\* No turn runs with a call, unless the two overlap.
LEMMA NoTurns ==
  ASSUME ManagerInv, ~app.host.overlap, app.pc # "idle" \/ BeginCall
  PROVE  \A g \in Epoch : epoch[g].turn.pc = "idle"
BY DEF ManagerInv, InCallbacks, BeginCall

\* connect.
LEMMA ConnectKeeps ==
  ASSUME ManagerInv, Connect
  PROVE  ManagerInv'
<1> DEFINE g == manager.epoch
           x == [epoch[g] EXCEPT !.link = "login", !.thread = "running"]
<1>1. /\ TypeOK /\ g \in Epoch /\ epoch[g] \in EpochRecord /\ app.pc = "idle" /\ ~manager.connected
      /\ g <= MaxLogins /\ manager.client = g /\ manager \in Manager /\ epoch \in [Epoch -> EpochRecord]
  BY InvParts DEF Connect, BeginCall, Call, ManagerInv, Structure
<1>2. epoch' = [epoch EXCEPT ![g] = x]
  BY DEF Connect
<1>3. /\ x \in EpochRecord /\ x.turn = epoch[g].turn /\ x.sendTo = epoch[g].sendTo
      /\ x.manifest = epoch[g].manifest
  BY <1>1 DEF EpochRecord
<1>4. /\ manager' \in Manager /\ manager'.client = g /\ manager'.epoch = g
  BY <1>1 DEF Connect, Manager
<1>5. UNCHANGED <<shares, app, server, sent, changes, crashed>>
  BY DEF Connect
<1> HIDE DEF x
<1>6. TypeOK'
  BY <1>1, <1>2, <1>3, <1>4, <1>5 DEF TypeOK
<1>7. ~app.host.overlap => \A h \in Epoch : epoch[h].turn.pc = "idle"
  BY NoTurns DEF Connect
<1>8. \A h \in Epoch : epoch[h].thread = "running" => h = g
  BY DEF ManagerInv, Structure
<1> HIDE DEF g
<1>9. \A h \in Epoch :
        /\ epoch'[h].turn = epoch[h].turn /\ epoch'[h].sendTo = epoch[h].sendTo
        /\ epoch'[h].manifest = epoch[h].manifest
        /\ epoch'[h].thread = "running" => h = g
  BY <1>1, <1>2, <1>3, <1>8
<1>10. manager'.epoch = manager.epoch
  BY <1>4 DEF g
<1>11. Shift
  BY <1>1, <1>4, <1>5, <1>7, <1>9, <1>10 DEF Shift
<1> QED BY <1>6, <1>11, ShiftKeeps

\* sendFiles looks for the friend in the roster.
LEMMA SearchKeeps ==
  ASSUME ManagerInv, Search
  PROVE  ManagerInv'
<1>1. /\ TypeOK /\ app.pc = "search" /\ app \in App
      /\ app' = [app EXCEPT !.pc = IF manager.roster[Addressee] = "capable" THEN "offer" ELSE "idle"]
      /\ UNCHANGED <<manager, epoch, shares, server, sent, changes, crashed>>
  BY InvParts DEF Search, Call
<1>2. app' \in App /\ app'.pc \in {"offer", "idle"} /\ app'.host = app.host
  BY <1>1, AppGoesOn
<1>3. TypeOK'
  BY <1>1, <1>2 DEF TypeOK
<1>4. ~app.host.overlap => \A h \in Epoch : epoch[h].turn.pc = "idle"
  BY <1>1, NoTurns
<1>5. Shift
  BY <1>1, <1>2, <1>4 DEF Shift, ManagerInv, Structure
<1> QED BY <1>3, <1>5, ShiftKeeps

\* disconnect gives the connection up.
LEMMA DisconnectKeeps ==
  ASSUME ManagerInv, Disconnect
  PROVE  ManagerInv'
<1> DEFINE g == manager.epoch
           posted == Append(epoch[g].posted, [type |-> "stop", about |-> 0])
           x == [epoch[g] EXCEPT !.posted = posted, !.link = "closed", !.inbox = Fresh.inbox]
<1>1. /\ TypeOK /\ g \in Epoch /\ epoch[g] \in EpochRecord /\ app.pc = "idle" /\ app \in App
      /\ g <= MaxLogins /\ manager.client = g /\ manager \in Manager /\ epoch \in [Epoch -> EpochRecord]
  BY InvParts DEF Disconnect, BeginCall, Call, ManagerInv, Structure
<1>2. epoch' = [epoch EXCEPT ![g] = x]
  BY DEF Disconnect
<1>3. /\ posted \in Seq([type : {"stop", "accept", "decline"}, about : {0} \cup ShareId])
      /\ Fresh.inbox \in [Friend -> Seq(Presence)]
  <2> DEFINE S == [type : {"stop", "accept", "decline"}, about : {0} \cup ShareId]
  <2>1. epoch[g].posted \in Seq(S) /\ [type |-> "stop", about |-> 0] \in S
    BY <1>1, EpochFields
  <2> HIDE DEF S
  <2>2. Append(epoch[g].posted, [type |-> "stop", about |-> 0]) \in Seq(S)
    BY <2>1
  <2> QED BY <2>2 DEF S, Fresh
<1> HIDE DEF posted
<1>4. /\ x \in EpochRecord /\ x.turn = epoch[g].turn /\ x.sendTo = epoch[g].sendTo
      /\ x.manifest = epoch[g].manifest /\ x.thread = epoch[g].thread
  BY <1>1, <1>3 DEF EpochRecord
<1>5. manager' \in Manager /\ manager'.client = g /\ manager'.epoch = g /\ ~manager'.connected
  BY <1>1 DEF Disconnect, Manager
<1>6. app' \in App /\ app'.pc = "forget" /\ app'.host = app.host
  BY <1>1 DEF Disconnect, App
<1>7. UNCHANGED <<shares, server, sent, changes, crashed>>
  BY DEF Disconnect
<1> HIDE DEF x
<1>8. TypeOK'
  BY <1>1, <1>2, <1>4, <1>5, <1>6, <1>7 DEF TypeOK
<1>9. ~app.host.overlap => \A h \in Epoch : epoch[h].turn.pc = "idle"
  BY NoTurns DEF Disconnect
<1>10. \A h \in Epoch : epoch[h].thread = "running" => h = g
  BY DEF ManagerInv, Structure
<1> HIDE DEF g
<1>11. \A h \in Epoch :
         /\ epoch'[h].turn = epoch[h].turn /\ epoch'[h].sendTo = epoch[h].sendTo
         /\ epoch'[h].manifest = epoch[h].manifest
         /\ epoch'[h].thread = "running" => h = g
  BY <1>1, <1>2, <1>4, <1>10
<1>12. manager'.epoch = manager.epoch
  BY <1>5 DEF g
<1>13. Shift
  BY <1>1, <1>5, <1>6, <1>7, <1>9, <1>11, <1>12 DEF Shift
<1> QED BY <1>8, <1>13, ShiftKeeps

\* disconnect forgets its client.
LEMMA ForgetKeeps ==
  ASSUME ManagerInv, Forget
  PROVE  ManagerInv'
<1>1. /\ TypeOK /\ app.pc = "forget" /\ app \in App /\ manager \in Manager
      /\ manager.epoch <= MaxLogins /\ ~manager.connected
      /\ UNCHANGED <<epoch, shares, server, sent, changes, crashed>>
  BY InvParts DEF Forget, Call, ManagerInv, Structure
<1>2. app' \in App /\ app'.pc = "delete" /\ app'.host = app.host
  BY <1>1, AppGoesOn DEF Forget
<1>3. /\ manager' \in Manager /\ manager'.client = 0 /\ manager'.epoch = manager.epoch
      /\ manager'.connected = manager.connected
  BY <1>1 DEF Forget, Manager
<1>4. TypeOK'
  BY <1>1, <1>2, <1>3 DEF TypeOK
<1>5. ~app.host.overlap => \A h \in Epoch : epoch[h].turn.pc = "idle"
  BY <1>1, NoTurns
<1>6. Shift
  BY <1>1, <1>2, <1>3, <1>5 DEF Shift, ManagerInv, Structure
<1> QED BY <1>4, <1>6, ShiftKeeps

\* disconnect deletes its thread.
LEMMA DeleteThreadKeeps ==
  ASSUME ManagerInv, DeleteThread
  PROVE  ManagerInv'
<1> DEFINE g == manager.epoch
           x == [epoch[g] EXCEPT !.thread = "stopped", !.posted = <<>>]
<1>1. /\ TypeOK /\ g \in Epoch /\ epoch[g] \in EpochRecord /\ app.pc = "delete" /\ app \in App
      /\ g <= MaxLogins /\ manager.client = 0 /\ ~manager.connected
      /\ epoch \in [Epoch -> EpochRecord]
  BY InvParts DEF DeleteThread, Call, ManagerInv, Structure
<1>2. epoch' = [epoch EXCEPT ![g] = x]
  BY DEF DeleteThread
<1>3. /\ x \in EpochRecord /\ x.turn = epoch[g].turn /\ x.sendTo = epoch[g].sendTo
      /\ x.manifest = epoch[g].manifest /\ x.thread = "stopped"
  <2>1. <<>> \in Seq([type : {"stop", "accept", "decline"}, about : {0} \cup ShareId])
    OBVIOUS
  <2> QED BY <1>1, <2>1 DEF EpochRecord
<1>4. app' \in App /\ app'.pc = "renew" /\ app'.host = app.host
  BY <1>1, AppGoesOn DEF DeleteThread
<1>5. UNCHANGED <<manager, shares, server, sent, changes, crashed>>
  BY DEF DeleteThread
<1> HIDE DEF x
<1>6. TypeOK'
  BY <1>1, <1>2, <1>3, <1>4, <1>5 DEF TypeOK
<1>7. ~app.host.overlap => \A h \in Epoch : epoch[h].turn.pc = "idle"
  BY <1>1, NoTurns
<1>8. \A h \in Epoch : epoch[h].thread = "running" => h = g
  BY DEF ManagerInv, Structure
<1> HIDE DEF g
<1>9. \A h \in Epoch :
        /\ epoch'[h].turn = epoch[h].turn /\ epoch'[h].sendTo = epoch[h].sendTo
        /\ epoch'[h].manifest = epoch[h].manifest
        /\ epoch'[h].thread # "running"
  BY <1>1, <1>2, <1>3, <1>8
<1>10. manager.epoch = g
  BY DEF g
<1>11. Shift
  BY <1>1, <1>4, <1>5, <1>7, <1>9, <1>10 DEF Shift
<1> QED BY <1>6, <1>11, ShiftKeeps

\* disconnect makes what the next connection needs.
LEMMA RenewKeeps ==
  ASSUME ManagerInv, Renew
  PROVE  ManagerInv'
<1>1. /\ TypeOK /\ app.pc = "renew" /\ app \in App /\ manager \in Manager
      /\ manager.epoch \in Epoch /\ manager.epoch <= MaxLogins /\ ~manager.connected
      /\ UNCHANGED <<epoch, shares, server, sent, changes, crashed>>
      /\ \A h \in Epoch : epoch[h].thread # "running"
  BY InvParts DEF Renew, Call, ManagerInv, Structure
<1>2. app' \in App /\ app'.pc = "idle" /\ app'.host = app.host
  BY <1>1, AppGoesOn DEF Renew
<1>3. manager.epoch + 1 \in Epoch
  BY <1>1, InvParts DEF Epoch
<1>4. /\ manager' \in Manager /\ manager'.client = manager.epoch + 1
      /\ manager'.epoch = manager.epoch + 1 /\ manager'.connected = manager.connected
  BY <1>1, <1>3 DEF Renew, Manager
<1>5. TypeOK'
  BY <1>1, <1>2, <1>4 DEF TypeOK
<1>6. ~app.host.overlap => \A h \in Epoch : epoch[h].turn.pc = "idle"
  BY <1>1, NoTurns
<1>7. Shift
  BY <1>1, <1>2, <1>4, <1>6 DEF Shift, ManagerInv, Structure
<1> QED BY <1>5, <1>7, ShiftKeeps

\* sendFiles: the files are there.
LEMMA SendFilesKeeps ==
  ASSUME ManagerInv, NEW f \in Friend, SendFiles(f)
  PROVE  ManagerInv'
<1> DEFINE g == manager.epoch
           n == Len(sent) + 1
           x == [epoch[g] EXCEPT !.manifest = n]
<1>1. /\ TypeOK /\ g \in Epoch /\ epoch[g] \in EpochRecord /\ app.pc = "idle" /\ app \in App
      /\ manager.client = g /\ epoch \in [Epoch -> EpochRecord] /\ sent \in Seq(Friend)
      /\ Len(sent) \in Nat /\ Len(sent) < app.host.sends /\ app.host.sends \in Nat
      /\ shares \in Seq(Share)
  BY InvParts DEF SendFiles, BeginCall, Call, ManagerInv, Structure
<1>2. epoch' = [epoch EXCEPT ![g] = x] /\ sent' = Append(sent, f)
  BY <1>1 DEF SendFiles
<1>3. n \in File
  <2>1. n \in 1..app.host.sends
    BY <1>1
  <2> QED BY <1>1, <2>1, HostFields
<1>4. n \in Nat /\ n = Len(sent) + 1 /\ n > Len(sent) /\ n # Len(sent)
      /\ n <= app.host.sends
  BY <1>1
<1> HIDE DEF n
<1>5. /\ x \in EpochRecord /\ x.turn = epoch[g].turn /\ x.sendTo = epoch[g].sendTo
      /\ x.manifest = n /\ x.thread = epoch[g].thread
  BY <1>1, <1>3 DEF EpochRecord
<1> HIDE DEF x
<1>6. app' \in App /\ app'.pc = "address" /\ app'.host = app.host
  BY <1>1, AppGoesOn DEF SendFiles
<1>7. /\ sent' \in Seq(Friend) /\ Len(sent') = n /\ sent' # <<>>
      /\ \A i \in 1..Len(sent) : sent'[i] = sent[i]
  BY <1>1, <1>2, <1>4
<1>8. UNCHANGED <<manager, shares, server, changes, crashed>>
  BY DEF SendFiles
<1>9. TypeOK'
  BY <1>1, <1>2, <1>4, <1>5, <1>6, <1>7, <1>8 DEF TypeOK
<1>10. \A h \in Epoch :
         /\ epoch'[h].turn = epoch[h].turn /\ epoch'[h].sendTo = epoch[h].sendTo
         /\ epoch'[h].thread = epoch[h].thread
         /\ epoch'[h].manifest = IF h = g THEN n ELSE epoch[h].manifest
  BY <1>1, <1>2, <1>5
<1>11. \A s \in DOMAIN shares : shares[s].out => shares[s].file \in 1..Len(sent)
  BY DEF ManagerInv, Structure
<1>12. \A i \in 1..Len(sent) : i \in 1..n /\ i # n
  BY <1>1, <1>4
<1>13. ASSUME NEW h \in Epoch PROVE epoch'[h].manifest <= n
  <2>1. epoch[h].manifest \in Nat /\ epoch[h].manifest <= Len(sent)
    BY <1>1, EpochFields DEF ManagerInv, Structure
  <2> QED BY <1>1, <1>4, <1>10, <2>1
<1>14. Structure'
  <2>1. \A s \in DOMAIN shares : shares[s].out => shares[s].file \in 1..n
    BY <1>11, <1>12
  <2>2. \A h \in Epoch :
          /\ epoch'[h].thread = "running" => h = manager.epoch
          /\ h > manager.epoch => epoch'[h].sendTo = None
          /\ TurnOk(epoch'[h].turn)
    BY <1>10 DEF ManagerInv, Structure
  <2>3. /\ manager.client = manager.epoch
        /\ manager.connected => manager.epoch <= MaxLogins
    BY <1>1 DEF ManagerInv, Structure
  <2> QED BY <1>6, <1>7, <1>8, <1>13, <2>1, <2>2, <2>3 DEF Structure
<1>15. InCallbacks'
  <2> SUFFICES ASSUME ~app.host.overlap PROVE InCallbacks'
    BY <1>6 DEF InCallbacks
  <2>1. \A h \in Epoch : epoch'[h].turn.pc = "idle"
    BY <1>10, NoTurns DEF SendFiles
  <2>2. Unoffered'
    BY <1>7, <1>8, <1>11, <1>12 DEF Unoffered
  <2>3. epoch'[g].manifest = Len(sent')
    BY <1>1, <1>7, <1>10
  <2>4. manager'.epoch = g
    BY <1>8
  <2> QED BY <1>6, <2>1, <2>2, <2>3, <2>4 DEF InCallbacks
<1>16. NamedBefore'
  <2>1. ASSUME NEW a, NEW h \in Epoch, NamedFor(a, epoch[h].manifest)
        PROVE  \E m \in 1..Len(sent') : sent'[m] = a /\ (epoch'[h].manifest = 0 \/ m <= epoch'[h].manifest)
    <3>1. PICK m \in 1..Len(sent) : sent[m] = a /\ (epoch[h].manifest = 0 \/ m <= epoch[h].manifest)
      BY <2>1 DEF NamedFor
    <3>2. m \in 1..Len(sent') /\ sent'[m] = a
      BY <1>7, <1>12, <3>1
    <3>3. m <= n
      BY <1>1, <1>4
    <3>4. CASE h = g
      BY <1>10, <3>2, <3>3, <3>4
    <3>5. CASE h # g
      BY <1>10, <3>1, <3>2, <3>5
    <3> QED BY <3>4, <3>5
  <2>2. \A h \in Epoch : epoch[h].turn.pc = "offer" => epoch[h].turn.client \in Epoch
    <3> SUFFICES ASSUME NEW h \in Epoch, epoch[h].turn.pc = "offer" PROVE epoch[h].turn.client \in Epoch
      OBVIOUS
    <3>1. epoch[h].turn.client \in {0} \cup Epoch
      BY <1>1, EpochFields
    <3>2. epoch[h].turn.client # 0
      BY DEF ManagerInv, Structure, TurnOk
    <3> QED BY <3>1, <3>2
  <2>3. \A h \in Epoch : epoch[h].sendTo # None => NamedFor(epoch[h].sendTo, epoch[h].manifest)
    BY DEF ManagerInv, NamedBefore
  <2>4. \A h \in Epoch : epoch[h].turn.pc = "offer" =>
          NamedFor(epoch[h].turn.friend, epoch[epoch[h].turn.client].manifest)
    BY DEF ManagerInv, NamedBefore
  <2>5. ASSUME NEW h \in Epoch, epoch'[h].sendTo # None
        PROVE  \E m \in 1..Len(sent') :
                 sent'[m] = epoch'[h].sendTo /\ (epoch'[h].manifest = 0 \/ m <= epoch'[h].manifest)
    <3>1. epoch'[h].sendTo = epoch[h].sendTo
      BY <1>10
    <3>2. NamedFor(epoch[h].sendTo, epoch[h].manifest)
      BY <2>3, <2>5, <3>1
    <3> QED BY <2>1, <3>1, <3>2
  <2>6. ASSUME NEW h \in Epoch, epoch'[h].turn.pc = "offer"
        PROVE  \E m \in 1..Len(sent') :
                 /\ sent'[m] = epoch'[h].turn.friend
                 /\ \/ epoch'[epoch'[h].turn.client].manifest = 0
                    \/ m <= epoch'[epoch'[h].turn.client].manifest
    <3>1. epoch'[h].turn = epoch[h].turn
      BY <1>10
    <3>2. NamedFor(epoch[h].turn.friend, epoch[epoch[h].turn.client].manifest) /\ epoch[h].turn.client \in Epoch
      BY <2>2, <2>4, <2>6, <3>1
    <3> QED BY <2>1, <3>1, <3>2
  <2>7. epoch'[manager'.epoch].manifest = Len(sent')
    BY <1>1, <1>7, <1>8, <1>10
  <2> QED BY <2>5, <2>6, <2>7 DEF NamedBefore, NamedFor
<1>17. OfferedOnce'
  BY <1>6, <1>8 DEF ManagerInv, OfferedOnce
<1>18. RightAddressee'
  <2> SUFFICES ASSUME NEW s \in DOMAIN shares, shares[s].out
               PROVE  \/ shares[s].friend = sent'[shares[s].file]
                      \/ app.host.overlap /\ \E i \in 1..shares[s].file : shares[s].friend = sent'[i]
    BY <1>6, <1>8 DEF RightAddressee
  <2>1. shares[s].file \in 1..Len(sent)
    BY <1>11
  <2>2. \A i \in 1..shares[s].file : sent'[i] = sent[i]
    BY <1>1, <1>7, <2>1
  <2>3. \/ shares[s].friend = sent[shares[s].file]
        \/ app.host.overlap /\ \E i \in 1..shares[s].file : shares[s].friend = sent[i]
    BY DEF ManagerInv, RightAddressee
  <2>4. sent'[shares[s].file] = sent[shares[s].file]
    BY <1>7, <2>1
  <2> QED BY <2>2, <2>3, <2>4
<1> QED BY <1>9, <1>14, <1>15, <1>16, <1>17, <1>18 DEF ManagerInv

\* sendFiles: the friend they are meant for is.
LEMMA AddressKeeps ==
  ASSUME ManagerInv, Address
  PROVE  ManagerInv'
<1> DEFINE g == manager.epoch
           x == [epoch[g] EXCEPT !.sendTo = Addressee]
<1>1. /\ TypeOK /\ g \in Epoch /\ epoch[g] \in EpochRecord /\ app.pc = "address" /\ app \in App
      /\ manager.client = g /\ epoch \in [Epoch -> EpochRecord] /\ sent \in Seq(Friend)
      /\ sent # <<>> /\ g \in Nat
  BY InvParts DEF Address, Call, ManagerInv, Structure
<1>2. Addressee \in Friend
  BY <1>1 DEF Addressee
<1>3. epoch' = [epoch EXCEPT ![g] = x]
  BY <1>1 DEF Address
<1>4. /\ x \in EpochRecord /\ x.turn = epoch[g].turn /\ x.sendTo = Addressee
      /\ x.manifest = epoch[g].manifest /\ x.thread = epoch[g].thread
  BY <1>1, <1>2 DEF EpochRecord
<1> HIDE DEF x
<1>5. app' \in App /\ app'.pc = "search" /\ app'.host = app.host
  BY <1>1, AppGoesOn DEF Address
<1>6. UNCHANGED <<manager, shares, server, sent, changes, crashed>> /\ Addressee' = Addressee
  BY DEF Address, Addressee
<1>7. TypeOK'
  BY <1>1, <1>3, <1>4, <1>5, <1>6 DEF TypeOK
<1>8. \A h \in Epoch :
        /\ epoch'[h].turn = epoch[h].turn /\ epoch'[h].thread = epoch[h].thread
        /\ epoch'[h].sendTo = IF h = g THEN Addressee ELSE epoch[h].sendTo
        /\ epoch'[h].manifest = epoch[h].manifest
  BY <1>1, <1>3, <1>4
<1>9. Structure'
  <2>1. \A h \in Epoch :
          /\ epoch'[h].thread = "running" => h = g
          /\ h > g => epoch'[h].sendTo = None
          /\ epoch'[h].manifest <= Len(sent)
          /\ TurnOk(epoch'[h].turn)
    BY <1>1, <1>8 DEF ManagerInv, Structure
  <2> QED BY <1>1, <1>5, <1>6, <2>1 DEF ManagerInv, Structure
<1>10. InCallbacks'
  <2> SUFFICES ASSUME ~app.host.overlap PROVE InCallbacks'
    BY <1>5 DEF InCallbacks
  <2>1. \A h \in Epoch : epoch'[h].turn.pc = "idle"
    BY <1>1, <1>8, NoTurns
  <2>2. Unoffered' /\ epoch'[g].manifest = Len(sent)
    BY <1>1, <1>6, <1>8 DEF ManagerInv, InCallbacks, Unoffered
  <2>3. manager'.epoch = g /\ epoch'[g].sendTo = Addressee
    BY <1>1, <1>6, <1>8
  <2> QED BY <1>5, <1>6, <2>1, <2>2, <2>3 DEF InCallbacks
<1>11. NamedBefore'
  <2>1. Len(sent) \in 1..Len(sent) /\ sent[Len(sent)] = Addressee
    BY <1>1 DEF Addressee
  <2>2. epoch[g].manifest \in {0, Len(sent)}
    BY <1>1 DEF ManagerInv, NamedBefore
  <2>3. ASSUME NEW h \in Epoch, epoch'[h].sendTo # None
        PROVE  \E m \in 1..Len(sent) :
                 sent[m] = epoch'[h].sendTo /\ (epoch'[h].manifest = 0 \/ m <= epoch'[h].manifest)
    <3>1. CASE h = g
      <4>1. epoch'[h].sendTo = Addressee /\ epoch'[h].manifest = epoch[g].manifest
        BY <1>8, <3>1
      <4>2. epoch'[h].manifest = 0 \/ Len(sent) <= epoch'[h].manifest
        BY <2>1, <2>2, <4>1
      <4> QED BY <2>1, <4>1, <4>2
    <3>2. CASE h # g
      BY <1>8, <2>3, <3>2 DEF ManagerInv, NamedBefore, NamedFor
    <3> QED BY <3>1, <3>2
  <2>4. ASSUME NEW h \in Epoch, epoch'[h].turn.pc = "offer"
        PROVE  \E m \in 1..Len(sent) :
                 /\ sent[m] = epoch'[h].turn.friend
                 /\ \/ epoch'[epoch'[h].turn.client].manifest = 0
                    \/ m <= epoch'[epoch'[h].turn.client].manifest
    <3>1. epoch'[h].turn = epoch[h].turn
      BY <1>8
    <3>2. epoch[h].turn.client \in {0} \cup Epoch
      BY <1>1, EpochFields
    <3>3. epoch[h].turn.client # 0
      BY <2>4, <3>1 DEF ManagerInv, Structure, TurnOk
    <3>4. epoch'[epoch[h].turn.client].manifest = epoch[epoch[h].turn.client].manifest
      BY <1>8, <3>2, <3>3
    <3>5. NamedFor(epoch[h].turn.friend, epoch[epoch[h].turn.client].manifest)
      BY <2>4, <3>1 DEF ManagerInv, NamedBefore
    <3> QED BY <3>1, <3>4, <3>5 DEF NamedFor
  <2>5. epoch'[manager'.epoch].manifest \in {0, Len(sent')}
    BY <1>6, <1>8, <1>1, <2>2
  <2> QED BY <1>6, <2>3, <2>4, <2>5 DEF NamedBefore, NamedFor
<1>12. OfferedOnce'
  BY <1>5, <1>6 DEF ManagerInv, OfferedOnce
<1>13. RightAddressee'
  BY <1>5, <1>6 DEF ManagerInv, RightAddressee
<1> QED BY <1>7, <1>9, <1>10, <1>11, <1>12, <1>13 DEF ManagerInv

-----------------------------------------------------------------------------
(* Who waits is looked for, gets an offer, and is forgotten                   *)

\* A turn of g goes on, up to where it offers.
TurnShift(g) ==
  /\ sent' = sent /\ shares' = shares /\ app' = app
  /\ manager'.client = manager.client /\ manager'.epoch = manager.epoch
  /\ manager'.connected = manager.connected
  /\ \A h \in Epoch :
       /\ epoch'[h].sendTo = epoch[h].sendTo /\ epoch'[h].manifest = epoch[h].manifest
       /\ epoch'[h].thread = epoch[h].thread
       /\ h # g => epoch'[h].turn = epoch[h].turn
  /\ LET t == epoch'[g].turn IN
     /\ TurnOk(t) /\ t.pc # "clear" /\ epoch[g].turn.pc # "clear"
     /\ t.pc = "offer" => t.client \in Epoch /\ epoch[t.client].sendTo = t.friend
     /\ ~app.host.overlap => /\ t.pc # "idle" => app.pc = "idle" /\ g = manager.epoch
                             /\ t.pc = "offer" => t.client = g

\* Such a turn changes nothing of what waits and what has been offered.
LEMMA TurnShiftKeeps ==
  ASSUME ManagerInv, TypeOK', NEW g \in Epoch, TurnShift(g)
  PROVE  ManagerInv'
<1>1. manager.epoch \in Epoch /\ Addressee' = Addressee
  BY InvParts DEF TurnShift, Addressee
<1>2. Structure'
  <2>1. \A h \in Epoch :
          /\ epoch'[h].thread = "running" => h = manager.epoch /\ app.pc # "renew"
          /\ h > manager.epoch => epoch'[h].sendTo = None
          /\ epoch'[h].manifest <= Len(sent)
          /\ TurnOk(epoch'[h].turn)
    BY DEF ManagerInv, Structure, TurnShift
  <2> QED BY <2>1 DEF ManagerInv, Structure, TurnShift
<1>3. InCallbacks'
  <2> SUFFICES ASSUME ~app.host.overlap PROVE InCallbacks'
    BY DEF InCallbacks, TurnShift
  <2> DEFINE c == manager.epoch
  <2>1. \A h \in Epoch :
          /\ epoch'[h].turn.pc # "idle" => app.pc = "idle" /\ h = c
          /\ epoch'[h].turn.pc \in {"offer", "clear"} => epoch'[h].turn.client = h
          /\ epoch'[h].turn.pc = "offer" => epoch'[h].sendTo = epoch'[h].turn.friend
    BY DEF ManagerInv, InCallbacks, TurnShift
  <2>2. /\ epoch'[c].sendTo = epoch[c].sendTo /\ epoch'[c].manifest = epoch[c].manifest
        /\ epoch'[c].turn.pc # "clear" => epoch[c].turn.pc # "clear"
    BY <1>1 DEF TurnShift
  <2>3. manager'.epoch = c /\ app' = app /\ sent' = sent /\ (Unoffered => Unoffered')
    BY DEF TurnShift, Unoffered
  <2>4. app.pc \in {"address", "search", "offer"} => Unoffered /\ epoch[c].manifest = Len(sent)
    BY DEF ManagerInv, InCallbacks
  <2>5. app.pc \in {"search", "offer"} => epoch[c].sendTo = Addressee
    BY DEF ManagerInv, InCallbacks
  <2>6. app.pc = "idle" /\ epoch[c].sendTo # None /\ epoch[c].turn.pc # "clear"
          => /\ sent # <<>> /\ Unoffered /\ epoch[c].manifest \in {0, Len(sent)}
             /\ epoch[c].sendTo = Addressee
    BY DEF ManagerInv, InCallbacks, Pending
  <2> HIDE DEF c
  <2> QED BY <1>1, <2>1, <2>2, <2>3, <2>4, <2>5, <2>6 DEF InCallbacks, Pending
<1>4. NamedBefore'
  <2>1. \A h \in Epoch : /\ epoch'[h].sendTo = epoch[h].sendTo
                         /\ epoch'[h].manifest = epoch[h].manifest
                         /\ h # g => epoch'[h].turn = epoch[h].turn
    BY DEF TurnShift
  <2>2. epoch'[g].turn.pc = "offer" =>
          /\ epoch'[g].turn.client \in Epoch /\ epoch'[g].turn.friend # None
          /\ epoch[epoch'[g].turn.client].sendTo = epoch'[g].turn.friend
    BY InvParts DEF TurnShift, TurnOk
  <2>3. sent' = sent /\ app'.pc = app.pc /\ manager'.epoch = manager.epoch
    BY DEF TurnShift
  <2>4. \A h \in Epoch :
          /\ epoch'[h].sendTo \in {None, epoch[h].sendTo}
          /\ epoch'[h].manifest \in {0, epoch[h].manifest}
          /\ \/ epoch'[h].turn.pc # "offer"
             \/ epoch'[h].turn = epoch[h].turn
             \/ /\ epoch'[h].turn.client \in Epoch /\ epoch'[h].turn.friend # None
                /\ epoch[epoch'[h].turn.client].sendTo = epoch'[h].turn.friend
    BY <2>1, <2>2
  <2> QED BY <2>3, <2>4, NamedStays
<1>5. OfferedOnce'
  BY DEF ManagerInv, OfferedOnce, TurnShift
<1>6. RightAddressee'
  BY DEF ManagerInv, RightAddressee, TurnShift
<1> QED BY <1>2, <1>3, <1>4, <1>5, <1>6 DEF ManagerInv

\* What a connection with another turn is.
LEMMA TurnSet ==
  ASSUME NEW e \in EpochRecord, NEW t \in Turn
  PROVE  LET x == [e EXCEPT !.turn = t]
         IN /\ x \in EpochRecord /\ x.turn = t /\ x.sendTo = e.sendTo
            /\ x.manifest = e.manifest /\ x.thread = e.thread
BY DEF EpochRecord

\* OnStatusUpdate begins.
LEMMA OnStatusUpdateKeeps ==
  ASSUME ManagerInv, NEW g \in Epoch, NEW f \in Friend, OnStatusUpdate(g, f)
  PROVE  ManagerInv'
<1> DEFINE inbox == [epoch[g].inbox EXCEPT ![f] = Tail(@)]
           t == [pc |-> "status", friend |-> f, client |-> 0, status |-> Head(epoch[g].inbox[f])]
           x == [epoch[g] EXCEPT !.inbox = inbox, !.turn = t]
<1>1. /\ TypeOK /\ epoch \in [Epoch -> EpochRecord] /\ epoch[g] \in EpochRecord
      /\ epoch[g].inbox \in [Friend -> Seq(Presence)] /\ epoch[g].inbox[f] # <<>>
      /\ epoch[g].turn.pc = "idle" /\ epoch[g].thread = "running"
      /\ app.host.overlap \/ app.pc = "idle"
      /\ epoch' = [epoch EXCEPT ![g].inbox[f] = Tail(@), ![g].turn = t]
      /\ UNCHANGED <<manager, shares, app, server, sent, changes, crashed>>
  BY InvParts, EpochFields DEF OnStatusUpdate, BeginTurn, InTurn
<1>2. t \in Turn /\ t.pc = "status" /\ TurnOk(t)
  <2>1. Head(epoch[g].inbox[f]) \in Presence
    BY <1>1
  <2> QED BY <2>1 DEF Turn, TurnOk
<1>3. inbox \in [Friend -> Seq(Presence)]
  BY <1>1
<1>4. epoch' = [epoch EXCEPT ![g] = x]
  <2>1. [epoch EXCEPT ![g].inbox[f] = Tail(@), ![g].turn = t] = [epoch EXCEPT ![g] = x]
    BY <1>1
  <2> QED BY <1>1, <2>1
<1> HIDE DEF inbox, t
<1>5. /\ x \in EpochRecord /\ x.turn = t /\ x.sendTo = epoch[g].sendTo
      /\ x.manifest = epoch[g].manifest /\ x.thread = epoch[g].thread
  BY <1>1, <1>2, <1>3 DEF EpochRecord
<1> HIDE DEF x
<1>6. /\ epoch' \in [Epoch -> EpochRecord] /\ epoch'[g] = x
      /\ \A h \in Epoch \ {g} : epoch'[h] = epoch[h]
  BY <1>1, <1>4, <1>5
<1>7. TypeOK'
  BY <1>1, <1>6 DEF TypeOK
<1>8. g = manager.epoch
  BY <1>1 DEF ManagerInv, Structure
<1>9. TurnShift(g)
  BY <1>1, <1>2, <1>5, <1>6, <1>8 DEF TurnShift
<1> QED BY <1>7, <1>9, TurnShiftKeeps

\* onPossibleDestinationOnline looks whether it is who is waited for.
LEMMA PossibleDestinationKeeps ==
  ASSUME ManagerInv, NEW g \in Epoch, PossibleDestination(g)
  PROVE  ManagerInv'
<1> DEFINE d == manager.client
           u == epoch[g].turn
           t == [u EXCEPT !.client = d, !.pc = IF epoch[d].sendTo = u.friend THEN "offer" ELSE "roster"]
           x == [epoch[g] EXCEPT !.turn = t]
<1>1. /\ TypeOK /\ epoch \in [Epoch -> EpochRecord] /\ epoch[g] \in EpochRecord /\ u \in Turn
      /\ u.pc = "status" /\ d # 0 /\ manager \in Manager /\ manager.epoch \in Epoch
      /\ epoch' = [epoch EXCEPT ![g] = x]
      /\ UNCHANGED <<manager, shares, app, server, sent, changes, crashed>>
  BY InvParts, EpochFields DEF PossibleDestination, InTurn
<1>2. d \in Epoch /\ d = manager.epoch
  BY <1>1 DEF ManagerInv, Structure
<1>3. u.friend \in Friend
  BY <1>1 DEF ManagerInv, Structure, TurnOk
<1>4. /\ t \in Turn /\ TurnOk(t) /\ t.pc \in {"offer", "roster"} /\ t.friend = u.friend
      /\ t.client = d /\ (t.pc = "offer" => epoch[d].sendTo = u.friend)
  <2>1. d \in {0} \cup Epoch /\ d # 0
    BY <1>1, <1>2
  <2> QED BY <1>1, <1>3, <2>1 DEF Turn, TurnOk
<1>5. ~app.host.overlap => app.pc = "idle" /\ g = d
  BY <1>1, <1>2 DEF ManagerInv, InCallbacks
<1> HIDE DEF t, d
<1>6. /\ x \in EpochRecord /\ x.turn = t /\ x.sendTo = epoch[g].sendTo
      /\ x.manifest = epoch[g].manifest /\ x.thread = epoch[g].thread
  BY <1>1, <1>4, TurnSet
<1> HIDE DEF x
<1>7. /\ epoch' \in [Epoch -> EpochRecord] /\ epoch'[g] = x
      /\ \A h \in Epoch \ {g} : epoch'[h] = epoch[h]
  BY <1>1, <1>6
<1>8. TypeOK'
  BY <1>1, <1>7 DEF TypeOK
<1>9. TurnShift(g)
  BY <1>1, <1>2, <1>4, <1>5, <1>6, <1>7 DEF TurnShift
<1> QED BY <1>8, <1>9, TurnShiftKeeps

\* The presence is put into the roster.
LEMMA UpdateRosterKeeps ==
  ASSUME ManagerInv, NEW g \in Epoch, UpdateRoster(g)
  PROVE  ManagerInv'
<1> DEFINE u == epoch[g].turn
           x == [epoch[g] EXCEPT !.turn = Idle]
<1>1. /\ TypeOK /\ epoch \in [Epoch -> EpochRecord] /\ epoch[g] \in EpochRecord /\ u \in Turn
      /\ u.pc \in {"status", "roster"} /\ manager \in Manager
      /\ epoch' = [epoch EXCEPT ![g] = x]
      /\ manager' = [manager EXCEPT !.roster[u.friend] = u.status]
      /\ UNCHANGED <<shares, app, server, sent, changes, crashed>>
  BY InvParts, EpochFields DEF UpdateRoster, InTurn
<1>2. u.friend \in Friend /\ u.status \in Presence
  BY <1>1 DEF ManagerInv, Structure, TurnOk, Turn
<1>3. Idle \in Turn /\ Idle.pc = "idle" /\ TurnOk(Idle)
  BY DEF Idle, Turn, Presence, TurnOk
<1>4. /\ manager' \in Manager /\ manager'.client = manager.client
      /\ manager'.epoch = manager.epoch /\ manager'.connected = manager.connected
  <2> DEFINE roster == [manager.roster EXCEPT ![u.friend] = u.status]
  <2>1. roster \in [Friend -> Presence] /\ manager' = [manager EXCEPT !.roster = roster]
    BY <1>1, <1>2 DEF Manager
  <2> HIDE DEF roster
  <2> QED BY <1>1, <2>1 DEF Manager
<1>5. /\ x \in EpochRecord /\ x.turn = Idle /\ x.sendTo = epoch[g].sendTo
      /\ x.manifest = epoch[g].manifest /\ x.thread = epoch[g].thread
  BY <1>1, <1>3, TurnSet
<1> HIDE DEF x
<1>6. /\ epoch' \in [Epoch -> EpochRecord] /\ epoch'[g] = x
      /\ \A h \in Epoch \ {g} : epoch'[h] = epoch[h]
  BY <1>1, <1>5
<1>7. TypeOK'
  BY <1>1, <1>4, <1>6 DEF TypeOK
<1>8. TurnShift(g)
  BY <1>1, <1>3, <1>4, <1>5, <1>6 DEF TurnShift
<1> QED BY <1>7, <1>8, TurnShiftKeeps

\* The client d waits for nobody any more.
Cleared(d) ==
  /\ sent' = sent /\ shares' = shares /\ manager' = manager /\ app'.host = app.host
  /\ app'.pc = app.pc \/ (app.pc = "clear" /\ app'.pc = "idle")
  /\ \A h \in Epoch :
       /\ epoch'[h].sendTo = IF h = d THEN None ELSE epoch[h].sendTo
       /\ epoch'[h].manifest = epoch[h].manifest /\ epoch'[h].thread = epoch[h].thread
       /\ TurnOk(epoch'[h].turn)
       /\ epoch'[h].turn.pc = "offer" => epoch'[h].turn = epoch[h].turn
  /\ ~app.host.overlap =>
       /\ app'.pc = "idle" /\ d = manager.epoch
       /\ \A h \in Epoch : /\ epoch'[h].turn.pc \notin {"offer", "clear"}
                           /\ epoch'[h].turn.pc # "idle" => h = manager.epoch

\* Then whatever else waits waits as before.
LEMMA ClearedKeeps ==
  ASSUME ManagerInv, TypeOK', NEW d \in Epoch, Cleared(d)
  PROVE  ManagerInv'
<1>1. manager.epoch \in Epoch /\ Addressee' = Addressee
  BY InvParts DEF Cleared, Addressee
<1>2. Structure'
  <2>1. \A h \in Epoch :
          /\ epoch'[h].thread = "running" => h = manager.epoch /\ app'.pc # "renew"
          /\ h > manager.epoch => epoch'[h].sendTo = None
          /\ epoch'[h].manifest <= Len(sent)
          /\ TurnOk(epoch'[h].turn)
    BY DEF ManagerInv, Structure, Cleared
  <2> QED BY <2>1 DEF ManagerInv, Structure, Cleared
<1>3. InCallbacks'
  <2> SUFFICES ASSUME ~app.host.overlap PROVE InCallbacks'
    BY DEF InCallbacks, Cleared
  <2>1. epoch'[manager.epoch].sendTo = None
    BY <1>1 DEF Cleared
  <2> QED BY <2>1 DEF InCallbacks, Cleared
<1>4. NamedBefore'
  <2>1. \A h \in Epoch : /\ epoch'[h].sendTo \in {None, epoch[h].sendTo}
                         /\ epoch'[h].manifest \in {0, epoch[h].manifest}
                         /\ epoch'[h].turn.pc # "offer" \/ epoch'[h].turn = epoch[h].turn
    BY DEF Cleared
  <2>2. /\ sent' = sent /\ manager'.epoch = manager.epoch
        /\ app'.pc \in {"address", "search", "offer"} => app.pc \in {"address", "search", "offer"}
    BY DEF Cleared
  <2> QED BY <2>1, <2>2, NamedStays
<1>5. OfferedOnce'
  BY DEF ManagerInv, OfferedOnce, Cleared
<1>6. RightAddressee'
  BY DEF ManagerInv, RightAddressee, Cleared
<1> QED BY <1>2, <1>3, <1>4, <1>5, <1>6 DEF ManagerInv

\* sendFiles ends.
LEMMA ClearKeeps ==
  ASSUME ManagerInv, Clear
  PROVE  ManagerInv'
<1> DEFINE d == manager.epoch
           x == [epoch[d] EXCEPT !.sendTo = None]
<1>1. /\ TypeOK /\ epoch \in [Epoch -> EpochRecord] /\ epoch[d] \in EpochRecord /\ d \in Epoch
      /\ app.pc = "clear" /\ app \in App /\ manager.client = d
      /\ epoch' = [epoch EXCEPT ![manager.client].sendTo = None]
      /\ UNCHANGED <<manager, shares, server, sent, changes, crashed>>
  BY InvParts DEF Clear, Call, ManagerInv, Structure
<1>2. epoch' = [epoch EXCEPT ![d] = x]
  BY <1>1
<1>3. /\ x \in EpochRecord /\ x.turn = epoch[d].turn /\ x.sendTo = None
      /\ x.manifest = epoch[d].manifest /\ x.thread = epoch[d].thread
  BY <1>1 DEF EpochRecord
<1>4. app' \in App /\ app'.pc = "idle" /\ app'.host = app.host
  BY <1>1, AppGoesOn DEF Clear
<1>5. ~app.host.overlap => \A h \in Epoch : epoch[h].turn.pc = "idle"
  BY <1>1, NoTurns
<1> HIDE DEF x
<1>6. /\ epoch' \in [Epoch -> EpochRecord] /\ epoch'[d] = x
      /\ \A h \in Epoch \ {d} : epoch'[h] = epoch[h]
  BY <1>1, <1>2, <1>3
<1>7. TypeOK'
  BY <1>1, <1>4, <1>6 DEF TypeOK
<1>8. \A h \in Epoch : TurnOk(epoch[h].turn)
  BY DEF ManagerInv, Structure
<1>9. Cleared(d)
  BY <1>1, <1>3, <1>4, <1>5, <1>6, <1>8 DEF Cleared
<1> QED BY <1>1, <1>7, <1>9, ClearedKeeps

\* The turn that has offered forgets who was waited for.
LEMMA ClearOnlineKeeps ==
  ASSUME ManagerInv, NEW g \in Epoch, ClearOnline(g)
  PROVE  ManagerInv'
<1> DEFINE u == epoch[g].turn
           d == u.client
           x == [epoch[d] EXCEPT !.sendTo = None]
           e == [epoch EXCEPT ![d] = x]
           t == [u EXCEPT !.pc = "roster"]
           z == [e[g] EXCEPT !.turn = t]
<1>1. /\ TypeOK /\ epoch \in [Epoch -> EpochRecord] /\ u \in Turn /\ u.pc = "clear"
      /\ epoch' = [epoch EXCEPT ![d].sendTo = None, ![g].turn.pc = "roster"]
      /\ UNCHANGED <<manager, shares, app, server, sent, changes, crashed>>
  BY InvParts, EpochFields DEF ClearOnline, InTurn
<1>2. u.friend \in Friend /\ d \in Epoch
  BY <1>1 DEF ManagerInv, Structure, TurnOk, Turn
<1>3. epoch[d] \in EpochRecord
  BY <1>1, <1>2
<1>4. /\ x \in EpochRecord /\ x.turn = epoch[d].turn /\ x.sendTo = None
      /\ x.manifest = epoch[d].manifest /\ x.thread = epoch[d].thread
  BY <1>3 DEF EpochRecord
<1>5. ~app.host.overlap => app.pc = "idle" /\ g = manager.epoch /\ d = g
  BY <1>1 DEF ManagerInv, InCallbacks
<1>6. t \in Turn /\ t.pc = "roster" /\ TurnOk(t)
  BY <1>1, <1>2 DEF Turn, TurnOk
<1>7. epoch' = [e EXCEPT ![g] = z]
  <2>1. e[g].turn = u
    BY <1>1, <1>2, <1>4
  <2>2. epoch' = [e EXCEPT ![g].turn.pc = "roster"]
    BY <1>1
  <2> HIDE DEF e
  <2> QED BY <2>1, <2>2
<1>8. /\ e \in [Epoch -> EpochRecord] /\ e[d] = x
      /\ \A h \in Epoch \ {d} : e[h] = epoch[h]
  BY <1>1, <1>2, <1>4
<1> HIDE DEF d, t, x, e
<1>9. /\ z \in EpochRecord /\ z.turn = t /\ z.sendTo = e[g].sendTo
      /\ z.manifest = e[g].manifest /\ z.thread = e[g].thread
  BY <1>6, <1>8, TurnSet
<1> HIDE DEF z
<1>10. /\ epoch' \in [Epoch -> EpochRecord] /\ epoch'[g] = z
       /\ \A h \in Epoch \ {g} : epoch'[h] = e[h]
  BY <1>7, <1>8, <1>9
<1>11. /\ epoch'[g].turn = t
       /\ \A h \in Epoch :
            /\ h # g => epoch'[h].turn = epoch[h].turn
            /\ epoch'[h].sendTo = IF h = d THEN None ELSE epoch[h].sendTo
            /\ epoch'[h].manifest = epoch[h].manifest /\ epoch'[h].thread = epoch[h].thread
  BY <1>4, <1>8, <1>9, <1>10
<1>12. TypeOK'
  BY <1>1, <1>10 DEF TypeOK
<1>13. \A h \in Epoch : /\ TurnOk(epoch[h].turn)
                        /\ ~app.host.overlap => (epoch[h].turn.pc # "idle" => h = g)
  BY <1>5 DEF ManagerInv, Structure, InCallbacks
<1>14. Cleared(d)
  BY <1>1, <1>5, <1>6, <1>11, <1>13 DEF Cleared
<1> QED BY <1>2, <1>12, <1>14, ClearedKeeps

\* An offer of client d to f is of its manifest, if any; where the offer cannot be
\* made nothing is offered.
LEMMA OfferMade ==
  ASSUME ManagerInv, NEW d \in Epoch, NEW f \in Friend, Offer(d, f)
  PROVE  /\ crashed' \in BOOLEAN /\ Offered(d) \in {0} \cup ShareId /\ shares' \in Seq(Share)
         /\ \/ shares' = shares
            \/ /\ epoch[d].manifest # 0 /\ DOMAIN shares' = DOMAIN shares \cup {Len(shares) + 1}
               /\ \A i \in DOMAIN shares : shares'[i] = shares[i]
               /\ shares'[Len(shares) + 1] = [out |-> TRUE, friend |-> f, epoch |-> d,
                                              file |-> epoch[d].manifest, state |-> "OFFER"]
<1> DEFINE n == Len(shares) + 1
           s == [out |-> TRUE, friend |-> f, file |-> epoch[d].manifest, epoch |-> d, state |-> "OFFER"]
<1>1. /\ epoch[d] \in EpochRecord /\ shares \in Seq(Share) /\ crashed \in BOOLEAN
      /\ epoch[d].session \in {0} \cup ShareId /\ epoch[d].manifest \in {0} \cup File
  BY InvParts, EpochFields DEF TypeOK
<1>2. CASE crashed' = TRUE /\ shares' = shares
  BY <1>1, <1>2 DEF Offered
<1>3. CASE shares' = Append(shares, s) /\ crashed' = crashed /\ epoch[d].manifest # 0
  <2>1. s \in Share
    BY <1>1, <1>3 DEF Share
  <2> HIDE DEF s
  <2>2. shares' \in Seq(Share) /\ Len(shares') = n /\ n \in ShareId /\ n > Len(shares)
    BY <1>1, <1>3, <2>1 DEF ShareId
  <2>3. DOMAIN shares' = DOMAIN shares \cup {n}
    <3>1. DOMAIN shares = 1..Len(shares) /\ DOMAIN shares' = 1..n /\ Len(shares) \in Nat
      BY <1>1, <2>2
    <3>2. 1..n = 1..Len(shares) \cup {n}
      BY <3>1
    <3> QED BY <3>1, <3>2
  <2>4. shares'[n] = s /\ \A i \in DOMAIN shares : shares'[i] = shares[i]
    BY <1>1, <1>3, <2>1
  <2>5. Offered(d) = n
    BY <2>2 DEF Offered
  <2> QED BY <1>1, <1>3, <2>2, <2>3, <2>4, <2>5 DEF s
<1> QED BY <1>2, <1>3 DEF Offer

\* Client d offers what it has to f, who it is meant for where that is asked.
Offering(d, f) ==
  /\ sent' = sent /\ manager' = manager /\ app'.host = app.host
  /\ app'.pc = app.pc \/ (app.pc = "offer" /\ app'.pc = "clear")
  /\ \A h \in Epoch :
       /\ epoch'[h].sendTo = epoch[h].sendTo
       /\ epoch'[h].manifest = epoch[h].manifest /\ epoch'[h].thread = epoch[h].thread
       /\ TurnOk(epoch'[h].turn)
       /\ epoch'[h].turn.pc = "offer" => epoch'[h].turn = epoch[h].turn
  /\ NamedFor(f, epoch[d].manifest)
  /\ ~app.host.overlap =>
       /\ d = manager.epoch /\ Pending(epoch[d].manifest) /\ f = Addressee
       /\ app'.pc \notin {"address", "search", "offer"}
       /\ app'.pc = "idle" => epoch'[d].turn.pc = "clear"
       /\ \A h \in Epoch :
            /\ epoch'[h].turn.pc # "idle" => app'.pc = "idle" /\ h = d
            /\ epoch'[h].turn.pc # "offer"
            /\ epoch'[h].turn.pc = "clear" => epoch'[h].turn.client = h

\* Where it is asked, files that are offered are the last that were sent and have not
\* been, so they go to whom they are meant for, and once.
LEMMA OfferingKeeps ==
  ASSUME ManagerInv, TypeOK', NEW d \in Epoch, NEW f \in Friend, Offer(d, f), Offering(d, f)
  PROVE  ManagerInv'
<1> DEFINE n == Len(shares) + 1
<1>1. /\ manager.epoch \in Epoch /\ Addressee' = Addressee /\ Len(sent) \in Nat
      /\ shares \in Seq(Share) /\ epoch[d].manifest \in Nat /\ epoch[d].manifest <= Len(sent)
      /\ Len(sent) <= app.host.sends /\ app.host.sends \in Nat
  BY InvParts, EpochFields DEF Offering, Addressee, TypeOK, ManagerInv, Structure
<1>2. \/ shares' = shares
      \/ /\ epoch[d].manifest # 0 /\ DOMAIN shares' = DOMAIN shares \cup {n}
         /\ \A i \in DOMAIN shares : shares'[i] = shares[i]
         /\ shares'[n].out /\ shares'[n].friend = f /\ shares'[n].file = epoch[d].manifest
  <2>1. \/ shares' = shares
        \/ /\ epoch[d].manifest # 0 /\ DOMAIN shares' = DOMAIN shares \cup {n}
           /\ \A i \in DOMAIN shares : shares'[i] = shares[i]
           /\ shares'[n] = [out |-> TRUE, friend |-> f, epoch |-> d,
                            file |-> epoch[d].manifest, state |-> "OFFER"]
    BY OfferMade
  <2> QED BY <2>1
<1>3. n \notin DOMAIN shares
  BY <1>1
<1> HIDE DEF n
<1>4. Structure'
  <2>1. \A h \in Epoch :
          /\ epoch'[h].thread = "running" => h = manager.epoch /\ app'.pc # "renew"
          /\ h > manager.epoch => epoch'[h].sendTo = None
          /\ epoch'[h].manifest <= Len(sent)
          /\ TurnOk(epoch'[h].turn)
    BY DEF ManagerInv, Structure, Offering
  <2>2. epoch[d].manifest # 0 => epoch[d].manifest \in 1..Len(sent)
    BY <1>1
  <2>3. \A s \in DOMAIN shares' : shares'[s].out => shares'[s].file \in 1..Len(sent)
    BY <1>2, <2>2 DEF ManagerInv, Structure
  <2>4. /\ manager.client = IF app'.pc \in {"delete", "renew"} THEN 0 ELSE manager.epoch
        /\ manager.connected \/ app'.pc \in {"forget", "delete", "renew"} => manager.epoch <= MaxLogins
        /\ manager.connected => app'.pc \notin {"forget", "delete", "renew"}
        /\ app'.pc \in {"address", "search", "offer", "clear"} => sent # <<>>
    BY DEF ManagerInv, Structure, Offering
  <2> QED BY <2>1, <2>3, <2>4 DEF Structure, Offering
<1>5. InCallbacks'
  <2> SUFFICES ASSUME ~app.host.overlap PROVE InCallbacks'
    BY DEF InCallbacks, Offering
  <2> QED BY DEF InCallbacks, Offering
<1>6. NamedBefore'
  <2>1. \A h \in Epoch : /\ epoch'[h].sendTo \in {None, epoch[h].sendTo}
                         /\ epoch'[h].manifest \in {0, epoch[h].manifest}
                         /\ epoch'[h].turn.pc # "offer" \/ epoch'[h].turn = epoch[h].turn
    BY DEF Offering
  <2>2. /\ sent' = sent /\ manager'.epoch = manager.epoch
        /\ app'.pc \in {"address", "search", "offer"} => app.pc \in {"address", "search", "offer"}
    BY DEF Offering
  <2> QED BY <2>1, <2>2, NamedStays
<1>7. OfferedOnce'
  <2> SUFFICES ASSUME ~app.host.overlap PROVE OfferedOnce'
    BY DEF OfferedOnce, Offering
  <2>1. epoch[d].manifest # 0 => epoch[d].manifest = Len(sent)
    BY DEF Offering, Pending
  <2>2. \A i \in DOMAIN shares : shares[i].out => shares[i].file # Len(sent)
    BY DEF Offering, Pending, Unoffered
  <2> QED BY <1>2, <1>3, <2>1, <2>2 DEF ManagerInv, OfferedOnce
<1>8. RightAddressee'
  <2>1. \A i \in DOMAIN shares : shares[i].out =>
          \/ shares[i].friend = sent[shares[i].file]
          \/ app.host.overlap /\ \E m \in 1..shares[i].file : shares[i].friend = sent[m]
    BY DEF ManagerInv, RightAddressee
  <2>2. ASSUME epoch[d].manifest # 0
        PROVE  \/ f = sent[epoch[d].manifest]
               \/ app.host.overlap /\ \E m \in 1..epoch[d].manifest : f = sent[m]
    <3>1. CASE ~app.host.overlap
      BY <2>2, <3>1 DEF Offering, Pending, Addressee
    <3>2. CASE app.host.overlap
      <4>1. PICK m \in 1..Len(sent) : sent[m] = f /\ m <= epoch[d].manifest
        BY <2>2 DEF Offering, NamedFor
      <4>2. m \in 1..epoch[d].manifest
        BY <1>1, <4>1
      <4> QED BY <3>2, <4>1, <4>2
    <3> QED BY <3>1, <3>2
  <2>3. sent' = sent /\ app'.host = app.host
    BY DEF Offering
  <2> QED BY <1>2, <2>1, <2>2, <2>3 DEF RightAddressee
<1> QED BY <1>4, <1>5, <1>6, <1>7, <1>8 DEF ManagerInv

\* sendFiles offers to a friend it found in the roster.
LEMMA OfferNowKeeps ==
  ASSUME ManagerInv, OfferNow
  PROVE  ManagerInv'
<1> DEFINE d == manager.epoch
           f == Addressee
           x == [epoch[d] EXCEPT !.session = Offered(d)]
<1>1. /\ TypeOK /\ epoch \in [Epoch -> EpochRecord] /\ epoch[d] \in EpochRecord /\ d \in Epoch
      /\ app.pc = "offer" /\ app \in App /\ manager.client = d /\ sent \in Seq(Friend) /\ sent # <<>>
      /\ Offer(d, f)
      /\ UNCHANGED <<manager, server, sent, changes>>
  BY InvParts DEF OfferNow, Call, ManagerInv, Structure
<1>2. epoch' = [epoch EXCEPT ![d] = x]
  BY <1>1 DEF OfferNow
<1>3. f \in Friend
  BY <1>1 DEF Addressee
<1>4. crashed' \in BOOLEAN /\ Offered(d) \in {0} \cup ShareId /\ shares' \in Seq(Share)
  BY <1>1, <1>3, OfferMade
<1>5. /\ x \in EpochRecord /\ x.turn = epoch[d].turn /\ x.sendTo = epoch[d].sendTo
      /\ x.manifest = epoch[d].manifest /\ x.thread = epoch[d].thread
  BY <1>1, <1>4 DEF EpochRecord
<1>6. app' \in App /\ app'.pc = "clear" /\ app'.host = app.host
  BY <1>1, AppGoesOn DEF OfferNow
<1>7. ~app.host.overlap => \A h \in Epoch : epoch[h].turn.pc = "idle"
  BY <1>1, NoTurns
<1> HIDE DEF x
<1>8. /\ epoch' \in [Epoch -> EpochRecord] /\ epoch'[d] = x
      /\ \A h \in Epoch \ {d} : epoch'[h] = epoch[h]
  BY <1>1, <1>2, <1>5
<1>9. TypeOK'
  BY <1>1, <1>4, <1>6, <1>8 DEF TypeOK
<1>10. \A h \in Epoch : TurnOk(epoch[h].turn)
  BY DEF ManagerInv, Structure
<1>11. ~app.host.overlap => Pending(epoch[d].manifest)
  BY <1>1 DEF ManagerInv, InCallbacks, Pending
<1>12. NamedFor(f, epoch[d].manifest)
  <2>1. epoch[d].manifest \in {0, Len(sent)}
    BY <1>1 DEF ManagerInv, NamedBefore
  <2>2. Len(sent) \in 1..Len(sent) /\ sent[Len(sent)] = f
    BY <1>1 DEF Addressee
  <2>3. epoch[d].manifest = 0 \/ Len(sent) <= epoch[d].manifest
    BY <2>1, <2>2
  <2> QED BY <2>2, <2>3 DEF NamedFor
<1>13. Offering(d, f)
  BY <1>1, <1>5, <1>6, <1>7, <1>8, <1>10, <1>11, <1>12 DEF Offering
<1> QED BY <1>1, <1>3, <1>9, <1>13, OfferingKeeps

\* The turn offers to the friend who was waited for.
LEMMA OfferOnlineKeeps ==
  ASSUME ManagerInv, NEW g \in Epoch, OfferOnline(g)
  PROVE  ManagerInv'
<1> DEFINE u == epoch[g].turn
           d == u.client
           f == u.friend
           x == [epoch[d] EXCEPT !.session = Offered(d)]
           e == [epoch EXCEPT ![d] = x]
           t == [u EXCEPT !.pc = "clear"]
           z == [e[g] EXCEPT !.turn = t]
<1>1. /\ TypeOK /\ epoch \in [Epoch -> EpochRecord] /\ u \in Turn /\ u.pc = "offer"
      /\ epoch' = [epoch EXCEPT ![d].session = Offered(d), ![g].turn.pc = "clear"]
      /\ Offer(d, f)
      /\ UNCHANGED <<manager, app, server, sent, changes>>
  BY InvParts, EpochFields DEF OfferOnline, InTurn
<1>2. f \in Friend /\ d \in Epoch
  BY <1>1 DEF ManagerInv, Structure, TurnOk, Turn
<1>3. /\ epoch[d] \in EpochRecord
      /\ crashed' \in BOOLEAN /\ Offered(d) \in {0} \cup ShareId /\ shares' \in Seq(Share)
  BY <1>1, <1>2, OfferMade
<1>4. /\ x \in EpochRecord /\ x.turn = epoch[d].turn /\ x.sendTo = epoch[d].sendTo
      /\ x.manifest = epoch[d].manifest /\ x.thread = epoch[d].thread
  BY <1>3 DEF EpochRecord
<1>5. ~app.host.overlap => app.pc = "idle" /\ g = manager.epoch /\ d = g /\ epoch[g].sendTo = f
  BY <1>1 DEF ManagerInv, InCallbacks
<1>6. t \in Turn /\ t.pc = "clear" /\ t.client = d /\ TurnOk(t)
  <2>1. d # 0
    BY <1>1 DEF ManagerInv, Structure, TurnOk
  <2> QED BY <1>1, <1>2, <2>1 DEF Turn, TurnOk
<1>7. epoch' = [e EXCEPT ![g] = z]
  <2>1. e[g].turn = u
    BY <1>1, <1>2, <1>4
  <2>2. epoch' = [e EXCEPT ![g].turn.pc = "clear"]
    BY <1>1
  <2> HIDE DEF e
  <2> QED BY <2>1, <2>2
<1>8. /\ e \in [Epoch -> EpochRecord] /\ e[d] = x
      /\ \A h \in Epoch \ {d} : e[h] = epoch[h]
  BY <1>1, <1>2, <1>4
<1>9. ~app.host.overlap => Pending(epoch[d].manifest) /\ f = Addressee
  BY <1>1, <1>2, <1>5, InvParts DEF ManagerInv, InCallbacks
<1>10. NamedFor(f, epoch[d].manifest)
  BY <1>1 DEF ManagerInv, NamedBefore
<1> HIDE DEF d, f, t, x, e
<1>11. /\ z \in EpochRecord /\ z.turn = t /\ z.sendTo = e[g].sendTo
       /\ z.manifest = e[g].manifest /\ z.thread = e[g].thread
  BY <1>6, <1>8, TurnSet
<1> HIDE DEF z
<1>12. /\ epoch' \in [Epoch -> EpochRecord] /\ epoch'[g] = z
       /\ \A h \in Epoch \ {g} : epoch'[h] = e[h]
  BY <1>7, <1>8, <1>11
<1>13. /\ epoch'[g].turn = t
       /\ \A h \in Epoch :
            /\ h # g => epoch'[h].turn = epoch[h].turn
            /\ epoch'[h].sendTo = epoch[h].sendTo
            /\ epoch'[h].manifest = epoch[h].manifest /\ epoch'[h].thread = epoch[h].thread
  BY <1>4, <1>8, <1>11, <1>12
<1>14. TypeOK'
  BY <1>1, <1>3, <1>12 DEF TypeOK
<1>15. \A h \in Epoch : /\ TurnOk(epoch[h].turn)
                        /\ ~app.host.overlap => (epoch[h].turn.pc # "idle" => h = g)
  BY <1>5 DEF ManagerInv, Structure, InCallbacks
<1>16. Offering(d, f)
  BY <1>1, <1>5, <1>6, <1>9, <1>10, <1>13, <1>15 DEF Offering
<1> QED BY <1>1, <1>2, <1>14, <1>16, OfferingKeeps

-----------------------------------------------------------------------------
(* The theorems                                                              *)

\* Every step keeps the invariant.
LEMMA NextKeeps ==
  ASSUME ManagerInv, Next
  PROVE  ManagerInv'
<1>1. CASE Connect \/ Disconnect \/ Calls
  BY <1>1, ConnectKeeps, DisconnectKeeps, AddressKeeps, SearchKeeps, OfferNowKeeps, ClearKeeps,
     ForgetKeeps, DeleteThreadKeeps, RenewKeeps DEF Calls
<1>2. CASE \E type \in {"accept", "decline"} : Answer(type)
  BY <1>2, AnswerKeeps
<1>3. CASE \E f \in Friend : SendFiles(f) \/ PresenceChanges(f)
  BY <1>3, SendFilesKeeps, PresenceChangesKeeps
<1>4. CASE \E g \in Epoch : Turns(g)
  <2> SUFFICES ASSUME NEW g \in Epoch, Turns(g) PROVE ManagerInv'
    BY <1>4
  <2> QED BY OnSignonKeeps, OnStatusUpdateKeeps, PossibleDestinationKeeps, NoClientKeeps,
             OfferOnlineKeeps, ClearOnlineKeeps, UpdateRosterKeeps, OnStopKeeps, OnAnswerKeeps DEF Turns
<1>5. CASE \E g \in Epoch : LinkCloses(g) \/ \E f \in Friend : OnOffer(g, f)
  BY <1>5, LinkClosesKeeps, OnOfferKeeps
<1>6. CASE \E s \in DOMAIN shares : Progress(s)
  BY <1>6, ProgressKeeps
<1> QED BY <1>1, <1>2, <1>3, <1>4, <1>5, <1>6 DEF Next

\* It holds of every state of the P2PManager, whatever its friends and its application.
THEOREM ManagerInvariant == Spec => []ManagerInv
<1>1. Init => ManagerInv
  <2> SUFFICES ASSUME Init PROVE ManagerInv
    OBVIOUS
  <2>1. PICK h \in Hosts : app = [pc |-> "idle", asked |-> 0, host |-> h]
    BY DEF Init
  <2>2. h \in Host /\ MaxLogins \in Nat \ {0}
    BY P2PManagerAssumption
  <2>3. 1 \in Epoch /\ Epoch \subseteq Nat /\ 1 <= MaxLogins
    BY <2>2 DEF Epoch
  <2>4. Fresh \in EpochRecord /\ Fresh.turn = Idle /\ Fresh.sendTo = None /\ Fresh.manifest = 0
        /\ Fresh.thread = "new"
    <3>1. Idle \in Turn
      BY DEF Idle, Turn, Presence
    <3>2. <<>> \in Seq([type : {"stop", "accept", "decline"}, about : {0} \cup ShareId])
      OBVIOUS
    <3>3. [f \in Friend |-> <<>>] \in [Friend -> Seq(Presence)]
      OBVIOUS
    <3> QED BY <3>1, <3>2, <3>3 DEF Fresh, EpochRecord
  <2>5. TypeOK
    <3>1. manager \in Manager
      BY <2>3 DEF Init, Manager, Presence
    <3>2. epoch \in [Epoch -> EpochRecord]
      BY <2>4 DEF Init
    <3>3. app \in App
      BY <2>1 DEF App
    <3>4. /\ shares \in Seq(Share) /\ sent \in Seq(Friend) /\ Len(sent) <= app.host.sends
          /\ changes \in 0 .. app.host.changes
      BY <2>1, <2>2 DEF Init, Host
    <3>5. server \in [Friend -> Presence] /\ crashed \in BOOLEAN
      BY DEF Init, Presence
    <3> QED BY <3>1, <3>2, <3>3, <3>4, <3>5 DEF TypeOK
  <2>6. \A g \in Epoch : epoch[g] = Fresh
    BY DEF Init
  <2>7. /\ shares = <<>> /\ sent = <<>> /\ app.pc = "idle" /\ Len(sent) = 0
        /\ manager.epoch = 1 /\ manager.client = 1 /\ ~manager.connected
    BY <2>1 DEF Init
  <2>8. Idle.pc = "idle"
    BY DEF Idle
  <2>9. Structure
    <3>1. \A g \in Epoch : /\ epoch[g].thread # "running" /\ epoch[g].sendTo = None
                           /\ epoch[g].manifest <= Len(sent) /\ TurnOk(epoch[g].turn)
      BY <2>4, <2>6, <2>7, <2>8 DEF TurnOk
    <3>2. DOMAIN shares = {}
      BY <2>7
    <3> QED BY <2>3, <2>7, <3>1, <3>2 DEF Structure
  <2>10. InCallbacks /\ NamedBefore
    BY <2>3, <2>4, <2>6, <2>7, <2>8 DEF InCallbacks, NamedBefore
  <2>11. OfferedOnce /\ RightAddressee
    BY <2>7 DEF OfferedOnce, RightAddressee
  <2> QED BY <2>5, <2>9, <2>10, <2>11 DEF ManagerInv
<1>2. ManagerInv /\ [Next]_vars => ManagerInv'
  <2> SUFFICES ASSUME ManagerInv, UNCHANGED vars PROVE ManagerInv'
    BY NextKeeps
  <2>1. TypeOK'
    BY DEF ManagerInv, TypeOK, vars
  <2>2. Calm
    BY DEF Calm, vars
  <2> QED BY <2>1, <2>2, CalmKeeps
<1> QED BY <1>1, <1>2, PTL DEF Spec

\* The types of the P2PManager, its connections and transfers.
THEOREM ManagerTypeCorrect == Spec => []TypeOK
<1>1. ManagerInv => TypeOK
  BY DEF ManagerInv
<1> QED BY <1>1, ManagerInvariant, PTL

\* An application that calls from the callbacks never offers the files of one call of
\* sendFiles twice, though the call and the presence of the friend both look for it.
THEOREM FilesAreOfferedOnce == Spec => []OfferedOnce
<1>1. ManagerInv => OfferedOnce
  BY DEF ManagerInv
<1> QED BY <1>1, ManagerInvariant, PTL

\* Whatever calls and turns overlap, and however often, files are offered only to a friend
\* whom their call of sendFiles or one before it named; and from the callbacks to the
\* friend their own call named.
THEOREM FilesGoToTheirAddressee == Spec => []RightAddressee
<1>1. ManagerInv => RightAddressee
  BY DEF ManagerInv
<1> QED BY <1>1, ManagerInvariant, PTL

===============================================================================
