------------------------------ MODULE P2PManager ------------------------------
(***************************************************************************)
(* gingacc-p2p: P2PManager and its FileShareClient, between an application  *)
(* that calls on a thread of its own and the signalling thread, which has   *)
(* the presence of friends, the transfers and the posted answers.  The two  *)
(* share roster_, send_to_jid_, manifest_ and session_ without a lock, so a  *)
(* call and a turn are cut at every access to them.                         *)
(*                                                                         *)
(* Every login has a pump, a thread and a FileShareClient of its own, the    *)
(* epoch; disconnect abandons them and makes the next.  Friends have one     *)
(* resource each; a search of roster_ while the other thread changes it is   *)
(* taken to find the friend in or out.                                      *)
(***************************************************************************)
EXTENDS Naturals, Sequences, FiniteSets

CONSTANTS Friend, None,   \* JID_EMPTY
          MaxLogins,   \* bound: calls of connect
          Hosts        \* the applications, which differ in how they call, and the bounds
                       \* under each: see Host

\* overlap: calls and turns overlap; else calls come from the listener's callbacks.
\* At most so many calls of sendFiles, transfers offered by friends and changes of
\* presence happen.
Host == [overlap : BOOLEAN, sends : Nat, offers : Nat, changes : Nat]

ASSUME P2PManagerAssumption ==
  /\ None \notin Friend
  /\ Hosts \subseteq Host /\ Hosts # {}
  /\ MaxLogins \in Nat \ {0}

VARIABLES
  manager,  \* the P2PManager
  epoch,    \* epoch[g]: its g-th pump, thread and FileShareClient
  shares,   \* the FileShareSessions, in the order of their creation
  app,      \* the application's thread
  server,   \* server[f]: the presence of f
  sent,     \* sent[n]: to whom the n-th call of sendFiles is addressed
  changes,  \* the changes of presence left
  crashed   \* a NULL pointer was used

vars == <<manager, epoch, shares, app, server, sent, changes, crashed>>

Epoch    == 1 .. MaxLogins + 1
File     == UNION {1 .. h.sends : h \in Hosts}
Presence == {"offline", "online", "capable"}    \* capable: fileshare_capability
Ended    == {"COMPLETE", "LOCAL_CANCEL", "REMOTE_CANCEL", "FAILURE"}

Manager == [connected : BOOLEAN,
            epoch     : Epoch,               \* of pump and main_thread
            client    : {0} \cup Epoch,      \* fs_client
            roster    : [Friend -> Presence],
            chat      : {0} \cup Epoch]      \* chatTask

\* The turn of OnStatusUpdate in progress: what it does next, and on which client.
Turn == [pc : {"idle", "status", "offer", "clear", "roster"}, friend : Friend \cup {None},
         status : Presence, client : {0} \cup Epoch]
Idle == [pc |-> "idle", friend |-> None, status |-> "offline", client |-> 0]

\* The sessions of transfers, numbered as they are created.
ShareId == Nat \ {0}

EpochRecord ==
  [link     : {"new", "login", "open", "closed"},
   thread   : {"new", "running", "stopped"},
   turn     : Turn,
   inbox    : [Friend -> Seq(Presence)],
   posted   : Seq([type : {"stop", "accept", "decline"}, about : {0} \cup ShareId]),
   manifest : {0} \cup File,              \* manifest_, 0 is NULL
   sendTo   : Friend \cup {None},         \* send_to_jid_
   session  : {0} \cup ShareId]           \* session_

Fresh == [link |-> "new", thread |-> "new", turn |-> Idle, inbox |-> [f \in Friend |-> <<>>],
          posted |-> <<>>, manifest |-> 0, sendTo |-> None, session |-> 0]

Share == [out : {TRUE}, friend : Friend, file : File, epoch : Epoch,
          state : Ended \cup {"OFFER", "TRANSFER"}]
         \cup
         [out : {FALSE}, friend : Friend, file : {0}, epoch : Epoch,
          state : Ended \cup {"OFFER", "TRANSFER"}]

\* asked: the offer the application's screen shows.
App == [pc : {"idle", "address", "search", "offer", "clear", "forget", "delete", "renew"},
        asked : {0} \cup ShareId,
        host  : Hosts]

Init ==
  /\ manager = [connected |-> FALSE, epoch |-> 1, client |-> 1,
                roster |-> [f \in Friend |-> "offline"], chat |-> 0]
  /\ epoch = [g \in Epoch |-> Fresh]
  /\ shares = <<>>
  /\ app \in {[pc |-> "idle", asked |-> 0, host |-> h] : h \in Hosts}
  /\ server = [f \in Friend |-> "offline"]
  /\ sent = <<>>
  /\ changes = app.host.changes
  /\ crashed = FALSE

-----------------------------------------------------------------------------
\* FileShareSessionClient::CreateFileShareSession and Share, which takes the manifest;
\* neither a client that has not signed on nor a manifest that is NULL can.
Offer(client, f) ==
  LET c == epoch[client] IN
  IF c.link \in {"new", "login"} \/ c.manifest = 0
  THEN crashed' = TRUE /\ UNCHANGED shares
  ELSE /\ shares' = Append(shares, [out |-> TRUE, friend |-> f, file |-> c.manifest,
                                    epoch |-> client, state |-> "OFFER"])
       /\ UNCHANGED crashed

Offered(client) == IF Len(shares') > Len(shares) THEN Len(shares') ELSE epoch[client].session

\* When the application may begin a call, and go on with it.
Call(pc)     == app.pc = pc /\ ~crashed
BeginCall    == Call("idle") /\ (app.host.overlap \/ \A g \in Epoch : epoch[g].turn.pc = "idle")

\* When the thread of epoch g may begin a turn, and go on with it.
InTurn(g, pc) == epoch[g].turn.pc = pc /\ ~crashed
BeginTurn(g)  == InTurn(g, "idle") /\ epoch[g].thread = "running" /\ (app.host.overlap \/ app.pc = "idle")

-----------------------------------------------------------------------------
(* Calls.                                                                    *)

Connect ==
  LET g == manager.epoch IN
  /\ BeginCall /\ ~manager.connected /\ g <= MaxLogins
  /\ manager' = [manager EXCEPT !.connected = TRUE]
  /\ epoch' = [epoch EXCEPT ![g].link = "login", ![g].thread = "running"]
  /\ UNCHANGED <<shares, app, server, sent, changes, crashed>>

\* sendFiles: manifest_, then send_to_jid_, then the search of the roster.
SendFiles(f) ==
  /\ BeginCall /\ manager.connected /\ Len(sent) < app.host.sends
  /\ sent' = Append(sent, f)
  /\ epoch' = [epoch EXCEPT ![manager.client].manifest = Len(sent) + 1]
  /\ app' = [app EXCEPT !.pc = "address"]
  /\ UNCHANGED <<manager, shares, server, changes, crashed>>

Addressee == sent[Len(sent)]

Address ==
  /\ Call("address")
  /\ epoch' = [epoch EXCEPT ![manager.client].sendTo = Addressee]
  /\ app' = [app EXCEPT !.pc = "search"]
  /\ UNCHANGED <<manager, shares, server, sent, changes, crashed>>

\* Mutant: the friend may have been there all along.
SearchNot ==
  /\ Call("search")
  /\ app' = [app EXCEPT !.pc = "idle"]
  /\ UNCHANGED <<manager, epoch, shares, server, sent, changes, crashed>>

Search ==
  /\ Call("search")
  /\ app' = [app EXCEPT !.pc = IF manager.roster[Addressee] = "capable" THEN "offer" ELSE "idle"]
  /\ UNCHANGED <<manager, epoch, shares, server, sent, changes, crashed>>

OfferNow ==
  /\ Call("offer")
  /\ Offer(manager.client, Addressee)
  /\ epoch' = [epoch EXCEPT ![manager.client].session = Offered(manager.client)]
  /\ app' = [app EXCEPT !.pc = "clear"]
  /\ UNCHANGED <<manager, server, sent, changes>>

Clear ==
  /\ Call("clear")
  /\ epoch' = [epoch EXCEPT ![manager.client].sendTo = None]
  /\ app' = [app EXCEPT !.pc = "idle"]
  /\ UNCHANGED <<manager, shares, server, sent, changes, crashed>>

\* accept and reject: the answer is posted, and the screen changes.
Answer(type) ==
  /\ BeginCall /\ app.asked # 0
  /\ epoch' = [epoch EXCEPT ![manager.epoch].posted = Append(@, [type |-> type, about |-> app.asked])]
  /\ app' = [app EXCEPT !.asked = 0]
  /\ UNCHANGED <<manager, shares, server, sent, changes, crashed>>

\* disconnect: MSG_STOP is posted and the stream closed.
Disconnect ==
  LET g == manager.epoch IN
  /\ BeginCall /\ manager.connected
  /\ epoch' = [epoch EXCEPT ![g].posted = Append(@, [type |-> "stop", about |-> 0]),
                            ![g].link = "closed", ![g].inbox = Fresh.inbox]
  /\ manager' = [manager EXCEPT !.connected = FALSE]
  /\ app' = [app EXCEPT !.pc = "forget", !.asked = 0]
  /\ UNCHANGED <<shares, server, sent, changes, crashed>>

Forget ==
  /\ Call("forget")
  /\ manager' = [manager EXCEPT !.client = 0]
  /\ app' = [app EXCEPT !.pc = "delete"]
  /\ UNCHANGED <<epoch, shares, server, sent, changes, crashed>>

\* delete main_thread: it is told to stop and its queue is cleared; a turn goes on.
DeleteThread ==
  /\ Call("delete")
  /\ epoch' = [epoch EXCEPT ![manager.epoch].thread = "stopped", ![manager.epoch].posted = <<>>]
  /\ app' = [app EXCEPT !.pc = "renew"]
  /\ UNCHANGED <<manager, shares, server, sent, changes, crashed>>

Renew ==
  /\ Call("renew")
  /\ manager' = [manager EXCEPT !.epoch = @ + 1, !.client = manager.epoch + 1]
  /\ app' = [app EXCEPT !.pc = "idle"]
  /\ UNCHANGED <<epoch, shares, server, sent, changes, crashed>>

-----------------------------------------------------------------------------
(* The signalling thread.                                                    *)

\* OnStateChange(STATE_OPEN): the client can make sessions, and the server answers our
\* presence with that of the friends.
OnSignon(g) ==
  /\ BeginTurn(g) /\ epoch[g].link = "login"
  /\ epoch' = [epoch EXCEPT ![g].link = "open",
                            ![g].inbox = [f \in Friend |-> IF server[f] = "offline" THEN <<>>
                                                           ELSE <<server[f]>>]]
  /\ manager' = [manager EXCEPT !.chat = g]
  /\ UNCHANGED <<shares, app, server, sent, changes, crashed>>

PresenceChanges(f) ==
  /\ changes > 0 /\ ~crashed
  /\ changes' = changes - 1
  /\ \E status \in Presence \ {server[f]} :
       /\ server' = [server EXCEPT ![f] = status]
       /\ epoch' = [g \in Epoch |-> IF epoch[g].link # "open" THEN epoch[g]
                                    ELSE [epoch[g] EXCEPT !.inbox[f] = Append(@, status)]]
  /\ UNCHANGED <<manager, shares, app, sent, crashed>>

\* The server closes the stream, or it breaks.
LinkCloses(g) ==
  /\ BeginTurn(g) /\ epoch[g].link \in {"login", "open"} /\ changes > 0
  /\ changes' = changes - 1
  /\ epoch' = [epoch EXCEPT ![g].link = "closed", ![g].inbox = Fresh.inbox]
  /\ UNCHANGED <<manager, shares, app, server, sent, crashed>>

\* OnStatusUpdate, up to where it looks at fs_client or the roster.
OnStatusUpdate(g, f) ==
  /\ BeginTurn(g) /\ epoch[g].inbox[f] # <<>>
  /\ epoch' = [epoch EXCEPT ![g].inbox[f] = Tail(@),
                            ![g].turn = [pc |-> "status", friend |-> f, client |-> 0,
                                         status |-> Head(epoch[g].inbox[f])]]
  /\ UNCHANGED <<manager, shares, app, server, sent, changes, crashed>>

\* Mutant: whoever comes gets what waits for somebody.
PossibleDestinationAny(g) ==
  LET turn == epoch[g].turn IN
  /\ InTurn(g, "status") /\ turn.status = "capable" /\ manager.client # 0
  /\ epoch' = [epoch EXCEPT
       ![g].turn = [turn EXCEPT !.client = manager.client,
                                !.pc = IF epoch[manager.client].sendTo # None
                                       THEN "offer" ELSE "roster"]]
  /\ UNCHANGED <<manager, shares, app, server, sent, changes, crashed>>

\* onPossibleDestinationOnline looks at send_to_jid_.
PossibleDestination(g) ==
  LET turn == epoch[g].turn IN
  /\ InTurn(g, "status") /\ turn.status = "capable" /\ manager.client # 0
  /\ epoch' = [epoch EXCEPT
       ![g].turn = [turn EXCEPT !.client = manager.client,
                                !.pc = IF epoch[manager.client].sendTo = turn.friend
                                       THEN "offer" ELSE "roster"]]
  /\ UNCHANGED <<manager, shares, app, server, sent, changes, crashed>>

\* The application is between forgetting fs_client and making the next.
NoClient(g) ==
  /\ InTurn(g, "status") /\ epoch[g].turn.status = "capable" /\ manager.client = 0
  /\ crashed' = TRUE
  /\ UNCHANGED <<manager, epoch, shares, app, server, sent, changes>>

OfferOnline(g) ==
  LET turn == epoch[g].turn IN
  /\ InTurn(g, "offer")
  /\ Offer(turn.client, turn.friend)
  /\ epoch' = [epoch EXCEPT ![turn.client].session = Offered(turn.client), ![g].turn.pc = "clear"]
  /\ UNCHANGED <<manager, app, server, sent, changes>>

\* Mutant: the friend is still waited for.
ClearOnlineNot(g) ==
  /\ InTurn(g, "clear")
  /\ epoch' = [epoch EXCEPT ![g].turn.pc = "roster"]
  /\ UNCHANGED <<manager, shares, app, server, sent, changes, crashed>>

ClearOnline(g) ==
  /\ InTurn(g, "clear")
  /\ epoch' = [epoch EXCEPT ![epoch[g].turn.client].sendTo = None, ![g].turn.pc = "roster"]
  /\ UNCHANGED <<manager, shares, app, server, sent, changes, crashed>>

\* The friend is put into roster_, or erased from it.
UpdateRoster(g) ==
  LET turn == epoch[g].turn IN
  /\ InTurn(g, "roster") \/ (InTurn(g, "status") /\ turn.status # "capable")
  /\ manager' = [manager EXCEPT !.roster[turn.friend] = turn.status]
  /\ epoch' = [epoch EXCEPT ![g].turn = Idle]
  /\ UNCHANGED <<shares, app, server, sent, changes, crashed>>

\* A friend offers: the new session becomes session_ and the listener is told.
OnOffer(g, f) ==
  /\ BeginTurn(g) /\ epoch[g].link = "open"
  /\ Cardinality({s \in DOMAIN shares : ~shares[s].out}) < app.host.offers
  /\ shares' = Append(shares, [out |-> FALSE, friend |-> f, file |-> 0, epoch |-> g, state |-> "OFFER"])
  /\ epoch' = [epoch EXCEPT ![g].session = Len(shares) + 1]
  /\ app' = [app EXCEPT !.asked = Len(shares) + 1]
  /\ UNCHANGED <<manager, server, sent, changes, crashed>>

\* FileShareClient::OnSessionState; any end but a failure forgets manifest_, and the
\* listener, who is not told which transfer it was, leaves the screen of an offer.
OnSessionState(e, s, state) ==
  /\ shares' = [shares EXCEPT ![s].state = state]
  /\ epoch' = IF state \in Ended \ {"FAILURE"} THEN [e EXCEPT ![shares[s].epoch].manifest = 0] ELSE e
  /\ app' = IF state \in Ended THEN [app EXCEPT !.asked = 0] ELSE app

\* What the other side and the network do to a transfer.  Only an accept has to come
\* over the link: data and errors do not.
Progress(s) ==
  LET share == shares[s] IN
  /\ BeginTurn(share.epoch)
  /\ \E state \in {"TRANSFER", "COMPLETE", "REMOTE_CANCEL", "FAILURE"} :
       /\ \/ share.state = "OFFER" /\ state = "REMOTE_CANCEL"
          \/ share.state = "OFFER" /\ state = "TRANSFER" /\ share.out
             /\ epoch[share.epoch].link = "open"
          \/ share.state = "TRANSFER" /\ state # "TRANSFER"
       /\ (share.out => state # "FAILURE")
       /\ OnSessionState(epoch, s, state)
  /\ UNCHANGED <<manager, server, sent, changes, crashed>>

\* FileShareClient::OnMessage takes the next message; s is its session_.
Takes(g, s, type) ==
  /\ BeginTurn(g) /\ epoch[g].posted # <<>>
  /\ Head(epoch[g].posted).type = type
  /\ s = epoch[g].session
  /\ UNCHANGED <<manager, server, sent, changes>>
Taken(g) == [epoch EXCEPT ![g].posted = Tail(@)]

\* MSG_STOP deletes the session, which ends the transfer without a signal.
OnStop(g) ==
  /\ \E s \in {0} \cup DOMAIN shares :
       /\ Takes(g, s, "stop")
       /\ shares' = IF s = 0 \/ shares[s].state \in Ended THEN shares
                    ELSE [shares EXCEPT ![s].state = "FAILURE"]
  /\ epoch' = [Taken(g) EXCEPT ![g].session = 0, ![g].thread = "stopped"]
  /\ UNCHANGED <<app, crashed>>

\* An offer of ours is "accepted" as well: it begins to download from itself.  What is
\* under way is started again, which its state does not show.
OnAccept(g) ==
  \E s \in DOMAIN shares :
    /\ Takes(g, s, "accept")
    /\ IF shares[s].state = "OFFER" THEN OnSessionState(Taken(g), s, "TRANSFER")
       ELSE epoch' = Taken(g) /\ UNCHANGED <<shares, app>>
    /\ UNCHANGED crashed

\* An offer of ours is not rejected.
OnDecline(g) ==
  \E s \in DOMAIN shares :
    /\ Takes(g, s, "decline")
    /\ IF shares[s].state = "OFFER" /\ ~shares[s].out THEN OnSessionState(Taken(g), s, "LOCAL_CANCEL")
       ELSE epoch' = Taken(g) /\ UNCHANGED <<shares, app>>
    /\ UNCHANGED crashed

\* session_ is NULL, or the session of a transfer that has ended is.
OnAnswerToNone(g) ==
  \E s \in {0} \cup DOMAIN shares, type \in {"accept", "decline"} :
    /\ Takes(g, s, type)
    /\ s # 0 => shares[s].state \in Ended
    /\ epoch' = Taken(g) /\ crashed' = TRUE
    /\ UNCHANGED <<shares, app>>

-----------------------------------------------------------------------------
Turns(g) ==
  \/ OnSignon(g) \/ \E f \in Friend : OnStatusUpdate(g, f)
  \/ PossibleDestination(g) \/ NoClient(g) \/ OfferOnline(g) \/ ClearOnline(g) \/ UpdateRoster(g)
  \/ OnStop(g) \/ OnAccept(g) \/ OnDecline(g) \/ OnAnswerToNone(g)

Calls == Address \/ Search \/ OfferNow \/ Clear \/ Forget \/ DeleteThread \/ Renew

Next ==
  \/ Connect \/ Disconnect \/ Calls
  \/ \E type \in {"accept", "decline"} : Answer(type)
  \/ \E f \in Friend : SendFiles(f) \/ PresenceChanges(f)
  \/ \E g \in Epoch : Turns(g) \/ LinkCloses(g) \/ \E f \in Friend : OnOffer(g, f)
  \/ \E s \in DOMAIN shares : Progress(s)

Spec == Init /\ [][Next]_vars

\* A call that has begun goes on, and a thread takes what it has to do.
FairSpec == Spec /\ WF_vars(Calls) /\ \A g \in Epoch : WF_vars(Turns(g))

-----------------------------------------------------------------------------
(* Properties.                                                               *)

TypeOK ==
  /\ manager \in Manager
  /\ epoch \in [Epoch -> EpochRecord]
  /\ shares \in Seq(Share)
  /\ app \in App
  /\ server \in [Friend -> Presence]
  /\ sent \in Seq(Friend) /\ Len(sent) <= app.host.sends
  /\ changes \in 0 .. app.host.changes
  /\ crashed \in BOOLEAN

\* Share takes and deletes the manifest: no call of sendFiles is offered twice, once by
\* the call and once by the presence of the friend.
\* (When the two overlap, both may.)
OfferedOnce ==
  ~app.host.overlap =>
    \A s, t \in DOMAIN shares :
      (shares[s].out /\ shares[t].out /\ s # t) => shares[s].file # shares[t].file

\* "Identificador o amigo que irá receber os arquivos" (IP2PManager.h:129): from the
\* callbacks, files are offered to the friend they are meant for.  A call that overlaps a
\* turn replaces manifest_ before send_to_jid_ (FileShareClient.cpp:147-148), and a friend
\* who was named before may get its files; but no friend gets those of a call made before
\* he was named.
RightAddressee ==
  \A s \in DOMAIN shares : shares[s].out =>
    \/ shares[s].friend = sent[shares[s].file]
    \/ app.host.overlap /\ \E n \in 1 .. shares[s].file : shares[s].friend = sent[n]

\* The same without exception: fails when calls and turns overlap.
OnlyAddressee ==
  \A s \in DOMAIN shares : shares[s].out => shares[s].friend = sent[shares[s].file]

Quiet == app.pc = "idle" /\ ~crashed /\ \A g \in Epoch : epoch[g].turn.pc = "idle"

Current == epoch[manager.epoch]

\* "Se o destinatário já estiver conectado, envia o manifesto": files wait for nobody who
\* is in the roster and can take them, whether the call or the presence came first.
\* Only so when the two do not overlap: else neither may see the other.
NothingWaits ==
  (Quiet /\ Current.link = "open" /\ Current.sendTo # None)
    => manager.roster[Current.sendTo] # "capable"

\* "checar se existe algum item que está pendente": a friend who is waited for has
\* something to get.
PendingHasManifest == (Quiet /\ Current.sendTo # None) => Current.manifest # 0

\* "Retorna a lista de amigos conectados": once all presence has been taken, the roster
\* is what the server says, also after other connections.
RosterFollows ==
  (Quiet /\ Current.link = "open") =>
    \A f \in Friend : Current.inbox[f] = <<>> => manager.roster[f] = server[f]

\* An answer about to be taken acts on the offer the listener was told of.
AnswersTheOfferTold ==
  \A g \in Epoch : (epoch[g].posted # <<>> /\ Head(epoch[g].posted).type # "stop")
                     => epoch[g].session = Head(epoch[g].posted).about

\* fileshare.cc:270, ASSERT(FS_OFFER == state_): what an answer is applied to is still
\* an offer.
AnswersAnOffer ==
  \A g \in Epoch : (epoch[g].posted # <<>> /\ Head(epoch[g].posted).type # "stop")
                     => epoch[g].session # 0 /\ shares[epoch[g].session].state = "OFFER"

\* "Checa se está conectado": who is connected can send a message, with a task of
\* this connection.
ChatHasItsTask == (app.pc = "idle" /\ manager.connected) => manager.chat = manager.epoch

\* "dentro do método OnMessage (STOP)": the session of a connection that has gone is
\* deleted by its thread.
StopDeletesSession ==
  \A g \in Epoch : (epoch[g].thread = "stopped" /\ epoch[g].turn.pc = "idle") => epoch[g].session = 0

\* Files that were sent last, to a friend who is there and can take them from some
\* moment on, are offered; of an application that calls from the callbacks.
SentIsOffered ==
  \A n \in File :
    <>[](/\ ~app.host.overlap
         /\ Len(sent) = n /\ server[sent[n]] = "capable"
         /\ Current.link = "open" /\ Current.manifest = n /\ ~crashed)
      => <>(\E s \in DOMAIN shares : shares[s].out /\ shares[s].file = n)
===============================================================================
