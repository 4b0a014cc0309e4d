------------------------------- MODULE FileShare -------------------------------
(***************************************************************************)
(* cricket::FileShareSession: the transfer of a manifest of items from the  *)
(* sender to the receiver, one object on each side.  The offer is the       *)
(* description of a session; the receiver accepts it and fetches the items  *)
(* one by one by HTTP over a pseudo-TCP channel of the session; a browser   *)
(* on the receiver's machine may fetch previews or originals over a second  *)
(* channel, through a local proxy.                                          *)
(*                                                                         *)
(* A step is one turn of a peer's signalling thread with everything it      *)
(* calls.  Of the session only what ends or moves a transfer is kept (module *)
(* Session has the rest); of pseudo-TCP, that it has no FIN: the end of a    *)
(* channel that closes is not announced to the other end.                   *)
(***************************************************************************)
EXTENDS Naturals, Sequences, FiniteSets, Functions

CONSTANTS Sizes,          \* the sizes of the items of the manifest, in order
          AcceptsAtOnce,  \* the receiver's client accepts inside SignalState, as pcp does
          Cases           \* the cases to start from: what the users may do, what the
                          \* receiver's browser may fetch, what may go wrong and how
                          \* often (a failing disk is not counted)

ASSUME FileShareAssumption ==
  /\ Sizes \in Seq(Nat) /\ Sizes # <<>>
  /\ AcceptsAtOnce \in BOOLEAN
  /\ Cases \subseteq [users : SUBSET {"decline", "cancel"},
                      browsing : SUBSET {"original", "preview"},
                      kinds : SUBSET {"disk", "session", "loss", "stream"}, faults : Nat]

VARIABLES
  share,   \* share[p]: p's FileShareSession and what matters of its Session
  net,     \* net[p]: the stanzas on their way to p, in order
  wire,    \* wire[c]: the channel c with the request on it
  place,   \* place[i]: what the receiver's folder holds under the name of item i
  case     \* the case, in which no more than case.faults faults are left

vars == <<share, net, wire, place, case>>

Peer == {"sender", "receiver"}
Conn == {"private", "proxy"}
Item == 1 .. Len(Sizes)
Other(p) == CHOOSE q \in Peer : q # p

Live    == {"SENTINITIATE", "RECEIVEDINITIATE", "SENTACCEPT", "RECEIVEDACCEPT", "INPROGRESS"}
Refused == {"SENTREJECT", "RECEIVEDREJECT"}
Terminated == {"SENTTERMINATE", "RECEIVEDTERMINATE"}
Complete   == {"COMPLETE", "LOCAL_CANCEL", "REMOTE_CANCEL", "FAILURE"}

Stanza == [type : {"initiate", "accept", "reject", "terminate", "channel", "complete"},
           conn : Conn]

ShareRecord ==
  [session     : Live \cup Refused \cup Terminated \cup {"INIT", "NULL"},
   posted      : Seq({"state", "error"}),   \* MSG_STATE and MSG_ERROR of the session
   unanswered  : Nat,                       \* its requests that will fail
   failed      : BOOLEAN,                   \* history: the session had an error
   state       : Complete \cup {"NONE", "OFFER", "TRANSFER"},
   closed      : BOOLEAN,
   localCancel : BOOLEAN,
   item        : 0 .. Len(Sizes),           \* item_transferring_
   bytes       : Nat,                       \* bytes_transferred_
   counter     : BOOLEAN,                   \* counter_ # NULL
   serving     : Conn \cup {"none"},        \* transfer_connection_id_
   proxies     : SUBSET {"proxy"},
   wait        : BOOLEAN,                   \* MSG_PROXY_WAIT is posted
   asserted    : SUBSET {"share", "http"}]  \* history: whose ASSERT failed

Blank ==
  [session |-> "INIT", posted |-> <<>>, unanswered |-> 0, failed |-> FALSE,
   state |-> "NONE", closed |-> FALSE, localCancel |-> FALSE, item |-> 0, bytes |-> 0,
   counter |-> FALSE, serving |-> "none", proxies |-> {}, wait |-> FALSE, asserted |-> {}]

\* channel: announced by the receiver, created by the sender too, connected.
\* gone: the peers that have closed their end.  want: the item of the request.
Wire == [channel : {"none", "announced", "opening", "open"},
         gone    : SUBSET Peer,
         kind    : {"original", "preview"},
         want    : Item,
         phase   : {"idle", "asked", "serving", "sent", "denied"}]

Unused == [channel |-> "none", gone |-> {}, kind |-> "original", want |-> 1, phase |-> "idle"]

Init ==
  /\ share = [p \in Peer |-> Blank]
  /\ net = [p \in Peer |-> <<>>]
  /\ wire = [c \in Conn |-> Unused]
  /\ place = [i \in Item |-> "absent"]
  /\ case \in Cases

-----------------------------------------------------------------------------
(* What a turn of p works on, and the functions it calls.                    *)

Here(p) == [p |-> p, me |-> share[p], out |-> net[Other(p)], wire |-> wire, place |-> place]

Send(e, type, conn) == [e EXCEPT !.out = Append(@, [type |-> type, conn |-> conn])]
Post(e, msg)        == [e EXCEPT !.me.posted = Append(@, msg)]
Assert(e, holds)    == IF holds THEN e ELSE [e EXCEPT !.me.asserted = @ \cup {"share"}]

\* Session::Terminate; the share's OnSessionState ignores it once complete.
EndSession(e) ==
  IF e.me.session \in Terminated THEN e
  ELSE Post([(IF e.me.session \in Refused THEN e ELSE Send(e, "terminate", "private"))
               EXCEPT !.me.session = "SENTTERMINATE"], "state")

\* HttpClient::reset: it ends in OnHttpClientComplete with an error, where the part
\* that was downloaded is moved to the item's place although "success" is false.
AbortDownload(e) ==
  IF e.p = "sender" \/ ~e.me.counter THEN e
  ELSE [e EXCEPT !.place[e.wire["private"].want] = "broken",
                 !.wire["private"].gone = @ \cup {"receiver"}]

\* p closes its end of a channel.
Leave(w, p) == [w EXCEPT !.gone = @ \cup {p}]

\* HttpServer::CloseAll; the receiver's server has no connection.
CloseAll(e) ==
  IF e.p = "receiver" THEN e
  ELSE [e EXCEPT !.wire = [c \in Conn |-> IF e.wire[c].channel \in {"opening", "open"}
                                          THEN Leave(e.wire[c], "sender") ELSE e.wire[c]]]

HangUp(e) == [CloseAll(AbortDownload(e)) EXCEPT !.me.counter = FALSE, !.me.serving = "none"]

DoClose(e, terminate) ==
  LET ok == ~e.me.closed /\ e.me.state \in Complete /\ e.me.session # "NULL"
      closed == HangUp([Assert(e, ok) EXCEPT !.me.closed = TRUE])
  IN  IF terminate THEN EndSession(closed) ELSE closed

\* "Entering a completion state is permanent."
SetState(e, state, preventClose) ==
  IF state = e.me.state THEN e
  ELSE IF e.me.state \in Complete THEN Assert(e, FALSE)
  ELSE LET set == [e EXCEPT !.me.state = state] IN
       IF state \in Complete /\ (state # "COMPLETE" \/ ~preventClose) THEN DoClose(set, TRUE)
       ELSE set

\* What the first n items come to; an unknown size counts as 1.
SizeOf[n \in 0 .. Len(Sizes)] == IF n = 0 THEN 0 ELSE SizeOf[n - 1] + Sizes[n]

TotalSize == SizeOf[Len(Sizes)]   \* GetTotalSize

Cancelled(e) == SetState(e, IF e.me.localCancel THEN "LOCAL_CANCEL" ELSE "REMOTE_CANCEL", FALSE)

\* Mutant: the sender waits for QN_SHARE_COMPLETE only.
OnSessionStateNoFallback(e, state) ==
  IF e.me.state \in Complete THEN e ELSE
  CASE state \in {"SENTINITIATE", "RECEIVEDINITIATE"} -> SetState(e, "OFFER", FALSE)
    [] state \in {"SENTACCEPT", "RECEIVEDACCEPT", "INPROGRESS"} -> SetState(e, "TRANSFER", FALSE)
    [] state \in {"SENTREJECT", "SENTTERMINATE"} -> Cancelled(e)
    [] state \in {"RECEIVEDTERMINATE", "RECEIVEDREJECT"} -> SetState(e, "REMOTE_CANCEL", FALSE)

\* Mutant: state changes are looked at after completion.
OnSessionStateAgain(e, state) ==
  IF e.me.state \in Complete
  THEN (IF state \in {"RECEIVEDTERMINATE", "RECEIVEDREJECT"} THEN SetState(e, "REMOTE_CANCEL", FALSE) ELSE e)
  ELSE OnSessionStateNoFallback(e, state)

\* "Once we are complete, state changes are meaningless."  Of STATE_DEINIT too: a
\* session is only destroyed in a state that has completed its share.
OnSessionState(e, state) ==
  IF e.me.state \in Complete THEN e ELSE
  CASE state \in {"SENTINITIATE", "RECEIVEDINITIATE"} -> SetState(e, "OFFER", FALSE)
    [] state \in {"SENTACCEPT", "RECEIVEDACCEPT", "INPROGRESS"} -> SetState(e, "TRANSFER", FALSE)
    [] state \in {"SENTREJECT", "SENTTERMINATE"} -> Cancelled(e)
    [] state \in {"RECEIVEDTERMINATE", "RECEIVEDREJECT"} ->
         IF state = "RECEIVEDTERMINATE" /\ e.p = "sender" /\ e.me.bytes >= TotalSize
         THEN SetState(e, "COMPLETE", FALSE)
         ELSE SetState(e, "REMOTE_CANCEL", FALSE)

\* Session::SetState
Enter(e, state) ==
  IF e.me.session = state THEN e
  ELSE Post(OnSessionState([e EXCEPT !.me.session = state], state), "state")

\* Session::Terminate on behalf of anyone but DoClose.
Terminate(e) ==
  IF e.me.session \in Terminated THEN e
  ELSE Enter(IF e.me.session \in Refused THEN e ELSE Send(e, "terminate", "private"),
             "SENTTERMINATE")

\* Session::SetError: fatal, by a posted Terminate.
SetError(e) ==
  IF e.me.session \in Live THEN Post([e EXCEPT !.me.failed = TRUE], "error") ELSE e

\* ~Session: STATE_DEINIT is signalled, then the channels are destroyed.
Destroy(e) ==
  LET closed == IF e.me.closed THEN e ELSE DoClose(e, FALSE)
  IN  [closed EXCEPT !.me.session = "NULL", !.me.posted = <<>>, !.me.unanswered = 0,
                     !.me.proxies = {}, !.me.wait = FALSE,
                     !.wire = [c \in Conn |-> IF closed.wire[c].channel = "none" THEN closed.wire[c]
                                              ELSE Leave(closed.wire[c], e.p)]]

-----------------------------------------------------------------------------
(* The receiver's downloads.                                                 *)

\* HttpClient::start: the first request opens a channel, the next reuse it.
Ask(e) ==
  LET announced == IF e.wire["private"].channel # "none" THEN e
                   ELSE [Send(e, "channel", "private") EXCEPT !.wire["private"].channel = "announced"]
  IN  [announced EXCEPT !.me.counter = TRUE,
                        !.wire["private"] = [@ EXCEPT !.kind = "original", !.want = e.me.item + 1,
                                                      !.phase = "asked"]]

\* The temporary file may fail to open.
NextDownload(e) ==
  IF e.me.state # "TRANSFER" THEN {e}
  ELSE IF e.me.item >= Len(Sizes)
       THEN {SetState(Send(e, "complete", "private"), "COMPLETE", e.me.proxies # {})}
       ELSE {Ask(e)} \cup (IF "disk" \in case.kinds THEN {SetState(e, "FAILURE", FALSE)} ELSE {})

Idle(e) == [e EXCEPT !.me.counter = FALSE, !.wire["private"].phase = "idle"]

\* The item is in place and counted, the next is asked for.
ItemStored(e) ==
  NextDownload([Idle(e) EXCEPT !.place[e.me.item + 1] = "whole",
                               !.me.bytes = @ + Sizes[e.me.item + 1], !.me.item = @ + 1])

\* What was received, a part or the body of a 404, is moved to the item's place.
DownloadFailed(e) ==
  SetState([Idle(e) EXCEPT !.place[e.wire["private"].want] = "broken"], "FAILURE", FALSE)

\* OnHttpClientComplete on a response; MoveFile itself may fail.
OnHttpClientComplete(e) ==
  IF e.wire["private"].phase = "denied" THEN {DownloadFailed(e)}
  ELSE ItemStored(e) \cup
       (IF "disk" \in case.kinds THEN {SetState(Idle(e), "FAILURE", FALSE)} ELSE {})

-----------------------------------------------------------------------------
(* Stanzas.                                                                  *)

Turn(p, e) ==
  /\ share' = [share EXCEPT ![p] = e.me]
  /\ net' = [net EXCEPT ![Other(p)] = e.out]
  /\ wire' = e.wire
  /\ place' = e.place

\* What an answer with an error, or none at all, means to the peer that asked.
Unanswered(p) ==
  IF share[p].session = "NULL" THEN share[p]
  ELSE [share[p] EXCEPT !.unanswered = @ + 1]

\* SessionManager::ChooseTransport comes after the client's callback.
ChooseTransport(e) ==
  IF e.me.session = "RECEIVEDINITIATE" THEN Enter(Send(e, "accept", "private"), "SENTACCEPT") ELSE e

OnInitiateMessage(e) ==
  LET offered == OnSessionState([e EXCEPT !.me.session = "RECEIVEDINITIATE"], "RECEIVEDINITIATE")
  IN  IF AcceptsAtOnce
      THEN {ChooseTransport(Post(f, "state")) :
              f \in NextDownload(SetState(offered, "TRANSFER", FALSE))}
      ELSE {Post(offered, "state")}

\* Mutant: the sender closes on completion, whatever the receiver is still getting.
OnSessionInfoMessageCloses(e, m) ==
  IF e.me.closed \/ e.p = "receiver" THEN e ELSE
  CASE m.type = "channel"  -> [e EXCEPT !.wire[m.conn].channel = "opening"]
    [] m.type = "complete" -> IF e.me.state \in Complete THEN e ELSE SetState(e, "COMPLETE", FALSE)

OnSessionInfoMessage(e, m) ==
  IF e.me.closed \/ e.p = "receiver" THEN e ELSE
  CASE m.type = "channel"  -> [e EXCEPT !.wire[m.conn].channel = "opening"]
    [] m.type = "complete" -> IF e.me.state \in Complete THEN e ELSE SetState(e, "COMPLETE", TRUE)

Handle(e, m) ==
  CASE m.type = "initiate"  -> OnInitiateMessage(e)
    [] m.type = "accept"    -> {Enter(e, "RECEIVEDACCEPT")}
    [] m.type = "reject"    -> {Enter(e, "RECEIVEDREJECT")}
    [] m.type = "terminate" -> {Enter(e, "RECEIVEDTERMINATE")}
    [] m.type \in {"channel", "complete"} -> {OnSessionInfoMessage(e, m)}

\* "unknown session", or CheckState fails.
Refuses(p, m) ==
  \/ share[p].session = "NULL"
  \/ share[p].session = "INIT" /\ m.type # "initiate"
  \/ share[p].session # "SENTINITIATE" /\ m.type \in {"accept", "reject"}

Receive(p) ==
  /\ net[p] # <<>>
  /\ LET m == Head(net[p]) IN
     IF Refuses(p, m)
     THEN /\ share' = [share EXCEPT ![Other(p)] = Unanswered(Other(p))]
          /\ net' = [net EXCEPT ![p] = Tail(@)]
          /\ UNCHANGED <<wire, place>>
     ELSE \E e \in Handle(Here(p), m) :
            /\ share' = [share EXCEPT ![p] = e.me]
            /\ net' = [net EXCEPT ![p] = Tail(@), ![Other(p)] = e.out]
            /\ wire' = e.wire
            /\ place' = e.place
  /\ UNCHANGED case

\* A request that failed: OnFailedSend.
RequestFails(p) ==
  /\ share[p].unanswered > 0
  /\ Turn(p, SetError([Here(p) EXCEPT !.me.unanswered = @ - 1]))
  /\ UNCHANGED case

Fault(kind) ==
  /\ kind \in case.kinds /\ case.faults > 0
  /\ case' = [case EXCEPT !.faults = @ - 1]

Lose(p) ==
  /\ Fault("loss")
  /\ net[p] # <<>>
  /\ share' = [share EXCEPT ![Other(p)] = Unanswered(Other(p))]
  /\ net' = [net EXCEPT ![p] = Tail(@)]
  /\ UNCHANGED <<wire, place>>

-----------------------------------------------------------------------------
(* The session's own messages and timers.                                    *)

\* MSG_STATE acts on the state it finds.
OnStateMessage(e) ==
  CASE e.me.session \in {"SENTACCEPT", "RECEIVEDACCEPT"} -> Enter(e, "INPROGRESS")
    [] e.me.session \in Refused    -> Terminate(e)
    [] e.me.session \in Terminated -> Destroy(e)
    [] OTHER -> e

OnSessionMessage(p) ==
  /\ share[p].posted # <<>>
  /\ LET e == [Here(p) EXCEPT !.me.posted = Tail(@)] IN
     Turn(p, IF Head(share[p].posted) = "state" THEN OnStateMessage(e) ELSE Terminate(e))
  /\ UNCHANGED case

HasEnd(p, c) ==
  /\ wire[c].channel \in {"opening", "open"} \/ (p = "receiver" /\ wire[c].channel = "announced")
  /\ p \notin wire[c].gone

\* The other end does not exist and is not going to.
Deaf(p, c) ==
  /\ ~HasEnd(Other(p), c)
  /\ \A k \in DOMAIN net["sender"] : net["sender"][k] # [type |-> "channel", conn |-> c]

\* The transport of p is writable on no channel for as long as the timer runs.
Unwritable(p) ==
  /\ share[p].session \in Live
  /\ \E c \in Conn : HasEnd(p, c)
  /\ \A c \in Conn : HasEnd(p, c) => Deaf(p, c)
  /\ "error" \notin Range(share[p].posted)
  /\ Turn(p, SetError(Here(p)))
  /\ UNCHANGED case

\* Any other error of the session: no candidate works, the link is down.
SessionFails(p) ==
  /\ Fault("session")
  /\ share[p].session \in Live
  /\ Turn(p, SetError(Here(p)))

-----------------------------------------------------------------------------
(* The users.                                                                *)

Share ==
  /\ share["sender"].session = "INIT"
  /\ Turn("sender", Enter(Send(Here("sender"), "initiate", "private"), "SENTINITIATE"))
  /\ UNCHANGED case

\* A client that asks its user; the calls come in FS_OFFER, as Accept asserts.
Accept ==
  /\ ~AcceptsAtOnce
  /\ share["receiver"].state = "OFFER"
  /\ \E e \in NextDownload(Enter(Send(Here("receiver"), "accept", "private"), "SENTACCEPT")) :
       Turn("receiver", e)
  /\ UNCHANGED case

Decline ==
  /\ "decline" \in case.users
  /\ share["receiver"].state = "OFFER"
  /\ Turn("receiver", Enter([Send(Here("receiver"), "reject", "private")
                               EXCEPT !.me.localCancel = TRUE], "SENTREJECT"))
  /\ UNCHANGED case

Cancel(p) ==
  /\ "cancel" \in case.users
  /\ share[p].state \in {"OFFER", "TRANSFER"}
  /\ Turn(p, Terminate([Here(p) EXCEPT !.me.localCancel = TRUE]))
  /\ UNCHANGED case

\* The browser connects to the proxy (OnProxyAccept) and asks for an item.  Bound: once,
\* so that proxies_ is a set of one connection at most, and no second one is opened
\* while MSG_PROXY_WAIT is posted.
Browse(kind, i) ==
  LET e == Here("receiver") IN
  /\ kind \in case.browsing
  /\ e.me.session \in Live /\ ~e.me.closed /\ e.me.state # "NONE"
  /\ wire["proxy"].channel = "none"
  /\ kind = "original" => i > e.me.item     \* else GetItemUrl is a local path
  /\ Turn("receiver", [Send(e, "channel", "proxy") EXCEPT
                         !.me.proxies = {"proxy"}, !.me.wait = FALSE,
                         !.wire["proxy"] = [Unused EXCEPT !.channel = "announced", !.kind = kind,
                                                          !.want = i, !.phase = "asked"]])
  /\ UNCHANGED case

\* Mutant: the last proxy is forgotten without a timer.
OnProxyClosedNoTimer ==
  /\ share["receiver"].proxies # {}
  /\ share' = [share EXCEPT !["receiver"].proxies = {}]
  /\ wire' = [wire EXCEPT !["proxy"].gone = @ \cup {"receiver"}]
  /\ UNCHANGED <<net, place, case>>

\* The browser is done, or gives up.
OnProxyClosed ==
  /\ share["receiver"].proxies # {}
  /\ LET me == share["receiver"] IN
     share' = [share EXCEPT !["receiver"].proxies = {},
                            !["receiver"].wait = me.state \in Complete /\ ~me.closed]
  /\ wire' = [wire EXCEPT !["proxy"].gone = @ \cup {"receiver"}]
  /\ UNCHANGED <<net, place, case>>

\* MSG_PROXY_WAIT
OnProxyWait ==
  /\ share["receiver"].wait
  /\ LET e == [Here("receiver") EXCEPT !.me.wait = FALSE] IN
     Turn("receiver", IF e.me.proxies = {} /\ e.me.state \in Complete /\ ~e.me.closed
                      THEN DoClose(e, TRUE) ELSE e)
  /\ UNCHANGED case

-----------------------------------------------------------------------------
(* The channels and HTTP.                                                    *)

ChannelOpens(c) ==
  /\ wire[c].channel = "opening" /\ wire[c].gone = {}
  /\ wire' = [wire EXCEPT ![c].channel = "open"]
  /\ UNCHANGED <<share, net, place, case>>

Asked(c) == wire[c].phase = "asked" /\ wire[c].channel = "open" /\ "sender" \notin wire[c].gone

\* "We should never have more than one original request pending at a time"
OnHttpRequest(c) ==
  /\ Asked(c) /\ wire[c].kind = "original"
  /\ \/ /\ share' = [share EXCEPT !["sender"].asserted = IF share["sender"].counter THEN @ \cup {"share"} ELSE @,
                                  !["sender"].counter = TRUE, !["sender"].serving = c,
                                  !["sender"].item = wire[c].want - 1]
        /\ wire' = [wire EXCEPT ![c].phase = "serving"]
     \/ /\ "disk" \in case.kinds
        /\ wire' = [wire EXCEPT ![c].phase = "denied"]
        /\ UNCHANGED share
  /\ UNCHANGED <<net, place, case>>

\* The client answers from inside SignalResampleImage; ResampleComplete responds
\* twice, then OnHttpRequest does: ASSERT(current_ == NULL) in HttpServer's Respond.
OnPreviewRequest(c) ==
  /\ Asked(c) /\ wire[c].kind = "preview"
  /\ share' = [share EXCEPT !["sender"].asserted = @ \cup {"http"}]
  /\ wire' = [wire EXCEPT ![c].phase = "sent"]
  /\ UNCHANGED <<net, place, case>>

\* OnHttpRequestComplete: "We only care about transferred originals".
RequestDone(me, c, complete) ==
  IF me.serving # c THEN me
  ELSE [me EXCEPT !.counter = FALSE, !.serving = "none",
                  !.bytes = IF complete THEN @ + Sizes[me.item + 1] ELSE @]

\* The last byte is written to the stream, whether or not anybody reads it.
OnHttpRequestComplete(c) ==
  /\ wire[c].phase = "serving" /\ "sender" \notin wire[c].gone
  /\ share' = [share EXCEPT !["sender"] = RequestDone(@, c, TRUE)]
  /\ wire' = [wire EXCEPT ![c].phase = "sent"]
  /\ UNCHANGED <<net, place, case>>

\* The stream breaks at the sender: by a fault, or for want of acknowledgements.
OnServerStreamClosed(c) ==
  /\ HasEnd("sender", c) /\ wire[c].channel = "open"
  /\ (wire[c].phase = "serving" /\ "receiver" \in wire[c].gone /\ UNCHANGED case) \/ Fault("stream")
  /\ share' = [share EXCEPT !["sender"] = RequestDone(@, c, FALSE)]
  /\ wire' = [wire EXCEPT ![c].gone = @ \cup {"sender"}]
  /\ UNCHANGED <<net, place>>

Downloaded ==
  /\ share["receiver"].counter
  /\ wire["private"].phase \in {"sent", "denied"}
  /\ \E e \in OnHttpClientComplete(Here("receiver")) : Turn("receiver", e)
  /\ UNCHANGED case

\* The stream breaks at the receiver, or its disk is full.
DownloadBreaks ==
  /\ Fault("stream")
  /\ share["receiver"].counter /\ wire["private"].channel = "open"
  /\ LET e == Here("receiver") IN
     Turn("receiver", SetState(HangUp(e), "FAILURE", FALSE))

-----------------------------------------------------------------------------
Next ==
  \/ Share \/ Accept \/ Decline
  \/ OnProxyClosed \/ OnProxyWait
  \/ Downloaded \/ DownloadBreaks
  \/ \E p \in Peer : \/ Receive(p) \/ RequestFails(p) \/ Lose(p)
                    \/ OnSessionMessage(p) \/ Unwritable(p) \/ SessionFails(p)
                    \/ Cancel(p)
  \/ \E kind \in {"original", "preview"}, i \in Item : Browse(kind, i)
  \/ \E c \in Conn : \/ ChannelOpens(c) \/ OnHttpRequest(c) \/ OnPreviewRequest(c)
                    \/ OnHttpRequestComplete(c) \/ OnServerStreamClosed(c)

Spec == Init /\ [][Next]_vars

\* What happens by itself: the threads take their messages, timers fire, a channel
\* with two ends opens, what is asked on it is served and received, and a browser
\* goes away.
Machine ==
  \/ OnProxyClosed \/ OnProxyWait \/ Downloaded
  \/ \E p \in Peer : Receive(p) \/ RequestFails(p) \/ OnSessionMessage(p) \/ Unwritable(p)
  \/ \E c \in Conn : \/ ChannelOpens(c) \/ OnHttpRequest(c) \/ OnPreviewRequest(c)
                    \/ (HasEnd("receiver", c) /\ OnHttpRequestComplete(c))

\* No run repeats a state, so weak fairness of Machine is that no run rests where
\* Machine has something to do.
Fairness == []<>~ENABLED <<Machine>>_vars

FairSpec == Spec /\ Fairness

-----------------------------------------------------------------------------
(* Properties.                                                               *)

sender   == share["sender"]
receiver == share["receiver"]

TypeOK ==
  /\ share \in [Peer -> ShareRecord]
  /\ net \in [Peer -> Seq(Stanza)]
  /\ wire \in [Conn -> Wire]
  /\ place \in [Item -> {"absent", "whole", "broken"}]

\* No ASSERT about the object's own bookkeeping fails, in whatever order the
\* session's states, the downloads and the close come: a completion state is entered
\* once (SetState), the share is closed once, complete and with its session
\* (DoClose), and one original is served at a time (OnHttpRequest).
NoAssert == \A p \in Peer : "share" \notin share[p].asserted

\* A receiver that completes has every item whole in its place.
ReceiverHasAll ==
  receiver.state = "COMPLETE" => \A i \in Item : place[i] = "whole"

\* When the receiver has completed, a sender that neither cancelled nor had an error
\* of its session says so too, even if QN_SHARE_COMPLETE never arrived: the bytes it
\* has served tell it on the terminate ("we need this as a fallback").
SuccessIsShared ==
  (/\ receiver.state = "COMPLETE"
   /\ ~sender.failed /\ ~sender.localCancel) => sender.state \notin Complete \ {"COMPLETE"}

\* With items of positive size, a sender only completes when the receiver has asked
\* for the last item: a terminate in the middle is not taken for a success.
AskedForAll == sender.state = "COMPLETE" => receiver.item + 1 >= Len(Sizes)

\* "receiver may still be getting previews": while a proxy is open on a receiver that
\* has completed, neither side ends the session of its own accord.
PreviewsSurvive ==
  (/\ receiver.state = "COMPLETE" /\ receiver.proxies # {}
   /\ \A p \in Peer : ~share[p].failed /\ ~share[p].localCancel)
     => \A p \in Peer : share[p].session \in Live

\* A transfer that has begun ends on both sides, and once a side has completed its
\* session is destroyed: nobody is left waiting for the other, for a proxy or for the
\* timer.
TransferEnds ==
  "loss" \notin case.kinds =>
  \A p \in Peer : share[p].state \in {"TRANSFER"} \cup Complete
                  ~> share[p].state \in Complete /\ share[p].session = "NULL"

\* fileshare.cc:476: "If we are the sender, and the receiver downloaded the correct
\* number of bytes, then we assume the transfer was successful."
CompleteMeansDownloaded == sender.state = "COMPLETE" => receiver.bytes >= TotalSize

\* OnHttpClientComplete deletes what it could not download ("Couldn't delete
\* downloaded file"): nothing but whole items appears in the receiver's folder.
OnlyWholeItems == \A i \in Item : place[i] # "broken"

\* httpserver.cc:152, ASSERT(current_ == NULL): a request is responded to once.
RespondsOnce == \A p \in Peer : "http" \notin share[p].asserted

\* fileshare.h:66, FS_REMOTE_CANCEL: "Remote side cancelled".
RemoteCancelIsRemote ==
  \A p \in Peer : share[p].state = "REMOTE_CANCEL" => share[Other(p)].state \in Complete
===============================================================================
