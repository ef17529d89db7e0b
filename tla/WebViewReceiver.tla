-------------------------- MODULE WebViewReceiver --------------------------
(***************************************************************************)
(* The receiver whose media run in a web page: WebRtcWebViewReceiver and   *)
(* its bridge (src/webrtc_webview_receiver.cpp) and the page               *)
(* (src/webreceiver.html).  What the signaling client receives passes      *)
(* through the event queue of the Qt thread, then over a local web socket  *)
(* to the page; what the page answers comes back the same way.  The signal *)
(* signalingClosed is emitted at once, ahead of the event queue.           *)
(*                                                                         *)
(* The page runs one task at a time.  A promise of a closed                *)
(* RTCPeerConnection never settles, and the then-handlers of a promise run *)
(* in the task that settles it (external).  Offers and remote candidates   *)
(* are numbered as they are received; of[c] is the offer of candidate c.   *)
(***************************************************************************)
EXTENDS Naturals, Sequences

CONSTANTS
  MaxOffers,   \* bound: offers received
  MaxCands,    \* bound: remote candidates received
  MaxSessions, \* bound: connections to the signaling server
  MaxLoads,    \* bound: loads of the page
  MaxQueue     \* bound: events that wait when the reader thread posts another

ASSUME WebViewAssumption ==
  {MaxOffers, MaxCands, MaxSessions, MaxLoads, MaxQueue} \subseteq Nat

Offers == 1..MaxOffers
PeerStates == {"new", "connected", "disconnected", "failed"}

VARIABLES
  sig,      \* the session of m_signaling, 0 when it is null
  sessions, \* sessions started so far
  hurried,  \* the user has connected or disconnected with events in flight
  session,  \* session[o]: the session in which offer o came
  of,       \* the offers of the candidates received so far
  qt,       \* the event queue of the Qt thread
  page,     \* "down", "open" (m_clientSocket is set) or "ready" (setupBridge ran)
  loads,    \* loads of the page so far
  down, up, \* the web socket, to the page and from it
  pc,       \* the offer for which the page's pc was made, 0 when it is null
  remote,   \* pc.remoteDescription is set
  stage,    \* the promise that the negotiation of pc waits for ("remote", "answer",
            \* "local"), or its end ("done", "failed")
  pending,  \* the page's queue of candidates
  added,    \* the candidates given to pc.addIceCandidate
  peer,     \* pc.connectionState
  local,    \* pc has reported a local candidate
  stats,    \* statsIntervalId is set
  answered, \* the offers whose answer was sent in their session
  astray    \* an answer or a local candidate was sent in another session

receiver == <<sig, sessions, hurried, session, of>>
wires == <<qt, page, loads, down, up>>
js == <<pc, remote, stage, pending, added, peer, local, stats>>
sent == <<answered, astray>>
vars == <<receiver, wires, js, sent>>

Event(type, n) == [type |-> type, n |-> n]
Closed == Event("closed", 0)

FreshPage ==
  /\ pc' = 0 /\ remote' = FALSE /\ stage' = "failed" /\ pending' = <<>>
  /\ added' = <<>> /\ peer' = "new" /\ stats' = FALSE /\ local' = FALSE

Init ==
  /\ sig = 0 /\ sessions = 0 /\ hurried = FALSE /\ session = <<>> /\ of = <<>>
  /\ qt = <<>> /\ page = "down" /\ loads = 0 /\ down = <<>> /\ up = <<>>
  /\ pc = 0 /\ remote = FALSE /\ stage = "failed" /\ pending = <<>>
  /\ added = <<>> /\ peer = "new" /\ local = FALSE /\ stats = FALSE
  /\ answered = {} /\ astray = FALSE

-----------------------------------------------------------------------------
(* The user and the signaling client.                                      *)

\* A signal of the bridge reaches a page that has connected to it.
Emit(e) == down' = IF page = "ready" THEN Append(down, e) ELSE down

Quiet ==
  /\ qt = <<>> /\ down = <<>> /\ up = <<>>
  /\ pc # 0 => stage \in {"done", "failed"}

\* requestPermissionAndConnect: disconnect, then a new client that may fail to
\* start.
RequestPermissionAndConnect ==
  /\ sessions < MaxSessions
  /\ hurried' = (hurried \/ sig # 0 \/ ~Quiet)
  /\ Emit(Closed)
  /\ sessions' = sessions + 1
  /\ sig' \in {0, sessions + 1}
  /\ UNCHANGED <<session, of, qt, page, loads, up, js, sent>>

\* Mutated Disconnect: the page is not told.
Disconnect_Silent ==
  /\ sig = 0 => \A i \in 1..Len(down) : down[i] # Closed
  /\ hurried' = (hurried \/ ~Quiet)
  /\ sig' = 0
  /\ UNCHANGED <<sessions, session, of, wires, js, sent>>

\* disconnect, also when there is nothing to disconnect; the bound is one signal
\* on its way to the page then.
Disconnect ==
  /\ sig = 0 => \A i \in 1..Len(down) : down[i] # Closed
  /\ hurried' = (hurried \/ ~Quiet)
  /\ Emit(Closed)
  /\ sig' = 0
  /\ UNCHANGED <<sessions, session, of, qt, page, loads, up, js, sent>>

\* The callbacks of wireSignalingCallbacks, on the reader thread.
OnOffer ==
  /\ sig # 0 /\ Len(session) < MaxOffers /\ Len(qt) < MaxQueue
  /\ session' = Append(session, sig)
  /\ qt' = Append(qt, Event("offer", Len(session) + 1))
  /\ UNCHANGED <<sig, sessions, hurried, of, page, loads, down, up, js, sent>>

OnIce ==
  /\ sig # 0 /\ Len(of) < MaxCands /\ Len(qt) < MaxQueue
  /\ of' = Append(of, Len(session))
  /\ qt' = Append(qt, Event("ice", Len(of) + 1))
  /\ UNCHANGED <<sig, sessions, hurried, session, page, loads, down, up, js, sent>>

-----------------------------------------------------------------------------
(* The Qt thread.                                                          *)

\* The queued lambdas emit offerReceived and iceCandidateReceived.
EmitQueued ==
  /\ qt # <<>> /\ Head(qt).type \in {"offer", "ice"}
  /\ Emit(Head(qt))
  /\ qt' = Tail(qt)
  /\ UNCHANGED <<receiver, page, loads, up, js, sent>>

\* onBridgeAnswer and onBridgeIce: dropped without a signaling client.
OnBridge ==
  /\ qt # <<>> /\ Head(qt).type \in {"answer", "local"}
  /\ LET e == Head(qt)
     IN  /\ answered' = IF e.type = "answer" /\ session[e.n] = sig
                          THEN answered \cup {e.n} ELSE answered
         /\ astray' = (astray \/ (sig # 0 /\ session[e.n] # sig))
  /\ qt' = Tail(qt)
  /\ UNCHANGED <<receiver, page, loads, down, up, js>>

\* The slots sendAnswer and sendIceCandidate of the bridge queue a call.
BridgeSlot ==
  /\ up # <<>>
  /\ qt' = Append(qt, Head(up))
  /\ up' = Tail(up)
  /\ UNCHANGED <<receiver, page, loads, down, js, sent>>

\* onWebSocketClient: the socket of a newly loaded page replaces the last one.
OnWebSocketClient ==
  /\ loads < MaxLoads
  /\ loads' = loads + 1 /\ page' = "open"
  /\ down' = <<>> /\ up' = <<>>
  /\ FreshPage
  /\ UNCHANGED <<receiver, qt, sent>>

\* closeWebClient when the page has gone.
CloseWebClient ==
  /\ page # "down"
  /\ page' = "down"
  /\ down' = <<>> /\ up' = <<>>
  /\ FreshPage
  /\ UNCHANGED <<receiver, qt, loads, sent>>

-----------------------------------------------------------------------------
(* The page.                                                               *)

SetupBridge ==
  /\ page = "open"
  /\ page' = "ready"
  /\ UNCHANGED <<receiver, qt, loads, down, up, js, sent>>

\* Mutated OfferReceived: the queue of candidates is kept.
OfferReceived_KeepsPending ==
  /\ down # <<>> /\ Head(down).type = "offer"
  /\ down' = Tail(down)
  /\ pc' = Head(down).n /\ remote' = FALSE /\ stage' = "remote"
  /\ added' = <<>> /\ peer' = "new" /\ stats' = FALSE /\ local' = FALSE
  /\ UNCHANGED <<receiver, qt, page, loads, up, pending, sent>>

OfferReceived ==
  /\ down # <<>> /\ Head(down).type = "offer"
  /\ down' = Tail(down)
  /\ pc' = Head(down).n /\ remote' = FALSE /\ stage' = "remote"
  /\ pending' = <<>> /\ added' = <<>> /\ peer' = "new" /\ stats' = FALSE
  /\ local' = FALSE
  /\ UNCHANGED <<receiver, qt, page, loads, up, sent>>

\* Dropped without a pc, queued until the remote description is set.
IceCandidateReceived ==
  /\ down # <<>> /\ Head(down).type = "ice"
  /\ down' = Tail(down)
  /\ pending' = IF pc # 0 /\ ~remote THEN Append(pending, Head(down).n) ELSE pending
  /\ added' = IF pc # 0 /\ remote THEN Append(added, Head(down).n) ELSE added
  /\ UNCHANGED <<receiver, qt, page, loads, up, pc, remote, stage, peer, local, stats,
                 sent>>

\* Mutated SignalingClosed: the timer of the statistics goes on.
SignalingClosed_KeepsTimer ==
  /\ down # <<>> /\ Head(down).type = "closed"
  /\ down' = Tail(down)
  /\ pc' = 0 /\ remote' = FALSE /\ stage' = "failed" /\ pending' = <<>>
  /\ added' = <<>> /\ peer' = "new" /\ local' = FALSE
  /\ UNCHANGED <<receiver, qt, page, loads, up, stats, sent>>

SignalingClosed ==
  /\ down # <<>> /\ Head(down).type = "closed"
  /\ down' = Tail(down)
  /\ FreshPage
  /\ UNCHANGED <<receiver, qt, page, loads, up, sent>>

\* Mutated SetRemoteResolves: no flushPending.
SetRemoteResolves_NoFlush ==
  /\ pc # 0 /\ stage = "remote"
  /\ remote' = TRUE /\ stage' = "answer"
  /\ UNCHANGED <<receiver, wires, pc, pending, added, peer, local, stats, sent>>

FlushPending == added' = added \o pending /\ pending' = <<>>

\* setRemoteDescription has settled: flushPending, createAnswer.
SetRemoteResolves ==
  /\ pc # 0 /\ stage = "remote"
  /\ remote' = TRUE /\ stage' = "answer"
  /\ FlushPending
  /\ UNCHANGED <<receiver, wires, pc, peer, local, stats, sent>>

CreateAnswerResolves ==
  /\ pc # 0 /\ stage = "answer"
  /\ stage' = "local"
  /\ UNCHANGED <<receiver, wires, pc, remote, pending, added, peer, local, stats, sent>>

\* Mutated SetLocalResolves: it returns before sendAnswer.
SetLocalResolves_NoAnswer ==
  /\ pc # 0 /\ stage = "local"
  /\ stage' = "done"
  /\ UNCHANGED <<receiver, wires, pc, remote, pending, added, peer, local, stats, sent>>

\* setLocalDescription has settled: sendAnswer.
SetLocalResolves ==
  /\ pc # 0 /\ stage = "local"
  /\ stage' = "done"
  /\ up' = Append(up, Event("answer", pc))
  /\ UNCHANGED <<receiver, qt, page, loads, down, pc, remote, pending, added, peer,
                 local, stats, sent>>

\* One of the three is rejected: the error is logged.
NegotiationError ==
  /\ pc # 0 /\ stage \in {"remote", "answer", "local"}
  /\ stage' = "failed"
  /\ UNCHANGED <<receiver, wires, pc, remote, pending, added, peer, local, stats, sent>>

\* pc.onicecandidate; one local candidate stands for all of them.
OnIceCandidate ==
  /\ pc # 0 /\ stage = "done" /\ ~local
  /\ local' = TRUE
  /\ up' = Append(up, Event("local", pc))
  /\ UNCHANGED <<receiver, qt, page, loads, down, pc, remote, stage, pending, added,
                 peer, stats, sent>>

\* pc.onconnectionstatechange; the status shown to the user is left out.
OnConnectionStateChange ==
  /\ pc # 0 /\ stage = "done" /\ peer # "failed"
  /\ peer' \in PeerStates \ {"new", peer}
  /\ stats' = ((stats \/ peer' = "connected") /\ peer' # "failed")
  /\ UNCHANGED <<receiver, wires, pc, remote, stage, pending, added, local, sent>>

-----------------------------------------------------------------------------
QtStep == EmitQueued \/ OnBridge
PageTask == OfferReceived \/ IceCandidateReceived \/ SignalingClosed
Settle ==
  SetRemoteResolves \/ CreateAnswerResolves \/ SetLocalResolves \/ NegotiationError
Next ==
  \/ RequestPermissionAndConnect \/ Disconnect \/ OnOffer \/ OnIce
  \/ QtStep \/ BridgeSlot \/ OnWebSocketClient \/ CloseWebClient \/ SetupBridge
  \/ PageTask \/ Settle \/ OnIceCandidate \/ OnConnectionStateChange
Spec == Init /\ [][Next]_vars

\* Event loops run and the promises of an open connection settle; nothing is
\* assumed of the user, the server, the peers or the loading of the page.
FairSpec ==
  /\ Spec
  /\ WF_vars(QtStep) /\ WF_vars(BridgeSlot) /\ WF_vars(PageTask) /\ WF_vars(Settle)

-----------------------------------------------------------------------------
\* The page gives a connection the candidates of its own offer and no others,
\* all of them that have reached the page, in the order in which they came, be
\* the session closed, another offer received or the page loaded meanwhile
\* (offerReceived, iceCandidateReceived, flushPending).
CandidatesInOrder ==
  LET q == added \o pending
  IN  \A i \in DOMAIN q : /\ of[q[i]] = pc
                          /\ i > 1 => q[i] = q[i - 1] + 1
                          /\ \A c \in 1..(q[1] - 1) : of[c] # pc

\* No candidate waits in the page's queue once the remote description is set:
\* the task that sets it flushes the queue.
NothingStranded == remote => pending = <<>>

\* The page polls statistics only of a connection that was connected and has not
\* failed; it stops when the session closes and when the next offer comes.
StatsOnlyWhileConnected == stats => pc # 0 /\ peer \in {"connected", "disconnected"}

\* An answer or a local candidate is sent in the session of its offer, as long as
\* the user lets what is in flight arrive before connecting or disconnecting.
SentInItsSession == ~hurried => ~astray

\* When the user has disconnected and everything in flight has arrived, the page
\* has no connection, unless an offer was on its way at that moment: then
\* signalingClosed overtakes it in the event queue and the page opens one.
ClosedIsIdle == Quiet /\ sig = 0 /\ ~hurried => pc = 0

\* An offer that was received while the page is ready is answered, unless the
\* negotiation fails, the session ends, another offer comes or the page goes.
OfferAnswered ==
  \A o \in Offers :
    (Len(session) = o /\ session[o] = sig /\ page = "ready"
       /\ \E i \in 1..Len(qt) : qt[i] = Event("offer", o))
      ~> \/ Len(session) # o \/ session[o] # sig \/ page # "ready"
         \/ (pc = o /\ stage = "failed")
         \/ o \in answered
=============================================================================
