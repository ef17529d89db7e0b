-------------------------- MODULE ReceiverSession --------------------------
(***************************************************************************)
(* What a PeerConnection reports to the native receiver, and what the      *)
(* receiver keeps for it (src/webrtc_receiver_client.cpp): the statistics  *)
(* timer with its GetStats requests, the track bound to the renderer and   *)
(* the local candidates.  One observer serves all connections.  It runs on *)
(* WebRTC's signaling thread and posts to the Qt thread, so every report   *)
(* takes effect later, when the connection or the session may be another.  *)
(*                                                                         *)
(* External: Close() waits for WebRTC's thread, notifies kClosed, answers  *)
(* the GetStats requests still in flight and is the last use of the        *)
(* connection.  Qt may let the timer tick between any two posted events,   *)
(* so also while events of an earlier connection wait.                     *)
(* Connections are numbered in the order of their creation, 0 is none; the *)
(* negotiation that makes them usable is in ReceiverNegotiation.           *)
(***************************************************************************)
EXTENDS Integers, Sequences

CONSTANTS
  MaxConns,     \* bound: offers received
  MaxSessions,  \* bound: connections to the signaling server
  MaxFrames,    \* bound: frames a connection decodes
  MaxQueue,     \* bound: posted events that wait
  MaxPolls,     \* bound: GetStats requests in flight
  CounterRange  \* the counters of the statistics are unsigned: % CounterRange

ASSUME SessionAssumption ==
  /\ {MaxConns, MaxSessions, MaxFrames, MaxQueue, MaxPolls} \subseteq Nat
  /\ CounterRange \in Nat /\ CounterRange > MaxFrames

VARIABLES
  sig,      \* the session of m_signaling, 0 when it is null
  sessions, \* sessions tried so far
  active,   \* the user has connected and not disconnected since
  hurried,  \* the user has acted ahead of events in flight, or without disconnecting
  offers,   \* offers received so far
  session,  \* session[p]: the session in which the offer of connection p came
  pc,       \* m_peerConnection
  state,    \* its connection state
  decoded,  \* frames it has decoded
  tracked,  \* it has reported its track
  gathered, \* it has reported a local candidate
  polls,    \* GetStats requests in flight
  storing,  \* what the callback of GetStats is about to store, or NotStoring
  qt,       \* events posted to the Qt thread
  timer,    \* m_statsTimer is set
  prev,     \* m_prevFramesDecoded
  figures,  \* whose statistics are shown (m_hasConnectionStats), 0 when none
  overtaken,\* the timer has been stopped ahead of statistics in flight
  renderer, \* m_videoRenderer is set
  track,    \* the connection whose track the renderer is bound to
  astray    \* a local candidate has been sent in another session than its own

user == <<sig, sessions, active, hurried, offers>>
peer == <<session, pc, state, decoded, tracked, gathered, polls, storing>>
stats == <<timer, prev, figures, overtaken>>
vars == <<user, peer, qt, stats, renderer, track, astray>>

EventTypes == {"offer", "start", "stop", "stats", "track", "ice"}
Event(type, n) == [type |-> type, n |-> n]
NotStoring == -1

Init ==
  /\ sig = 0 /\ sessions = 0 /\ active = FALSE /\ hurried = FALSE /\ offers = 0
  /\ session = <<>> /\ pc = 0 /\ state = "new" /\ decoded = 0
  /\ tracked = FALSE /\ gathered = FALSE /\ polls = 0 /\ storing = NotStoring
  /\ qt = <<>>
  /\ timer = FALSE /\ prev = 0 /\ figures = 0 /\ overtaken = FALSE
  /\ renderer = FALSE /\ track = 0 /\ astray = FALSE

Quiet == qt = <<>> /\ polls = 0 /\ storing = NotStoring

-----------------------------------------------------------------------------
(* The statistics timer, on the Qt thread.                                 *)

\* Mutated StartStatsTimer: the counters of the last connection are kept.
StartStatsTimer_KeepsCounters ==
  /\ timer' = TRUE
  /\ UNCHANGED <<prev, figures, overtaken>>

StartStatsTimer ==
  /\ timer' = TRUE
  /\ prev' = IF timer THEN prev ELSE 0
  /\ UNCHANGED <<figures, overtaken>>

StatsInFlight == polls > 0 \/ \E i \in DOMAIN qt : qt[i].type = "stats"

\* Mutated StopStatsTimer: resetConnectionStats is only called for a timer.
StopStatsTimer_KeepsFigures ==
  /\ timer' = FALSE
  /\ overtaken' = (overtaken \/ StatsInFlight)
  /\ UNCHANGED figures

\* stopStatsTimer and resetConnectionStats.
StopStatsTimer ==
  /\ timer' = FALSE /\ figures' = 0
  /\ overtaken' = (overtaken \/ StatsInFlight)

\* The timer's slot, for whichever connection there is; without one it returns.
StatsTimeout ==
  /\ timer /\ pc # 0
  /\ polls < MaxPolls /\ Len(qt) < MaxQueue
  /\ polls' = polls + 1
  /\ UNCHANGED <<user, session, pc, state, decoded, tracked, gathered, storing, qt,
                 stats, renderer, track, astray>>

-----------------------------------------------------------------------------
(* WebRTC's signaling thread.                                              *)

\* The increment of an unsigned counter that a report shows.
Delta == (decoded - prev) % CounterRange

\* Whether a report has a video stream: certainly once frames were decoded.
HasVideo == IF decoded = 0 THEN BOOLEAN ELSE {TRUE}

\* The callback of GetStats computes the increment and posts the figures.
StatsDelivered ==
  /\ polls > 0 /\ storing = NotStoring
  /\ polls' = polls - 1
  /\ \E video \in HasVideo :
       IF video THEN qt' = Append(qt, Event("stats", pc)) /\ storing' = decoded
                ELSE UNCHANGED <<qt, storing>>
  /\ UNCHANGED <<user, session, pc, state, decoded, tracked, gathered, stats,
                 renderer, track, astray>>

\* ... and then stores the counter for the next one.
StatsStored ==
  /\ storing # NotStoring
  /\ prev' = storing % CounterRange
  /\ storing' = NotStoring
  /\ UNCHANGED <<user, session, pc, state, decoded, tracked, gathered, polls, qt,
                 timer, figures, overtaken, renderer, track, astray>>

\* WebRTC's thread is free, and a connection is there to report something.
Observed == pc # 0 /\ storing = NotStoring /\ Len(qt) < MaxQueue

\* Mutated OnConnectionChange: a connection that comes back is not handled.
OnConnectionChange_FirstOnly(s) ==
  /\ Observed /\ state # "failed" /\ s # state
  /\ s = "disconnected" => state = "connected"
  /\ state' = s
  /\ qt' = IF s = "connected"
             THEN IF state = "new" THEN Append(qt, Event("start", pc)) ELSE qt
             ELSE Append(qt, Event("stop", pc))
  /\ UNCHANGED <<user, session, pc, decoded, tracked, gathered, polls, storing,
                 stats, renderer, track, astray>>

OnConnectionChange(s) ==
  /\ Observed /\ state # "failed" /\ s # state
  /\ s = "disconnected" => state = "connected"
  /\ state' = s
  /\ qt' = Append(qt, Event(IF s = "connected" THEN "start" ELSE "stop", pc))
  /\ UNCHANGED <<user, session, pc, decoded, tracked, gathered, polls, storing,
                 stats, renderer, track, astray>>

OnTrack ==
  /\ Observed /\ ~tracked
  /\ tracked' = TRUE
  /\ qt' = Append(qt, Event("track", pc))
  /\ UNCHANGED <<user, session, pc, state, decoded, gathered, polls, storing,
                 stats, renderer, track, astray>>

\* Dropped when the signaling client is already gone; one candidate stands for
\* all of a connection.
OnIceCandidate ==
  /\ Observed /\ ~gathered
  /\ gathered' = TRUE
  /\ qt' = IF sig = 0 THEN qt ELSE Append(qt, Event("ice", pc))
  /\ UNCHANGED <<user, session, pc, state, decoded, tracked, polls, storing,
                 stats, renderer, track, astray>>

FrameDecoded ==
  /\ pc # 0 /\ state = "connected" /\ decoded < MaxFrames
  /\ decoded' = decoded + 1
  /\ UNCHANGED <<user, session, pc, state, tracked, gathered, polls, storing, qt,
                 stats, renderer, track, astray>>

-----------------------------------------------------------------------------
(* Closing a connection, within a handler of the Qt thread.                *)

\* Mutated ClosedEvents: kClosed is not handled.
ClosedEvents_NoStop(n) == [i \in 1..n |-> Event("stats", pc)]

\* What Close() posts: the stop for kClosed, and the figures of the n requests it
\* answers then (one answered before kClosed is answered by StatsDelivered).
ClosedEvents(n) ==
  [i \in 1..n + 1 |-> Event(IF i = 1 THEN "stop" ELSE "stats", pc)]

\* m_peerConnection->Close() with the events that were posted before in q.
ClosePc(q) ==
  \/ pc = 0 /\ qt' = q /\ UNCHANGED prev
  \/ /\ pc # 0
     /\ \E video \in HasVideo : \E n \in {IF video THEN polls ELSE 0} :
          /\ qt' = q \o ClosedEvents(n)
          /\ prev' = IF n = 0 THEN prev ELSE decoded % CounterRange

\* The connection p after the old one is closed, or none.
FreshPc(p) ==
  /\ pc' = p /\ state' = "new" /\ decoded' = 0
  /\ tracked' = FALSE /\ gathered' = FALSE /\ polls' = 0

-----------------------------------------------------------------------------
(* The user and the signaling client.                                      *)

\* connectToSignaling leaves the connection of the last session as it is.
ConnectToSignaling ==
  /\ sessions < MaxSessions
  /\ hurried' = (hurried \/ active \/ ~Quiet)
  /\ sessions' = sessions + 1 /\ active' = TRUE
  /\ sig' \in {0, sessions + 1}
  /\ UNCHANGED <<offers, peer, qt, stats, renderer, track, astray>>

\* Mutated Disconnect: the renderer keeps its track.
Disconnect_KeepsTrack ==
  /\ storing = NotStoring
  /\ hurried' = (hurried \/ ~Quiet)
  /\ StopStatsTimer
  /\ sig' = 0 /\ active' = FALSE
  /\ ClosePc(qt) /\ FreshPc(0)
  /\ UNCHANGED <<sessions, offers, session, storing, renderer, track, astray>>

\* Mutated Disconnect: the connection is left open.
Disconnect_LeavesConnection ==
  /\ storing = NotStoring
  /\ hurried' = (hurried \/ ~Quiet)
  /\ StopStatsTimer
  /\ track' = 0
  /\ sig' = 0 /\ active' = FALSE
  /\ UNCHANGED <<sessions, offers, peer, qt, prev, renderer, astray>>

\* disconnect, with or without a session or a connection.
Disconnect ==
  /\ storing = NotStoring
  /\ hurried' = (hurried \/ ~Quiet)
  /\ StopStatsTimer
  /\ track' = 0
  /\ sig' = 0 /\ active' = FALSE
  /\ ClosePc(qt) /\ FreshPc(0)
  /\ UNCHANGED <<sessions, offers, session, storing, renderer, astray>>

\* Another renderer, or none; the old one is cleared.
SetVideoRenderer ==
  /\ renderer' \in BOOLEAN
  /\ track' = 0
  /\ UNCHANGED <<user, peer, qt, stats, astray>>

\* The reader thread of the signaling client posts an offer.
OnOffer ==
  /\ sig # 0 /\ offers < MaxConns /\ Len(qt) < MaxQueue
  /\ offers' = offers + 1
  /\ qt' = Append(qt, Event("offer", sig))
  /\ UNCHANGED <<sig, sessions, active, hurried, peer, stats, renderer, track, astray>>

-----------------------------------------------------------------------------
(* The posted events.                                                      *)

Receive(type) == qt # <<>> /\ Head(qt).type = type

\* handleOffer and createPeerConnection, which may fail: the old connection is
\* closed in any case, its track stays bound.
HandleOffer ==
  /\ Receive("offer") /\ storing = NotStoring
  /\ ClosePc(Tail(qt))
  /\ session' = Append(session, Head(qt).n)
  /\ \E p \in {0, Len(session) + 1} : FreshPc(p)
  /\ UNCHANGED <<user, storing, timer, figures, overtaken, renderer, track, astray>>

StartEvent ==
  /\ Receive("start")
  /\ qt' = Tail(qt)
  /\ StartStatsTimer
  /\ UNCHANGED <<user, peer, renderer, track, astray>>

StopEvent ==
  /\ Receive("stop")
  /\ qt' = Tail(qt)
  /\ StopStatsTimer
  /\ UNCHANGED <<user, peer, prev, renderer, track, astray>>

StatsEvent ==
  /\ Receive("stats")
  /\ qt' = Tail(qt)
  /\ figures' = Head(qt).n
  /\ UNCHANGED <<user, peer, timer, prev, overtaken, renderer, track, astray>>

\* Mutated TrackEvent: a renderer that has a track keeps it.
TrackEvent_FirstOnly ==
  /\ Receive("track")
  /\ qt' = Tail(qt)
  /\ track' = IF renderer /\ track = 0 THEN Head(qt).n ELSE track
  /\ UNCHANGED <<user, peer, stats, renderer, astray>>

\* remoteVideoTrackReady: setVideoTrack of the renderer, if there is one.
TrackEvent ==
  /\ Receive("track")
  /\ qt' = Tail(qt)
  /\ track' = IF renderer THEN Head(qt).n ELSE track
  /\ UNCHANGED <<user, peer, stats, renderer, astray>>

IceEvent ==
  /\ Receive("ice")
  /\ qt' = Tail(qt)
  /\ astray' = (astray \/ (sig # 0 /\ sig # session[Head(qt).n]))
  /\ UNCHANGED <<user, peer, stats, renderer, track>>

-----------------------------------------------------------------------------
QtStep ==
  HandleOffer \/ StartEvent \/ StopEvent \/ StatsEvent \/ TrackEvent \/ IceEvent
StatsStep == StatsDelivered \/ StatsStored
Next ==
  \/ ConnectToSignaling \/ Disconnect \/ SetVideoRenderer \/ OnOffer
  \/ QtStep \/ StatsTimeout \/ StatsStep
  \/ OnTrack \/ OnIceCandidate \/ FrameDecoded
  \/ \E s \in {"connected", "disconnected", "failed"} : OnConnectionChange(s)
Spec == Init /\ [][Next]_vars

\* Qt's event loop and its timers run, and a GetStats request is answered;
\* nothing is assumed of the user, the publisher or the network.
FairSpec == Spec /\ WF_vars(QtStep) /\ WF_vars(StatsTimeout) /\ WF_vars(StatsStep)

-----------------------------------------------------------------------------
\* The shape of the state; every session and connection that an event mentions
\* exists.
TypeOK ==
  /\ sessions \in 0..MaxSessions /\ sig \in 0..sessions /\ offers \in 0..MaxConns
  /\ session \in Seq(Nat) /\ pc \in 0..Len(session)
  /\ state \in {"new", "connected", "disconnected", "failed"}
  /\ decoded \in 0..MaxFrames /\ storing \in NotStoring..MaxFrames
  /\ prev \in 0..CounterRange - 1 /\ polls \in 0..MaxPolls
  /\ qt \in Seq([type : EventTypes, n : Nat])
  /\ \A i \in 1..Len(qt) :
       qt[i].n \in 1..(IF qt[i].type = "offer" THEN sessions ELSE Len(session))
  /\ figures \in 0..Len(session) /\ track \in 0..Len(session)
  /\ active \in BOOLEAN /\ hurried \in BOOLEAN /\ tracked \in BOOLEAN
  /\ gathered \in BOOLEAN /\ timer \in BOOLEAN
  /\ overtaken \in BOOLEAN /\ renderer \in BOOLEAN /\ astray \in BOOLEAN

\* Whenever the Qt thread has caught up, the timer runs exactly while the current
\* connection is connected: a kConnected that was overtaken by disconnect or by
\* the next offer starts it only until the kClosed behind it.
TimerFollowsConnection == qt = <<>> => (timer <=> pc # 0 /\ state = "connected")

\* Something that an earlier connection posted waits.
EarlierWaits == \E i \in DOMAIN qt : qt[i].type # "offer" /\ qt[i].n # pc

\* Once the timer has been started for the current connection, the increment that
\* a report shows is at most what the connection has decoded: the unsigned
\* subtraction does not wrap because a counter of an earlier connection, stored on
\* WebRTC's thread, were left in m_prevFramesDecoded.  Until then it may wrap: a
\* tick between handleOffer and the stop of the old connection asks the new one.
DeltaOfConnection == timer /\ ~EarlierWaits => Delta <= decoded

\* The statistics that are shown are those of the connection that is polled,
\* unless the timer was stopped while a request or its result was in flight:
\* its figures are then shown after they were reset.
FiguresOfConnection ==
  qt = <<>> /\ ~overtaken /\ figures # 0 => timer /\ figures = pc

\* Once the user has disconnected, and nothing was in flight then, there is no
\* connection, no track, no timer and no statistics until the next connect.
DisconnectedIsIdle ==
  ~active /\ ~hurried => pc = 0 /\ track = 0 /\ ~timer /\ figures = 0

\* A local candidate is sent in the session of its connection's offer, as long as
\* the user disconnects before connecting again and waits for events in flight.
SentInItsSession == ~hurried => ~astray

\* Once the connection has reported its track and the Qt thread has caught up,
\* the renderer is bound to that track or to none, never to an earlier
\* connection's, which handleOffer leaves bound.
TrackOfConnection == qt = <<>> /\ tracked /\ track # 0 => track = pc

\* The statistics of a connection through which frames come are shown, unless it
\* is closed or its state changes first.
StatisticsShown ==
  \A p \in 1..MaxConns :
    (pc = p /\ state = "connected" /\ decoded > 0)
      ~> (figures = p \/ pc # p \/ state # "connected")
=============================================================================
