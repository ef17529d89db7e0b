------------------------ MODULE ReceiverNegotiation ------------------------
(***************************************************************************)
(* Offer/answer and ICE handling of the native receiver                    *)
(* (src/webrtc_receiver_client.cpp).                                       *)
(*                                                                         *)
(* Three threads share the client's members without a lock:                *)
(*   - the Qt thread runs the user's connect and disconnect and the events *)
(*     posted with Qt::QueuedConnection, one at a time;                    *)
(*   - WebRTC's signaling thread runs the completion callbacks;            *)
(*   - the reader of the signaling connection only posts events.           *)
(* A call on the PeerConnection made on the Qt thread is a proxy call that *)
(* waits for WebRTC's signaling thread, so it cannot overlap a callback.   *)
(* A handler is split where the other thread can get in between.           *)
(*                                                                         *)
(* Each offer gets a PeerConnection of its own, named by the offer's       *)
(* number; 0 stands for a null pointer.  A candidate is <<offer, n>>.      *)
(***************************************************************************)
EXTENDS Naturals, Sequences

CONSTANTS
  MaxOffers,    \* bound: offers the publisher sends
  MaxCands,     \* bound: candidates it sends for each offer
  MaxSessions   \* bound: connections to the signaling server

ASSUME NegotiationAssumption ==
  /\ MaxOffers \in Nat /\ MaxCands \in Nat /\ MaxSessions \in Nat

Offers == 1..MaxOffers
OpKinds == {"setRemote", "createAnswer", "setLocal"}

VARIABLES
  sig,      \* m_signaling: the session it talks to, 0 when null
  sessions, \* sessions tried so far
  offers,   \* offers the publisher has sent
  cands,    \* candidates it has sent for the last one
  overlapped, \* an offer has come while an earlier one was being handled
  qt,       \* events queued for the Qt thread
  qtPc,     \* the handler the Qt thread is in the middle of
  pc,       \* m_peerConnection
  conn,     \* conn[p]: the state of PeerConnection p
  applied,  \* m_remoteDescriptionApplied
  pending,  \* m_pendingRemoteIce
  observer, \* the three m_pending...Observer members: the connection they serve
  ops,      \* operations of PeerConnections whose callback has not run
  rtc,      \* the callback WebRTC's signaling thread is in the middle of
  added,    \* added[p]: candidates passed to AddIceCandidate of p, in order
  answers,  \* answers passed to SendAnswer
  outcome,  \* outcome[o]: what the client last reported about offer o
  raced,    \* a push to m_pendingRemoteIce has overlapped its flush
  crashed   \* a null or deleted object was called

signaling == <<sig, sessions>>
publisher == <<offers, cands, overlapped>>
vars == <<signaling, publisher, qt, qtPc, pc, conn, applied, pending, observer,
          ops, rtc, added, answers, outcome, raced, crashed>>

Idle == [step |-> "idle"]
NoObservers == [k \in OpKinds |-> 0]
OfferEvent(o) == [type |-> "offer", offer |-> o]
IceEvent(c) == [type |-> "ice", cand |-> c]
AnswerEvent(o) == [type |-> "answer", by |-> o]

\* An operation: the connection it runs on, the offer its description belongs
\* to, and "by", the offer whose handling led to it.
Op(k, p, o, by) ==
  [kind |-> k, pc |-> p, offer |-> o, by |-> by, res |-> "running"]

Init ==
  /\ sig = 0 /\ sessions = 0
  /\ offers = 0 /\ cands = 0 /\ overlapped = FALSE
  /\ qt = <<>> /\ qtPc = Idle
  /\ pc = 0
  /\ conn = [p \in Offers |-> "none"]
  /\ applied = FALSE /\ pending = <<>>
  /\ observer = NoObservers
  /\ ops = {} /\ rtc = Idle
  /\ added = [p \in Offers |-> <<>>]
  /\ answers = <<>>
  /\ outcome = [o \in Offers |-> "none"]
  /\ raced = FALSE /\ crashed = FALSE

\* A thread can start something new; after a crash none can.
QtFree == qtPc = Idle /\ ~crashed
RtcFree == rtc = Idle /\ ~crashed
Quiet == qt = <<>> /\ QtFree /\ RtcFree /\ ops = {}

\* conn after Close() of the current connection, if there is one.
ClosePc == [p \in Offers |-> IF p = pc THEN "closed" ELSE conn[p]]

-----------------------------------------------------------------------------
(* The user, on the Qt thread.                                             *)

\* connectToSignaling: the old client is stopped; Start of the new one may
\* fail.  Neither the connection nor the queued candidates are touched.
ConnectToSignaling ==
  /\ QtFree /\ sessions < MaxSessions
  /\ sessions' = sessions + 1
  /\ sig' \in {0, sessions + 1}
  /\ UNCHANGED <<publisher, qt, qtPc, pc, conn, applied, pending, observer, ops,
                 rtc, added, answers, outcome, raced, crashed>>

\* disconnect, up to Close()...
DisconnectBegin ==
  /\ QtFree
  /\ pending' = <<>> /\ applied' = FALSE /\ observer' = NoObservers
  /\ sig' = 0
  /\ qtPc' = [step |-> "close"]
  /\ UNCHANGED <<sessions, publisher, qt, pc, conn, ops, rtc, added, answers,
                 outcome, raced, crashed>>

\* ... which waits for WebRTC's signaling thread.
DisconnectClose ==
  /\ qtPc.step = "close" /\ RtcFree
  /\ conn' = ClosePc /\ pc' = 0
  /\ qtPc' = Idle
  /\ UNCHANGED <<signaling, publisher, qt, applied, pending, observer, ops, rtc,
                 added, answers, outcome, raced, crashed>>

-----------------------------------------------------------------------------
(* The publisher's messages, posted by the reader of the current session.  *)

OnOffer ==
  /\ ~crashed /\ sig # 0 /\ offers < MaxOffers
  /\ offers' = offers + 1 /\ cands' = 0
  /\ overlapped' = (overlapped \/ ~Quiet)
  /\ qt' = Append(qt, OfferEvent(offers + 1))
  /\ UNCHANGED <<signaling, qtPc, pc, conn, applied, pending, observer, ops, rtc,
                 added, answers, outcome, raced, crashed>>

OnIce ==
  /\ ~crashed /\ sig # 0 /\ offers # 0 /\ cands < MaxCands
  /\ cands' = cands + 1
  /\ qt' = Append(qt, IceEvent(<<offers, cands + 1>>))
  /\ UNCHANGED <<signaling, offers, overlapped, qtPc, pc, conn, applied, pending, observer,
                 ops, rtc, added, answers, outcome, raced, crashed>>

-----------------------------------------------------------------------------
(* Events, on the Qt thread.                                               *)

Receive(type) ==
  /\ QtFree /\ qt # <<>> /\ Head(qt).type = type
  /\ qt' = Tail(qt)

\* handleOffer, up to the first call on a PeerConnection...
HandleOffer ==
  /\ Receive("offer")
  /\ pending' = <<>> /\ applied' = FALSE /\ observer' = NoObservers
  /\ qtPc' = [step |-> "create", offer |-> Head(qt).offer]
  /\ UNCHANGED <<signaling, publisher, pc, conn, ops, rtc, added, answers,
                 outcome, raced, crashed>>

\* ... then createPeerConnection: without a factory or with a failed creation
\* there is no connection left ...
CreatePeerConnectionFails ==
  /\ qtPc.step = "create" /\ RtcFree
  /\ conn' = ClosePc /\ pc' = 0
  /\ outcome' = [outcome EXCEPT ![qtPc.offer] = "failed"]
  /\ qtPc' = Idle
  /\ UNCHANGED <<signaling, publisher, qt, applied, pending, observer, ops, rtc,
                 added, answers, raced, crashed>>

\* ... and with an SDP that does not parse there is one without a description.
ParseOfferFails ==
  /\ qtPc.step = "create" /\ RtcFree
  /\ conn' = [ClosePc EXCEPT ![qtPc.offer] = "new"] /\ pc' = qtPc.offer
  /\ outcome' = [outcome EXCEPT ![qtPc.offer] = "failed"]
  /\ qtPc' = Idle
  /\ UNCHANGED <<signaling, publisher, qt, applied, pending, observer, ops, rtc,
                 added, answers, raced, crashed>>

\* Mutated SetRemoteDescription: the observer is only a local variable.
SetRemoteDescription_LocalObserver ==
  /\ qtPc.step = "create" /\ RtcFree
  /\ conn' = [ClosePc EXCEPT ![qtPc.offer] = "new"] /\ pc' = qtPc.offer
  /\ ops' = ops \cup {Op("setRemote", qtPc.offer, qtPc.offer, qtPc.offer)}
  /\ qtPc' = Idle
  /\ UNCHANGED <<signaling, publisher, qt, applied, pending, observer, rtc, added,
                 answers, outcome, raced, crashed>>

SetRemoteDescription ==
  /\ qtPc.step = "create" /\ RtcFree
  /\ conn' = [ClosePc EXCEPT ![qtPc.offer] = "new"] /\ pc' = qtPc.offer
  /\ observer' = [observer EXCEPT !["setRemote"] = qtPc.offer]
  /\ ops' = ops \cup {Op("setRemote", qtPc.offer, qtPc.offer, qtPc.offer)}
  /\ qtPc' = Idle
  /\ UNCHANGED <<signaling, publisher, qt, applied, pending, rtc, added, answers,
                 outcome, raced, crashed>>

\* Mutated HandleRemoteIceCandidate: m_remoteDescriptionApplied is not checked.
HandleRemoteIceCandidate_NoAppliedCheck ==
  /\ Receive("ice")
  /\ qtPc' = [step |-> IF pc = 0 THEN "push" ELSE "add", cand |-> Head(qt).cand]
  /\ UNCHANGED <<signaling, publisher, pc, conn, applied, pending, observer, ops,
                 rtc, added, answers, outcome, raced, crashed>>

\* handleRemoteIceCandidate decides ...
HandleRemoteIceCandidate ==
  /\ Receive("ice")
  /\ qtPc' = [step |-> IF pc = 0 \/ ~applied THEN "push" ELSE "add",
              cand |-> Head(qt).cand]
  /\ UNCHANGED <<signaling, publisher, pc, conn, applied, pending, observer, ops,
                 rtc, added, answers, outcome, raced, crashed>>

\* ... and queues the candidate ...
PushPending ==
  /\ qtPc.step = "push" /\ ~crashed
  /\ pending' = Append(pending, qtPc.cand)
  /\ raced' = (raced \/ rtc.step = "clear")
  /\ qtPc' = Idle
  /\ UNCHANGED <<signaling, publisher, qt, pc, conn, applied, observer, ops, rtc,
                 added, answers, outcome, crashed>>

\* Mutated AddRemoteIceCandidateNow: leftovers of the queue follow the candidate.
AddRemoteIceCandidateNow_FlushesLate ==
  /\ qtPc.step = "add" /\ RtcFree
  /\ added' = [added EXCEPT ![pc] = Append(@, qtPc.cand) \o pending]
  /\ pending' = <<>>
  /\ qtPc' = Idle
  /\ UNCHANGED <<signaling, publisher, qt, pc, conn, applied, observer, ops, rtc,
                 answers, outcome, raced, crashed>>

\* ... or hands it over, which waits for WebRTC's signaling thread.  Candidates
\* are well-formed: one that CreateIceCandidate refuses is dropped by the code.
AddRemoteIceCandidateNow ==
  /\ qtPc.step = "add" /\ RtcFree
  /\ added' = [added EXCEPT ![pc] = Append(@, qtPc.cand)]
  /\ qtPc' = Idle
  /\ UNCHANGED <<signaling, publisher, qt, pc, conn, applied, pending, observer,
                 ops, rtc, answers, outcome, raced, crashed>>

\* doCreateAnswerAfterSetRemote, for whichever connection is current.
DoCreateAnswer ==
  /\ Receive("answer")
  /\ IF pc = 0
       THEN UNCHANGED <<observer, ops>>
       ELSE /\ RtcFree
            /\ observer' = [observer EXCEPT !["createAnswer"] = pc]
            /\ ops' = ops \cup {Op("createAnswer", pc, pc, Head(qt).by)}
  /\ UNCHANGED <<signaling, publisher, qtPc, pc, conn, applied, pending, rtc,
                 added, answers, outcome, raced, crashed>>
-----------------------------------------------------------------------------
(* Operations of a PeerConnection (external) and their callbacks, on       *)
(* WebRTC's signaling thread.  The callback of SetRemoteDescription runs   *)
(* when the operation completes, the two others some time later.           *)

\* A callback may start: the thread is free and the operation has the result.
CallbackOf(op, kind, res) == RtcFree /\ op.kind = kind /\ op.res = res

SetRemoteFails(op) ==
  /\ CallbackOf(op, "setRemote", "running")
  /\ ops' = ops \ {op}
  /\ observer' = [observer EXCEPT !["setRemote"] = 0]
  /\ applied' = FALSE /\ pending' = <<>>
  /\ outcome' = [outcome EXCEPT ![op.by] = "failed"]
  /\ UNCHANGED <<signaling, publisher, qt, qtPc, pc, conn, rtc, added, answers,
                 raced, crashed>>

\* Mutated SetRemoteSucceeds: the queue is thrown away.
SetRemoteSucceeds_NoFlush(op) ==
  /\ CallbackOf(op, "setRemote", "running") /\ conn[op.pc] = "new"
  /\ ops' = ops \ {op}
  /\ conn' = [conn EXCEPT ![op.pc] = "remote"]
  /\ observer' = [observer EXCEPT !["setRemote"] = 0]
  /\ applied' = TRUE
  /\ raced' = (raced \/ qtPc.step = "push")
  /\ pending' = <<>>
  /\ qt' = Append(qt, AnswerEvent(op.by))
  /\ UNCHANGED <<signaling, publisher, qtPc, pc, rtc, added, answers, outcome,
                 crashed>>

\* The description is applied and the queued candidates are handed over; what
\* is left, when there were any, is to clear the queue.
SetRemoteSucceeds(op) ==
  /\ CallbackOf(op, "setRemote", "running") /\ conn[op.pc] = "new"
  /\ ops' = ops \ {op}
  /\ conn' = [conn EXCEPT ![op.pc] = "remote"]
  /\ observer' = [observer EXCEPT !["setRemote"] = 0]
  /\ applied' = TRUE
  /\ raced' = (raced \/ qtPc.step = "push")
  /\ added' = [added EXCEPT ![pc] = @ \o pending]
  /\ IF pending = <<>>
       THEN qt' = Append(qt, AnswerEvent(op.by)) /\ rtc' = rtc
       ELSE qt' = qt /\ rtc' = [step |-> "clear", by |-> op.by]
  /\ UNCHANGED <<signaling, publisher, qtPc, pc, pending, answers, outcome,
                 crashed>>

FlushClear ==
  /\ rtc.step = "clear"
  /\ pending' = <<>>
  /\ qt' = Append(qt, AnswerEvent(rtc.by))
  /\ rtc' = Idle
  /\ UNCHANGED <<signaling, publisher, qtPc, pc, conn, applied, observer, ops,
                 added, answers, outcome, raced, crashed>>

\* CreateAnswer and SetLocalDescription need an offer that is not answered.
Complete(op) ==
  /\ ~crashed /\ op.kind # "setRemote" /\ op.res = "running"
  /\ \E res \in {"ok", "error"} :
       /\ res = "ok" => conn[op.pc] = "remote"
       /\ ops' = (ops \ {op}) \cup {[op EXCEPT !.res = res]}
       /\ conn' = IF op.kind = "setLocal" /\ res = "ok"
                    THEN [conn EXCEPT ![op.pc] = "stable"] ELSE conn
  /\ UNCHANGED <<signaling, publisher, qt, qtPc, pc, applied, pending, observer,
                 rtc, added, answers, outcome, raced, crashed>>

AnswerFails(op) ==
  /\ RtcFree /\ op.kind # "setRemote" /\ op.res = "error"
  /\ ops' = ops \ {op}
  /\ observer' = [observer EXCEPT ![op.kind] = 0]
  /\ outcome' = [outcome EXCEPT ![op.by] = "failed"]
  /\ UNCHANGED <<signaling, publisher, qt, qtPc, pc, conn, applied, pending, rtc,
                 added, answers, raced, crashed>>

\* The answer is set on whichever connection is current, unchecked.
CreateAnswerSucceeds(op) ==
  /\ CallbackOf(op, "createAnswer", "ok")
  /\ IF pc = 0
       THEN /\ crashed' = TRUE
            /\ ops' = ops \ {op}
            /\ observer' = [observer EXCEPT !["createAnswer"] = 0]
       ELSE /\ crashed' = crashed
            /\ ops' = (ops \ {op}) \cup {Op("setLocal", pc, op.offer, op.by)}
            /\ observer' = [observer EXCEPT !["createAnswer"] = 0,
                                            !["setLocal"] = pc]
  /\ UNCHANGED <<signaling, publisher, qt, qtPc, pc, conn, applied, pending, rtc,
                 added, answers, outcome, raced>>

\* Mutated SetLocalSucceeds: OnFailure sends the answer too.
SetLocalSucceeds_IgnoresResult(op) ==
  /\ RtcFree /\ op.kind = "setLocal" /\ op.res # "running" /\ sig # 0
  /\ ops' = ops \ {op}
  /\ observer' = [observer EXCEPT !["setLocal"] = 0]
  /\ rtc' = [step |-> "send", pc |-> op.pc, offer |-> op.offer, by |-> op.by]
  /\ UNCHANGED <<signaling, publisher, qt, qtPc, pc, conn, applied, pending,
                 added, answers, outcome, raced, crashed>>

\* Mutated SetLocalSucceeds: a missing signaling client is not reported.
SetLocalSucceeds_SilentReturn(op) ==
  /\ CallbackOf(op, "setLocal", "ok")
  /\ ops' = ops \ {op}
  /\ observer' = [observer EXCEPT !["setLocal"] = 0]
  /\ rtc' = IF sig = 0 THEN rtc
            ELSE [step |-> "send", pc |-> op.pc, offer |-> op.offer, by |-> op.by]
  /\ UNCHANGED <<signaling, publisher, qt, qtPc, pc, conn, applied, pending,
                 added, answers, outcome, raced, crashed>>

SetLocalSucceeds(op) ==
  /\ CallbackOf(op, "setLocal", "ok")
  /\ ops' = ops \ {op}
  /\ observer' = [observer EXCEPT !["setLocal"] = 0]
  /\ IF sig = 0
       THEN /\ outcome' = [outcome EXCEPT ![op.by] = "unsent"] /\ rtc' = rtc
       ELSE /\ outcome' = outcome
            /\ rtc' = [step |-> "send", pc |-> op.pc, offer |-> op.offer,
                       by |-> op.by]
  /\ UNCHANGED <<signaling, publisher, qt, qtPc, pc, conn, applied, pending,
                 added, answers, raced, crashed>>

\* m_signaling->SendAnswer, on the client that is there by now.  When it has
\* been deleted since the check, the call may crash or write nowhere.
SendAnswer ==
  /\ rtc.step = "send"
  /\ IF sig # 0
       THEN /\ answers' = Append(answers, [offer |-> rtc.offer, pc |-> rtc.pc])
            /\ crashed' = FALSE
       ELSE answers' = answers /\ crashed' \in BOOLEAN
  /\ outcome' = [outcome EXCEPT ![rtc.by] = "answered"]
  /\ rtc' = Idle
  /\ UNCHANGED <<signaling, publisher, qt, qtPc, pc, conn, applied, pending,
                 observer, ops, added, raced>>

-----------------------------------------------------------------------------
User == ConnectToSignaling \/ DisconnectBegin
Publisher == OnOffer \/ OnIce
QtStep ==
  \/ DisconnectClose \/ HandleOffer \/ CreatePeerConnectionFails
  \/ ParseOfferFails \/ SetRemoteDescription \/ HandleRemoteIceCandidate
  \/ PushPending \/ AddRemoteIceCandidateNow \/ DoCreateAnswer
RtcStep ==
  \/ FlushClear \/ SendAnswer
  \/ \E op \in ops :
       \/ SetRemoteFails(op) \/ SetRemoteSucceeds(op) \/ Complete(op)
       \/ AnswerFails(op) \/ CreateAnswerSucceeds(op) \/ SetLocalSucceeds(op)

Next == User \/ Publisher \/ QtStep \/ RtcStep
Spec == Init /\ [][Next]_vars

\* Qt's event loop and WebRTC's signaling thread keep running what they are
\* given; nothing obliges the user or the publisher to act.
FairSpec == Spec /\ WF_vars(QtStep) /\ WF_vars(RtcStep)

-----------------------------------------------------------------------------
(* Properties.                                                             *)

\* However its events and the callbacks interleave, a connection is given the
\* candidates of its own offer, although handleRemoteIceCandidate does not look
\* at what they belong to, in the order in which the publisher sent them, none of
\* them twice (m_pendingRemoteIce never overtakes or repeats a candidate).
CandidatesInOrder ==
  \A p \in Offers : \A i, j \in 1..Len(added[p]) :
    /\ added[p][i][1] = p
    /\ i < j => added[p][i][2] < added[p][j][2]

\* A connection's local description is sent to the publisher at most once, even
\* when callbacks of a replaced connection start a second answer on it.
OneAnswerPerConnection ==
  \A i, j \in 1..Len(answers) : answers[i].pc = answers[j].pc => i = j

\* A candidate is given to a connection only once its remote description is
\* applied (what m_remoteDescriptionApplied and m_pendingRemoteIce are for),
\* unless offers overlapped: then the callback of a connection that is about to
\* be closed can set the flag for its successor.
QueuedUntilRemoteApplied ==
  [][\A p \in Offers : added'[p] # added[p] /\ ~overlapped
                          => conn'[p] \in {"remote", "stable"}]_vars

\* While an operation of the current connection has not called back, the member
\* made for its observer holds a reference to it, unless offers overlapped.
ObserverHeld ==
  \A op \in ops : op.pc = pc /\ QtFree /\ ~overlapped => observer[op.kind] = op.pc

\* No candidate stays in the queue once the remote description is applied: the
\* queue is emptied into the connection when it becomes ready.
NothingStranded ==
  applied /\ pc # 0 /\ QtFree /\ RtcFree => pending = <<>>

\* When everything has been handled, the connection of the last offer has been
\* given every candidate of it that was received, whichever way each one took,
\* unless a push to the queue overlapped the flush on WebRTC's thread (then it is
\* dropped by the clear() behind the loop, or stays behind) or offers overlapped.
NothingLost ==
  Quiet /\ pc # 0 /\ pc = offers /\ conn[pc] \in {"remote", "stable"}
    /\ ~raced /\ ~overlapped => Len(added[pc]) = cands

\* A connection that is kept is answered or its failure is reported: no chain of
\* callbacks is broken off silently, unless offers overlapped.
OfferSettles ==
  \A o \in Offers : pc = o ~> (pc # o \/ outcome[o] # "none" \/ crashed \/ overlapped)
=============================================================================
