----------------------- MODULE ReceiverSessionProofs -----------------------
(***************************************************************************)
(* For any number of connections, sessions and frames: the statistics      *)
(* timer follows the connection, although start and stop are posted by     *)
(* connections that may be replaced when they are handled; once it has     *)
(* been started for a connection, no counter of an earlier one is          *)
(* subtracted from that connection's; the renderer                         *)
(* does not stay with an earlier connection's track, nor the figures shown *)
(* with its statistics; and, as long as the user waits for what is in      *)
(* flight, a disconnect leaves nothing behind and candidates are sent in   *)
(* their session.                                                          *)
(***************************************************************************)
EXTENDS ReceiverSession, SequenceTheorems, TLAPS

Events == [type : EventTypes, n : Nat]
Switches == {"start", "stop"}
Connected == pc # 0 /\ state = "connected"

\* The last start or stop that waits in q is a start exactly when c; when none
\* waits, it is the timer t that agrees with c.
Follows(q, t, c) ==
  \/ /\ \A i \in 1..Len(q) : q[i].type \notin Switches
     /\ t <=> c
  \/ \E i \in 1..Len(q) :
       /\ q[i].type \in Switches /\ (q[i].type = "start" <=> c)
       /\ \A j \in 1..Len(q) : j > i => q[j].type \notin Switches

\* Event e was posted by another connection than p.
Foreign(e, p) == e.type # "offer" /\ e.n # p
SomeForeign(q, p) == \E i \in 1..Len(q) : Foreign(q[i], p)
ForeignStop(q, p) == \E i \in 1..Len(q) : q[i].type = "stop" /\ q[i].n # p

\* The events of the current connection p come last, and a start of another one
\* is followed by a stop: Close() posts it.
Ordered(q, p) ==
  /\ \A i, j \in 1..Len(q) :
       i < j /\ q[i].type # "offer" /\ q[i].n = p => ~Foreign(q[j], p)
  /\ \A i \in 1..Len(q) : q[i].type = "start" /\ q[i].n # p =>
       \E j \in 1..Len(q) : j > i /\ q[j].type = "stop" /\ q[j].n # p

\* A timer that is still an earlier connection's is about to be stopped; once
\* nothing of earlier connections waits, the stored counter is of this one.
StoppedBehind == timer /\ SomeForeign(qt, pc) => ForeignStop(qt, pc)
CounterOfConnection == timer /\ ~SomeForeign(qt, pc) => pc # 0 /\ prev <= decoded

\* Only a connection is asked for statistics.
PollsConnection == polls > 0 => pc # 0

\* A callback that is running stores a counter of the current connection.
RequestOfConnection == storing <= decoded

\* The inductive invariants: of the timer, and of the counter together with
\* TypeOK, PollsConnection and RequestOfConnection.
TimerInv == TypeOK /\ PollsConnection /\ Follows(qt, timer, Connected)
QueueInv == Ordered(qt, pc) /\ StoppedBehind /\ CounterOfConnection

-----------------------------------------------------------------------------
(* Queues of events.                                                       *)

\* What is left of a queue whose first event is handled.
LEMMA Popped ==
  ASSUME NEW q \in Seq(Events), q # <<>>
  PROVE  /\ Tail(q) \in Seq(Events) /\ Len(q) \in Nat /\ Len(q) > 0
         /\ Len(Tail(q)) = Len(q) - 1
         /\ Head(q) = q[1] /\ q[1] \in Events
         /\ \A i \in 1..Len(Tail(q)) : Tail(q)[i] = q[i + 1]
  BY HeadTailProperties, EmptySeq, LenProperties, ElementOfSeq

\* A queue to which an event is posted.
LEMMA Pushed ==
  ASSUME NEW q \in Seq(Events), NEW e \in Events
  PROVE  /\ Append(q, e) \in Seq(Events) /\ Len(q) \in Nat
         /\ Len(Append(q, e)) = Len(q) + 1
         /\ Append(q, e)[Len(q) + 1] = e
         /\ \A i \in 1..Len(q) : Append(q, e)[i] = q[i]
  BY AppendProperties, LenProperties

\* What Close() posts behind q: a stop, and statistics for requests in flight.
LEMMA Closing ==
  ASSUME NEW q \in Seq(Events), pc \in Nat, pc # 0, polls \in Nat, ClosePc(q)
  PROVE  /\ qt' \in Seq(Events) /\ Len(qt') \in Nat /\ Len(q) \in Nat
         /\ Len(q) + 1 \in 1..Len(qt') /\ qt'[Len(q) + 1] = Event("stop", pc)
         /\ \A i \in 1..Len(q) : i \in 1..Len(qt') /\ qt'[i] = q[i]
         /\ \A i \in 1..Len(qt') :
              i \in 1..Len(q) \/ i = Len(q) + 1
              \/ (i > Len(q) + 1 /\ qt'[i] = Event("stats", pc))
         /\ polls = 0 => Len(qt') = Len(q) + 1
<1>1. PICK n \in Nat : qt' = q \o ClosedEvents(n) /\ (polls = 0 => n = 0)
  BY DEF ClosePc
<1> DEFINE es == ClosedEvents(n)
           stop == Event("stop", pc)
           stat == Event("stats", pc)
<1>2. stop \in Events /\ stat \in Events
  BY DEF Event, Events, EventTypes
<1> HIDE DEF stop, stat
<1>3. es = [i \in 1..n + 1 |-> IF i = 1 THEN stop ELSE stat]
  BY DEF ClosedEvents, stop, stat
<1>4. es \in Seq(Events) /\ Len(es) = n + 1
  BY <1>2, <1>3
<1>5. es[1] = stop /\ \A i \in 2..n + 1 : es[i] = stat
  BY <1>3
<1> HIDE DEF es
<1>6. /\ q \o es \in Seq(Events) /\ Len(q) \in Nat /\ Len(q \o es) = Len(q) + Len(es)
      /\ \A i \in 1..Len(q) + Len(es) :
           (q \o es)[i] = IF i <= Len(q) THEN q[i] ELSE es[i - Len(q)]
  BY <1>4, ConcatProperties, LenProperties
<1>7. qt' = q \o es
  BY <1>1 DEF es
<1>8. /\ qt' \in Seq(Events) /\ Len(q) \in Nat /\ Len(qt') = Len(q) + (n + 1)
      /\ \A i \in 1..Len(qt') : qt'[i] = IF i <= Len(q) THEN q[i] ELSE es[i - Len(q)]
  BY <1>4, <1>6, <1>7
<1> HIDE <1>1, <1>7
<1>9. Len(q) + 1 \in 1..Len(qt') /\ qt'[Len(q) + 1] = stop
  BY <1>5, <1>8
<1>10. \A i \in 1..Len(q) : i \in 1..Len(qt') /\ qt'[i] = q[i]
  BY <1>8
<1>11. ASSUME NEW i \in 1..Len(qt'), i > Len(q) + 1 PROVE qt'[i] = stat
  <2>1. i - Len(q) \in 2..n + 1 /\ ~(i <= Len(q))
    BY <1>8, <1>11
  <2>2. QED
    BY <1>5, <1>8, <2>1
<1>12. \A i \in 1..Len(qt') : i \in 1..Len(q) \/ i = Len(q) + 1 \/ i > Len(q) + 1
  BY <1>8
<1>13. Len(qt') \in Nat /\ (polls = 0 => Len(qt') = Len(q) + 1)
  BY <1>1, <1>8
<1>14. QED
  BY <1>8, <1>9, <1>10, <1>11, <1>12, <1>13 DEF stop, stat

-----------------------------------------------------------------------------
(* The timer.                                                              *)

\* Handling the first event: start and stop set the timer, others leave it.
LEMMA FollowsPop ==
  ASSUME NEW q \in Seq(Events), q # <<>>, NEW t \in BOOLEAN, NEW c \in BOOLEAN,
         Follows(q, t, c)
  PROVE  /\ Head(q).type \notin Switches => Follows(Tail(q), t, c)
         /\ Head(q).type = "start" => Follows(Tail(q), TRUE, c)
         /\ Head(q).type = "stop" => Follows(Tail(q), FALSE, c)
<1> DEFINE r == Tail(q)
<1>1. /\ Len(q) \in Nat /\ Len(q) > 0 /\ Len(r) = Len(q) - 1 /\ Head(q) = q[1]
      /\ \A i \in 1..Len(r) : r[i] = q[i + 1]
  BY Popped
<1> HIDE DEF r
<1>2. CASE \A i \in 1..Len(q) : q[i].type \notin Switches
  <2>1. t <=> c
    BY <1>2 DEF Follows
  <2>2. \A i \in 1..Len(r) : r[i].type \notin Switches
    BY <1>1, <1>2
  <2>3. Head(q).type \notin Switches
    BY <1>1, <1>2
  <2>4. QED
    BY <2>1, <2>2, <2>3 DEF Follows, Switches, r
<1>3. CASE ~ \A i \in 1..Len(q) : q[i].type \notin Switches
  <2>1. PICK i \in 1..Len(q) :
          /\ q[i].type \in Switches /\ (q[i].type = "start" <=> c)
          /\ \A j \in 1..Len(q) : j > i => q[j].type \notin Switches
    BY <1>3 DEF Follows
  <2>2. CASE i = 1
    <3>1. \A k \in 1..Len(r) : r[k].type \notin Switches
      BY <1>1, <2>1, <2>2
    <3>2. Head(q).type \in Switches /\ (Head(q).type = "start" <=> c)
      BY <1>1, <2>1, <2>2
    <3>3. QED
      BY <3>1, <3>2 DEF Follows, Switches, r
  <2>3. CASE i # 1
    <3>1. i - 1 \in 1..Len(r) /\ r[i - 1] = q[i]
      BY <1>1, <2>3
    <3>2. \A j \in 1..Len(r) : j > i - 1 => r[j].type \notin Switches
      BY <1>1, <2>1
    <3>3. QED
      BY <2>1, <3>1, <3>2 DEF Follows, r
  <2>4. QED
    BY <2>2, <2>3
<1>4. QED
  BY <1>2, <1>3

\* Posting an event: a start or stop becomes the last one.
LEMMA FollowsPush ==
  ASSUME NEW q \in Seq(Events), NEW e \in Events, NEW t \in BOOLEAN,
         NEW c \in BOOLEAN
  PROVE  /\ e.type \notin Switches /\ Follows(q, t, c) => Follows(Append(q, e), t, c)
         /\ e.type \in Switches /\ (e.type = "start" <=> c) => Follows(Append(q, e), t, c)
  BY Pushed DEF Follows

-----------------------------------------------------------------------------
(* Types.                                                                  *)

\* The sessions and connections that the events of a queue mention.
Known(q, ss, cc) ==
  \A i \in 1..Len(q) : q[i].n \in 1..(IF q[i].type = "offer" THEN ss ELSE cc)

\* They stay known when an event is handled.
LEMMA KnownPop ==
  ASSUME NEW q \in Seq(Events), q # <<>>, NEW ss, NEW cc, Known(q, ss, cc)
  PROVE  /\ Known(Tail(q), ss, cc)
         /\ Head(q).n \in 1..(IF Head(q).type = "offer" THEN ss ELSE cc)
  BY Popped DEF Known

\* They stay known when one is posted.
LEMMA KnownPush ==
  ASSUME NEW q \in Seq(Events), NEW e \in Events, NEW ss, NEW cc, Known(q, ss, cc),
         e.n \in 1..(IF e.type = "offer" THEN ss ELSE cc)
  PROVE  Known(Append(q, e), ss, cc)
  BY Pushed DEF Known

\* They stay known when there are more of them.
LEMMA KnownMore ==
  ASSUME NEW q \in Seq(Events), NEW ss \in Nat, NEW cc \in Nat, Known(q, ss, cc)
  PROVE  Known(q, ss + 1, cc) /\ Known(q, ss, cc + 1)
<1>1. Len(q) \in Nat /\ \A i \in 1..Len(q) : q[i] \in Events
  BY LenProperties, ElementOfSeq
<1>2. QED
  BY <1>1 DEF Known, Events

\* What the events and the queue give to the other invariants.
LEMMA Typed ==
  ASSUME TypeOK
  PROVE  /\ qt \in Seq(Events) /\ Known(qt, sessions, Len(session))
         /\ Len(session) \in Nat /\ Len(qt) \in Nat /\ pc \in 0..Len(session)
         /\ sessions \in Nat /\ MaxFrames \in Nat /\ CounterRange \in Nat
         /\ CounterRange > MaxFrames /\ polls \in Nat
<1>1. Len(session) \in Nat /\ Len(qt) \in Nat
  BY LenProperties DEF TypeOK
<1>2. QED
  BY <1>1, SessionAssumption DEF TypeOK, Known, Events

\* The counters are smaller than their range.
LEMMA ModSmall == ASSUME NEW n \in Nat, NEW a \in 0..n - 1 PROVE a % n = a
  OBVIOUS

\* What the counters give to the other invariants.
LEMMA Counters ==
  ASSUME TypeOK
  PROVE  /\ prev \in 0..CounterRange - 1 /\ decoded \in 0..CounterRange - 1
         /\ decoded \in 0..MaxFrames /\ prev \in Nat /\ decoded \in Nat /\ storing \in Int
         /\ storing # NotStoring => storing \in 0..CounterRange - 1
<1>1. /\ prev \in 0..CounterRange - 1 /\ decoded \in 0..MaxFrames
      /\ storing \in -1..MaxFrames
  BY Zenon DEF TypeOK, NotStoring
<1>2. MaxFrames \in Nat /\ CounterRange \in Nat /\ CounterRange > MaxFrames
  BY SessionAssumption
<1>3. QED
  BY <1>1, <1>2 DEF NotStoring

\* An event of the current connection may be posted.
LEMMA PostType ==
  ASSUME TypeOK, pc # 0, NEW q \in Seq(Events), Known(q, sessions, Len(session)),
         NEW type \in EventTypes \ {"offer"}
  PROVE  /\ Event(type, pc) \in Events /\ Append(q, Event(type, pc)) \in Seq(Events)
         /\ Known(Append(q, Event(type, pc)), sessions, Len(session))
<1>1. Event(type, pc) \in Events /\ Event(type, pc).type = type /\ Event(type, pc).n = pc
  BY Typed DEF Event, Events
<1>2. pc \in 1..Len(session)
  BY Typed
<1>3. QED
  BY <1>1, <1>2, Pushed, KnownPush

\* Close() leaves a queue of known events and counters of their types.
LEMMA CloseType ==
  ASSUME TypeOK, NEW q \in Seq(Events), Known(q, sessions, Len(session)), ClosePc(q)
  PROVE  /\ qt' \in Seq(Events) /\ Known(qt', sessions, Len(session))
         /\ prev' \in 0..CounterRange - 1
<1>1. qt' \in Seq(Events) /\ Known(qt', sessions, Len(session))
  <2>1. CASE pc = 0
    BY <2>1 DEF ClosePc
  <2>2. CASE pc # 0
    <3>1. pc \in Nat /\ pc \in 1..Len(session) /\ polls \in Nat
      BY <2>2, Typed
    <3>2. \A type \in EventTypes : Event(type, pc).type = type /\ Event(type, pc).n = pc
      BY DEF Event
    <3>3. "stop" \in EventTypes /\ "stats" \in EventTypes
      BY DEF EventTypes
    <3>4. qt' \in Seq(Events)
          /\ \A i \in 1..Len(qt') : \/ i \in 1..Len(q) /\ qt'[i] = q[i]
                                    \/ qt'[i] = Event("stop", pc)
                                    \/ qt'[i] = Event("stats", pc)
      BY <2>2, <3>1, Closing
    <3>5. QED
      BY <3>1, <3>2, <3>3, <3>4 DEF Known
  <2>3. QED
    BY <2>1, <2>2
<1>2. decoded \in 0..CounterRange - 1
  BY Counters
<1>3. decoded % CounterRange = decoded
  BY <1>2, Typed, ModSmall
<1>4. prev' \in 0..CounterRange - 1
  BY <1>2, <1>3 DEF ClosePc, TypeOK
<1>5. QED
  BY <1>1, <1>4

\* The variables that only the queue depends on, and the others.
QueueType == qt \in Seq(Events) /\ Known(qt, sessions, Len(session))
OtherTypes ==
  /\ sessions \in 0..MaxSessions /\ sig \in 0..sessions /\ offers \in 0..MaxConns
  /\ session \in Seq(Nat) /\ pc \in 0..Len(session)
  /\ state \in {"new", "connected", "disconnected", "failed"}
  /\ decoded \in 0..MaxFrames /\ storing \in NotStoring..MaxFrames
  /\ prev \in 0..CounterRange - 1 /\ polls \in 0..MaxPolls
  /\ figures \in 0..Len(session) /\ track \in 0..Len(session)
Flags ==
  /\ active \in BOOLEAN /\ hurried \in BOOLEAN /\ tracked \in BOOLEAN
  /\ gathered \in BOOLEAN /\ timer \in BOOLEAN
  /\ overtaken \in BOOLEAN /\ renderer \in BOOLEAN /\ astray \in BOOLEAN

\* Together they are TypeOK.
LEMMA TypeParts == TypeOK <=> QueueType /\ OtherTypes /\ Flags
  BY DEF TypeOK, QueueType, OtherTypes, Flags, Known, Events

\* The same after a step.
LEMMA TypePartsNext == TypeOK' <=> QueueType' /\ OtherTypes' /\ Flags'
  BY DEF TypeOK, QueueType, OtherTypes, Flags, Known, Events

\* A new receiver has the types.
LEMMA TypeInit == Init => TypeOK
<1>1. <<>> \in Seq(Events) /\ <<>> \in Seq(Nat) /\ Len(<<>>) = 0
  BY EmptySeq
<1>2. MaxSessions \in Nat /\ MaxConns \in Nat /\ MaxFrames \in Nat /\ MaxPolls \in Nat
      /\ CounterRange \in Nat /\ CounterRange > MaxFrames
  BY SessionAssumption
<1>3. ASSUME Init PROVE QueueType
  BY <1>1, <1>3 DEF Init, QueueType, Known
<1>4. ASSUME Init PROVE OtherTypes
  BY <1>1, <1>2, <1>4 DEF Init, OtherTypes, NotStoring
<1>5. ASSUME Init PROVE Flags
  BY <1>5 DEF Init, Flags
<1>6. QED
  BY <1>3, <1>4, <1>5, TypeParts

\* Every step posts and handles known events.
LEMMA QueueStep == TypeOK /\ PollsConnection /\ [Next]_vars => QueueType'
<1> SUFFICES ASSUME TypeOK, PollsConnection, [Next]_vars PROVE QueueType'
  OBVIOUS
<1>1. QueueType /\ pc \in 0..Len(session) /\ session \in Seq(Nat)
      /\ sessions \in Nat /\ sig \in 0..sessions /\ Len(session) \in Nat
  BY TypeParts, Typed DEF OtherTypes
<1>2. CASE UNCHANGED <<qt, sessions, session>>
  BY <1>1, <1>2 DEF QueueType
<1>3. ASSUME pc # 0, UNCHANGED <<sessions, session>>,
             NEW type \in EventTypes \ {"offer"}, qt' = Append(qt, Event(type, pc))
      PROVE  QueueType'
  BY <1>1, <1>3, PostType DEF QueueType
<1>4. ASSUME qt # <<>>, UNCHANGED <<sessions, session>>, qt' = Tail(qt)
      PROVE  QueueType'
  BY <1>1, <1>4, Popped, KnownPop DEF QueueType
<1>5. CASE ConnectToSignaling
  <2>1. Known(qt, sessions + 1, Len(session))
    BY <1>1, KnownMore DEF QueueType
  <2>2. QED
    BY <1>1, <1>5, <2>1 DEF ConnectToSignaling, peer, QueueType
<1>6. CASE Disconnect
  <2>1. qt' \in Seq(Events) /\ Known(qt', sessions, Len(session))
    BY <1>1, <1>6, CloseType DEF Disconnect, QueueType
  <2>2. QED
    BY <1>6, <2>1 DEF Disconnect, QueueType
<1>7. CASE OnOffer
  <2>1. Event("offer", sig) \in Events /\ Event("offer", sig).n \in 1..sessions
        /\ Event("offer", sig).type = "offer"
    BY <1>1, <1>7 DEF OnOffer, Event, Events, EventTypes
  <2>2. QED
    BY <1>1, <1>7, <2>1, Pushed, KnownPush DEF OnOffer, peer, QueueType
<1>8. CASE HandleOffer
  <2>1. qt # <<>> /\ Tail(qt) \in Seq(Events)
        /\ Known(Tail(qt), sessions, Len(session)) /\ Head(qt) \in Events
    BY <1>1, <1>8, Popped, KnownPop DEF HandleOffer, Receive, QueueType
  <2>2. qt' \in Seq(Events) /\ Known(qt', sessions, Len(session))
    BY <1>8, <2>1, CloseType DEF HandleOffer
  <2>3. Len(session') = Len(session) + 1 /\ sessions' = sessions
    BY <1>1, <1>8, <2>1, AppendProperties DEF HandleOffer, user, Events
  <2>4. QED
    BY <1>1, <2>2, <2>3, KnownMore DEF QueueType
<1>9. CASE StatsDelivered
  BY <1>2, <1>3, <1>9 DEF StatsDelivered, PollsConnection, user, EventTypes
<1>10. CASE OnTrack \/ OnIceCandidate
  BY <1>2, <1>3, <1>10 DEF OnTrack, OnIceCandidate, Observed, user, EventTypes
<1>11. ASSUME NEW st \in {"connected", "disconnected", "failed"}, OnConnectionChange(st)
       PROVE  QueueType'
  BY <1>3, <1>11 DEF OnConnectionChange, Observed, user, EventTypes
<1>12. CASE StartEvent \/ StopEvent \/ StatsEvent \/ TrackEvent \/ IceEvent
  BY <1>4, <1>12
  DEF StartEvent, StopEvent, StatsEvent, TrackEvent, IceEvent, Receive, user, peer
<1>13. CASE SetVideoRenderer \/ StatsTimeout \/ StatsStored \/ FrameDecoded
            \/ UNCHANGED vars
  BY <1>2, <1>13
  DEF SetVideoRenderer, StatsTimeout, StatsStored, FrameDecoded, vars, user, peer
<1>14. QED
  BY <1>5, <1>6, <1>7, <1>8, <1>9, <1>10, <1>11, <1>12, <1>13
  DEF Next, QtStep, StatsStep

\* Every step leaves the other members in their types.
LEMMA OtherStep == TypeOK /\ [Next]_vars => OtherTypes'
<1> SUFFICES ASSUME TypeOK, [Next]_vars PROVE OtherTypes'
  OBVIOUS
<1>1. OtherTypes /\ QueueType /\ Len(session) \in Nat /\ MaxFrames \in Nat
      /\ CounterRange \in Nat /\ CounterRange > MaxFrames /\ MaxConns \in Nat
      /\ MaxSessions \in Nat /\ MaxPolls \in Nat /\ polls \in Nat
  BY TypeParts, Typed, SessionAssumption
<1>2. CASE ConnectToSignaling
  BY <1>1, <1>2 DEF ConnectToSignaling, OtherTypes, peer, stats
<1>3. CASE Disconnect
  <2>1. prev' \in 0..CounterRange - 1
    BY <1>1, <1>3, CloseType DEF Disconnect, QueueType
  <2>2. QED
    BY <1>1, <1>3, <2>1 DEF Disconnect, StopStatsTimer, FreshPc, OtherTypes
<1>4. CASE HandleOffer
  <2>1. qt # <<>> /\ Tail(qt) \in Seq(Events)
        /\ Known(Tail(qt), sessions, Len(session)) /\ Head(qt).n \in Nat
    BY <1>1, <1>4, Popped, KnownPop DEF HandleOffer, Receive, QueueType, Events
  <2>2. prev' \in 0..CounterRange - 1
    BY <1>4, <2>1, CloseType DEF HandleOffer
  <2>3. session' \in Seq(Nat) /\ Len(session') = Len(session) + 1
    BY <1>1, <1>4, <2>1, AppendProperties DEF HandleOffer, OtherTypes
  <2>4. QED
    BY <1>1, <1>4, <2>2, <2>3 DEF HandleOffer, FreshPc, OtherTypes, user
<1>5. CASE StatsDelivered
  BY <1>1, <1>5 DEF StatsDelivered, OtherTypes, NotStoring, user, stats
<1>6. CASE StatsStored
  <2>1. storing \in 0..CounterRange - 1
    BY <1>6, Counters DEF StatsStored
  <2>2. storing % CounterRange = storing
    BY <1>1, <2>1, ModSmall
  <2>3. QED
    BY <1>1, <1>6, <2>1, <2>2 DEF StatsStored, OtherTypes, NotStoring, user
<1>7. ASSUME NEW st \in {"connected", "disconnected", "failed"}, OnConnectionChange(st)
      PROVE  OtherTypes'
  BY <1>1, <1>7 DEF OnConnectionChange, OtherTypes, user, stats
<1>8. CASE OnTrack \/ OnIceCandidate \/ StatsTimeout
  <2>1. CASE OnTrack \/ OnIceCandidate
    BY <1>1, <2>1 DEF OnTrack, OnIceCandidate, OtherTypes, user, stats
  <2>2. CASE StatsTimeout
    <3>1. polls' \in 0..MaxPolls
      BY <1>1, <2>2 DEF StatsTimeout
    <3>2. QED
      BY <1>1, <2>2, <3>1 DEF StatsTimeout, OtherTypes, user, stats
  <2>3. QED
    BY <1>8, <2>1, <2>2
<1>9. CASE FrameDecoded
  BY <1>1, <1>9 DEF FrameDecoded, OtherTypes, user, stats
<1>10. CASE OnOffer
  BY <1>1, <1>10 DEF OnOffer, OtherTypes, peer, stats
<1>11. CASE SetVideoRenderer
  BY <1>1, <1>11 DEF SetVideoRenderer, OtherTypes, user, peer, stats
<1>12. CASE StartEvent
  BY <1>1, <1>12 DEF StartEvent, StartStatsTimer, OtherTypes, user, peer
<1>13. CASE StopEvent
  BY <1>1, <1>13 DEF StopEvent, StopStatsTimer, OtherTypes, user, peer
<1>14. CASE IceEvent
  BY <1>1, <1>14 DEF IceEvent, OtherTypes, user, peer, stats
<1>15. CASE StatsEvent
  <2>1. Head(qt).n \in 1..Len(session)
    BY <1>1, <1>15, KnownPop DEF StatsEvent, Receive, QueueType
  <2>2. QED
    BY <1>1, <1>15, <2>1 DEF StatsEvent, OtherTypes, user, peer
<1>16. CASE TrackEvent
  <2>1. Head(qt).n \in 1..Len(session)
    BY <1>1, <1>16, KnownPop DEF TrackEvent, Receive, QueueType
  <2>2. QED
    BY <1>1, <1>16, <2>1 DEF TrackEvent, OtherTypes, user, peer, stats
<1>17. CASE UNCHANGED vars
  BY <1>1, <1>17 DEF vars, OtherTypes, user, peer, stats
<1>18. QED
  BY <1>2, <1>3, <1>4, <1>5, <1>6, <1>7, <1>8, <1>9, <1>10, <1>11, <1>12, <1>13,
     <1>14, <1>15, <1>16, <1>17
  DEF Next, QtStep, StatsStep

\* The flags stay flags.
LEMMA FlagsStep == TypeOK /\ [Next]_vars => Flags'
<1> SUFFICES ASSUME Flags, [Next]_vars PROVE Flags'
  BY TypeParts
<1>1. CASE ConnectToSignaling
  BY <1>1 DEF ConnectToSignaling, Flags, peer, stats
<1>2. CASE Disconnect
  BY <1>2 DEF Disconnect, StopStatsTimer, FreshPc, Flags
<1>3. CASE SetVideoRenderer
  BY <1>3 DEF SetVideoRenderer, Flags, user, peer, stats
<1>4. CASE OnOffer
  BY <1>4 DEF OnOffer, Flags, peer, stats
<1>5. CASE HandleOffer
  BY <1>5 DEF HandleOffer, FreshPc, Flags, user
<1>6. CASE StartEvent
  BY <1>6 DEF StartEvent, StartStatsTimer, Flags, user, peer
<1>7. CASE StopEvent
  BY <1>7 DEF StopEvent, StopStatsTimer, Flags, user, peer
<1>8. CASE StatsEvent \/ TrackEvent \/ IceEvent
  <2>1. CASE StatsEvent
    BY <2>1 DEF StatsEvent, Flags, user, peer
  <2>2. CASE TrackEvent
    BY <2>2 DEF TrackEvent, Flags, user, peer, stats
  <2>3. CASE IceEvent
    BY <2>3 DEF IceEvent, Flags, user, peer, stats
  <2>4. QED
    BY <1>8, <2>1, <2>2, <2>3
<1>9. CASE StatsTimeout \/ FrameDecoded
  <2>1. CASE StatsTimeout
    BY <2>1 DEF StatsTimeout, Flags, user, stats
  <2>2. CASE FrameDecoded
    BY <2>2 DEF FrameDecoded, Flags, user, stats
  <2>3. QED
    BY <1>9, <2>1, <2>2
<1>10. CASE StatsDelivered \/ StatsStored
  <2>1. CASE StatsDelivered
    BY <2>1 DEF StatsDelivered, Flags, user, stats
  <2>2. CASE StatsStored
    BY <2>2 DEF StatsStored, Flags, user
  <2>3. QED
    BY <1>10, <2>1, <2>2
<1>11. CASE OnTrack \/ OnIceCandidate
  BY <1>11 DEF OnTrack, OnIceCandidate, Flags, user, stats
<1>12. ASSUME NEW st \in {"connected", "disconnected", "failed"}, OnConnectionChange(st)
       PROVE  Flags'
  BY <1>12 DEF OnConnectionChange, Flags, user, stats
<1>13. CASE UNCHANGED vars
  BY <1>13 DEF vars, Flags, user, peer, stats
<1>14. QED
  BY <1>1, <1>2, <1>3, <1>4, <1>5, <1>6, <1>7, <1>8, <1>9, <1>10, <1>11, <1>12, <1>13
  DEF Next, QtStep, StatsStep

\* Only the timer asks for statistics, and only a connection.
LEMMA PollsStep == PollsConnection /\ [Next]_vars => PollsConnection'
<1> SUFFICES ASSUME PollsConnection, [Next]_vars PROVE PollsConnection'
  OBVIOUS
<1>1. CASE UNCHANGED <<polls, pc>>
  BY <1>1 DEF PollsConnection
<1>2. CASE Disconnect \/ HandleOffer
  BY <1>2 DEF Disconnect, HandleOffer, FreshPc, PollsConnection
<1>3. CASE StatsTimeout \/ StatsDelivered
  <2>1. pc' = pc /\ pc # 0
    BY <1>3 DEF StatsTimeout, StatsDelivered, PollsConnection
  <2>2. QED
    BY <2>1 DEF PollsConnection
<1>4. CASE ConnectToSignaling \/ SetVideoRenderer \/ OnOffer \/ UNCHANGED vars
  BY <1>1, <1>4 DEF ConnectToSignaling, SetVideoRenderer, OnOffer, vars, peer
<1>5. CASE StartEvent \/ StopEvent \/ StatsEvent \/ TrackEvent \/ IceEvent
  BY <1>1, <1>5 DEF StartEvent, StopEvent, StatsEvent, TrackEvent, IceEvent, peer
<1>6. CASE StatsStored \/ FrameDecoded \/ OnTrack \/ OnIceCandidate
  BY <1>1, <1>6 DEF StatsStored, FrameDecoded, OnTrack, OnIceCandidate
<1>7. ASSUME NEW st \in {"connected", "disconnected", "failed"}, OnConnectionChange(st)
      PROVE  PollsConnection'
  BY <1>1, <1>7 DEF OnConnectionChange
<1>8. QED
  BY <1>2, <1>3, <1>4, <1>5, <1>6, <1>7 DEF Next, QtStep, StatsStep

\* Close() posts a stop behind every other start and stop.
LEMMA FollowsClose ==
  ASSUME NEW q \in Seq(Events), pc \in Nat, pc # 0, polls \in Nat, ClosePc(q),
         NEW t \in BOOLEAN
  PROVE  Follows(qt', t, FALSE)
<1>1. Event("stop", pc).type = "stop" /\ Event("stats", pc).type = "stats"
  BY DEF Event
<1>2. PICK k \in 1..Len(qt') : /\ qt'[k] = Event("stop", pc)
                               /\ \A j \in 1..Len(qt') : j > k => qt'[j] = Event("stats", pc)
  <2>1. /\ Len(q) \in Nat /\ Len(q) + 1 \in 1..Len(qt')
        /\ qt'[Len(q) + 1] = Event("stop", pc)
        /\ \A i \in 1..Len(qt') :
             i \in 1..Len(q) \/ i = Len(q) + 1
             \/ (i > Len(q) + 1 /\ qt'[i] = Event("stats", pc))
    BY Closing
  <2>2. \A j \in 1..Len(qt') : j > Len(q) + 1 => qt'[j] = Event("stats", pc)
    BY <2>1
  <2>3. QED
    BY <2>1, <2>2
<1>3. QED
  BY <1>1, <1>2 DEF Follows, Switches

\* Every step keeps the timer, or the last event that will set it, in agreement
\* with the connection.
LEMMA TimerStep == TimerInv /\ [Next]_vars => Follows(qt, timer, Connected)'
<1> SUFFICES ASSUME TimerInv, [Next]_vars PROVE Follows(qt', timer', Connected')
  OBVIOUS
<1>1. /\ qt \in Seq(Events) /\ timer \in BOOLEAN /\ pc \in Nat /\ polls \in Nat
      /\ Follows(qt, timer, Connected) /\ Connected \in BOOLEAN
  <2>1. TypeOK /\ Follows(qt, timer, Connected)
    BY DEF TimerInv
  <2>2. qt \in Seq(Events) /\ pc \in Nat /\ polls \in Nat
    BY <2>1, Typed
  <2>3. timer \in BOOLEAN
    BY <2>1, Zenon DEF TypeOK
  <2>4. Connected \in BOOLEAN
    BY DEF Connected
  <2>5. QED
    BY <2>1, <2>2, <2>3, <2>4
<1>2. CASE UNCHANGED <<qt, timer, pc, state>>
  BY <1>1, <1>2 DEF Connected
<1>3. ASSUME NEW e \in Events, e.type \notin Switches, qt' = Append(qt, e),
             UNCHANGED <<timer, pc, state>>
      PROVE  Follows(qt', timer', Connected')
  BY <1>1, <1>3, FollowsPush DEF Connected
<1>4. ASSUME NEW st \in {"connected", "disconnected", "failed"}, OnConnectionChange(st)
      PROVE  Follows(qt', timer', Connected')
  <2> DEFINE e == Event(IF st = "connected" THEN "start" ELSE "stop", pc)
  <2>1. /\ e \in Events /\ e.type \in Switches /\ (e.type = "start" <=> st = "connected")
    BY <1>1 DEF Event, Events, EventTypes, Switches
  <2> HIDE DEF e
  <2>2. qt' = Append(qt, e) /\ UNCHANGED timer /\ (Connected' <=> st = "connected")
    BY <1>4 DEF OnConnectionChange, Observed, Connected, stats, e
  <2>3. Connected' \in BOOLEAN
    BY DEF Connected
  <2>4. QED
    BY <1>1, <2>1, <2>2, <2>3, FollowsPush
<1>5. CASE OnTrack
  <2>1. Event("track", pc) \in Events /\ Event("track", pc).type \notin Switches
    BY <1>1 DEF Event, Events, EventTypes, Switches
  <2>2. QED
    BY <1>3, <1>5, <2>1 DEF OnTrack, stats
<1>6. CASE OnIceCandidate
  <2>1. Event("ice", pc) \in Events /\ Event("ice", pc).type \notin Switches
    BY <1>1 DEF Event, Events, EventTypes, Switches
  <2>2. QED
    BY <1>2, <1>3, <1>6, <2>1 DEF OnIceCandidate, stats
<1>7. CASE StatsDelivered
  <2>1. Event("stats", pc) \in Events /\ Event("stats", pc).type \notin Switches
    BY <1>1 DEF Event, Events, EventTypes, Switches
  <2>2. QED
    BY <1>2, <1>3, <1>7, <2>1 DEF StatsDelivered, stats
<1>8. CASE OnOffer
  <2>1. Event("offer", sig) \in Events /\ Event("offer", sig).type \notin Switches
    BY DEF Event, Events, EventTypes, Switches, TimerInv, TypeOK
  <2>2. QED
    BY <1>3, <1>8, <2>1 DEF OnOffer, peer, stats
<1>9. CASE StatsEvent \/ TrackEvent \/ IceEvent
  <2>1. qt # <<>> /\ Head(qt).type \notin Switches /\ qt' = Tail(qt)
        /\ UNCHANGED <<timer, pc, state>>
    BY <1>9 DEF StatsEvent, TrackEvent, IceEvent, Receive, Switches, peer, stats
  <2>2. QED
    BY <1>1, <2>1, FollowsPop DEF Connected
<1>10. CASE StartEvent
  <2>1. qt # <<>> /\ Head(qt).type = "start" /\ qt' = Tail(qt) /\ timer' = TRUE
        /\ UNCHANGED <<pc, state>>
    BY <1>10 DEF StartEvent, StartStatsTimer, Receive, peer
  <2>2. QED
    BY <1>1, <2>1, FollowsPop DEF Connected
<1>11. CASE StopEvent
  <2>1. qt # <<>> /\ Head(qt).type = "stop" /\ qt' = Tail(qt) /\ timer' = FALSE
        /\ UNCHANGED <<pc, state>>
    BY <1>11 DEF StopEvent, StopStatsTimer, Receive, peer
  <2>2. QED
    BY <1>1, <2>1, FollowsPop DEF Connected
<1>12. CASE Disconnect
  <2>1. ClosePc(qt) /\ timer' = FALSE /\ Connected' = FALSE
    BY <1>12 DEF Disconnect, StopStatsTimer, FreshPc, Connected
  <2>2. CASE pc = 0
    BY <1>1, <2>1, <2>2 DEF ClosePc, Follows, Connected
  <2>3. CASE pc # 0
    BY <1>1, <2>1, <2>3, FollowsClose
  <2>4. QED
    BY <2>2, <2>3
<1>13. CASE HandleOffer
  <2>1. /\ qt # <<>> /\ Head(qt).type \notin Switches /\ ClosePc(Tail(qt))
        /\ timer' = timer /\ Connected' = FALSE
    BY <1>13 DEF HandleOffer, FreshPc, Receive, Switches, Connected
  <2>2. Tail(qt) \in Seq(Events) /\ Follows(Tail(qt), timer, Connected)
    BY <1>1, <2>1, Popped, FollowsPop
  <2>3. CASE pc = 0
    BY <2>1, <2>2, <2>3 DEF ClosePc, Connected
  <2>4. CASE pc # 0
    BY <1>1, <2>1, <2>2, <2>4, FollowsClose
  <2>5. QED
    BY <2>3, <2>4
<1>14. CASE ConnectToSignaling \/ SetVideoRenderer \/ StatsTimeout \/ StatsStored
            \/ FrameDecoded \/ UNCHANGED vars
  BY <1>2, <1>14 DEF ConnectToSignaling, SetVideoRenderer, StatsTimeout, StatsStored,
                     FrameDecoded, vars, peer, stats
<1>15. QED
  BY <1>4, <1>5, <1>6, <1>7, <1>8, <1>9, <1>10, <1>11, <1>12, <1>13, <1>14
  DEF Next, QtStep, StatsStep

\* Every connection, session and event has the type it should have.
THEOREM SessionTypeOK == Spec => []TypeOK
<1>1. Init => TypeOK /\ PollsConnection
  BY TypeInit DEF Init, PollsConnection
<1>2. TypeOK /\ PollsConnection /\ [Next]_vars => (TypeOK /\ PollsConnection)'
  BY QueueStep, OtherStep, FlagsStep, PollsStep, TypePartsNext
<1>3. QED
  BY <1>1, <1>2, PTL DEF Spec

\* The statistics timer follows the connection: with no event waiting, it runs
\* exactly while the current connection is connected (OnConnectionChange, the
\* posted startStatsTimer and stopStatsTimer, disconnect and handleOffer).
THEOREM SessionTimerFollowsConnection == Spec => []TimerFollowsConnection
<1>1. Init => TimerInv
  <2> SUFFICES ASSUME Init PROVE TimerInv
    OBVIOUS
  <2>1. Len(qt) = 0 /\ pc = 0 /\ timer = FALSE /\ polls = 0
    BY DEF Init
  <2>2. Follows(qt, timer, Connected)
    BY <2>1 DEF Follows, Connected
  <2>3. QED
    BY <2>1, <2>2, TypeInit DEF TimerInv, PollsConnection
<1>2. TimerInv /\ [Next]_vars => TimerInv'
  BY QueueStep, OtherStep, FlagsStep, PollsStep, TypePartsNext, TimerStep DEF TimerInv
<1>3. TimerInv => TimerFollowsConnection
  <2> SUFFICES ASSUME TimerInv, qt = <<>> PROVE timer <=> Connected
    BY DEF TimerFollowsConnection, Connected
  <2>1. Len(qt) = 0
    OBVIOUS
  <2>2. QED
    BY <2>1 DEF TimerInv, Follows
<1>4. QED
  BY <1>1, <1>2, <1>3, PTL DEF Spec

-----------------------------------------------------------------------------
(* The counter.                                                            *)

\* Handling the first event.
LEMMA OrderedPop ==
  ASSUME NEW q \in Seq(Events), q # <<>>, NEW p \in Nat, Ordered(q, p)
  PROVE  /\ Ordered(Tail(q), p)
         /\ SomeForeign(q, p) <=> Foreign(Head(q), p) \/ SomeForeign(Tail(q), p)
         /\ ForeignStop(q, p) /\ Head(q).type # "stop" => ForeignStop(Tail(q), p)
         /\ Head(q).type = "start" /\ Head(q).n # p => ForeignStop(Tail(q), p)
         /\ Head(q).type = "start" /\ Head(q).n = p => ~SomeForeign(Tail(q), p)
<1> DEFINE r == Tail(q)
<1>1. /\ Len(q) \in Nat /\ Len(q) > 0 /\ Len(r) = Len(q) - 1 /\ Head(q) = q[1]
      /\ \A i \in 1..Len(r) : r[i] = q[i + 1] /\ i + 1 \in 1..Len(q)
      /\ \A i \in 2..Len(q) : q[i] = r[i - 1] /\ i - 1 \in 1..Len(r)
  BY Popped
<1> HIDE DEF r
<1>2. Ordered(r, p)
  <2>1. \A i, j \in 1..Len(r) :
          i < j /\ r[i].type # "offer" /\ r[i].n = p => ~Foreign(r[j], p)
    <3> SUFFICES ASSUME NEW i \in 1..Len(r), NEW j \in 1..Len(r), i < j,
                        r[i].type # "offer", r[i].n = p
                 PROVE  ~Foreign(r[j], p)
      OBVIOUS
    <3>1. /\ i + 1 < j + 1 /\ i + 1 \in 1..Len(q) /\ j + 1 \in 1..Len(q)
          /\ r[i] = q[i + 1] /\ r[j] = q[j + 1]
      BY <1>1
    <3>2. QED
      BY <3>1 DEF Ordered
  <2>2. ASSUME NEW i \in 1..Len(r), r[i].type = "start", r[i].n # p
        PROVE  \E j \in 1..Len(r) : j > i /\ r[j].type = "stop" /\ r[j].n # p
    <3>1. PICK j \in 1..Len(q) : j > i + 1 /\ q[j].type = "stop" /\ q[j].n # p
      BY <1>1, <2>2 DEF Ordered
    <3>2. j - 1 \in 1..Len(r) /\ j - 1 > i /\ r[j - 1] = q[j]
      BY <1>1, <3>1
    <3>3. QED
      BY <3>1, <3>2
  <2>3. QED
    BY <2>1, <2>2 DEF Ordered
<1>3. SomeForeign(q, p) <=> Foreign(Head(q), p) \/ SomeForeign(r, p)
  BY <1>1 DEF SomeForeign
<1>4. ForeignStop(q, p) /\ Head(q).type # "stop" => ForeignStop(r, p)
  BY <1>1 DEF ForeignStop
<1>5. Head(q).type = "start" /\ Head(q).n # p => ForeignStop(r, p)
  <2> SUFFICES ASSUME q[1].type = "start", q[1].n # p PROVE ForeignStop(r, p)
    BY <1>1
  <2>1. PICK j \in 1..Len(q) : j > 1 /\ q[j].type = "stop" /\ q[j].n # p
    BY <1>1 DEF Ordered
  <2>2. QED
    BY <1>1, <2>1 DEF ForeignStop
<1>6. Head(q).type = "start" /\ Head(q).n = p => ~SomeForeign(r, p)
  <2> SUFFICES ASSUME q[1].type = "start", q[1].n = p, NEW i \in 1..Len(r)
               PROVE  ~Foreign(r[i], p)
    BY <1>1 DEF SomeForeign
  <2>1. 1 \in 1..Len(q) /\ i + 1 \in 1..Len(q) /\ 1 < i + 1 /\ r[i] = q[i + 1]
    BY <1>1
  <2>2. QED
    BY <2>1 DEF Ordered
<1>7. QED
  BY <1>2, <1>3, <1>4, <1>5, <1>6 DEF r

\* The current connection p posts an event, or an offer is posted.
LEMMA OrderedPush ==
  ASSUME NEW q \in Seq(Events), NEW e \in Events, NEW p \in Nat, ~Foreign(e, p),
         Ordered(q, p)
  PROVE  /\ Ordered(Append(q, e), p)
         /\ SomeForeign(Append(q, e), p) <=> SomeForeign(q, p)
         /\ ForeignStop(q, p) => ForeignStop(Append(q, e), p)
<1> DEFINE r == Append(q, e)
<1>1. /\ Len(q) \in Nat /\ Len(r) = Len(q) + 1 /\ r[Len(q) + 1] = e
      /\ \A i \in 1..Len(q) : r[i] = q[i]
  BY Pushed
<1> HIDE DEF r
<1>2. \A i \in 1..Len(r) : i \in 1..Len(q) \/ r[i] = e
  BY <1>1
<1>3. \A i, j \in 1..Len(r) :
        i < j /\ r[i].type # "offer" /\ r[i].n = p => ~Foreign(r[j], p)
  <2> TAKE i, j \in 1..Len(r)
  <2>1. CASE j \in 1..Len(q)
    <3>1. i < j => i \in 1..Len(q)
      BY <2>1
    <3>2. QED
      BY <1>1, <2>1, <3>1 DEF Ordered
  <2>2. CASE j \notin 1..Len(q)
    BY <1>2, <2>2
  <2>3. QED
    BY <2>1, <2>2
<1>4. ASSUME NEW i \in 1..Len(r), r[i].type = "start", r[i].n # p
      PROVE  \E j \in 1..Len(r) : j > i /\ r[j].type = "stop" /\ r[j].n # p
  <2>1. i \in 1..Len(q)
    BY <1>2, <1>4 DEF Foreign
  <2>2. PICK j \in 1..Len(q) : j > i /\ q[j].type = "stop" /\ q[j].n # p
    BY <1>1, <1>4, <2>1 DEF Ordered
  <2>3. QED
    BY <1>1, <2>2
<1>5. SomeForeign(r, p) <=> SomeForeign(q, p)
  BY <1>1, <1>2 DEF SomeForeign
<1>6. ForeignStop(q, p) => ForeignStop(r, p)
  BY <1>1 DEF ForeignStop
<1>7. QED
  BY <1>3, <1>4, <1>5, <1>6 DEF Ordered, r

\* Seen from two connections that have posted nothing, a queue is the same.
LEMMA OrderedRename ==
  ASSUME NEW q \in Seq(Events), NEW ss, NEW cc \in Nat, Known(q, ss, cc),
         NEW p \in Nat, p \notin 1..cc, NEW r \in Nat, r \notin 1..cc
  PROVE  /\ Ordered(q, p) => Ordered(q, r)
         /\ SomeForeign(q, p) <=> SomeForeign(q, r)
         /\ ForeignStop(q, p) <=> ForeignStop(q, r)
<1>1. \A i \in 1..Len(q) : q[i].type # "offer" => q[i].n # p /\ q[i].n # r
  BY DEF Known
<1>2. QED
  BY <1>1 DEF Ordered, SomeForeign, ForeignStop, Foreign

\* The stop that Close() posts is behind every start there is.
LEMMA OrderedClose ==
  ASSUME NEW q \in Seq(Events), NEW ss \in Nat, NEW cc \in Nat, Known(q, ss, cc),
         pc \in 1..cc, NEW r \in Nat, r \notin 1..cc, polls \in Nat, ClosePc(q)
  PROVE  Ordered(qt', r) /\ ForeignStop(qt', r)
<1> DEFINE stop == Event("stop", pc)
           stat == Event("stats", pc)
<1>1. /\ stop \in Events /\ stop.type = "stop" /\ stop.n = pc
      /\ stat \in Events /\ stat.type = "stats" /\ stat.n = pc
  BY DEF Event, Events, EventTypes
<1> HIDE DEF stop, stat
<1>2. PICK k \in Nat : /\ k \in 1..Len(qt') /\ Len(qt') \in Nat /\ k > Len(q)
                      /\ qt'[k] = stop /\ Len(q) \in Nat
                      /\ \A i \in 1..Len(qt') : \/ i \in 1..Len(q) /\ qt'[i] = q[i]
                                                \/ qt'[i] \in {stop, stat}
  <2>1. pc \in Nat /\ pc # 0
    OBVIOUS
  <2>2. /\ Len(q) \in Nat /\ Len(qt') \in Nat /\ Len(q) + 1 \in 1..Len(qt')
        /\ qt'[Len(q) + 1] = stop /\ \A i \in 1..Len(q) : qt'[i] = q[i]
        /\ \A i \in 1..Len(qt') : i \in 1..Len(q) \/ i = Len(q) + 1 \/ qt'[i] = stat
    BY <2>1, Closing DEF stop, stat
  <2>3. Len(q) + 1 \in Nat /\ Len(q) + 1 > Len(q)
    BY <2>2
  <2>4. QED
    BY <2>2, <2>3
<1>3. pc # r
  OBVIOUS
<1>4. \A i \in 1..Len(qt') : qt'[i].type # "offer" => qt'[i].n # r
  BY <1>1, <1>2, <1>3 DEF Known
<1>5. \A i \in 1..Len(qt') : qt'[i].type = "start" => k > i
  <2> SUFFICES ASSUME NEW i \in 1..Len(qt'), qt'[i].type = "start" PROVE k > i
    OBVIOUS
  <2>1. i \in 1..Len(q)
    BY <1>1, <1>2
  <2>2. QED
    BY <1>2, <2>1
<1>6. QED
  BY <1>1, <1>2, <1>3, <1>4, <1>5 DEF Ordered, ForeignStop

\* A stop of another connection is an event of another connection.
LEMMA StopIsForeign == ASSUME NEW q, NEW p, ForeignStop(q, p) PROVE SomeForeign(q, p)
  BY DEF ForeignStop, SomeForeign, Foreign

\* An event of the current connection, or an offer, is posted.
LEMMA CounterPost ==
  ASSUME TypeOK, QueueInv, NEW e \in Events, ~Foreign(e, pc), qt' = Append(qt, e),
         UNCHANGED <<pc, timer, prev, decoded>>
  PROVE  QueueInv'
<1>1. qt \in Seq(Events) /\ pc \in Nat /\ Ordered(qt, pc)
  BY Typed DEF QueueInv
<1>2. /\ Ordered(qt', pc)
      /\ SomeForeign(qt', pc) <=> SomeForeign(qt, pc)
      /\ ForeignStop(qt, pc) => ForeignStop(qt', pc)
  BY <1>1, OrderedPush
<1>3. QED
  BY <1>2 DEF QueueInv, StoppedBehind, CounterOfConnection

\* An event that is neither a start nor a stop is handled.
LEMMA CounterReceive ==
  ASSUME TypeOK, QueueInv, qt # <<>>, Head(qt).type \notin Switches, qt' = Tail(qt),
         UNCHANGED <<pc, timer, prev, decoded>>
  PROVE  QueueInv'
<1>1. qt \in Seq(Events) /\ pc \in Nat /\ Ordered(qt, pc)
  BY Typed DEF QueueInv
<1>2. /\ Ordered(qt', pc)
      /\ SomeForeign(qt', pc) => SomeForeign(qt, pc)
      /\ ForeignStop(qt, pc) => ForeignStop(qt', pc)
  BY <1>1, OrderedPop DEF Switches
<1>3. ForeignStop(qt', pc) => SomeForeign(qt', pc)
  BY StopIsForeign
<1>4. QED
  BY <1>2, <1>3 DEF QueueInv, StoppedBehind, CounterOfConnection

\* Every step keeps the counters of earlier connections behind a stop.
LEMMA CounterStep ==
  TypeOK /\ PollsConnection /\ QueueInv /\ RequestOfConnection /\ [Next]_vars => QueueInv'
<1> SUFFICES ASSUME TypeOK, PollsConnection, QueueInv, RequestOfConnection, [Next]_vars
             PROVE  QueueInv'
  OBVIOUS
<1>1. /\ qt \in Seq(Events) /\ pc \in 0..Len(session) /\ Ordered(qt, pc)
      /\ Known(qt, sessions, Len(session)) /\ Len(session) \in Nat /\ sessions \in Nat
      /\ prev \in Nat /\ decoded \in Nat /\ storing \in Int /\ polls \in Nat
      /\ storing # NotStoring => storing \in 0..CounterRange - 1
      /\ CounterRange \in Nat
  BY Typed, Counters DEF QueueInv
<1>2. CASE UNCHANGED <<qt, pc, timer, prev, decoded>>
  BY <1>2 DEF QueueInv, StoppedBehind, CounterOfConnection
<1>3. ASSUME pc # 0, NEW type \in EventTypes, qt' = Append(qt, Event(type, pc)),
             UNCHANGED <<pc, timer, prev, decoded>>
      PROVE  QueueInv'
  <2>1. Event(type, pc) \in Events /\ ~Foreign(Event(type, pc), pc)
    BY <1>1, <1>3 DEF Event, Events, Foreign
  <2>2. QED
    BY <1>3, <2>1, CounterPost
<1>4. ASSUME NEW st \in {"connected", "disconnected", "failed"}, OnConnectionChange(st)
      PROVE  QueueInv'
  <2>1. (IF st = "connected" THEN "start" ELSE "stop") \in EventTypes
    BY DEF EventTypes
  <2>2. QED
    BY <1>3, <1>4, <2>1 DEF OnConnectionChange, Observed, stats
<1>5. CASE OnTrack
  BY <1>3, <1>5 DEF OnTrack, Observed, stats, EventTypes
<1>6. CASE OnIceCandidate
  BY <1>2, <1>3, <1>6 DEF OnIceCandidate, Observed, stats, EventTypes
<1>7. CASE StatsDelivered
  BY <1>2, <1>3, <1>7 DEF StatsDelivered, PollsConnection, EventTypes, stats
<1>8. CASE OnOffer
  <2>1. Event("offer", sig) \in Events /\ ~Foreign(Event("offer", sig), pc)
    <3>1. sig \in Nat
      BY <1>1 DEF TypeOK
    <3>2. QED
      BY <3>1 DEF Event, Events, EventTypes, Foreign
  <2>2. QED
    BY <1>8, <2>1, CounterPost DEF OnOffer, peer, stats
<1>9. CASE StatsEvent \/ TrackEvent \/ IceEvent
  BY <1>9, CounterReceive
  DEF StatsEvent, TrackEvent, IceEvent, Receive, Switches, peer, stats
<1>10. CASE StartEvent
  <2>1. /\ qt # <<>> /\ Head(qt).type = "start" /\ qt' = Tail(qt) /\ timer' = TRUE
        /\ prev' = (IF timer THEN prev ELSE 0) /\ UNCHANGED <<pc, decoded>>
    BY <1>10 DEF StartEvent, StartStatsTimer, Receive, peer
  <2>2. /\ Ordered(qt', pc)
        /\ SomeForeign(qt, pc) <=> Foreign(Head(qt), pc) \/ SomeForeign(qt', pc)
        /\ Head(qt).n # pc => ForeignStop(qt', pc)
        /\ Head(qt).n = pc => ~SomeForeign(qt', pc)
    <3>1. pc \in Nat
      BY <1>1
    <3>2. /\ Ordered(Tail(qt), pc)
          /\ SomeForeign(qt, pc) <=> Foreign(Head(qt), pc) \/ SomeForeign(Tail(qt), pc)
          /\ Head(qt).n # pc => ForeignStop(Tail(qt), pc)
          /\ Head(qt).n = pc => ~SomeForeign(Tail(qt), pc)
      BY <1>1, <2>1, <3>1, OrderedPop, Zenon
    <3>3. QED
      BY <2>1, <3>2, Zenon
  <2>3. CASE Head(qt).n # pc
    <3>1. SomeForeign(qt', pc)
      BY <2>2, <2>3, StopIsForeign
    <3>2. QED
      BY <2>1, <2>2, <2>3, <3>1 DEF QueueInv, StoppedBehind, CounterOfConnection
  <2>4. CASE Head(qt).n = pc
    <3>1. ~SomeForeign(qt, pc) /\ ~SomeForeign(qt', pc)
      BY <2>2, <2>4 DEF Foreign
    <3>2. pc # 0
      BY <1>1, <2>1, <2>4, KnownPop
    <3>3. prev' <= decoded
      BY <1>1, <2>1, <3>1 DEF QueueInv, CounterOfConnection
    <3>4. QED
      BY <2>1, <2>2, <3>1, <3>2, <3>3 DEF QueueInv, StoppedBehind, CounterOfConnection
  <2>5. QED
    BY <2>3, <2>4
<1>11. CASE StopEvent
  <2>1. qt # <<>> /\ qt' = Tail(qt) /\ timer' = FALSE /\ UNCHANGED pc
    BY <1>11 DEF StopEvent, StopStatsTimer, Receive, peer
  <2>2. Ordered(qt', pc')
    BY <1>1, <2>1, OrderedPop
  <2>3. QED
    BY <2>1, <2>2 DEF QueueInv, StoppedBehind, CounterOfConnection
<1>12. CASE Disconnect
  <2>1. ClosePc(qt) /\ timer' = FALSE /\ pc' = 0
    BY <1>12 DEF Disconnect, StopStatsTimer, FreshPc
  <2>2. Ordered(qt', 0)
    <3>1. CASE pc = 0
      BY <1>1, <2>1, <3>1 DEF ClosePc
    <3>2. CASE pc # 0
      <4>1. pc \in 1..Len(session) /\ 0 \in Nat /\ 0 \notin 1..Len(session)
        BY <1>1, <3>2
      <4>2. QED
        BY <1>1, <2>1, <4>1, OrderedClose
    <3>3. QED
      BY <3>1, <3>2
  <2>3. QED
    BY <2>1, <2>2 DEF QueueInv, StoppedBehind, CounterOfConnection
<1>13. CASE HandleOffer
  <2>1. /\ qt # <<>> /\ Head(qt).type = "offer" /\ ClosePc(Tail(qt)) /\ timer' = timer
        /\ pc' \in Nat /\ pc' \notin 1..Len(session)
    <3>1. qt # <<>> /\ Head(qt).type = "offer" /\ ClosePc(Tail(qt)) /\ timer' = timer
      BY <1>13 DEF HandleOffer, Receive
    <3>2. pc' \in {0, Len(session) + 1}
      BY <1>13 DEF HandleOffer, FreshPc
    <3>3. QED
      BY <1>1, <3>1, <3>2
  <2>2. /\ Tail(qt) \in Seq(Events) /\ Known(Tail(qt), sessions, Len(session))
        /\ Ordered(Tail(qt), pc)
        /\ SomeForeign(qt, pc) <=> SomeForeign(Tail(qt), pc)
        /\ ForeignStop(qt, pc) => ForeignStop(Tail(qt), pc)
    <3>1. Tail(qt) \in Seq(Events) /\ Known(Tail(qt), sessions, Len(session))
      BY <1>1, <2>1, Popped, KnownPop
    <3>2. pc \in Nat /\ ~Foreign(Head(qt), pc)
      BY <1>1, <2>1 DEF Foreign
    <3>3. QED
      BY <1>1, <2>1, <3>1, <3>2, OrderedPop
  <2>3. CASE pc = 0
    <3>1. pc \in Nat /\ pc \notin 1..Len(session)
      BY <1>1, <2>3
    <3>2. qt' = Tail(qt)
      BY <2>1, <2>3 DEF ClosePc
    <3>3. /\ Ordered(qt', pc')
          /\ SomeForeign(qt', pc') <=> SomeForeign(qt, pc)
          /\ ForeignStop(qt, pc) => ForeignStop(qt', pc')
      BY <1>1, <2>1, <2>2, <3>1, <3>2, OrderedRename
    <3>4. QED
      BY <2>1, <2>3, <3>3 DEF QueueInv, StoppedBehind, CounterOfConnection
  <2>4. CASE pc # 0
    <3> pc \in 1..Len(session)
      BY <1>1, <2>4
    <3>1. Ordered(qt', pc') /\ ForeignStop(qt', pc')
      BY <1>1, <2>1, <2>2, OrderedClose
    <3>2. SomeForeign(qt', pc')
      BY <3>1, StopIsForeign
    <3>3. QED
      BY <3>1, <3>2 DEF QueueInv, StoppedBehind, CounterOfConnection
  <2>5. QED
    BY <2>3, <2>4
<1>14. CASE StatsStored
  <2>1. prev' = storing /\ UNCHANGED <<qt, pc, timer, decoded>>
    BY <1>1, <1>14, ModSmall DEF StatsStored
  <2>2. QED
    BY <2>1 DEF QueueInv, StoppedBehind, CounterOfConnection, RequestOfConnection
<1>15. CASE FrameDecoded
  BY <1>1, <1>15 DEF FrameDecoded, stats, QueueInv, StoppedBehind, CounterOfConnection
<1>16. CASE ConnectToSignaling \/ SetVideoRenderer \/ StatsTimeout \/ UNCHANGED vars
  BY <1>2, <1>16 DEF ConnectToSignaling, SetVideoRenderer, StatsTimeout, vars, peer, stats
<1>17. QED
  BY <1>4, <1>5, <1>6, <1>7, <1>8, <1>9, <1>10, <1>11, <1>12, <1>13, <1>14, <1>15, <1>16
  DEF Next, QtStep, StatsStep

\* A counter of the connection itself is subtracted without a wrap.
LEMMA DeltaSmall ==
  ASSUME TypeOK, prev <= decoded PROVE Delta <= decoded
<1>1. /\ decoded \in Nat /\ prev \in Nat /\ CounterRange \in Nat
      /\ decoded \in 0..CounterRange - 1
  BY Typed, Counters
<1>2. decoded - prev \in 0..CounterRange - 1
  BY <1>1
<1>3. Delta = decoded - prev
  BY <1>1, <1>2, ModSmall DEF Delta
<1>4. QED
  BY <1>1, <1>3

\* Every step keeps the callback that of the current connection.
LEMMA RequestStep ==
  TypeOK /\ RequestOfConnection /\ [Next]_vars => RequestOfConnection'
<1> SUFFICES ASSUME TypeOK, RequestOfConnection, [Next]_vars PROVE RequestOfConnection'
  OBVIOUS
<1>1. decoded \in Nat /\ storing \in Int
  BY Counters
<1>2. CASE UNCHANGED <<storing, decoded>>
  BY <1>2 DEF RequestOfConnection
<1>3. CASE Disconnect \/ HandleOffer
  <2>1. storing' = -1 /\ decoded' = 0
    BY <1>3 DEF Disconnect, HandleOffer, FreshPc, NotStoring
  <2>2. QED
    BY <2>1 DEF RequestOfConnection
<1>4. CASE StatsDelivered
  <2>1. decoded' = decoded /\ (storing' = decoded \/ storing' = storing)
    BY <1>4 DEF StatsDelivered
  <2>2. QED
    BY <1>1, <2>1 DEF RequestOfConnection
<1>5. CASE StatsStored
  <2>1. decoded' = decoded /\ storing' = -1
    BY <1>5 DEF StatsStored, NotStoring
  <2>2. QED
    BY <1>1, <2>1 DEF RequestOfConnection
<1>6. CASE FrameDecoded
  <2>1. decoded' = decoded + 1 /\ storing' = storing
    BY <1>6 DEF FrameDecoded
  <2>2. QED
    BY <1>1, <2>1 DEF RequestOfConnection
<1>7. CASE StartEvent \/ StopEvent \/ StatsEvent \/ TrackEvent \/ IceEvent
  BY <1>2, <1>7 DEF StartEvent, StopEvent, StatsEvent, TrackEvent, IceEvent, peer
<1>8. CASE ConnectToSignaling \/ SetVideoRenderer \/ OnOffer \/ UNCHANGED vars
  BY <1>2, <1>8 DEF ConnectToSignaling, SetVideoRenderer, OnOffer, vars, peer
<1>9. CASE OnTrack \/ OnIceCandidate \/ StatsTimeout
  BY <1>2, <1>9 DEF OnTrack, OnIceCandidate, StatsTimeout
<1>10. ASSUME NEW st \in {"connected", "disconnected", "failed"}, OnConnectionChange(st)
       PROVE  RequestOfConnection'
  BY <1>2, <1>10 DEF OnConnectionChange
<1>11. QED
  BY <1>3, <1>4, <1>5, <1>6, <1>7, <1>8, <1>9, <1>10 DEF Next, QtStep, StatsStep

\* The inductive invariant of the counter.
CounterInv == TypeOK /\ PollsConnection /\ QueueInv /\ RequestOfConnection

\* It holds of a new receiver.
LEMMA CounterInit == Init => CounterInv
<1> SUFFICES ASSUME Init PROVE CounterInv
  OBVIOUS
<1>1. Len(qt) = 0 /\ timer = FALSE /\ polls = 0 /\ storing = -1 /\ decoded = 0
  BY DEF Init, NotStoring
<1>2. QueueInv
  <2>1. \A i \in 1..Len(qt) : FALSE
    BY <1>1
  <2>2. Ordered(qt, pc)
    BY <2>1 DEF Ordered
  <2>3. StoppedBehind /\ CounterOfConnection
    BY <1>1 DEF StoppedBehind, CounterOfConnection
  <2>4. QED
    BY <2>2, <2>3 DEF QueueInv
<1>3. PollsConnection /\ RequestOfConnection
  BY <1>1 DEF PollsConnection, RequestOfConnection
<1>4. QED
  BY <1>2, <1>3, TypeInit DEF CounterInv

\* Every step keeps it.
LEMMA CounterInvStep == CounterInv /\ [Next]_vars => CounterInv'
  BY QueueStep, OtherStep, FlagsStep, PollsStep, TypePartsNext, CounterStep, RequestStep
  DEF CounterInv

\* Once the statistics timer has been started for the current connection, GetStats
\* subtracts a counter of that connection and the increment does not wrap, however
\* often the connection was replaced: as long as the timer is an earlier one's, the
\* stop that Close() posted waits, and the start behind it sets the counter to 0.
THEOREM SessionDeltaOfConnection == Spec => []DeltaOfConnection
<1>1. CounterInv => DeltaOfConnection
  <2> SUFFICES ASSUME CounterInv, timer, ~EarlierWaits PROVE Delta <= decoded
    BY DEF DeltaOfConnection
  <2>1. DOMAIN qt = 1..Len(qt)
    BY Typed, LenProperties DEF CounterInv
  <2>2. ~SomeForeign(qt, pc)
    BY <2>1, Zenon DEF EarlierWaits, SomeForeign, Foreign
  <2>3. prev <= decoded
    BY <2>2 DEF CounterInv, QueueInv, CounterOfConnection
  <2>4. QED
    BY <2>3, DeltaSmall DEF CounterInv
<1>2. QED
  BY <1>1, CounterInit, CounterInvStep, PTL DEF Spec

-----------------------------------------------------------------------------
(* The track, the figures and the sessions.                                *)

\* The track of connection p is about to be bound.
TrackWaits(q, p) == \E i \in 1..Len(q) : q[i].type = "track" /\ q[i].n = p

\* A renderer that is, or may yet be, bound to an earlier connection's track is
\* about to be bound to the current one's.
TrackInv ==
  /\ ~renderer => track = 0
  /\ tracked /\ (track \notin {0, pc} \/ SomeForeign(qt, pc)) => TrackWaits(qt, pc)

\* Unless the timer was stopped ahead of statistics, it runs while there are any,
\* and figures of an earlier connection are about to be reset.
FiguresInv ==
  ~overtaken => /\ StatsInFlight \/ figures # 0 => timer
                /\ figures \notin {0, pc} => ForeignStop(qt, pc)

\* After a disconnect that nothing was in flight at, only the stop of Close() waits.
IdleInv ==
  ~active /\ ~hurried => /\ pc = 0 /\ track = 0 /\ ~timer /\ figures = 0
                         /\ sig = 0 /\ polls = 0
                         /\ \A i \in 1..Len(qt) : qt[i].type = "stop"

\* As long as the user waits, everything belongs to the session, if there is one.
SessionInv ==
  ~hurried => /\ ~astray
              /\ sig # 0 /\ pc # 0 => session[pc] = sig
              /\ \A i \in 1..Len(qt) :
                   /\ sig # 0 /\ qt[i].type = "offer" => qt[i].n = sig
                   /\ sig # 0 /\ qt[i].type = "ice" => session[qt[i].n] = sig

\* Statistics wait in the queue.
StatsWait(q) == \E i \in 1..Len(q) : q[i].type = "stats"

\* The places of a queue before and after its first event is handled.
LEMMA PoppedPlaces ==
  ASSUME NEW q \in Seq(Events), q # <<>>
  PROVE  /\ Tail(q) \in Seq(Events) /\ Head(q) = q[1] /\ 1 \in 1..Len(q)
         /\ Head(q).n \in Nat
         /\ \A i \in 1..Len(Tail(q)) : Tail(q)[i] = q[i + 1] /\ i + 1 \in 1..Len(q)
         /\ \A i \in 1..Len(q) : i = 1 \/ (i - 1 \in 1..Len(Tail(q)) /\ q[i] = Tail(q)[i - 1])
<1>1. /\ Tail(q) \in Seq(Events) /\ Len(q) \in Nat /\ Len(q) > 0
      /\ Len(Tail(q)) = Len(q) - 1 /\ Head(q) = q[1] /\ q[1] \in Events
      /\ \A i \in 1..Len(Tail(q)) : Tail(q)[i] = q[i + 1]
  BY Popped
<1>2. q[1].n \in Nat
  BY <1>1 DEF Events
<1>3. /\ 1 \in 1..Len(q) /\ \A i \in 1..Len(Tail(q)) : i + 1 \in 1..Len(q)
      /\ \A i \in 1..Len(q) : i = 1 \/ (i - 1 \in 1..Len(Tail(q)) /\ i = (i - 1) + 1)
  BY <1>1
<1>4. QED
  BY <1>1, <1>2, <1>3

\* An offer that is posted.
LEMMA OfferPosted ==
  ASSUME TypeOK
  PROVE  /\ Event("offer", sig) \in Events /\ Event("offer", sig).type = "offer"
         /\ Event("offer", sig).n = sig /\ ~Foreign(Event("offer", sig), pc)
<1>1. sig \in 0..sessions /\ sessions \in 0..MaxSessions
  BY Zenon DEF TypeOK
<1>2. MaxSessions \in Nat
  BY SessionAssumption
<1>3. sig \in Nat
  BY <1>1, <1>2
<1>4. Event("offer", sig).type = "offer" /\ Event("offer", sig).n = sig
  BY DEF Event
<1>5. Event("offer", sig) \in Events
  BY <1>3 DEF Event, Events, EventTypes
<1>6. QED
  BY <1>4, <1>5 DEF Foreign

\* What handling the first event leaves of the tracks and the statistics.
LEMMA ReportsPop ==
  ASSUME NEW q \in Seq(Events), q # <<>>, NEW p \in Nat
  PROVE  /\ TrackWaits(q, p) => TrackWaits(Tail(q), p) \/ (Head(q).type = "track" /\ Head(q).n = p)
         /\ StatsWait(q) <=> Head(q).type = "stats" \/ StatsWait(Tail(q))
         /\ Ordered(q, p) /\ Head(q).type # "offer" /\ Head(q).n = p => ~SomeForeign(Tail(q), p)
<1> DEFINE r == Tail(q)
<1>1. /\ Head(q) = q[1] /\ 1 \in 1..Len(q) /\ Len(q) \in Nat
      /\ \A i \in 1..Len(r) : r[i] = q[i + 1] /\ i + 1 \in 1..Len(q)
      /\ \A i \in 1..Len(q) : i = 1 \/ (i - 1 \in 1..Len(r) /\ q[i] = r[i - 1])
  BY PoppedPlaces, Popped
<1> HIDE DEF r
<1>2. \A i \in 1..Len(r) : 1 < i + 1
  BY <1>1
<1>3. TrackWaits(q, p) => TrackWaits(r, p) \/ (Head(q).type = "track" /\ Head(q).n = p)
  BY <1>1 DEF TrackWaits
<1>4. StatsWait(q) => Head(q).type = "stats" \/ StatsWait(r)
  BY <1>1 DEF StatsWait
<1>5. Head(q).type = "stats" \/ StatsWait(r) => StatsWait(q)
  BY <1>1 DEF StatsWait
<1>6. Ordered(q, p) /\ Head(q).type # "offer" /\ Head(q).n = p => ~SomeForeign(r, p)
  BY <1>1, <1>2 DEF Ordered, SomeForeign
<1>7. QED
  BY <1>3, <1>4, <1>5, <1>6 DEF r

\* What posting an event adds to them.
LEMMA ReportsPush ==
  ASSUME NEW q \in Seq(Events), NEW e \in Events, NEW p
  PROVE  /\ TrackWaits(q, p) => TrackWaits(Append(q, e), p)
         /\ e.type = "track" /\ e.n = p => TrackWaits(Append(q, e), p)
         /\ StatsWait(Append(q, e)) <=> StatsWait(q) \/ e.type = "stats"
<1> DEFINE r == Append(q, e)
<1>1. /\ Len(q) \in Nat /\ Len(r) = Len(q) + 1 /\ r[Len(q) + 1] = e
      /\ \A i \in 1..Len(q) : r[i] = q[i]
  BY Pushed
<1> HIDE DEF r
<1>2. /\ \A i \in 1..Len(r) : i \in 1..Len(q) \/ r[i] = e
      /\ Len(q) + 1 \in 1..Len(r) /\ \A i \in 1..Len(q) : i \in 1..Len(r)
  BY <1>1
<1>3. QED
  BY <1>1, <1>2 DEF TrackWaits, StatsWait, r

\* Statistics in flight are a request or an event.
LEMMA InFlight == ASSUME TypeOK PROVE StatsInFlight <=> polls > 0 \/ StatsWait(qt)
<1>1. DOMAIN qt = 1..Len(qt)
  BY Typed, LenProperties
<1>2. QED
  BY <1>1 DEF StatsInFlight, StatsWait

\* The requests in flight after a step are counted.
LEMMA TypedPollsNext == ASSUME TypeOK' PROVE polls' \in Nat
  BY TypePartsNext, SessionAssumption DEF OtherTypes

\* The same after a step.
LEMMA InFlightNext == ASSUME TypeOK' PROVE StatsInFlight' <=> polls' > 0 \/ StatsWait(qt')
<1>1. qt' \in Seq(Events)
  BY TypePartsNext DEF QueueType
<1>2. DOMAIN qt' = 1..Len(qt')
  BY <1>1, LenProperties
<1>3. QED
  BY <1>2 DEF StatsInFlight, StatsWait

\* Every step keeps the renderer from staying with an earlier connection's track.
LEMMA TrackStep ==
  TypeOK /\ PollsConnection /\ QueueInv /\ TrackInv /\ [Next]_vars => TrackInv'
<1> SUFFICES ASSUME TypeOK, PollsConnection, QueueInv, TrackInv, [Next]_vars PROVE TrackInv'
  OBVIOUS
<1>1. qt \in Seq(Events) /\ pc \in Nat /\ Ordered(qt, pc)
  BY Typed DEF QueueInv
<1>2. CASE UNCHANGED <<renderer, track, tracked, pc, qt>>
  BY <1>2 DEF TrackInv
<1>3. ASSUME NEW e \in Events, ~Foreign(e, pc), qt' = Append(qt, e),
             UNCHANGED <<renderer, track, pc>>,
             tracked' = tracked \/ (e.type = "track" /\ e.n = pc)
      PROVE  TrackInv'
  <2>1. SomeForeign(qt', pc) <=> SomeForeign(qt, pc)
    BY <1>1, <1>3, OrderedPush
  <2>2. /\ TrackWaits(qt, pc) => TrackWaits(qt', pc)
        /\ e.type = "track" /\ e.n = pc => TrackWaits(qt', pc)
    BY <1>1, <1>3, ReportsPush
  <2>3. QED
    BY <1>3, <2>1, <2>2 DEF TrackInv
<1>4. ASSUME pc # 0, NEW type \in EventTypes, qt' = Append(qt, Event(type, pc)),
             UNCHANGED <<renderer, track, pc>>, tracked' = tracked \/ type = "track"
      PROVE  TrackInv'
  <2>1. /\ Event(type, pc) \in Events /\ ~Foreign(Event(type, pc), pc)
        /\ Event(type, pc).type = type /\ Event(type, pc).n = pc
    BY <1>1 DEF Event, Events, Foreign
  <2>2. QED
    BY <1>3, <1>4, <2>1
<1>5. ASSUME qt # <<>>, qt' = Tail(qt), UNCHANGED <<renderer, tracked, pc>>,
             Head(qt).type # "track", track' = track
      PROVE  TrackInv'
  <2>1. SomeForeign(qt', pc) => SomeForeign(qt, pc)
    BY <1>1, <1>5, OrderedPop
  <2>2. TrackWaits(qt, pc) => TrackWaits(qt', pc)
    BY <1>1, <1>5, ReportsPop
  <2>3. QED
    BY <1>5, <2>1, <2>2 DEF TrackInv
<1>6. ASSUME NEW st \in {"connected", "disconnected", "failed"}, OnConnectionChange(st)
      PROVE  TrackInv'
  <2>1. /\ (IF st = "connected" THEN "start" ELSE "stop") \in EventTypes
        /\ (IF st = "connected" THEN "start" ELSE "stop") # "track"
    BY DEF EventTypes
  <2>2. QED
    BY <1>4, <1>6, <2>1 DEF OnConnectionChange, Observed
<1>7. CASE OnTrack
  BY <1>4, <1>7 DEF OnTrack, Observed, EventTypes
<1>8. CASE OnIceCandidate
  BY <1>2, <1>4, <1>8 DEF OnIceCandidate, Observed, EventTypes
<1>9. CASE StatsDelivered
  BY <1>2, <1>4, <1>9 DEF StatsDelivered, PollsConnection, EventTypes
<1>10. CASE OnOffer
  <2>1. Event("offer", sig) \in Events /\ ~Foreign(Event("offer", sig), pc)
        /\ Event("offer", sig).type # "track"
    BY OfferPosted
  <2>2. qt' = Append(qt, Event("offer", sig)) /\ UNCHANGED <<renderer, track, tracked, pc>>
    BY <1>10 DEF OnOffer, peer
  <2>3. QED
    BY <1>3, <2>1, <2>2
<1>11. CASE StartEvent \/ StopEvent \/ StatsEvent \/ IceEvent
  BY <1>5, <1>11 DEF StartEvent, StopEvent, StatsEvent, IceEvent, Receive, peer
<1>12. CASE TrackEvent
  <2>1. /\ qt # <<>> /\ Head(qt).type = "track" /\ qt' = Tail(qt)
        /\ track' = (IF renderer THEN Head(qt).n ELSE track)
        /\ UNCHANGED <<renderer, tracked, pc>>
    BY <1>12 DEF TrackEvent, Receive, peer
  <2>2. CASE Head(qt).n = pc
    <3>1. ~SomeForeign(qt', pc)
      BY <1>1, <2>1, <2>2, ReportsPop
    <3>2. QED
      BY <2>1, <2>2, <3>1 DEF TrackInv
  <2>3. CASE Head(qt).n # pc
    <3>1. SomeForeign(qt, pc)
      BY <1>1, <2>1, <2>3, OrderedPop DEF Foreign
    <3>2. TrackWaits(qt, pc) => TrackWaits(qt', pc)
      BY <1>1, <2>1, <2>3, ReportsPop
    <3>3. QED
      BY <2>1, <3>1, <3>2 DEF TrackInv
  <2>4. QED
    BY <2>2, <2>3
<1>13. CASE Disconnect \/ HandleOffer
  BY <1>13 DEF Disconnect, HandleOffer, FreshPc, TrackInv
<1>14. CASE SetVideoRenderer
  <2>1. track' = 0 /\ UNCHANGED <<tracked, pc, qt>>
    BY <1>14 DEF SetVideoRenderer, peer
  <2>2. QED
    BY <2>1 DEF TrackInv
<1>15. CASE StatsStored \/ FrameDecoded \/ ConnectToSignaling \/ StatsTimeout \/ UNCHANGED vars
  BY <1>2, <1>15 DEF StatsStored, FrameDecoded, ConnectToSignaling, StatsTimeout, vars, peer
<1>16. QED
  BY <1>6, <1>7, <1>8, <1>9, <1>10, <1>11, <1>12, <1>13, <1>14, <1>15
  DEF Next, QtStep, StatsStep

\* Close() posts statistics only for a request that is in flight.
LEMMA CloseStats ==
  ASSUME NEW q \in Seq(Events), pc \in Nat, polls \in Nat, ClosePc(q)
  PROVE  StatsWait(qt') => StatsWait(q) \/ polls > 0
<1>1. CASE pc = 0
  BY <1>1 DEF ClosePc
<1>2. CASE pc # 0 /\ ~(polls > 0)
  <2>1. polls = 0 /\ Event("stop", pc).type = "stop"
    BY <1>2 DEF Event
  <2>2. /\ Len(q) \in Nat /\ Len(qt') = Len(q) + 1
        /\ qt'[Len(q) + 1] = Event("stop", pc) /\ \A i \in 1..Len(q) : qt'[i] = q[i]
    BY <1>2, <2>1, Closing
  <2>3. \A i \in 1..Len(qt') : i \in 1..Len(q) \/ i = Len(q) + 1
    BY <2>2
  <2>4. QED
    BY <2>1, <2>2, <2>3 DEF StatsWait
<1>3. QED
  BY <1>1, <1>2

\* Every step keeps the figures those of the connection that is polled.
LEMMA FiguresStep ==
  TypeOK /\ TypeOK' /\ PollsConnection /\ QueueInv /\ FiguresInv /\ [Next]_vars => FiguresInv'
<1> SUFFICES ASSUME TypeOK, TypeOK', PollsConnection, QueueInv, FiguresInv, [Next]_vars
             PROVE  FiguresInv'
  OBVIOUS
<1>1. /\ qt \in Seq(Events) /\ pc \in 0..Len(session) /\ pc \in Nat /\ Ordered(qt, pc)
      /\ Known(qt, sessions, Len(session)) /\ Len(session) \in Nat /\ sessions \in Nat
      /\ polls \in Nat /\ polls' \in Nat
  BY Typed, TypedPollsNext DEF QueueInv
<1>2. /\ StatsInFlight <=> polls > 0 \/ StatsWait(qt)
      /\ StatsInFlight' <=> polls' > 0 \/ StatsWait(qt')
  BY InFlight, InFlightNext
<1>3. CASE UNCHANGED <<overtaken, figures, timer, polls, pc, qt>>
  BY <1>2, <1>3 DEF FiguresInv
<1>4. ASSUME NEW e \in Events, ~Foreign(e, pc), qt' = Append(qt, e),
             UNCHANGED <<overtaken, figures, timer, pc>>, (polls' > 0 => polls > 0),
             e.type = "stats" => polls > 0
      PROVE  FiguresInv'
  <2>1. ForeignStop(qt, pc) => ForeignStop(qt', pc)
    BY <1>1, <1>4, OrderedPush
  <2>2. StatsWait(qt') => StatsWait(qt) \/ polls > 0
    BY <1>1, <1>4, ReportsPush
  <2>3. QED
    BY <1>2, <1>4, <2>1, <2>2 DEF FiguresInv
<1>5. ASSUME pc # 0, NEW type \in EventTypes, qt' = Append(qt, Event(type, pc)),
             UNCHANGED <<overtaken, figures, timer, pc>>, (polls' > 0 => polls > 0),
             type = "stats" => polls > 0
      PROVE  FiguresInv'
  <2>1. /\ Event(type, pc) \in Events /\ ~Foreign(Event(type, pc), pc)
        /\ Event(type, pc).type = type
    BY <1>1 DEF Event, Events, Foreign
  <2>2. QED
    BY <1>4, <1>5, <2>1
<1>6. ASSUME qt # <<>>, qt' = Tail(qt), UNCHANGED <<overtaken, figures, polls, pc>>,
             Head(qt).type # "stop", timer => timer'
      PROVE  FiguresInv'
  <2>1. ForeignStop(qt, pc) => ForeignStop(qt', pc)
    BY <1>1, <1>6, OrderedPop
  <2>2. StatsWait(qt') => StatsWait(qt)
    BY <1>1, <1>6, ReportsPop
  <2>3. QED
    BY <1>2, <1>6, <2>1, <2>2 DEF FiguresInv
<1>7. ASSUME NEW st \in {"connected", "disconnected", "failed"}, OnConnectionChange(st)
      PROVE  FiguresInv'
  <2>1. /\ (IF st = "connected" THEN "start" ELSE "stop") \in EventTypes
        /\ (IF st = "connected" THEN "start" ELSE "stop") # "stats"
    BY DEF EventTypes
  <2>2. QED
    BY <1>5, <1>7, <2>1 DEF OnConnectionChange, Observed, stats
<1>8. CASE OnTrack
  BY <1>5, <1>8 DEF OnTrack, Observed, EventTypes, stats
<1>9. CASE OnIceCandidate
  BY <1>3, <1>5, <1>9 DEF OnIceCandidate, Observed, EventTypes, stats
<1>10. CASE StatsDelivered
  <2>1. polls > 0 /\ UNCHANGED <<overtaken, figures, timer, pc>>
        /\ (UNCHANGED qt \/ qt' = Append(qt, Event("stats", pc)))
    BY <1>10 DEF StatsDelivered, stats
  <2>2. CASE UNCHANGED qt
    BY <1>2, <2>1, <2>2 DEF FiguresInv
  <2>3. CASE qt' = Append(qt, Event("stats", pc))
    BY <1>5, <2>1, <2>3 DEF PollsConnection, EventTypes
  <2>4. QED
    BY <2>1, <2>2, <2>3
<1>11. CASE OnOffer
  <2>1. Event("offer", sig) \in Events /\ ~Foreign(Event("offer", sig), pc)
        /\ Event("offer", sig).type # "stats"
    BY OfferPosted
  <2>2. qt' = Append(qt, Event("offer", sig))
        /\ UNCHANGED <<overtaken, figures, timer, polls, pc>>
    BY <1>11 DEF OnOffer, peer, stats
  <2>3. QED
    BY <1>4, <2>1, <2>2
<1>12. CASE TrackEvent \/ IceEvent
  BY <1>6, <1>12 DEF TrackEvent, IceEvent, Receive, peer, stats
<1>13. CASE StartEvent
  BY <1>6, <1>13 DEF StartEvent, StartStatsTimer, Receive, peer
<1>14. CASE StopEvent
  <2>1. /\ qt # <<>> /\ qt' = Tail(qt) /\ figures' = 0 /\ polls' = polls
        /\ overtaken' = (overtaken \/ StatsInFlight)
    BY <1>14 DEF StopEvent, StopStatsTimer, Receive, peer
  <2>2. StatsWait(qt') => StatsWait(qt)
    BY <1>1, <2>1, ReportsPop
  <2>3. QED
    BY <1>2, <2>1, <2>2 DEF FiguresInv
<1>15. CASE StatsEvent
  <2>1. /\ qt # <<>> /\ Head(qt).type = "stats" /\ qt' = Tail(qt) /\ figures' = Head(qt).n
        /\ UNCHANGED <<overtaken, timer, polls, pc>>
    BY <1>15 DEF StatsEvent, Receive, peer
  <2>2. ~overtaken => timer
    BY <1>1, <1>2, <2>1, ReportsPop DEF FiguresInv
  <2>3. timer /\ Head(qt).n # pc => ForeignStop(qt', pc)
    <3>1. Head(qt).n # pc => SomeForeign(qt, pc)
      BY <1>1, <2>1, OrderedPop DEF Foreign
    <3>2. ForeignStop(qt, pc) => ForeignStop(qt', pc)
      BY <1>1, <2>1, OrderedPop
    <3>3. QED
      BY <3>1, <3>2 DEF QueueInv, StoppedBehind
  <2>4. QED
    BY <2>1, <2>2, <2>3 DEF FiguresInv
<1>16. CASE Disconnect
  <2>1. /\ ClosePc(qt) /\ figures' = 0 /\ polls' = 0
        /\ overtaken' = (overtaken \/ StatsInFlight)
    BY <1>16 DEF Disconnect, StopStatsTimer, FreshPc
  <2>2. StatsWait(qt') => StatsWait(qt) \/ polls > 0
    BY <1>1, <2>1, CloseStats
  <2>3. ~(polls' > 0)
    BY <2>1
  <2>4. QED
    BY <1>2, <2>1, <2>2, <2>3 DEF FiguresInv
<1>17. CASE HandleOffer
  <2>1. /\ qt # <<>> /\ Head(qt).type = "offer" /\ ClosePc(Tail(qt)) /\ polls' = 0
        /\ UNCHANGED <<overtaken, figures, timer>> /\ pc' \in {0, Len(session) + 1}
    BY <1>17 DEF HandleOffer, Receive, FreshPc
  <2>2. /\ Tail(qt) \in Seq(Events) /\ Known(Tail(qt), sessions, Len(session))
        /\ ForeignStop(qt, pc) => ForeignStop(Tail(qt), pc)
        /\ StatsWait(Tail(qt)) => StatsWait(qt)
    <3>1. Tail(qt) \in Seq(Events) /\ Known(Tail(qt), sessions, Len(session))
      BY <1>1, <2>1, Popped, KnownPop
    <3>2. ForeignStop(qt, pc) => ForeignStop(Tail(qt), pc)
      BY <1>1, <2>1, OrderedPop
    <3>3. StatsWait(Tail(qt)) => StatsWait(qt)
      BY <1>1, <2>1, ReportsPop
    <3>4. QED
      BY <3>1, <3>2, <3>3
  <2>3. StatsInFlight' => StatsInFlight
    <3>1. ~(polls' > 0)
      BY <2>1
    <3>2. StatsWait(qt') => StatsWait(Tail(qt)) \/ polls > 0
      BY <1>1, <2>1, <2>2, CloseStats
    <3>3. QED
      BY <1>2, <2>2, <3>1, <3>2
  <2>4. pc' \in Nat /\ pc' \notin 1..Len(session)
    BY <1>1, <2>1
  <2>5. CASE pc = 0
    <3>1. pc \notin 1..Len(session)
      BY <1>1, <2>5
    <3> qt' = Tail(qt)
      BY <2>1, <2>5, Zenon DEF ClosePc
    <3>2. ForeignStop(qt, pc) => ForeignStop(qt', pc')
      BY <1>1, <2>2, <2>4, <3>1, OrderedRename
    <3>3. QED
      BY <2>1, <2>3, <2>5, <3>2 DEF FiguresInv
  <2>6. CASE pc # 0
    <3>1. pc \in 1..Len(session)
      BY <1>1, <2>6
    <3>2. ForeignStop(qt', pc')
      BY <1>1, <2>1, <2>2, <2>4, <3>1, OrderedClose
    <3>3. QED
      BY <2>1, <2>3, <3>2 DEF FiguresInv
  <2>7. QED
    BY <2>5, <2>6
<1>18. CASE StatsTimeout
  <2>1. timer /\ UNCHANGED <<overtaken, figures, timer, pc, qt>>
    BY <1>18 DEF StatsTimeout, stats
  <2>2. QED
    BY <2>1 DEF FiguresInv
<1>19. CASE StatsStored \/ FrameDecoded \/ ConnectToSignaling \/ SetVideoRenderer \/ UNCHANGED vars
  BY <1>3, <1>19
  DEF StatsStored, FrameDecoded, ConnectToSignaling, SetVideoRenderer, vars, peer, stats
<1>20. QED
  BY <1>7, <1>8, <1>9, <1>10, <1>11, <1>12, <1>13, <1>14, <1>15, <1>16, <1>17, <1>18, <1>19
  DEF Next, QtStep, StatsStep

\* The events that Close() posts are neither offers nor candidates, and only a
\* stop when nothing is in flight.
LEMMA CloseKeeps ==
  ASSUME NEW q \in Seq(Events), pc \in Nat, polls \in Nat, ClosePc(q)
  PROVE  /\ \A i \in 1..Len(qt') : (i \in 1..Len(q) /\ qt'[i] = q[i])
                                   \/ qt'[i].type \in {"stop", "stats"}
         /\ q = <<>> /\ polls = 0 => \A i \in 1..Len(qt') : qt'[i].type = "stop"
<1>1. Event("stop", pc).type = "stop" /\ Event("stats", pc).type = "stats"
  BY DEF Event
<1>2. CASE pc = 0
  <2>1. qt' = q
    BY <1>2 DEF ClosePc
  <2>2. q = <<>> => Len(q) = 0
    BY EmptySeq
  <2>3. q = <<>> => \A i \in 1..Len(q) : FALSE
    BY <2>2
  <2>4. QED
    BY <2>1, <2>3, Zenon
<1>3. CASE pc # 0
  <2>1. /\ qt'[Len(q) + 1] = Event("stop", pc)
        /\ \A i \in 1..Len(q) : qt'[i] = q[i]
        /\ \A i \in 1..Len(qt') :
             i \in 1..Len(q) \/ i = Len(q) + 1 \/ qt'[i] = Event("stats", pc)
        /\ polls = 0 => Len(qt') = Len(q) + 1
    BY <1>3, Closing
  <2>2. \A i \in 1..Len(qt') : (i \in 1..Len(q) /\ qt'[i] = q[i])
                               \/ qt'[i].type \in {"stop", "stats"}
    BY <1>1, <2>1
  <2>3. ASSUME q = <<>>, polls = 0 PROVE \A i \in 1..Len(qt') : qt'[i].type = "stop"
    <3>1. Len(q) = 0
      BY <2>3, EmptySeq
    <3>2. Len(qt') = 1 /\ qt'[1] = Event("stop", pc)
      BY <2>1, <2>3, <3>1
    <3>3. QED
      BY <1>1, <3>2
  <2>4. QED
    BY <2>2, <2>3
<1>4. QED
  BY <1>2, <1>3

\* Every step keeps a disconnected receiver idle.
LEMMA IdleStep ==
  TypeOK /\ PollsConnection /\ IdleInv /\ [Next]_vars => IdleInv'
<1> SUFFICES ASSUME TypeOK, PollsConnection, IdleInv, [Next]_vars PROVE IdleInv'
  OBVIOUS
<1>1. qt \in Seq(Events) /\ pc \in Nat /\ polls \in Nat
  BY Typed
<1>2. CASE UNCHANGED <<active, hurried, pc, track, timer, figures, sig, polls, qt>>
  BY <1>2 DEF IdleInv
<1>3. ASSUME pc # 0, UNCHANGED <<active, hurried>> PROVE IdleInv'
  BY <1>3 DEF IdleInv
<1>4. ASSUME qt # <<>>, Head(qt).type # "stop", UNCHANGED <<active, hurried>>
      PROVE  IdleInv'
  <2>1. Head(qt) = qt[1] /\ 1 \in 1..Len(qt)
    BY <1>1, <1>4, PoppedPlaces
  <2>2. QED
    BY <1>4, <2>1 DEF IdleInv
<1>5. CASE ConnectToSignaling
  BY <1>5 DEF ConnectToSignaling, IdleInv
<1>6. CASE Disconnect
  <2>1. /\ hurried' = (hurried \/ ~Quiet) /\ timer' = FALSE /\ figures' = 0 /\ track' = 0
        /\ sig' = 0 /\ ClosePc(qt) /\ pc' = 0 /\ polls' = 0
    BY <1>6 DEF Disconnect, StopStatsTimer, FreshPc
  <2>2. Quiet => \A i \in 1..Len(qt') : qt'[i].type = "stop"
    BY <1>1, <2>1, CloseKeeps DEF Quiet
  <2>3. QED
    BY <2>1, <2>2 DEF IdleInv
<1>7. CASE StopEvent
  <2>1. /\ qt # <<>> /\ qt' = Tail(qt) /\ timer' = FALSE /\ figures' = 0
        /\ UNCHANGED <<active, hurried, pc, track, sig, polls>>
    BY <1>7 DEF StopEvent, StopStatsTimer, Receive, user, peer
  <2>2. \A i \in 1..Len(qt') : qt'[i] = qt[i + 1] /\ i + 1 \in 1..Len(qt)
    BY <1>1, <2>1, PoppedPlaces
  <2>3. QED
    BY <2>1, <2>2 DEF IdleInv
<1>8. CASE SetVideoRenderer
  BY <1>8 DEF SetVideoRenderer, IdleInv, user, peer, stats
<1>9. CASE OnOffer
  BY <1>9 DEF OnOffer, IdleInv
<1>10. CASE HandleOffer \/ StartEvent \/ StatsEvent \/ TrackEvent \/ IceEvent
  BY <1>4, <1>10 DEF HandleOffer, StartEvent, StatsEvent, TrackEvent, IceEvent, Receive, user
<1>11. CASE StatsTimeout \/ StatsDelivered \/ OnTrack \/ OnIceCandidate \/ FrameDecoded
  BY <1>3, <1>11
  DEF StatsTimeout, StatsDelivered, OnTrack, OnIceCandidate, FrameDecoded, Observed,
      PollsConnection, user
<1>12. ASSUME NEW st \in {"connected", "disconnected", "failed"}, OnConnectionChange(st)
       PROVE  IdleInv'
  BY <1>3, <1>12 DEF OnConnectionChange, Observed, user
<1>13. CASE StatsStored \/ UNCHANGED vars
  BY <1>2, <1>13 DEF StatsStored, vars, user, peer, stats
<1>14. QED
  BY <1>5, <1>6, <1>7, <1>8, <1>9, <1>10, <1>11, <1>12, <1>13 DEF Next, QtStep, StatsStep

\* An event belongs to session s, if there is one.
OfSession(ss, s, e) ==
  s # 0 => /\ e.type = "offer" => e.n = s
           /\ e.type = "ice" => ss[e.n] = s

\* Every step keeps what waits that of the session.
LEMMA SessionStep ==
  TypeOK /\ PollsConnection /\ IdleInv /\ SessionInv /\ [Next]_vars => SessionInv'
<1> SUFFICES ASSUME TypeOK, PollsConnection, IdleInv, SessionInv, [Next]_vars PROVE SessionInv'
  OBVIOUS
<1>1. /\ qt \in Seq(Events) /\ Len(qt) \in Nat /\ pc \in 0..Len(session) /\ pc \in Nat
      /\ polls \in Nat /\ Known(qt, sessions, Len(session)) /\ Len(session) \in Nat
  BY Typed
<1>2. session \in Seq(Nat) /\ sig \in Nat
  <2>1. session \in Seq(Nat) /\ sig \in 0..sessions
    BY Zenon DEF TypeOK
  <2>2. QED
    BY <2>1, Typed
<1>3. ASSUME ~hurried
      PROVE  /\ ~astray /\ (sig # 0 /\ pc # 0 => session[pc] = sig)
             /\ \A i \in 1..Len(qt) : OfSession(session, sig, qt[i])
  BY <1>3 DEF SessionInv, OfSession
<1>4. ASSUME ~hurried' => /\ ~astray' /\ (sig' # 0 /\ pc' # 0 => session'[pc'] = sig')
                          /\ \A i \in 1..Len(qt') : OfSession(session', sig', qt'[i])
      PROVE  SessionInv'
  BY <1>4 DEF SessionInv, OfSession
<1>5. CASE UNCHANGED <<hurried, astray, sig, pc, session, qt>>
  BY <1>3, <1>4, <1>5
<1>6. ASSUME NEW e \in Events, qt' = Append(qt, e), ~hurried => OfSession(session, sig, e),
             UNCHANGED <<hurried, astray, sig, pc, session>>
      PROVE  SessionInv'
  <2>1. \A i \in 1..Len(qt') : (i \in 1..Len(qt) /\ qt'[i] = qt[i]) \/ qt'[i] = e
    <3>1. /\ Len(Append(qt, e)) = Len(qt) + 1 /\ Append(qt, e)[Len(qt) + 1] = e
          /\ \A i \in 1..Len(qt) : Append(qt, e)[i] = qt[i]
      BY <1>1, Pushed
    <3>2. \A i \in 1..Len(Append(qt, e)) : i \in 1..Len(qt) \/ i = Len(qt) + 1
      BY <1>1, <3>1
    <3>3. QED
      BY <1>6, <3>1, <3>2
  <2>2. QED
    BY <1>3, <1>4, <1>6, <2>1
<1>7. ASSUME pc # 0, NEW type \in EventTypes \ {"offer"}, qt' = Append(qt, Event(type, pc)),
             UNCHANGED <<hurried, astray, sig, pc, session>>
      PROVE  SessionInv'
  <2>1. Event(type, pc) \in Events /\ Event(type, pc).type = type /\ Event(type, pc).n = pc
    BY <1>1 DEF Event, Events
  <2>2. ~hurried => OfSession(session, sig, Event(type, pc))
    BY <1>3, <1>7, <2>1 DEF OfSession
  <2>3. QED
    BY <1>6, <1>7, <2>1, <2>2
<1>8. ASSUME qt # <<>>, qt' = Tail(qt), UNCHANGED <<hurried, sig, pc, session>>,
             ~hurried /\ ~astray => ~astray'
      PROVE  SessionInv'
  <2>1. \A i \in 1..Len(qt') : qt'[i] = qt[i + 1] /\ i + 1 \in 1..Len(qt)
    BY <1>1, <1>8, PoppedPlaces
  <2>2. QED
    BY <1>3, <1>4, <1>8, <2>1
<1>9. ASSUME NEW st \in {"connected", "disconnected", "failed"}, OnConnectionChange(st)
      PROVE  SessionInv'
  <2>1. (IF st = "connected" THEN "start" ELSE "stop") \in EventTypes \ {"offer"}
    BY DEF EventTypes
  <2>2. QED
    BY <1>7, <1>9, <2>1 DEF OnConnectionChange, Observed, user
<1>10. CASE OnTrack
  BY <1>7, <1>10 DEF OnTrack, Observed, EventTypes, user
<1>11. CASE OnIceCandidate
  BY <1>5, <1>7, <1>11 DEF OnIceCandidate, Observed, EventTypes, user
<1>12. CASE StatsDelivered
  BY <1>5, <1>7, <1>12 DEF StatsDelivered, PollsConnection, EventTypes, user
<1>13. CASE OnOffer
  <2>1. /\ Event("offer", sig) \in Events /\ Event("offer", sig).type = "offer"
        /\ Event("offer", sig).n = sig
    BY OfferPosted
  <2>2. OfSession(session, sig, Event("offer", sig))
    BY <2>1 DEF OfSession
  <2>3. qt' = Append(qt, Event("offer", sig)) /\ UNCHANGED <<hurried, astray, sig, pc, session>>
    BY <1>13 DEF OnOffer, peer
  <2>4. QED
    BY <1>6, <2>1, <2>2, <2>3
<1>14. CASE StartEvent \/ StopEvent \/ StatsEvent \/ TrackEvent
  BY <1>8, <1>14 DEF StartEvent, StopEvent, StatsEvent, TrackEvent, Receive, user, peer
<1>15. CASE IceEvent
  <2>1. /\ qt # <<>> /\ Head(qt).type = "ice" /\ qt' = Tail(qt)
        /\ astray' = (astray \/ (sig # 0 /\ sig # session[Head(qt).n]))
        /\ UNCHANGED <<hurried, sig, pc, session>>
    BY <1>15 DEF IceEvent, Receive, user, peer
  <2>2. Head(qt) = qt[1] /\ 1 \in 1..Len(qt)
    BY <1>1, <2>1, PoppedPlaces
  <2>3. ~hurried => OfSession(session, sig, Head(qt))
    BY <1>3, <2>2
  <2>4. QED
    BY <1>8, <2>1, <2>3 DEF OfSession
<1>16. CASE ConnectToSignaling
  <2>1. hurried' = (hurried \/ active \/ ~Quiet) /\ UNCHANGED <<astray, pc, qt>>
    BY <1>16 DEF ConnectToSignaling, peer
  <2>2. ~hurried' => ~hurried /\ ~active /\ qt = <<>>
    BY <2>1 DEF Quiet
  <2>3. ~hurried' => pc = 0 /\ Len(qt) = 0
    BY <2>2, EmptySeq DEF IdleInv
  <2>4. QED
    BY <1>3, <1>4, <2>1, <2>2, <2>3
<1>17. CASE Disconnect
  <2>1. hurried' = (hurried \/ ~Quiet) /\ sig' = 0 /\ astray' = astray
    BY <1>17 DEF Disconnect
  <2>2. QED
    BY <1>3, <1>4, <2>1 DEF OfSession
<1>18. CASE HandleOffer
  <2>1. /\ qt # <<>> /\ Head(qt).type = "offer" /\ ClosePc(Tail(qt))
        /\ pc' \in {0, Len(session) + 1} /\ session' = Append(session, Head(qt).n)
        /\ UNCHANGED <<hurried, sig, astray>>
    BY <1>18 DEF HandleOffer, Receive, FreshPc, user
  <2>2. /\ Tail(qt) \in Seq(Events) /\ Head(qt) = qt[1] /\ 1 \in 1..Len(qt) /\ Head(qt).n \in Nat
        /\ \A i \in 1..Len(Tail(qt)) : Tail(qt)[i] = qt[i + 1] /\ i + 1 \in 1..Len(qt)
    BY <1>1, <2>1, PoppedPlaces
  <2>3. /\ session'[Len(session) + 1] = Head(qt).n
        /\ \A c \in 1..Len(session) : session'[c] = session[c]
    <3>1. PICK n \in Nat : n = Head(qt).n
      BY <2>2
    <3>2. /\ Append(session, n)[Len(session) + 1] = n
          /\ \A c \in 1..Len(session) : Append(session, n)[c] = session[c]
      BY <1>2, AppendProperties
    <3>3. QED
      BY <2>1, <3>1, <3>2
  <2>4. ASSUME ~hurried PROVE sig # 0 /\ pc' # 0 => session'[pc'] = sig
    BY <1>3, <2>1, <2>2, <2>3, <2>4 DEF OfSession
  <2>5. ASSUME ~hurried, NEW i \in 1..Len(qt) PROVE OfSession(session', sig, qt[i])
    BY <1>1, <1>3, <2>3, <2>5 DEF OfSession, Known
  <2>6. ASSUME ~hurried, NEW i \in 1..Len(qt') PROVE OfSession(session', sig, qt'[i])
    <3>1. \/ i \in 1..Len(Tail(qt)) /\ qt'[i] = Tail(qt)[i]
          \/ qt'[i].type \in {"stop", "stats"}
      BY <1>1, <2>1, <2>2, CloseKeeps
    <3>2. QED
      BY <2>2, <2>5, <2>6, <3>1 DEF OfSession
  <2>7. QED
    BY <1>3, <1>4, <2>1, <2>4, <2>6
<1>19. CASE StatsStored \/ FrameDecoded \/ SetVideoRenderer \/ StatsTimeout \/ UNCHANGED vars
  BY <1>5, <1>19
  DEF StatsStored, FrameDecoded, SetVideoRenderer, StatsTimeout, vars, user, peer
<1>20. QED
  BY <1>9, <1>10, <1>11, <1>12, <1>13, <1>14, <1>15, <1>16, <1>17, <1>18, <1>19
  DEF Next, QtStep, StatsStep

\* The invariants of the connection's reports hold of a new receiver, and every
\* step keeps them.
SessionInvariant ==
  /\ TypeOK /\ PollsConnection /\ QueueInv /\ RequestOfConnection
  /\ TrackInv /\ FiguresInv /\ IdleInv /\ SessionInv

\* All of them hold always.
THEOREM SessionReports == Spec => []SessionInvariant
<1>1. Init => SessionInvariant
  <2> SUFFICES ASSUME Init PROVE SessionInvariant
    OBVIOUS
  <2>1. CounterInv
    BY CounterInit
  <2>2. /\ Len(qt) = 0 /\ ~timer /\ polls = 0 /\ ~tracked /\ ~astray /\ pc = 0 /\ track = 0
        /\ figures = 0 /\ sig = 0
    BY DEF Init
  <2>3. \A i \in 1..Len(qt) : FALSE
    BY <2>2
  <2>4. ~StatsInFlight
    BY <2>2, <2>3, InFlight, TypeInit DEF StatsWait
  <2>5. TrackInv /\ FiguresInv /\ IdleInv /\ SessionInv
    BY <2>2, <2>3, <2>4 DEF TrackInv, FiguresInv, IdleInv, SessionInv
  <2>6. QED
    BY <2>1, <2>5 DEF SessionInvariant, CounterInv
<1>2. SessionInvariant /\ [Next]_vars => SessionInvariant'
  <2> SUFFICES ASSUME SessionInvariant, [Next]_vars PROVE SessionInvariant'
    OBVIOUS
  <2>1. CounterInv'
    BY CounterInvStep DEF SessionInvariant, CounterInv
  <2>2. TrackInv' /\ IdleInv' /\ SessionInv'
    BY TrackStep, IdleStep, SessionStep DEF SessionInvariant
  <2>3. FiguresInv'
    BY <2>1, FiguresStep DEF SessionInvariant, CounterInv
  <2>4. QED
    BY <2>1, <2>2, <2>3 DEF SessionInvariant, CounterInv
<1>3. QED
  BY <1>1, <1>2, PTL DEF Spec

\* Once the connection has reported its track and the Qt thread has caught up, the
\* renderer is bound to that track or to none: handleOffer leaves an earlier one
\* bound, but the events of earlier connections come first.
THEOREM SessionTrackOfConnection == Spec => []TrackOfConnection
<1>1. SessionInvariant => TrackOfConnection
  BY EmptySeq DEF SessionInvariant, TrackInv, TrackWaits, TrackOfConnection
<1>2. QED
  BY <1>1, SessionReports, PTL

\* The statistics shown are those of the connection that is polled, unless the
\* timer was stopped while a request or its result was in flight.
THEOREM SessionFiguresOfConnection == Spec => []FiguresOfConnection
<1>1. SessionInvariant => FiguresOfConnection
  BY EmptySeq DEF SessionInvariant, FiguresInv, ForeignStop, FiguresOfConnection
<1>2. QED
  BY <1>1, SessionReports, PTL

\* After a disconnect that nothing was in flight at, the receiver stays idle until
\* the next connect.
THEOREM SessionDisconnectedIsIdle == Spec => []DisconnectedIsIdle
<1>1. SessionInvariant => DisconnectedIsIdle
  BY DEF SessionInvariant, IdleInv, DisconnectedIsIdle
<1>2. QED
  BY <1>1, SessionReports, PTL

\* A local candidate is sent in the session of its connection's offer, as long as
\* the user waits for what is in flight.
THEOREM SessionSentInItsSession == Spec => []SentInItsSession
<1>1. SessionInvariant => SentInItsSession
  BY DEF SessionInvariant, SessionInv, SentInItsSession
<1>2. QED
  BY <1>1, SessionReports, PTL
=============================================================================
