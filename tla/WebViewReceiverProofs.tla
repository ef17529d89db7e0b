----------------------- MODULE WebViewReceiverProofs -----------------------
(***************************************************************************)
(* For any number of offers, candidates, sessions and loads of the page:   *)
(* the page gives its connection the candidates of its own offer, in order *)
(* and without a gap, strands none, polls statistics only of a connection  *)
(* that has not failed, and, as long as the user waits for what is in      *)
(* flight, answers in the session of the offer and closes with it.         *)
(***************************************************************************)
EXTENDS WebViewReceiver, SequenceTheorems, TLAPS

Remote == {"offer", "ice"}
Replies == {"answer", "local"}
Events == [type : Remote \cup Replies \cup {"closed"}, n : Nat]

\* An event and its number: an offer or a candidate that was received.
Known(m, s, e) ==
  /\ e.type \in {"offer"} \cup Replies => e.n \in 1..Len(s)
  /\ e.type = "ice" => e.n \in 1..Len(m)

In(q) == {q[i] : i \in 1..Len(q)}

\* e may come before f: offers and candidates in the order in which they were
\* received, m[c] being the offer of candidate c.
Before(m, e, f) ==
  /\ e.type = f.type /\ e.type \in Remote => e.n < f.n
  /\ e.type = "offer" /\ f.type = "ice" => e.n <= m[f.n]
  /\ e.type = "ice" /\ f.type = "offer" => m[e.n] < f.n
Ahead(m, A, B) == \A e \in A, f \in B : Before(m, e, f)
Ordered(m, q) == \A i, j \in 1..Len(q) : i < j => Before(m, q[i], q[j])

\* The candidates of the page's connection: they are added once the remote
\* description is set and wait for it until then.
Candidates == IF remote THEN added ELSE pending

-----------------------------------------------------------------------------
(* The invariants.                                                         *)

\* Types: of what was received, of what is on its way, and of the page.
Received ==
  /\ sig \in Nat /\ sessions \in Nat /\ session \in Seq(Nat) /\ of \in Seq(Nat)
  /\ \A c \in 1..Len(of) : of[c] <= Len(session)
Wired ==
  /\ qt \in Seq(Events) /\ down \in Seq(Events) /\ up \in Seq(Events)
  /\ \A e \in In(qt) \cup In(down) \cup In(up) : Known(of, session, e)
  /\ \A e \in In(up) : e.type \in Replies
Paged ==
  /\ pc \in 0..Len(session) /\ added \in Seq(Nat) /\ pending \in Seq(Nat)
  /\ remote \in BOOLEAN
Typed == Received /\ Wired /\ Paged

\* What the page holds, and that signals are lost until it is ready.
PageState ==
  /\ page # "ready" => down = <<>> /\ up = <<>> /\ pc = 0
  /\ remote => pending = <<>>
  /\ ~remote => added = <<>>
  /\ pc = 0 => ~remote /\ pending = <<>>

\* What is on its way to the page, in the order in which it was received.
Coming == In(down) \cup In(qt)
InOrder ==
  /\ \A c, d \in 1..Len(of) : c <= d => of[c] <= of[d]
  /\ Ordered(of, down) /\ Ordered(of, qt) /\ Ahead(of, In(down), In(qt))

\* Nothing that belongs to an offer on its way, or to the page's connection, is
\* lost.
NothingMissing ==
  /\ \A e \in Coming, c \in 1..Len(of) :
       e.type = "offer" /\ of[c] = e.n => Event("ice", c) \in Coming
  /\ \A e \in Coming, o \in 1..Len(session) :
       e.type = "offer" /\ e.n < o => Event("offer", o) \in Coming
  /\ pc # 0 =>
       /\ \A o \in 1..Len(session) : pc < o => Event("offer", o) \in Coming
       /\ \A c \in 1..Len(of) :
            of[c] = pc => Event("ice", c) \in Coming \/ c \in In(Candidates)

\* The page is behind what is on its way.
PageBehind ==
  \A e \in Coming : /\ e.type = "offer" => pc < e.n
                    /\ e.type = "ice" => pc <= of[e.n] /\ \A c \in In(Candidates) : c < e.n

\* Candidates of the connection's own offer, one after the other.
Consecutive(q) == \A i \in 1..Len(q) : q[i] = q[1] + (i - 1)
OwnCandidates ==
  /\ \A c \in In(Candidates) : c \in 1..Len(of) /\ of[c] = pc
  /\ Consecutive(Candidates)
  /\ Candidates # <<>> => \A c \in 1..Len(of) : c < Candidates[1] => of[c] # pc

\* As long as the user waits for what is in flight, all of it belongs to the
\* session, and without one the page has no connection or is about to close it.
InSession ==
  ~hurried =>
    /\ ~astray
    /\ \A e \in Coming \cup In(up) :
         e.type \in {"offer"} \cup Replies => session[e.n] = sig \/ sig = 0
    /\ pc # 0 => session[pc] = sig \/ sig = 0
    /\ sig = 0 => /\ \A e \in Coming : e.type # "offer"
                  /\ pc = 0 \/ Closed \in In(down)

OrderInv ==
  Typed /\ PageState /\ InOrder /\ NothingMissing /\ PageBehind /\ OwnCandidates

-----------------------------------------------------------------------------
(* Queues of events.                                                       *)

\* The fields of an event.
LEMMA EventFields ==
  /\ \A t, n : Event(t, n).type = t /\ Event(t, n).n = n
  /\ \A e \in Events : e = Event(e.type, e.n)
  /\ \A t \in Remote \cup Replies \cup {"closed"}, n \in Nat : Event(t, n) \in Events
  BY DEF Event, Events

\* The signal signalingClosed is an event that is neither remote nor a reply.
LEMMA ClosedFields == Closed \in Events /\ Closed.type = "closed" /\ Closed.n = 0
  BY DEF Closed, Event, Events

\* Nothing is in an empty queue.
LEMMA InEmpty == In(<<>>) = {}
  BY DEF In

\* A queue with one more element ...
LEMMA Push ==
  ASSUME NEW S, NEW q \in Seq(S), NEW e \in S
  PROVE  /\ Append(q, e) \in Seq(S) /\ In(Append(q, e)) = In(q) \cup {e}
         /\ Append(q, e) # <<>> /\ Len(q) \in Nat /\ Len(Append(q, e)) = Len(q) + 1
         /\ Append(q, e)[Len(q) + 1] = e
         /\ \A i \in 1..Len(q) : Append(q, e)[i] = q[i]
<1> DEFINE r == Append(q, e)
<1>1. /\ r \in Seq(S) /\ Len(q) \in Nat /\ Len(r) = Len(q) + 1 /\ r[Len(q) + 1] = e
      /\ \A i \in 1..Len(q) : r[i] = q[i]
  BY AppendProperties, LenProperties
<1> HIDE DEF r
<1>2. \A i \in 1..Len(r) : i \in 1..Len(q) \/ i = Len(q) + 1
  BY <1>1
<1>3. \A i \in 1..Len(q) : i \in 1..Len(r)
  BY <1>1
<1>4. Len(q) + 1 \in 1..Len(r) /\ r # <<>>
  BY <1>1
<1>5. In(r) = In(q) \cup {e}
  BY <1>1, <1>2, <1>3, <1>4 DEF In
<1>6. QED
  BY <1>1, <1>4, <1>5 DEF r

\* ... and what its head leaves.
LEMMA Pop ==
  ASSUME NEW S, NEW q \in Seq(S), q # <<>>
  PROVE  /\ Tail(q) \in Seq(S) /\ Head(q) \in S /\ In(q) = {Head(q)} \cup In(Tail(q))
         /\ Len(q) \in Nat /\ Len(q) > 0 /\ Len(Tail(q)) = Len(q) - 1 /\ Head(q) = q[1]
         /\ \A i \in 1..Len(Tail(q)) : Tail(q)[i] = q[i + 1] /\ i + 1 \in 1..Len(q)
<1> DEFINE r == Tail(q)
<1>1. Len(q) \in Nat /\ Len(q) > 0
  BY EmptySeq, LenProperties
<1>2. r \in Seq(S) /\ Head(q) \in S /\ Head(q) = q[1] /\ Len(r) = Len(q) - 1
  BY <1>1, HeadTailProperties
<1>3. \A i \in 1..Len(r) : r[i] = q[i + 1] /\ i + 1 \in 1..Len(q)
  BY <1>1
<1>4. \A i \in 2..Len(q) : r[i - 1] = q[i] /\ i - 1 \in 1..Len(r)
  BY <1>1
<1> HIDE DEF r
<1>5. \A i \in 1..Len(q) : i = 1 \/ i \in 2..Len(q)
  BY <1>1
<1>6. 1 \in 1..Len(q)
  BY <1>1
<1>7. In(q) = {Head(q)} \cup In(r)
  BY <1>2, <1>3, <1>4, <1>5, <1>6 DEF In
<1>8. QED
  BY <1>1, <1>2, <1>3, <1>7 DEF r

\* The events of a queue that gets one more.
LEMMA InPush == \A q \in Seq(Events), e \in Events : In(Append(q, e)) = In(q) \cup {e}
  BY Push

\* An event that is posted.
LEMMA Posted ==
  ASSUME NEW e \in Events, qt \in Seq(Events), qt' = Append(qt, e)
  PROVE  In(qt') = In(qt) \cup {e} /\ (down' = down => Coming' = Coming \cup {e})
<1>1. In(qt') = In(qt) \cup {e}
  BY InPush, Zenon
<1>2. QED
  BY <1>1 DEF Coming

\* The queue to the page, when an event is emitted.
LEMMA Emitted ==
  ASSUME NEW e \in Events, down \in Seq(Events), Emit(e)
  PROVE  IF page = "ready" THEN In(down') = In(down) \cup {e} ELSE down' = down
<1>1. In(Append(down, e)) = In(down) \cup {e}
  BY InPush
<1>2. CASE page = "ready"
  BY <1>1, <1>2, Zenon DEF Emit
<1>3. CASE page # "ready"
  BY <1>3, Zenon DEF Emit
<1>4. QED
  BY <1>2, <1>3

\* Order is kept when the last to come is appended ...
LEMMA OrderedPush ==
  ASSUME NEW m, NEW q \in Seq(Events), NEW e \in Events, Ordered(m, q), Ahead(m, In(q), {e})
  PROVE  Ordered(m, Append(q, e))
<1> DEFINE r == Append(q, e)
<1>1. /\ Len(q) \in Nat /\ Len(r) = Len(q) + 1 /\ r[Len(q) + 1] = e
      /\ \A i \in 1..Len(q) : r[i] = q[i]
  BY Push
<1> HIDE DEF r
<1> SUFFICES ASSUME NEW i \in 1..Len(r), NEW j \in 1..Len(r), i < j
             PROVE  Before(m, r[i], r[j])
  BY DEF Ordered, r
<1>2. i \in 1..Len(q)
  BY <1>1
<1>3. CASE j \in 1..Len(q)
  BY <1>1, <1>2, <1>3 DEF Ordered
<1>4. CASE j = Len(q) + 1
  BY <1>1, <1>2, <1>4 DEF Ahead, In
<1>5. QED
  BY <1>1, <1>3, <1>4

\* ... and when the first one is taken.
LEMMA OrderedPop ==
  ASSUME NEW m, NEW q \in Seq(Events), q # <<>>, Ordered(m, q)
  PROVE  Ordered(m, Tail(q)) /\ Ahead(m, {Head(q)}, In(Tail(q)))
<1> DEFINE r == Tail(q)
<1>1. /\ Len(q) \in Nat /\ Len(q) > 0 /\ Len(r) = Len(q) - 1 /\ Head(q) = q[1]
      /\ \A i \in 1..Len(r) : r[i] = q[i + 1] /\ i + 1 \in 1..Len(q)
  BY Pop
<1> HIDE DEF r
<1>2. ASSUME NEW i \in 1..Len(r), NEW j \in 1..Len(r), i < j
      PROVE  Before(m, r[i], r[j])
  <2>1. i + 1 < j + 1
    BY <1>1, <1>2
  <2>2. QED
    BY <1>1, <2>1 DEF Ordered
<1>3. ASSUME NEW i \in 1..Len(r) PROVE Before(m, Head(q), r[i])
  <2>1. 1 < i + 1 /\ 1 \in 1..Len(q)
    BY <1>1
  <2>2. QED
    BY <1>1, <2>1 DEF Ordered
<1>4. Ordered(m, r)
  BY <1>2 DEF Ordered
<1>5. Ahead(m, {Head(q)}, In(r))
  BY <1>3 DEF Ahead, In
<1>6. QED
  BY <1>4, <1>5 DEF r

\* A queue is not in order or out of it for the sake of an event that is not
\* remote.
LEMMA NotRemote ==
  ASSUME NEW m, NEW e, e.type \notin Remote
  PROVE  \A f : Before(m, e, f) /\ Before(m, f, e)
  BY DEF Before, Remote

\* The offers of earlier candidates stay when one more is received.
LEMMA BeforeGrows ==
  ASSUME NEW m \in Seq(Nat), NEW k \in Nat, NEW s, NEW e, NEW f,
         Known(m, s, e), Known(m, s, f), Before(m, e, f)
  PROVE  Before(Append(m, k), e, f)
<1>1. \A c \in 1..Len(m) : Append(m, k)[c] = m[c]
  OBVIOUS
<1>2. QED
  BY <1>1 DEF Before, Known

-----------------------------------------------------------------------------
(* Types, and what the page holds.                                         *)

\* At the start nothing is on its way.
LEMMA TypedInit == Init => Typed /\ PageState
<1> SUFFICES ASSUME Init PROVE Typed /\ PageState
  OBVIOUS
<1>1. In(qt) = {} /\ In(down) = {} /\ In(up) = {}
  BY InEmpty DEF Init
<1>2. Len(<<>>) = 0
  OBVIOUS
<1>3. Typed
  <2>1. <<>> \in Seq(Nat) /\ <<>> \in Seq(Events)
    BY EmptySeq
  <2>2. remote \in BOOLEAN
    BY Zenon DEF Init
  <2>3. /\ sig = 0 /\ sessions = 0 /\ session = <<>> /\ of = <<>> /\ pc = 0
        /\ qt = <<>> /\ down = <<>> /\ up = <<>> /\ added = <<>> /\ pending = <<>>
    BY DEF Init
  <2>4. pc \in 0..Len(session) /\ \A c \in 1..Len(of) : of[c] <= Len(session)
    BY <1>2, <2>3
  <2>5. QED
    BY <1>1, <2>1, <2>2, <2>3, <2>4 DEF Typed, Received, Wired, Paged
<1>4. PageState
  BY DEF Init, PageState
<1>5. QED
  BY <1>3, <1>4

\* The wires after a step in which nothing is received from the server: every
\* event is an earlier one or known.
LEMMA WiredKept ==
  ASSUME Typed, UNCHANGED <<session, of>>,
         qt' \in Seq(Events), down' \in Seq(Events), up' \in Seq(Events),
         \A e \in In(qt') \cup In(down') \cup In(up') :
           e \in In(qt) \cup In(down) \cup In(up) \/ Known(of, session, e),
         \A e \in In(up') : e.type \in Replies
  PROVE  Wired'
  BY DEF Typed, Wired

\* A step that neither touches the wires nor the page.
LEMMA PartsSame ==
  ASSUME Typed
  PROVE  /\ UNCHANGED <<sig, sessions, session, of>> => Received'
         /\ UNCHANGED <<session, of, qt, down, up>> => Wired'
         /\ UNCHANGED <<session, pc, added, pending, remote>> => Paged'
  BY DEF Typed, Received, Wired, Paged

\* An event is emitted to the page.
LEMMA WiredEmit ==
  ASSUME Typed, NEW e \in Events, Known(of, session, e), Emit(e)
  PROVE  /\ down' = down \/ down' = Append(down, e)
         /\ down' \in Seq(Events) /\ In(down') \subseteq In(down) \cup {e}
         /\ page = "ready" => In(down') = In(down) \cup {e}
<1>1. down \in Seq(Events)
  BY DEF Typed, Wired
<1>2. IF page = "ready" THEN down' = Append(down, e) ELSE down' = down
  BY DEF Emit
<1>3. Append(down, e) \in Seq(Events) /\ In(Append(down, e)) = In(down) \cup {e}
  BY <1>1, Push
<1>4. QED
  BY <1>1, <1>2, <1>3

\* signalingClosed is emitted.
LEMMA TypedEmitClosed ==
  ASSUME Typed, Emit(Closed), sig' \in Nat, sessions' \in Nat,
         UNCHANGED <<session, of, qt, up, js>>
  PROVE  Typed'
<1>1. Closed \in Events /\ Known(of, session, Closed)
  BY ClosedFields DEF Known, Replies
<1>2. down' \in Seq(Events) /\ In(down') \subseteq In(down) \cup {Closed}
  BY <1>1, WiredEmit
<1>3. Wired'
  <2>1. \A e \in In(qt') \cup In(down') \cup In(up') :
          e \in In(qt) \cup In(down) \cup In(up) \/ Known(of, session, e)
    BY <1>1, <1>2
  <2>2. qt' \in Seq(Events) /\ up' \in Seq(Events) /\ \A e \in In(up') : e.type \in Replies
    BY DEF Typed, Wired
  <2>3. QED
    BY <1>2, <2>1, <2>2, WiredKept
<1>4. Paged'
  BY PartsSame DEF js
<1>5. Received'
  BY DEF Typed, Received
<1>6. QED
  BY <1>3, <1>4, <1>5 DEF Typed

\* An offer is received.
LEMMA TypedOnOffer == ASSUME Typed, OnOffer PROVE Typed'
<1> DEFINE e == Event("offer", Len(session) + 1)
<1>1. /\ session' = Append(session, sig) /\ qt' = Append(qt, e)
      /\ UNCHANGED <<sig, sessions, of, down, up, pc, added, pending, remote>>
  BY DEF OnOffer, js
<1>2. /\ session \in Seq(Nat) /\ sig \in Nat /\ qt \in Seq(Events) /\ Len(session) \in Nat
      /\ Len(of) \in Nat
  BY DEF Typed, Received, Wired, Paged
<1>3. session' \in Seq(Nat) /\ Len(session') = Len(session) + 1
  BY <1>1, <1>2
<1>4. e \in Events /\ e.type = "offer" /\ e.n = Len(session) + 1
  BY <1>2, EventFields DEF Remote
<1> HIDE DEF e
<1>5. qt' \in Seq(Events) /\ In(qt') = In(qt) \cup {e}
  BY <1>1, <1>2, <1>4, Push
<1>6. Known(of', session', e)
  BY <1>1, <1>2, <1>3, <1>4 DEF Known, Replies
<1>7. \A f : Known(of, session, f) => Known(of', session', f)
  BY <1>1, <1>2, <1>3 DEF Known
<1>8. \A f \in In(qt') \cup In(down') \cup In(up') : Known(of', session', f)
  BY <1>1, <1>5, <1>6, <1>7 DEF Typed, Received, Wired, Paged
<1>9. /\ pc' \in 0..Len(session')
      /\ of' \in Seq(Nat) /\ \A c \in 1..Len(of') : of'[c] <= Len(session')
  <2>1. pc \in 0..Len(session) /\ of \in Seq(Nat)
    BY DEF Typed, Received, Wired, Paged
  <2>2. \A c \in 1..Len(of) : of[c] \in Nat /\ of[c] <= Len(session)
    BY <2>1, ElementOfSeq DEF Typed, Received, Wired, Paged
  <2>3. QED
    BY <1>1, <1>2, <1>3, <2>1, <2>2
<1>10. QED
  BY <1>1, <1>3, <1>5, <1>8, <1>9 DEF Typed, Received, Wired, Paged

\* A candidate is received.
LEMMA TypedOnIce == ASSUME Typed, OnIce PROVE Typed'
<1> DEFINE e == Event("ice", Len(of) + 1)
<1>1. /\ of' = Append(of, Len(session)) /\ qt' = Append(qt, e)
      /\ UNCHANGED <<sig, sessions, session, down, up, pc, added, pending, remote>>
  BY DEF OnIce, js
<1>2. /\ of \in Seq(Nat) /\ qt \in Seq(Events) /\ Len(session) \in Nat /\ Len(of) \in Nat
  BY DEF Typed, Received, Wired, Paged
<1>3. /\ of' \in Seq(Nat) /\ Len(of') = Len(of) + 1 /\ of'[Len(of) + 1] = Len(session)
      /\ \A c \in 1..Len(of) : of'[c] = of[c]
  BY <1>1, <1>2
<1>4. e \in Events /\ e.type = "ice" /\ e.n = Len(of) + 1
  BY <1>2, EventFields DEF Remote
<1> HIDE DEF e
<1>5. qt' \in Seq(Events) /\ In(qt') = In(qt) \cup {e}
  BY <1>1, <1>2, <1>4, Push
<1>6. Known(of', session', e)
  BY <1>1, <1>2, <1>3, <1>4 DEF Known, Replies
<1>7. \A f : Known(of, session, f) => Known(of', session', f)
  BY <1>1, <1>2, <1>3 DEF Known
<1>8. \A f \in In(qt') \cup In(down') \cup In(up') : Known(of', session', f)
  BY <1>1, <1>5, <1>6, <1>7 DEF Typed, Received, Wired, Paged
<1>9. \A c \in 1..Len(of') : of'[c] <= Len(session')
  <2>1. \A c \in 1..Len(of') : c \in 1..Len(of) \/ c = Len(of) + 1
    BY <1>2, <1>3
  <2>2. QED
    BY <1>1, <1>2, <1>3, <2>1 DEF Typed, Received, Wired, Paged
<1>10. QED
  BY <1>1, <1>3, <1>5, <1>8, <1>9 DEF Typed, Received, Wired, Paged

\* The Qt thread takes its next event.
LEMMA TypedQt ==
  ASSUME Typed, qt # <<>>, qt' = Tail(qt), UNCHANGED <<receiver, up, js>>,
         down' = down \/ Emit(Head(qt))
  PROVE  Typed'
<1>1. /\ qt \in Seq(Events) /\ down \in Seq(Events) /\ up \in Seq(Events)
      /\ \A e \in In(qt) : Known(of, session, e)
      /\ \A e \in In(up) : e.type \in Replies
  BY DEF Typed, Wired
<1>2. Head(qt) \in Events /\ qt' \in Seq(Events) /\ In(qt) = {Head(qt)} \cup In(qt')
  BY <1>1, Pop
<1>3. down' \in Seq(Events) /\ In(down') \subseteq In(down) \cup {Head(qt)}
  <2>1. Known(of, session, Head(qt))
    BY <1>1, <1>2
  <2>2. QED
    BY <1>1, <1>2, <2>1, WiredEmit
<1>4. Wired'
  <2>1. \A e \in In(qt') \cup In(down') \cup In(up') :
          e \in In(qt) \cup In(down) \cup In(up) \/ Known(of, session, e)
    BY <1>2, <1>3
  <2>2. QED
    BY <1>1, <1>2, <1>3, <2>1, WiredKept DEF receiver
<1>5. Received' /\ Paged'
  BY PartsSame DEF receiver, js
<1>6. QED
  BY <1>4, <1>5 DEF Typed

\* A reply of the page is queued for the Qt thread.
LEMMA TypedSlot == ASSUME Typed, BridgeSlot PROVE Typed'
<1>1. /\ up # <<>> /\ qt' = Append(qt, Head(up)) /\ up' = Tail(up)
      /\ UNCHANGED <<receiver, down, js>>
  BY DEF BridgeSlot
<1>2. /\ qt \in Seq(Events) /\ down \in Seq(Events) /\ up \in Seq(Events)
      /\ \A e \in In(up) : Known(of, session, e)
      /\ \A e \in In(up) : e.type \in Replies
  BY DEF Typed, Wired
<1>3. Head(up) \in Events /\ up' \in Seq(Events) /\ In(up) = {Head(up)} \cup In(up')
  BY <1>1, <1>2, Pop
<1>4. qt' \in Seq(Events) /\ In(qt') = In(qt) \cup {Head(up)}
  BY <1>1, <1>2, <1>3, Push
<1>5. Wired'
  <2>1. \A e \in In(qt') \cup In(down') \cup In(up') :
          e \in In(qt) \cup In(down) \cup In(up) \/ Known(of, session, e)
    BY <1>1, <1>3, <1>4
  <2>2. QED
    BY <1>1, <1>2, <1>3, <1>4, <2>1, WiredKept DEF receiver
<1>6. Received' /\ Paged'
  BY <1>1, PartsSame DEF receiver, js
<1>7. QED
  BY <1>5, <1>6 DEF Typed

\* The page is loaded or goes.
LEMMA TypedPage ==
  ASSUME Typed, down' = <<>>, up' = <<>>, FreshPage, UNCHANGED <<receiver, qt>>
  PROVE  Typed'
<1>1. In(down') = {} /\ In(up') = {} /\ <<>> \in Seq(Events) /\ <<>> \in Seq(Nat)
  BY InEmpty, EmptySeq
<1>2. Wired'
  BY <1>1 DEF Typed, Wired, receiver
<1>3. Paged'
  <2>1. pc' = 0 /\ pending' = <<>> /\ added' = <<>> /\ session' = session
    BY DEF FreshPage, receiver
  <2>2. remote' \in BOOLEAN
    BY Zenon DEF FreshPage
  <2>3. Len(session) \in Nat
    BY DEF Typed, Received
  <2>4. QED
    BY <1>1, <2>1, <2>2, <2>3 DEF Paged
<1>4. Received'
  BY PartsSame DEF receiver
<1>5. QED
  BY <1>2, <1>3, <1>4 DEF Typed

\* The page takes its next event.
LEMMA TypedTask ==
  ASSUME Typed, down # <<>>, down' = Tail(down), Paged', UNCHANGED <<receiver, qt, up>>
  PROVE  Typed'
<1>1. down \in Seq(Events)
  BY DEF Typed, Wired
<1>2. down' \in Seq(Events) /\ In(down') \subseteq In(down)
  BY <1>1, Pop
<1>3. Wired'
  BY <1>2 DEF Typed, Wired, receiver
<1>4. Received'
  BY PartsSame DEF receiver
<1>5. QED
  BY <1>3, <1>4 DEF Typed

\* The page sends a reply.
LEMMA TypedReply ==
  ASSUME Typed, pc # 0, NEW t \in Replies, up' = Append(up, Event(t, pc)),
         UNCHANGED <<receiver, qt, down, pc, added, pending, remote>>
  PROVE  Typed'
<1> DEFINE e == Event(t, pc)
<1>1. pc \in 1..Len(session) /\ pc \in Nat /\ up \in Seq(Events)
  BY DEF Typed, Paged, Received, Wired
<1>2. e \in Events /\ e.type = t /\ e.n = pc
  BY <1>1, EventFields
<1>3. Known(of, session, e)
  BY <1>1, <1>2 DEF Known, Replies
<1>4. up' = Append(up, e)
  OBVIOUS
<1> HIDE DEF e
<1>5. up' \in Seq(Events) /\ In(up') = In(up) \cup {e}
  BY <1>1, <1>2, <1>4, Push
<1>6. Wired'
  BY <1>2, <1>3, <1>5 DEF Typed, Wired, receiver
<1>7. Received' /\ Paged'
  BY PartsSame DEF receiver
<1>8. QED
  BY <1>6, <1>7 DEF Typed

\* The event that the page takes.
LEMMA NextEvent ==
  ASSUME Typed, down # <<>>
  PROVE  /\ Head(down) \in Events /\ Known(of, session, Head(down))
         /\ Tail(down) \in Seq(Events) /\ In(down) = {Head(down)} \cup In(Tail(down))
<1>1. down \in Seq(Events) /\ \A e \in In(down) : Known(of, session, e)
  BY DEF Typed, Wired
<1>2. QED
  BY <1>1, Pop

\* A fresh page is well typed.
LEMMA PagedFresh == ASSUME Typed, FreshPage, session' = session PROVE Paged'
<1>1. pc' = 0 /\ pending' = <<>> /\ added' = <<>> /\ <<>> \in Seq(Nat)
  BY EmptySeq DEF FreshPage
<1>2. remote' \in BOOLEAN
  BY Zenon DEF FreshPage
<1>3. Len(session) \in Nat
  BY DEF Typed, Received
<1>4. QED
  BY <1>1, <1>2, <1>3 DEF Paged

\* An offer reaches the page ...
LEMMA TypedOfferReceived == ASSUME Typed, OfferReceived PROVE Typed'
<1>1. /\ down # <<>> /\ Head(down).type = "offer" /\ down' = Tail(down)
      /\ pc' = Head(down).n /\ pending' = <<>> /\ added' = <<>>
      /\ UNCHANGED <<receiver, qt, up>>
  BY DEF OfferReceived
<1>2. remote' \in BOOLEAN
  BY Zenon DEF OfferReceived
<1>3. Head(down).n \in 1..Len(session) /\ Len(session) \in Nat /\ <<>> \in Seq(Nat)
  BY <1>1, NextEvent, EmptySeq DEF Known, Typed, Received
<1>4. Paged'
  BY <1>1, <1>2, <1>3 DEF Paged, receiver
<1>5. QED
  BY <1>1, <1>4, TypedTask

\* ... or a candidate does.
LEMMA TypedIceReceived == ASSUME Typed, IceCandidateReceived PROVE Typed'
<1> DEFINE c == Head(down).n
<1>1. /\ down # <<>> /\ Head(down).type = "ice" /\ down' = Tail(down)
      /\ pending' = pending \/ pending' = Append(pending, c)
      /\ added' = added \/ added' = Append(added, c)
      /\ UNCHANGED <<receiver, qt, up, pc, remote>>
  BY DEF IceCandidateReceived
<1>2. c \in Nat
  BY <1>1, NextEvent DEF Events
<1> HIDE DEF c
<1>3. pending \in Seq(Nat) /\ added \in Seq(Nat)
  BY DEF Typed, Paged
<1>4. pending' \in Seq(Nat) /\ added' \in Seq(Nat)
  <2>1. Append(pending, c) \in Seq(Nat) /\ Append(added, c) \in Seq(Nat)
    BY <1>2, <1>3, AppendProperties
  <2>2. QED
    BY <1>1, <1>3, <2>1
<1>5. Paged'
  BY <1>1, <1>4 DEF Typed, Paged, receiver
<1>6. QED
  BY <1>1, <1>5, TypedTask

\* The queue of candidates is flushed.
LEMMA TypedSetRemote == ASSUME Typed, SetRemoteResolves PROVE Typed'
<1>1. /\ UNCHANGED <<receiver, wires, pc>> /\ added' = added \o pending /\ pending' = <<>>
  BY DEF SetRemoteResolves, FlushPending
<1>2. remote' \in BOOLEAN
  BY Zenon DEF SetRemoteResolves
<1>3. added' \in Seq(Nat) /\ pending' \in Seq(Nat)
  <2>1. added \in Seq(Nat) /\ pending \in Seq(Nat)
    BY DEF Typed, Paged
  <2>2. added \o pending \in Seq(Nat) /\ <<>> \in Seq(Nat)
    BY <2>1, ConcatProperties, EmptySeq
  <2>3. QED
    BY <1>1, <2>2
<1>4. Paged'
  BY <1>1, <1>2, <1>3 DEF Typed, Paged, receiver
<1>5. Received' /\ Wired'
  BY <1>1, PartsSame DEF receiver, wires
<1>6. QED
  BY <1>4, <1>5 DEF Typed

\* The steps that leave the receiver, the wires and the page's candidates alone.
Inner ==
  \/ SetupBridge \/ CreateAnswerResolves \/ NegotiationError
  \/ OnConnectionStateChange \/ UNCHANGED vars

\* They do leave them alone.
LEMMA InnerUnchanged ==
  ASSUME Inner
  PROVE  UNCHANGED <<sig, sessions, hurried, session, of, qt, down, up, pc, remote, added,
                     pending, astray>>
<1>1. CASE SetupBridge
  BY <1>1 DEF SetupBridge, receiver, js, sent
<1>2. CASE CreateAnswerResolves
  BY <1>2 DEF CreateAnswerResolves, receiver, wires, sent
<1>3. CASE NegotiationError
  BY <1>3 DEF NegotiationError, receiver, wires, sent
<1>4. CASE OnConnectionStateChange
  BY <1>4 DEF OnConnectionStateChange, receiver, wires, sent
<1>5. CASE UNCHANGED vars
  BY <1>5 DEF vars, receiver, wires, js, sent
<1>6. QED
  BY <1>1, <1>2, <1>3, <1>4, <1>5 DEF Inner

\* Every step is one of these.
LEMMA Steps ==
  ASSUME [Next]_vars
  PROVE  \/ RequestPermissionAndConnect \/ Disconnect \/ OnOffer \/ OnIce
         \/ EmitQueued \/ OnBridge \/ BridgeSlot \/ OnWebSocketClient \/ CloseWebClient
         \/ OfferReceived \/ IceCandidateReceived \/ SignalingClosed
         \/ SetRemoteResolves \/ SetLocalResolves \/ OnIceCandidate \/ Inner
  BY DEF Next, QtStep, PageTask, Settle, Inner

\* Every step keeps the types.
LEMMA TypedStep == Typed /\ [Next]_vars => Typed'
<1> SUFFICES ASSUME Typed, [Next]_vars PROVE Typed'
  OBVIOUS
<1>1. CASE RequestPermissionAndConnect
  <2>1. sig' \in Nat /\ sessions' \in Nat
    BY <1>1 DEF RequestPermissionAndConnect, Typed, Received
  <2>2. QED
    BY <1>1, <2>1, TypedEmitClosed DEF RequestPermissionAndConnect
<1>2. CASE Disconnect
  <2>1. sig' \in Nat /\ sessions' \in Nat
    BY <1>2 DEF Disconnect, Typed, Received
  <2>2. QED
    BY <1>2, <2>1, TypedEmitClosed DEF Disconnect
<1>3. CASE EmitQueued
  BY <1>3, TypedQt DEF EmitQueued
<1>4. CASE OnBridge
  BY <1>4, TypedQt DEF OnBridge
<1>5. CASE OnWebSocketClient
  BY <1>5, TypedPage DEF OnWebSocketClient
<1>6. CASE CloseWebClient
  BY <1>6, TypedPage DEF CloseWebClient
<1>7. CASE SignalingClosed
  <2>1. /\ down # <<>> /\ down' = Tail(down) /\ FreshPage
        /\ UNCHANGED <<receiver, qt, up>>
    BY <1>7 DEF SignalingClosed
  <2>2. Paged'
    BY <2>1, PagedFresh DEF receiver
  <2>3. QED
    BY <2>1, <2>2, TypedTask
<1>8. CASE SetLocalResolves
  <2>1. "answer" \in Replies
    BY DEF Replies
  <2>2. QED
    BY <1>8, <2>1, TypedReply DEF SetLocalResolves
<1>9. CASE OnIceCandidate
  <2>1. "local" \in Replies
    BY DEF Replies
  <2>2. QED
    BY <1>9, <2>1, TypedReply DEF OnIceCandidate
<1>10. CASE Inner
  BY <1>10, InnerUnchanged, PartsSame DEF Typed
<1>11. QED
  BY <1>1, <1>2, <1>3, <1>4, <1>5, <1>6, <1>7, <1>8, <1>9, <1>10, Steps, TypedOnOffer,
     TypedOnIce, TypedSlot, TypedOfferReceived, TypedIceReceived, TypedSetRemote

\* Every step keeps what the page holds.
LEMMA PageStep == Typed /\ PageState /\ [Next]_vars => PageState'
<1> SUFFICES ASSUME Typed, PageState, [Next]_vars PROVE PageState'
  OBVIOUS
<1>1. CASE UNCHANGED <<page, up, js>> /\ (page # "ready" => down' = down)
  BY <1>1 DEF PageState, js
<1>2. CASE RequestPermissionAndConnect \/ Disconnect \/ OnOffer \/ OnIce
           \/ EmitQueued \/ OnBridge
  <2>1. UNCHANGED <<page, up, js>>
    BY <1>2 DEF RequestPermissionAndConnect, Disconnect, OnOffer, OnIce, EmitQueued, OnBridge
  <2>2. page # "ready" => down' = down
    BY <1>2 DEF RequestPermissionAndConnect, Disconnect, OnOffer, OnIce, EmitQueued, OnBridge,
                Emit
  <2>3. QED
    BY <1>1, <2>1, <2>2
<1>3. CASE BridgeSlot
  <2>1. page = "ready" /\ UNCHANGED <<page, js>>
    BY <1>3 DEF BridgeSlot, PageState
  <2>2. QED
    BY <2>1 DEF PageState, js
<1>4. CASE FreshPage /\ ((down' = <<>> /\ up' = <<>>) \/ page' = "ready")
  <2>1. pc' = 0 /\ pending' = <<>> /\ added' = <<>> /\ ~remote'
    BY <1>4 DEF FreshPage
  <2>2. QED
    BY <1>4, <2>1 DEF PageState
<1>5. CASE OnWebSocketClient \/ CloseWebClient
  BY <1>4, <1>5 DEF OnWebSocketClient, CloseWebClient
<1>6. CASE SignalingClosed
  BY <1>4, <1>6 DEF SignalingClosed, PageState
<1>7. CASE OfferReceived
  <2>1. page' = "ready" /\ pending' = <<>> /\ added' = <<>> /\ ~remote'
    BY <1>7 DEF OfferReceived, PageState
  <2>2. QED
    BY <2>1 DEF PageState
<1>8. CASE IceCandidateReceived
  <2>1. /\ page' = "ready" /\ UNCHANGED <<pc, remote>>
        /\ pending' # pending => pc # 0 /\ ~remote
        /\ added' # added => pc # 0 /\ remote
    BY <1>8 DEF IceCandidateReceived, PageState
  <2>2. QED
    BY <2>1 DEF PageState
<1>9. CASE SetRemoteResolves
  <2>1. page = "ready" /\ page' = page /\ pending' = <<>> /\ remote' /\ pc' = pc /\ pc # 0
    BY <1>9 DEF SetRemoteResolves, FlushPending, PageState, wires
  <2>2. QED
    BY <2>1 DEF PageState
<1>10. CASE SetLocalResolves \/ OnIceCandidate
  <2>1. page = "ready" /\ UNCHANGED <<page, pc, pending, added, remote>>
    BY <1>10 DEF SetLocalResolves, OnIceCandidate, PageState
  <2>2. QED
    BY <2>1 DEF PageState
<1>11. CASE Inner
  <2>1. UNCHANGED <<down, up, pc, remote, added, pending>>
    BY <1>11, InnerUnchanged
  <2>2. page' = page \/ page' = "ready"
    BY <1>11
    DEF Inner, SetupBridge, CreateAnswerResolves, NegotiationError, OnConnectionStateChange,
        vars, wires
  <2>3. QED
    BY <2>1, <2>2 DEF PageState
<1>12. QED
  BY <1>2, <1>3, <1>5, <1>6, <1>7, <1>8, <1>9, <1>10, <1>11, Steps

\* No candidate waits in the page's queue once the remote description is set.
THEOREM WebViewNothingStranded == Spec => []NothingStranded
<1>1. PageState => NothingStranded
  BY DEF PageState, NothingStranded
<1>2. QED
  BY <1>1, TypedInit, TypedStep, PageStep, PTL DEF Spec

\* The page polls statistics only of a connection that has not failed.
THEOREM WebViewStatsOnlyWhileConnected == Spec => []StatsOnlyWhileConnected
<1>1. Init => StatsOnlyWhileConnected
  BY DEF Init, StatsOnlyWhileConnected
<1>2. ASSUME StatsOnlyWhileConnected, [Next]_vars PROVE StatsOnlyWhileConnected'
  <2>1. CASE UNCHANGED <<pc, peer, stats>> \/ ~stats'
    BY <1>2, <2>1 DEF StatsOnlyWhileConnected
  <2>2. CASE RequestPermissionAndConnect \/ Disconnect \/ OnOffer \/ OnIce
             \/ EmitQueued \/ OnBridge \/ BridgeSlot \/ SetupBridge
    <3>1. UNCHANGED js
      BY <2>2 DEF RequestPermissionAndConnect, Disconnect, OnOffer, OnIce, EmitQueued,
                  OnBridge, BridgeSlot, SetupBridge
    <3>2. QED
      BY <2>1, <3>1 DEF js
  <2>3. CASE OnWebSocketClient \/ CloseWebClient \/ SignalingClosed \/ OfferReceived
    BY <2>1, <2>3 DEF OnWebSocketClient, CloseWebClient, SignalingClosed, OfferReceived,
                      FreshPage
  <2>4. CASE IceCandidateReceived \/ Settle \/ OnIceCandidate
    BY <2>1, <2>4 DEF IceCandidateReceived, Settle, SetRemoteResolves, CreateAnswerResolves,
                      SetLocalResolves, NegotiationError, OnIceCandidate
  <2>5. CASE OnConnectionStateChange
    BY <1>2, <2>5 DEF OnConnectionStateChange, PeerStates, StatsOnlyWhileConnected
  <2>6. CASE UNCHANGED vars
    BY <2>1, <2>6 DEF vars, js
  <2>7. QED
    BY <1>2, <2>2, <2>3, <2>4, <2>5, <2>6 DEF Next, QtStep, PageTask
<1>3. QED
  BY <1>1, <1>2, PTL DEF Spec

-----------------------------------------------------------------------------
(* The order of what is on its way.                                        *)

\* The queues stay in order: what is appended to one comes after all that is in
\* it and before all that is behind it.
LEMMA OrderStep == Typed /\ PageState /\ InOrder /\ [Next]_vars => InOrder'
<1> SUFFICES ASSUME Typed, PageState, InOrder, [Next]_vars PROVE InOrder'
  OBVIOUS
<1>1. /\ qt \in Seq(Events) /\ down \in Seq(Events) /\ up \in Seq(Events)
      /\ Ordered(of, down) /\ Ordered(of, qt) /\ Ahead(of, In(down), In(qt))
      /\ of \in Seq(Nat) /\ Len(of) \in Nat /\ Len(session) \in Nat
      /\ \A c, d \in 1..Len(of) : c <= d => of[c] <= of[d]
  BY DEF Typed, Received, Wired, InOrder
<1>2. ASSUME UNCHANGED of, Ordered(of, down'), Ordered(of, qt'), Ahead(of, In(down'), In(qt'))
      PROVE  InOrder'
  BY <1>1, <1>2 DEF InOrder
<1>3. CASE RequestPermissionAndConnect \/ Disconnect
  <2>1. Emit(Closed) /\ UNCHANGED <<qt, of>>
    BY <1>3 DEF RequestPermissionAndConnect, Disconnect
  <2>2. /\ Closed \in Events /\ \A f : Before(of, Closed, f) /\ Before(of, f, Closed)
        /\ Known(of, session, Closed)
    BY ClosedFields, NotRemote DEF Remote, Known, Replies
  <2>3. /\ down' = down \/ down' = Append(down, Closed)
        /\ In(down') \subseteq In(down) \cup {Closed}
    BY <2>1, <2>2, WiredEmit
  <2>4. Ordered(of, Append(down, Closed))
    BY <1>1, <2>2, OrderedPush DEF Ahead
  <2>5. Ahead(of, In(down'), In(qt))
    BY <1>1, <2>2, <2>3 DEF Ahead
  <2>6. QED
    BY <1>1, <1>2, <2>1, <2>3, <2>4, <2>5
<1>4. CASE OnOffer
  <2> DEFINE e == Event("offer", Len(session) + 1)
  <2>1. qt' = Append(qt, e) /\ UNCHANGED <<of, down>>
    BY <1>4 DEF OnOffer
  <2>2. e \in Events /\ e.type = "offer" /\ e.n = Len(session) + 1
    BY <1>1, EventFields DEF Remote
  <2> HIDE DEF e
  <2>3. ASSUME NEW f \in In(qt) \cup In(down) PROVE Before(of, f, e)
    <3>1. Known(of, session, f)
      BY DEF Typed, Wired
    <3>2. f.type = "offer" => f.n \in 1..Len(session)
      BY <3>1 DEF Known
    <3>3. f.type = "ice" => of[f.n] \in Nat /\ of[f.n] <= Len(session)
      BY <1>1, <3>1 DEF Known, Typed, Received
    <3>4. QED
      BY <1>1, <2>2, <3>2, <3>3 DEF Before, Remote
  <2>4. Ordered(of, qt')
    BY <1>1, <2>1, <2>2, <2>3, OrderedPush DEF Ahead
  <2>5. In(qt') = In(qt) \cup {e}
    BY <1>1, <2>1, <2>2, Push
  <2>6. Ahead(of, In(down'), In(qt'))
    BY <1>1, <2>1, <2>3, <2>5 DEF Ahead
  <2>7. QED
    BY <1>1, <1>2, <2>1, <2>4, <2>6
<1>5. CASE OnIce
  <2> DEFINE e == Event("ice", Len(of) + 1)
  <2>1. qt' = Append(qt, e) /\ of' = Append(of, Len(session)) /\ down' = down
    BY <1>5 DEF OnIce
  <2>2. e \in Events /\ e.type = "ice" /\ e.n = Len(of) + 1
    BY <1>1, EventFields DEF Remote
  <2>3. /\ Len(of') = Len(of) + 1 /\ of'[Len(of) + 1] = Len(session)
        /\ \A c \in 1..Len(of) : of'[c] = of[c]
    BY <1>1, <2>1
  <2> HIDE DEF e
  <2>4. ASSUME NEW f \in In(qt) \cup In(down) PROVE Before(of', f, e)
    <3>1. Known(of, session, f)
      BY DEF Typed, Wired
    <3>2. /\ f.type = "offer" => f.n \in 1..Len(session)
          /\ f.type = "ice" => f.n \in 1..Len(of)
      BY <3>1 DEF Known
    <3>3. QED
      BY <1>1, <2>2, <2>3, <3>2 DEF Before, Remote
  <2>5. ASSUME NEW f \in In(qt) \cup In(down), NEW g \in In(qt) \cup In(down), Before(of, f, g)
        PROVE  Before(of', f, g)
    <3>1. Known(of, session, f) /\ Known(of, session, g)
      BY DEF Typed, Wired
    <3>2. QED
      BY <1>1, <2>1, <2>5, <3>1, BeforeGrows
  <2>6. Ordered(of', down) /\ Ordered(of', qt)
    BY <1>1, <2>5 DEF Ordered, In
  <2>7. Ordered(of', qt')
    BY <1>1, <2>1, <2>2, <2>4, <2>6, OrderedPush DEF Ahead
  <2>8. In(qt') = In(qt) \cup {e}
    BY <1>1, <2>1, <2>2, Push
  <2>9. Ahead(of', In(down'), In(qt'))
    BY <1>1, <2>1, <2>4, <2>5, <2>8 DEF Ahead
  <2>10. \A c, d \in 1..Len(of') : c <= d => of'[c] <= of'[d]
    <3>1. \A c \in 1..Len(of') : c \in 1..Len(of) \/ c = Len(of) + 1
      BY <1>1, <2>3
    <3>2. \A c \in 1..Len(of) : of[c] \in Nat /\ of[c] <= Len(session)
      BY <1>1 DEF Typed, Received
    <3>3. ASSUME NEW c \in 1..Len(of'), NEW d \in 1..Len(of'), c <= d PROVE of'[c] <= of'[d]
      <4>1. CASE d \in 1..Len(of)
        <5>1. c \in 1..Len(of)
          BY <1>1, <3>1, <3>3, <4>1
        <5>2. QED
          BY <1>1, <2>3, <3>3, <4>1, <5>1
      <4>2. CASE d = Len(of) + 1
        <5>1. CASE c \in 1..Len(of)
          BY <1>1, <2>3, <3>2, <4>2, <5>1
        <5>2. CASE c = Len(of) + 1
          BY <1>1, <2>3, <4>2, <5>2
        <5>3. QED
          BY <3>1, <5>1, <5>2
      <4>3. QED
        BY <3>1, <4>1, <4>2
    <3>4. QED
      BY <3>3
  <2>11. QED
    BY <2>1, <2>6, <2>7, <2>9, <2>10 DEF InOrder
<1>6. CASE EmitQueued \/ OnBridge
  <2>1. /\ qt # <<>> /\ qt' = Tail(qt) /\ of' = of
        /\ down' = down \/ down' = Append(down, Head(qt))
    BY <1>6 DEF EmitQueued, OnBridge, Emit, receiver
  <2>2. Head(qt) \in Events /\ In(qt) = {Head(qt)} \cup In(qt')
    BY <1>1, <2>1, Pop
  <2>3. Ordered(of, qt') /\ Ahead(of, {Head(qt)}, In(qt'))
    BY <1>1, <2>1, OrderedPop
  <2>4. Ahead(of, In(down), {Head(qt)}) /\ Ahead(of, In(down), In(qt'))
    BY <1>1, <2>2 DEF Ahead
  <2>5. Ordered(of, Append(down, Head(qt))) /\ In(Append(down, Head(qt))) = In(down) \cup {Head(qt)}
    <3>1. Ordered(of, Append(down, Head(qt)))
      BY <1>1, <2>2, <2>4, OrderedPush
    <3>2. QED
      BY <1>1, <2>2, <3>1, InPush, Zenon
  <2>6. Ordered(of, down') /\ Ahead(of, In(down'), In(qt'))
    <3>1. In(down') \subseteq In(down) \cup {Head(qt)} /\ Ordered(of, down')
      BY <1>1, <2>1, <2>5
    <3>2. Ahead(of, In(down'), In(qt'))
      BY <2>3, <2>4, <3>1 DEF Ahead
    <3>3. QED
      BY <3>1, <3>2
  <2>7. QED
    BY <1>2, <2>1, <2>3, <2>6
<1>7. CASE BridgeSlot
  <2>1. /\ up # <<>> /\ qt' = Append(qt, Head(up)) /\ UNCHANGED <<of, down>>
    BY <1>7 DEF BridgeSlot, receiver
  <2>2. Head(up) \in Events /\ Head(up).type \in Replies
    BY <1>1, <2>1, Pop DEF Typed, Wired
  <2>3. \A f : Before(of, f, Head(up))
    BY <2>2, NotRemote DEF Remote, Replies
  <2>4. Ordered(of, qt') /\ In(qt') = In(qt) \cup {Head(up)}
    <3>1. Ahead(of, In(qt), {Head(up)})
      BY <2>3 DEF Ahead
    <3>2. Ordered(of, Append(qt, Head(up)))
      BY <1>1, <2>2, <3>1, OrderedPush
    <3>3. Ordered(of, qt')
      BY <2>1, <3>2, Zenon
    <3>4. QED
      BY <1>1, <2>1, <2>2, <3>3, Posted, Zenon
  <2>5. Ahead(of, In(down'), In(qt'))
    BY <1>1, <2>1, <2>3, <2>4 DEF Ahead
  <2>6. QED
    BY <1>1, <1>2, <2>1, <2>4, <2>5
<1>8. CASE OnWebSocketClient \/ CloseWebClient
  <2>1. down' = <<>> /\ UNCHANGED <<of, qt>>
    BY <1>8 DEF OnWebSocketClient, CloseWebClient, receiver
  <2>2. Ordered(of, <<>>) /\ In(down') = {}
    BY <2>1, InEmpty DEF Ordered
  <2>3. QED
    BY <1>1, <1>2, <2>1, <2>2 DEF Ahead
<1>9. CASE OfferReceived \/ IceCandidateReceived \/ SignalingClosed
  <2>1. down # <<>> /\ down' = Tail(down) /\ UNCHANGED <<of, qt>>
    BY <1>9 DEF OfferReceived, IceCandidateReceived, SignalingClosed, receiver
  <2>2. Ordered(of, down') /\ In(down') \subseteq In(down)
    BY <1>1, <2>1, OrderedPop, Pop
  <2>3. QED
    BY <1>1, <1>2, <2>1, <2>2 DEF Ahead
<1>10. CASE SetRemoteResolves \/ SetLocalResolves \/ OnIceCandidate \/ Inner
  <2>1. UNCHANGED <<of, down, qt>>
    BY <1>10, InnerUnchanged DEF SetRemoteResolves, SetLocalResolves, OnIceCandidate, receiver, wires
  <2>2. QED
    BY <1>1, <1>2, <2>1
<1>11. QED
  BY <1>3, <1>4, <1>5, <1>6, <1>7, <1>8, <1>9, <1>10, Steps

-----------------------------------------------------------------------------
(* The candidates of the page's connection.                                *)

\* What is said of the candidates depends only on the remote events that are on
\* their way.
LEMMA OwnKept ==
  ASSUME NothingMissing, PageBehind, OwnCandidates,
         UNCHANGED <<session, of, pc, Candidates>>,
         \A e : e.type \in Remote => (e \in Coming' <=> e \in Coming)
  PROVE  NothingMissing' /\ PageBehind' /\ OwnCandidates'
<1>1. \A c : Event("ice", c).type = "ice" /\ Event("offer", c).type = "offer"
  BY EventFields
<1>2. NothingMissing'
  BY <1>1 DEF NothingMissing, Remote
<1>3. PageBehind'
  BY DEF PageBehind, Remote
<1>4. OwnCandidates'
  BY DEF OwnCandidates
<1>5. QED
  BY <1>2, <1>3, <1>4

\* The connection is closed and the events of one queue are lost, or the first
\* event that was on its way: none that is left depends on those.
LEMMA OwnLost ==
  ASSUME Typed, NothingMissing, PageBehind, UNCHANGED <<session, of>>,
         pc' = 0, Candidates' = <<>>, Coming' \subseteq Coming,
         \A e \in Coming \ Coming', f \in Coming' : Before(of, e, f)
  PROVE  NothingMissing' /\ PageBehind' /\ OwnCandidates'
<1>1. \A c : /\ Event("ice", c).type = "ice" /\ Event("ice", c).n = c
            /\ Event("offer", c).type = "offer" /\ Event("offer", c).n = c
  BY EventFields
<1>2. \A f \in Coming : Known(of, session, f)
  BY DEF Typed, Wired, Coming
<1>3. \A c \in 1..Len(of) : of[c] \in Nat
  BY DEF Typed, Received
<1>4. ASSUME NEW e \in Coming', NEW c \in 1..Len(of), e.type = "offer", of[c] = e.n
      PROVE  Event("ice", c) \in Coming'
  <2>1. Event("ice", c) \in Coming
    BY <1>4 DEF NothingMissing
  <2>2. ~Before(of, Event("ice", c), e)
    BY <1>1, <1>3, <1>4 DEF Before
  <2>3. QED
    BY <2>1, <2>2
<1>5. ASSUME NEW e \in Coming', NEW o \in 1..Len(session), e.type = "offer", e.n < o
      PROVE  Event("offer", o) \in Coming'
  <2>1. Event("offer", o) \in Coming
    BY <1>5 DEF NothingMissing
  <2>2. Known(of, session, e)
    BY <1>2
  <2>3. ~Before(of, Event("offer", o), e)
    BY <1>1, <1>5, <2>2 DEF Before, Known, Remote
  <2>4. QED
    BY <2>1, <2>3
<1>6. NothingMissing'
  BY <1>4, <1>5 DEF NothingMissing
<1>7. In(Candidates') = {} /\ Len(Candidates') = 0
  BY InEmpty
<1>8. PageBehind'
  <2>1. \A e \in Coming' : /\ e.type = "offer" => 0 < e.n
                           /\ e.type = "ice" => 0 <= of[e.n]
    BY <1>2, <1>3 DEF Known
  <2>2. QED
    BY <1>7, <2>1 DEF PageBehind
<1>9. OwnCandidates'
  BY <1>7 DEF OwnCandidates, Consecutive
<1>10. QED
  BY <1>6, <1>8, <1>9

\* The first event on its way is ahead of all the others.
LEMMA FirstComing ==
  ASSUME Typed, InOrder, down # <<>>, down' = Tail(down), qt' = qt
  PROVE  /\ Coming = {Head(down)} \cup Coming'
         /\ \A f \in Coming' : Before(of, Head(down), f)
<1>1. down \in Seq(Events)
  BY DEF Typed, Wired
<1>2. In(down) = {Head(down)} \cup In(down')
  BY <1>1, Pop
<1>3. Ahead(of, {Head(down)}, In(down'))
  BY <1>1, OrderedPop DEF InOrder
<1>4. Ahead(of, {Head(down)}, In(qt))
  BY <1>2 DEF InOrder, Ahead
<1>5. QED
  BY <1>2, <1>3, <1>4 DEF Coming, Ahead

\* The page makes a connection: the candidates of its offer are all on their way.
LEMMA OwnOffer ==
  ASSUME OrderInv, OfferReceived
  PROVE  NothingMissing' /\ PageBehind' /\ OwnCandidates'
<1> DEFINE h == Head(down)
<1>1. /\ Typed /\ InOrder /\ NothingMissing
  BY DEF OrderInv
<1>2. /\ down # <<>> /\ down' = Tail(down) /\ qt' = qt /\ UNCHANGED <<session, of>>
      /\ h.type = "offer" /\ pc' = h.n
      /\ pending' = <<>> /\ added' = <<>>
  BY DEF OfferReceived, receiver
<1>3. Coming = {h} \cup Coming' /\ \A f \in Coming' : Before(of, h, f)
  BY <1>1, <1>2, FirstComing
<1>4. \A c : /\ Event("ice", c).type = "ice" /\ Event("ice", c).n = c
            /\ Event("offer", c).type = "offer" /\ Event("offer", c).n = c
  BY EventFields
<1>5. Candidates' = <<>> /\ In(Candidates') = {} /\ Len(Candidates') = 0
  BY <1>2, InEmpty DEF Candidates
<1> HIDE DEF h
<1>6. h \in Coming
  BY <1>3
<1>7. NothingMissing'
  <2>1. ASSUME NEW e \in Coming', NEW c \in 1..Len(of), e.type = "offer", of[c] = e.n
        PROVE  Event("ice", c) \in Coming'
    BY <1>1, <1>2, <1>3, <1>4, <2>1 DEF NothingMissing
  <2>2. ASSUME NEW e \in Coming', NEW o \in 1..Len(session), e.type = "offer", e.n < o
        PROVE  Event("offer", o) \in Coming'
    <3>1. Event("offer", o) \in Coming
      BY <1>1, <1>3, <2>2 DEF NothingMissing
    <3>2. h.n < e.n
      BY <1>2, <1>3, <2>2 DEF Before, Remote
    <3>3. h.n \in Nat /\ e.n \in Nat
      BY <1>1, <1>2, <1>3, <2>2 DEF Typed, Wired, Known, Coming
    <3>4. h.n # o
      BY <2>2, <3>2, <3>3
    <3>5. QED
      BY <1>3, <1>4, <3>1, <3>4
  <2>3. ASSUME NEW o \in 1..Len(session), h.n < o PROVE Event("offer", o) \in Coming'
    <3>1. Event("offer", o) \in Coming
      BY <1>1, <1>2, <1>6, <2>3 DEF NothingMissing
    <3>2. h.n \in Nat
      BY <1>1, <1>2, <1>6 DEF Typed, Wired, Known, Coming
    <3>3. h.n # o
      BY <2>3, <3>2
    <3>4. QED
      BY <1>3, <1>4, <3>1, <3>3
  <2>4. ASSUME NEW c \in 1..Len(of), of[c] = h.n PROVE Event("ice", c) \in Coming'
    BY <1>1, <1>2, <1>3, <1>4, <1>6, <2>4 DEF NothingMissing
  <2>5. QED
    BY <1>2, <2>1, <2>2, <2>3, <2>4 DEF NothingMissing
<1>8. PageBehind'
  <2>1. \A e \in Coming' : /\ e.type = "offer" => h.n < e.n
                           /\ e.type = "ice" => h.n <= of[e.n]
    BY <1>2, <1>3 DEF Before, Remote
  <2>2. QED
    BY <1>2, <1>5, <2>1 DEF PageBehind
<1>9. OwnCandidates'
  BY <1>5 DEF OwnCandidates, Consecutive
<1>10. QED
  BY <1>7, <1>8, <1>9

\* A candidate that comes next is of the connection's offer, and the next of its
\* candidates.
LEMMA OwnIce ==
  ASSUME OrderInv, IceCandidateReceived, pc # 0
  PROVE  NothingMissing' /\ PageBehind' /\ OwnCandidates'
<1> DEFINE h == Head(down)
           n == Head(down).n
           q == Candidates
<1>1. Typed /\ PageState /\ InOrder /\ NothingMissing /\ PageBehind /\ OwnCandidates
  BY DEF OrderInv
<1>2. /\ down # <<>> /\ down' = Tail(down) /\ qt' = qt /\ UNCHANGED <<session, of, pc, remote>>
      /\ h.type = "ice"
  BY DEF IceCandidateReceived, receiver
<1>3. Coming = {h} \cup Coming' /\ \A f \in Coming' : Before(of, h, f)
  BY <1>1, <1>2, FirstComing
<1>4. \A c : /\ Event("ice", c).type = "ice" /\ Event("ice", c).n = c
            /\ Event("offer", c).type = "offer" /\ Event("offer", c).n = c
  BY EventFields
<1>5. /\ n \in 1..Len(of) /\ Len(of) \in Nat /\ Len(session) \in Nat
      /\ \A c \in 1..Len(of) : of[c] \in 0..Len(session)
      /\ pc \in 1..Len(session)
  <2>1. Known(of, session, h)
    BY <1>1, <1>2, NextEvent
  <2>2. n \in 1..Len(of)
    BY <1>2, <2>1 DEF Known
  <2>3. of \in Seq(Nat) /\ session \in Seq(Nat) /\ \A c \in 1..Len(of) : of[c] <= Len(session)
    BY <1>1 DEF Typed, Received
  <2>4. pc \in 0..Len(session)
    BY <1>1 DEF Typed, Paged
  <2>5. QED
    BY <2>2, <2>3, <2>4
<1>6. q \in Seq(Nat) /\ q' = Append(q, n)
  BY <1>1, <1>2 DEF IceCandidateReceived, Candidates, Typed, Paged
<1>7. h.n = n /\ h \in Coming
  BY <1>3
<1> HIDE DEF h, n, q
<1>8. of[n] = pc
  <2>1. pc <= of[n]
    BY <1>1, <1>2, <1>7 DEF PageBehind
  <2>2. ASSUME pc < of[n] PROVE FALSE
    <3>1. of[n] \in 1..Len(session)
      BY <1>5, <2>2
    <3>2. Event("offer", of[n]) \in Coming
      BY <1>1, <1>5, <2>2, <3>1 DEF NothingMissing
    <3>3. Event("offer", of[n]) \in Coming'
      BY <1>2, <1>3, <1>4, <3>2
    <3>4. of[n] < of[n]
      BY <1>2, <1>3, <1>4, <1>7, <3>3 DEF Before
    <3>5. QED
      BY <1>5, <3>4
  <2>3. QED
    BY <1>5, <2>1, <2>2
<1>9. /\ In(q') = In(q) \cup {n} /\ Len(q) \in Nat /\ Len(q') = Len(q) + 1
      /\ q'[Len(q) + 1] = n /\ \A i \in 1..Len(q) : q'[i] = q[i]
  <2>1. n \in Nat
    BY <1>5
  <2>2. QED
    BY <1>6, <2>1, Push
<1>10. ASSUME NEW c \in 1..Len(of), of[c] = pc
       PROVE  c \in In(q) \/ n <= c
  <2>1. Event("ice", c) \in Coming \/ c \in In(q)
    BY <1>1, <1>5, <1>10 DEF NothingMissing, q
  <2>2. ASSUME Event("ice", c) \in Coming' PROVE n < c
    BY <1>2, <1>3, <1>4, <1>7, <2>2 DEF Before, Remote
  <2>3. QED
    BY <1>3, <1>4, <1>5, <1>7, <2>1, <2>2
<1>11. NothingMissing'
  <2>1. ASSUME NEW e \in Coming', NEW c \in 1..Len(of), e.type = "offer", of[c] = e.n
        PROVE  Event("ice", c) \in Coming'
    <3>1. Event("ice", c) \in Coming
      BY <1>1, <1>3, <2>1 DEF NothingMissing
    <3>2. of[n] < e.n
      BY <1>2, <1>3, <1>7, <2>1 DEF Before
    <3>3. c # n
      BY <1>5, <2>1, <3>2
    <3>4. QED
      BY <1>3, <1>4, <1>7, <3>1, <3>3
  <2>2. ASSUME NEW e \in Coming', NEW o \in 1..Len(session), e.type = "offer", e.n < o
        PROVE  Event("offer", o) \in Coming'
    BY <1>1, <1>2, <1>3, <1>4, <2>2 DEF NothingMissing
  <2>3. ASSUME NEW o \in 1..Len(session), pc < o PROVE Event("offer", o) \in Coming'
    BY <1>1, <1>2, <1>3, <1>4, <1>5, <2>3 DEF NothingMissing
  <2>4. ASSUME NEW c \in 1..Len(of), of[c] = pc
        PROVE  Event("ice", c) \in Coming' \/ c \in In(q')
    <3>1. Event("ice", c) \in Coming \/ c \in In(q)
      BY <1>1, <1>5, <2>4 DEF NothingMissing, q
    <3>2. QED
      BY <1>3, <1>4, <1>7, <1>9, <3>1
  <2>5. QED
    BY <1>2, <2>1, <2>2, <2>3, <2>4 DEF NothingMissing, q
<1>12. PageBehind'
  <2>1. ASSUME NEW e \in Coming' PROVE e.type = "offer" => pc < e.n
    BY <1>1, <1>3 DEF PageBehind
  <2>2. ASSUME NEW e \in Coming', e.type = "ice"
        PROVE  pc <= of[e.n] /\ \A c \in In(q') : c < e.n
    <3>1. pc <= of[e.n] /\ \A c \in In(q) : c < e.n
      BY <1>1, <1>3, <2>2 DEF PageBehind, q
    <3>2. n < e.n
      BY <1>2, <1>3, <1>7, <2>2 DEF Before, Remote
    <3>3. QED
      BY <1>9, <3>1, <3>2
  <2>3. QED
    BY <1>2, <2>1, <2>2 DEF PageBehind, q
<1>13. OwnCandidates'
  <2>1. /\ \A c \in In(q) : c \in 1..Len(of) /\ of[c] = pc /\ c < n
        /\ \A i \in 1..Len(q) : q[i] = q[1] + (i - 1)
        /\ q # <<>> => \A c \in 1..Len(of) : c < q[1] => of[c] # pc
    BY <1>1, <1>2, <1>7 DEF OwnCandidates, Consecutive, PageBehind, q
  <2>2. \A c \in In(q') : c \in 1..Len(of) /\ of[c] = pc
    BY <1>5, <1>8, <1>9, <2>1
  <2>3. CASE q = <<>>
    <3>1. Len(q) = 0 /\ In(q) = {}
      BY <2>3, InEmpty
    <3>2. Len(q') = 1 /\ q'[1] = n
      BY <1>9, <3>1
    <3>3. \A c \in 1..Len(of) : c < n => of[c] # pc
      BY <1>5, <1>10, <3>1
    <3>4. \A i \in 1..Len(q') : q'[i] = q'[1] + (i - 1)
      BY <1>5, <3>2
    <3>5. QED
      BY <1>2, <2>2, <3>2, <3>3, <3>4 DEF OwnCandidates, Consecutive, q
  <2>4. CASE q # <<>>
    <3> DEFINE m == q[Len(q)]
    <3>1. Len(q) > 0 /\ Len(q) \in 1..Len(q) /\ 1 \in 1..Len(q)
      BY <1>6, <1>9, <2>4, EmptySeq
    <3>2. m \in In(q) /\ q[1] \in In(q) /\ m = q[1] + (Len(q) - 1)
      BY <2>1, <3>1 DEF In
    <3>3. m \in 1..Len(of) /\ q[1] \in 1..Len(of) /\ m < n /\ of[m] = pc
      BY <2>1, <3>2
    <3>4. \A c \in In(q) : c <= m
      <4>1. \A i \in 1..Len(q) : q[i] <= m
        BY <1>9, <2>1, <3>2, <3>3
      <4>2. QED
        BY <4>1 DEF In
    <3> HIDE DEF m
    <3>5. n = m + 1
      <4>1. SUFFICES ASSUME m + 1 < n PROVE FALSE
        BY <1>5, <3>3
      <4>2. m + 1 \in 1..Len(of) /\ m <= m + 1 /\ m + 1 <= n
        BY <1>5, <3>3, <4>1
      <4>3. of[m] <= of[m + 1] /\ of[m + 1] <= of[n]
        BY <1>1, <1>5, <3>3, <4>2 DEF InOrder
      <4>4. of[m + 1] = pc
        BY <1>5, <1>8, <3>3, <4>2, <4>3
      <4>5. m + 1 \in In(q) \/ n <= m + 1
        BY <1>10, <4>2, <4>4
      <4>6. QED
        BY <1>5, <3>3, <3>4, <4>1, <4>5
    <3>6. q'[1] = q[1]
      BY <1>9, <3>1
    <3>7. ASSUME NEW i \in 1..Len(q') PROVE q'[i] = q'[1] + (i - 1)
      <4>1. CASE i \in 1..Len(q)
        BY <1>9, <2>1, <3>6, <4>1
      <4>2. CASE i = Len(q) + 1
        BY <1>9, <3>2, <3>3, <3>5, <3>6, <4>2
      <4>3. QED
        BY <1>9, <4>1, <4>2
    <3>8. \A c \in 1..Len(of) : c < q'[1] => of[c] # pc
      BY <2>1, <2>4, <3>6
    <3>9. QED
      BY <1>2, <2>2, <3>7, <3>8 DEF OwnCandidates, Consecutive, q
  <2>5. QED
    BY <2>3, <2>4
<1>14. QED
  BY <1>11, <1>12, <1>13

\* The page's two queues, one of which is empty, are the candidates.
LEMMA OneQueue ==
  ASSUME Typed, PageState
  PROVE  Candidates \in Seq(Nat) /\ added \o pending = Candidates
<1>1. added \in Seq(Nat) /\ pending \in Seq(Nat)
  BY DEF Typed, Paged
<1>2. added \o <<>> = added /\ <<>> \o pending = pending
  BY <1>1, ConcatEmptySeq
<1>3. QED
  BY <1>1, <1>2 DEF PageState, Candidates

\* Every step keeps the candidates of the page's connection in order.
LEMMA OwnStep ==
  OrderInv /\ [Next]_vars => NothingMissing' /\ PageBehind' /\ OwnCandidates'
<1> SUFFICES ASSUME OrderInv, [Next]_vars
             PROVE  NothingMissing' /\ PageBehind' /\ OwnCandidates'
  OBVIOUS
<1>1. Typed /\ PageState /\ InOrder /\ NothingMissing /\ PageBehind /\ OwnCandidates
  BY DEF OrderInv
<1>2. /\ qt \in Seq(Events) /\ down \in Seq(Events) /\ up \in Seq(Events)
      /\ of \in Seq(Nat) /\ session \in Seq(Nat) /\ Len(of) \in Nat /\ Len(session) \in Nat
      /\ \A c \in 1..Len(of) : of[c] \in Nat /\ of[c] <= Len(session)
      /\ pc \in 0..Len(session)
  BY <1>1 DEF Typed, Received, Wired, Paged
<1>3. \A c : /\ Event("ice", c).type = "ice" /\ Event("ice", c).n = c
            /\ Event("offer", c).type = "offer" /\ Event("offer", c).n = c
  BY EventFields
<1>4. \A f \in Coming : Known(of, session, f)
  BY <1>1 DEF Typed, Wired, Coming
<1>5. CASE RequestPermissionAndConnect \/ Disconnect
  <2>1. Emit(Closed) /\ UNCHANGED <<qt, of, session, js>>
    BY <1>5 DEF RequestPermissionAndConnect, Disconnect
  <2>2. In(down') = In(down) \/ In(down') = In(down) \cup {Closed}
    BY <1>2, <2>1, ClosedFields, Emitted, Zenon
  <2>3. \A e : e.type \in Remote => (e \in Coming' <=> e \in Coming)
    BY <2>1, <2>2, ClosedFields DEF Coming, Remote
  <2>4. UNCHANGED <<pc, Candidates>>
    BY <2>1 DEF js, Candidates
  <2>5. QED
    BY <1>1, <2>1, <2>3, <2>4, OwnKept
<1>6. CASE OnOffer
  <2> DEFINE o == Len(session) + 1
             e == Event("offer", o)
  <2>1. /\ qt' = Append(qt, e) /\ session' = Append(session, sig)
        /\ UNCHANGED <<of, down, js>>
    BY <1>6 DEF OnOffer
  <2>2. e \in Events /\ e.type = "offer" /\ e.n = o
    BY <1>2, EventFields DEF Remote
  <2>3. Len(session') = o
    BY <1>2, <2>1
  <2>4. Coming' = Coming \cup {e}
    BY <1>2, <2>1, <2>2, Posted, Zenon
  <2>5. UNCHANGED <<pc, Candidates>>
    BY <2>1 DEF js, Candidates
  <2>6. \A p \in 1..Len(session') : p \in 1..Len(session) \/ p = o
    BY <1>2, <2>3
  <2>7. \A c \in 1..Len(of) : of[c] < o
    BY <1>2
  <2> HIDE DEF e
  <2>8. NothingMissing'
    <3>1. \A f \in Coming', c \in 1..Len(of) :
            f.type = "offer" /\ of[c] = f.n => Event("ice", c) \in Coming'
      BY <1>1, <1>2, <2>2, <2>4, <2>7 DEF NothingMissing
    <3>2. \A p \in 1..Len(session') :
            p = o => Event("offer", p) \in Coming'
      BY <2>4 DEF e
    <3>3. ASSUME NEW f \in Coming', NEW p \in 1..Len(session'), f.type = "offer", f.n < p
          PROVE  Event("offer", p) \in Coming'
      <4>1. CASE p \in 1..Len(session)
        BY <1>1, <1>2, <2>2, <2>4, <3>3, <4>1 DEF NothingMissing
      <4>2. QED
        BY <2>6, <3>2, <4>1
    <3>4. ASSUME pc # 0, NEW p \in 1..Len(session'), pc < p PROVE Event("offer", p) \in Coming'
      <4>1. CASE p \in 1..Len(session)
        BY <1>1, <2>4, <3>4, <4>1 DEF NothingMissing
      <4>2. QED
        BY <2>6, <3>2, <4>1
    <3>5. pc # 0 => \A c \in 1..Len(of) :
                       of[c] = pc => Event("ice", c) \in Coming' \/ c \in In(Candidates)
      BY <1>1, <2>4 DEF NothingMissing
    <3>6. QED
      BY <2>1, <2>5, <3>1, <3>3, <3>4, <3>5 DEF NothingMissing
  <2>9. PageBehind'
    BY <1>1, <1>2, <2>1, <2>2, <2>4, <2>5 DEF PageBehind
  <2>10. OwnCandidates'
    BY <1>1, <2>1, <2>5 DEF OwnCandidates
  <2>11. QED
    BY <2>8, <2>9, <2>10
<1>7. CASE OnIce
  <2> DEFINE k == Len(of) + 1
             e == Event("ice", k)
  <2>1. /\ qt' = Append(qt, e) /\ of' = Append(of, Len(session))
        /\ UNCHANGED <<session, down, js>>
    BY <1>7 DEF OnIce
  <2>2. e \in Events /\ e.type = "ice" /\ e.n = k
    BY <1>2, EventFields DEF Remote
  <2>3. Len(of') = k /\ of'[k] = Len(session) /\ \A c \in 1..Len(of) : of'[c] = of[c]
    BY <1>2, <2>1
  <2>4. Coming' = Coming \cup {e}
    BY <1>2, <2>1, <2>2, Posted, Zenon
  <2>5. UNCHANGED <<pc, Candidates>>
    BY <2>1 DEF js, Candidates
  <2>6. \A c \in 1..Len(of') : c \in 1..Len(of) \/ c = k
    <3>1. \A c \in 1..Len(of) + 1 : c \in 1..Len(of) \/ c = Len(of) + 1
      BY <1>2
    <3>2. QED
      BY <2>3, <3>1
  <2>7. \A c \in In(Candidates) : c \in 1..Len(of)
    BY <1>1 DEF OwnCandidates
  <2>8. Event("ice", k) \in Coming'
    BY <2>4
  <2>9. k \in Nat /\ k > Len(of)
    BY <1>2
  <2> HIDE DEF e, k
  <2>10. NothingMissing'
    <3>1. ASSUME NEW f \in Coming', NEW c \in 1..Len(of'), f.type = "offer", of'[c] = f.n
          PROVE  Event("ice", c) \in Coming'
      <4>1. CASE c \in 1..Len(of)
        BY <1>1, <2>2, <2>3, <2>4, <3>1, <4>1 DEF NothingMissing
      <4>2. QED
        BY <2>6, <2>8, <4>1
    <3>2. ASSUME NEW f \in Coming', NEW p \in 1..Len(session), f.type = "offer", f.n < p
          PROVE  Event("offer", p) \in Coming'
      BY <1>1, <2>2, <2>4, <3>2 DEF NothingMissing
    <3>3. pc # 0 => \A p \in 1..Len(session) : pc < p => Event("offer", p) \in Coming'
      BY <1>1, <2>4 DEF NothingMissing
    <3>4. ASSUME pc # 0, NEW c \in 1..Len(of'), of'[c] = pc
          PROVE  Event("ice", c) \in Coming' \/ c \in In(Candidates)
      <4>1. CASE c \in 1..Len(of)
        BY <1>1, <2>3, <2>4, <3>4, <4>1 DEF NothingMissing
      <4>2. QED
        BY <2>6, <2>8, <4>1
    <3>5. QED
      BY <2>1, <2>5, <3>1, <3>2, <3>3, <3>4 DEF NothingMissing
  <2>11. PageBehind'
    <3>1. ASSUME NEW f \in Coming, f.type = "ice" PROVE of'[f.n] = of[f.n]
      BY <1>4, <2>3, <3>1 DEF Known
    <3>2. \A f \in Coming : /\ f.type = "offer" => pc < f.n
                            /\ f.type = "ice" => pc <= of'[f.n] /\ \A c \in In(Candidates) : c < f.n
      BY <1>1, <3>1 DEF PageBehind
    <3>3. pc <= of'[k] /\ \A c \in In(Candidates) : c < k
      BY <1>2, <2>3, <2>7, <2>9
    <3>4. QED
      BY <2>2, <2>4, <2>5, <3>2, <3>3 DEF PageBehind
  <2>12. OwnCandidates'
    <3>1. /\ \A c \in In(Candidates) : c \in 1..Len(of') /\ of'[c] = pc
          /\ Consecutive(Candidates)
      <4>1. \A c \in In(Candidates) : of[c] = pc
        BY <1>1 DEF OwnCandidates
      <4>2. 1..Len(of) \subseteq 1..Len(of')
        BY <1>2, <2>3, <2>9
      <4>3. QED
        BY <1>1, <2>3, <2>7, <4>1, <4>2 DEF OwnCandidates
    <3>2. ASSUME Candidates # <<>>, NEW c \in 1..Len(of'), c < Candidates[1] PROVE of'[c] # pc
      <4>1. Candidates[1] \in In(Candidates)
        <5>1. Candidates \in Seq(Nat)
          BY <1>1, OneQueue
        <5>2. 1 \in 1..Len(Candidates)
          BY <3>2, <5>1, EmptySeq, LenProperties
        <5>3. QED
          BY <5>2 DEF In
      <4>2. c \in 1..Len(of)
        BY <1>2, <2>3, <2>6, <2>7, <2>9, <3>2, <4>1
      <4>3. QED
        BY <1>1, <2>3, <3>2, <4>2 DEF OwnCandidates
    <3>3. QED
      BY <2>5, <3>1, <3>2 DEF OwnCandidates
  <2>13. QED
    BY <2>10, <2>11, <2>12
<1>8. CASE EmitQueued
  <2>1. /\ qt # <<>> /\ qt' = Tail(qt) /\ UNCHANGED <<of, session, pc, Candidates>>
        /\ Emit(Head(qt))
    BY <1>8 DEF EmitQueued, receiver, js, Candidates
  <2>2. Head(qt) \in Events /\ In(qt) = {Head(qt)} \cup In(qt')
    BY <1>2, <2>1, Pop
  <2>3. CASE page = "ready"
    <3>1. In(down') = In(down) \cup {Head(qt)}
      BY <1>2, <2>1, <2>2, <2>3, Emitted, Zenon
    <3>2. Coming' = Coming
      BY <2>2, <3>1 DEF Coming
    <3>3. QED
      BY <1>1, <2>1, <3>2, OwnKept
  <2>4. CASE page # "ready"
    <3>1. down' = down /\ down = <<>> /\ pc = 0
      BY <1>1, <2>1, <2>4 DEF Emit, PageState
    <3>2. In(down) = {} /\ In(down') = {}
      BY <3>1, InEmpty
    <3>3. Coming' = In(qt') /\ Coming = {Head(qt)} \cup In(qt')
      BY <2>2, <3>2 DEF Coming
    <3>4. Ahead(of, {Head(qt)}, In(qt'))
      BY <1>1, <1>2, <2>1, OrderedPop DEF InOrder
    <3>5. \A e \in Coming \ Coming', f \in Coming' : Before(of, e, f)
      BY <3>3, <3>4 DEF Ahead
    <3>6. Candidates = <<>> /\ Coming' \subseteq Coming
      BY <1>1, <3>1, <3>3 DEF PageState, Candidates
    <3>7. QED
      BY <1>1, <2>1, <3>1, <3>5, <3>6, OwnLost
  <2>5. QED
    BY <2>3, <2>4
<1>9. CASE OnBridge
  <2>1. /\ qt # <<>> /\ qt' = Tail(qt) /\ UNCHANGED <<of, session, pc, Candidates, down>>
        /\ Head(qt).type \in {"answer", "local"}
    BY <1>9 DEF OnBridge, receiver, js, Candidates
  <2>2. In(qt) = {Head(qt)} \cup In(qt')
    BY <1>2, <2>1, Pop
  <2>3. \A e : e.type \in Remote => (e \in Coming' <=> e \in Coming)
    BY <2>1, <2>2 DEF Coming, Remote
  <2>4. QED
    BY <1>1, <2>1, <2>3, OwnKept
<1>10. CASE BridgeSlot
  <2>1. /\ up # <<>> /\ qt' = Append(qt, Head(up))
        /\ UNCHANGED <<of, session, pc, Candidates, down>>
    BY <1>10 DEF BridgeSlot, receiver, js, Candidates
  <2>2. Head(up) \in Events /\ Head(up) \in In(up)
    BY <1>2, <2>1, Pop
  <2>3. Head(up).type \in Replies
    BY <1>1, <2>2 DEF Typed, Wired
  <2>4. In(qt') = In(qt) \cup {Head(up)}
    BY <1>2, <2>1, <2>2, Posted, Zenon
  <2>5. \A e : e.type \in Remote => (e \in Coming' <=> e \in Coming)
    BY <2>1, <2>3, <2>4 DEF Coming, Remote, Replies
  <2>6. QED
    BY <1>1, <2>1, <2>5, OwnKept
<1>11. CASE OnWebSocketClient \/ CloseWebClient
  <2>1. down' = <<>> /\ UNCHANGED <<of, session, qt>> /\ FreshPage
    BY <1>11 DEF OnWebSocketClient, CloseWebClient, receiver
  <2>2. pc' = 0 /\ Candidates' = <<>>
    BY <2>1 DEF FreshPage, Candidates
  <2>3. Coming' = In(qt)
    BY <2>1, InEmpty DEF Coming
  <2>4. \A e \in Coming \ Coming', f \in Coming' : Before(of, e, f)
    BY <1>1, <2>3 DEF Coming, InOrder, Ahead
  <2>5. Coming' \subseteq Coming
    BY <2>3 DEF Coming
  <2>6. QED
    BY <1>1, <2>1, <2>2, <2>4, <2>5, OwnLost
<1>12. CASE SignalingClosed
  <2>1. down # <<>> /\ down' = Tail(down) /\ UNCHANGED <<of, session, qt>> /\ FreshPage
    BY <1>12 DEF SignalingClosed, receiver
  <2>2. pc' = 0 /\ Candidates' = <<>>
    BY <2>1 DEF FreshPage, Candidates
  <2>3. Coming = {Head(down)} \cup Coming' /\ \A f \in Coming' : Before(of, Head(down), f)
    BY <1>1, <2>1, FirstComing
  <2>4. /\ Coming' \subseteq Coming
        /\ \A e \in Coming \ Coming', f \in Coming' : Before(of, e, f)
    BY <2>3
  <2>5. QED
    BY <1>1, <2>1, <2>2, <2>4, OwnLost
<1>13. CASE IceCandidateReceived /\ pc = 0
  <2>1. /\ down # <<>> /\ down' = Tail(down)
        /\ UNCHANGED <<of, session, qt, pc, remote, pending, added>>
    BY <1>13 DEF IceCandidateReceived, receiver
  <2>2. Candidates' = <<>>
    BY <1>1, <1>13, <2>1 DEF PageState, Candidates
  <2>3. Coming = {Head(down)} \cup Coming' /\ \A f \in Coming' : Before(of, Head(down), f)
    BY <1>1, <2>1, FirstComing
  <2>4. /\ Coming' \subseteq Coming
        /\ \A e \in Coming \ Coming', f \in Coming' : Before(of, e, f)
    BY <2>3
  <2>5. QED
    BY <1>1, <1>13, <2>1, <2>2, <2>4, OwnLost
<1>14. CASE SetRemoteResolves
  <2>1. /\ UNCHANGED <<of, session, pc, qt, down>> /\ remote'
        /\ added' = added \o pending
    BY <1>14 DEF SetRemoteResolves, FlushPending, receiver, wires
  <2>2. Candidates' = Candidates
    BY <1>1, <2>1, OneQueue DEF Candidates
  <2>3. Coming' = Coming
    BY <2>1 DEF Coming
  <2>4. QED
    BY <1>1, <2>1, <2>2, <2>3, OwnKept
<1>15. CASE SetLocalResolves \/ OnIceCandidate \/ Inner
  <2>1. UNCHANGED <<of, session, pc, qt, down, remote, added, pending>>
    BY <1>15, InnerUnchanged DEF SetLocalResolves, OnIceCandidate, receiver
  <2>2. Coming' = Coming /\ Candidates' = Candidates
    BY <2>1 DEF Coming, Candidates
  <2>3. QED
    BY <1>1, <2>1, <2>2, OwnKept
<1>16. QED
  BY <1>5, <1>6, <1>7, <1>8, <1>9, <1>10, <1>11, <1>12, <1>13, <1>14, <1>15, Steps,
     OwnOffer, OwnIce

\* The page gives a connection the candidates of its own offer and no others, in
\* the order in which they came and without a gap.
THEOREM WebViewCandidatesInOrder == Spec => []CandidatesInOrder
<1>1. Init => OrderInv
  <2> SUFFICES ASSUME Init PROVE OrderInv
    OBVIOUS
  <2>1. Typed /\ PageState
    BY TypedInit
  <2>2. /\ In(qt) = {} /\ In(down) = {} /\ Len(qt) = 0 /\ Len(down) = 0 /\ Len(of) = 0
        /\ pc = 0 /\ Candidates = <<>>
    BY InEmpty DEF Init, Candidates
  <2>3. Coming = {} /\ In(Candidates) = {} /\ Len(Candidates) = 0
    BY <2>2, InEmpty DEF Coming
  <2>4. InOrder
    BY <2>2 DEF InOrder, Ordered, Ahead
  <2>5. NothingMissing /\ PageBehind
    BY <2>2, <2>3 DEF NothingMissing, PageBehind
  <2>6. OwnCandidates
    BY <2>2, <2>3 DEF OwnCandidates, Consecutive
  <2>7. QED
    BY <2>1, <2>4, <2>5, <2>6 DEF OrderInv
<1>2. OrderInv /\ [Next]_vars => OrderInv'
  BY TypedStep, PageStep, OrderStep, OwnStep DEF OrderInv
<1>3. ASSUME OrderInv PROVE CandidatesInOrder
  <2> DEFINE q == added \o pending
  <2>1. Typed /\ PageState /\ OwnCandidates
    BY <1>3 DEF OrderInv
  <2>2. q = Candidates /\ Candidates \in Seq(Nat)
    BY <2>1, OneQueue
  <2>3. /\ \A i \in 1..Len(q) : q[i] \in 1..Len(of) /\ of[q[i]] = pc
        /\ \A i \in 1..Len(q) : q[i] = q[1] + (i - 1)
        /\ q # <<>> => \A c \in 1..Len(of) : c < q[1] => of[c] # pc
    BY <2>1, <2>2 DEF OwnCandidates, Consecutive, In
  <2>4. DOMAIN q = 1..Len(q) /\ q \in Seq(Nat) /\ Len(q) \in Nat /\ Len(of) \in Nat
    BY <2>1, <2>2, LenProperties DEF Typed, Received
  <2> HIDE DEF q
  <2>5. ASSUME NEW i \in 1..Len(q)
        PROVE  /\ of[q[i]] = pc
               /\ i > 1 => q[i] = q[i - 1] + 1
               /\ \A c \in 1..(q[1] - 1) : of[c] # pc
    <3>1. of[q[i]] = pc
      BY <2>3
    <3>2. 1 \in 1..Len(q)
      BY <2>4
    <3>3. q[1] \in 1..Len(of) /\ q # <<>>
      BY <2>3, <2>4, <3>2
    <3>4. ASSUME i > 1 PROVE q[i] = q[i - 1] + 1
      <4>1. i - 1 \in 1..Len(q)
        BY <2>4, <3>4
      <4>2. q[i] = q[1] + (i - 1) /\ q[i - 1] = q[1] + ((i - 1) - 1)
        BY <2>3, <4>1
      <4>3. QED
        BY <2>4, <3>3, <4>2
    <3>5. ASSUME NEW c \in 1..(q[1] - 1) PROVE of[c] # pc
      <4>1. c \in 1..Len(of) /\ c < q[1]
        BY <2>4, <3>3
      <4>2. QED
        BY <2>3, <3>3, <4>1
    <3>6. QED
      BY <3>1, <3>4, <3>5
  <2>6. QED
    BY <2>4, <2>5 DEF CandidatesInOrder, q
<1>4. QED
  BY <1>1, <1>2, <1>3, PTL DEF Spec

-----------------------------------------------------------------------------
(* Sessions, as long as the user waits for what is in flight.              *)

\* What is said of a session survives every step that brings no event of
\* another one and leaves the session alone.
LEMMA InSessionKept ==
  ASSUME InSession, UNCHANGED <<sig, hurried, session, astray>>,
         \A e \in Coming' \cup In(up') :
           e.type \in {"offer"} \cup Replies =>
             e \in Coming \cup In(up) \/ (pc # 0 /\ e.n = pc),
         \A e \in Coming' : e.type = "offer" => e \in Coming,
         pc' # 0 => pc' = pc \/ \E e \in Coming : e.type = "offer" /\ e.n = pc',
         pc' = 0 \/ pc' # pc \/ (Closed \in In(down) => Closed \in In(down'))
  PROVE  InSession'
<1> SUFFICES ASSUME ~hurried PROVE InSession'
  BY DEF InSession
<1>1. /\ ~astray
      /\ \A e \in Coming \cup In(up) :
           e.type \in {"offer"} \cup Replies => session[e.n] = sig \/ sig = 0
      /\ pc # 0 => session[pc] = sig \/ sig = 0
      /\ sig = 0 => /\ \A e \in Coming : e.type # "offer"
                    /\ pc = 0 \/ Closed \in In(down)
  BY DEF InSession
<1>2. \A e \in Coming' \cup In(up') :
        e.type \in {"offer"} \cup Replies => session[e.n] = sig \/ sig = 0
  BY <1>1
<1>3. pc' # 0 => session[pc'] = sig \/ sig = 0
  BY <1>1
<1>4. ASSUME sig = 0
      PROVE  (\A e \in Coming' : e.type # "offer") /\ (pc' = 0 \/ Closed \in In(down'))
  BY <1>1, <1>4
<1>5. QED
  BY <1>1, <1>2, <1>3, <1>4 DEF InSession

\* Every step keeps what is in flight in the session.
LEMMA InSessionStep ==
  Typed /\ PageState /\ InSession /\ [Next]_vars => InSession'
<1> SUFFICES ASSUME Typed, PageState, InSession, [Next]_vars PROVE InSession'
  OBVIOUS
<1>1. /\ qt \in Seq(Events) /\ down \in Seq(Events) /\ up \in Seq(Events)
      /\ session \in Seq(Nat) /\ Len(session) \in Nat /\ sig \in Nat
      /\ \A e \in In(up) : e.type \in Replies
      /\ \A e \in Coming \cup In(up) : Known(of, session, e)
      /\ pc \in 0..Len(session)
  BY DEF Typed, Received, Wired, Paged, Coming
<1>2. CASE RequestPermissionAndConnect \/ Disconnect
  <2> SUFFICES ASSUME ~hurried' PROVE InSession'
    BY DEF InSession
  <2>1. /\ Quiet /\ ~hurried /\ Emit(Closed) /\ (sig' = 0 \/ sig = 0)
        /\ UNCHANGED <<session, qt, up, pc, astray>>
    BY <1>2 DEF RequestPermissionAndConnect, Disconnect, js, sent
  <2>2. /\ qt = <<>> /\ down = <<>> /\ up = <<>>
    BY <2>1 DEF Quiet
  <2>3. In(qt') = {} /\ In(up') = {} /\ In(down) = {}
    BY <2>1, <2>2, InEmpty
  <2>4. /\ page = "ready" => In(down') = {Closed}
        /\ page # "ready" => In(down') = {}
    BY <1>1, <2>1, <2>3, ClosedFields, Emitted
  <2>5. \A e \in Coming' \cup In(up') : e.type \notin {"offer"} \cup Replies
    BY <2>3, <2>4, ClosedFields DEF Coming, Replies
  <2>6. sig = 0 => pc = 0
    BY <2>1, <2>3 DEF InSession
  <2>7. pc # 0 => page = "ready"
    BY DEF PageState
  <2>8. ~astray'
    BY <2>1 DEF InSession
  <2>9. pc' # 0 => sig' = 0 /\ Closed \in In(down')
    BY <2>1, <2>4, <2>6, <2>7
  <2>10. QED
    BY <2>5, <2>8, <2>9 DEF InSession
<1>3. CASE OnOffer
  <2> DEFINE e == Event("offer", Len(session) + 1)
  <2>1. /\ sig # 0 /\ session' = Append(session, sig) /\ qt' = Append(qt, e)
        /\ UNCHANGED <<sig, hurried, down, up, pc, astray>>
    BY <1>3 DEF OnOffer, js, sent
  <2>2. e \in Events /\ e.type = "offer" /\ e.n = Len(session) + 1
    <3>1. Len(session) + 1 \in Nat
      BY <1>1
    <3>2. QED
      BY <3>1, EventFields DEF Remote
  <2>3. session'[Len(session) + 1] = sig /\ \A o \in 1..Len(session) : session'[o] = session[o]
    BY <1>1, <2>1
  <2> HIDE DEF e
  <2>4. Coming' = Coming \cup {e} /\ In(up') = In(up)
    BY <1>1, <2>1, <2>2, Posted, Zenon
  <2> SUFFICES ASSUME ~hurried PROVE InSession'
    BY <2>1 DEF InSession
  <2>5. ASSUME NEW f \in Coming \cup In(up), f.type \in {"offer"} \cup Replies
        PROVE  session'[f.n] = sig \/ sig = 0
    <3>1. f.n \in 1..Len(session)
      BY <1>1, <2>5 DEF Known
    <3>2. session[f.n] = sig \/ sig = 0
      BY <2>5 DEF InSession
    <3>3. QED
      BY <2>3, <3>1, <3>2
  <2>6. \A f \in Coming' \cup In(up') :
          f.type \in {"offer"} \cup Replies => session'[f.n] = sig \/ sig = 0
    BY <2>2, <2>3, <2>4, <2>5
  <2>7. pc # 0 => session'[pc] = sig
    <3>1. ASSUME pc # 0 PROVE pc \in 1..Len(session) /\ session[pc] = sig
      <4>1. session[pc] = sig
        BY <2>1, <3>1 DEF InSession
      <4>2. pc \in 1..Len(session)
        BY <1>1, <3>1
      <4>3. QED
        BY <4>1, <4>2
    <3>2. QED
      BY <2>3, <3>1
  <2>8. QED
    BY <2>1, <2>6, <2>7 DEF InSession
<1>4. CASE OnIce
  <2> DEFINE e == Event("ice", Len(of) + 1)
  <2>1. /\ qt' = Append(qt, e) /\ UNCHANGED <<sig, hurried, session, down, up, pc, astray>>
    BY <1>4 DEF OnIce, js, sent
  <2>2. e \in Events /\ e.type = "ice"
    BY EventFields DEF Remote, Typed, Received
  <2> HIDE DEF e
  <2>3. Coming' = Coming \cup {e} /\ In(up') = In(up)
    BY <1>1, <2>1, <2>2, Posted, Zenon
  <2>4. QED
    BY <2>1, <2>2, <2>3, InSessionKept DEF Replies
<1>5. CASE EmitQueued
  <2>1. /\ qt # <<>> /\ qt' = Tail(qt) /\ Emit(Head(qt))
        /\ UNCHANGED <<sig, hurried, session, up, pc, astray>>
    BY <1>5 DEF EmitQueued, receiver, js, sent
  <2>2. Head(qt) \in Events /\ In(qt) = {Head(qt)} \cup In(qt')
    BY <1>1, <2>1, Pop
  <2>3. In(down') = In(down) \/ In(down') = In(down) \cup {Head(qt)}
    BY <1>1, <2>1, <2>2, Emitted, Zenon
  <2>4. Coming' \subseteq Coming /\ In(down) \subseteq In(down')
    BY <2>2, <2>3 DEF Coming
  <2>5. QED
    BY <2>1, <2>4, InSessionKept
<1>6. CASE OnBridge
  <2>1. /\ qt # <<>> /\ qt' = Tail(qt) /\ UNCHANGED <<sig, hurried, session, up, pc, down>>
        /\ Head(qt).type \in Replies
        /\ astray' = (astray \/ (sig # 0 /\ session[Head(qt).n] # sig))
    BY <1>6 DEF OnBridge, receiver, js, Replies
  <2>2. In(qt) = {Head(qt)} \cup In(qt')
    BY <1>1, <2>1, Pop
  <2>3. Coming' \subseteq Coming /\ Head(qt) \in Coming
    BY <2>1, <2>2 DEF Coming
  <2> SUFFICES ASSUME ~hurried PROVE InSession'
    BY <2>1 DEF InSession
  <2>4. session[Head(qt).n] = sig \/ sig = 0
    BY <2>1, <2>3 DEF InSession
  <2>5. ~astray'
    BY <2>1, <2>4 DEF InSession
  <2>6. QED
    BY <2>1, <2>3, <2>5 DEF InSession
<1>7. CASE BridgeSlot
  <2>1. /\ up # <<>> /\ qt' = Append(qt, Head(up)) /\ up' = Tail(up)
        /\ UNCHANGED <<sig, hurried, session, down, pc, astray>>
    BY <1>7 DEF BridgeSlot, receiver, js, sent
  <2>2. Head(up) \in Events /\ In(up) = {Head(up)} \cup In(up')
    BY <1>1, <2>1, Pop
  <2>3. In(qt') = In(qt) \cup {Head(up)} /\ Head(up).type # "offer"
    <3>1. In(Append(qt, Head(up))) = In(qt) \cup {Head(up)}
      BY <1>1, <2>2, InPush, Zenon
    <3>2. Head(up).type \in Replies
      BY <1>1, <2>2
    <3>3. QED
      BY <2>1, <3>1, <3>2 DEF Replies
  <2>4. /\ Coming' \cup In(up') \subseteq Coming \cup In(up)
        /\ \A e \in Coming' : e.type = "offer" => e \in Coming
    BY <2>1, <2>2, <2>3 DEF Coming
  <2>5. QED
    BY <2>1, <2>4, InSessionKept
<1>8. CASE OnWebSocketClient \/ CloseWebClient
  <2>1. /\ down' = <<>> /\ up' = <<>> /\ pc' = 0
        /\ UNCHANGED <<qt, sig, hurried, session, astray>>
    BY <1>8 DEF OnWebSocketClient, CloseWebClient, receiver, FreshPage, sent
  <2>2. Coming' \subseteq Coming /\ In(up') = {}
    BY <2>1, InEmpty DEF Coming
  <2>3. QED
    BY <2>1, <2>2, InSessionKept
<1>9. CASE OfferReceived \/ IceCandidateReceived \/ SignalingClosed
  <2>1. /\ down # <<>> /\ down' = Tail(down)
        /\ UNCHANGED <<qt, up, sig, hurried, session, astray>>
    BY <1>9 DEF OfferReceived, IceCandidateReceived, SignalingClosed, receiver, sent
  <2>2. In(down) = {Head(down)} \cup In(down')
    BY <1>1, <2>1, Pop
  <2>3. Coming' \subseteq Coming /\ Head(down) \in Coming
    BY <2>1, <2>2 DEF Coming
  <2>4. \/ pc' = 0
        \/ Head(down).type = "offer" /\ pc' = Head(down).n
        \/ Head(down).type = "ice" /\ pc' = pc
    BY <1>9 DEF OfferReceived, IceCandidateReceived, SignalingClosed, FreshPage
  <2>5. CASE pc' = 0 \/ (Head(down).type = "ice" /\ pc' = pc)
    <3>1. pc' = 0 \/ (Closed \in In(down) => Closed \in In(down'))
      BY <2>2, <2>5, ClosedFields
    <3>2. pc' # 0 => pc' = pc
      BY <2>5
    <3>3. QED
      BY <2>1, <2>3, <3>1, <3>2, InSessionKept
  <2>6. CASE Head(down).type = "offer" /\ pc' = Head(down).n
    <3>1. Closed \in In(down) => Closed \in In(down')
      BY <2>2, <2>6, ClosedFields
    <3>2. QED
      BY <2>1, <2>3, <2>6, <3>1, InSessionKept
  <2>7. QED
    BY <2>4, <2>5, <2>6
<1>10. CASE SetLocalResolves \/ OnIceCandidate
  <2>1. PICK t \in Replies : up' = Append(up, Event(t, pc))
    BY <1>10 DEF SetLocalResolves, OnIceCandidate, Replies
  <2>2. pc # 0 /\ UNCHANGED <<qt, down, sig, hurried, session, pc, astray>>
    BY <1>10 DEF SetLocalResolves, OnIceCandidate, receiver, sent
  <2> DEFINE e == Event(t, pc)
  <2>3. e \in Events /\ e.n = pc
    BY <1>1, EventFields
  <2>4. up' = Append(up, e)
    BY <2>1
  <2> HIDE DEF e
  <2>5. In(up') = In(up) \cup {e}
    BY <1>1, <2>3, <2>4, InPush, Zenon
  <2>6. Coming' = Coming
    BY <2>2 DEF Coming
  <2>7. QED
    BY <2>2, <2>3, <2>5, <2>6, InSessionKept
<1>11. CASE SetRemoteResolves \/ Inner
  <2>1. UNCHANGED <<qt, down, up, sig, hurried, session, pc, astray>>
    BY <1>11, InnerUnchanged DEF SetRemoteResolves, receiver, wires, sent
  <2>2. Coming' = Coming /\ In(up') = In(up) /\ In(down') = In(down)
    BY <2>1 DEF Coming
  <2>3. QED
    BY <2>1, <2>2, InSessionKept
<1>12. QED
  BY <1>2, <1>3, <1>4, <1>5, <1>6, <1>7, <1>8, <1>9, <1>10, <1>11, Steps

\* What holds of the sessions always.
LEMMA InSessionAlways == Spec => [](Typed /\ PageState /\ InSession)
<1>1. Init => InSession
  <2> SUFFICES ASSUME Init PROVE InSession
    OBVIOUS
  <2>1. In(qt) = {} /\ In(down) = {} /\ In(up) = {} /\ pc = 0 /\ ~astray
    BY InEmpty DEF Init
  <2>2. QED
    BY <2>1 DEF InSession, Coming
<1>2. QED
  BY <1>1, TypedInit, TypedStep, PageStep, InSessionStep, PTL DEF Spec

\* An answer or a local candidate is sent in the session of its offer, as long as
\* the user lets what is in flight arrive before connecting or disconnecting.
THEOREM WebViewSentInItsSession == Spec => []SentInItsSession
<1>1. InSession => SentInItsSession
  BY DEF InSession, SentInItsSession
<1>2. QED
  BY <1>1, InSessionAlways, PTL

\* When the user has disconnected and everything in flight has arrived, the page
\* has no connection.
THEOREM WebViewClosedIsIdle == Spec => []ClosedIsIdle
<1>1. ASSUME InSession PROVE ClosedIsIdle
  <2>1. down = <<>> => In(down) = {}
    BY InEmpty
  <2>2. QED
    BY <1>1, <2>1 DEF InSession, ClosedIsIdle, Quiet
<1>2. QED
  BY <1>1, InSessionAlways, PTL
=============================================================================
