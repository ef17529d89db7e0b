--------------------- MODULE ReceiverNegotiationProofs ---------------------
(***************************************************************************)
(* For any number of offers, candidates and sessions, and any interleaving *)
(* of the Qt thread with WebRTC's callbacks: a connection is answered at   *)
(* most once and is given the candidates of its own offer in order; unless *)
(* offers overlap, its observers are held, it is given a candidate only    *)
(* when its remote description is applied, and it is given all of them     *)
(* unless a push to the queue raced the flush.                             *)
(***************************************************************************)
EXTENDS ReceiverNegotiation, TLAPS

\* What the queues and sets hold.
Cands == Offers \X (1..MaxCands)
Events ==
  [type : {"offer"}, offer : Offers] \cup [type : {"ice"}, cand : Cands]
    \cup [type : {"answer"}, by : Offers]
Ops == [kind : OpKinds, pc : Offers, offer : Offers, by : Offers,
        res : {"running", "ok", "error"}]
Answers == [offer : Offers, pc : Offers]
Result(op, r) == [op EXCEPT !.res = r]
Open == {"new", "remote", "stable"}
Ready == {"remote", "stable"}
In(q) == {q[i] : i \in 1..Len(q)}

\* Types: of the queues and the threads, and of the connections.
Queues ==
  /\ offers \in 0..MaxOffers /\ cands \in 0..MaxCands
  /\ qt \in Seq(Events) /\ pending \in Seq(Cands)
  /\ qtPc \in [step : {"idle", "close"}] \cup [step : {"create"}, offer : Offers]
                \cup [step : {"push", "add"}, cand : Cands]
  /\ rtc \in [step : {"idle"}] \cup [step : {"clear"}, by : Offers]
               \cup [step : {"send"}, pc : Offers, offer : Offers, by : Offers]
Connections ==
  /\ pc \in 0..MaxOffers /\ conn \in [Offers -> Open \cup {"none", "closed"}]
  /\ ops \in SUBSET Ops /\ observer \in [OpKinds -> Nat]
  /\ added \in [Offers -> Seq(Cands)]
  /\ answers \in Seq(Answers)
Flags ==
  /\ overlapped \in BOOLEAN /\ applied \in BOOLEAN
  /\ raced \in BOOLEAN /\ crashed \in BOOLEAN
Typed == Queues /\ Connections /\ Flags

\* An offer gets its connection once, and only the current one is open.
Fresh ==
  /\ \A o \in Offers : offers < o => conn[o] = "none"
  /\ \A e \in In(qt) : e.type = "offer" => conn[e.offer] = "none"
  /\ qtPc.step = "create" => conn[qtPc.offer] = "none"
  /\ pc # 0 => conn[pc] \in Open
  /\ \A p \in Offers : conn[p] \in Open => p = pc
  /\ \A op \in ops : conn[op.pc] # "none"
  /\ rtc.step = "send" => conn[rtc.pc] # "none"
  /\ \A i \in 1..Len(answers) : conn[answers[i].pc] # "none"

\* What is spent on the answer of a connection: its local description is set
\* once, and that is reported, checked and sent once.
Spent == {"stable", "closed"}
Answered(op) == op.kind = "setLocal" /\ op.res = "ok"
OneAnswer ==
  /\ \A op \in ops : Answered(op) => conn[op.pc] \in Spent
  /\ \A op, other \in ops :
       Answered(op) /\ Answered(other) /\ op.pc = other.pc => op = other
  /\ rtc.step = "send" =>
       /\ conn[rtc.pc] \in Spent
       /\ \A op \in ops : Answered(op) => op.pc # rtc.pc
       /\ \A i \in 1..Len(answers) : answers[i].pc # rtc.pc
  /\ \A i \in 1..Len(answers) :
       /\ conn[answers[i].pc] \in Spent
       /\ \A op \in ops : Answered(op) => op.pc # answers[i].pc
  /\ OneAnswerPerConnection

\* Offers and candidates in the order in which they were sent.
Earlier(c, d) == c[1] < d[1] \/ (c[1] = d[1] /\ c[2] < d[2])
Before(e, f) ==
  /\ e.type = "offer" /\ f.type = "offer" => e.offer < f.offer
  /\ e.type = "offer" /\ f.type = "ice" => e.offer <= f.cand[1]
  /\ e.type = "ice" /\ f.type = "offer" => e.cand[1] < f.offer
  /\ e.type = "ice" /\ f.type = "ice" => Earlier(e.cand, f.cand)
Ahead(A, B) == \A e \in A, f \in B : Before(e, f)
Ordered(q) == \A i, j \in 1..Len(q) : i < j => Before(q[i], q[j])
\* The offer that is being handled or was made a connection last.
Current == IF qtPc.step = "create" THEN qtPc.offer ELSE pc
InOrder ==
  /\ Ordered(qt)
  /\ \A e \in In(qt) :
       /\ e.type = "offer" => Current < e.offer /\ e.offer <= offers
       /\ e.type = "ice" => Current <= e.cand[1] /\ e.cand[1] <= offers
                            /\ (e.cand[1] = offers => e.cand[2] <= cands)
  /\ pc <= Current /\ Current <= offers
  /\ qtPc.step = "create" => pc < qtPc.offer
  /\ \A e \in In(qt), o \in Offers :
       e.type = "offer" /\ e.offer < o /\ o <= offers => OfferEvent(o) \in In(qt)
  /\ Current # 0 =>
       \A o \in Offers : Current < o /\ o <= offers => OfferEvent(o) \in In(qt)

\* The candidates of a connection, on their way through the queue.
Rising(q) == \A i, j \in 1..Len(q) : i < j => q[i][2] < q[j][2]
Precede(A, B) == \A c \in A, d \in B : c[2] < d[2]
Waiting == {c \in Cands : c[1] = pc /\ IceEvent(c) \in In(qt)}
Held == IF qtPc.step \in {"push", "add"} THEN {qtPc.cand} ELSE {}
Sent(c) == pc = offers => c[2] <= cands
Given ==
  /\ \A p \in Offers : Rising(added[p]) /\ \A c \in In(added[p]) : c[1] = p
  /\ \A p \in Offers : conn[p] = "none" => added[p] = <<>>
Incoming ==
  /\ \A c \in Held : c[1] = pc /\ Sent(c)
  /\ Precede(Held, Waiting)
  /\ \A c \in In(added[pc]) : Sent(c)
  /\ Precede(In(added[pc]), Held \cup Waiting)
Queued ==
  /\ Rising(pending) /\ \A c \in In(pending) : c[1] = pc /\ Sent(c)
  /\ Precede(In(pending), Held \cup Waiting)
  /\ Precede(In(added[pc]), In(pending))
  /\ applied => qtPc.step # "push"
  /\ applied \/ qtPc.step = "add" => pending = <<>>
OwnCandidates ==
  /\ Given
  /\ qtPc.step = "add" => pc # 0
  /\ qtPc.step \in {"create", "close"} => pending = <<>>
  /\ pc # 0 => Incoming /\ (conn[pc] = "new" => Queued)

\* Unless offers overlapped, one chain of callbacks runs at a time: an operation,
\* a callback, an event that starts the next operation, or an offer.
NoStart(q) == \A e \in In(q) : e.type = "ice"
OneStart(q) ==
  \A i, j \in 1..Len(q) : q[i].type # "ice" /\ q[j].type # "ice" => i = j
Chain ==
  /\ \A op, other \in ops : op = other
  /\ ops # {} => rtc.step = "idle"
  /\ ops # {} \/ rtc.step # "idle" => qtPc.step # "create" /\ NoStart(qt)
  /\ qtPc.step = "create" => ~applied /\ NoStart(qt)
  /\ OneStart(qt)
Observed ==
  \A op \in ops : op.pc = pc /\ qtPc.step # "close" => observer[op.kind] = pc
ReadyForIce ==
  /\ applied /\ pc # 0 => conn[pc] \in Ready
  /\ qtPc.step = "add" => conn[pc] \in Ready
OneChain == ~overlapped => Chain /\ Observed /\ ReadyForIce

\* ... the operations that run are those of the current connection ...
OwnOps ==
  ~overlapped /\ pc # 0 =>
    \A op \in ops : op.pc = pc /\ (op.kind = "setRemote" => conn[pc] = "new")

\* ... and the candidates of the last offer wait until it is handled; then those
\* that have left the queue of events are the first ones, one after the other: in
\* m_pendingRemoteIce while the description is being applied, then in the
\* connection.
StillComing ==
  OfferEvent(offers) \in In(qt) \/ (qtPc.step = "create" /\ qtPc.offer = offers) =>
    \A n \in 1..cands : IceEvent(<<offers, n>>) \in In(qt)
Reached(q, H, p, n, E) ==
  /\ \A i \in 1..Len(q) : q[i] = <<p, i>>
  /\ \A c \in H : c = <<p, Len(q) + 1>>
  /\ Len(q) <= n /\ (H # {} => Len(q) < n)
  /\ \A i \in 1..n : i <= Len(q) \/ <<p, i>> \in H \/ IceEvent(<<p, i>>) \in E
Applying == \E op \in ops : op.kind = "setRemote"
Counted ==
  ~overlapped /\ ~raced /\ pc # 0 /\ pc = offers /\ qtPc.step # "close" =>
    /\ conn[pc] = "new" /\ Applying =>
         ~applied /\ added[pc] = <<>> /\ Reached(pending, Held, pc, cands, In(qt))
    /\ conn[pc] \in Ready =>
         /\ applied /\ qtPc.step # "push"
         /\ Reached(added[pc], Held, pc, cands, In(qt))

-----------------------------------------------------------------------------
(* Queues.                                                                 *)

\* The fields of an event, by its type.
LEMMA EventFields ==
  /\ \A o : OfferEvent(o).type = "offer" /\ OfferEvent(o).offer = o
  /\ \A c : IceEvent(c).type = "ice" /\ IceEvent(c).cand = c
  /\ \A o : AnswerEvent(o).type = "answer" /\ AnswerEvent(o).by = o
  /\ \A o \in Offers : OfferEvent(o) \in Events /\ AnswerEvent(o) \in Events
  /\ \A c \in Cands : IceEvent(c) \in Events
  /\ \A e \in Events :
       /\ e.type \in {"offer", "ice", "answer"}
       /\ e.type = "offer" => e.offer \in Offers /\ e = OfferEvent(e.offer)
       /\ e.type = "ice" => e.cand \in Cands /\ e = IceEvent(e.cand)
       /\ e.type = "answer" => e.by \in Offers
<1>1. /\ \A o : OfferEvent(o).type = "offer" /\ OfferEvent(o).offer = o
      /\ \A c : IceEvent(c).type = "ice" /\ IceEvent(c).cand = c
      /\ \A o : AnswerEvent(o).type = "answer" /\ AnswerEvent(o).by = o
  BY Zenon DEF OfferEvent, IceEvent, AnswerEvent
<1>2. /\ \A o \in Offers : OfferEvent(o) \in Events /\ AnswerEvent(o) \in Events
      /\ \A c \in Cands : IceEvent(c) \in Events
  BY Zenon DEF OfferEvent, IceEvent, AnswerEvent, Events
<1>3. ASSUME NEW e \in Events
      PROVE  /\ e.type \in {"offer", "ice", "answer"}
             /\ e.type = "offer" => e.offer \in Offers /\ e = OfferEvent(e.offer)
             /\ e.type = "ice" => e.cand \in Cands /\ e = IceEvent(e.cand)
             /\ e.type = "answer" => e.by \in Offers
  <2>1. CASE e \in [type : {"offer"}, offer : Offers]
    BY Zenon, <2>1 DEF OfferEvent
  <2>2. CASE e \in [type : {"ice"}, cand : Cands]
    BY Zenon, <2>2 DEF IceEvent
  <2>3. CASE e \in [type : {"answer"}, by : Offers]
    BY Zenon, <2>3
  <2>4. QED
    BY Zenon, <2>1, <2>2, <2>3 DEF Events
<1>4. QED
  BY Zenon, <1>1, <1>2, <1>3

\* Candidates are pairs of an offer and a number.
LEMMA CandFields ==
  /\ \A c \in Cands : c[1] \in Offers /\ c[2] \in 1..MaxCands /\ c = <<c[1], c[2]>>
  /\ \A o \in Offers, n \in 1..MaxCands : <<o, n>> \in Cands
  BY DEF Cands

\* Offers and numbers of candidates are natural numbers.
LEMMA Numbers ==
  /\ \A o \in Offers : o \in Nat /\ o # 0
  /\ \A n \in 1..MaxCands : n \in Nat
  BY NegotiationAssumption DEF Offers

\* Nothing is in an empty queue.
LEMMA InEmpty == In(<<>>) = {}
  BY DEF In

\* The empty queue is the one of length 0.
LEMMA EmptyQueue == \A S : <<>> \in Seq(S) /\ \A q \in Seq(S) : q = <<>> <=> Len(q) = 0
  OBVIOUS

\* Queues have a length and are functions on the positions up to it.
LEMMA QueueLength ==
  ASSUME NEW S, NEW q \in Seq(S)
  PROVE  Len(q) \in Nat /\ DOMAIN q = 1..Len(q) /\ \A i \in 1..Len(q) : q[i] \in S
  OBVIOUS

\* A queue with one more element ...
LEMMA Push ==
  ASSUME NEW S, NEW q \in Seq(S), NEW e \in S
  PROVE  /\ Append(q, e) \in Seq(S) /\ In(Append(q, e)) = In(q) \cup {e}
         /\ Append(q, e) # <<>> /\ Len(q) \in Nat /\ Len(Append(q, e)) = Len(q) + 1
         /\ Append(q, e)[Len(q) + 1] = e
         /\ \A i \in 1..Len(q) : Append(q, e)[i] = q[i]
<1> DEFINE r == Append(q, e)
<1>1. /\ r \in Seq(S) /\ Len(q) \in Nat /\ Len(r) = Len(q) + 1 /\ r[Len(q) + 1] = e
      /\ \A i \in 1..Len(q) : r[i] = q[i]
  BY QueueLength
<1> HIDE DEF r
<1>2. \A i \in 1..Len(r) : i \in 1..Len(q) \/ i = Len(q) + 1
  BY <1>1
<1>3. \A i \in 1..Len(q) : i \in 1..Len(r)
  BY <1>1
<1>4. Len(q) + 1 \in 1..Len(r) /\ r # <<>>
  BY <1>1
<1>5. In(r) = In(q) \cup {e}
  BY Zenon, <1>1, <1>2, <1>3, <1>4 DEF In
<1>6. QED
  BY Zenon, <1>1, <1>4, <1>5 DEF r

\* ... what its head leaves ...
LEMMA Pop ==
  ASSUME NEW S, NEW q \in Seq(S), q # <<>>
  PROVE  /\ Tail(q) \in Seq(S) /\ Head(q) \in S /\ In(q) = {Head(q)} \cup In(Tail(q))
         /\ Len(q) \in Nat /\ Len(q) > 0 /\ Len(Tail(q)) = Len(q) - 1 /\ Head(q) = q[1]
         /\ \A i \in 1..Len(Tail(q)) : Tail(q)[i] = q[i + 1] /\ i + 1 \in 1..Len(q)
<1> DEFINE r == Tail(q)
<1>1. Len(q) \in Nat /\ Len(q) > 0
  BY EmptyQueue, QueueLength
<1>2. r \in Seq(S) /\ Head(q) \in S /\ Head(q) = q[1] /\ Len(r) = Len(q) - 1
  BY <1>1
<1>3. \A i \in 1..Len(r) : r[i] = q[i + 1] /\ i + 1 \in 1..Len(q)
  BY <1>1
<1>4. \A i \in 2..Len(q) : r[i - 1] = q[i] /\ i - 1 \in 1..Len(r)
  BY <1>1
<1> HIDE DEF r
<1>5. \A i \in 1..Len(q) : i = 1 \/ i \in 2..Len(q)
  BY <1>1
<1>6. 1 \in 1..Len(q)
  BY <1>1
<1>7. In(q) = {Head(q)} \cup In(r)
  BY <1>2, <1>3, <1>4, <1>5, <1>6 DEF In
<1>8. QED
  BY Zenon, <1>1, <1>2, <1>3, <1>7 DEF r

\* ... and one queue behind another.
LEMMA Join ==
  ASSUME NEW S, NEW q \in Seq(S), NEW r \in Seq(S)
  PROVE  /\ q \o r \in Seq(S) /\ In(q \o r) = In(q) \cup In(r)
         /\ Len(q) \in Nat /\ Len(r) \in Nat /\ Len(q \o r) = Len(q) + Len(r)
         /\ \A i \in 1..Len(q) : (q \o r)[i] = q[i]
         /\ \A i \in 1..Len(r) : (q \o r)[Len(q) + i] = r[i]
<1> DEFINE s == q \o r
<1>1. /\ s \in Seq(S) /\ Len(q) \in Nat /\ Len(r) \in Nat /\ Len(s) = Len(q) + Len(r)
      /\ \A i \in 1..Len(q) : s[i] = q[i]
      /\ \A i \in 1..Len(r) : s[Len(q) + i] = r[i]
  BY QueueLength
<1> HIDE DEF s
<1>2. \A i \in 1..Len(s) : i \in 1..Len(q) \/ i - Len(q) \in 1..Len(r)
  BY <1>1
<1>3. \A i \in 1..Len(q) : i \in 1..Len(s)
  BY <1>1
<1>4. \A i \in 1..Len(r) : Len(q) + i \in 1..Len(s)
  BY <1>1
<1>5. \A i \in 1..Len(s) : s[i] \in In(q) \cup In(r)
  <2> TAKE i \in 1..Len(s)
  <2>1. CASE i \in 1..Len(q)
    BY Zenon, <1>1, <2>1 DEF In
  <2>2. CASE i - Len(q) \in 1..Len(r)
    <3>1. i = Len(q) + (i - Len(q))
      BY <1>1
    <3>2. s[i] = r[i - Len(q)]
      BY Zenon, <1>1, <2>2, <3>1
    <3>3. QED
      BY Zenon, <2>2, <3>2 DEF In
  <2>3. QED
    BY Zenon, <1>2, <2>1, <2>2
<1>6. In(s) = In(q) \cup In(r)
  <2>1. In(q) \subseteq In(s)
    BY Zenon, <1>1, <1>3 DEF In
  <2>2. In(r) \subseteq In(s)
    BY <1>1, <1>4 DEF In
  <2>3. In(s) \subseteq In(q) \cup In(r)
    <3>1. \A x \in In(s) : \E i \in 1..Len(s) : x = s[i]
      BY Zenon DEF In
    <3>2. QED
      BY Zenon, <1>5, <3>1
  <2>4. QED
    BY Zenon, <2>1, <2>2, <2>3
<1>7. QED
  BY Zenon, <1>1, <1>6 DEF s

-----------------------------------------------------------------------------
(* Types.                                                                  *)

\* At the start nothing has happened.
LEMMA TypedInit == Init => Typed
<1> SUFFICES ASSUME Init PROVE Typed
  BY Zenon
<1>1. Flags
  BY Zenon DEF Init, Flags
<1>2. \A S : <<>> \in Seq(S)
  BY Zenon, EmptyQueue
<1>3. Queues
  <2>1. Idle \in [step : {"idle", "close"}] /\ Idle \in [step : {"idle"}]
    BY Zenon DEF Idle
  <2>2. 0 \in 0..MaxOffers /\ 0 \in 0..MaxCands
    BY NegotiationAssumption
  <2>3. QED
    BY Zenon, <1>2, <2>1, <2>2 DEF Init, Queues
<1>4. Connections
  <2>1. \A p \in Offers : <<>> \in Seq(Cands)
    BY Zenon, <1>2
  <2>2. added \in [Offers -> Seq(Cands)] /\ conn \in [Offers -> Open \cup {"none", "closed"}]
    BY Zenon, <2>1 DEF Init, Open
  <2>3. QED
    BY <1>2, <2>2, NegotiationAssumption DEF Init, Connections, NoObservers
<1>5. QED
  BY Zenon, <1>1, <1>3, <1>4 DEF Typed

\* A thread that is done is where it may be.
LEMMA IdleTyped ==
  /\ Idle \in [step : {"idle", "close"}] /\ Idle \in [step : {"idle"}] /\ Idle.step = "idle"
  BY Zenon DEF Idle

\* An event is posted.
LEMMA Posted ==
  ASSUME Typed, NEW e \in Events
  PROVE  Append(qt, e) \in Seq(Events) /\ In(Append(qt, e)) = In(qt) \cup {e}
<1>1. qt \in Seq(Events)
  BY Zenon DEF Typed, Queues
<1>2. QED
  BY <1>1, Push

\* The publisher sends an offer ...
LEMMA OfferSent ==
  ASSUME Typed, OnOffer
  PROVE  /\ offers + 1 \in Offers /\ offers \in Nat /\ offers' = offers + 1
         /\ OfferEvent(offers + 1) \in Events /\ qt' = Append(qt, OfferEvent(offers + 1))
<1>1. /\ offers \in 0..MaxOffers /\ offers < MaxOffers /\ offers' = offers + 1
      /\ qt' = Append(qt, OfferEvent(offers + 1))
  BY Zenon DEF OnOffer, Typed, Queues
<1>2. offers + 1 \in Offers /\ offers \in Nat
  BY <1>1, NegotiationAssumption DEF Offers
<1>3. QED
  BY Zenon, <1>1, <1>2, EventFields

\* ... or a candidate.
LEMMA IceSent ==
  ASSUME Typed, OnIce
  PROVE  /\ offers \in Offers /\ offers \in Nat /\ cands \in Nat /\ offers' = offers
         /\ cands' = cands + 1 /\ cands + 1 \in 1..MaxCands /\ <<offers, cands + 1>> \in Cands
         /\ IceEvent(<<offers, cands + 1>>) \in Events
         /\ qt' = Append(qt, IceEvent(<<offers, cands + 1>>))
<1>1. /\ offers \in 0..MaxOffers /\ offers # 0 /\ cands \in 0..MaxCands /\ cands < MaxCands
      /\ offers' = offers /\ cands' = cands + 1
      /\ qt' = Append(qt, IceEvent(<<offers, cands + 1>>))
  BY Zenon DEF OnIce, Typed, Queues
<1>2. offers \in Offers /\ offers \in Nat /\ cands \in Nat /\ cands + 1 \in 1..MaxCands
  BY <1>1, NegotiationAssumption DEF Offers
<1>3. <<offers, cands + 1>> \in Cands
  BY Zenon, <1>2, CandFields
<1>4. QED
  BY Zenon, <1>1, <1>2, <1>3, EventFields

\* An event is received.
LEMMA Received ==
  ASSUME Typed, NEW t, Receive(t)
  PROVE  /\ qt' = Tail(qt) /\ qt # <<>> /\ qt' \in Seq(Events) /\ Head(qt) \in Events
         /\ Head(qt).type = t /\ In(qt) = {Head(qt)} \cup In(qt')
         /\ qtPc = Idle /\ qtPc.step = "idle" /\ ~crashed
<1>1. qt' = Tail(qt) /\ qt # <<>> /\ Head(qt).type = t /\ qtPc = Idle /\ ~crashed
  BY Zenon DEF Receive, QtFree
<1>2. /\ Tail(qt) \in Seq(Events) /\ Head(qt) \in Events
      /\ In(qt) = {Head(qt)} \cup In(Tail(qt))
  BY Zenon, <1>1, Pop DEF Typed, Queues
<1>3. QED
  BY Zenon, <1>1, <1>2, IdleTyped

\* What the user does.
LEMMA TypedUser == ASSUME Typed, User PROVE Typed'
<1>1. CASE ConnectToSignaling
  BY Zenon, <1>1 DEF ConnectToSignaling, publisher, Typed, Queues, Connections, Flags
<1>2. CASE DisconnectBegin
  <2>1. pending' \in Seq(Cands) /\ observer' \in [OpKinds -> Nat]
    BY Zenon, <1>2, EmptyQueue DEF DisconnectBegin, NoObservers
  <2>2. qtPc' \in [step : {"idle", "close"}] /\ applied' \in BOOLEAN
    BY Zenon, <1>2 DEF DisconnectBegin
  <2>3. UNCHANGED <<publisher, qt, pc, conn, ops, rtc, added, answers, raced, crashed>>
    BY Zenon, <1>2 DEF DisconnectBegin
  <2>4. Queues' /\ Connections'
    BY Zenon, <2>1, <2>2, <2>3 DEF publisher, Typed, Queues, Connections
  <2>5. Flags'
    BY Zenon, <2>2, <2>3 DEF publisher, Typed, Flags
  <2>6. QED
    BY Zenon, <2>4, <2>5 DEF Typed
<1>3. QED
  BY Zenon, <1>1, <1>2 DEF User

\* What the publisher sends.
LEMMA TypedPublisher == ASSUME Typed, Publisher PROVE Typed'
<1>1. (\A o \in Offers : o \in 0..MaxOffers) /\ 0 \in 0..MaxCands
  BY NegotiationAssumption DEF Offers
<1>2. CASE OnOffer
  <2>1. offers' \in 0..MaxOffers /\ cands' = 0
    BY Zenon, <1>1, <1>2, OfferSent DEF OnOffer
  <2>2. qt' \in Seq(Events)
    BY Zenon, <1>2, OfferSent, Posted
  <2>3. overlapped' \in BOOLEAN
    BY <1>2, Zenon DEF OnOffer
  <2>4. UNCHANGED <<qtPc, pc, conn, applied, pending, observer, ops, rtc, added, answers,
                    raced, crashed>>
    BY Zenon, <1>2 DEF OnOffer
  <2>5. QED
    BY <1>1, <2>1, <2>2, <2>3, <2>4 DEF Typed, Queues, Connections, Flags
<1>3. CASE OnIce
  <2>1. cands' \in 0..MaxCands
    BY <1>3, IceSent
  <2>2. qt' \in Seq(Events)
    BY Zenon, <1>3, IceSent, Posted
  <2>3. UNCHANGED <<offers, overlapped, qtPc, pc, conn, applied, pending, observer, ops, rtc,
                    added, answers, raced, crashed>>
    BY Zenon, <1>3 DEF OnIce
  <2>4. QED
    BY <2>1, <2>2, <2>3 DEF Typed, Queues, Connections, Flags
<1>4. QED
  BY Zenon, <1>2, <1>3 DEF Publisher

\* The connections when the current one is closed, and when it is replaced.
LEMMA ClosedTyped ==
  ASSUME Typed
  PROVE  /\ ClosePc \in [Offers -> Open \cup {"none", "closed"}]
         /\ \A o \in Offers :
              [ClosePc EXCEPT ![o] = "new"] \in [Offers -> Open \cup {"none", "closed"}]
         /\ \A p \in Offers : ClosePc[p] = IF p = pc THEN "closed" ELSE conn[p]
         /\ \A o, p \in Offers :
              [ClosePc EXCEPT ![o] = "new"][p] = IF p = o THEN "new" ELSE ClosePc[p]
  BY Zenon DEF ClosePc, Typed, Connections, Open

\* The threads, by what they are doing.
LEMMA ThreadFields ==
  ASSUME Typed
  PROVE  /\ qtPc.step \in {"idle", "close", "create", "push", "add"}
         /\ qtPc.step = "create" => qtPc.offer \in Offers
         /\ qtPc.step \in {"push", "add"} => qtPc.cand \in Cands
         /\ rtc.step \in {"idle", "clear", "send"}
         /\ rtc.step \in {"clear", "send"} => rtc.by \in Offers
         /\ rtc.step = "send" => rtc.pc \in Offers /\ rtc.offer \in Offers
         /\ rtc.step = "idle" => rtc = Idle
         /\ qtPc.step = "idle" => qtPc = Idle
<1>1. /\ qtPc.step \in {"idle", "close", "create", "push", "add"}
      /\ qtPc.step = "create" => qtPc.offer \in Offers
      /\ qtPc.step \in {"push", "add"} => qtPc.cand \in Cands
      /\ qtPc.step = "idle" => qtPc = Idle
  BY Zenon DEF Typed, Queues, Idle
<1>2. /\ rtc.step \in {"idle", "clear", "send"}
      /\ rtc.step \in {"clear", "send"} => rtc.by \in Offers
      /\ rtc.step = "send" => rtc.pc \in Offers /\ rtc.offer \in Offers
      /\ rtc.step = "idle" => rtc = Idle
  BY Zenon DEF Typed, Queues, Idle
<1>3. QED
  BY Zenon, <1>1, <1>2

\* A connection is closed, and perhaps a new one is made.
LEMMA TypedClose ==
  ASSUME Typed, DisconnectClose \/ CreatePeerConnectionFails \/ ParseOfferFails
  PROVE  Typed'
<1>1. qtPc' = Idle /\ UNCHANGED <<publisher, qt, applied, pending, observer, ops, rtc, added,
                                  answers, raced, crashed>>
  BY Zenon DEF DisconnectClose, CreatePeerConnectionFails, ParseOfferFails
<1>2. pc' \in 0..MaxOffers /\ conn' \in [Offers -> Open \cup {"none", "closed"}]
  <2>1. CASE DisconnectClose \/ CreatePeerConnectionFails
    BY <2>1, ClosedTyped, NegotiationAssumption DEF DisconnectClose, CreatePeerConnectionFails
  <2>2. CASE ParseOfferFails
    <3>1. qtPc.offer \in Offers
      BY Zenon, <2>2, ThreadFields DEF ParseOfferFails
    <3>2. QED
      BY <2>2, <3>1, ClosedTyped, NegotiationAssumption DEF ParseOfferFails, Offers
  <2>3. QED
    BY Zenon, <2>1, <2>2
<1>3. Queues'
  BY Zenon, <1>1, IdleTyped DEF publisher, Typed, Queues
<1>4. Connections'
  BY Zenon, <1>1, <1>2 DEF Typed, Connections
<1>5. Flags'
  BY Zenon, <1>1 DEF publisher, Typed, Flags
<1>6. QED
  BY Zenon, <1>3, <1>4, <1>5 DEF Typed

\* The operations of a connection.
LEMMA OpTyped ==
  ASSUME NEW k \in OpKinds, NEW p \in Offers, NEW o \in Offers, NEW b \in Offers
  PROVE  /\ Op(k, p, o, b) \in Ops /\ Op(k, p, o, b).kind = k /\ Op(k, p, o, b).pc = p
         /\ Op(k, p, o, b).by = b /\ Op(k, p, o, b).res = "running"
  BY Zenon DEF Op, Ops

\* The remote description is set.
LEMMA TypedSetRemote == ASSUME Typed, SetRemoteDescription PROVE Typed'
<1>1. /\ qtPc' = Idle /\ pc' = qtPc.offer /\ conn' = [ClosePc EXCEPT ![qtPc.offer] = "new"]
      /\ ops' = ops \cup {Op("setRemote", qtPc.offer, qtPc.offer, qtPc.offer)}
      /\ observer' = [observer EXCEPT !["setRemote"] = qtPc.offer]
      /\ UNCHANGED <<publisher, qt, applied, pending, rtc, added, answers, raced, crashed>>
  BY Zenon DEF SetRemoteDescription
<1>2. qtPc.offer \in Offers
  BY Zenon, ThreadFields DEF SetRemoteDescription
<1>3. pc' \in 0..MaxOffers /\ conn' \in [Offers -> Open \cup {"none", "closed"}]
  BY <1>1, <1>2, ClosedTyped, NegotiationAssumption DEF Offers
<1>4. ops' \in SUBSET Ops /\ observer' \in [OpKinds -> Nat]
  <2>1. Op("setRemote", qtPc.offer, qtPc.offer, qtPc.offer) \in Ops
    BY Zenon, <1>2, OpTyped DEF OpKinds
  <2>2. qtPc.offer \in Nat
    BY Zenon, <1>2, Numbers
  <2>3. QED
    BY Zenon, <1>1, <2>1, <2>2 DEF Typed, Connections
<1>5. Queues'
  BY Zenon, <1>1, IdleTyped DEF publisher, Typed, Queues
<1>6. Connections'
  BY Zenon, <1>1, <1>3, <1>4 DEF Typed, Connections
<1>7. Flags'
  BY Zenon, <1>1 DEF publisher, Typed, Flags
<1>8. QED
  BY Zenon, <1>5, <1>6, <1>7 DEF Typed

\* The handler of an offer begins, and a candidate is handled.
LEMMA TypedHandlers ==
  ASSUME Typed,
         HandleOffer \/ HandleRemoteIceCandidate \/ PushPending \/ AddRemoteIceCandidateNow
  PROVE  Typed'
<1>1. CASE HandleOffer
  <2>1. /\ qt' \in Seq(Events) /\ Head(qt).offer \in Offers
    BY Zenon, <1>1, Received, EventFields DEF HandleOffer
  <2>2. qtPc' \in [step : {"create"}, offer : Offers]
    BY Zenon, <1>1, <2>1 DEF HandleOffer
  <2>3. pending' \in Seq(Cands) /\ observer' \in [OpKinds -> Nat] /\ applied' \in BOOLEAN
    BY Zenon, <1>1, EmptyQueue DEF HandleOffer, NoObservers
  <2>4. UNCHANGED <<publisher, pc, conn, ops, rtc, added, answers, raced, crashed>>
    BY Zenon, <1>1 DEF HandleOffer
  <2>5. QED
    BY Zenon, <2>1, <2>2, <2>3, <2>4 DEF publisher, Typed, Queues, Connections, Flags
<1>2. CASE HandleRemoteIceCandidate
  <2>1. qt' \in Seq(Events) /\ Head(qt).cand \in Cands
    BY Zenon, <1>2, Received, EventFields DEF HandleRemoteIceCandidate
  <2>2. qtPc' \in [step : {"push", "add"}, cand : Cands]
    BY Zenon, <1>2, <2>1 DEF HandleRemoteIceCandidate
  <2>3. UNCHANGED <<publisher, pc, conn, applied, pending, observer, ops, rtc, added, answers,
                    raced, crashed>>
    BY Zenon, <1>2 DEF HandleRemoteIceCandidate
  <2>4. QED
    BY Zenon, <2>1, <2>2, <2>3 DEF publisher, Typed, Queues, Connections, Flags
<1>3. CASE PushPending
  <2>1. pending' \in Seq(Cands)
    BY Zenon, <1>3, Push, ThreadFields DEF PushPending, Typed, Queues
  <2>2. raced' \in BOOLEAN
    BY <1>3, Zenon DEF PushPending
  <2>3. qtPc' = Idle /\ UNCHANGED <<publisher, qt, pc, conn, applied, observer, ops, rtc, added,
                                    answers, crashed>>
    BY Zenon, <1>3 DEF PushPending
  <2>4. QED
    BY Zenon, <2>1, <2>2, <2>3, IdleTyped DEF publisher, Typed, Queues, Connections, Flags
<1>4. CASE AddRemoteIceCandidateNow
  <2>1. qtPc.cand \in Cands /\ added \in [Offers -> Seq(Cands)]
    BY Zenon, <1>4, ThreadFields DEF AddRemoteIceCandidateNow, Typed, Connections
  <2>2. \A p \in Offers : Append(added[p], qtPc.cand) \in Seq(Cands)
    BY Zenon, <2>1, Push
  <2>3. added' \in [Offers -> Seq(Cands)]
    BY Zenon, <1>4, <2>1, <2>2 DEF AddRemoteIceCandidateNow
  <2>4. qtPc' = Idle /\ UNCHANGED <<publisher, qt, pc, conn, applied, pending, observer, ops,
                                    rtc, answers, raced, crashed>>
    BY Zenon, <1>4 DEF AddRemoteIceCandidateNow
  <2>5. QED
    BY Zenon, <2>3, <2>4, IdleTyped DEF publisher, Typed, Queues, Connections, Flags
<1>5. QED
  BY Zenon, <1>1, <1>2, <1>3, <1>4

\* The answer is asked for.
LEMMA TypedAnswer == ASSUME Typed, DoCreateAnswer PROVE Typed'
<1>1. qt' \in Seq(Events) /\ Head(qt).by \in Offers
  BY Zenon, Received, EventFields DEF DoCreateAnswer
<1>2. UNCHANGED <<publisher, qtPc, pc, conn, applied, pending, rtc, added, answers, raced,
                  crashed>>
  BY Zenon DEF DoCreateAnswer
<1>3. ops' \in SUBSET Ops /\ observer' \in [OpKinds -> Nat]
  <2>1. CASE pc = 0
    BY Zenon, <2>1 DEF DoCreateAnswer, Typed, Connections
  <2>2. CASE pc # 0
    <3>1. pc \in Offers /\ pc \in Nat
      BY <2>2, NegotiationAssumption DEF Typed, Connections, Offers
    <3>2. Op("createAnswer", pc, pc, Head(qt).by) \in Ops
      BY Zenon, <1>1, <3>1, OpTyped DEF OpKinds
    <3>3. QED
      BY Zenon, <2>2, <3>1, <3>2 DEF DoCreateAnswer, Typed, Connections
  <2>3. QED
    BY Zenon, <2>1, <2>2
<1>4. QED
  BY <1>1, <1>2, <1>3 DEF publisher, Typed, Queues, Connections, Flags

\* The rest of a callback.
LEMMA TypedRest == ASSUME Typed, FlushClear \/ SendAnswer PROVE Typed'
<1>1. CASE FlushClear
  <2>1. qt' \in Seq(Events)
    BY Zenon, <1>1, ThreadFields, EventFields, Posted DEF FlushClear
  <2>2. pending' \in Seq(Cands)
    BY Zenon, <1>1, EmptyQueue DEF FlushClear
  <2>3. rtc' = Idle /\ UNCHANGED <<publisher, qtPc, pc, conn, applied, observer, ops, added,
                                   answers, raced, crashed>>
    BY Zenon, <1>1 DEF FlushClear
  <2>4. QED
    BY Zenon, <2>1, <2>2, <2>3, IdleTyped DEF publisher, Typed, Queues, Connections, Flags
<1>2. CASE SendAnswer
  <2>1. rtc' = Idle /\ UNCHANGED <<publisher, qt, qtPc, pc, conn, applied, pending, observer,
                                   ops, added, raced>>
    BY Zenon, <1>2 DEF SendAnswer
  <2>2. crashed' \in BOOLEAN
    BY Zenon, <1>2 DEF SendAnswer
  <2>3. [offer |-> rtc.offer, pc |-> rtc.pc] \in Answers
    BY Zenon, <1>2, ThreadFields DEF SendAnswer, Answers
  <2>4. answers' \in Seq(Answers)
    <3>1. answers \in Seq(Answers)
      BY Zenon DEF Typed, Connections
    <3>2. Append(answers, [offer |-> rtc.offer, pc |-> rtc.pc]) \in Seq(Answers)
      BY Zenon, <2>3, <3>1, Push
    <3>3. QED
      BY Zenon, <1>2, <3>1, <3>2 DEF SendAnswer
  <2>5. Flags'
    BY Zenon, <2>1, <2>2 DEF publisher, Typed, Flags
  <2>6. QED
    BY Zenon, <2>1, <2>4, <2>5, IdleTyped DEF publisher, Typed, Queues, Connections
<1>3. QED
  BY Zenon, <1>1, <1>2

\* The fields of an operation.
LEMMA OpFields ==
  ASSUME Typed, NEW op \in ops
  PROVE  /\ op \in Ops /\ op.kind \in OpKinds /\ op.pc \in Offers /\ op.offer \in Offers
         /\ op.by \in Offers /\ op.res \in {"running", "ok", "error"}
         /\ \A r \in {"ok", "error"} :
              /\ Result(op, r) \in Ops /\ Result(op, r).kind = op.kind
              /\ Result(op, r).pc = op.pc /\ Result(op, r).res = r
<1>1. op \in Ops
  BY Zenon DEF Typed, Connections
<1>2. QED
  BY Zenon, <1>1 DEF Ops, Result

\* The fields of the answers.
LEMMA AnswerFields == Typed => \A i \in 1..Len(answers) : answers[i].pc \in Offers
<1>1. Typed => \A i \in 1..Len(answers) : answers[i] \in Answers
  BY DEF Typed, Connections
<1>2. \A a \in Answers : a.pc \in Offers
  BY Zenon DEF Answers
<1>3. QED
  BY Zenon, <1>1, <1>2

\* A failure is reported.
LEMMA TypedFails ==
  ASSUME Typed, NEW op \in ops, SetRemoteFails(op) \/ AnswerFails(op)
  PROVE  Typed'
<1>1. op.kind \in OpKinds /\ "setRemote" \in OpKinds
  BY Zenon, OpFields DEF OpKinds
<1>2. ops' \in SUBSET Ops /\ observer' \in [OpKinds -> Nat]
  <2>1. ops' = ops \ {op} /\ \E k \in OpKinds : observer' = [observer EXCEPT ![k] = 0]
    BY Zenon, <1>1 DEF SetRemoteFails, AnswerFails
  <2>2. QED
    BY <2>1 DEF Typed, Connections
<1>3. pending' \in Seq(Cands) /\ applied' \in BOOLEAN
  <2>1. CASE SetRemoteFails(op)
    BY Zenon, <2>1, EmptyQueue DEF SetRemoteFails
  <2>2. CASE AnswerFails(op)
    BY Zenon, <2>2 DEF AnswerFails, Typed, Queues, Flags
  <2>3. QED
    BY Zenon, <2>1, <2>2
<1>4. UNCHANGED <<publisher, qt, qtPc, pc, conn, rtc, added, answers, raced, crashed>>
  BY Zenon DEF SetRemoteFails, AnswerFails
<1>5. QED
  BY Zenon, <1>2, <1>3, <1>4 DEF publisher, Typed, Queues, Connections, Flags

\* The remote description is applied.
LEMMA TypedApplied ==
  ASSUME Typed, NEW op \in ops, SetRemoteSucceeds(op)
  PROVE  Typed'
<1>1. op.by \in Offers /\ op.pc \in Offers /\ "setRemote" \in OpKinds
  BY Zenon, OpFields DEF OpKinds
<1>2. ops' \in SUBSET Ops /\ observer' \in [OpKinds -> Nat]
  BY Zenon, <1>1 DEF SetRemoteSucceeds, Typed, Connections
<1>3. conn' \in [Offers -> Open \cup {"none", "closed"}]
  BY Zenon, <1>1 DEF SetRemoteSucceeds, Typed, Connections, Open
<1>4. raced' \in BOOLEAN
  BY Zenon DEF SetRemoteSucceeds
<1>5. applied' \in BOOLEAN
  BY Zenon DEF SetRemoteSucceeds
<1>6. added' \in [Offers -> Seq(Cands)]
  <2>1. added \in [Offers -> Seq(Cands)] /\ pending \in Seq(Cands)
    BY Zenon DEF Typed, Connections, Queues
  <2>2. \A p \in Offers : added[p] \o pending \in Seq(Cands)
    BY Zenon, <2>1, Join
  <2>3. QED
    BY Zenon, <2>1, <2>2 DEF SetRemoteSucceeds
<1>7. qt' \in Seq(Events)
  <2>1. Append(qt, AnswerEvent(op.by)) \in Seq(Events) /\ qt \in Seq(Events)
    BY Zenon, <1>1, EventFields, Posted DEF Typed, Queues
  <2>2. QED
    BY Zenon, <2>1 DEF SetRemoteSucceeds
<1>8. rtc' \in [step : {"idle"}] \cup [step : {"clear"}, by : Offers]
  <2>1. rtc = Idle
    BY Zenon DEF SetRemoteSucceeds, CallbackOf, RtcFree
  <2>2. [step |-> "clear", by |-> op.by] \in [step : {"clear"}, by : Offers]
    BY Zenon, <1>1
  <2>3. QED
    BY Zenon, <2>1, <2>2, IdleTyped DEF SetRemoteSucceeds
<1>9. UNCHANGED <<publisher, qtPc, pc, pending, answers, crashed>>
  BY Zenon DEF SetRemoteSucceeds
<1>10. Queues'
  BY Zenon, <1>7, <1>8, <1>9 DEF publisher, Typed, Queues
<1>11. Connections'
  BY Zenon, <1>2, <1>3, <1>6, <1>9 DEF Typed, Connections
<1>12. Flags'
  BY Zenon, <1>4, <1>5, <1>9 DEF publisher, Typed, Flags
<1>13. QED
  BY Zenon, <1>10, <1>11, <1>12 DEF Typed

\* An operation completes, and its success is handled.
LEMMA TypedCompletes ==
  ASSUME Typed, NEW op \in ops,
         Complete(op) \/ CreateAnswerSucceeds(op) \/ SetLocalSucceeds(op)
  PROVE  Typed'
<1>1. /\ op.by \in Offers /\ op.pc \in Offers /\ op.offer \in Offers
      /\ "setLocal" \in OpKinds /\ "createAnswer" \in OpKinds
      /\ ops \in SUBSET Ops
  BY Zenon, OpFields DEF OpKinds, Typed, Connections
<1>2. CASE Complete(op)
  <2>1. PICK res \in {"ok", "error"} :
          /\ ops' = (ops \ {op}) \cup {Result(op, res)}
          /\ conn' = IF op.kind = "setLocal" /\ res = "ok"
                       THEN [conn EXCEPT ![op.pc] = "stable"] ELSE conn
    BY <1>2, Zenon DEF Complete, Result
  <2>2. ops' \in SUBSET Ops
    <3>1. Result(op, res) \in Ops
      BY Zenon, OpFields
    <3>2. QED
      BY Zenon, <1>1, <2>1, <3>1
  <2>3. conn' \in [Offers -> Open \cup {"none", "closed"}]
    BY Zenon, <1>1, <2>1 DEF Typed, Connections, Open
  <2>4. UNCHANGED <<publisher, qt, qtPc, pc, applied, pending, observer, rtc, added, answers,
                    raced, crashed>>
    BY Zenon, <1>2 DEF Complete
  <2>5. QED
    BY <2>2, <2>3, <2>4 DEF publisher, Typed, Queues, Connections, Flags
<1>3. CASE CreateAnswerSucceeds(op)
  <2>1. UNCHANGED <<publisher, qt, qtPc, pc, conn, applied, pending, rtc, added, answers, raced>>
    BY Zenon, <1>3 DEF CreateAnswerSucceeds
  <2>2. crashed' \in BOOLEAN
    BY Zenon, <1>3 DEF CreateAnswerSucceeds, Typed, Flags
  <2>3. ops' \in SUBSET Ops /\ observer' \in [OpKinds -> Nat]
    <3>1. CASE pc = 0
      <4>1. ops' = ops \ {op} /\ observer' = [observer EXCEPT !["createAnswer"] = 0]
        BY Zenon, <1>3, <3>1 DEF CreateAnswerSucceeds
      <4>2. QED
        BY Zenon, <1>1, <4>1 DEF Typed, Connections
    <3>2. CASE pc # 0
      <4>1. pc \in Offers /\ pc \in Nat
        BY <3>2, NegotiationAssumption DEF Typed, Connections, Offers
      <4>2. Op("setLocal", pc, op.offer, op.by) \in Ops
        BY Zenon, <1>1, <4>1, OpTyped
      <4>3. /\ ops' = (ops \ {op}) \cup {Op("setLocal", pc, op.offer, op.by)}
            /\ observer' = [observer EXCEPT !["createAnswer"] = 0, !["setLocal"] = pc]
        BY Zenon, <1>3, <3>2 DEF CreateAnswerSucceeds
      <4>4. ops' \in SUBSET Ops
        BY Zenon, <4>2, <4>3 DEF Typed, Connections
      <4>5. observer \in [OpKinds -> Nat]
        BY Zenon DEF Typed, Connections
      <4>6. observer' \in [OpKinds -> Nat]
        BY <4>1, <4>3, <4>5
      <4>7. QED
        BY Zenon, <4>4, <4>6
    <3>3. QED
      BY Zenon, <3>1, <3>2
  <2>4. Flags'
    BY Zenon, <2>1, <2>2 DEF publisher, Typed, Flags
  <2>5. QED
    BY Zenon, <2>1, <2>3, <2>4 DEF publisher, Typed, Queues, Connections
<1>4. CASE SetLocalSucceeds(op)
  <2>1. UNCHANGED <<publisher, qt, qtPc, pc, conn, applied, pending, added, answers, raced,
                    crashed>>
    BY Zenon, <1>4 DEF SetLocalSucceeds
  <2>2. ops' \in SUBSET Ops /\ observer' \in [OpKinds -> Nat]
    BY Zenon, <1>1, <1>4 DEF SetLocalSucceeds, Typed, Connections
  <2>3. rtc' \in [step : {"idle"}] \cup [step : {"clear"}, by : Offers]
                   \cup [step : {"send"}, pc : Offers, offer : Offers, by : Offers]
    <3>1. [step |-> "send", pc |-> op.pc, offer |-> op.offer, by |-> op.by]
            \in [step : {"send"}, pc : Offers, offer : Offers, by : Offers]
      BY Zenon, <1>1
    <3>2. QED
      BY Zenon, <1>4, <3>1 DEF SetLocalSucceeds, Typed, Queues
  <2>4. QED
    BY Zenon, <2>1, <2>2, <2>3 DEF publisher, Typed, Queues, Connections, Flags
<1>5. QED
  BY Zenon, <1>2, <1>3, <1>4

\* Types are kept.
LEMMA TypedStep == ASSUME Typed, [Next]_vars PROVE Typed'
<1>1. CASE QtStep
  BY Zenon, <1>1, TypedClose, TypedSetRemote, TypedHandlers, TypedAnswer DEF QtStep
<1>2. CASE RtcStep
  BY Zenon, <1>2, TypedRest, TypedFails, TypedApplied, TypedCompletes DEF RtcStep
<1>3. CASE UNCHANGED vars
  BY Zenon, <1>3 DEF vars, publisher, Typed, Queues, Connections, Flags
<1>4. QED
  BY Zenon, <1>1, <1>2, <1>3, TypedUser, TypedPublisher DEF Next

-----------------------------------------------------------------------------
(* Events come in the order in which they were sent.                       *)

\* Order is kept when the last to come is appended ...
LEMMA OrderedPush ==
  ASSUME NEW q \in Seq(Events), NEW e \in Events, Ordered(q), Ahead(In(q), {e})
  PROVE  Ordered(Append(q, e))
<1> DEFINE r == Append(q, e)
<1>1. /\ Len(q) \in Nat /\ Len(r) = Len(q) + 1 /\ r[Len(q) + 1] = e
      /\ \A i \in 1..Len(q) : r[i] = q[i]
  BY Push
<1> HIDE DEF r
<1> SUFFICES ASSUME NEW i \in 1..Len(r), NEW j \in 1..Len(r), i < j
             PROVE  Before(r[i], r[j])
  BY Zenon DEF Ordered, r
<1>2. i \in 1..Len(q)
  BY <1>1
<1>3. CASE j \in 1..Len(q)
  BY Zenon, <1>1, <1>2, <1>3 DEF Ordered
<1>4. CASE j = Len(q) + 1
  BY Zenon, <1>1, <1>2, <1>4 DEF Ahead, In
<1>5. QED
  BY <1>1, <1>3, <1>4

\* ... and when the first one is taken.
LEMMA OrderedPop ==
  ASSUME NEW q \in Seq(Events), q # <<>>, Ordered(q)
  PROVE  Ordered(Tail(q)) /\ Ahead({Head(q)}, In(Tail(q)))
<1> DEFINE r == Tail(q)
<1>1. /\ Len(q) \in Nat /\ Len(q) > 0 /\ Len(r) = Len(q) - 1 /\ Head(q) = q[1]
      /\ \A i \in 1..Len(r) : r[i] = q[i + 1] /\ i + 1 \in 1..Len(q)
  BY Zenon, Pop
<1> HIDE DEF r
<1>2. ASSUME NEW i \in 1..Len(r), NEW j \in 1..Len(r), i < j
      PROVE  Before(r[i], r[j])
  <2>1. i + 1 < j + 1
    BY <1>1, <1>2
  <2>2. QED
    BY Zenon, <1>1, <2>1 DEF Ordered
<1>3. ASSUME NEW i \in 1..Len(r) PROVE Before(Head(q), r[i])
  <2>1. 1 < i + 1 /\ 1 \in 1..Len(q)
    BY <1>1
  <2>2. QED
    BY Zenon, <1>1, <2>1 DEF Ordered
<1>4. Ordered(r)
  BY Zenon, <1>2 DEF Ordered
<1>5. Ahead({Head(q)}, In(r))
  BY Zenon, <1>3 DEF Ahead, In
<1>6. QED
  BY Zenon, <1>4, <1>5 DEF r

\* At the start there is nothing to order.
LEMMA InOrderInit == Init => InOrder
<1> SUFFICES ASSUME Init PROVE InOrder
  BY Zenon
<1>1. In(qt) = {} /\ Ordered(qt)
  BY InEmpty DEF Init, Ordered
<1>2. Current = 0 /\ pc = 0 /\ offers = 0 /\ qtPc.step = "idle"
  BY Zenon, IdleTyped DEF Init, Current
<1>3. QED
  BY <1>1, <1>2 DEF InOrder

\* The connection is given up, or the current offer gets its connection, or
\* nothing of this changes.
LEMMA InOrderSame ==
  ASSUME Typed, InOrder, UNCHANGED <<qt, offers, cands>>, qtPc'.step # "create",
         pc' = 0 \/ pc' = Current
  PROVE  InOrder'
<1>1. Current' = pc'
  BY Zenon DEF Current
<1>2. Current \in Nat /\ offers \in Nat
  BY ThreadFields, Numbers, NegotiationAssumption DEF Current, Typed, Queues, Connections
<1>3. CASE pc' = Current
  BY <1>1, <1>2, <1>3 DEF InOrder
<1>4. CASE pc' = 0
  <2>1. \A e \in In(qt) :
          /\ e.type = "offer" => 0 < e.offer
          /\ e.type = "ice" => 0 <= e.cand[1]
    <3>1. \A e \in In(qt) : e \in Events
      BY DEF In, Typed, Queues
    <3>2. QED
      BY <3>1, EventFields, CandFields, Numbers
  <2>2. QED
    BY <1>1, <1>2, <1>4, <2>1 DEF InOrder
<1>5. QED
  BY Zenon, <1>3, <1>4

\* An event that is neither an offer nor a candidate is posted.
LEMMA InOrderAnswer ==
  ASSUME Typed, InOrder, NEW o \in Offers, qt' = Append(qt, AnswerEvent(o)),
         UNCHANGED <<qtPc, pc, offers, cands>>
  PROVE  InOrder'
<1> DEFINE a == AnswerEvent(o)
<1>1. a \in Events /\ a.type = "answer" /\ qt \in Seq(Events)
  BY Zenon, EventFields DEF Typed, Queues
<1> HIDE DEF a
<1>2. In(Append(qt, a)) = In(qt) \cup {a}
  BY <1>1, Push
<1>3. Ahead(In(qt), {a})
  BY Zenon, <1>1 DEF Ahead, Before
<1>4. Ordered(Append(qt, a))
  BY Zenon, <1>1, <1>3, OrderedPush DEF InOrder
<1>5. qt' = Append(qt, a)
  BY Zenon DEF a
<1>6. In(qt') = In(qt) \cup {a} /\ Ordered(qt')
  BY Zenon, <1>2, <1>4, <1>5
<1>7. Current' = Current
  BY Zenon DEF Current
<1>8. QED
  BY Zenon, <1>1, <1>6, <1>7 DEF InOrder

\* The publisher's next message comes behind the others.
LEMMA InOrderPublisher == ASSUME Typed, InOrder, Publisher PROVE InOrder'
<1>1. /\ qt \in Seq(Events) /\ offers \in Nat /\ cands \in Nat /\ Current \in Nat
      /\ \A e \in In(qt) : e \in Events
  BY ThreadFields, Numbers, NegotiationAssumption
     DEF Current, Typed, Queues, Connections, In
<1>2. Current' = Current
  BY Zenon DEF Publisher, OnOffer, OnIce, Current
<1>3. \A e \in In(qt) : /\ e.type = "offer" => e.offer \in Nat
                        /\ e.type = "ice" => e.cand[1] \in Nat /\ e.cand[2] \in Nat
  BY Zenon, <1>1, EventFields, CandFields, Numbers
<1>4. CASE OnOffer
  <2> DEFINE f == OfferEvent(offers + 1)
  <2>1. offers + 1 \in Offers
    BY Zenon, <1>4, OfferSent
  <2>2. f \in Events /\ f.type = "offer" /\ f.offer = offers + 1
    BY Zenon, <2>1, EventFields
  <2> HIDE DEF f
  <2>3. Ahead(In(qt), {f})
    BY <1>1, <1>3, <2>2 DEF Ahead, Before, InOrder
  <2>4. Ordered(Append(qt, f)) /\ In(Append(qt, f)) = In(qt) \cup {f}
    BY Zenon, <1>1, <2>2, <2>3, OrderedPush, Posted DEF InOrder
  <2>5. /\ qt' = Append(qt, f) /\ offers' = offers + 1 /\ cands' = 0
        /\ UNCHANGED <<qtPc, pc>>
    BY Zenon, <1>4 DEF OnOffer, f
  <2>6. Ordered(qt') /\ In(qt') = In(qt) \cup {f}
    BY Zenon, <2>4, <2>5
  <2>7. \A e \in In(qt') :
          /\ e.type = "offer" => Current < e.offer /\ e.offer <= offers'
          /\ e.type = "ice" => Current <= e.cand[1] /\ e.cand[1] <= offers'
                               /\ (e.cand[1] = offers' => e.cand[2] <= cands')
    BY <1>1, <1>3, <2>2, <2>5, <2>6 DEF InOrder
  <2>8. \A o \in Offers : o <= offers' => o <= offers \/ OfferEvent(o) = f
    BY <1>1, <2>5, Numbers DEF f
  <2>9. \A e \in In(qt'), o \in Offers :
          e.type = "offer" /\ e.offer < o /\ o <= offers' => OfferEvent(o) \in In(qt')
    BY <1>1, <2>2, <2>6, <2>8, Numbers DEF InOrder
  <2>10. Current # 0 =>
           \A o \in Offers : Current < o /\ o <= offers' => OfferEvent(o) \in In(qt')
    BY Zenon, <2>6, <2>8 DEF InOrder
  <2>11. pc' <= Current /\ Current <= offers' /\ (qtPc'.step = "create" => pc' < qtPc'.offer)
    BY <1>1, <2>5 DEF InOrder
  <2>12. QED
    BY Zenon, <1>2, <2>6, <2>7, <2>9, <2>10, <2>11 DEF InOrder
<1>5. CASE OnIce
  <2> DEFINE f == IceEvent(<<offers, cands + 1>>)
  <2>1. <<offers, cands + 1>> \in Cands
    BY Zenon, <1>5, IceSent
  <2>2. f \in Events /\ f.type = "ice" /\ f.cand[1] = offers /\ f.cand[2] = cands + 1
    BY <2>1, EventFields
  <2> HIDE DEF f
  <2>3. Ahead(In(qt), {f})
    BY <1>1, <1>3, <2>2 DEF Ahead, Before, Earlier, InOrder
  <2>4. Ordered(Append(qt, f)) /\ In(Append(qt, f)) = In(qt) \cup {f}
    BY Zenon, <1>1, <2>2, <2>3, OrderedPush, Posted DEF InOrder
  <2>5. /\ qt' = Append(qt, f) /\ offers' = offers /\ cands' = cands + 1
        /\ UNCHANGED <<qtPc, pc>>
    BY Zenon, <1>5 DEF OnIce, f
  <2>6. Ordered(qt') /\ In(qt') = In(qt) \cup {f}
    BY Zenon, <2>4, <2>5
  <2>7. \A e \in In(qt') :
          /\ e.type = "offer" => Current < e.offer /\ e.offer <= offers'
          /\ e.type = "ice" => Current <= e.cand[1] /\ e.cand[1] <= offers'
                               /\ (e.cand[1] = offers' => e.cand[2] <= cands')
    BY <1>1, <1>3, <2>2, <2>5, <2>6 DEF InOrder
  <2>8. \A e \in In(qt'), o \in Offers :
          e.type = "offer" /\ e.offer < o /\ o <= offers' => OfferEvent(o) \in In(qt')
    BY Zenon, <2>2, <2>5, <2>6 DEF InOrder
  <2>9. QED
    BY Zenon, <1>2, <2>5, <2>6, <2>7, <2>8 DEF InOrder
<1>6. QED
  BY Zenon, <1>4, <1>5 DEF Publisher

\* The first event is received: an offer becomes the current one.
LEMMA InOrderReceive ==
  ASSUME Typed, InOrder, NEW t, Receive(t), UNCHANGED <<pc, offers, cands>>,
         t = "offer" => qtPc' = [step |-> "create", offer |-> Head(qt).offer],
         t # "offer" => qtPc'.step # "create"
  PROVE  InOrder'
<1>1. /\ qt' = Tail(qt) /\ qt # <<>> /\ qt \in Seq(Events) /\ Head(qt) \in Events
      /\ Head(qt).type = t /\ In(qt) = {Head(qt)} \cup In(qt') /\ qtPc.step = "idle"
  BY Zenon, Received DEF Typed, Queues
<1>2. Ordered(qt') /\ Ahead({Head(qt)}, In(qt'))
  BY Zenon, <1>1, OrderedPop DEF InOrder
<1>3. Current = pc /\ pc \in Nat /\ offers \in Nat
  BY <1>1, NegotiationAssumption DEF Current, Typed, Queues, Connections
<1>4. \A e \in In(qt') : e \in In(qt) /\ e \in Events
  BY <1>1 DEF In, Typed, Queues
<1>5. CASE t # "offer"
  <2>1. Current' = pc
    BY Zenon, <1>5 DEF Current
  <2>2. \A o : OfferEvent(o) \in In(qt) => OfferEvent(o) \in In(qt')
    BY <1>1, <1>5, EventFields
  <2>3. QED
    BY Zenon, <1>2, <1>3, <1>4, <1>5, <2>1, <2>2 DEF InOrder
<1>6. CASE t = "offer"
  <2> DEFINE o == Head(qt).offer
  <2>1. o \in Offers /\ o \in Nat /\ Head(qt) = OfferEvent(o)
    BY Zenon, <1>1, <1>6, EventFields, Numbers
  <2>2. qtPc'.step = "create" /\ qtPc'.offer = o
    BY <1>6
  <2>3. Current' = o
    BY Zenon, <2>2 DEF Current
  <2>4. pc < o /\ o <= offers
    BY Zenon, <1>1, <1>3, <1>6 DEF InOrder
  <2>5. \A e \in In(qt') : /\ e.type = "offer" => o < e.offer
                           /\ e.type = "ice" => o <= e.cand[1]
    BY Zenon, <1>1, <1>2, <1>6 DEF Ahead, Before
  <2>6. \A p \in Offers : o < p /\ p <= offers => OfferEvent(p) \in In(qt)
    BY Zenon, <1>1, <1>6 DEF InOrder
  <2>7. \A p \in Offers : o < p => OfferEvent(p) # Head(qt)
    BY <2>1, EventFields, Numbers
  <2>8. \A p \in Offers : o < p /\ p <= offers => OfferEvent(p) \in In(qt')
    BY Zenon, <1>1, <2>6, <2>7
  <2>9. \A e \in In(qt'), p \in Offers :
          e.type = "offer" /\ e.offer < p /\ p <= offers => OfferEvent(p) \in In(qt')
    <3> TAKE e \in In(qt'), p \in Offers
    <3> SUFFICES ASSUME e.type = "offer", e.offer < p, p <= offers
                 PROVE  OfferEvent(p) \in In(qt')
      BY Zenon
    <3>1. o < e.offer /\ e.offer \in Nat /\ p \in Nat
      BY Zenon, <1>4, <2>5, EventFields, Numbers
    <3>2. o < p
      BY <2>1, <3>1
    <3>3. QED
      BY Zenon, <2>8, <3>2
  <2> HIDE DEF o
  <2>10. \A e \in In(qt') :
          /\ e.type = "offer" => o < e.offer /\ e.offer <= offers
          /\ e.type = "ice" => o <= e.cand[1] /\ e.cand[1] <= offers
                               /\ (e.cand[1] = offers => e.cand[2] <= cands)
    BY Zenon, <1>4, <2>5 DEF InOrder
  <2>11. pc' <= o /\ o <= offers' /\ pc' < o
    BY <1>3, <2>1, <2>4
  <2>12. QED
    BY Zenon, <1>2, <2>2, <2>3, <2>8, <2>9, <2>10, <2>11 DEF InOrder
<1>7. QED
  BY Zenon, <1>5, <1>6

\* The order is kept.
LEMMA InOrderStep == ASSUME Typed, InOrder, [Next]_vars PROVE InOrder'
<1>1. CASE User
  <2>1. UNCHANGED <<qt, offers, cands, pc>> /\ qtPc.step = "idle" /\ qtPc'.step # "create"
    BY <1>1, IdleTyped DEF User, ConnectToSignaling, DisconnectBegin, QtFree, publisher
  <2>2. Current = pc
    BY Zenon, <2>1 DEF Current
  <2>3. QED
    BY Zenon, <2>1, <2>2, InOrderSame
<1>2. CASE \/ DisconnectClose \/ CreatePeerConnectionFails \/ ParseOfferFails
           \/ SetRemoteDescription
  <2>1. UNCHANGED <<qt, offers, cands>> /\ qtPc' = Idle
    BY Zenon, <1>2 DEF DisconnectClose, CreatePeerConnectionFails, ParseOfferFails,
                SetRemoteDescription, publisher
  <2>2. pc' = 0 \/ pc' = Current
    BY Zenon, <1>2 DEF DisconnectClose, CreatePeerConnectionFails, ParseOfferFails,
                SetRemoteDescription, Current
  <2>3. QED
    BY Zenon, <2>1, <2>2, IdleTyped, InOrderSame
<1>3. CASE PushPending \/ AddRemoteIceCandidateNow
  <2>1. UNCHANGED <<qt, offers, cands, pc>> /\ qtPc' = Idle /\ qtPc.step # "create"
    BY Zenon, <1>3 DEF PushPending, AddRemoteIceCandidateNow, publisher
  <2>2. Current = pc
    BY Zenon, <2>1 DEF Current
  <2>3. QED
    BY Zenon, <2>1, <2>2, IdleTyped, InOrderSame
<1>4. CASE HandleOffer
  <2>1. /\ Receive("offer") /\ UNCHANGED <<pc, offers, cands>>
        /\ qtPc' = [step |-> "create", offer |-> Head(qt).offer]
    BY Zenon, <1>4 DEF HandleOffer, publisher
  <2>2. QED
    BY Zenon, <2>1, InOrderReceive
<1>5. CASE HandleRemoteIceCandidate
  <2>1. Receive("ice") /\ UNCHANGED <<pc, offers, cands>> /\ qtPc'.step # "create"
    BY Zenon, <1>5 DEF HandleRemoteIceCandidate, publisher
  <2>2. QED
    BY Zenon, <2>1, InOrderReceive
<1>6. CASE DoCreateAnswer
  <2>1. Receive("answer") /\ UNCHANGED <<pc, offers, cands>> /\ qtPc' = qtPc
    BY Zenon, <1>6 DEF DoCreateAnswer, publisher
  <2>2. qtPc.step = "idle"
    BY Zenon, <2>1, Received
  <2>3. QED
    BY Zenon, <2>1, <2>2, InOrderReceive
<1>7. CASE FlushClear
  <2>1. /\ rtc.by \in Offers /\ qt' = Append(qt, AnswerEvent(rtc.by))
        /\ UNCHANGED <<qtPc, pc, offers, cands>>
    BY Zenon, <1>7, ThreadFields DEF FlushClear, publisher
  <2>2. QED
    BY Zenon, <2>1, InOrderAnswer
<1>8. ASSUME UNCHANGED <<qt, qtPc, pc, offers, cands>> PROVE InOrder'
  BY Zenon, <1>8 DEF InOrder, Current
<1>9. ASSUME NEW op \in ops, SetRemoteSucceeds(op) PROVE InOrder'
  <2>1. op.by \in Offers /\ UNCHANGED <<qtPc, pc, offers, cands>>
    BY Zenon, <1>9, OpFields DEF SetRemoteSucceeds, publisher
  <2>2. qt' = qt \/ qt' = Append(qt, AnswerEvent(op.by))
    BY Zenon, <1>9 DEF SetRemoteSucceeds
  <2>3. QED
    BY Zenon, <1>8, <2>1, <2>2, InOrderAnswer
<1>10. CASE RtcStep
  <2>1. ASSUME NEW op \in ops,
               \/ SetRemoteFails(op) \/ Complete(op) \/ AnswerFails(op)
               \/ CreateAnswerSucceeds(op) \/ SetLocalSucceeds(op)
        PROVE  InOrder'
    <3>1. UNCHANGED <<qt, qtPc, pc, offers, cands>>
      BY Zenon, <2>1 DEF SetRemoteFails, Complete, AnswerFails, CreateAnswerSucceeds,
                  SetLocalSucceeds, publisher
    <3>2. QED
      BY Zenon, <1>8, <3>1
  <2>2. CASE SendAnswer
    BY Zenon, <1>8, <2>2 DEF SendAnswer, publisher
  <2>3. QED
    BY Zenon, <1>7, <1>9, <1>10, <2>1, <2>2 DEF RtcStep
<1>11. CASE UNCHANGED vars
  BY Zenon, <1>8, <1>11 DEF vars, publisher
<1>12. QED
  BY Zenon, <1>1, <1>2, <1>3, <1>4, <1>5, <1>6, <1>10, <1>11, InOrderPublisher DEF Next, QtStep

-----------------------------------------------------------------------------
(* Each offer gets a connection of its own.                                *)

\* At the start there is no connection.
LEMMA FreshInit == Init => Fresh
<1> SUFFICES ASSUME Init PROVE Fresh
  BY Zenon
<1>1. In(qt) = {} /\ answers = <<>> /\ ops = {} /\ rtc.step = "idle" /\ qtPc.step = "idle"
  BY Zenon, InEmpty, IdleTyped DEF Init
<1>2. \A p \in Offers : conn[p] = "none"
  BY Zenon DEF Init
<1>3. pc = 0
  BY Zenon DEF Init
<1>4. 1..Len(<<>>) = {}
  OBVIOUS
<1>5. QED
  BY Zenon, <1>1, <1>2, <1>3, <1>4 DEF Fresh, Open

\* A step that leaves the connections alone.
LEMMA FreshKept ==
  ASSUME Typed, Fresh, UNCHANGED <<conn, pc, offers>>,
         \A e \in In(qt') : e.type = "offer" => e \in In(qt),
         qtPc'.step = "create" => conn[qtPc'.offer] = "none",
         \A op \in ops' : conn[op.pc] # "none",
         rtc'.step = "send" => conn[rtc'.pc] # "none",
         \A i \in 1..Len(answers') : conn[answers'[i].pc] # "none"
  PROVE  Fresh'
  BY Zenon DEF Fresh

\* A step that takes a connection one state further.
LEMMA FreshMoves ==
  ASSUME Typed, Fresh, NEW p \in Offers, NEW s \in Ready, conn[p] \in Open,
         conn' = [conn EXCEPT ![p] = s], UNCHANGED <<pc, offers, qtPc, answers>>,
         \A e \in In(qt') : e.type = "offer" => e \in In(qt),
         \A op \in ops' : \E other \in ops : op.pc = other.pc,
         rtc'.step # "send" \/ rtc' = rtc
  PROVE  Fresh'
<1>1. conn \in [Offers -> Open \cup {"none", "closed"}]
  BY Zenon DEF Typed, Connections
<1>2. \A q \in Offers : conn'[q] = "none" <=> conn[q] = "none"
  BY Zenon, <1>1 DEF Ready, Open
<1>3. \A q \in Offers : conn'[q] \in Open <=> conn[q] \in Open
  BY Zenon, <1>1 DEF Ready, Open
<1>4. \A e \in In(qt) : e.type = "offer" => e.offer \in Offers
  BY EventFields DEF Typed, Queues, In
<1>5. /\ qtPc.step = "create" => qtPc.offer \in Offers
      /\ rtc.step = "send" => rtc.pc \in Offers
  BY Zenon, ThreadFields
<1>6. \A i \in 1..Len(answers) : answers[i].pc \in Offers
  BY Zenon, AnswerFields
<1>7. \A op \in ops : op.pc \in Offers
  BY Zenon, OpFields
<1>8. pc # 0 => pc \in Offers
  BY NegotiationAssumption DEF Typed, Connections, Offers
<1>9. \A q \in Offers : offers' < q => conn'[q] = "none"
  BY Zenon, <1>2 DEF Fresh
<1>10. \A e \in In(qt') : e.type = "offer" => conn'[e.offer] = "none"
  BY Zenon, <1>2, <1>4 DEF Fresh
<1>11. pc' # 0 => conn'[pc'] \in Open
  BY Zenon, <1>3, <1>8 DEF Fresh
<1>12. \A op \in ops' : conn'[op.pc] # "none"
  BY <1>2, <1>7 DEF Fresh
<1>13. rtc'.step = "send" => conn'[rtc'.pc] # "none"
  BY Zenon, <1>2, <1>5 DEF Fresh
<1>14. \A i \in 1..Len(answers') : conn'[answers'[i].pc] # "none"
  BY Zenon, <1>2, <1>6 DEF Fresh
<1>15. qtPc'.step = "create" => conn'[qtPc'.offer] = "none"
  BY Zenon, <1>2, <1>5 DEF Fresh
<1>16. \A q \in Offers : conn'[q] \in Open => q = pc'
  BY Zenon, <1>3 DEF Fresh
<1>17. QED
  BY Zenon, <1>9, <1>10, <1>11, <1>12, <1>13, <1>14, <1>15, <1>16 DEF Fresh

\* The current connection is closed; the current offer may get one.
LEMMA FreshClosed ==
  ASSUME Typed, InOrder, Fresh, UNCHANGED <<offers, qt, rtc, answers>>,
         qtPc'.step # "create",
         \/ conn' = ClosePc /\ pc' = 0 /\ ops' = ops
         \/ /\ qtPc.step = "create" /\ conn' = [ClosePc EXCEPT ![qtPc.offer] = "new"]
            /\ pc' = qtPc.offer
            /\ \A op \in ops' : op \in ops \/ op.pc = qtPc.offer
  PROVE  Fresh'
<1>1. conn \in [Offers -> Open \cup {"none", "closed"}]
  BY Zenon DEF Typed, Connections
<1>2. \A e \in In(qt) : e.type = "offer" => e.offer \in Offers
  BY EventFields DEF Typed, Queues, In
<1>3. /\ qtPc.step = "create" => qtPc.offer \in Offers
      /\ rtc.step = "send" => rtc.pc \in Offers
  BY Zenon, ThreadFields
<1>4. \A i \in 1..Len(answers) : answers[i].pc \in Offers
  BY Zenon, AnswerFields
<1>5. \A op \in ops : op.pc \in Offers
  BY Zenon, OpFields
<1>6. pc # 0 => pc \in Offers
  BY NegotiationAssumption DEF Typed, Connections, Offers
<1>7. \A p \in Offers : ClosePc[p] = IF p = pc THEN "closed" ELSE conn[p]
  BY Zenon, ClosedTyped
<1>8. \A p \in Offers : ClosePc[p] = "none" <=> conn[p] = "none"
  BY Zenon, <1>6, <1>7, Numbers DEF Fresh, Open
<1>9. \A p \in Offers : ClosePc[p] \notin Open
  BY Zenon, <1>7 DEF Fresh, Open
<1>10. CASE conn' = ClosePc /\ pc' = 0 /\ ops' = ops
  <2>1. \A p \in Offers : (conn'[p] = "none" <=> conn[p] = "none") /\ conn'[p] \notin Open
    BY Zenon, <1>8, <1>9, <1>10
  <2>2. QED
    BY <1>2, <1>3, <1>4, <1>5, <1>10, <2>1 DEF Fresh
<1>11. CASE /\ qtPc.step = "create" /\ conn' = [ClosePc EXCEPT ![qtPc.offer] = "new"]
            /\ pc' = qtPc.offer
            /\ \A op \in ops' : op \in ops \/ op.pc = qtPc.offer
  <2> DEFINE o == qtPc.offer
  <2>1. o \in Offers /\ o \in Nat /\ conn[o] = "none" /\ Current = o
    BY Zenon, <1>3, <1>11, Numbers DEF Fresh, Current
  <2>2. \A p \in Offers : conn'[p] = IF p = o THEN "new" ELSE ClosePc[p]
    BY Zenon, <1>11, <2>1, ClosedTyped
  <2>3. pc' = o /\ \A op \in ops' : op \in ops \/ op.pc = o
    BY Zenon, <1>11
  <2> HIDE DEF o
  <2>4. \A p \in Offers : /\ p # o => (conn'[p] = "none" <=> conn[p] = "none")
                                      /\ conn'[p] \notin Open
                          /\ conn'[o] = "new"
    BY Zenon, <1>8, <1>9, <2>1, <2>2
  <2>5. \A e \in In(qt) : e.type = "offer" => e.offer # o
    BY <1>2, <2>1, Numbers DEF InOrder
  <2>6. o <= offers /\ offers \in Nat
    BY <2>1 DEF InOrder, Typed, Queues
  <2>7. \A p \in Offers : offers' < p => conn'[p] = "none"
    BY <2>1, <2>4, <2>6, Numbers DEF Fresh
  <2>8. \A e \in In(qt') : e.type = "offer" => conn'[e.offer] = "none"
    BY Zenon, <1>2, <2>4, <2>5 DEF Fresh
  <2>9. \A op \in ops' : conn'[op.pc] # "none"
    BY Zenon, <1>5, <2>1, <2>3, <2>4 DEF Fresh
  <2>10. rtc'.step = "send" => conn'[rtc'.pc] # "none"
    BY Zenon, <1>3, <2>1, <2>4 DEF Fresh
  <2>11. \A i \in 1..Len(answers') : conn'[answers'[i].pc] # "none"
    BY Zenon, <1>4, <2>1, <2>4 DEF Fresh
  <2>12. conn'[pc'] \in Open /\ \A p \in Offers : conn'[p] \in Open => p = pc'
    BY Zenon, <2>1, <2>3, <2>4 DEF Open
  <2>13. QED
    BY Zenon, <2>7, <2>8, <2>9, <2>10, <2>11, <2>12 DEF Fresh
<1>12. QED
  BY Zenon, <1>10, <1>11

\* Connections stay apart.
LEMMA FreshStep == ASSUME Typed, InOrder, Fresh, [Next]_vars PROVE Fresh'
<1>1. ASSUME UNCHANGED <<conn, pc, offers, qt, rtc, answers>>,
             qtPc' = qtPc \/ qtPc'.step # "create",
             \A op \in ops' : \E other \in ops : op.pc = other.pc
      PROVE  Fresh'
  BY Zenon, <1>1, FreshKept DEF Fresh
<1>2. CASE User
  <2>1. /\ UNCHANGED <<conn, pc, offers, qt, rtc, answers, ops>>
        /\ qtPc' = qtPc \/ qtPc'.step # "create"
    BY <1>2 DEF User, ConnectToSignaling, DisconnectBegin, publisher
  <2>2. QED
    BY Zenon, <1>1, <2>1
<1>3. CASE Publisher
  <2>1. UNCHANGED <<conn, pc, qtPc, ops, rtc, answers>>
    BY Zenon, <1>3 DEF Publisher, OnOffer, OnIce
  <2>2. CASE OnOffer
    <3>1. offers' = offers + 1 /\ offers \in Nat
      BY Zenon, <2>2, OfferSent
    <3>2. offers + 1 \in Offers
      BY Zenon, <2>2, OfferSent
    <3>3. In(qt') = In(qt) \cup {OfferEvent(offers + 1)}
      BY Zenon, <2>2, OfferSent, Posted
    <3>4. \A o \in Offers : offers' < o => conn[o] = "none"
      BY <3>1, Numbers DEF Fresh
    <3>5. conn[offers + 1] = "none"
      BY <3>1, <3>2 DEF Fresh
    <3>6. \A e \in In(qt') : e.type = "offer" => conn[e.offer] = "none"
      BY <3>3, <3>5, EventFields DEF Fresh
    <3>7. QED
      BY Zenon, <2>1, <3>4, <3>6 DEF Fresh
  <2>3. CASE OnIce
    <3>1. offers' = offers /\ In(qt') = In(qt) \cup {IceEvent(<<offers, cands + 1>>)}
      BY Zenon, <2>3, IceSent, Posted
    <3>2. \A e \in In(qt') : e.type = "offer" => e \in In(qt)
      BY Zenon, <3>1, EventFields
    <3>3. QED
      BY Zenon, <2>1, <3>1, <3>2, FreshKept DEF Fresh
  <2>4. QED
    BY Zenon, <1>3, <2>2, <2>3 DEF Publisher
<1>4. CASE DisconnectClose \/ CreatePeerConnectionFails \/ ParseOfferFails
  <2>1. UNCHANGED <<offers, qt, rtc, answers, ops>> /\ qtPc' = Idle
    BY Zenon, <1>4 DEF DisconnectClose, CreatePeerConnectionFails, ParseOfferFails, publisher
  <2>2. \/ conn' = ClosePc /\ pc' = 0
        \/ /\ qtPc.step = "create" /\ conn' = [ClosePc EXCEPT ![qtPc.offer] = "new"]
           /\ pc' = qtPc.offer
    BY Zenon, <1>4 DEF DisconnectClose, CreatePeerConnectionFails, ParseOfferFails
  <2>3. QED
    BY Zenon, <2>1, <2>2, IdleTyped, FreshClosed
<1>5. CASE SetRemoteDescription
  <2>1. /\ UNCHANGED <<offers, qt, rtc, answers>> /\ qtPc' = Idle /\ pc' = qtPc.offer
        /\ qtPc.step = "create" /\ conn' = [ClosePc EXCEPT ![qtPc.offer] = "new"]
        /\ ops' = ops \cup {Op("setRemote", qtPc.offer, qtPc.offer, qtPc.offer)}
    BY Zenon, <1>5 DEF SetRemoteDescription, publisher
  <2>2. \A op \in ops' : op \in ops \/ op.pc = qtPc.offer
    BY <2>1 DEF Op
  <2>3. QED
    BY Zenon, <2>1, <2>2, IdleTyped, FreshClosed
<1>6. CASE HandleOffer
  <2>1. UNCHANGED <<conn, pc, offers, ops, rtc, answers>> /\ Receive("offer")
    BY Zenon, <1>6 DEF HandleOffer, publisher
  <2>2. Head(qt) \in In(qt) /\ Head(qt).type = "offer" /\ In(qt') \subseteq In(qt)
    BY Zenon, <2>1, Received
  <2>3. qtPc'.offer = Head(qt).offer
    BY Zenon, <1>6 DEF HandleOffer
  <2>4. conn[qtPc'.offer] = "none"
    BY Zenon, <2>2, <2>3 DEF Fresh
  <2>5. QED
    BY Zenon, <2>1, <2>2, <2>4, FreshKept DEF Fresh
<1>7. CASE HandleRemoteIceCandidate
  <2>1. /\ UNCHANGED <<conn, pc, offers, ops, rtc, answers>> /\ Receive("ice")
        /\ qtPc'.step # "create"
    BY Zenon, <1>7 DEF HandleRemoteIceCandidate, publisher
  <2>2. In(qt') \subseteq In(qt)
    BY Zenon, <2>1, Received
  <2>3. QED
    BY Zenon, <2>1, <2>2, FreshKept DEF Fresh
<1>8. CASE PushPending \/ AddRemoteIceCandidateNow
  <2>1. UNCHANGED <<conn, pc, offers, qt, rtc, answers, ops>> /\ qtPc' = Idle
    BY Zenon, <1>8 DEF PushPending, AddRemoteIceCandidateNow, publisher
  <2>2. QED
    BY Zenon, <1>1, <2>1, IdleTyped
<1>9. CASE DoCreateAnswer
  <2>1. UNCHANGED <<conn, pc, offers, qtPc, rtc, answers>> /\ Receive("answer")
    BY Zenon, <1>9 DEF DoCreateAnswer, publisher
  <2>2. In(qt') \subseteq In(qt) /\ qtPc.step = "idle"
    BY Zenon, <2>1, Received
  <2>3. \A op \in ops' : op \in ops \/ (op.pc = pc /\ pc # 0)
    BY <1>9 DEF DoCreateAnswer, Op
  <2>4. \A op \in ops' : conn[op.pc] # "none"
    BY Zenon, <2>3 DEF Fresh, Open
  <2>5. QED
    BY Zenon, <2>1, <2>2, <2>4, FreshKept DEF Fresh
<1>10. CASE FlushClear
  <2>1. UNCHANGED <<conn, pc, offers, qtPc, ops, answers>> /\ rtc' = Idle
    BY Zenon, <1>10 DEF FlushClear, publisher
  <2>2. AnswerEvent(rtc.by) \in Events /\ AnswerEvent(rtc.by).type = "answer"
    BY Zenon, <1>10, ThreadFields, EventFields DEF FlushClear
  <2>3. In(qt') = In(qt) \cup {AnswerEvent(rtc.by)}
    BY Zenon, <1>10, <2>2, Posted DEF FlushClear
  <2>4. QED
    BY Zenon, <2>1, <2>2, <2>3, IdleTyped, FreshKept DEF Fresh
<1>11. CASE SendAnswer
  <2>1. UNCHANGED <<conn, pc, offers, qt, qtPc, ops>> /\ rtc' = Idle /\ rtc.step = "send"
    BY Zenon, <1>11 DEF SendAnswer, publisher
  <2>2. \A i \in 1..Len(answers') : conn[answers'[i].pc] # "none"
    <3> DEFINE a == [offer |-> rtc.offer, pc |-> rtc.pc]
    <3>1. a \in Answers /\ a.pc = rtc.pc
      BY Zenon, <2>1, ThreadFields DEF Answers
    <3>2. answers \in Seq(Answers)
      BY Zenon DEF Typed, Connections
    <3>3. answers' = answers \/ answers' = Append(answers, a)
      BY Zenon, <1>11 DEF SendAnswer
    <3> HIDE DEF a
    <3>4. In(Append(answers, a)) = In(answers) \cup {a}
      BY <3>1, <3>2, Push
    <3>5. \A x \in In(answers) \cup {a} : conn[x.pc] # "none"
      BY Zenon, <2>1, <3>1 DEF Fresh, In
    <3>6. QED
      BY Zenon, <3>3, <3>4, <3>5 DEF In
  <2>3. QED
    BY Zenon, <2>1, <2>2, IdleTyped, FreshKept DEF Fresh
<1>12. ASSUME NEW op \in ops, SetRemoteSucceeds(op) PROVE Fresh'
  <2>1. /\ conn[op.pc] = "new" /\ conn' = [conn EXCEPT ![op.pc] = "remote"]
        /\ UNCHANGED <<pc, offers, qtPc, answers>> /\ ops' = ops \ {op}
        /\ rtc' = rtc \/ rtc'.step = "clear"
    BY <1>12 DEF SetRemoteSucceeds, publisher
  <2>2. op.pc \in Offers /\ op.by \in Offers
    BY Zenon, OpFields
  <2>3. AnswerEvent(op.by) \in Events /\ AnswerEvent(op.by).type = "answer"
    BY Zenon, <2>2, EventFields
  <2>4. In(Append(qt, AnswerEvent(op.by))) = In(qt) \cup {AnswerEvent(op.by)}
    BY Zenon, <2>3, Posted
  <2>5. \A e \in In(qt') : e.type = "offer" => e \in In(qt)
    BY Zenon, <1>12, <2>3, <2>4 DEF SetRemoteSucceeds
  <2>6. conn[op.pc] \in Open /\ "remote" \in Ready
    BY Zenon, <2>1 DEF Open, Ready
  <2>7. \A other \in ops' : \E o \in ops : other.pc = o.pc
    BY Zenon, <2>1
  <2>8. QED
    BY Zenon, <2>1, <2>2, <2>5, <2>6, <2>7, FreshMoves
<1>13. ASSUME NEW op \in ops, Complete(op) PROVE Fresh'
  <2>1. PICK res \in {"ok", "error"} :
          /\ res = "ok" => conn[op.pc] = "remote"
          /\ ops' = (ops \ {op}) \cup {Result(op, res)}
          /\ conn' = IF op.kind = "setLocal" /\ res = "ok"
                       THEN [conn EXCEPT ![op.pc] = "stable"] ELSE conn
    BY <1>13, Zenon DEF Complete, Result
  <2>2. UNCHANGED <<pc, offers, qt, qtPc, rtc, answers>>
    BY Zenon, <1>13 DEF Complete, publisher
  <2>3. op.pc \in Offers /\ Result(op, res).pc = op.pc
    BY OpFields
  <2>4. \A other \in ops' : \E o \in ops : other.pc = o.pc
    BY Zenon, <2>1, <2>3
  <2>5. CASE op.kind = "setLocal" /\ res = "ok"
    <3>1. /\ conn[op.pc] \in Open /\ "stable" \in Ready
          /\ conn' = [conn EXCEPT ![op.pc] = "stable"]
      BY Zenon, <2>1, <2>5 DEF Open, Ready
    <3>2. QED
      BY Zenon, <2>2, <2>3, <2>4, <3>1, FreshMoves
  <2>6. CASE ~(op.kind = "setLocal" /\ res = "ok")
    <3>1. conn' = conn
      BY Zenon, <2>1, <2>6
    <3>2. QED
      BY Zenon, <1>1, <2>2, <2>4, <3>1
  <2>7. QED
    BY Zenon, <2>5, <2>6
<1>14. ASSUME NEW op \in ops, CreateAnswerSucceeds(op) PROVE Fresh'
  <2>1. UNCHANGED <<conn, pc, offers, qt, qtPc, rtc, answers>>
    BY Zenon, <1>14 DEF CreateAnswerSucceeds, publisher
  <2>2. \A other \in ops' : other \in ops \/ (other.pc = pc /\ pc # 0)
    BY <1>14 DEF CreateAnswerSucceeds, Op
  <2>3. \A other \in ops' : conn[other.pc] # "none"
    BY Zenon, <2>2 DEF Fresh, Open
  <2>4. QED
    BY Zenon, <2>1, <2>3, FreshKept DEF Fresh
<1>15. ASSUME NEW op \in ops, SetLocalSucceeds(op) PROVE Fresh'
  <2>1. UNCHANGED <<conn, pc, offers, qt, qtPc, answers>> /\ ops' = ops \ {op}
    BY Zenon, <1>15 DEF SetLocalSucceeds, publisher
  <2>2. rtc' = rtc \/ rtc'.pc = op.pc
    BY <1>15 DEF SetLocalSucceeds
  <2>3. rtc'.step = "send" => conn[rtc'.pc] # "none"
    BY Zenon, <2>2 DEF Fresh
  <2>4. QED
    BY Zenon, <2>1, <2>3, FreshKept DEF Fresh
<1>16. ASSUME NEW op \in ops, SetRemoteFails(op) \/ AnswerFails(op) PROVE Fresh'
  <2>1. UNCHANGED <<conn, pc, offers, qt, qtPc, rtc, answers>> /\ ops' = ops \ {op}
    BY Zenon, <1>16 DEF SetRemoteFails, AnswerFails, publisher
  <2>2. QED
    BY Zenon, <1>1, <2>1
<1>17. CASE UNCHANGED vars
  BY Zenon, <1>1, <1>17 DEF vars, publisher
<1>18. CASE QtStep
  BY Zenon, <1>4, <1>5, <1>6, <1>7, <1>8, <1>9, <1>18 DEF QtStep
<1>19. CASE RtcStep
  BY Zenon, <1>10, <1>11, <1>12, <1>13, <1>14, <1>15, <1>16, <1>19 DEF RtcStep
<1>20. QED
  BY Zenon, <1>2, <1>3, <1>17, <1>18, <1>19 DEF Next

-----------------------------------------------------------------------------
(* A connection is answered once.                                          *)

\* At the start nothing is answered.
LEMMA OneAnswerInit == Init => OneAnswer
<1> SUFFICES ASSUME Init PROVE OneAnswer
  BY Zenon
<1>1. answers = <<>> /\ ops = {} /\ rtc.step = "idle"
  BY Zenon, IdleTyped DEF Init
<1>2. 1..Len(<<>>) = {}
  OBVIOUS
<1>3. QED
  BY Zenon, <1>1, <1>2 DEF OneAnswer, OneAnswerPerConnection

\* A step in which no local description is set and no answer is on its way.
LEMMA OneAnswerKept ==
  ASSUME Typed, OneAnswer, \A p \in Offers : conn[p] \in Spent => conn'[p] \in Spent,
         \A op \in ops' : Answered(op) => op \in ops,
         rtc' = rtc \/ rtc'.step # "send", answers' = answers
  PROVE  OneAnswer'
<1>1. \A op \in ops : op.pc \in Offers
  BY Zenon, OpFields
<1>2. rtc.step = "send" => rtc.pc \in Offers
  BY Zenon, ThreadFields
<1>3. \A i \in 1..Len(answers) : answers[i].pc \in Offers
  BY Zenon, AnswerFields
<1>4. \A op \in ops' : Answered(op) => op \in ops /\ conn'[op.pc] \in Spent
  BY Zenon, <1>1 DEF OneAnswer
<1>5. \A op, other \in ops' :
        Answered(op) /\ Answered(other) /\ op.pc = other.pc => op = other
  BY Zenon, <1>4 DEF OneAnswer
<1>6. rtc'.step = "send" =>
        /\ conn'[rtc'.pc] \in Spent
        /\ \A op \in ops' : Answered(op) => op.pc # rtc'.pc
        /\ \A i \in 1..Len(answers') : answers'[i].pc # rtc'.pc
  BY Zenon, <1>2, <1>4 DEF OneAnswer
<1>7. \A i \in 1..Len(answers') :
        /\ conn'[answers'[i].pc] \in Spent
        /\ \A op \in ops' : Answered(op) => op.pc # answers'[i].pc
  BY Zenon, <1>3, <1>4 DEF OneAnswer
<1>8. OneAnswerPerConnection'
  BY Zenon DEF OneAnswer, OneAnswerPerConnection
<1>9. QED
  BY Zenon, <1>4, <1>5, <1>6, <1>7, <1>8 DEF OneAnswer, Answered

\* A local description is set: the connection was not answered.
LEMMA OneAnswerSet ==
  ASSUME Typed, OneAnswer, NEW op \in ops, op.kind = "setLocal", conn[op.pc] = "remote",
         ops' = (ops \ {op}) \cup {Result(op, "ok")},
         conn' = [conn EXCEPT ![op.pc] = "stable"], UNCHANGED <<rtc, answers>>
  PROVE  OneAnswer'
<1>1. \A o \in ops : o.pc \in Offers
  BY Zenon, OpFields
<1>2. rtc.step = "send" => rtc.pc \in Offers
  BY Zenon, ThreadFields
<1>3. \A i \in 1..Len(answers) : answers[i].pc \in Offers
  BY Zenon, AnswerFields
<1> DEFINE r == Result(op, "ok")
<1>4. r.pc = op.pc /\ r.pc \in Offers
  BY Zenon, <1>1, OpFields
<1>5. \A p \in Offers : (conn[p] \in Spent => p # r.pc /\ conn'[p] \in Spent)
                        /\ conn'[r.pc] \in Spent
  <2>1. conn \in [Offers -> Open \cup {"none", "closed"}]
    BY Zenon DEF Typed, Connections
  <2>2. QED
    BY Zenon, <1>4, <2>1 DEF Spent
<1>6. \A o \in ops' : o \in ops \/ o = r
  BY Zenon
<1> HIDE DEF r
<1>7. \A o \in ops' : Answered(o) => /\ conn'[o.pc] \in Spent
                                     /\ o = r \/ (o \in ops /\ o.pc # r.pc)
  BY Zenon, <1>1, <1>5, <1>6 DEF OneAnswer
<1>8. \A o, other \in ops' : Answered(o) /\ Answered(other) /\ o.pc = other.pc => o = other
  BY Zenon, <1>7 DEF OneAnswer
<1>9. rtc'.step = "send" =>
        /\ conn'[rtc'.pc] \in Spent
        /\ \A o \in ops' : Answered(o) => o.pc # rtc'.pc
        /\ \A i \in 1..Len(answers') : answers'[i].pc # rtc'.pc
  BY Zenon, <1>2, <1>5, <1>7 DEF OneAnswer
<1>10. \A i \in 1..Len(answers') :
        /\ conn'[answers'[i].pc] \in Spent
        /\ \A o \in ops' : Answered(o) => o.pc # answers'[i].pc
  BY Zenon, <1>3, <1>5, <1>7 DEF OneAnswer
<1>11. OneAnswerPerConnection'
  BY Zenon DEF OneAnswer, OneAnswerPerConnection
<1>12. QED
  BY Zenon, <1>7, <1>8, <1>9, <1>10, <1>11 DEF OneAnswer, Answered

\* Its success is reported.
LEMMA OneAnswerReported ==
  ASSUME Typed, OneAnswer, NEW op \in ops, Answered(op), ops' = ops \ {op},
         rtc'.pc = op.pc, rtc.step = "idle", UNCHANGED <<conn, answers>>
  PROVE  OneAnswer'
<1>1. \A o \in ops' : o \in ops /\ (Answered(o) => o.pc # op.pc)
  BY Zenon DEF OneAnswer
<1>2. /\ conn'[rtc'.pc] \in Spent
      /\ \A o \in ops' : Answered(o) => o.pc # rtc'.pc
      /\ \A i \in 1..Len(answers') : answers'[i].pc # rtc'.pc
  BY Zenon, <1>1 DEF OneAnswer
<1>3. /\ \A o \in ops' : Answered(o) => conn'[o.pc] \in Spent
      /\ \A o, other \in ops' : Answered(o) /\ Answered(other) /\ o.pc = other.pc => o = other
  BY Zenon, <1>1 DEF OneAnswer
<1>4. \A i \in 1..Len(answers') :
        /\ conn'[answers'[i].pc] \in Spent
        /\ \A o \in ops' : Answered(o) => o.pc # answers'[i].pc
  BY Zenon, <1>1 DEF OneAnswer
<1>5. OneAnswerPerConnection'
  BY Zenon DEF OneAnswer, OneAnswerPerConnection
<1>6. QED
  BY Zenon, <1>2, <1>3, <1>4, <1>5 DEF OneAnswer, Answered

\* It is sent.
LEMMA OneAnswerSent ==
  ASSUME Typed, OneAnswer, SendAnswer
  PROVE  OneAnswer'
<1>1. rtc' = Idle /\ UNCHANGED <<conn, ops>> /\ rtc.step = "send"
  BY Zenon DEF SendAnswer
<1>2. CASE answers' = answers
  BY Zenon, <1>1, <1>2, IdleTyped, OneAnswerKept
<1> DEFINE a == [offer |-> rtc.offer, pc |-> rtc.pc]
<1>3. CASE answers' = Append(answers, a)
  <2>1. a \in Answers /\ a.pc = rtc.pc
    BY Zenon, <1>1, ThreadFields DEF Answers
  <2>2. answers \in Seq(Answers)
    BY Zenon DEF Typed, Connections
  <2> HIDE DEF a
  <2>3. /\ Len(Append(answers, a)) = Len(answers) + 1 /\ Len(answers) \in Nat
        /\ Append(answers, a)[Len(answers) + 1] = a
        /\ \A i \in 1..Len(answers) : Append(answers, a)[i] = answers[i]
    BY <2>1, <2>2, Push
  <2>4. /\ Len(answers') = Len(answers) + 1 /\ Len(answers) \in Nat
        /\ answers'[Len(answers) + 1].pc = rtc.pc
        /\ \A i \in 1..Len(answers) : answers'[i] = answers[i]
    BY Zenon, <1>3, <2>1, <2>3
  <2>5. \A i \in 1..Len(answers') : i \in 1..Len(answers) \/ i = Len(answers) + 1
    BY <2>4
  <2>6. \A i \in 1..Len(answers') :
          /\ conn'[answers'[i].pc] \in Spent
          /\ \A o \in ops' : Answered(o) => o.pc # answers'[i].pc
    <3> TAKE i \in 1..Len(answers')
    <3>1. CASE i \in 1..Len(answers)
      BY Zenon, <1>1, <2>4, <3>1 DEF OneAnswer
    <3>2. CASE i = Len(answers) + 1
      BY Zenon, <1>1, <2>4, <3>2 DEF OneAnswer
    <3>3. QED
      BY Zenon, <2>5, <3>1, <3>2
  <2>7. OneAnswerPerConnection'
    <3> SUFFICES ASSUME NEW i \in 1..Len(answers'), NEW j \in 1..Len(answers'),
                        answers'[i].pc = answers'[j].pc
                 PROVE  i = j
      BY Zenon DEF OneAnswerPerConnection
    <3>1. CASE i \in 1..Len(answers) /\ j \in 1..Len(answers)
      BY Zenon, <2>4, <3>1 DEF OneAnswer, OneAnswerPerConnection
    <3>2. CASE i = Len(answers) + 1 /\ j \in 1..Len(answers)
      BY Zenon, <1>1, <2>4, <3>2 DEF OneAnswer
    <3>3. CASE j = Len(answers) + 1 /\ i \in 1..Len(answers)
      BY Zenon, <1>1, <2>4, <3>3 DEF OneAnswer
    <3>4. QED
      BY Zenon, <2>5, <3>1, <3>2, <3>3
  <2>8. QED
    BY Zenon, <1>1, <2>6, <2>7, IdleTyped DEF OneAnswer, Answered
<1>4. QED
  BY Zenon, <1>2, <1>3 DEF SendAnswer

\* A connection that is answered stays so until it is closed.
LEMMA SpentStep ==
  ASSUME Typed, Fresh, [Next]_vars
  PROVE  \A p \in Offers : conn[p] \in Spent => conn'[p] \in Spent
<1> SUFFICES ASSUME NEW p \in Offers, conn[p] \in Spent PROVE conn'[p] \in Spent
  BY Zenon
<1>1. conn \in [Offers -> Open \cup {"none", "closed"}]
  BY Zenon DEF Typed, Connections
<1>2. CASE DisconnectClose \/ CreatePeerConnectionFails
  BY Zenon, <1>2, ClosedTyped DEF DisconnectClose, CreatePeerConnectionFails, Spent
<1>3. CASE ParseOfferFails \/ SetRemoteDescription
  <2>1. qtPc.step = "create" /\ conn' = [ClosePc EXCEPT ![qtPc.offer] = "new"]
    BY Zenon, <1>3 DEF ParseOfferFails, SetRemoteDescription
  <2>2. qtPc.offer \in Offers /\ conn[qtPc.offer] = "none"
    BY Zenon, <2>1, ThreadFields DEF Fresh
  <2>3. p # qtPc.offer
    BY Zenon, <2>2 DEF Spent
  <2>4. QED
    BY Zenon, <2>1, <2>2, <2>3, ClosedTyped DEF Spent
<1>4. ASSUME NEW op \in ops, SetRemoteSucceeds(op) PROVE conn'[p] \in Spent
  BY Zenon, <1>1, <1>4 DEF SetRemoteSucceeds, Spent
<1>5. ASSUME NEW op \in ops, Complete(op) PROVE conn'[p] \in Spent
  <2>1. conn' = conn \/ conn' = [conn EXCEPT ![op.pc] = "stable"]
    BY Zenon, <1>5 DEF Complete
  <2>2. QED
    BY Zenon, <1>1, <2>1 DEF Spent
<1>6. ASSUME conn' = conn PROVE conn'[p] \in Spent
  BY Zenon, <1>6
<1>7. CASE User \/ Publisher
  BY Zenon, <1>6, <1>7 DEF User, Publisher, ConnectToSignaling, DisconnectBegin, OnOffer, OnIce
<1>8. CASE QtStep
  <2>1. CASE \/ HandleOffer \/ HandleRemoteIceCandidate \/ PushPending
             \/ AddRemoteIceCandidateNow \/ DoCreateAnswer
    <3>1. conn' = conn
      BY Zenon, <2>1 DEF HandleOffer, HandleRemoteIceCandidate, PushPending,
                  AddRemoteIceCandidateNow, DoCreateAnswer
    <3>2. QED
      BY Zenon, <1>6, <3>1
  <2>2. QED
    BY Zenon, <1>2, <1>3, <1>8, <2>1 DEF QtStep
<1>9. CASE RtcStep
  <2>1. CASE FlushClear \/ SendAnswer
    BY Zenon, <1>6, <2>1 DEF FlushClear, SendAnswer
  <2>2. ASSUME NEW op \in ops, \/ SetRemoteFails(op) \/ AnswerFails(op)
                               \/ CreateAnswerSucceeds(op) \/ SetLocalSucceeds(op)
        PROVE  conn'[p] \in Spent
    BY Zenon, <1>6, <2>2 DEF SetRemoteFails, AnswerFails, CreateAnswerSucceeds, SetLocalSucceeds
  <2>3. QED
    BY Zenon, <1>4, <1>5, <1>9, <2>1, <2>2 DEF RtcStep
<1>10. QED
  BY Zenon, <1>6, <1>7, <1>8, <1>9 DEF Next, vars

\* A connection is answered once.
LEMMA OneAnswerStep == ASSUME Typed, Fresh, OneAnswer, [Next]_vars PROVE OneAnswer'
<1>1. ASSUME \A op \in ops' : Answered(op) => op \in ops,
             rtc' = rtc \/ rtc'.step # "send", answers' = answers
      PROVE  OneAnswer'
  BY Zenon, <1>1, SpentStep, OneAnswerKept
<1>2. CASE User \/ Publisher \/ UNCHANGED vars
  <2>1. UNCHANGED <<ops, rtc, answers>>
    BY Zenon, <1>2 DEF User, Publisher, ConnectToSignaling, DisconnectBegin, OnOffer, OnIce, vars
  <2>2. QED
    BY Zenon, <1>1, <2>1
<1>3. CASE QtStep
  <2>1. UNCHANGED <<rtc, answers>> /\ \A op \in ops' : op \in ops \/ op.res = "running"
    <3>1. CASE DisconnectClose \/ HandleOffer \/ CreatePeerConnectionFails
      BY Zenon, <3>1 DEF DisconnectClose, HandleOffer, CreatePeerConnectionFails
    <3>2. CASE ParseOfferFails \/ HandleRemoteIceCandidate
      BY Zenon, <3>2 DEF ParseOfferFails, HandleRemoteIceCandidate
    <3>3. CASE PushPending \/ AddRemoteIceCandidateNow
      BY Zenon, <3>3 DEF PushPending, AddRemoteIceCandidateNow
    <3>4. CASE SetRemoteDescription
      BY <3>4 DEF SetRemoteDescription, Op
    <3>5. CASE DoCreateAnswer
      BY <3>5 DEF DoCreateAnswer, Op
    <3>6. QED
      BY Zenon, <1>3, <3>1, <3>2, <3>3, <3>4, <3>5 DEF QtStep
  <2>2. QED
    BY Zenon, <1>1, <2>1 DEF Answered
<1>4. CASE FlushClear
  <2>1. UNCHANGED <<ops, answers>> /\ rtc' = Idle
    BY Zenon, <1>4 DEF FlushClear
  <2>2. QED
    BY Zenon, <1>1, <2>1, IdleTyped
<1>5. ASSUME NEW op \in ops, SetRemoteFails(op) \/ SetRemoteSucceeds(op) \/ AnswerFails(op)
      PROVE  OneAnswer'
  <2>1. ops' = ops \ {op} /\ answers' = answers /\ (rtc' = rtc \/ rtc'.step = "clear")
    BY <1>5 DEF SetRemoteFails, SetRemoteSucceeds, AnswerFails
  <2>2. QED
    BY Zenon, <1>1, <2>1
<1>6. ASSUME NEW op \in ops, CreateAnswerSucceeds(op) PROVE OneAnswer'
  <2>1. UNCHANGED <<rtc, answers>> /\ \A o \in ops' : o \in ops \/ o.res = "running"
    BY <1>6 DEF CreateAnswerSucceeds, Op
  <2>2. QED
    BY Zenon, <1>1, <2>1 DEF Answered
<1>7. ASSUME NEW op \in ops, Complete(op) PROVE OneAnswer'
  <2>1. PICK res \in {"ok", "error"} :
          /\ res = "ok" => conn[op.pc] = "remote"
          /\ ops' = (ops \ {op}) \cup {Result(op, res)}
          /\ conn' = IF op.kind = "setLocal" /\ res = "ok"
                       THEN [conn EXCEPT ![op.pc] = "stable"] ELSE conn
    BY <1>7, Zenon DEF Complete, Result
  <2>2. UNCHANGED <<rtc, answers>>
    BY Zenon, <1>7 DEF Complete
  <2>3. CASE op.kind = "setLocal" /\ res = "ok"
    BY Zenon, <2>1, <2>2, <2>3, OneAnswerSet
  <2>4. CASE ~(op.kind = "setLocal" /\ res = "ok")
    <3>1. Result(op, res).kind = op.kind /\ Result(op, res).res = res
      BY OpFields
    <3>2. \A o \in ops' : Answered(o) => o \in ops
      BY Zenon, <2>1, <2>4, <3>1 DEF Answered
    <3>3. QED
      BY Zenon, <1>1, <2>2, <3>2
  <2>5. QED
    BY Zenon, <2>3, <2>4
<1>8. ASSUME NEW op \in ops, SetLocalSucceeds(op) PROVE OneAnswer'
  <2>1. /\ Answered(op) /\ ops' = ops \ {op} /\ UNCHANGED <<conn, answers>> /\ rtc = Idle
        /\ rtc' = rtc \/ rtc'.pc = op.pc
    BY <1>8 DEF SetLocalSucceeds, CallbackOf, RtcFree, Answered
  <2>2. QED
    BY Zenon, <1>1, <2>1, IdleTyped, OneAnswerReported
<1>9. QED
  BY Zenon, <1>2, <1>3, <1>4, <1>5, <1>6, <1>7, <1>8, OneAnswerSent DEF Next, RtcStep

-----------------------------------------------------------------------------
(* The candidates of a connection.                                         *)

\* Rising sequences of candidates, one behind the other.
LEMMA RisingJoin ==
  ASSUME NEW q \in Seq(Cands), NEW r \in Seq(Cands), Rising(q), Rising(r),
         Precede(In(q), In(r))
  PROVE  Rising(q \o r)
<1> DEFINE s == q \o r
<1>1. /\ Len(q) \in Nat /\ Len(r) \in Nat /\ Len(s) = Len(q) + Len(r)
      /\ \A i \in 1..Len(q) : s[i] = q[i]
      /\ \A i \in 1..Len(r) : s[Len(q) + i] = r[i]
  BY QueueLength
<1> HIDE DEF s
<1> SUFFICES ASSUME NEW i \in 1..Len(s), NEW j \in 1..Len(s), i < j
             PROVE  s[i][2] < s[j][2]
  BY Zenon DEF Rising, s
<1>2. \A k \in 1..Len(s) :
        \/ k \in 1..Len(q) /\ s[k] = q[k]
        \/ k - Len(q) \in 1..Len(r) /\ s[k] = r[k - Len(q)]
  <2> TAKE k \in 1..Len(s)
  <2>1. k \in 1..Len(q) \/ (k - Len(q) \in 1..Len(r) /\ k = Len(q) + (k - Len(q)))
    BY <1>1
  <2>2. QED
    BY Zenon, <1>1, <2>1
<1>3. CASE i \in 1..Len(q) /\ j \in 1..Len(q)
  BY Zenon, <1>1, <1>3 DEF Rising
<1>4. CASE i \in 1..Len(q) /\ j - Len(q) \in 1..Len(r) /\ s[j] = r[j - Len(q)]
  BY Zenon, <1>1, <1>4 DEF Precede, In
<1>5. CASE /\ i - Len(q) \in 1..Len(r) /\ s[i] = r[i - Len(q)]
           /\ j - Len(q) \in 1..Len(r) /\ s[j] = r[j - Len(q)]
  <2>1. i - Len(q) < j - Len(q)
    BY <1>1
  <2>2. QED
    BY Zenon, <1>5, <2>1 DEF Rising
<1>6. CASE i - Len(q) \in 1..Len(r) /\ j \in 1..Len(q)
  BY <1>1, <1>6
<1>7. QED
  BY Zenon, <1>2, <1>3, <1>4, <1>5, <1>6

\* One more candidate behind a rising sequence.
LEMMA RisingPush ==
  ASSUME NEW q \in Seq(Cands), NEW c \in Cands, Rising(q), Precede(In(q), {c})
  PROVE  Rising(Append(q, c))
<1> DEFINE s == Append(q, c)
<1>1. /\ Len(q) \in Nat /\ Len(s) = Len(q) + 1 /\ s[Len(q) + 1] = c
      /\ \A i \in 1..Len(q) : s[i] = q[i]
  BY Push
<1> HIDE DEF s
<1> SUFFICES ASSUME NEW i \in 1..Len(s), NEW j \in 1..Len(s), i < j
             PROVE  s[i][2] < s[j][2]
  BY Zenon DEF Rising, s
<1>2. i \in 1..Len(q)
  BY <1>1
<1>3. CASE j \in 1..Len(q)
  BY Zenon, <1>1, <1>2, <1>3 DEF Rising
<1>4. CASE j = Len(q) + 1
  BY Zenon, <1>1, <1>2, <1>4 DEF Precede, In
<1>5. QED
  BY <1>1, <1>3, <1>4

\* A queue without candidates.
LEMMA NoneRising == Rising(<<>>) /\ In(<<>>) = {}
  BY DEF Rising, In

\* At the start there are none.
LEMMA OwnInit == Init => OwnCandidates
<1> SUFFICES ASSUME Init PROVE OwnCandidates
  BY Zenon
<1>1. \A p \in Offers : added[p] = <<>>
  BY Zenon DEF Init
<1>2. pc = 0 /\ qtPc.step = "idle"
  BY Zenon, IdleTyped DEF Init
<1>3. QED
  BY Zenon, <1>1, <1>2, NoneRising DEF OwnCandidates, Given

\* A step that gives no connection anything, and takes no event but perhaps the
\* first one away.
LEMMA OwnKept ==
  ASSUME OwnCandidates, UNCHANGED <<pc, added, offers, cands>>,
         Waiting' \subseteq Waiting, Held' \subseteq Held,
         \A p \in Offers : /\ conn'[p] = "none" => conn[p] = "none"
                           /\ conn'[p] = "new" => conn[p] = "new",
         pc # 0 => pc \in Offers,
         pending' = pending \/ pending' = <<>>,
         qtPc'.step = "add" => qtPc.step = "add",
         qtPc'.step = "push" => qtPc.step = "push",
         qtPc'.step \in {"create", "close"} => pending' = <<>>,
         applied' => applied
  PROVE  OwnCandidates'
<1>1. Given'
  BY Zenon DEF OwnCandidates, Given
<1>2. pc # 0 => Incoming'
  BY Zenon DEF OwnCandidates, Incoming, Precede, Sent
<1>3. ASSUME pc # 0, conn'[pc] = "new" PROVE Queued'
  <2>1. Queued
    BY Zenon, <1>3 DEF OwnCandidates
  <2>2. CASE pending' = pending
    BY Zenon, <2>1, <2>2 DEF Queued, Precede, Sent
  <2>3. CASE pending' = <<>>
    BY Zenon, <2>1, <2>3, NoneRising DEF Queued, Precede
  <2>4. QED
    BY Zenon, <2>2, <2>3
<1>4. QED
  BY Zenon, <1>1, <1>2, <1>3 DEF OwnCandidates

\* What a thread in the middle of a handler holds.
LEMMA HeldIs ==
  /\ qtPc.step \notin {"push", "add"} => Held = {}
  /\ qtPc.step \in {"push", "add"} => Held = {qtPc.cand}
  /\ qtPc'.step \notin {"push", "add"} => Held' = {}
  /\ qtPc'.step \in {"push", "add"} => Held' = {qtPc'.cand}
  BY Zenon DEF Held

\* What waits changes with the candidates in the queue only.
LEMMA WaitingIs ==
  ASSUME pc' = pc
  PROVE  /\ In(qt') \subseteq In(qt) => Waiting' \subseteq Waiting
         /\ \A e : In(qt') = In(qt) \cup {e} /\ e.type # "ice" => Waiting' \subseteq Waiting
<1>1. \A c : IceEvent(c).type = "ice"
  BY Zenon, EventFields
<1>2. QED
  BY Zenon, <1>1 DEF Waiting

\* The current connection is one of an offer.
LEMMA PcOffer == ASSUME Typed, pc # 0 PROVE pc \in Offers /\ pc \in Nat
  BY NegotiationAssumption DEF Typed, Connections, Offers

\* The user.
LEMMA OwnUser == ASSUME Typed, OwnCandidates, User PROVE OwnCandidates'
<1>1. UNCHANGED <<pc, added, offers, cands, conn, qt>>
  BY Zenon DEF User, ConnectToSignaling, DisconnectBegin, publisher
<1>2. Waiting' = Waiting
  BY Zenon, <1>1 DEF Waiting
<1>3. pending' = pending \/ pending' = <<>>
  BY Zenon DEF User, ConnectToSignaling, DisconnectBegin
<1>4. qtPc.step = "idle" /\ (qtPc' = qtPc \/ (qtPc'.step = "close" /\ pending' = <<>>))
  BY IdleTyped DEF User, ConnectToSignaling, DisconnectBegin, QtFree
<1>5. applied' => applied
  BY Zenon DEF User, ConnectToSignaling, DisconnectBegin
<1>6. Held' \subseteq Held
  BY Zenon, <1>4, HeldIs
<1>7. qtPc'.step \in {"create", "close"} => pending' = <<>>
  BY Zenon, <1>4
<1>8. QED
  BY Zenon, <1>1, <1>2, <1>3, <1>4, <1>5, <1>6, <1>7, OwnKept, PcOffer

\* The publisher sends an offer: the current connection is of an earlier one ...
LEMMA OwnOnOffer == ASSUME Typed, InOrder, OwnCandidates, OnOffer PROVE OwnCandidates'
<1>1. /\ UNCHANGED <<pc, added, conn, pending, qtPc, applied>> /\ offers' = offers + 1
      /\ qt' = Append(qt, OfferEvent(offers + 1))
  BY Zenon DEF OnOffer
<1>2. offers + 1 \in Offers /\ offers \in Nat
  BY Zenon, OfferSent
<1>3. In(qt') = In(qt) \cup {OfferEvent(offers + 1)}
  BY Zenon, OfferSent, Posted
<1>4. Waiting' \subseteq Waiting
  BY Zenon, <1>1, <1>3, EventFields, WaitingIs
<1>5. Held' = Held
  BY Zenon, <1>1 DEF Held
<1>6. pc \in Nat /\ pc <= offers
  BY <1>2, ThreadFields, Numbers, NegotiationAssumption
     DEF InOrder, Current, Typed, Connections
<1>7. \A c : Sent(c)'
  BY <1>1, <1>2, <1>6 DEF Sent
<1>8. pc # 0 => Incoming'
  BY Zenon, <1>1, <1>4, <1>5, <1>7 DEF OwnCandidates, Incoming, Precede
<1>9. pc # 0 /\ conn[pc] = "new" => Queued'
  BY Zenon, <1>1, <1>4, <1>5, <1>7 DEF OwnCandidates, Queued, Precede
<1>10. Given'
  BY Zenon, <1>1 DEF OwnCandidates, Given
<1>11. QED
  BY Zenon, <1>1, <1>8, <1>9, <1>10 DEF OwnCandidates

\* ... or a candidate, which comes behind the others.
LEMMA OwnOnIce == ASSUME Typed, InOrder, OwnCandidates, OnIce PROVE OwnCandidates'
<1> DEFINE d == <<offers, cands + 1>>
<1>1. /\ UNCHANGED <<pc, added, conn, pending, qtPc, applied, offers>> /\ cands' = cands + 1
      /\ qt' = Append(qt, IceEvent(d))
  BY Zenon DEF OnIce
<1>2. offers \in Nat /\ cands \in Nat
  BY Zenon, IceSent
<1>3. d \in Cands /\ IceEvent(d) \in Events
  BY Zenon, IceSent
<1>4. d[1] = offers /\ d[2] = cands + 1
  BY Zenon
<1> HIDE DEF d
<1>5. In(qt') = In(qt) \cup {IceEvent(d)}
  BY Zenon, <1>1, <1>3, Posted
<1>6. \A c \in Waiting' : c \in Waiting \/ (c = d /\ pc = offers)
  <2>1. \A c : IceEvent(c) = IceEvent(d) => c = d
    BY Zenon DEF IceEvent
  <2>2. QED
    BY Zenon, <1>1, <1>4, <1>5, <2>1 DEF Waiting
<1>7. Held' = Held
  BY Zenon, <1>1 DEF Held
<1>8. \A c \in Cands : c[2] \in Nat
  BY Zenon, CandFields, Numbers
<1>9. Held \subseteq Cands /\ In(pending) \subseteq Cands
  BY HeldIs, ThreadFields DEF In, Typed, Queues
<1>10. pc # 0 => In(added[pc]) \subseteq Cands
  BY PcOffer DEF In, Typed, Connections
<1>11. \A c \in Cands : Sent(c) => Sent(c)'
  BY <1>1, <1>2, <1>8 DEF Sent
<1>12. \A c \in Cands : Sent(c) /\ pc = offers => c[2] < d[2]
  BY <1>2, <1>4, <1>8 DEF Sent
<1>13. ASSUME pc # 0 PROVE Incoming'
  <2>1. Incoming
    BY Zenon, <1>13 DEF OwnCandidates
  <2>2. \A c \in Held' : c[1] = pc' /\ Sent(c)'
    BY Zenon, <1>1, <1>7, <1>9, <1>11, <2>1 DEF Incoming
  <2>3. \A c \in In(added'[pc']) : Sent(c)'
    BY Zenon, <1>1, <1>10, <1>11, <1>13, <2>1 DEF Incoming
  <2>4. Precede(Held', Waiting')
    BY Zenon, <1>6, <1>7, <1>9, <1>12, <2>1 DEF Incoming, Precede
  <2>5. Precede(In(added[pc]), Held' \cup Waiting')
    BY Zenon, <1>6, <1>7, <1>10, <1>12, <1>13, <2>1 DEF Incoming, Precede
  <2>6. QED
    BY Zenon, <1>1, <2>2, <2>3, <2>4, <2>5 DEF Incoming
<1>14. ASSUME pc # 0, conn[pc] = "new" PROVE Queued'
  <2>1. Queued
    BY Zenon, <1>14 DEF OwnCandidates
  <2>2. \A c \in In(pending) : c[1] = pc /\ Sent(c)'
    BY Zenon, <1>9, <1>11, <2>1 DEF Queued
  <2>3. Precede(In(pending), Held' \cup Waiting')
    BY Zenon, <1>6, <1>7, <1>9, <1>12, <2>1 DEF Queued, Precede
  <2>4. QED
    BY Zenon, <1>1, <2>1, <2>2, <2>3 DEF Queued
<1>15. Given'
  BY Zenon, <1>1 DEF OwnCandidates, Given
<1>16. QED
  BY Zenon, <1>1, <1>13, <1>14, <1>15 DEF OwnCandidates

\* The head of the queue, when it is a candidate, belongs to the current
\* connection and precedes the others.
LEMMA FirstWaiting ==
  ASSUME Typed, InOrder, Receive("ice"), pc' = pc, pc # 0
  PROVE  /\ Head(qt).cand \in Waiting /\ (pc = offers => Head(qt).cand[2] <= cands)
         /\ Precede({Head(qt).cand}, Waiting')
<1> DEFINE c == Head(qt).cand
<1>1. /\ qt' = Tail(qt) /\ qt # <<>> /\ Head(qt) \in Events /\ Head(qt).type = "ice"
      /\ In(qt) = {Head(qt)} \cup In(qt') /\ qtPc.step = "idle"
  BY Zenon, Received
<1>2. c \in Cands /\ Head(qt) = IceEvent(c) /\ c[1] \in Offers /\ c[1] \in Nat /\ c[2] \in Nat
  BY Zenon, <1>1, EventFields, CandFields, Numbers
<1>3. Ahead({Head(qt)}, In(qt'))
  BY Zenon, <1>1, OrderedPop DEF InOrder, Typed, Queues
<1>4. pc <= c[1] /\ c[1] <= offers /\ (c[1] = offers => c[2] <= cands)
  BY Zenon, <1>1 DEF InOrder, Current
<1>5. c[1] = pc
  <2> SUFFICES ASSUME pc < c[1] PROVE FALSE
    BY <1>2, <1>4, PcOffer
  <2>1. OfferEvent(c[1]) \in In(qt)
    BY Zenon, <1>1, <1>2, <1>4 DEF InOrder, Current
  <2>2. OfferEvent(c[1]).type = "offer" /\ OfferEvent(c[1]).offer = c[1]
    BY Zenon, EventFields
  <2>3. OfferEvent(c[1]) \in In(qt')
    BY Zenon, <1>1, <2>1, <2>2
  <2>4. c[1] < OfferEvent(c[1]).offer
    BY Zenon, <1>1, <1>3, <2>2, <2>3 DEF Ahead, Before
  <2>5. QED
    BY <1>2, <2>2, <2>4
<1>6. c \in Waiting
  BY Zenon, <1>1, <1>2, <1>5 DEF Waiting
<1>7. ASSUME NEW d \in Waiting' PROVE c[2] < d[2]
  <2>1. d \in Cands /\ d[1] = pc /\ IceEvent(d) \in In(qt')
    BY Zenon, <1>7 DEF Waiting
  <2>2. IceEvent(d).type = "ice" /\ IceEvent(d).cand = d
    BY Zenon, EventFields
  <2>3. Earlier(c, d)
    BY Zenon, <1>1, <1>3, <2>1, <2>2 DEF Ahead, Before
  <2>4. QED
    BY <1>2, <1>5, <2>1, <2>3 DEF Earlier
<1>8. QED
  BY Zenon, <1>4, <1>5, <1>6, <1>7 DEF Precede

\* A candidate is taken from the queue.
LEMMA OwnHandle ==
  ASSUME Typed, InOrder, OwnCandidates, HandleRemoteIceCandidate PROVE OwnCandidates'
<1> PICK c : c = Head(qt).cand
  BY Zenon
<1>1. /\ UNCHANGED <<pc, added, conn, pending, applied, offers, cands>> /\ Receive("ice")
      /\ qtPc'.cand = c /\ qtPc'.step = IF pc = 0 \/ ~applied THEN "push" ELSE "add"
  BY Zenon DEF HandleRemoteIceCandidate, publisher
<1>2. qtPc.step = "idle" /\ In(qt') \subseteq In(qt)
  BY Zenon, <1>1, Received
<1>3. Held = {} /\ Held' = {c}
  BY Zenon, <1>1, <1>2, HeldIs
<1>4. Waiting' \subseteq Waiting
  BY Zenon, <1>1, <1>2, WaitingIs
<1>5. pc # 0 => /\ c \in Waiting /\ Precede({c}, Waiting') /\ c[1] = pc /\ Sent(c)'
  <2> SUFFICES ASSUME pc # 0
               PROVE  /\ c \in Waiting /\ Precede({c}, Waiting') /\ c[1] = pc /\ Sent(c)'
    BY Zenon
  <2>1. c \in Waiting /\ Precede({c}, Waiting') /\ (pc = offers => c[2] <= cands)
    BY Zenon, <1>1, FirstWaiting
  <2>2. c[1] = pc
    BY Zenon, <2>1 DEF Waiting
  <2>3. Sent(c)'
    BY Zenon, <1>1, <2>1 DEF Sent
  <2>4. QED
    BY Zenon, <2>1, <2>2, <2>3
<1>6. \A d : Sent(d) => Sent(d)'
  BY Zenon, <1>1 DEF Sent
<1>7. ASSUME pc # 0 PROVE Incoming'
  <2>1. Incoming
    BY Zenon, <1>7 DEF OwnCandidates
  <2>2. Precede(In(added[pc]), Held' \cup Waiting')
    BY Zenon, <1>3, <1>4, <1>5, <1>7, <2>1 DEF Incoming, Precede
  <2>3. \A d \in Held' : d[1] = pc' /\ Sent(d)'
    BY Zenon, <1>1, <1>3, <1>5, <1>7
  <2>4. \A d \in In(added'[pc']) : Sent(d)'
    BY Zenon, <1>1, <1>6, <2>1 DEF Incoming
  <2>5. QED
    BY Zenon, <1>1, <1>3, <1>5, <1>7, <2>2, <2>3, <2>4 DEF Incoming
<1>8. ASSUME pc # 0, conn[pc] = "new" PROVE Queued'
  <2>1. Queued
    BY Zenon, <1>8 DEF OwnCandidates
  <2>2. Precede(In(pending), Held' \cup Waiting')
    BY Zenon, <1>3, <1>4, <1>5, <1>8, <2>1 DEF Queued, Precede
  <2>3. (applied => qtPc'.step # "push") /\ (applied \/ qtPc'.step = "add" => pending = <<>>)
    BY Zenon, <1>1, <1>8, <2>1 DEF Queued
  <2>4. QED
    BY Zenon, <1>1, <1>6, <2>1, <2>2, <2>3 DEF Queued
<1>9. Given'
  BY Zenon, <1>1 DEF OwnCandidates, Given
<1>10. QED
  BY Zenon, <1>1, <1>7, <1>8, <1>9 DEF OwnCandidates

\* It is queued ...
LEMMA OwnPush == ASSUME Typed, OwnCandidates, PushPending PROVE OwnCandidates'
<1> DEFINE c == qtPc.cand
<1>1. /\ UNCHANGED <<pc, added, conn, qt, applied, offers, cands>> /\ qtPc' = Idle
      /\ pending' = Append(pending, c) /\ qtPc.step = "push"
  BY Zenon DEF PushPending, publisher
<1>2. c \in Cands /\ pending \in Seq(Cands)
  BY Zenon, <1>1, ThreadFields DEF Typed, Queues
<1>3. Held = {c} /\ Held' = {} /\ Waiting' = Waiting
  BY Zenon, <1>1, HeldIs, IdleTyped DEF Waiting
<1> HIDE DEF c
<1>4. In(Append(pending, c)) = In(pending) \cup {c}
  BY <1>2, Push
<1>5. In(pending') = In(pending) \cup {c}
  BY Zenon, <1>1, <1>4
<1>6. \A d : Sent(d) => Sent(d)'
  BY Zenon, <1>1 DEF Sent
<1>7. pc # 0 => Incoming'
  BY Zenon, <1>1, <1>3, <1>6 DEF OwnCandidates, Incoming, Precede
<1>8. ASSUME pc # 0, conn[pc] = "new" PROVE Queued'
  <2>1. Queued /\ Incoming
    BY Zenon, <1>8 DEF OwnCandidates
  <2>2. Rising(Append(pending, c))
    BY Zenon, <1>2, <1>3, <2>1, RisingPush DEF Queued, Precede
  <2>3. \A d \in In(pending') : d[1] = pc /\ Sent(d)'
    BY Zenon, <1>3, <1>5, <1>6, <2>1 DEF Queued, Incoming
  <2>4. Precede(In(pending'), Held' \cup Waiting')
    BY Zenon, <1>3, <1>5, <2>1 DEF Queued, Incoming, Precede
  <2>5. Precede(In(added[pc]), In(pending'))
    BY Zenon, <1>3, <1>5, <2>1 DEF Queued, Incoming, Precede
  <2>6. ~applied
    BY Zenon, <1>1, <2>1 DEF Queued
  <2>7. QED
    BY Zenon, <1>1, <2>2, <2>3, <2>4, <2>5, <2>6, IdleTyped DEF Queued
<1>9. Given'
  BY Zenon, <1>1 DEF OwnCandidates, Given
<1>10. QED
  BY Zenon, <1>1, <1>7, <1>8, <1>9, IdleTyped DEF OwnCandidates

\* ... or given to the connection.
LEMMA OwnAdd ==
  ASSUME Typed, Fresh, OwnCandidates, AddRemoteIceCandidateNow PROVE OwnCandidates'
<1> DEFINE c == qtPc.cand
           q == Append(added[pc], c)
<1>1. /\ UNCHANGED <<pc, pending, conn, qt, applied, offers, cands>> /\ qtPc' = Idle
      /\ added' = [added EXCEPT ![pc] = Append(@, c)] /\ qtPc.step = "add"
  BY Zenon DEF AddRemoteIceCandidateNow, publisher
<1>2. c \in Cands /\ added \in [Offers -> Seq(Cands)] /\ pc # 0 /\ pc \in Offers
  BY Zenon, <1>1, ThreadFields, PcOffer DEF Typed, Connections, OwnCandidates
<1>3. Held = {c} /\ Held' = {} /\ Waiting' = Waiting
  BY Zenon, <1>1, HeldIs, IdleTyped DEF Waiting
<1>4. added' = [added EXCEPT ![pc] = q]
  BY Zenon, <1>1
<1> HIDE DEF c
<1>5. In(q) = In(added[pc]) \cup {c}
  BY <1>2, Push
<1>6. Incoming
  BY Zenon, <1>2 DEF OwnCandidates
<1>7. Rising(q)
  BY Zenon, <1>2, <1>3, <1>6, RisingPush DEF OwnCandidates, Given, Incoming, Precede
<1>8. \A d \in In(q) : d[1] = pc /\ Sent(d)
  BY Zenon, <1>2, <1>3, <1>5, <1>6 DEF OwnCandidates, Given, Incoming
<1> HIDE DEF q
<1>9. added'[pc] = q /\ \A p \in Offers : p # pc => added'[p] = added[p]
  BY Zenon, <1>2, <1>4
<1>10. Given'
  <2>1. \A p \in Offers : Rising(added'[p]) /\ \A d \in In(added'[p]) : d[1] = p
    BY Zenon, <1>7, <1>8, <1>9 DEF OwnCandidates, Given
  <2>2. conn[pc] # "none"
    BY Zenon, <1>2 DEF Fresh, Open
  <2>3. \A p \in Offers : conn'[p] = "none" => added'[p] = <<>>
    BY Zenon, <1>1, <1>9, <2>2 DEF OwnCandidates, Given
  <2>4. QED
    BY Zenon, <2>1, <2>3 DEF Given
<1>11. \A d : Sent(d) => Sent(d)'
  BY Zenon, <1>1 DEF Sent
<1>12. Incoming'
  BY Zenon, <1>1, <1>3, <1>5, <1>6, <1>8, <1>9, <1>11 DEF Incoming, Precede
<1>13. conn[pc] = "new" => Queued'
  BY Zenon, <1>1, <1>2, IdleTyped, NoneRising DEF OwnCandidates, Queued, Precede
<1>14. QED
  BY Zenon, <1>1, <1>10, <1>12, <1>13, IdleTyped DEF OwnCandidates

\* A connection that is new has an empty queue and no candidates.
LEMMA OwnNew ==
  ASSUME Typed, Fresh, OwnCandidates, UNCHANGED <<added, pending, qt, offers, cands>>,
         qtPc' = Idle,
         \/ conn' = ClosePc /\ pc' = 0
         \/ /\ qtPc.step = "create" /\ conn' = [ClosePc EXCEPT ![qtPc.offer] = "new"]
            /\ pc' = qtPc.offer
  PROVE  OwnCandidates'
<1>1. \A p \in Offers : ClosePc[p] = "none" => conn[p] = "none"
  BY Zenon, ClosedTyped
<1>2. \A p \in Offers : conn'[p] = "none" => conn[p] = "none"
  <2>1. qtPc.step = "create" => qtPc.offer \in Offers
    BY Zenon, ThreadFields
  <2>2. QED
    BY Zenon, <1>1, <2>1, ClosedTyped
<1>3. Given'
  BY Zenon, <1>2 DEF OwnCandidates, Given
<1>4. qtPc'.step = "idle" /\ Held' = {}
  BY Zenon, IdleTyped, HeldIs
<1>5. CASE pc' = 0
  BY Zenon, <1>3, <1>4, <1>5 DEF OwnCandidates
<1>6. CASE qtPc.step = "create" /\ pc' = qtPc.offer
  <2>1. added[qtPc.offer] = <<>> /\ pending = <<>>
    BY Zenon, <1>6, ThreadFields DEF Fresh, OwnCandidates, Given
  <2>2. In(added'[pc']) = {} /\ In(pending') = {} /\ pending' = <<>> /\ Rising(pending')
    BY Zenon, <1>6, <2>1, NoneRising
  <2>3. Incoming'
    BY Zenon, <1>4, <2>2 DEF Incoming, Precede
  <2>4. Queued'
    BY Zenon, <1>4, <2>2 DEF Queued, Precede
  <2>5. QED
    BY Zenon, <1>3, <1>4, <2>3, <2>4 DEF OwnCandidates
<1>7. QED
  BY Zenon, <1>5, <1>6

\* The queue is handed over when the remote description is applied.
LEMMA OwnApplied ==
  ASSUME Typed, Fresh, OwnCandidates, NEW op \in ops, SetRemoteSucceeds(op)
  PROVE  OwnCandidates'
<1>1. /\ UNCHANGED <<pc, qtPc, pending, offers, cands>> /\ conn[op.pc] = "new"
      /\ conn' = [conn EXCEPT ![op.pc] = "remote"]
      /\ added' = [added EXCEPT ![pc] = @ \o pending]
  BY Zenon DEF SetRemoteSucceeds, publisher
<1>2. op.pc = pc /\ pc \in Offers /\ pc # 0
  BY <1>1, OpFields, Numbers DEF Fresh, Open
<1>3. Waiting' \subseteq Waiting /\ Held' = Held
  <2>1. op.by \in Offers
    BY Zenon, OpFields
  <2>2. In(Append(qt, AnswerEvent(op.by))) = In(qt) \cup {AnswerEvent(op.by)}
    BY Zenon, <2>1, EventFields, Posted
  <2>3. In(qt') = In(qt) \/ In(qt') = In(qt) \cup {AnswerEvent(op.by)}
    BY Zenon, <2>2 DEF SetRemoteSucceeds
  <2>4. QED
    BY Zenon, <1>1, <2>3, EventFields, WaitingIs DEF Held
<1> DEFINE q == added[pc] \o pending
<1>4. added \in [Offers -> Seq(Cands)] /\ pending \in Seq(Cands)
  BY Zenon DEF Typed, Connections, Queues
<1>5. Incoming /\ Queued
  BY Zenon, <1>1, <1>2 DEF OwnCandidates
<1>6. In(q) = In(added[pc]) \cup In(pending)
  BY <1>2, <1>4, Join
<1>7. Rising(q)
  BY Zenon, <1>2, <1>4, <1>5, RisingJoin DEF OwnCandidates, Given, Queued
<1>8. \A d \in In(q) : d[1] = pc /\ Sent(d)
  BY Zenon, <1>2, <1>5, <1>6 DEF OwnCandidates, Given, Incoming, Queued
<1>9. added'[pc] = q /\ \A p \in Offers : p # pc => added'[p] = added[p]
  BY Zenon, <1>1, <1>2, <1>4
<1> HIDE DEF q
<1>10. conn'[pc] = "remote" /\ \A p \in Offers : p # pc => conn'[p] = conn[p]
  BY Zenon, <1>1, <1>2 DEF Typed, Connections
<1>11. Given'
  BY Zenon, <1>7, <1>8, <1>9, <1>10 DEF OwnCandidates, Given
<1>12. \A d : Sent(d) => Sent(d)'
  BY Zenon, <1>1 DEF Sent
<1>13. Incoming'
  <2>1. Precede(In(q), Held \cup Waiting)
    BY Zenon, <1>5, <1>6 DEF Incoming, Queued, Precede
  <2>2. Precede(In(added'[pc']), Held' \cup Waiting')
    BY Zenon, <1>1, <1>3, <1>9, <2>1 DEF Precede
  <2>3. Precede(Held', Waiting')
    BY Zenon, <1>3, <1>5 DEF Incoming, Precede
  <2>4. QED
    BY Zenon, <1>1, <1>3, <1>5, <1>8, <1>9, <1>12, <2>2, <2>3 DEF Incoming
<1>14. QED
  BY Zenon, <1>1, <1>10, <1>11, <1>13 DEF OwnCandidates

\* Candidates stay in order.
LEMMA OwnStep ==
  ASSUME Typed, InOrder, Fresh, OwnCandidates, [Next]_vars PROVE OwnCandidates'
<1>1. ASSUME UNCHANGED <<pc, added, offers, cands, conn, qtPc>>,
             Waiting' \subseteq Waiting,
             pending' = pending \/ pending' = <<>>, applied' => applied
      PROVE  OwnCandidates'
  <2>1. Held' = Held
    BY Zenon, <1>1 DEF Held
  <2>2. qtPc'.step \in {"create", "close"} => pending' = <<>>
    BY Zenon, <1>1 DEF OwnCandidates
  <2>3. QED
    BY Zenon, <1>1, <2>1, <2>2, OwnKept, PcOffer
<1>2. qt' = qt /\ pc' = pc => Waiting' \subseteq Waiting
  BY Zenon, WaitingIs
<1>3. CASE Publisher
  BY Zenon, <1>3, OwnOnOffer, OwnOnIce DEF Publisher
<1>4. CASE DisconnectClose \/ CreatePeerConnectionFails
  <2>1. /\ UNCHANGED <<added, pending, qt, offers, cands>> /\ qtPc' = Idle
        /\ conn' = ClosePc /\ pc' = 0
    BY Zenon, <1>4 DEF DisconnectClose, CreatePeerConnectionFails, publisher
  <2>2. QED
    BY Zenon, <2>1, OwnNew
<1>5. CASE ParseOfferFails \/ SetRemoteDescription
  <2>1. /\ UNCHANGED <<added, pending, qt, offers, cands>> /\ qtPc' = Idle
        /\ qtPc.step = "create" /\ conn' = [ClosePc EXCEPT ![qtPc.offer] = "new"]
        /\ pc' = qtPc.offer
    BY Zenon, <1>5 DEF ParseOfferFails, SetRemoteDescription, publisher
  <2>2. QED
    BY Zenon, <2>1, OwnNew
<1>6. CASE HandleOffer
  <2>1. /\ UNCHANGED <<pc, added, offers, cands, conn>> /\ Receive("offer")
        /\ qtPc'.step = "create" /\ pending' = <<>> /\ applied' = FALSE
    BY Zenon, <1>6 DEF HandleOffer, publisher
  <2>2. Waiting' \subseteq Waiting
    BY Zenon, <2>1, Received, WaitingIs
  <2>3. Held' = {}
    BY Zenon, <2>1, HeldIs
  <2>4. QED
    BY Zenon, <2>1, <2>2, <2>3, OwnKept, PcOffer
<1>7. CASE DoCreateAnswer
  <2>1. UNCHANGED <<pc, added, offers, cands, conn, qtPc, pending, applied>> /\ Receive("answer")
    BY Zenon, <1>7 DEF DoCreateAnswer, publisher
  <2>2. Waiting' \subseteq Waiting
    BY Zenon, <2>1, Received, WaitingIs
  <2>3. QED
    BY Zenon, <1>1, <2>1, <2>2
<1>8. CASE QtStep
  BY Zenon, <1>4, <1>5, <1>6, <1>7, <1>8, OwnHandle, OwnPush, OwnAdd DEF QtStep
<1>9. CASE FlushClear
  <2>1. UNCHANGED <<pc, added, offers, cands, conn, qtPc, applied>> /\ pending' = <<>>
    BY Zenon, <1>9 DEF FlushClear, publisher
  <2>2. AnswerEvent(rtc.by) \in Events /\ AnswerEvent(rtc.by).type = "answer"
    BY Zenon, <1>9, ThreadFields, EventFields DEF FlushClear
  <2>3. In(qt') = In(qt) \cup {AnswerEvent(rtc.by)}
    BY Zenon, <1>9, <2>2, Posted DEF FlushClear
  <2>4. Waiting' \subseteq Waiting
    BY Zenon, <2>1, <2>2, <2>3, WaitingIs
  <2>5. QED
    BY Zenon, <1>1, <2>1, <2>4
<1>10. CASE SendAnswer
  BY Zenon, <1>1, <1>2, <1>10 DEF SendAnswer, publisher
<1>11. ASSUME NEW op \in ops, SetRemoteFails(op) PROVE OwnCandidates'
  BY Zenon, <1>1, <1>2, <1>11 DEF SetRemoteFails, publisher
<1>12. ASSUME NEW op \in ops,
              AnswerFails(op) \/ CreateAnswerSucceeds(op) \/ SetLocalSucceeds(op)
       PROVE  OwnCandidates'
  <2>1. UNCHANGED <<pc, added, offers, cands, conn, qtPc, applied, qt, pending>>
    BY Zenon, <1>12 DEF AnswerFails, CreateAnswerSucceeds, SetLocalSucceeds, publisher
  <2>2. QED
    BY Zenon, <1>1, <1>2, <2>1
<1>13. ASSUME NEW op \in ops, Complete(op) PROVE OwnCandidates'
  <2>1. UNCHANGED <<pc, added, offers, cands, qtPc, applied, qt, pending>>
    BY Zenon, <1>13 DEF Complete, publisher
  <2>2. conn' = conn \/ (conn' = [conn EXCEPT ![op.pc] = "stable"] /\ conn[op.pc] = "remote")
    BY Zenon, <1>13 DEF Complete
  <2>3. conn \in [Offers -> Open \cup {"none", "closed"}]
    BY Zenon DEF Typed, Connections
  <2>4. \A p \in Offers : /\ conn'[p] = "none" => conn[p] = "none"
                          /\ conn'[p] = "new" => conn[p] = "new"
    BY Zenon, <2>2, <2>3
  <2>5. Held' = Held /\ (qtPc'.step \in {"create", "close"} => pending' = <<>>)
    BY Zenon, <2>1 DEF Held, OwnCandidates
  <2>6. QED
    BY Zenon, <1>2, <2>1, <2>4, <2>5, OwnKept, PcOffer
<1>14. CASE RtcStep
  BY Zenon, <1>9, <1>10, <1>11, <1>12, <1>13, <1>14, OwnApplied DEF RtcStep
<1>15. CASE UNCHANGED vars
  BY Zenon, <1>1, <1>2, <1>15 DEF vars, publisher
<1>16. QED
  BY Zenon, <1>3, <1>8, <1>14, <1>15, OwnUser DEF Next

-----------------------------------------------------------------------------
(* One chain of callbacks at a time.                                       *)

\* The events that start something, when another one is posted ...
LEMMA StartPush ==
  ASSUME NEW q \in Seq(Events), NEW e \in Events
  PROVE  /\ NoStart(q) => OneStart(Append(q, e))
         /\ OneStart(q) /\ e.type = "ice" => OneStart(Append(q, e))
         /\ NoStart(q) /\ e.type = "ice" => NoStart(Append(q, e))
<1> DEFINE r == Append(q, e)
<1>1. /\ Len(q) \in Nat /\ Len(r) = Len(q) + 1 /\ r[Len(q) + 1] = e
      /\ \A i \in 1..Len(q) : r[i] = q[i]
      /\ In(r) = In(q) \cup {e}
  BY Push
<1> HIDE DEF r
<1>2. \A i \in 1..Len(r) : i \in 1..Len(q) \/ i = Len(q) + 1
  BY <1>1
<1>3. ASSUME NoStart(q) PROVE OneStart(r)
  <2>1. \A i \in 1..Len(q) : r[i].type = "ice"
    BY Zenon, <1>1, <1>3 DEF NoStart, In
  <2>2. QED
    BY Zenon, <1>2, <2>1 DEF OneStart
<1>4. ASSUME OneStart(q), e.type = "ice" PROVE OneStart(r)
  BY Zenon, <1>1, <1>2, <1>4 DEF OneStart
<1>5. NoStart(q) /\ e.type = "ice" => NoStart(r)
  BY Zenon, <1>1 DEF NoStart
<1>6. QED
  BY Zenon, <1>3, <1>4, <1>5 DEF r

\* ... and when the first one is taken.
LEMMA StartPop ==
  ASSUME NEW q \in Seq(Events), q # <<>>
  PROVE  /\ OneStart(q) => OneStart(Tail(q))
         /\ OneStart(q) /\ Head(q).type # "ice" => NoStart(Tail(q))
         /\ NoStart(q) => NoStart(Tail(q)) /\ Head(q).type = "ice"
<1> DEFINE r == Tail(q)
<1>1. /\ Len(q) \in Nat /\ Len(q) > 0 /\ Len(r) = Len(q) - 1 /\ Head(q) = q[1]
      /\ \A i \in 1..Len(r) : r[i] = q[i + 1] /\ i + 1 \in 1..Len(q)
      /\ In(q) = {Head(q)} \cup In(r)
  BY Zenon, Pop
<1> HIDE DEF r
<1>2. ASSUME OneStart(q) PROVE OneStart(r)
  <2> SUFFICES ASSUME NEW i \in 1..Len(r), NEW j \in 1..Len(r),
                      r[i].type # "ice", r[j].type # "ice"
               PROVE  i = j
    BY Zenon DEF OneStart
  <2>1. /\ i + 1 \in 1..Len(q) /\ q[i + 1].type # "ice"
        /\ j + 1 \in 1..Len(q) /\ q[j + 1].type # "ice"
    BY Zenon, <1>1
  <2>2. i + 1 = j + 1
    BY Zenon, <1>2, <2>1 DEF OneStart
  <2>3. QED
    BY <1>1, <2>2
<1>3. ASSUME OneStart(q), Head(q).type # "ice" PROVE NoStart(r)
  <2>1. ASSUME NEW i \in 1..Len(r), r[i].type # "ice" PROVE FALSE
    <3>1. 1 \in 1..Len(q) /\ 1 # i + 1
      BY <1>1
    <3>2. QED
      BY <1>1, <1>3, <2>1, <3>1 DEF OneStart
  <2>2. QED
    BY Zenon, <2>1 DEF NoStart, In
<1>4. NoStart(q) => NoStart(r) /\ Head(q).type = "ice"
  BY Zenon, <1>1 DEF NoStart
<1>5. QED
  BY Zenon, <1>2, <1>3, <1>4 DEF r

\* At the start there is none.
LEMMA OneChainInit == Init => OneChain
<1> SUFFICES ASSUME Init PROVE OneChain
  BY Zenon
<1>1. /\ ops = {} /\ rtc.step = "idle" /\ qtPc.step = "idle" /\ qt = <<>> /\ pc = 0
  BY Zenon, IdleTyped DEF Init
<1>2. OneStart(<<>>)
  BY DEF OneStart
<1>3. QED
  BY Zenon, <1>1, <1>2 DEF OneChain, Chain, Observed, ReadyForIce

\* The user.
LEMMA OneChainUser == ASSUME Typed, OneChain, User PROVE OneChain'
<1> SUFFICES ASSUME ~overlapped' PROVE (Chain /\ Observed /\ ReadyForIce)'
  BY Zenon DEF OneChain
<1>1. UNCHANGED <<overlapped, pc, conn, qt, ops, rtc>> /\ qtPc.step = "idle"
  BY Zenon, IdleTyped DEF User, ConnectToSignaling, DisconnectBegin, QtFree, publisher
<1>2. Chain /\ Observed /\ ReadyForIce
  BY Zenon, <1>1 DEF OneChain
<1>3. CASE UNCHANGED <<qtPc, observer, applied>>
  BY Zenon, <1>1, <1>2, <1>3 DEF Chain, Observed, ReadyForIce
<1>4. CASE qtPc'.step = "close" /\ applied' = FALSE
  BY Zenon, <1>1, <1>2, <1>4 DEF Chain, Observed, ReadyForIce
<1>5. ConnectToSignaling => UNCHANGED <<qtPc, observer, applied>>
  BY Zenon DEF ConnectToSignaling
<1>6. DisconnectBegin => qtPc'.step = "close" /\ applied' = FALSE
  BY DEF DisconnectBegin
<1>7. QED
  BY Zenon, <1>3, <1>4, <1>5, <1>6 DEF User

\* The publisher: unless its offer overlaps the handling of another one.
LEMMA OneChainPublisher == ASSUME Typed, OneChain, Publisher PROVE OneChain'
<1> SUFFICES ASSUME ~overlapped' PROVE (Chain /\ Observed /\ ReadyForIce)'
  BY Zenon DEF OneChain
<1>1. UNCHANGED <<pc, conn, qtPc, observer, applied, ops, rtc>>
  BY Zenon DEF Publisher, OnOffer, OnIce
<1>2. CASE OnOffer
  <2>1. ~overlapped /\ Quiet
    BY Zenon, <1>2 DEF OnOffer
  <2>2. ops = {} /\ rtc.step = "idle" /\ qt = <<>> /\ qtPc.step = "idle"
    BY Zenon, <2>1, IdleTyped DEF Quiet, QtFree, RtcFree
  <2>3. Chain /\ Observed /\ ReadyForIce
    BY Zenon, <2>1 DEF OneChain
  <2>4. offers + 1 \in Offers
    BY Zenon, <1>2, OfferSent
  <2>5. NoStart(qt) /\ qt \in Seq(Events) /\ OfferEvent(offers + 1) \in Events
    BY Zenon, <2>2, <2>4, InEmpty, EventFields DEF NoStart, Typed, Queues
  <2>6. OneStart(Append(qt, OfferEvent(offers + 1)))
    BY Zenon, <2>5, StartPush
  <2>7. OneStart(qt')
    BY Zenon, <1>2, <2>6 DEF OnOffer
  <2>8. QED
    BY Zenon, <1>1, <2>2, <2>3, <2>7 DEF Chain, Observed, ReadyForIce
<1>3. CASE OnIce
  <2>1. Chain /\ Observed /\ ReadyForIce
    BY Zenon, <1>3 DEF OneChain, OnIce
  <2>2. <<offers, cands + 1>> \in Cands
    BY Zenon, <1>3, IceSent
  <2> DEFINE e == IceEvent(<<offers, cands + 1>>)
  <2>3. e \in Events /\ e.type = "ice" /\ qt' = Append(qt, e) /\ qt \in Seq(Events)
    BY Zenon, <1>3, <2>2, EventFields DEF OnIce, Typed, Queues
  <2> HIDE DEF e
  <2>4. /\ OneStart(qt) => OneStart(Append(qt, e))
        /\ NoStart(qt) => NoStart(Append(qt, e))
    BY Zenon, <2>3, StartPush
  <2>5. (OneStart(qt) => OneStart(qt')) /\ (NoStart(qt) => NoStart(qt'))
    BY Zenon, <2>3, <2>4
  <2>6. QED
    BY Zenon, <1>1, <2>1, <2>5 DEF Chain, Observed, ReadyForIce
<1>4. QED
  BY Zenon, <1>2, <1>3 DEF Publisher

\* An event is received.
LEMMA ChainReceive ==
  ASSUME Typed, NEW t, Receive(t), Chain
  PROVE  /\ OneStart(qt') /\ (NoStart(qt) => NoStart(qt'))
         /\ t # "ice" => NoStart(qt') /\ ops = {} /\ rtc.step = "idle"
<1>1. /\ qt' = Tail(qt) /\ qt # <<>> /\ qt \in Seq(Events) /\ Head(qt).type = t
  BY Zenon, Received DEF Typed, Queues
<1>2. /\ OneStart(qt) => OneStart(Tail(qt))
      /\ OneStart(qt) /\ Head(qt).type # "ice" => NoStart(Tail(qt))
      /\ NoStart(qt) => NoStart(Tail(qt)) /\ Head(qt).type = "ice"
  BY Zenon, <1>1, StartPop
<1>3. QED
  BY Zenon, <1>1, <1>2 DEF Chain

\* The Qt thread.
LEMMA OneChainQt ==
  ASSUME Typed, OneChain, QtStep PROVE OneChain'
<1> SUFFICES ASSUME ~overlapped' PROVE (Chain /\ Observed /\ ReadyForIce)'
  BY Zenon DEF OneChain
<1>1. UNCHANGED <<overlapped, rtc>>
  BY Zenon DEF QtStep, DisconnectClose, HandleOffer, CreatePeerConnectionFails,
       ParseOfferFails, SetRemoteDescription, HandleRemoteIceCandidate, PushPending,
       AddRemoteIceCandidateNow, DoCreateAnswer, publisher
<1>2. Chain /\ Observed /\ ReadyForIce
  BY Zenon, <1>1 DEF OneChain
<1>3. \A op \in ops : op.pc \in Offers /\ op.pc # 0
  BY Zenon, OpFields, Numbers
<1>4. CASE DisconnectClose \/ CreatePeerConnectionFails
  <2>1. UNCHANGED <<ops, qt, applied>> /\ pc' = 0 /\ qtPc' = Idle
    BY Zenon, <1>4 DEF DisconnectClose, CreatePeerConnectionFails
  <2>2. qtPc'.step = "idle"
    BY Zenon, <2>1, IdleTyped
  <2>3. QED
    BY Zenon, <1>1, <1>2, <1>3, <2>1, <2>2 DEF Chain, Observed, ReadyForIce
<1>5. CASE ParseOfferFails
  <2>1. UNCHANGED <<ops, qt, applied>> /\ qtPc' = Idle /\ qtPc.step = "create"
    BY Zenon, <1>5 DEF ParseOfferFails
  <2>2. qtPc'.step = "idle" /\ ops = {} /\ ~applied /\ rtc.step = "idle"
    BY Zenon, <1>2, <2>1, IdleTyped DEF Chain
  <2>3. QED
    BY Zenon, <1>1, <1>2, <2>1, <2>2 DEF Chain, Observed, ReadyForIce
<1>6. CASE SetRemoteDescription
  <2> DEFINE n == Op("setRemote", qtPc.offer, qtPc.offer, qtPc.offer)
  <2>1. /\ UNCHANGED <<qt, applied>> /\ qtPc' = Idle /\ qtPc.step = "create"
        /\ ops' = ops \cup {n} /\ pc' = qtPc.offer
        /\ observer' = [observer EXCEPT !["setRemote"] = qtPc.offer]
    BY Zenon, <1>6 DEF SetRemoteDescription
  <2>2. /\ qtPc'.step = "idle" /\ ops = {} /\ ~applied /\ rtc.step = "idle"
        /\ NoStart(qt) /\ OneStart(qt)
    BY Zenon, <1>2, <2>1, IdleTyped DEF Chain
  <2>3. ops' = {n} /\ n.kind = "setRemote"
    BY Zenon, <2>1, <2>2 DEF Op
  <2>4. observer'["setRemote"] = pc'
    BY Zenon, <2>1 DEF Typed, Connections, OpKinds
  <2> HIDE DEF n
  <2>5. Chain'
    BY Zenon, <1>1, <2>1, <2>2, <2>3 DEF Chain
  <2>6. Observed'
    BY Zenon, <2>3, <2>4 DEF Observed
  <2>7. ReadyForIce'
    BY Zenon, <2>1, <2>2 DEF ReadyForIce
  <2>8. QED
    BY Zenon, <2>5, <2>6, <2>7
<1>7. CASE HandleOffer
  <2>1. Receive("offer") /\ UNCHANGED ops /\ qtPc'.step = "create" /\ applied' = FALSE
    BY Zenon, <1>7 DEF HandleOffer
  <2>2. OneStart(qt') /\ NoStart(qt') /\ ops = {} /\ rtc.step = "idle"
    BY <1>2, <2>1, ChainReceive
  <2>3. QED
    BY Zenon, <1>1, <2>1, <2>2 DEF Chain, Observed, ReadyForIce
<1>8. CASE HandleRemoteIceCandidate
  <2>1. /\ Receive("ice") /\ UNCHANGED <<ops, applied, pc, conn, observer>>
        /\ qtPc'.step = IF pc = 0 \/ ~applied THEN "push" ELSE "add"
    BY Zenon, <1>8 DEF HandleRemoteIceCandidate
  <2>2. OneStart(qt') /\ (NoStart(qt) => NoStart(qt')) /\ qtPc.step = "idle"
    BY Zenon, <1>2, <2>1, ChainReceive, Received
  <2>3. QED
    BY Zenon, <1>1, <1>2, <2>1, <2>2 DEF Chain, Observed, ReadyForIce
<1>9. CASE PushPending \/ AddRemoteIceCandidateNow
  <2>1. /\ UNCHANGED <<ops, applied, pc, conn, observer, qt>> /\ qtPc' = Idle
        /\ qtPc.step \in {"push", "add"}
    BY Zenon, <1>9 DEF PushPending, AddRemoteIceCandidateNow
  <2>2. QED
    BY Zenon, <1>1, <1>2, <2>1, IdleTyped DEF Chain, Observed, ReadyForIce
<1>10. CASE DoCreateAnswer
  <2>1. Receive("answer") /\ UNCHANGED <<applied, pc, conn, qtPc>>
    BY Zenon, <1>10 DEF DoCreateAnswer
  <2>2. /\ OneStart(qt') /\ NoStart(qt') /\ ops = {} /\ rtc.step = "idle"
        /\ qtPc.step = "idle"
    BY <1>2, <2>1, ChainReceive, Received
  <2>3. ReadyForIce'
    BY Zenon, <1>2, <2>1 DEF ReadyForIce
  <2>4. CASE pc = 0
    <3>1. UNCHANGED <<observer, ops>>
      BY Zenon, <1>10, <2>4 DEF DoCreateAnswer
    <3>2. QED
      BY Zenon, <1>1, <2>1, <2>2, <2>3, <3>1 DEF Chain, Observed
  <2>5. CASE pc # 0
    <3> DEFINE n == Op("createAnswer", pc, pc, Head(qt).by)
    <3>1. ops' = ops \cup {n} /\ observer' = [observer EXCEPT !["createAnswer"] = pc]
      BY Zenon, <1>10, <2>5 DEF DoCreateAnswer
    <3>2. ops' = {n} /\ n.kind = "createAnswer"
      BY Zenon, <2>2, <3>1 DEF Op
    <3>3. observer'["createAnswer"] = pc
      BY Zenon, <3>1 DEF Typed, Connections, OpKinds
    <3> HIDE DEF n
    <3>4. QED
      BY Zenon, <1>1, <2>1, <2>2, <2>3, <3>2, <3>3 DEF Chain, Observed
  <2>6. QED
    BY Zenon, <2>4, <2>5
<1>11. QED
  BY <1>4, <1>5, <1>6, <1>7, <1>8, <1>9, <1>10 DEF QtStep

\* An event is posted that starts the next link of the chain.
LEMMA ChainPost ==
  ASSUME Typed, NEW e \in Events, qt' = Append(qt, e), NoStart(qt)
  PROVE  OneStart(qt')
<1>1. OneStart(Append(qt, e))
  BY Zenon, StartPush DEF Typed, Queues
<1>2. QED
  BY Zenon, <1>1

\* The rest of a callback.
LEMMA OneChainRest == ASSUME Typed, OneChain, FlushClear \/ SendAnswer PROVE OneChain'
<1> SUFFICES ASSUME ~overlapped' PROVE (Chain /\ Observed /\ ReadyForIce)'
  BY Zenon DEF OneChain
<1>1. /\ UNCHANGED <<overlapped, pc, conn, qtPc, observer, applied, ops>> /\ rtc' = Idle
      /\ rtc.step # "idle"
  BY Zenon DEF FlushClear, SendAnswer, publisher
<1>2. Chain /\ Observed /\ ReadyForIce
  BY Zenon, <1>1 DEF OneChain
<1>3. rtc'.step = "idle" /\ ops = {} /\ qtPc.step # "create" /\ NoStart(qt)
  BY Zenon, <1>1, <1>2, IdleTyped DEF Chain
<1>4. OneStart(qt')
  <2>1. CASE FlushClear
    <3>1. AnswerEvent(rtc.by) \in Events /\ qt' = Append(qt, AnswerEvent(rtc.by))
      BY Zenon, <2>1, ThreadFields, EventFields DEF FlushClear
    <3>2. QED
      BY Zenon, <1>3, <3>1, ChainPost
  <2>2. CASE SendAnswer
    BY Zenon, <1>2, <2>2 DEF SendAnswer, Chain
  <2>3. QED
    BY Zenon, <2>1, <2>2
<1>5. QED
  BY Zenon, <1>1, <1>2, <1>3, <1>4 DEF Chain, Observed, ReadyForIce

\* A callback of the only operation.
LEMMA OneChainCallback ==
  ASSUME Typed, Fresh, OneChain, NEW op \in ops,
         \/ SetRemoteFails(op) \/ SetRemoteSucceeds(op) \/ AnswerFails(op)
         \/ CreateAnswerSucceeds(op) \/ SetLocalSucceeds(op)
  PROVE  OneChain'
<1> SUFFICES ASSUME ~overlapped' PROVE (Chain /\ Observed /\ ReadyForIce)'
  BY Zenon DEF OneChain
<1>1. UNCHANGED <<overlapped, pc, qtPc>>
  BY Zenon DEF SetRemoteFails, SetRemoteSucceeds, AnswerFails, CreateAnswerSucceeds,
         SetLocalSucceeds, publisher
<1>2. Chain /\ Observed /\ ReadyForIce
  BY Zenon, <1>1 DEF OneChain
<1>3. /\ ops \ {op} = {} /\ rtc.step = "idle" /\ qtPc.step # "create" /\ NoStart(qt)
      /\ OneStart(qt)
  BY Zenon, <1>2 DEF Chain
<1>4. CASE SetRemoteFails(op) \/ AnswerFails(op)
  <2>1. UNCHANGED <<qt, conn, rtc>> /\ ops' = {} /\ (applied' => applied)
    BY <1>3, <1>4 DEF SetRemoteFails, AnswerFails
  <2>2. QED
    BY Zenon, <1>1, <1>2, <1>3, <2>1 DEF Chain, Observed, ReadyForIce
<1>5. CASE SetRemoteSucceeds(op)
  <2>1. /\ ops' = {} /\ conn[op.pc] = "new" /\ conn' = [conn EXCEPT ![op.pc] = "remote"]
    BY Zenon, <1>3, <1>5 DEF SetRemoteSucceeds
  <2>2. op.pc = pc /\ pc \in Offers
    <3>1. op.pc \in Offers /\ conn[op.pc] \in Open
      BY Zenon, <2>1, OpFields DEF Open
    <3>2. QED
      BY Zenon, <3>1 DEF Fresh
  <2>3. conn'[pc] \in Ready
    BY Zenon, <2>1, <2>2 DEF Typed, Connections, Ready
  <2>4. ReadyForIce'
    BY Zenon, <1>1, <2>3 DEF ReadyForIce
  <2>5. (qt' = qt \/ rtc' = rtc) /\ OneStart(qt')
    <3>1. AnswerEvent(op.by) \in Events
      BY Zenon, OpFields, EventFields
    <3>2. qt' = qt \/ (rtc' = rtc /\ qt' = Append(qt, AnswerEvent(op.by)))
      BY Zenon, <1>5 DEF SetRemoteSucceeds
    <3>3. QED
      BY Zenon, <1>3, <3>1, <3>2, ChainPost
  <2>6. Chain'
    BY Zenon, <1>1, <1>3, <2>1, <2>5 DEF Chain
  <2>7. Observed'
    BY Zenon, <2>1 DEF Observed
  <2>8. QED
    BY Zenon, <2>4, <2>6, <2>7
<1>6. CASE CreateAnswerSucceeds(op)
  <2>1. UNCHANGED <<qt, conn, rtc, applied>>
    BY Zenon, <1>6 DEF CreateAnswerSucceeds
  <2>2. ReadyForIce'
    BY Zenon, <1>1, <1>2, <2>1 DEF ReadyForIce
  <2>3. CASE pc = 0
    <3>1. ops' = {}
      BY Zenon, <1>3, <1>6, <2>3 DEF CreateAnswerSucceeds
    <3>2. QED
      BY Zenon, <1>1, <1>3, <2>1, <2>2, <3>1 DEF Chain, Observed
  <2>4. CASE pc # 0
    <3> DEFINE n == Op("setLocal", pc, op.offer, op.by)
    <3>1. /\ ops' = (ops \ {op}) \cup {n}
          /\ observer' = [observer EXCEPT !["createAnswer"] = 0, !["setLocal"] = pc]
      BY Zenon, <1>6, <2>4 DEF CreateAnswerSucceeds
    <3>2. ops' = {n} /\ n.kind = "setLocal"
      BY Zenon, <1>3, <3>1 DEF Op
    <3>3. observer'["setLocal"] = pc
      BY Zenon, <3>1 DEF Typed, Connections, OpKinds
    <3> HIDE DEF n
    <3>4. QED
      BY Zenon, <1>1, <1>3, <2>1, <2>2, <3>2, <3>3 DEF Chain, Observed
  <2>5. QED
    BY Zenon, <2>3, <2>4
<1>7. CASE SetLocalSucceeds(op)
  <2>1. UNCHANGED <<qt, conn, applied>> /\ ops' = {}
    BY Zenon, <1>3, <1>7 DEF SetLocalSucceeds
  <2>2. QED
    BY Zenon, <1>1, <1>2, <1>3, <2>1 DEF Chain, Observed, ReadyForIce
<1>8. QED
  BY Zenon, <1>4, <1>5, <1>6, <1>7

\* An operation completes.
LEMMA OneChainComplete ==
  ASSUME Typed, OwnCandidates, OneChain, NEW op \in ops, Complete(op) PROVE OneChain'
<1> SUFFICES ASSUME ~overlapped' PROVE (Chain /\ Observed /\ ReadyForIce)'
  BY Zenon DEF OneChain
<1>1. UNCHANGED <<overlapped, pc, qtPc, qt, rtc, applied, observer>>
  BY Zenon DEF Complete, publisher
<1>2. Chain /\ Observed /\ ReadyForIce
  BY Zenon, <1>1 DEF OneChain
<1>3. ops \ {op} = {}
  BY Zenon, <1>2 DEF Chain
<1>4. PICK res \in {"ok", "error"} :
        /\ res = "ok" => conn[op.pc] = "remote"
        /\ ops' = (ops \ {op}) \cup {Result(op, res)}
        /\ conn' = IF op.kind = "setLocal" /\ res = "ok"
                     THEN [conn EXCEPT ![op.pc] = "stable"] ELSE conn
  BY Zenon DEF Complete, Result
<1>5. ops' = {Result(op, res)}
  BY Zenon, <1>3, <1>4
<1>6. Result(op, res).kind = op.kind /\ Result(op, res).pc = op.pc /\ op.pc \in Offers
  BY OpFields
<1>7. \A p : p \in Offers /\ conn[p] \in Ready => conn'[p] \in Ready
  BY Zenon, <1>4, <1>6 DEF Typed, Connections, Ready
<1>8. ReadyForIce'
  <2>1. qtPc.step = "add" => pc # 0
    BY Zenon DEF OwnCandidates
  <2>2. QED
    BY Zenon, <1>1, <1>2, <1>7, <2>1, PcOffer DEF ReadyForIce
<1>9. Chain'
  BY Zenon, <1>1, <1>2, <1>5 DEF Chain
<1>10. Observed'
  BY Zenon, <1>1, <1>2, <1>5, <1>6 DEF Observed
<1>11. QED
  BY Zenon, <1>8, <1>9, <1>10

\* The chain stays one.
LEMMA OneChainStep ==
  ASSUME Typed, Fresh, OwnCandidates, OneChain, [Next]_vars PROVE OneChain'
<1>1. CASE RtcStep
  BY Zenon, <1>1, OneChainRest, OneChainCallback, OneChainComplete DEF RtcStep
<1>2. CASE UNCHANGED vars
  BY Zenon, <1>2 DEF vars, publisher, OneChain, Chain, Observed, ReadyForIce
<1>3. QED
  BY Zenon, <1>1, <1>2, OneChainUser, OneChainPublisher, OneChainQt DEF Next

-----------------------------------------------------------------------------
(* Nothing is lost.                                                        *)

\* At the start there is nothing.
LEMMA CountedInit == Init => OwnOps /\ StillComing /\ Counted
<1> SUFFICES ASSUME Init PROVE OwnOps /\ StillComing /\ Counted
  BY Zenon
<1>1. pc = 0 /\ cands = 0
  BY Zenon DEF Init
<1>2. 1..0 = {}
  OBVIOUS
<1>3. QED
  BY Zenon, <1>1, <1>2 DEF OwnOps, StillComing, Counted

\* Unless offers overlap, only operations of the current connection run.
LEMMA OwnOpsStep == ASSUME Typed, Fresh, OneChain, OwnOps, [Next]_vars PROVE OwnOps'
<1> SUFFICES ASSUME ~overlapped', pc' # 0
             PROVE  \A op \in ops' : op.pc = pc' /\ (op.kind = "setRemote" => conn'[pc'] = "new")
  BY Zenon DEF OwnOps
<1>1. ASSUME UNCHANGED <<overlapped, pc, conn>>,
             \A op \in ops' : op \in ops \/ (op.pc = pc /\ op.kind # "setRemote")
      PROVE  \A op \in ops' : op.pc = pc' /\ (op.kind = "setRemote" => conn'[pc'] = "new")
  BY Zenon, <1>1 DEF OwnOps
<1>2. CASE User \/ OnIce \/ UNCHANGED vars
  <2>1. UNCHANGED <<overlapped, pc, conn, ops>>
    BY Zenon, <1>2 DEF User, ConnectToSignaling, DisconnectBegin, OnIce, vars, publisher
  <2>2. QED
    BY Zenon, <1>1, <2>1
<1>3. CASE OnOffer
  <2>1. ops' = {}
    BY Zenon, <1>3 DEF OnOffer, Quiet
  <2>2. QED
    BY Zenon, <2>1
<1>4. CASE DisconnectClose \/ CreatePeerConnectionFails
  BY Zenon, <1>4 DEF DisconnectClose, CreatePeerConnectionFails
<1>5. CASE ParseOfferFails \/ SetRemoteDescription
  <2>1. overlapped' = overlapped /\ qtPc.step = "create" /\ pc' = qtPc.offer
        /\ conn' = [ClosePc EXCEPT ![qtPc.offer] = "new"]
    BY Zenon, <1>5 DEF ParseOfferFails, SetRemoteDescription, publisher
  <2>2. ops = {}
    BY Zenon, <2>1 DEF OneChain, Chain
  <2>3. \A op \in ops' : op.pc = qtPc.offer
    BY <1>5, <2>2 DEF ParseOfferFails, SetRemoteDescription, Op
  <2>4. conn'[qtPc.offer] = "new"
    BY Zenon, <2>1, ClosedTyped, ThreadFields
  <2>5. QED
    BY Zenon, <2>1, <2>3, <2>4
<1>6. CASE HandleOffer \/ HandleRemoteIceCandidate \/ PushPending \/ AddRemoteIceCandidateNow
  <2>1. UNCHANGED <<overlapped, pc, conn, ops>>
    BY Zenon, <1>6 DEF HandleOffer, HandleRemoteIceCandidate, PushPending, AddRemoteIceCandidateNow,
                publisher
  <2>2. QED
    BY Zenon, <1>1, <2>1
<1>7. CASE DoCreateAnswer
  <2>1. UNCHANGED <<overlapped, pc, conn>>
    BY Zenon, <1>7 DEF DoCreateAnswer, publisher
  <2>2. \A op \in ops' : op \in ops \/ (op.pc = pc /\ op.kind # "setRemote")
    BY <1>7 DEF DoCreateAnswer, Op
  <2>3. QED
    BY Zenon, <1>1, <2>1, <2>2
<1>8. CASE FlushClear \/ SendAnswer
  <2>1. UNCHANGED <<overlapped, pc, conn, ops>>
    BY Zenon, <1>8 DEF FlushClear, SendAnswer, publisher
  <2>2. QED
    BY Zenon, <1>1, <2>1
<1>9. ASSUME NEW op \in ops, SetRemoteFails(op) \/ AnswerFails(op) \/ SetLocalSucceeds(op)
      PROVE  \A o \in ops' : o.pc = pc' /\ (o.kind = "setRemote" => conn'[pc'] = "new")
  <2>1. UNCHANGED <<overlapped, pc, conn>> /\ ops' \subseteq ops
    BY Zenon, <1>9 DEF SetRemoteFails, AnswerFails, SetLocalSucceeds, publisher
  <2>2. QED
    BY Zenon, <1>1, <2>1
<1>10. ASSUME NEW op \in ops, CreateAnswerSucceeds(op)
       PROVE  \A o \in ops' : o.pc = pc' /\ (o.kind = "setRemote" => conn'[pc'] = "new")
  <2>1. UNCHANGED <<overlapped, pc, conn>>
    BY Zenon, <1>10 DEF CreateAnswerSucceeds, publisher
  <2>2. \A o \in ops' : o \in ops \/ (o.pc = pc /\ o.kind # "setRemote")
    BY <1>10 DEF CreateAnswerSucceeds, Op
  <2>3. QED
    BY Zenon, <1>1, <2>1, <2>2
<1>11. ASSUME NEW op \in ops, SetRemoteSucceeds(op)
       PROVE  \A o \in ops' : o.pc = pc' /\ (o.kind = "setRemote" => conn'[pc'] = "new")
  <2>1. overlapped' = overlapped /\ ops' = ops \ {op}
    BY Zenon, <1>11 DEF SetRemoteSucceeds, publisher
  <2>2. ops' = {}
    BY Zenon, <2>1 DEF OneChain, Chain
  <2>3. QED
    BY Zenon, <2>2
<1>12. ASSUME NEW op \in ops, Complete(op)
       PROVE  \A o \in ops' : o.pc = pc' /\ (o.kind = "setRemote" => conn'[pc'] = "new")
  <2>1. UNCHANGED <<overlapped, pc>> /\ op.kind # "setRemote"
    BY Zenon, <1>12 DEF Complete, publisher
  <2>2. PICK res \in {"ok", "error"} : ops' = (ops \ {op}) \cup {Result(op, res)}
    BY <1>12, Zenon DEF Complete, Result
  <2>3. ops \ {op} = {}
    BY Zenon, <2>1 DEF OneChain, Chain
  <2>4. Result(op, res).kind = op.kind /\ Result(op, res).pc = op.pc
    BY OpFields
  <2>5. op.pc = pc
    BY Zenon, <2>1 DEF OwnOps
  <2>6. QED
    BY Zenon, <2>1, <2>2, <2>3, <2>4, <2>5
<1>13. CASE QtStep
  BY Zenon, <1>4, <1>5, <1>6, <1>7, <1>13 DEF QtStep
<1>14. CASE RtcStep
  BY Zenon, <1>8, <1>9, <1>10, <1>11, <1>12, <1>14 DEF RtcStep
<1>15. QED
  BY Zenon, <1>2, <1>3, <1>13, <1>14 DEF Next, Publisher

\* The candidates of an offer that has not been handled are all in the queue.
LEMMA StillComingStep ==
  ASSUME Typed, InOrder, StillComing, [Next]_vars PROVE StillComing'
<1>1. ASSUME UNCHANGED <<offers, cands>>,
             OfferEvent(offers) \in In(qt') => OfferEvent(offers) \in In(qt),
             qtPc' = qtPc \/ qtPc'.step # "create",
             \A c : IceEvent(c) \in In(qt) => IceEvent(c) \in In(qt')
      PROVE  StillComing'
  BY Zenon, <1>1 DEF StillComing
<1>2. ASSUME UNCHANGED <<offers, cands, qt>>, qtPc' = qtPc \/ qtPc'.step # "create"
      PROVE  StillComing'
  BY Zenon, <1>1, <1>2
<1>3. ASSUME NEW o \in Offers, UNCHANGED <<offers, cands, qtPc>>,
             qt' = Append(qt, AnswerEvent(o))
      PROVE  StillComing'
  <2>1. In(Append(qt, AnswerEvent(o))) = In(qt) \cup {AnswerEvent(o)}
    BY Zenon, <1>3, EventFields, Posted
  <2>2. In(qt') = In(qt) \cup {AnswerEvent(o)}
    BY Zenon, <1>3, <2>1
  <2>3. OfferEvent(offers) # AnswerEvent(o)
    BY Zenon DEF OfferEvent, AnswerEvent
  <2>4. QED
    BY Zenon, <1>1, <1>3, <2>2, <2>3
<1>4. CASE User
  <2>1. UNCHANGED <<offers, cands, qt>> /\ (qtPc' = qtPc \/ qtPc'.step = "close")
    BY <1>4 DEF User, ConnectToSignaling, DisconnectBegin, publisher
  <2>2. QED
    BY Zenon, <1>2, <2>1
<1>5. CASE OnOffer
  <2>1. cands' = 0
    BY Zenon, <1>5 DEF OnOffer
  <2>2. QED
    BY <2>1 DEF StillComing
<1>6. CASE OnIce
  <2>1. /\ offers' = offers /\ cands' = cands + 1 /\ qtPc' = qtPc /\ cands \in Nat
        /\ qt' = Append(qt, IceEvent(<<offers, cands + 1>>))
    BY Zenon, <1>6, IceSent DEF OnIce
  <2>2. <<offers, cands + 1>> \in Cands
    BY Zenon, <1>6, IceSent
  <2>3. In(qt') = In(qt) \cup {IceEvent(<<offers, cands + 1>>)}
    BY Zenon, <1>6, IceSent, Posted
  <2>4. OfferEvent(offers) # IceEvent(<<offers, cands + 1>>)
    BY Zenon DEF OfferEvent, IceEvent
  <2>5. \A n \in 1..(cands + 1) : n \in 1..cands \/ n = cands + 1
    BY <2>1
  <2>6. QED
    BY Zenon, <2>1, <2>3, <2>4, <2>5 DEF StillComing
<1>7. CASE \/ DisconnectClose \/ CreatePeerConnectionFails \/ ParseOfferFails
           \/ SetRemoteDescription \/ PushPending \/ AddRemoteIceCandidateNow
  <2>1. UNCHANGED <<offers, cands, qt>> /\ qtPc' = Idle
    BY Zenon, <1>7 DEF DisconnectClose, CreatePeerConnectionFails, ParseOfferFails,
                SetRemoteDescription, PushPending, AddRemoteIceCandidateNow, publisher
  <2>2. QED
    BY Zenon, <1>2, <2>1, IdleTyped
<1>8. CASE HandleOffer
  <2>1. /\ UNCHANGED <<offers, cands>> /\ Receive("offer")
        /\ qtPc'.offer = Head(qt).offer
    BY Zenon, <1>8 DEF HandleOffer, publisher
  <2>2. /\ In(qt) = {Head(qt)} \cup In(qt') /\ Head(qt) = OfferEvent(Head(qt).offer)
        /\ Head(qt).type = "offer"
    BY Zenon, <2>1, Received, EventFields
  <2>3. OfferEvent(offers) \in In(qt') \/ qtPc'.offer = offers => OfferEvent(offers) \in In(qt)
    BY Zenon, <2>1, <2>2
  <2>4. \A c : IceEvent(c) \in In(qt) => IceEvent(c) \in In(qt')
    BY Zenon, <2>2, EventFields
  <2>5. QED
    BY Zenon, <2>1, <2>3, <2>4 DEF StillComing
<1>9. CASE HandleRemoteIceCandidate
  <2>1. UNCHANGED <<offers, cands>> /\ Receive("ice") /\ qtPc'.step # "create"
    BY Zenon, <1>9 DEF HandleRemoteIceCandidate, publisher
  <2>2. /\ qt' = Tail(qt) /\ qt # <<>> /\ qt \in Seq(Events) /\ Head(qt) \in Events
        /\ Head(qt).type = "ice" /\ In(qt) = {Head(qt)} \cup In(qt')
    BY Zenon, <2>1, Received DEF Typed, Queues
  <2> SUFFICES ASSUME OfferEvent(offers) \in In(qt')
               PROVE  \A n \in 1..cands : IceEvent(<<offers, n>>) \in In(qt')
    BY Zenon, <2>1 DEF StillComing
  <2>3. Ahead({Head(qt)}, In(qt'))
    BY Zenon, <2>2, OrderedPop DEF InOrder
  <2>4. Head(qt).cand[1] < offers
    BY <2>2, <2>3, EventFields DEF Ahead, Before
  <2>5. offers \in Nat /\ Head(qt).cand[1] \in Nat
    BY <2>2, EventFields, CandFields, Numbers DEF Typed, Queues
  <2>6. \A n : IceEvent(<<offers, n>>) # Head(qt)
    <3>1. \A n : IceEvent(<<offers, n>>).cand[1] = offers
      BY EventFields
    <3>2. QED
      BY <2>4, <2>5, <3>1
  <2>7. QED
    BY Zenon, <2>2, <2>6 DEF StillComing
<1>10. CASE DoCreateAnswer
  <2>1. UNCHANGED <<offers, cands, qtPc>> /\ Receive("answer")
    BY Zenon, <1>10 DEF DoCreateAnswer, publisher
  <2>2. In(qt) = {Head(qt)} \cup In(qt') /\ Head(qt).type = "answer"
    BY Zenon, <2>1, Received
  <2>3. \A c : IceEvent(c) \in In(qt) => IceEvent(c) \in In(qt')
    BY Zenon, <2>2, EventFields
  <2>4. QED
    BY Zenon, <1>1, <2>1, <2>2, <2>3
<1>11. CASE FlushClear
  <2>1. rtc.by \in Offers
    BY Zenon, <1>11, ThreadFields DEF FlushClear
  <2>2. QED
    BY Zenon, <1>3, <1>11, <2>1 DEF FlushClear, publisher
<1>12. ASSUME NEW op \in ops, SetRemoteSucceeds(op) PROVE StillComing'
  <2>1. UNCHANGED <<offers, cands, qtPc>> /\ op.by \in Offers
    BY Zenon, <1>12, OpFields DEF SetRemoteSucceeds, publisher
  <2>2. qt' = qt \/ qt' = Append(qt, AnswerEvent(op.by))
    BY Zenon, <1>12 DEF SetRemoteSucceeds
  <2>3. QED
    BY Zenon, <1>2, <1>3, <2>1, <2>2
<1>13. ASSUME NEW op \in ops,
              \/ SetRemoteFails(op) \/ Complete(op) \/ AnswerFails(op)
              \/ CreateAnswerSucceeds(op) \/ SetLocalSucceeds(op)
       PROVE  StillComing'
  <2>1. UNCHANGED <<offers, cands, qt, qtPc>>
    BY Zenon, <1>13 DEF SetRemoteFails, Complete, AnswerFails, CreateAnswerSucceeds,
                 SetLocalSucceeds, publisher
  <2>2. QED
    BY Zenon, <1>2, <2>1
<1>14. CASE SendAnswer
  BY Zenon, <1>2, <1>14 DEF SendAnswer, publisher
<1>15. CASE UNCHANGED vars
  BY Zenon, <1>2, <1>15 DEF vars, publisher
<1>16. CASE QtStep
  BY Zenon, <1>7, <1>8, <1>9, <1>10, <1>16 DEF QtStep
<1>17. CASE RtcStep
  BY Zenon, <1>11, <1>12, <1>13, <1>14, <1>17 DEF RtcStep
<1>18. QED
  BY Zenon, <1>4, <1>5, <1>6, <1>15, <1>16, <1>17 DEF Next, Publisher

\* Candidates that wait stay where they are.
LEMMA ReachedMore ==
  ASSUME NEW q, NEW H, NEW p, NEW n, NEW E, NEW F, Reached(q, H, p, n, E),
         \A c : IceEvent(c) \in E => IceEvent(c) \in F
  PROVE  Reached(q, H, p, n, F)
  BY Zenon DEF Reached

\* A candidate is taken up: it is the next one.
LEMMA ReachedTake ==
  ASSUME NEW q \in Seq(Cands), NEW p \in Offers, NEW n \in Nat, NEW E, NEW F, NEW c \in Cands,
         Reached(q, {}, p, n, E), c[1] = p, c[2] <= n, E = F \cup {IceEvent(c)},
         Precede(In(q), {c}), \A d \in Cands : d[1] = p /\ IceEvent(d) \in F => c[2] < d[2],
         n <= MaxCands
  PROVE  Reached(q, {c}, p, n, F)
<1>1. Len(q) \in Nat /\ c[2] \in Nat /\ c[2] >= 1 /\ c = <<c[1], c[2]>> /\ MaxCands \in Nat
  BY CandFields, NegotiationAssumption, QueueLength
<1>2. Len(q) < c[2]
  <2>1. CASE Len(q) = 0
    BY <1>1, <2>1
  <2>2. CASE Len(q) # 0
    <3>1. Len(q) \in 1..Len(q)
      BY <1>1, <2>2
    <3>2. q[Len(q)] \in In(q) /\ q[Len(q)] = <<p, Len(q)>>
      BY Zenon, <3>1 DEF In, Reached
    <3>3. q[Len(q)][2] < c[2]
      BY Zenon, <3>2 DEF Precede
    <3>4. QED
      BY <3>2, <3>3
  <2>3. QED
    BY Zenon, <2>1, <2>2
<1>3. Len(q) + 1 \in 1..n /\ Len(q) < n
  BY <1>1, <1>2
<1>4. IceEvent(<<p, Len(q) + 1>>) \in E
  BY <1>1, <1>3 DEF Reached
<1>5. \A d : IceEvent(d) = IceEvent(c) => d = c
  BY Zenon DEF IceEvent
<1>6. c = <<p, Len(q) + 1>>
  <2> SUFFICES ASSUME c # <<p, Len(q) + 1>> PROVE FALSE
    BY Zenon
  <2>1. IceEvent(<<p, Len(q) + 1>>) \in F
    BY Zenon, <1>4, <1>5
  <2>2. <<p, Len(q) + 1>> \in Cands
    BY <1>1, <1>3, CandFields
  <2>3. c[2] < Len(q) + 1
    BY Zenon, <2>1, <2>2
  <2>4. QED
    BY <1>1, <1>2, <2>3
<1>7. \A i \in 1..n : i <= Len(q) \/ <<p, i>> \in {c} \/ IceEvent(<<p, i>>) \in F
  BY Zenon, <1>5 DEF Reached
<1>8. QED
  BY Zenon, <1>3, <1>6, <1>7 DEF Reached

\* It is put behind the others.
LEMMA ReachedPut ==
  ASSUME NEW q \in Seq(Cands), NEW c \in Cands, NEW p, NEW n \in Nat, NEW E,
         Reached(q, {c}, p, n, E)
  PROVE  Reached(Append(q, c), {}, p, n, E)
<1> DEFINE r == Append(q, c)
<1>1. /\ Len(q) \in Nat /\ Len(r) = Len(q) + 1 /\ r[Len(q) + 1] = c
      /\ \A i \in 1..Len(q) : r[i] = q[i]
  BY Push
<1>2. c = <<p, Len(q) + 1>> /\ Len(q) < n
  BY Zenon DEF Reached
<1> HIDE DEF r
<1>3. \A i \in 1..Len(r) : r[i] = <<p, i>>
  <2> TAKE i \in 1..Len(r)
  <2>1. CASE i \in 1..Len(q)
    BY Zenon, <1>1, <2>1 DEF Reached
  <2>2. CASE i = Len(q) + 1
    BY Zenon, <1>1, <1>2, <2>2
  <2>3. QED
    BY <1>1, <2>1, <2>2
<1>4. Len(r) <= n
  BY <1>1, <1>2
<1>5. \A i \in 1..n : i <= Len(r) \/ IceEvent(<<p, i>>) \in E
  <2> TAKE i \in 1..n
  <2>1. CASE i <= Len(q)
    BY <1>1, <2>1
  <2>2. CASE <<p, i>> \in {c}
    BY <1>1, <1>2, <2>2
  <2>3. CASE IceEvent(<<p, i>>) \in E
    BY Zenon, <2>3
  <2>4. QED
    BY Zenon, <2>1, <2>2, <2>3 DEF Reached
<1>6. Reached(r, {}, p, n, E)
  BY Zenon, <1>3, <1>4, <1>5 DEF Reached
<1>7. QED
  BY Zenon, <1>6 DEF r

\* One more is sent.
LEMMA ReachedSent ==
  ASSUME NEW q \in Seq(Cands), NEW H, NEW p, NEW n \in Nat, NEW E, Reached(q, H, p, n, E)
  PROVE  Reached(q, H, p, n + 1, E \cup {IceEvent(<<p, n + 1>>)})
<1>1. Len(q) \in Nat /\ Len(q) <= n /\ (H # {} => Len(q) < n)
  BY Zenon, QueueLength DEF Reached
<1>2. \A i \in 1..(n + 1) : i \in 1..n \/ i = n + 1
  OBVIOUS
<1>3. Len(q) <= n + 1 /\ (H # {} => Len(q) < n + 1)
  BY <1>1
<1>4. QED
  BY Zenon, <1>2, <1>3 DEF Reached

\* The hypotheses of Counted, after a step.
CountedCase == ~overlapped /\ ~raced /\ pc # 0 /\ pc = offers /\ qtPc.step # "close"

\* A step that leaves the candidates alone and takes none from the queue.
LEMMA CountedKept ==
  ASSUME Typed, Counted, CountedCase', CountedCase,
         UNCHANGED <<pc, qtPc, added, cands>>,
         \A c : IceEvent(c) \in In(qt) => IceEvent(c) \in In(qt'),
         conn'[pc] = "new" /\ Applying' => /\ conn[pc] = "new" /\ Applying
                                          /\ UNCHANGED <<pending, applied>>,
         conn'[pc] \in Ready => conn[pc] \in Ready /\ applied' = applied
  PROVE  Counted'
<1>1. Held' = Held
  BY Zenon DEF Held
<1>2. ASSUME conn'[pc] = "new", Applying'
      PROVE  ~applied' /\ added'[pc'] = <<>> /\ Reached(pending', Held', pc', cands', In(qt'))
  <2>1. ~applied /\ added[pc] = <<>> /\ Reached(pending, Held, pc, cands, In(qt))
    BY Zenon, <1>2 DEF Counted, CountedCase
  <2>2. Reached(pending, Held, pc, cands, In(qt'))
    BY Zenon, <2>1, ReachedMore
  <2>3. QED
    BY <1>1, <1>2, <2>1, <2>2
<1>3. ASSUME conn'[pc] \in Ready
      PROVE  /\ applied' /\ qtPc'.step # "push"
             /\ Reached(added'[pc'], Held', pc', cands', In(qt'))
  <2>1. applied /\ qtPc.step # "push" /\ Reached(added[pc], Held, pc, cands, In(qt))
    BY Zenon, <1>3 DEF Counted, CountedCase
  <2>2. Reached(added[pc], Held, pc, cands, In(qt'))
    BY Zenon, <2>1, ReachedMore
  <2>3. QED
    BY Zenon, <1>1, <1>3, <2>1, <2>2
<1>4. QED
  BY Zenon, <1>2, <1>3 DEF Counted

\* The publisher sends a candidate.
LEMMA CountedOnIce == ASSUME Typed, Counted, OnIce, CountedCase' PROVE Counted'
<1>1. /\ UNCHANGED <<offers, overlapped, qtPc, pc, conn, applied, pending, ops, added, raced>>
      /\ cands' = cands + 1 /\ qt' = Append(qt, IceEvent(<<offers, cands + 1>>))
  BY Zenon DEF OnIce
<1>2. cands \in Nat /\ pending \in Seq(Cands) /\ pc = offers /\ pc \in Offers /\ pc # 0
  BY <1>1, PcOffer DEF Typed, Queues, CountedCase
<1>3. CountedCase /\ Held' = Held /\ (Applying' <=> Applying)
  BY Zenon, <1>1 DEF CountedCase, Held, Applying
<1>4. <<offers, cands + 1>> \in Cands
  BY Zenon, IceSent
<1>5. In(qt') = In(qt) \cup {IceEvent(<<pc, cands + 1>>)}
  BY Zenon, <1>2, IceSent, Posted
<1>6. ASSUME conn[pc] = "new", Applying
      PROVE  ~applied /\ added[pc] = <<>> /\ Reached(pending, Held', pc, cands', In(qt'))
  <2>1. ~applied /\ added[pc] = <<>> /\ Reached(pending, Held, pc, cands, In(qt))
    BY Zenon, <1>3, <1>6 DEF Counted, CountedCase
  <2>2. Reached(pending, Held, pc, cands + 1, In(qt) \cup {IceEvent(<<pc, cands + 1>>)})
    BY Zenon, <1>2, <2>1, ReachedSent
  <2>3. QED
    BY Zenon, <1>1, <1>3, <1>5, <2>1, <2>2
<1>7. ASSUME conn[pc] \in Ready
      PROVE  applied /\ qtPc.step # "push" /\ Reached(added[pc], Held', pc, cands', In(qt'))
  <2>1. applied /\ qtPc.step # "push" /\ Reached(added[pc], Held, pc, cands, In(qt))
    BY Zenon, <1>3, <1>7 DEF Counted, CountedCase
  <2>2. added[pc] \in Seq(Cands)
    BY Zenon, <1>2 DEF Typed, Connections
  <2>3. Reached(added[pc], Held, pc, cands + 1, In(qt) \cup {IceEvent(<<pc, cands + 1>>)})
    BY Zenon, <1>2, <2>1, <2>2, ReachedSent
  <2>4. QED
    BY Zenon, <1>1, <1>3, <1>5, <2>1, <2>3
<1>8. QED
  BY Zenon, <1>1, <1>3, <1>6, <1>7 DEF Counted

\* The offer is handled: all its candidates are still to come.
LEMMA CountedNew ==
  ASSUME Typed, InOrder, Fresh, OwnCandidates, OneChain, StillComing,
         ParseOfferFails \/ SetRemoteDescription, CountedCase'
  PROVE  Counted'
<1>1. /\ UNCHANGED <<offers, cands, overlapped, applied, pending, added, qt>>
      /\ qtPc.step = "create" /\ conn' = [ClosePc EXCEPT ![qtPc.offer] = "new"]
      /\ pc' = qtPc.offer /\ qtPc' = Idle
  BY Zenon DEF ParseOfferFails, SetRemoteDescription, publisher
<1>2. qtPc.offer \in Offers /\ conn'[qtPc.offer] = "new" /\ conn[qtPc.offer] = "none"
  BY Zenon, <1>1, ClosedTyped, ThreadFields DEF Fresh
<1>3. pending = <<>> /\ added[qtPc.offer] = <<>>
  BY Zenon, <1>1, <1>2 DEF OwnCandidates, Given
<1>4. ~applied
  BY Zenon, <1>1 DEF OneChain, Chain, CountedCase
<1>5. qtPc.offer = offers /\ cands \in Nat
  BY <1>1 DEF CountedCase, Typed, Queues
<1>6. Held' = {}
  BY Zenon, <1>1, HeldIs, IdleTyped
<1>7. \A n \in 1..cands : IceEvent(<<offers, n>>) \in In(qt)
  BY Zenon, <1>1, <1>5 DEF StillComing
<1>8. Reached(<<>>, {}, offers, cands, In(qt))
  BY <1>5, <1>7 DEF Reached
<1>9. conn'[pc'] \notin Ready
  BY Zenon, <1>1, <1>2 DEF Ready
<1>10. ~applied' /\ added'[pc'] = <<>> /\ Reached(pending', Held', pc', cands', In(qt'))
  BY Zenon, <1>1, <1>3, <1>4, <1>5, <1>6, <1>8
<1>11. QED
  BY Zenon, <1>9, <1>10 DEF Counted

\* A candidate is taken from the queue of events.
LEMMA CountedHandle ==
  ASSUME Typed, InOrder, OwnCandidates, OneChain, Counted, HandleRemoteIceCandidate, CountedCase'
  PROVE  Counted'
<1> PICK c : c = Head(qt).cand
  BY Zenon
<1>1. /\ UNCHANGED <<pc, added, conn, pending, applied, offers, cands, ops, overlapped, raced>>
      /\ Receive("ice") /\ qtPc'.cand = c
      /\ qtPc'.step = IF pc = 0 \/ ~applied THEN "push" ELSE "add"
  BY Zenon DEF HandleRemoteIceCandidate, publisher
<1>2. /\ qtPc.step = "idle" /\ Head(qt) \in Events /\ Head(qt).type = "ice"
      /\ In(qt) = {Head(qt)} \cup In(qt')
  BY Zenon, <1>1, Received
<1>3. c \in Cands /\ Head(qt) = IceEvent(c)
  BY Zenon, <1>2, EventFields
<1>4. Held = {} /\ Held' = {c}
  BY Zenon, <1>1, <1>2, HeldIs
<1>5. /\ CountedCase /\ pc # 0 /\ pc = offers /\ pc \in Offers /\ (Applying' <=> Applying)
  BY Zenon, <1>1, <1>2, PcOffer DEF CountedCase, Applying
<1>6. c \in Waiting /\ Precede({c}, Waiting') /\ c[2] <= cands
  BY Zenon, <1>1, <1>5, FirstWaiting
<1>7. c[1] = pc
  BY Zenon, <1>6 DEF Waiting
<1>8. \A d \in Cands : d[1] = pc /\ IceEvent(d) \in In(qt') => c[2] < d[2]
  BY Zenon, <1>1, <1>6 DEF Waiting, Precede
<1>9. In(qt) = In(qt') \cup {IceEvent(c)}
  BY Zenon, <1>2, <1>3
<1>10. cands \in Nat /\ cands <= MaxCands
  BY NegotiationAssumption DEF Typed, Queues
<1>11. ASSUME NEW q \in Seq(Cands), Reached(q, Held, pc, cands, In(qt)), Precede(In(q), {c})
       PROVE  Reached(q, Held', pc, cands, In(qt'))
  <2>1. Reached(q, {}, pc, cands, In(qt))
    BY Zenon, <1>4, <1>11
  <2>2. Reached(q, {c}, pc, cands, In(qt'))
    BY Zenon, <1>3, <1>5, <1>6, <1>7, <1>8, <1>9, <1>10, <1>11, <2>1, ReachedTake
  <2>3. QED
    BY Zenon, <1>4, <2>2
<1>12. ASSUME conn[pc] = "new", Applying
       PROVE  ~applied /\ added[pc] = <<>> /\ Reached(pending, Held', pc, cands, In(qt'))
  <2>1. ~applied /\ added[pc] = <<>> /\ Reached(pending, Held, pc, cands, In(qt))
    BY Zenon, <1>5, <1>12 DEF Counted, CountedCase
  <2>2. Precede(In(pending), {c}) /\ pending \in Seq(Cands)
    BY Zenon, <1>5, <1>6, <1>12 DEF OwnCandidates, Queued, Precede, Typed, Queues
  <2>3. QED
    BY Zenon, <1>11, <2>1, <2>2
<1>13. ASSUME conn[pc] \in Ready
       PROVE  /\ applied /\ qtPc'.step # "push"
              /\ Reached(added[pc], Held', pc, cands, In(qt'))
  <2>1. applied /\ Reached(added[pc], Held, pc, cands, In(qt))
    BY Zenon, <1>5, <1>13 DEF Counted, CountedCase
  <2>2. Precede(In(added[pc]), {c}) /\ added[pc] \in Seq(Cands)
    BY Zenon, <1>5, <1>6 DEF OwnCandidates, Incoming, Precede, Typed, Connections
  <2>3. QED
    BY Zenon, <1>1, <1>5, <1>11, <2>1, <2>2
<1>14. QED
  BY Zenon, <1>1, <1>5, <1>12, <1>13 DEF Counted

\* It is queued ...
LEMMA CountedPush ==
  ASSUME Typed, OneChain, Counted, PushPending, CountedCase' PROVE Counted'
<1> PICK c : c = qtPc.cand
  BY Zenon
<1>1. /\ UNCHANGED <<pc, added, conn, qt, applied, offers, cands, ops, overlapped>>
      /\ qtPc' = Idle /\ pending' = Append(pending, c) /\ qtPc.step = "push"
      /\ raced' = (raced \/ rtc.step = "clear")
  BY Zenon DEF PushPending, publisher
<1>2. c \in Cands /\ pending \in Seq(Cands) /\ cands \in Nat
  BY <1>1, ThreadFields DEF Typed, Queues
<1>3. Held = {c} /\ Held' = {}
  BY Zenon, <1>1, HeldIs, IdleTyped
<1>4. CountedCase /\ (Applying' <=> Applying)
  BY Zenon, <1>1 DEF CountedCase, Applying
<1>5. conn[pc] \notin Ready
  BY Zenon, <1>1, <1>4 DEF Counted, CountedCase
<1>6. ASSUME conn[pc] = "new", Applying
      PROVE  ~applied /\ added[pc] = <<>> /\ Reached(pending', Held', pc, cands, In(qt))
  <2>1. ~applied /\ added[pc] = <<>> /\ Reached(pending, {c}, pc, cands, In(qt))
    BY Zenon, <1>3, <1>4, <1>6 DEF Counted, CountedCase
  <2>2. Reached(Append(pending, c), {}, pc, cands, In(qt))
    BY Zenon, <1>2, <2>1, ReachedPut
  <2>3. QED
    BY Zenon, <1>1, <1>3, <2>1, <2>2
<1>7. QED
  BY Zenon, <1>1, <1>4, <1>5, <1>6 DEF Counted

\* ... or given to the connection.
LEMMA CountedAdd ==
  ASSUME Typed, OneChain, Counted, AddRemoteIceCandidateNow, CountedCase' PROVE Counted'
<1> PICK c : c = qtPc.cand
  BY Zenon
<1>1. /\ UNCHANGED <<pc, pending, conn, qt, applied, offers, cands, ops, overlapped, raced>>
      /\ qtPc' = Idle /\ added' = [added EXCEPT ![pc] = Append(@, c)] /\ qtPc.step = "add"
  BY Zenon DEF AddRemoteIceCandidateNow, publisher
<1>2. c \in Cands /\ cands \in Nat
  BY <1>1, ThreadFields DEF Typed, Queues
<1>3. Held = {c} /\ Held' = {}
  BY Zenon, <1>1, HeldIs, IdleTyped
<1>4. CountedCase /\ pc # 0 /\ pc \in Offers /\ ~overlapped
  BY Zenon, <1>1, PcOffer DEF CountedCase
<1>5. conn[pc] \in Ready
  BY Zenon, <1>1, <1>4 DEF OneChain, ReadyForIce
<1>6. applied /\ Reached(added[pc], {c}, pc, cands, In(qt))
  BY Zenon, <1>3, <1>4, <1>5 DEF Counted, CountedCase
<1>7. added[pc] \in Seq(Cands)
  BY Zenon, <1>4 DEF Typed, Connections
<1>8. Reached(Append(added[pc], c), {}, pc, cands, In(qt))
  BY Zenon, <1>2, <1>6, <1>7, ReachedPut
<1>9. added'[pc] = Append(added[pc], c)
  BY Zenon, <1>1, <1>4 DEF Typed, Connections
<1>10. Reached(added'[pc'], Held', pc', cands', In(qt'))
  BY Zenon, <1>1, <1>3, <1>8, <1>9
<1>11. conn'[pc'] # "new"
  BY Zenon, <1>1, <1>5 DEF Ready
<1>12. QED
  BY Zenon, <1>1, <1>6, <1>10, <1>11, IdleTyped DEF Counted

\* The remote description is applied and the queue handed over.
LEMMA CountedApplied ==
  ASSUME Typed, Fresh, OwnCandidates, OneChain, OwnOps, Counted, CountedCase',
         NEW op \in ops, SetRemoteSucceeds(op)
  PROVE  Counted'
<1>1. /\ UNCHANGED <<pc, qtPc, pending, offers, cands, overlapped>>
      /\ applied' = TRUE /\ added' = [added EXCEPT ![pc] = @ \o pending]
      /\ conn' = [conn EXCEPT ![op.pc] = "remote"] /\ raced' = (raced \/ qtPc.step = "push")
      /\ op.kind = "setRemote"
  BY Zenon DEF SetRemoteSucceeds, CallbackOf, publisher
<1>2. qt' = qt \/ qt' = Append(qt, AnswerEvent(op.by))
  BY Zenon DEF SetRemoteSucceeds
<1>3. CountedCase /\ pc # 0 /\ pc \in Offers /\ ~overlapped /\ qtPc.step # "push"
  BY Zenon, <1>1, PcOffer DEF CountedCase
<1>4. op.pc = pc /\ conn[pc] = "new" /\ Applying
  BY Zenon, <1>1, <1>3 DEF OwnOps, Applying
<1>5. qtPc.step # "add"
  BY Zenon, <1>3, <1>4 DEF OneChain, ReadyForIce, Ready
<1>6. Held = {} /\ Held' = {}
  BY Zenon, <1>1, <1>3, <1>5, HeldIs
<1>7. added[pc] = <<>> /\ Reached(pending, {}, pc, cands, In(qt))
  BY Zenon, <1>3, <1>4, <1>6 DEF Counted, CountedCase
<1>8. pending \in Seq(Cands) /\ added \in [Offers -> Seq(Cands)]
  BY Zenon DEF Typed, Queues, Connections
<1>9. <<>> \o pending = pending
  BY <1>8
<1>10. added'[pc] = pending
  BY Zenon, <1>1, <1>3, <1>7, <1>8, <1>9
<1>11. In(qt) \subseteq In(qt')
  <2>1. op.by \in Offers
    BY Zenon, OpFields
  <2>2. In(Append(qt, AnswerEvent(op.by))) = In(qt) \cup {AnswerEvent(op.by)}
    BY Zenon, <2>1, EventFields, Posted
  <2>3. QED
    BY Zenon, <1>2, <2>2
<1>12. Reached(pending, {}, pc, cands, In(qt'))
  BY Zenon, <1>7, <1>11, ReachedMore
<1>13. Reached(added'[pc'], Held', pc', cands', In(qt'))
  BY Zenon, <1>1, <1>6, <1>10, <1>12
<1>14. conn'[pc'] # "new"
  BY Zenon, <1>1, <1>3, <1>4 DEF Typed, Connections
<1>15. QED
  BY Zenon, <1>1, <1>3, <1>13, <1>14 DEF Counted

\* Every step keeps count of the candidates of the last offer.
LEMMA CountedStep ==
  ASSUME Typed, InOrder, Fresh, OwnCandidates, OneChain, OwnOps, StillComing, Counted, [Next]_vars
  PROVE  Counted'
<1> SUFFICES ASSUME CountedCase' PROVE Counted'
  BY Zenon DEF Counted, CountedCase
<1>1. CASE ConnectToSignaling \/ UNCHANGED vars
  <2>1. /\ UNCHANGED <<pc, qtPc, added, cands, qt, conn, pending, applied, ops>>
        /\ UNCHANGED <<offers, overlapped, raced>>
    BY Zenon, <1>1 DEF ConnectToSignaling, vars, publisher
  <2>2. CountedCase /\ (Applying' <=> Applying)
    BY Zenon, <2>1 DEF CountedCase, Applying
  <2>3. QED
    BY Zenon, <2>1, <2>2, CountedKept
<1>2. CASE DisconnectBegin
  <2>1. qtPc'.step = "close"
    BY Zenon, <1>2 DEF DisconnectBegin
  <2>2. QED
    BY Zenon, <2>1 DEF CountedCase
<1>3. CASE DisconnectClose \/ CreatePeerConnectionFails
  <2>1. pc' = 0
    BY Zenon, <1>3 DEF DisconnectClose, CreatePeerConnectionFails
  <2>2. QED
    BY Zenon, <2>1 DEF CountedCase
<1>4. CASE OnOffer
  <2>1. pc' = pc /\ offers' = offers + 1
    BY Zenon, <1>4 DEF OnOffer
  <2>2. pc <= offers /\ pc \in Nat /\ offers \in Nat
    <3>1. pc \in Nat /\ offers \in Nat /\ Current \in Nat
      BY Numbers, ThreadFields, NegotiationAssumption DEF Typed, Queues, Connections, Current
    <3>2. QED
      BY <3>1 DEF InOrder
  <2>3. pc' # offers'
    BY <2>1, <2>2
  <2>4. QED
    BY Zenon, <2>3 DEF CountedCase
<1>5. CASE OnIce
  BY Zenon, <1>5, CountedOnIce
<1>6. CASE HandleOffer
  <2>1. UNCHANGED <<pc, offers>> /\ Receive("offer")
    BY Zenon, <1>6 DEF HandleOffer, publisher
  <2>2. /\ Head(qt) \in In(qt) /\ Head(qt).type = "offer" /\ qtPc.step = "idle"
        /\ Head(qt) \in Events
    BY Zenon, <2>1, Received
  <2>3. pc < Head(qt).offer /\ Head(qt).offer <= offers
    BY Zenon, <2>2 DEF InOrder, Current
  <2>4. pc \in Nat /\ Head(qt).offer \in Nat /\ offers \in Nat
    BY <2>2, EventFields, Numbers, NegotiationAssumption DEF Typed, Queues, Connections
  <2>5. pc' # offers'
    BY <2>1, <2>3, <2>4
  <2>6. QED
    BY Zenon, <2>5 DEF CountedCase
<1>7. CASE ParseOfferFails \/ SetRemoteDescription
  BY Zenon, <1>7, CountedNew
<1>8. CASE HandleRemoteIceCandidate
  BY Zenon, <1>8, CountedHandle
<1>9. CASE PushPending
  BY Zenon, <1>9, CountedPush
<1>10. CASE AddRemoteIceCandidateNow
  BY Zenon, <1>10, CountedAdd
<1>11. CASE DoCreateAnswer
  <2>1. /\ UNCHANGED <<pc, qtPc, added, cands, conn, pending, applied, offers, overlapped, raced>>
        /\ Receive("answer")
    BY Zenon, <1>11 DEF DoCreateAnswer, publisher
  <2>2. CountedCase
    BY Zenon, <2>1 DEF CountedCase
  <2>3. In(qt) = {Head(qt)} \cup In(qt') /\ Head(qt).type = "answer"
    BY Zenon, <2>1, Received
  <2>4. \A c : IceEvent(c) \in In(qt) => IceEvent(c) \in In(qt')
    BY Zenon, <2>3, EventFields
  <2>5. \A op \in ops' : op \in ops \/ op.kind # "setRemote"
    BY <1>11 DEF DoCreateAnswer, Op
  <2>6. Applying' => Applying
    BY Zenon, <2>5 DEF Applying
  <2>7. QED
    BY Zenon, <2>1, <2>2, <2>4, <2>6, CountedKept
<1>12. CASE FlushClear
  <2>1. /\ UNCHANGED <<pc, qtPc, added, cands, conn, applied, ops, offers, overlapped, raced>>
        /\ rtc.step = "clear" /\ qt' = Append(qt, AnswerEvent(rtc.by))
    BY Zenon, <1>12 DEF FlushClear, publisher
  <2>2. CountedCase
    BY Zenon, <2>1 DEF CountedCase
  <2>3. ops' = {}
    BY Zenon, <2>1, <2>2 DEF OneChain, Chain, CountedCase
  <2>4. ~Applying'
    BY Zenon, <2>3 DEF Applying
  <2>5. In(Append(qt, AnswerEvent(rtc.by))) = In(qt) \cup {AnswerEvent(rtc.by)}
    BY Zenon, <2>1, ThreadFields, EventFields, Posted
  <2>6. \A c : IceEvent(c) \in In(qt) => IceEvent(c) \in In(qt')
    BY Zenon, <2>1, <2>5
  <2>7. QED
    BY Zenon, <2>1, <2>2, <2>4, <2>6, CountedKept
<1>13. CASE SendAnswer
  <2>1. /\ UNCHANGED <<pc, qtPc, added, cands, qt, conn, pending, applied, ops>>
        /\ UNCHANGED <<offers, overlapped, raced>>
    BY Zenon, <1>13 DEF SendAnswer, publisher
  <2>2. CountedCase /\ (Applying' <=> Applying)
    BY Zenon, <2>1 DEF CountedCase, Applying
  <2>3. QED
    BY Zenon, <2>1, <2>2, CountedKept
<1>14. ASSUME NEW op \in ops, AnswerFails(op) \/ CreateAnswerSucceeds(op) \/ SetLocalSucceeds(op)
       PROVE  Counted'
  <2>1. /\ UNCHANGED <<pc, qtPc, added, cands, qt, conn, pending, applied>>
        /\ UNCHANGED <<offers, overlapped, raced>>
    BY Zenon, <1>14 DEF AnswerFails, CreateAnswerSucceeds, SetLocalSucceeds, publisher
  <2>2. \A o \in ops' : o \in ops \/ o.kind # "setRemote"
    BY <1>14 DEF AnswerFails, CreateAnswerSucceeds, SetLocalSucceeds, Op
  <2>3. CountedCase /\ (Applying' => Applying)
    BY Zenon, <2>1, <2>2 DEF CountedCase, Applying
  <2>4. QED
    BY Zenon, <2>1, <2>3, CountedKept
<1>15. ASSUME NEW op \in ops, SetRemoteFails(op) PROVE Counted'
  <2>1. /\ UNCHANGED <<pc, qtPc, added, cands, qt, conn, offers, overlapped, raced>>
        /\ ops' = ops \ {op} /\ op.kind = "setRemote"
    BY Zenon, <1>15 DEF SetRemoteFails, CallbackOf, publisher
  <2>2. CountedCase
    BY Zenon, <2>1 DEF CountedCase
  <2>3. ops' = {}
    BY Zenon, <2>1, <2>2 DEF OneChain, Chain, CountedCase
  <2>4. ~Applying'
    BY Zenon, <2>3 DEF Applying
  <2>5. conn[pc] = "new"
    BY Zenon, <2>1, <2>2 DEF OwnOps, CountedCase
  <2>6. conn'[pc] \notin Ready
    BY Zenon, <2>1, <2>5 DEF Ready
  <2>7. QED
    BY Zenon, <2>1, <2>2, <2>4, <2>6, CountedKept
<1>16. ASSUME NEW op \in ops, SetRemoteSucceeds(op) PROVE Counted'
  BY Zenon, <1>16, CountedApplied
<1>17. ASSUME NEW op \in ops, Complete(op) PROVE Counted'
  <2>1. /\ UNCHANGED <<pc, qtPc, added, cands, qt, pending, applied, offers, overlapped, raced>>
        /\ op.kind # "setRemote"
    BY Zenon, <1>17 DEF Complete, publisher
  <2>2. CountedCase /\ pc \in Offers
    BY Zenon, <2>1, PcOffer DEF CountedCase
  <2>3. PICK res \in {"ok", "error"} :
          /\ ops' = (ops \ {op}) \cup {Result(op, res)}
          /\ res = "ok" => conn[op.pc] = "remote"
          /\ conn' = IF op.kind = "setLocal" /\ res = "ok"
                       THEN [conn EXCEPT ![op.pc] = "stable"] ELSE conn
    BY <1>17, Zenon DEF Complete, Result
  <2>4. Result(op, res).kind # "setRemote"
    BY <2>1, OpFields
  <2>5. Applying' => Applying
    BY Zenon, <2>3, <2>4 DEF Applying
  <2>6. conn'[pc] = conn[pc] \/ (conn[pc] = "remote" /\ conn'[pc] = "stable")
    BY Zenon, <2>2, <2>3 DEF Typed, Connections
  <2>7. conn'[pc] = "new" => conn[pc] = "new"
    BY Zenon, <2>6
  <2>8. conn'[pc] \in Ready => conn[pc] \in Ready
    BY Zenon, <2>6 DEF Ready
  <2>9. QED
    BY <2>1, <2>2, <2>5, <2>7, <2>8, CountedKept
<1>18. CASE QtStep
  BY Zenon, <1>3, <1>6, <1>7, <1>8, <1>9, <1>10, <1>11, <1>18 DEF QtStep
<1>19. CASE RtcStep
  BY <1>12, <1>13, <1>14, <1>15, <1>16, <1>17, <1>19 DEF RtcStep
<1>20. QED
  BY Zenon, <1>1, <1>2, <1>4, <1>5, <1>18, <1>19 DEF Next, User, Publisher

-----------------------------------------------------------------------------
\* The inductive invariant.
Negotiating ==
  /\ Typed /\ InOrder /\ Fresh /\ OneAnswer /\ OwnCandidates
  /\ OneChain /\ OwnOps /\ StillComing /\ Counted

\* Every step keeps it: each part from itself and the parts before it.
LEMMA NegotiatingStep == ASSUME Negotiating, [Next]_vars PROVE Negotiating'
<1> USE DEF Negotiating
<1>1. Typed' /\ InOrder'
  BY Zenon, TypedStep, InOrderStep
<1>2. Fresh'
  BY Zenon, FreshStep
<1>3. OneAnswer'
  BY Zenon, OneAnswerStep
<1>4. OwnCandidates'
  BY Zenon, OwnStep
<1>5. OneChain'
  BY Zenon, OneChainStep
<1>6. OwnOps' /\ StillComing'
  BY Zenon, OwnOpsStep, StillComingStep
<1>7. Counted'
  BY Zenon, CountedStep
<1>8. QED
  BY Zenon, <1>1, <1>2, <1>3, <1>4, <1>5, <1>6, <1>7

\* Whatever the threads do, the members of the client, the queue of events and
\* the callbacks that are to come fit together (webrtc_receiver_client.cpp).
THEOREM NegotiationInvariant == Spec => []Negotiating
<1>1. Init => Negotiating
  BY TypedInit, InOrderInit, FreshInit, OneAnswerInit, OwnInit, OneChainInit, CountedInit
     DEF Negotiating
<1>2. Negotiating /\ [Next]_vars => Negotiating'
  BY Zenon, NegotiatingStep
<1>3. QED
  BY <1>1, <1>2, PTL DEF Spec

\* The local description of a connection is sent at most once, whichever callbacks
\* of replaced connections start a second answer on it (onSetLocalSuccess).
THEOREM NegotiationOneAnswer == Spec => []OneAnswerPerConnection
<1>1. Negotiating => OneAnswerPerConnection
  BY Zenon DEF Negotiating, OneAnswer
<1>2. QED
  BY <1>1, NegotiationInvariant, PTL

\* A connection is given only candidates of its own offer, in the order in which
\* they were sent and none of them twice, through m_pendingRemoteIce or directly
\* (handleRemoteIceCandidate, flushPendingRemoteIceCandidates).
THEOREM NegotiationCandidatesInOrder == Spec => []CandidatesInOrder
<1>1. Negotiating => CandidatesInOrder
  <2> SUFFICES ASSUME Negotiating, NEW p \in Offers,
                      NEW i \in 1..Len(added[p]), NEW j \in 1..Len(added[p])
               PROVE  added[p][i][1] = p /\ (i < j => added[p][i][2] < added[p][j][2])
    BY Zenon DEF CandidatesInOrder
  <2>1. Rising(added[p]) /\ \A c \in In(added[p]) : c[1] = p
    BY Zenon DEF Negotiating, OwnCandidates, Given
  <2>2. added[p][i] \in In(added[p])
    BY Zenon DEF In
  <2>3. QED
    BY Zenon, <2>1, <2>2 DEF Rising
<1>2. QED
  BY <1>1, NegotiationInvariant, PTL

\* While an operation of the current connection has not called back, the member
\* for its observer holds a reference to it, unless offers overlapped.
THEOREM NegotiationObserverHeld == Spec => []ObserverHeld
<1>1. Negotiating => ObserverHeld
  <2> SUFFICES ASSUME Negotiating, NEW op \in ops, op.pc = pc, QtFree, ~overlapped
               PROVE  observer[op.kind] = op.pc
    BY Zenon DEF ObserverHeld
  <2>1. qtPc.step = "idle"
    BY Zenon, IdleTyped DEF QtFree
  <2>2. QED
    BY Zenon, <2>1 DEF Negotiating, OneChain, Observed
<1>2. QED
  BY <1>1, NegotiationInvariant, PTL

\* When everything has been handled, the connection of the last offer has all the
\* candidates that were received, unless a push to m_pendingRemoteIce overlapped
\* its flush or offers overlapped.
THEOREM NegotiationNothingLost == Spec => []NothingLost
<1>1. Negotiating => NothingLost
  <2> SUFFICES ASSUME Negotiating, Quiet, pc # 0, pc = offers, conn[pc] \in {"remote", "stable"},
                      ~raced, ~overlapped
               PROVE  Len(added[pc]) = cands
    BY Zenon DEF NothingLost
  <2>1. qt = <<>> /\ qtPc.step = "idle"
    BY Zenon, IdleTyped DEF Quiet, QtFree
  <2>2. Held = {} /\ In(qt) = {}
    BY Zenon, <2>1, HeldIs, InEmpty
  <2>3. Reached(added[pc], {}, pc, cands, {})
    BY Zenon, <2>1, <2>2 DEF Negotiating, Counted, Ready
  <2>4. added[pc] \in Seq(Cands) /\ cands \in Nat
    BY PcOffer DEF Negotiating, Typed, Connections, Queues
  <2>5. Len(added[pc]) \in Nat
    BY Zenon, <2>4, QueueLength
  <2>6. Len(added[pc]) <= cands /\ \A i \in 1..cands : i <= Len(added[pc])
    BY Zenon, <2>3 DEF Reached
  <2>7. QED
    BY <2>4, <2>5, <2>6
<1>2. QED
  BY <1>1, NegotiationInvariant, PTL

\* A candidate is given to a connection only once its remote description is
\* applied, unless offers overlapped (m_remoteDescriptionApplied).
THEOREM NegotiationQueuedUntilRemoteApplied == Spec => QueuedUntilRemoteApplied
<1> DEFINE P == \A p \in Offers :
                  added'[p] # added[p] /\ ~overlapped => conn'[p] \in {"remote", "stable"}
<1>1. ASSUME Negotiating, [Next]_vars PROVE P
  <2> SUFFICES ASSUME NEW p \in Offers, added'[p] # added[p], ~overlapped
               PROVE  conn'[p] \in {"remote", "stable"}
    BY Zenon
  <2>1. AddRemoteIceCandidateNow \/ \E op \in ops : SetRemoteSucceeds(op)
    <3>1. User \/ Publisher \/ UNCHANGED vars => added' = added
      BY Zenon DEF User, ConnectToSignaling, DisconnectBegin, Publisher, OnOffer, OnIce, vars
    <3>2. QtStep => AddRemoteIceCandidateNow \/ added' = added
      BY Zenon DEF QtStep, DisconnectClose, HandleOffer, CreatePeerConnectionFails,
             ParseOfferFails, SetRemoteDescription, HandleRemoteIceCandidate,
             PushPending, DoCreateAnswer
    <3>3. RtcStep => (\E op \in ops : SetRemoteSucceeds(op)) \/ added' = added
      BY Zenon DEF RtcStep, FlushClear, SendAnswer, SetRemoteFails, Complete, AnswerFails,
             CreateAnswerSucceeds, SetLocalSucceeds
    <3>4. QED
      BY Zenon, <1>1, <3>1, <3>2, <3>3 DEF Next
  <2>2. CASE AddRemoteIceCandidateNow
    <3>1. qtPc.step = "add" /\ conn' = conn /\ added' = [added EXCEPT ![pc] = Append(@, qtPc.cand)]
      BY Zenon, <2>2 DEF AddRemoteIceCandidateNow
    <3>2. p = pc
      BY Zenon, <1>1, <3>1 DEF Negotiating, Typed, Connections
    <3>3. conn[pc] \in Ready
      BY Zenon, <1>1, <3>1 DEF Negotiating, OneChain, ReadyForIce
    <3>4. QED
      BY Zenon, <3>1, <3>2, <3>3 DEF Ready
  <2>3. ASSUME NEW op \in ops, SetRemoteSucceeds(op) PROVE conn'[p] \in {"remote", "stable"}
    <3>1. /\ added' = [added EXCEPT ![pc] = @ \o pending]
          /\ conn' = [conn EXCEPT ![op.pc] = "remote"]
      BY Zenon, <2>3 DEF SetRemoteSucceeds
    <3>2. p = pc
      BY Zenon, <1>1, <3>1 DEF Negotiating, Typed, Connections
    <3>3. pc # 0
      BY <3>2 DEF Offers
    <3>4. op.pc = pc
      BY Zenon, <1>1, <2>3, <3>3 DEF Negotiating, OwnOps
    <3>5. QED
      BY <1>1, <3>1, <3>2, <3>4 DEF Negotiating, Typed, Connections
  <2>4. QED
    BY Zenon, <2>1, <2>2, <2>3
<1>2. QED
  <2>1. Negotiating /\ [Next]_vars => [P]_vars
    BY Zenon, <1>1
  <2>2. QED
    BY <2>1, NegotiationInvariant, PTL DEF Spec, QueuedUntilRemoteApplied
=============================================================================
