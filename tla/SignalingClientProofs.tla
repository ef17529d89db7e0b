----------------------- MODULE SignalingClientProofs -----------------------
(***************************************************************************)
(* The life of the reader thread, for any messages and any number of       *)
(* connections: Start never overwrites a reader that is not joined, and no *)
(* reader is left when Stop has returned.  Then what the callbacks see: a  *)
(* MessageStream, as far as safety goes.                                   *)
(***************************************************************************)
EXTENDS SignalingClient, TLAPS

\* reader_thread_ is joinable exactly from Start to the join in Stop, also when
\* the reader has ended by itself.
JoinableReader == thread <=> reader # "none"

\* running_ is false between calls only when the reader was joined: only Stop
\* takes running_ back, and it does not return before the join.
StoppedIsJoined == ~running /\ owner = "idle" => ~thread

IInv == thread \in BOOLEAN /\ JoinableReader /\ StoppedIsJoined

\* A new client has no reader and is stopped.
LEMMA ReaderInit == Init => IInv
  BY DEF Init, IInv, JoinableReader, StoppedIsJoined

\* The steps of the reader neither end its thread object nor touch the owner.
LEMMA ReaderKeepsThread ==
  ReaderStep => /\ UNCHANGED <<owner, running, thread>>
                /\ reader # "none" /\ reader' # "none"
<1>1. ReaderCheck => /\ UNCHANGED <<owner, running, thread>>
                     /\ reader # "none" /\ reader' # "none"
  BY DEF ReaderCheck
<1>2. ReaderCall => /\ UNCHANGED <<owner, running, thread>>
                    /\ reader # "none" /\ reader' # "none"
  BY DEF ReaderCall
<1>3. RecvData => /\ UNCHANGED <<owner, running, thread>>
                  /\ reader # "none" /\ reader' # "none"
  BY DEF RecvData
<1>4. RecvEnd => /\ UNCHANGED <<owner, running, thread>>
                 /\ reader # "none" /\ reader' # "none"
  BY DEF RecvEnd
<1>5. Dispatch => /\ UNCHANGED <<owner, running, thread>>
                  /\ reader # "none" /\ reader' # "none"
  BY DEF Dispatch
<1>6. QED
  BY <1>1, <1>2, <1>3, <1>4, <1>5 DEF ReaderStep

\* Start, every step of Stop, of the reader and of the server keeps the
\* invariant.
LEMMA ReaderInvariantStep == IInv /\ [Next]_vars => IInv'
<1> SUFFICES ASSUME IInv, [Next]_vars PROVE IInv'
  OBVIOUS
<1> USE DEF IInv, JoinableReader, StoppedIsJoined
<1>1. CASE Start
  BY <1>1 DEF Start
<1>2. CASE Stop
  BY <1>2 DEF Stop
<1>3. CASE StopShutdown
  BY <1>3 DEF StopShutdown
<1>4. CASE StopClose
  BY <1>4 DEF StopClose
<1>5. CASE StopJoin
  BY <1>5 DEF StopJoin
<1>6. CASE ReaderStep
  BY <1>6, ReaderKeepsThread
<1>7. CASE ServerClose
  BY <1>7 DEF ServerClose
<1>8. ASSUME NEW k \in Kinds, ServerSend(k) PROVE IInv'
  BY <1>8 DEF ServerSend
<1>9. ASSUME NEW k \in Kinds, SendLine(k) PROVE IInv'
  BY <1>9 DEF SendLine
<1>10. CASE UNCHANGED vars
  BY <1>10 DEF vars
<1>11. QED
  BY <1>1, <1>2, <1>3, <1>4, <1>5, <1>6, <1>7, <1>8, <1>9, <1>10 DEF Next, StopStep

\* In every reachable state reader_thread_ is joinable exactly while there is a
\* reader, and none is left when Stop has returned.
THEOREM ReaderInvariant == Spec => []IInv
  BY ReaderInit, ReaderInvariantStep, PTL DEF Spec

\* When Stop has returned no reader is left that could call back.
THEOREM SignalingNoCallbackAfterStop == Spec => []NoCallbackAfterStop
<1>1. IInv => NoCallbackAfterStop
  BY DEF IInv, JoinableReader, StoppedIsJoined, NoCallbackAfterStop
<1>2. QED
  BY ReaderInvariant, <1>1, PTL

\* Only Start makes a connection, and it finds no reader that is not joined.
THEOREM SignalingOneReader == Spec => OneReader
<1>1. IInv /\ [Next]_vars => [conns' # conns => ~thread]_vars
  <2> SUFFICES ASSUME IInv, Next, conns' # conns PROVE ~thread
    BY DEF vars
  <2>1. CASE Start
    BY <2>1 DEF Start, IInv, StoppedIsJoined
  <2>2. CASE Stop \/ StopStep
    BY <2>2 DEF Stop, StopStep, StopShutdown, StopClose, StopJoin
  <2>3. CASE ReaderStep
    BY <2>3 DEF ReaderStep, ReaderCheck, ReaderCall, RecvData, RecvEnd, Dispatch
  <2>4. CASE ServerClose
    BY <2>4 DEF ServerClose
  <2>5. ASSUME NEW k \in Kinds, ServerSend(k) \/ SendLine(k) PROVE ~thread
    BY <2>5 DEF ServerSend, SendLine
  <2>6. QED
    BY <2>1, <2>2, <2>3, <2>4, <2>5 DEF Next
<1>2. QED
  BY ReaderInvariant, <1>1, PTL DEF Spec, OneReader

-----------------------------------------------------------------------------
(* The client implements the safety part of MessageStream.                 *)

Bytes == Kinds \cup {NL}
LineSet == {Line(k) : k \in Kinds}

\* While Stop is under way running_ is not set, and only a connection that was
\* made is open.
Stopping == owner # "idle" => ~running
Made == conns \in Nat /\ (~closed => conns # 0)
Control == IInv /\ Stopping /\ Made

\* The bytes that have arrived and are not dispatched: the reader's buf, then what
\* recv has not returned.
Left(b, w) ==
  [i \in 1..(Len(b) + Len(w)) |-> IF i <= Len(b) THEN b[i] ELSE w[i - Len(b)]]

\* Function u of size m is n whole lines ...
Whole(u, m, n) ==
  /\ m = 3 * n
  /\ \A i \in 0..(n - 1) : /\ u[3 * i + 1] \in Kinds /\ u[3 * i + 2] = u[3 * i + 1]
                           /\ u[3 * i + 3] = NL
\* ... that bring the number of delivered messages from g to Len(d), and those of
\* them that are for a callback are the messages of d from g + 1 on; f[i] is the
\* number after i lines.
Tally(u, n, f, g, d) ==
  /\ f[0] = g /\ f[n] = Len(d)
  /\ \A i \in 0..(n - 1) :
       IF u[3 * i + 1] \in Delivered
         THEN /\ f[i + 1] = f[i] + 1 /\ f[i] < Len(d)
              /\ d[f[i] + 1] = Line(u[3 * i + 1])
         ELSE f[i + 1] = f[i]
\* Sequence q with the line of a message of kind k, if that is for a callback.
With(q, k) == IF k \in Delivered THEN Append(q, Line(k)) ELSE q
Remaining(b, w, g, d) ==
  \E n \in Nat : \E f \in [0..n -> Nat] :
    Whole(Left(b, w), Len(b) + Len(w), n) /\ Tally(Left(b, w), n, f, Len(g), d)

\* Wherever recv cuts, what is left is the lines whose messages are due.
Buffers ==
  /\ buf \in Seq(Bytes) /\ wire \in Seq(Bytes)
  /\ got \in Seq(LineSet) /\ due \in Seq(LineSet)
  /\ Remaining(buf, wire, got, due)

StreamInv == Control /\ Buffers

\* Sequences have a length and are functions on the positions up to it.
LEMMA SeqLength ==
  ASSUME NEW S, NEW q \in Seq(S)
  PROVE  Len(q) \in Nat /\ DOMAIN q = 1..Len(q) /\ \A i \in 1..Len(q) : q[i] \in S
  OBVIOUS

\* A part of a sequence.
LEMMA Part ==
  ASSUME NEW S, NEW q \in Seq(S), NEW m \in Nat, NEW n \in Nat, 1 <= m, m <= n + 1, n <= Len(q)
  PROVE  /\ SubSeq(q, m, n) \in Seq(S) /\ Len(SubSeq(q, m, n)) = n - m + 1
         /\ \A i \in 1..(n - m + 1) : SubSeq(q, m, n)[i] = q[m + i - 1]
  OBVIOUS

\* One sequence behind another.
LEMMA Joined ==
  ASSUME NEW S, NEW q \in Seq(S), NEW r \in Seq(S)
  PROVE  /\ q \o r \in Seq(S) /\ Len(q \o r) = Len(q) + Len(r)
         /\ \A i \in 1..(Len(q) + Len(r)) :
              (q \o r)[i] = IF i <= Len(q) THEN q[i] ELSE r[i - Len(q)]
  OBVIOUS

\* A line is its kind, twice, and a newline; neither is the other.
LEMMA LineBytes ==
  ASSUME NEW k \in Kinds
  PROVE  /\ Line(k) \in Seq(Bytes) /\ Line(k) \in LineSet /\ Len(Line(k)) = 3
         /\ Line(k)[1] = k /\ Line(k)[2] = k /\ Line(k)[3] = NL /\ k # NL
  BY SignalingAssumption DEF Line, LineSet, Bytes

-----------------------------------------------------------------------------
(* The control of the client.                                              *)

\* A new client.
LEMMA ControlInit == Init => Control
  BY ReaderInit DEF Init, Control, Stopping, Made

\* Every step keeps it.
LEMMA ControlStep == Control /\ [Next]_vars => Control'
<1> SUFFICES ASSUME Control, [Next]_vars PROVE Stopping' /\ Made'
  BY ReaderInvariantStep DEF Control
<1> USE DEF Control, Stopping, Made, socket
<1>1. CASE Start
  BY <1>1 DEF Start
<1>2. CASE Stop
  BY <1>2 DEF Stop
<1>3. CASE StopStep
  BY <1>3 DEF StopStep, StopShutdown, StopClose, StopJoin
<1>4. CASE ReaderStep
  BY <1>4 DEF ReaderStep, ReaderCheck, ReaderCall, RecvData, RecvEnd, Dispatch
<1>5. CASE ServerClose
  BY <1>5 DEF ServerClose
<1>6. ASSUME NEW k \in Kinds, ServerSend(k) \/ SendLine(k) PROVE Stopping' /\ Made'
  BY <1>6 DEF ServerSend, SendLine
<1>7. CASE UNCHANGED vars
  BY <1>7 DEF vars
<1>8. QED
  BY <1>1, <1>2, <1>3, <1>4, <1>5, <1>6, <1>7 DEF Next

-----------------------------------------------------------------------------
(* What is left to dispatch.                                               *)

\* On a new connection nothing is left.
LEMMA NothingLeft == Remaining(<<>>, <<>>, <<>>, <<>>)
<1> DEFINE f == [i \in 0..0 |-> 0]
<1>1. f \in [0..0 -> Nat] /\ f[0] = 0 /\ Len(<<>>) = 0
  OBVIOUS
<1>2. Whole(Left(<<>>, <<>>), Len(<<>>) + Len(<<>>), 0)
  BY <1>1 DEF Whole
<1>3. Tally(Left(<<>>, <<>>), 0, f, Len(<<>>), <<>>)
  BY <1>1 DEF Tally
<1>4. QED
  BY <1>1, <1>2, <1>3 DEF Remaining

\* recv moves bytes from the socket to the buffer, wherever it cuts.
LEMMA LeftReceived ==
  ASSUME NEW b \in Seq(Bytes), NEW w \in Seq(Bytes), NEW n \in 1..Len(w)
  PROVE  LET c == b \o SubSeq(w, 1, n)
             v == SubSeq(w, n + 1, Len(w))
         IN  /\ c \in Seq(Bytes) /\ v \in Seq(Bytes)
             /\ Len(c) + Len(v) = Len(b) + Len(w) /\ Left(c, v) = Left(b, w)
<1> DEFINE h == SubSeq(w, 1, n)
           v == SubSeq(w, n + 1, Len(w))
           c == b \o h
<1>1. Len(b) \in Nat /\ Len(w) \in Nat /\ n \in Nat /\ n <= Len(w) /\ 1 <= n
  BY SeqLength
<1>2. h \in Seq(Bytes) /\ Len(h) = n /\ \A i \in 1..n : h[i] = w[i]
  BY <1>1, Part
<1>3. v \in Seq(Bytes) /\ Len(v) = Len(w) - n /\ \A i \in 1..(Len(w) - n) : v[i] = w[n + i]
  BY <1>1, Part
<1>4. /\ c \in Seq(Bytes) /\ Len(c) = Len(b) + n
      /\ \A i \in 1..(Len(b) + n) : c[i] = IF i <= Len(b) THEN b[i] ELSE h[i - Len(b)]
  BY <1>2, Joined
<1> HIDE DEF h, v, c
<1>5. Len(c) + Len(v) = Len(b) + Len(w)
  BY <1>1, <1>3, <1>4
<1>6. ASSUME NEW i \in 1..(Len(b) + Len(w))
      PROVE  (IF i <= Len(c) THEN c[i] ELSE v[i - Len(c)])
               = (IF i <= Len(b) THEN b[i] ELSE w[i - Len(b)])
  <2>1. CASE i <= Len(b)
    BY <1>1, <1>4, <2>1
  <2>2. CASE ~(i <= Len(b)) /\ i <= Len(b) + n
    <3>1. i - Len(b) \in 1..n /\ i \in 1..(Len(b) + n)
      BY <1>1, <2>2
    <3>2. QED
      BY <1>2, <1>4, <2>2, <3>1
  <2>3. CASE ~(i <= Len(b) + n)
    <3>1. i - Len(c) \in 1..(Len(w) - n) /\ n + (i - Len(c)) = i - Len(b) /\ ~(i <= Len(b))
      BY <1>1, <1>4, <2>3
    <3>2. v[i - Len(c)] = w[i - Len(b)]
      BY <1>3, <3>1
    <3>3. QED
      BY <1>4, <2>3, <3>1, <3>2
  <2>4. QED
    BY <2>1, <2>2, <2>3
<1>7. Left(c, v) = Left(b, w)
  BY <1>5, <1>6 DEF Left
<1>8. QED
  BY <1>3, <1>4, <1>5, <1>7 DEF h, v, c

\* A line arrives behind what is left.
LEMMA LeftSent ==
  ASSUME NEW b \in Seq(Bytes), NEW w \in Seq(Bytes), NEW k \in Kinds
  PROVE  LET v == w \o Line(k)
             m == Len(b) + Len(w)
         IN  /\ v \in Seq(Bytes) /\ Len(b) + Len(v) = m + 3 /\ m \in Nat
             /\ \A i \in 1..m : Left(b, v)[i] = Left(b, w)[i]
             /\ Left(b, v)[m + 1] = k /\ Left(b, v)[m + 2] = k /\ Left(b, v)[m + 3] = NL
<1> DEFINE v == w \o Line(k)
           m == Len(b) + Len(w)
<1>1. Len(b) \in Nat /\ Len(w) \in Nat /\ m \in Nat
  BY SeqLength
<1>2. /\ v \in Seq(Bytes) /\ Len(v) = Len(w) + 3
      /\ \A i \in 1..(Len(w) + 3) : v[i] = IF i <= Len(w) THEN w[i] ELSE Line(k)[i - Len(w)]
  <2>1. Line(k) \in Seq(Bytes) /\ Len(Line(k)) = 3
    BY Zenon, LineBytes
  <2>2. /\ v \in Seq(Bytes) /\ Len(v) = Len(w) + Len(Line(k))
        /\ \A i \in 1..(Len(w) + Len(Line(k))) :
             v[i] = IF i <= Len(w) THEN w[i] ELSE Line(k)[i - Len(w)]
    BY Zenon, <2>1, Joined
  <2>3. QED
    BY Zenon, <2>1, <2>2
<1>3. /\ \A i \in 1..Len(w) : v[i] = w[i]
      /\ v[Len(w) + 1] = k /\ v[Len(w) + 2] = k /\ v[Len(w) + 3] = NL
  <2>1. /\ \A i \in 1..Len(w) : i \in 1..(Len(w) + 3) /\ i <= Len(w)
        /\ \A j \in {1, 2, 3} : /\ Len(w) + j \in 1..(Len(w) + 3) /\ ~(Len(w) + j <= Len(w))
                                /\ (Len(w) + j) - Len(w) = j
    BY <1>1
  <2>2. QED
    BY <1>2, <2>1, LineBytes
<1> HIDE DEF v
<1>4. \A i \in 1..(Len(b) + Len(v)) :
        Left(b, v)[i] = IF i <= Len(b) THEN b[i] ELSE v[i - Len(b)]
  BY DEF Left
<1>5. \A i \in 1..m : Left(b, w)[i] = IF i <= Len(b) THEN b[i] ELSE w[i - Len(b)]
  BY DEF Left
<1>6. \A i \in 1..m : Left(b, v)[i] = Left(b, w)[i]
  <2> TAKE i \in 1..m
  <2>1. i \in 1..(Len(b) + Len(v)) /\ (i <= Len(b) \/ i - Len(b) \in 1..Len(w))
    BY <1>1, <1>2
  <2>2. QED
    BY <1>3, <1>4, <1>5, <2>1
<1>7. Left(b, v)[m + 1] = k /\ Left(b, v)[m + 2] = k /\ Left(b, v)[m + 3] = NL
  <2>1. \A j \in {1, 2, 3} : /\ m + j \in 1..(Len(b) + Len(v)) /\ ~(m + j <= Len(b))
                             /\ (m + j) - Len(b) = Len(w) + j
    BY <1>1, <1>2
  <2>2. QED
    BY <1>3, <1>4, <2>1
<1>8. QED
  BY <1>1, <1>2, <1>6, <1>7 DEF v

\* The first three bytes are cut off the buffer.
LEMMA LeftCut ==
  ASSUME NEW b \in Seq(Bytes), NEW w \in Seq(Bytes), 3 <= Len(b)
  PROVE  LET c == SubSeq(b, 4, Len(b))
             m == Len(c) + Len(w)
         IN  /\ c \in Seq(Bytes) /\ m \in Nat /\ Len(b) + Len(w) = m + 3
             /\ \A i \in 1..m : Left(c, w)[i] = Left(b, w)[i + 3]
<1> DEFINE c == SubSeq(b, 4, Len(b))
           m == Len(c) + Len(w)
<1>1. Len(b) \in Nat /\ Len(w) \in Nat
  BY SeqLength
<1>2. c \in Seq(Bytes) /\ Len(c) = Len(b) - 3 /\ \A i \in 1..(Len(b) - 3) : c[i] = b[i + 3]
  <2>1. 4 \in Nat /\ 1 <= 4 /\ 4 <= Len(b) + 1 /\ Len(b) <= Len(b) /\ Len(b) - 4 + 1 = Len(b) - 3
    BY <1>1
  <2>2. c \in Seq(Bytes) /\ Len(c) = Len(b) - 3 /\ \A i \in 1..(Len(b) - 3) : c[i] = b[4 + i - 1]
    <3>1. /\ c \in Seq(Bytes) /\ Len(c) = Len(b) - 4 + 1
          /\ \A i \in 1..(Len(b) - 4 + 1) : c[i] = b[4 + i - 1]
      BY <1>1, <2>1, Part
    <3>2. QED
      BY Zenon, <2>1, <3>1
  <2>3. \A i \in 1..(Len(b) - 3) : 4 + i - 1 = i + 3
    BY <1>1
  <2>4. QED
    BY Zenon, <2>2, <2>3
<1> HIDE DEF c
<1>3. m \in Nat /\ Len(b) + Len(w) = m + 3
  BY <1>1, <1>2
<1>4. \A i \in 1..m : Left(c, w)[i] = IF i <= Len(c) THEN c[i] ELSE w[i - Len(c)]
  BY DEF Left
<1>5. \A i \in 1..(Len(b) + Len(w)) :
        Left(b, w)[i] = IF i <= Len(b) THEN b[i] ELSE w[i - Len(b)]
  BY DEF Left
<1>6. \A i \in 1..m : Left(c, w)[i] = Left(b, w)[i + 3]
  <2> TAKE i \in 1..m
  <2>1. i + 3 \in 1..(Len(b) + Len(w)) /\ (i <= Len(c) <=> i + 3 <= Len(b))
    BY <1>1, <1>2, <1>3
  <2>2. CASE i <= Len(c)
    <3>1. i \in 1..(Len(b) - 3)
      BY <1>2, <2>2
    <3>2. QED
      BY <1>2, <1>4, <1>5, <2>1, <2>2, <3>1
  <2>3. CASE ~(i <= Len(c))
    <3>1. (i + 3) - Len(b) = i - Len(c)
      BY <1>1, <1>2
    <3>2. QED
      BY <1>4, <1>5, <2>1, <2>3, <3>1
  <2>4. QED
    BY <2>2, <2>3
<1>7. QED
  BY <1>2, <1>3, <1>6 DEF c

\* A line that is sent is left behind the others, and its message is due if it is for
\* a callback.
LEMMA RemainingSent ==
  ASSUME NEW b \in Seq(Bytes), NEW w \in Seq(Bytes), NEW g \in Seq(LineSet),
         NEW d \in Seq(LineSet), NEW k \in Kinds, NEW e,
         e = With(d, k), Remaining(b, w, g, d)
  PROVE  e \in Seq(LineSet) /\ Remaining(b, w \o Line(k), g, e)
<1> DEFINE m == Len(b) + Len(w)
           v == w \o Line(k)
           u == Left(b, w)
           t == Left(b, v)
<1>0. PICK n \in Nat : \E f \in [0..n -> Nat] : Whole(u, m, n) /\ Tally(u, n, f, Len(g), d)
  BY Zenon DEF Remaining
<1>1. PICK f \in [0..n -> Nat] : Whole(u, m, n) /\ Tally(u, n, f, Len(g), d)
  BY Zenon, <1>0
<1>2. /\ Len(b) + Len(v) = m + 3 /\ m \in Nat /\ \A i \in 1..m : t[i] = u[i]
      /\ t[m + 1] = k /\ t[m + 2] = k /\ t[m + 3] = NL
  BY LeftSent
<1>3. /\ e \in Seq(LineSet) /\ Len(d) \in Nat /\ \A i \in 1..Len(d) : e[i] = d[i]
      /\ k \in Delivered => Len(e) = Len(d) + 1 /\ e[Len(d) + 1] = Line(k)
      /\ k \notin Delivered => Len(e) = Len(d)
  <2>1. Line(k) \in LineSet
    BY Zenon, LineBytes
  <2> HIDE DEF m, v, u, t
  <2>2. CASE k \in Delivered
    BY <2>1, <2>2 DEF With
  <2>3. CASE k \notin Delivered
    BY <2>3 DEF With
  <2>4. QED
    BY Zenon, <2>2, <2>3
<1> DEFINE h == [i \in 0..(n + 1) |-> IF i <= n THEN f[i] ELSE Len(e)]
<1> HIDE DEF m, v, u, t
<1>4. Len(e) \in Nat /\ m = 3 * n /\ Len(b) + Len(v) = 3 * (n + 1)
  BY <1>1, <1>2, <1>3, SeqLength DEF Whole
<1>5. /\ h \in [0..(n + 1) -> Nat] /\ h[n + 1] = Len(e)
      /\ \A i \in 0..n : h[i] = f[i]
  BY <1>4
<1> HIDE DEF h
<1>6. Whole(t, Len(b) + Len(v), n + 1)
  <2> SUFFICES ASSUME NEW i \in 0..n
               PROVE  /\ t[3 * i + 1] \in Kinds /\ t[3 * i + 2] = t[3 * i + 1]
                      /\ t[3 * i + 3] = NL
    BY <1>4 DEF Whole
  <2>1. CASE i = n
    <3>1. 3 * i + 1 = m + 1 /\ 3 * i + 2 = m + 2 /\ 3 * i + 3 = m + 3
      BY <1>4, <2>1
    <3>2. QED
      BY Zenon, <1>2, <3>1
  <2>2. CASE i # n
    <3>1. /\ i \in 0..(n - 1) /\ 3 * i + 1 \in 1..m /\ 3 * i + 2 \in 1..m
          /\ 3 * i + 3 \in 1..m
      BY <1>4, <2>2
    <3>2. QED
      BY Zenon, <1>1, <1>2, <3>1 DEF Whole
  <2>3. QED
    BY Zenon, <2>1, <2>2
<1>7. Tally(t, n + 1, h, Len(g), e)
  <2>1. h[0] = Len(g) /\ h[n + 1] = Len(e)
    <3>1. 0 \in 0..n
      OBVIOUS
    <3>2. QED
      BY Zenon, <1>1, <1>5, <3>1 DEF Tally
  <2> SUFFICES ASSUME NEW i \in 0..n
               PROVE  IF t[3 * i + 1] \in Delivered
                        THEN /\ h[i + 1] = h[i] + 1 /\ h[i] < Len(e)
                             /\ e[h[i] + 1] = Line(t[3 * i + 1])
                        ELSE h[i + 1] = h[i]
    <3>1. (n + 1) - 1 = n
      OBVIOUS
    <3>2. QED
      BY Zenon, <2>1, <3>1 DEF Tally
  <2>2. CASE i = n
    <3>1. t[3 * i + 1] = k
      BY Zenon, <1>2, <1>4, <2>2
    <3>2. h[i] = Len(d) /\ h[i + 1] = Len(e)
      BY Zenon, <1>1, <1>5, <2>2 DEF Tally
    <3>3. QED
      BY <1>3, <3>1, <3>2
  <2>3. CASE i # n
    <3>1. i \in 0..(n - 1) /\ i + 1 \in 0..n /\ 3 * i + 1 \in 1..m
      BY <1>4, <2>3
    <3>2. t[3 * i + 1] = u[3 * i + 1] /\ h[i] = f[i] /\ h[i + 1] = f[i + 1]
      BY Zenon, <1>2, <1>5, <3>1
    <3>3. IF u[3 * i + 1] \in Delivered
            THEN /\ f[i + 1] = f[i] + 1 /\ f[i] < Len(d)
                 /\ d[f[i] + 1] = Line(u[3 * i + 1])
            ELSE f[i + 1] = f[i]
      BY Zenon, <1>1, <3>1 DEF Tally
    <3>4. f[i] \in Nat
      OBVIOUS
    <3>5. f[i] < Len(d) => f[i] < Len(e) /\ e[f[i] + 1] = d[f[i] + 1]
      <4>1. Len(d) \in Nat /\ (Len(e) = Len(d) \/ Len(e) = Len(d) + 1)
        BY Zenon, <1>3
      <4>2. f[i] < Len(d) => f[i] < Len(e) /\ f[i] + 1 \in 1..Len(d)
        BY <3>4, <4>1
      <4>3. QED
        BY Zenon, <1>3, <4>2
    <3>6. QED
      BY Zenon, <3>2, <3>3, <3>5
  <2>4. QED
    BY Zenon, <2>2, <2>3
<1>8. Remaining(b, v, g, e)
  <2>1. n + 1 \in Nat
    OBVIOUS
  <2>2. QED
    BY Zenon, <1>5, <1>6, <1>7, <2>1 DEF Remaining, t
<1>9. QED
  BY Zenon, <1>3, <1>8 DEF v

\* A newline in the buffer ends the first of the lines that are left.
LEMMA FirstLine ==
  ASSUME NEW b \in Seq(Bytes), NEW w \in Seq(Bytes), NEW n \in Nat,
         Whole(Left(b, w), Len(b) + Len(w), n), NEW j \in 1..Len(b), b[j] = NL
  PROVE  /\ 3 <= Len(b) /\ 1 <= n
         /\ b[1] \in Kinds /\ b[1] # NL /\ b[2] = b[1] /\ b[3] = NL
<1> DEFINE u == Left(b, w)
<1>1. Len(b) \in Nat /\ Len(w) \in Nat
  BY SeqLength
<1>2. \A i \in 1..Len(b) : u[i] = b[i]
  BY <1>1 DEF Left
<1> HIDE DEF u
<1>3. 1 <= n
  BY <1>1 DEF Whole
<1>4. u[1] \in Kinds /\ u[2] = u[1] /\ u[3] = NL
  <2>1. 0 \in 0..(n - 1) /\ 3 * 0 + 1 = 1 /\ 3 * 0 + 2 = 2 /\ 3 * 0 + 3 = 3
    BY <1>3
  <2>2. QED
    BY Zenon, <2>1 DEF Whole, u
<1>5. u[1] # NL
  BY Zenon, <1>4, SignalingAssumption
<1>6. j # 1 /\ j # 2
  BY Zenon, <1>2, <1>4, <1>5
<1>7. 3 <= Len(b) /\ 1 \in 1..Len(b) /\ 2 \in 1..Len(b) /\ 3 \in 1..Len(b)
  BY <1>1, <1>6
<1>8. QED
  BY Zenon, <1>2, <1>3, <1>4, <1>5, <1>7

\* The first line is cut off; its message, if it is for a callback, is the next that is
\* due.
LEMMA RemainingCut ==
  ASSUME NEW b \in Seq(Bytes), NEW w \in Seq(Bytes), NEW g \in Seq(LineSet),
         NEW d \in Seq(LineSet), NEW j \in 1..Len(b), b[j] = NL, NEW h,
         h = With(g, b[1]), Remaining(b, w, g, d)
  PROVE  /\ SubSeq(b, 4, Len(b)) \in Seq(Bytes) /\ h \in Seq(LineSet)
         /\ Remaining(SubSeq(b, 4, Len(b)), w, h, d)
         /\ 3 <= Len(b) /\ b[1] \in Kinds /\ b[1] # NL /\ b[2] = b[1] /\ b[3] = NL
         /\ b[1] \in Delivered => Len(g) < Len(d) /\ d[Len(g) + 1] = Line(b[1])
<1> DEFINE m == Len(b) + Len(w)
           c == SubSeq(b, 4, Len(b))
           u == Left(b, w)
           t == Left(c, w)
<1>0. PICK n \in Nat : \E f \in [0..n -> Nat] : Whole(u, m, n) /\ Tally(u, n, f, Len(g), d)
  BY Zenon DEF Remaining
<1>1. PICK f \in [0..n -> Nat] : Whole(u, m, n) /\ Tally(u, n, f, Len(g), d)
  BY Zenon, <1>0
<1>2. /\ 3 <= Len(b) /\ 1 <= n
      /\ b[1] \in Kinds /\ b[1] # NL /\ b[2] = b[1] /\ b[3] = NL
  BY Zenon, <1>1, FirstLine
<1>3. /\ c \in Seq(Bytes) /\ Len(c) + Len(w) \in Nat /\ m = (Len(c) + Len(w)) + 3
      /\ \A i \in 1..(Len(c) + Len(w)) : t[i] = u[i + 3]
  BY Zenon, <1>2, LeftCut
<1>4. u[1] = b[1]
  BY <1>2, SeqLength DEF Left
<1> HIDE DEF m, c, u, t
<1>5. Len(c) + Len(w) = 3 * (n - 1) /\ n - 1 \in Nat
  <2>1. m = 3 * n
    BY Zenon, <1>1 DEF Whole
  <2>2. PICK q \in Nat : q = Len(c) + Len(w)
    BY Zenon, <1>3
  <2>3. q + 3 = 3 * n /\ 1 <= n
    BY Zenon, <1>2, <1>3, <2>1, <2>2
  <2>4. q = 3 * (n - 1) /\ n - 1 \in Nat
    BY <2>3
  <2>5. QED
    BY Zenon, <2>2, <2>4
<1>6. /\ f[0] = Len(g)
      /\ IF b[1] \in Delivered
           THEN f[1] = f[0] + 1 /\ f[0] < Len(d) /\ d[f[0] + 1] = Line(b[1])
           ELSE f[1] = f[0]
  <2>1. 0 \in 0..(n - 1) /\ 3 * 0 + 1 = 1 /\ 0 + 1 = 1
    BY <1>2
  <2>2. QED
    BY Zenon, <1>1, <1>4, <2>1 DEF Tally
<1>7. h \in Seq(LineSet) /\ Len(h) = f[1]
  <2>1. Line(b[1]) \in LineSet
    BY Zenon, <1>2, LineBytes
  <2>2. CASE b[1] \in Delivered
    <3>1. h = Append(g, Line(b[1])) /\ f[1] = Len(g) + 1
      BY Zenon, <1>6, <2>2 DEF With
    <3>2. QED
      BY <2>1, <3>1
  <2>3. CASE b[1] \notin Delivered
    BY Zenon, <1>6, <2>3 DEF With
  <2>4. QED
    BY Zenon, <2>2, <2>3
<1> DEFINE e == [i \in 0..(n - 1) |-> f[i + 1]]
<1>8. e \in [0..(n - 1) -> Nat] /\ \A i \in 0..(n - 1) : e[i] = f[i + 1]
  OBVIOUS
<1> HIDE DEF e
<1>9. Whole(t, Len(c) + Len(w), n - 1)
  <2> SUFFICES ASSUME NEW i \in 0..((n - 1) - 1)
               PROVE  /\ t[3 * i + 1] \in Kinds /\ t[3 * i + 2] = t[3 * i + 1]
                      /\ t[3 * i + 3] = NL
    BY <1>5 DEF Whole
  <2>1. /\ i + 1 \in 0..(n - 1)
        /\ 3 * i + 1 \in 1..(Len(c) + Len(w)) /\ 3 * (i + 1) + 1 = (3 * i + 1) + 3
        /\ 3 * i + 2 \in 1..(Len(c) + Len(w)) /\ 3 * (i + 1) + 2 = (3 * i + 2) + 3
        /\ 3 * i + 3 \in 1..(Len(c) + Len(w)) /\ 3 * (i + 1) + 3 = (3 * i + 3) + 3
    BY <1>5
  <2>2. QED
    BY Zenon, <1>1, <1>3, <2>1 DEF Whole
<1>10. Tally(t, n - 1, e, Len(h), d)
  <2>1. e[0] = Len(h) /\ e[n - 1] = Len(d)
    <3>1. 0 \in 0..(n - 1) /\ n - 1 \in 0..(n - 1) /\ 0 + 1 = 1 /\ (n - 1) + 1 = n
      BY <1>2
    <3>2. QED
      BY Zenon, <1>1, <1>7, <1>8, <3>1 DEF Tally
  <2> SUFFICES ASSUME NEW i \in 0..((n - 1) - 1)
               PROVE  IF t[3 * i + 1] \in Delivered
                        THEN /\ e[i + 1] = e[i] + 1 /\ e[i] < Len(d)
                             /\ d[e[i] + 1] = Line(t[3 * i + 1])
                        ELSE e[i + 1] = e[i]
    BY Zenon, <2>1 DEF Tally
  <2>2. /\ i \in 0..(n - 1) /\ i + 1 \in 0..(n - 1)
        /\ 3 * i + 1 \in 1..(Len(c) + Len(w)) /\ 3 * (i + 1) + 1 = (3 * i + 1) + 3
    BY <1>5
  <2>3. t[3 * i + 1] = u[3 * (i + 1) + 1] /\ e[i] = f[i + 1] /\ e[i + 1] = f[(i + 1) + 1]
    <3>1. e[i] = f[i + 1] /\ e[i + 1] = f[(i + 1) + 1]
      BY Zenon, <1>8, <2>2
    <3>2. t[3 * i + 1] = u[(3 * i + 1) + 3]
      BY Zenon, <1>3, <2>2
    <3>3. QED
      BY Zenon, <2>2, <3>1, <3>2
  <2>4. QED
    BY Zenon, <1>1, <2>2, <2>3 DEF Tally
<1>11. Remaining(c, w, h, d)
  BY Zenon, <1>5, <1>8, <1>9, <1>10 DEF Remaining, t
<1>12. QED
  BY Zenon, <1>2, <1>3, <1>6, <1>7, <1>11 DEF c

\* The search for the newline finds the end of the first line.
LEMMA FirstNewline ==
  ASSUME buf \in Seq(Bytes), 3 <= Len(buf), buf[1] # NL, buf[2] # NL, buf[3] = NL
  PROVE  LineEnd = 3
<1> DEFINE I == {i \in 1..Len(buf) : buf[i] = NL}
           x == CHOOSE y \in I : \A z \in I : y =< z
<1>1. LineEnd = IF I # {} THEN x ELSE 0
  BY DEF LineEnd, SelectInSeq, Min
<1>2. 3 \in I /\ \A z \in I : 3 =< z
  BY SeqLength
<1>3. x \in I /\ \A z \in I : x =< z
  BY Zenon, <1>2
<1>4. x \in 1..Len(buf) /\ x =< 3
  BY Zenon, <1>2, <1>3
<1> HIDE DEF I, x
<1>5. x = 3
  <2>1. 3 =< x
    BY Zenon, <1>2, <1>3
  <2>2. QED
    BY <1>4, <2>1
<1>6. QED
  BY Zenon, <1>1, <1>2, <1>5

-----------------------------------------------------------------------------
(* Every step keeps the invariant and is a step of the stream.             *)

\* A line is dispatched.
LEMMA LineDispatched ==
  ASSUME Buffers, Dispatch, HasLine
  PROVE  /\ Buffers'
         /\ got' = got \/ (Len(got) < Len(due) /\ got' = Append(got, due[Len(got) + 1]))
<1>1. buf \in Seq(Bytes) /\ wire \in Seq(Bytes) /\ got \in Seq(LineSet) /\ due \in Seq(LineSet)
  BY Zenon DEF Buffers
<1>2. PICK j \in 1..Len(buf) : buf[j] = NL
  BY <1>1 DEF HasLine, ToSet
<1> DEFINE h == With(got, buf[1])
<1>3. /\ SubSeq(buf, 4, Len(buf)) \in Seq(Bytes) /\ h \in Seq(LineSet)
      /\ Remaining(SubSeq(buf, 4, Len(buf)), wire, h, due)
      /\ 3 <= Len(buf) /\ buf[1] \in Kinds /\ buf[1] # NL /\ buf[2] = buf[1] /\ buf[3] = NL
      /\ buf[1] \in Delivered => Len(got) < Len(due) /\ due[Len(got) + 1] = Line(buf[1])
  <2>1. Remaining(buf, wire, got, due)
    BY Zenon DEF Buffers
  <2>2. QED
    BY <1>1, <1>2, <2>1, RemainingCut
<1>4. LineEnd = 3
  BY Zenon, <1>1, <1>3, FirstNewline
<1>5. Head(buf) = buf[1] /\ 3 + 1 = 4
  BY <1>1, <1>3
<1>6. SubSeq(buf, 1, 3) = Line(buf[1])
  <2> DEFINE s == SubSeq(buf, 1, 3)
  <2>1. s \in Seq(Bytes) /\ Len(s) = 3 /\ s[1] = buf[1] /\ s[2] = buf[2] /\ s[3] = buf[3]
    BY <1>1, <1>3
  <2> HIDE DEF s
  <2>2. s = <<s[1], s[2], s[3]>>
    BY <2>1
  <2>3. QED
    BY Zenon, <1>3, <2>1, <2>2 DEF Line, s
<1>7. buf' = SubSeq(buf, 4, Len(buf)) /\ got' = h /\ UNCHANGED <<wire, due>>
  BY Zenon, <1>4, <1>5, <1>6 DEF Dispatch, socket, With
<1>8. Buffers'
  BY Zenon, <1>1, <1>3, <1>7 DEF Buffers
<1>9. QED
  BY Zenon, <1>3, <1>7, <1>8 DEF With

\* Every other step: bytes come and are received, or nothing of this changes.
LEMMA BuffersStep == Buffers /\ [Next]_vars => Buffers'
<1> SUFFICES ASSUME Buffers, [Next]_vars PROVE Buffers'
  OBVIOUS
<1>1. CASE UNCHANGED <<buf, wire, got, due>>
  BY Zenon, <1>1 DEF Buffers
<1>2. CASE Start
  <2>1. buf' = <<>> /\ wire' = <<>> /\ got' = <<>> /\ due' = <<>>
    BY Zenon, <1>2 DEF Start
  <2>2. <<>> \in Seq(Bytes) /\ <<>> \in Seq(LineSet)
    OBVIOUS
  <2>3. QED
    BY Zenon, <2>1, <2>2, NothingLeft DEF Buffers
<1>3. CASE RecvData
  <2>1. PICK n \in 1..Len(wire) : /\ buf' = buf \o SubSeq(wire, 1, n)
                                  /\ wire' = SubSeq(wire, n + 1, Len(wire))
    BY Zenon, <1>3 DEF RecvData
  <2>2. UNCHANGED <<got, due>>
    BY Zenon, <1>3 DEF RecvData
  <2>3. /\ buf' \in Seq(Bytes) /\ wire' \in Seq(Bytes)
        /\ Len(buf') + Len(wire') = Len(buf) + Len(wire) /\ Left(buf', wire') = Left(buf, wire)
    BY Zenon, <2>1, LeftReceived DEF Buffers
  <2>4. Remaining(buf', wire', got, due)
    BY Zenon, <2>3 DEF Buffers, Remaining
  <2>5. QED
    BY Zenon, <2>2, <2>3, <2>4 DEF Buffers
<1>4. CASE Dispatch
  <2>1. CASE HasLine
    BY Zenon, <1>4, <2>1, LineDispatched
  <2>2. CASE ~HasLine
    BY Zenon, <1>1, <1>4, <2>2 DEF Dispatch, socket
  <2>3. QED
    BY Zenon, <2>1, <2>2
<1>5. ASSUME NEW k \in Kinds, ServerSend(k) PROVE Buffers'
  <2>1. due' = With(due, k) /\ wire' = wire \o Line(k) /\ UNCHANGED <<buf, got>>
    BY Zenon, <1>5 DEF ServerSend, With
  <2>2. /\ due' \in Seq(LineSet) /\ Remaining(buf, wire \o Line(k), got, due')
    BY Zenon, <2>1, RemainingSent DEF Buffers
  <2>3. wire \o Line(k) \in Seq(Bytes)
    BY Zenon, LineBytes, Joined DEF Buffers
  <2>4. QED
    BY Zenon, <2>1, <2>2, <2>3 DEF Buffers
<1>6. CASE Stop \/ StopStep \/ ReaderCheck \/ ReaderCall \/ RecvEnd \/ ServerClose
  BY Zenon, <1>1, <1>6 DEF Stop, StopStep, StopShutdown, StopClose, StopJoin, ReaderCheck,
     ReaderCall, RecvEnd, ServerClose, socket
<1>7. ASSUME NEW k \in Kinds, SendLine(k) PROVE Buffers'
  BY Zenon, <1>1, <1>7 DEF SendLine, socket
<1>8. CASE UNCHANGED vars
  BY Zenon, <1>1, <1>8 DEF vars, socket
<1>9. QED
  BY Zenon, <1>2, <1>3, <1>4, <1>5, <1>6, <1>7, <1>8 DEF Next, ReaderStep

\* Start opens the stream, Stop closes it from clearing running_ to the join, a
\* dispatched line is the delivery of the next message, and no other step of the
\* two threads is seen.
LEMMA StreamStep == StreamInv /\ [Next]_vars => [Stream!Next]_(Stream!vars)
<1> SUFFICES ASSUME StreamInv, [Next]_vars PROVE [Stream!Next]_(Stream!vars)
  OBVIOUS
<1>1. CASE UNCHANGED <<owner, running, conns, got, due>>
  BY <1>1 DEF Stream!vars, Phase
<1>2. CASE Start
  BY <1>2 DEF Start, Stream!Next, Stream!Open, Phase
<1>3. CASE Stop
  BY <1>3 DEF Stop, Stream!Next, Stream!Close, Phase, socket
<1>4. CASE StopShutdown \/ StopClose
  BY <1>4 DEF StopShutdown, StopClose, Stream!vars, Phase, StreamInv, Control, Stopping
<1>5. CASE StopJoin
  BY <1>5 DEF StopJoin, Stream!Next, Stream!Closed, Phase, StreamInv, Control, Stopping, socket
<1>6. CASE Dispatch
  <2>1. UNCHANGED <<owner, running, conns, due>> /\ reader = "dispatch"
    BY Zenon, <1>6 DEF Dispatch, socket
  <2>2. CASE got' = got
    BY Zenon, <1>1, <2>1, <2>2
  <2>3. CASE got' # got
    <3>1. HasLine
      BY Zenon, <1>6, <2>3 DEF Dispatch
    <3>2. Len(got) < Len(due) /\ got' = Append(got, due[Len(got) + 1])
      BY Zenon, <1>6, <2>3, <3>1, LineDispatched DEF StreamInv
    <3>3. Phase # "closed"
      BY <2>1 DEF Phase, StreamInv, Control, IInv, JoinableReader, StoppedIsJoined
    <3>4. UNCHANGED <<Phase, conns, due>>
      BY <2>1 DEF Phase
    <3>5. QED
      BY <3>2, <3>3, <3>4 DEF Stream!Next, Stream!Deliver
  <2>4. QED
    BY Zenon, <2>2, <2>3
<1>7. CASE ReaderCheck \/ ReaderCall \/ RecvData \/ RecvEnd \/ ServerClose
  BY Zenon, <1>1, <1>7 DEF ReaderCheck, ReaderCall, RecvData, RecvEnd, ServerClose, socket
<1>8. ASSUME NEW k \in Kinds, ServerSend(k) PROVE [Stream!Next]_(Stream!vars)
  <2>1. CASE k \in Delivered
    <3>1. /\ due' = Append(due, Line(k)) /\ conns # 0
          /\ UNCHANGED <<owner, running, conns, got>>
      BY Zenon, <1>8, <2>1 DEF ServerSend, StreamInv, Control, Made
    <3>2. UNCHANGED Phase
      BY Zenon, <3>1 DEF Phase
    <3>3. QED
      BY <2>1, <3>1, <3>2 DEF Stream!Next, Stream!Send
  <2>2. CASE k \notin Delivered
    BY Zenon, <1>1, <1>8, <2>2 DEF ServerSend
  <2>3. QED
    BY Zenon, <2>1, <2>2
<1>9. ASSUME NEW k \in Kinds, SendLine(k) PROVE [Stream!Next]_(Stream!vars)
  BY Zenon, <1>1, <1>9 DEF SendLine, socket
<1>10. CASE UNCHANGED vars
  BY Zenon, <1>1, <1>10 DEF vars, socket
<1>11. QED
  BY Zenon, <1>2, <1>3, <1>4, <1>5, <1>6, <1>7, <1>8, <1>9, <1>10
     DEF Next, StopStep, ReaderStep

\* Behind recv, which cuts lines anywhere, and Stop, which races the reader at every
\* access to running_ and sock_fd_, the callbacks see a MessageStream: whole lines,
\* in order, each once, and none after Stop (ReaderLoop, ParseAndDispatch, Start, Stop).
\* That nothing is held back and Stop returns is liveness.
THEOREM SignalingImplementsStream == Spec => Stream!Safety
<1>1. Init => Stream!Init /\ StreamInv
  <2> SUFFICES ASSUME Init PROVE Stream!Init /\ StreamInv
    OBVIOUS
  <2>1. buf = <<>> /\ wire = <<>> /\ got = <<>> /\ due = <<>>
    BY Zenon DEF Init
  <2>2. <<>> \in Seq(Bytes) /\ <<>> \in Seq(LineSet)
    OBVIOUS
  <2>3. Buffers
    BY Zenon, <2>1, <2>2, NothingLeft DEF Buffers
  <2>4. Stream!Init
    BY DEF Init, Stream!Init, Phase
  <2>5. QED
    BY Zenon, <2>3, <2>4, ControlInit DEF StreamInv
<1>2. StreamInv /\ [Next]_vars => StreamInv'
  BY Zenon, ControlStep, BuffersStep DEF StreamInv
<1>3. QED
  BY <1>1, <1>2, StreamStep, PTL DEF Spec, Stream!Safety
=============================================================================
