-------------------------- MODULE SignalingClient --------------------------
(***************************************************************************)
(* The TCP signaling client (src/signaling_client.cpp): the owner's Start  *)
(* and Stop, the reader thread that cuts the byte stream into lines, and   *)
(* SendLine.  running_ and sock_fd_ are shared without a lock, so Stop and *)
(* the reader's loop are split at every access.  Only the socket calls are *)
(* external: recv returns any part of what has arrived, a local shutdown   *)
(* or the server's close ends a recv that finds nothing, close alone does  *)
(* not wake one, and send may take only a part of a line.                  *)
(*                                                                         *)
(* A message is its kind; on the wire it is two bytes and a newline, which *)
(* is enough for a line to be cut at every place.                          *)
(***************************************************************************)
EXTENDS Naturals, Sequences, SequencesExt

CONSTANTS
  Kinds,      \* what the server sends
  Delivered,  \* the kinds that ParseAndDispatch passes to a callback
  MaxMsgs,    \* bound: messages the server sends on a connection
  MaxWrites,  \* bound: messages the client sends on a connection
  MaxConns    \* bound: connections

NL == "\n"
ASSUME SignalingAssumption ==
  /\ NL \notin Kinds /\ Delivered \subseteq Kinds
  /\ MaxMsgs \in Nat /\ MaxWrites \in Nat /\ MaxConns \in Nat

VARIABLES
  owner,    \* where the thread that calls Start and Stop is
  running,  \* running_
  fd,       \* sock_fd_ >= 0
  thread,   \* reader_thread_ holds a thread that is not joined
  reader,   \* where the reader thread is
  buf,      \* the reader's buf
  got,      \* messages passed to a callback on this connection
  conns,    \* connections made so far
  shut,     \* the socket is shut down by the client
  closed,   \* ... closed by the client
  eof,      \* ... closed by the server
  wire,     \* bytes that have arrived and are not received
  sent,     \* how many messages the server has sent on this connection
  due,      \* history: the lines among them that are for a callback
  written,  \* messages SendLine was called with on this connection
  out       \* bytes the server has received

socket == <<shut, closed, eof, wire, sent, due>>
output == <<written, out>>
vars == <<owner, running, fd, thread, reader, buf, got, conns, socket, output>>

Line(k) == <<k, k, NL>>

Init ==
  /\ owner = "idle" /\ running = FALSE /\ fd = FALSE /\ thread = FALSE
  /\ reader = "none" /\ buf = <<>> /\ got = <<>>
  /\ conns = 0 /\ shut = FALSE /\ closed = TRUE /\ eof = FALSE
  /\ wire = <<>> /\ sent = 0 /\ due = <<>> /\ written = <<>> /\ out = <<>>

-----------------------------------------------------------------------------
(* The owner.                                                              *)

\* Start, when Connect succeeds.  When it fails, or when running_ is set,
\* nothing changes.
Start ==
  /\ owner = "idle" /\ ~running /\ conns < MaxConns
  /\ conns' = conns + 1
  /\ shut' = FALSE /\ closed' = FALSE /\ eof' = FALSE
  /\ wire' = <<>> /\ sent' = 0 /\ due' = <<>> /\ written' = <<>> /\ out' = <<>>
  /\ fd' = TRUE /\ running' = TRUE
  /\ thread' = TRUE /\ reader' = "check" /\ buf' = <<>> /\ got' = <<>>
  /\ UNCHANGED owner

Stop ==
  /\ owner = "idle"
  /\ running' = FALSE
  /\ owner' = IF fd THEN "shutdown" ELSE "join"
  /\ UNCHANGED <<fd, thread, reader, buf, got, conns, socket, output>>

StopShutdown ==
  /\ owner = "shutdown"
  /\ shut' = TRUE
  /\ owner' = "close"
  /\ UNCHANGED <<running, fd, thread, reader, buf, got, conns, closed, eof, wire,
                 sent, due, output>>

StopClose ==
  /\ owner = "close"
  /\ closed' = TRUE /\ fd' = FALSE
  /\ owner' = "join"
  /\ UNCHANGED <<running, thread, reader, buf, got, conns, shut, eof, wire, sent,
                 due, output>>

\* Mutated StopJoin: the reader is left to end by itself.
StopJoin_Detaches ==
  /\ owner = "join"
  /\ thread' = FALSE
  /\ owner' = "idle"
  /\ UNCHANGED <<running, fd, reader, buf, got, conns, socket, output>>

StopJoin ==
  /\ owner = "join"
  /\ thread => reader = "exited"
  /\ thread' = FALSE /\ reader' = "none"
  /\ owner' = "idle"
  /\ UNCHANGED <<running, fd, buf, got, conns, socket, output>>

-----------------------------------------------------------------------------
(* The reader thread.                                                      *)

ReaderCheck ==
  /\ reader = "check"
  /\ reader' = IF running /\ fd THEN "call" ELSE "exited"
  /\ UNCHANGED <<owner, running, fd, thread, buf, got, conns, socket, output>>

\* recv is called: a closed descriptor ends the loop.
ReaderCall ==
  /\ reader = "call"
  /\ reader' = IF closed THEN "exited" ELSE "recv"
  /\ UNCHANGED <<owner, running, fd, thread, buf, got, conns, socket, output>>

RecvData ==
  /\ reader = "recv" /\ wire # <<>>
  /\ \E n \in 1..Len(wire) :
       /\ buf' = buf \o SubSeq(wire, 1, n)
       /\ wire' = SubSeq(wire, n + 1, Len(wire))
  /\ reader' = "dispatch"
  /\ UNCHANGED <<owner, running, fd, thread, got, conns, shut, closed, eof, sent,
                 due, output>>

\* Mutated RecvEnd: the reader takes back running_ when the server closes.
RecvEnd_ClearsRunning ==
  /\ reader = "recv" /\ wire = <<>> /\ (shut \/ eof)
  /\ reader' = "exited"
  /\ running' = FALSE
  /\ UNCHANGED <<owner, fd, thread, buf, got, conns, socket, output>>

\* recv returns 0 (or an error, which ends the loop likewise): running_ and
\* sock_fd_ stay as they are.
RecvEnd ==
  /\ reader = "recv" /\ wire = <<>> /\ (shut \/ eof)
  /\ reader' = "exited"
  /\ UNCHANGED <<owner, running, fd, thread, buf, got, conns, socket, output>>

HasLine == NL \in ToSet(buf)
LineEnd == SelectInSeq(buf, LAMBDA b : b = NL)

\* Mutated Dispatch: only the first line of what recv returned is taken.
Dispatch_OneLine ==
  /\ reader = "dispatch"
  /\ IF HasLine
       THEN /\ buf' = SubSeq(buf, LineEnd + 1, Len(buf))
            /\ got' = IF Head(buf) \in Delivered THEN Append(got, SubSeq(buf, 1, LineEnd))
                      ELSE got
       ELSE UNCHANGED <<buf, got>>
  /\ reader' = "check"
  /\ UNCHANGED <<owner, running, fd, thread, conns, socket, output>>

\* One turn of the inner loop: the first line is cut off and dispatched.
Dispatch ==
  /\ reader = "dispatch"
  /\ IF HasLine
       THEN /\ buf' = SubSeq(buf, LineEnd + 1, Len(buf))
            /\ got' = IF Head(buf) \in Delivered THEN Append(got, SubSeq(buf, 1, LineEnd))
                      ELSE got
            /\ reader' = reader
       ELSE /\ UNCHANGED <<buf, got>>
            /\ reader' = "check"
  /\ UNCHANGED <<owner, running, fd, thread, conns, socket, output>>

-----------------------------------------------------------------------------
(* The server, and SendLine on any thread.                                 *)

ServerSend(k) ==
  /\ ~closed /\ ~eof /\ sent < MaxMsgs
  /\ sent' = sent + 1
  /\ due' = IF k \in Delivered THEN Append(due, Line(k)) ELSE due
  /\ wire' = wire \o Line(k)
  /\ UNCHANGED <<owner, running, fd, thread, reader, buf, got, conns, shut, closed,
                 eof, output>>

ServerClose ==
  /\ ~closed /\ ~eof
  /\ eof' = TRUE
  /\ UNCHANGED <<owner, running, fd, thread, reader, buf, got, conns, shut, closed,
                 wire, sent, due, output>>

\* The number of bytes that send took is not looked at.
SendLine(k) ==
  /\ fd /\ Len(written) < MaxWrites
  /\ written' = Append(written, k)
  /\ \E n \in 0..Len(Line(k)) : out' = out \o SubSeq(Line(k), 1, n)
  /\ UNCHANGED <<owner, running, fd, thread, reader, buf, got, conns, socket>>

-----------------------------------------------------------------------------
StopStep == StopShutdown \/ StopClose \/ StopJoin
ReaderStep == ReaderCheck \/ ReaderCall \/ RecvData \/ RecvEnd \/ Dispatch
Next ==
  \/ Start \/ Stop \/ StopStep \/ ReaderStep
  \/ ServerClose \/ \E k \in Kinds : ServerSend(k) \/ SendLine(k)
Spec == Init /\ [][Next]_vars

\* A thread that can run does; nobody has to call, to send or to close.
FairSpec == Spec /\ WF_vars(StopStep) /\ WF_vars(ReaderStep)

-----------------------------------------------------------------------------
(* Properties.                                                             *)

\* Start never replaces a reader thread that has not been joined (assigning over
\* a joinable std::thread ends the process), also after the server has closed.
OneReader == [][conns' # conns => ~thread]_vars

\* Once Stop has returned no callback runs any more: the object may be deleted.
NoCallbackAfterStop == ~running /\ owner = "idle" => reader \in {"none", "exited"}

-----------------------------------------------------------------------------
(* The client implements MessageStream: a message is delivered when its    *)
(* line is dispatched, and Stop is under way from clearing running_ to the *)
(* join.                                                                   *)

Phase == IF running THEN "open" ELSE IF owner = "idle" THEN "closed" ELSE "closing"

Stream == INSTANCE MessageStream WITH
  Messages <- {Line(k) : k \in Delivered}, phase <- Phase, conn <- conns,
  sent <- due

\* Behind recv, which cuts lines anywhere, Stop, which races the reader at every
\* access to running_ and sock_fd_, and a server that may close, the callbacks
\* see a MessageStream: whole lines, in order, once, without waiting for more input, never
\* after Stop; and Stop always returns.
ImplementsMessageStream == Stream!Spec
=============================================================================
