--------------------------- MODULE MessageStream ---------------------------
(***************************************************************************)
(* What the signaling client promises to the receivers that use it,        *)
(* whatever the socket does: on each connection the messages of the server *)
(* reach the callbacks one by one, whole and in order; none is held back   *)
(* while the client is open, and none is delivered once it is closed.      *)
(* This is the input ReceiverNegotiation, ReceiverSession and              *)
(* WebViewReceiver assume.                                                 *)
(***************************************************************************)
EXTENDS Naturals, Sequences

CONSTANT Messages  \* what reaches a callback

VARIABLES
  phase,  \* open, closing (the owner is in Stop), closed
  conn,   \* connections made so far
  sent,   \* messages sent to this connection
  got     \* messages delivered on this connection

vars == <<phase, conn, sent, got>>

Init == phase = "closed" /\ conn = 0 /\ sent = <<>> /\ got = <<>>

Open ==
  /\ phase = "closed"
  /\ phase' = "open" /\ conn' = conn + 1 /\ sent' = <<>> /\ got' = <<>>

Send(m) ==
  /\ conn # 0
  /\ sent' = Append(sent, m)
  /\ UNCHANGED <<phase, conn, got>>

Deliver ==
  /\ phase # "closed" /\ Len(got) < Len(sent)
  /\ got' = Append(got, sent[Len(got) + 1])
  /\ UNCHANGED <<phase, conn, sent>>

\* Close may be called at any time, also when there is nothing to close.
Close == phase' = "closing" /\ UNCHANGED <<conn, sent, got>>

Closed == phase = "closing" /\ phase' = "closed" /\ UNCHANGED <<conn, sent, got>>

Next == Open \/ Deliver \/ Close \/ Closed \/ \E m \in Messages : Send(m)

\* Close returns, and what is sent is delivered or the client is closed.
Progress ==
  /\ phase = "closing" ~> phase = "closed"
  /\ [](<>(Len(got) = Len(sent)) \/ <>(phase # "open"))

Safety == Init /\ [][Next]_vars
Spec == Safety /\ Progress
=============================================================================
